--------------------------- MODULE JsonTextProofs ---------------------------
(***************************************************************************)
(* Lemmas about the text of a JSON document.                               *)
(***************************************************************************)
EXTENDS JsonText, SequenceTheorems, WellFoundedInduction, TLAPS

-----------------------------------------------------------------------------
(* The recursive definitions, with the recursion as a parameter. *)

JsonDef(p, json, n) ==
  IF n = 0 THEN Leaves
  ELSE Leaves \cup ArraysOf(json[n - 1]) \cup ObjectsOf(json[n - 1])

NumeralDef(p, numeral, i) ==
  IF i < 10 THEN <<Digit[i + 1]>> ELSE Append(numeral[i \div 10], Digit[(i % 10) + 1])

FlattenDef(seqs, flatten, i) == IF i = 1 THEN seqs[i] ELSE flatten[i - 1] \o seqs[i]

TextDef(p, text, n) ==
  [tree \in Json[n] |-> [prefix \in Path |->
     IF tree.kind = "leaf" THEN Rendered(prefix, tree.value)
     ELSE JoinLines([i \in DOMAIN tree.items |->
                       text[n - 1][tree.items[i]][ItemPath(prefix, tree, i)]])]]

LinesDef(p, leafLines, n) ==
  [tree \in Json[n] |-> [prefix \in Path |->
     IF tree.kind = "leaf" THEN <<[path |-> prefix, value |-> tree.value]>>
     ELSE FlattenSeq([i \in DOMAIN tree.items |->
                        leafLines[n - 1][tree.items[i]][ItemPath(prefix, tree, i)]])]]

NodesDef(p, nodes, n) ==
  [tree \in Json[n] |->
     {<<<<>>, tree>>} \cup
     UNION {{Below(i, q) : q \in nodes[n - 1][tree.items[i]]} :
              i \in DOMAIN tree.items}]

J == INSTANCE NatRecursion WITH Def <- JsonDef
D == INSTANCE NatRecursion WITH Def <- NumeralDef
F == INSTANCE NatRecursion WITH Def <- FlattenDef
T == INSTANCE NatRecursion WITH Def <- TextDef
L == INSTANCE NatRecursion WITH Def <- LinesDef
N == INSTANCE NatRecursion WITH Def <- NodesDef

\* For reference: the scalars of a value with their paths, in the order of the text.
LeafLines[n \in Nat] ==
  [tree \in Json[n] |-> [prefix \in Path |->
     IF tree.kind = "leaf" THEN <<[path |-> prefix, value |-> tree.value]>>
     ELSE FlattenSeq([i \in DOMAIN tree.items |->
                        LeafLines[n - 1][tree.items[i]][ItemPath(prefix, tree, i)]])]]

-----------------------------------------------------------------------------
(* JSON values *)

\* Json is the function that its definition describes.
LEMMA JsonEquation == Json = [n \in Nat |-> JsonDef(0, Json, n)]
<1>1. Json = CHOOSE g : g = [n \in Nat |-> JsonDef(0, g, n)]
  BY DEF Json, JsonDef
<1>2. \A g, h : \A n \in Nat :
        (\A m \in Nat : m < n => g[m] = h[m]) => JsonDef(0, g, n) = JsonDef(0, h, n)
  <2> TAKE g, h
  <2> TAKE n \in Nat
  <2> HAVE \A m \in Nat : m < n => g[m] = h[m]
  <2>1. n # 0 => g[n - 1] = h[n - 1]
    OBVIOUS
  <2> QED BY <2>1 DEF JsonDef
<1> HIDE DEF JsonDef
<1> QED BY <1>1, <1>2, J!RecursiveFunction

\* A scalar has no items, a container the items that its kind has.
LEMMA JsonCases ==
  ASSUME NEW n \in Nat, NEW tree \in Json[n]
  PROVE  /\ tree.kind = "leaf" => /\ tree.value \in Scalars
                                  /\ tree.items = <<>> /\ tree.keys = <<>>
         /\ tree.kind # "leaf" => /\ n # 0 /\ n - 1 \in Nat
                                  /\ tree.items \in Seq(Json[n - 1])
         /\ tree.kind \notin {"leaf", "object"} => tree.kind = "array" /\ tree.keys = <<>>
         /\ tree.kind = "object" => /\ tree.keys \in Seq(Path)
                                    /\ Len(tree.keys) = Len(tree.items)
                                    /\ \A i, j \in DOMAIN tree.keys :
                                         tree.keys[i] = tree.keys[j] => i = j
<1>1. Json[n] = JsonDef(0, Json, n)
  <2> HIDE DEF JsonDef
  <2> QED BY JsonEquation
<1>2. \/ tree \in Leaves
      \/ n # 0 /\ tree \in ArraysOf(Json[n - 1])
      \/ n # 0 /\ tree \in ObjectsOf(Json[n - 1])
  BY <1>1 DEF JsonDef
<1>3. CASE tree \in Leaves
  <2>1. tree.kind = "leaf" /\ tree.value \in Scalars /\ tree.items = <<>> /\ tree.keys = <<>>
    BY <1>3 DEF Leaves
  <2> QED BY <2>1
<1>4. CASE n # 0 /\ tree \in ArraysOf(Json[n - 1])
  <2>1. tree.kind = "array" /\ tree.keys = <<>> /\ tree.items \in Seq(Json[n - 1])
    BY <1>4 DEF ArraysOf
  <2> QED BY <2>1, <1>4
<1>5. CASE n # 0 /\ tree \in ObjectsOf(Json[n - 1])
  <2>1. /\ tree.kind = "object" /\ tree.items \in Seq(Json[n - 1]) /\ tree.keys \in Seq(Path)
        /\ Len(tree.keys) = Len(tree.items) /\ IsInjective(tree.keys)
    BY <1>5 DEF ObjectsOf
  <2> QED BY <2>1, <1>5 DEF IsInjective
<1> QED BY <1>2, <1>3, <1>4, <1>5

-----------------------------------------------------------------------------
(* Numerals *)

\* Numeral is the function that its definition describes.
LEMMA NumeralEquation ==
  ASSUME NEW i \in Nat
  PROVE  /\ i < 10 => Numeral[i] = <<Digit[i + 1]>>
         /\ i >= 10 => Numeral[i] = Append(Numeral[i \div 10], Digit[(i % 10) + 1])
<1>1. Numeral = CHOOSE g : g = [n \in Nat |-> NumeralDef(0, g, n)]
  BY DEF Numeral, NumeralDef
<1>2. \A g, h : \A n \in Nat :
        (\A m \in Nat : m < n => g[m] = h[m]) => NumeralDef(0, g, n) = NumeralDef(0, h, n)
  <2> TAKE g, h
  <2> TAKE n \in Nat
  <2> HAVE \A m \in Nat : m < n => g[m] = h[m]
  <2>1. n >= 10 => n \div 10 \in Nat /\ n \div 10 < n
    OBVIOUS
  <2> QED BY <2>1 DEF NumeralDef
<1>3. Numeral = [n \in Nat |-> NumeralDef(0, Numeral, n)]
  <2> HIDE DEF NumeralDef
  <2> QED BY <1>1, <1>2, D!RecursiveFunction
<1>4. Numeral[i] = NumeralDef(0, Numeral, i)
  <2> HIDE DEF NumeralDef
  <2> QED BY <1>3
<1> QED BY <1>4 DEF NumeralDef

\* The digits are ten characters, none of which is a bracket.
LEMMA DigitChars ==
  /\ "]" \notin Digits
  /\ \A d, e \in 0 .. 9 : Digit[d + 1] = Digit[e + 1] => d = e
  /\ \A d \in 0 .. 9 : Digit[d + 1] \in Digits
<1>1. \A d \in 1 .. 10 : Digit[d] # "]"
  <2> TAKE d \in 1 .. 10
  <2>1. d = 1 \/ d = 2 \/ d = 3 \/ d = 4 \/ d = 5 \/ d = 6 \/ d = 7 \/ d = 8 \/ d = 9 \/ d = 10
    OBVIOUS
  <2>2. /\ Digit[1] = "0" /\ Digit[2] = "1" /\ Digit[3] = "2" /\ Digit[4] = "3" /\ Digit[5] = "4"
        /\ Digit[6] = "5" /\ Digit[7] = "6" /\ Digit[8] = "7" /\ Digit[9] = "8" /\ Digit[10] = "9"
    BY DEF Digit
  <2> HIDE DEF Digit
  <2> QED BY <2>1, <2>2
<1>2. \A d, e \in 0 .. 9 : Digit[d + 1] = Digit[e + 1] => d = e
  BY DEF Digit
<1>3. \A d \in 0 .. 9 : d + 1 \in 1 .. 10
  OBVIOUS
<1> HIDE DEF Digit
<1> QED BY <1>1, <1>2, <1>3 DEF Digits

\* A numeral is made of digits, and of one at least.
LEMMA NumeralType ==
  ASSUME NEW i \in Nat
  PROVE  Numeral[i] \in Seq(Digits) /\ Numeral[i] # <<>>
<1> DEFINE Bad == {j \in Nat : ~(Numeral[j] \in Seq(Digits) /\ Numeral[j] # <<>>)}
<1>1. SUFFICES ASSUME Bad # {} PROVE FALSE
  OBVIOUS
<1>2. PICK j \in Bad : \A y \in Bad : j <= y
  <2> HIDE DEF Bad
  <2>1. Bad \in SUBSET Nat
    BY DEF Bad
  <2> QED BY <1>1, <2>1, D!LeastElement
<1>3. CASE j < 10
  <2>1. Numeral[j] = <<Digit[j + 1]>>
    BY <1>3, NumeralEquation
  <2>2. Digit[j + 1] \in Digits
    BY <1>3, DigitChars
  <2>3. Numeral[j] \in Seq(Digits) /\ Numeral[j] # <<>>
    <3> HIDE DEF Digits, Digit
    <3> QED BY <2>1, <2>2
  <2> QED BY <1>2, <2>3
<1>4. CASE j >= 10
  <2>1. j \div 10 \in Nat /\ j \div 10 < j /\ (j % 10) \in 0 .. 9
    BY <1>4
  <2>2. Numeral[j \div 10] \in Seq(Digits)
    BY <1>2, <2>1
  <2>3. Numeral[j] = Append(Numeral[j \div 10], Digit[(j % 10) + 1])
    BY <1>4, NumeralEquation
  <2>4. Digit[(j % 10) + 1] \in Digits
    BY <2>1, DigitChars
  <2>5. Numeral[j] \in Seq(Digits) /\ Numeral[j] # <<>>
    <3> HIDE DEF Digits, Digit
    <3> QED BY <2>2, <2>3, <2>4, AppendProperties
  <2> QED BY <1>2, <2>5
<1> QED BY <1>3, <1>4

\* Different numbers are written differently.
LEMMA NumeralInjective ==
  ASSUME NEW i \in Nat, NEW j \in Nat, Numeral[i] = Numeral[j]
  PROVE  i = j
<1> DEFINE Bad == {k \in Nat : \E l \in Nat : Numeral[k] = Numeral[l] /\ k # l}
<1>1. SUFFICES ASSUME Bad # {} PROVE FALSE
  OBVIOUS
<1>2. PICK k \in Bad : \A y \in Bad : k <= y
  <2> HIDE DEF Bad
  <2>1. Bad \in SUBSET Nat
    BY DEF Bad
  <2> QED BY <1>1, <2>1, D!LeastElement
<1>3. PICK l \in Nat : Numeral[k] = Numeral[l] /\ k # l
  OBVIOUS
<1>4. \A m \in Nat : /\ m < 10 => /\ m \in 0 .. 9
                                  /\ Numeral[m] = <<Digit[m + 1]>>
                     /\ m >= 10 => /\ m \div 10 \in Nat /\ m \div 10 < m /\ (m % 10) \in 0 .. 9
                                   /\ m = 10 * (m \div 10) + (m % 10)
                                   /\ Numeral[m] = Append(Numeral[m \div 10], Digit[(m % 10) + 1])
  <2> TAKE m \in Nat
  <2>1. m < 10 => m \in 0 .. 9 /\ Numeral[m] = <<Digit[m + 1]>>
    BY NumeralEquation
  <2>2. m >= 10 => Numeral[m] = Append(Numeral[m \div 10], Digit[(m % 10) + 1])
    BY NumeralEquation
  <2>3. m >= 10 => /\ m \div 10 \in Nat /\ m \div 10 < m /\ (m % 10) \in 0 .. 9
                   /\ m = 10 * (m \div 10) + (m % 10)
    OBVIOUS
  <2> QED BY <2>1, <2>2, <2>3
<1> HIDE DEF Bad
<1>5. k \in Nat
  BY DEF Bad
<1>6. \A m \in Nat : m >= 10 => Len(Numeral[m]) > 1
  <2> TAKE m \in Nat
  <2> HAVE m >= 10
  <2>1. Numeral[m \div 10] \in Seq(Digits) /\ Numeral[m \div 10] # <<>>
    BY <1>4, NumeralType
  <2>2. Numeral[m] = Append(Numeral[m \div 10], Digit[(m % 10) + 1])
    BY <1>4
  <2> QED BY <2>1, <2>2
<1>7. CASE k < 10 /\ l < 10
  <2>1. Digit[k + 1] = Digit[l + 1]
    BY <1>3, <1>4, <1>5, <1>7
  <2> QED BY <1>3, <1>4, <1>5, <1>7, <2>1, DigitChars
<1>8. CASE (k < 10 /\ l >= 10) \/ (k >= 10 /\ l < 10)
  <2>1. ASSUME NEW m \in Nat, m < 10 PROVE Len(Numeral[m]) = 1
    <3>1. Numeral[m] = <<Digit[m + 1]>>
      BY <1>4, <2>1
    <3> HIDE DEF Digit
    <3> QED BY <3>1
  <2>2. k < 10 /\ l >= 10 => Len(Numeral[k]) = 1 /\ Len(Numeral[l]) > 1
    BY <1>5, <1>6, <2>1
  <2>3. k >= 10 /\ l < 10 => Len(Numeral[k]) > 1 /\ Len(Numeral[l]) = 1
    BY <1>5, <1>6, <2>1
  <2>4. Len(Numeral[k]) = Len(Numeral[l])
    BY <1>3
  <2>5. ~(1 > 1)
    OBVIOUS
  <2> QED BY <1>8, <2>2, <2>3, <2>4, <2>5
<1>9. CASE k >= 10 /\ l >= 10
  <2>1. /\ Numeral[k \div 10] \in Seq(Digits) /\ Numeral[l \div 10] \in Seq(Digits)
    BY <1>4, <1>5, <1>9, NumeralType
  <2>2. /\ Numeral[k] = Append(Numeral[k \div 10], Digit[(k % 10) + 1])
        /\ Numeral[l] = Append(Numeral[l \div 10], Digit[(l % 10) + 1])
    BY <1>4, <1>5, <1>9
  <2>3. Digit[(k % 10) + 1] \in Digits /\ Digit[(l % 10) + 1] \in Digits
    BY <1>4, <1>5, <1>9, DigitChars
  <2>4. Numeral[k \div 10] = Numeral[l \div 10] /\ Digit[(k % 10) + 1] = Digit[(l % 10) + 1]
    <3> DEFINE s == Numeral[k \div 10]
               t == Numeral[l \div 10]
               e == Digit[(k % 10) + 1]
               f == Digit[(l % 10) + 1]
    <3>1. s \in Seq(Digits) /\ t \in Seq(Digits) /\ e \in Digits /\ f \in Digits
      BY <2>1, <2>3
    <3>2. Append(s, e) = Append(t, f)
      BY <1>3, <2>2
    <3> HIDE DEF Digits, s, t, e, f
    <3>3. s = t /\ e = f
      BY <3>1, <3>2, AppendInjective
    <3> QED BY <3>3 DEF s, t, e, f
  <2>5. k % 10 = l % 10
    BY <1>4, <1>5, <1>9, <2>4, DigitChars
  <2>6. k \div 10 = l \div 10
    <3>1. k \div 10 \notin Bad
      BY <1>2, <1>4, <1>5, <1>9
    <3> QED BY <1>4, <1>5, <1>9, <2>4, <3>1 DEF Bad
  <2> QED BY <1>3, <1>4, <1>5, <1>9, <2>5, <2>6
<1> QED BY <1>5, <1>7, <1>8, <1>9

-----------------------------------------------------------------------------
(* Concatenation *)

\* q lists the elements of the first n of seqs in their order: its k-th is the
\* one at place[k] of the sequence number which[k].
Lists(q, seqs, n, which, place) ==
  /\ \A k \in 1 .. Len(q) : /\ which[k] \in 1 .. n
                            /\ place[k] \in 1 .. Len(seqs[which[k]])
                            /\ q[k] = seqs[which[k]][place[k]]
  /\ \A k, l \in 1 .. Len(q) : which[k] = which[l] /\ place[k] = place[l] => k = l
  /\ \A i \in 1 .. n : \A m \in 1 .. Len(seqs[i]) :
       \E k \in 1 .. Len(q) : which[k] = i /\ place[k] = m

\* One more sequence is appended.
LEMMA ListsAppended ==
  ASSUME NEW X, NEW n \in Nat, NEW seqs, seqs[n + 1] \in Seq(X),
         NEW q \in Seq(X), NEW which, NEW place, Lists(q, seqs, n, which, place)
  PROVE  /\ q \o seqs[n + 1] \in Seq(X)
         /\ \E w, p : Lists(q \o seqs[n + 1], seqs, n + 1, w, p)
<1> DEFINE s == seqs[n + 1]
           r == q \o s
           w == [k \in 1 .. Len(r) |-> IF k <= Len(q) THEN which[k] ELSE n + 1]
           p == [k \in 1 .. Len(r) |-> IF k <= Len(q) THEN place[k] ELSE k - Len(q)]
<1>1. /\ r \in Seq(X) /\ Len(r) = Len(q) + Len(s)
      /\ Len(q) \in Nat /\ Len(s) \in Nat
      /\ \A k \in 1 .. Len(r) : r[k] = IF k <= Len(q) THEN q[k] ELSE s[k - Len(q)]
  OBVIOUS
<1> HIDE DEF r
<1>2. \A k \in 1 .. Len(r) : /\ w[k] = IF k <= Len(q) THEN which[k] ELSE n + 1
                             /\ p[k] = IF k <= Len(q) THEN place[k] ELSE k - Len(q)
  OBVIOUS
<1>3. \A k \in 1 .. Len(q) : /\ which[k] \in 1 .. n /\ which[k] # n + 1
                             /\ place[k] \in 1 .. Len(seqs[which[k]])
                             /\ q[k] = seqs[which[k]][place[k]]
  BY DEF Lists
<1> HIDE DEF w, p
<1>4. ASSUME NEW k \in 1 .. Len(r)
      PROVE  /\ w[k] \in 1 .. n + 1
             /\ p[k] \in 1 .. Len(seqs[w[k]])
             /\ r[k] = seqs[w[k]][p[k]]
  <2>1. CASE k <= Len(q)
    <3>1. /\ k \in 1 .. Len(q) /\ w[k] = which[k] /\ p[k] = place[k] /\ r[k] = q[k]
      BY <1>1, <1>2, <2>1, SMTT(30)
    <3>2. which[k] \in 1 .. n + 1
      BY <1>3, <3>1
    <3> QED BY <1>3, <3>1, <3>2
  <2>2. CASE k > Len(q)
    <3>1. /\ w[k] = n + 1 /\ p[k] = k - Len(q) /\ r[k] = s[k - Len(q)]
          /\ k - Len(q) \in 1 .. Len(s)
      BY <1>1, <1>2, <2>2
    <3> QED BY <3>1
  <2> QED BY <1>1, <2>1, <2>2
<1>5. ASSUME NEW k \in 1 .. Len(r), NEW l \in 1 .. Len(r), w[k] = w[l], p[k] = p[l]
      PROVE  k = l
  <2>1. CASE k <= Len(q) /\ l <= Len(q)
    <3>1. k \in 1 .. Len(q) /\ l \in 1 .. Len(q) /\ which[k] = which[l] /\ place[k] = place[l]
      BY <1>1, <1>2, <1>5, <2>1
    <3> QED BY <3>1 DEF Lists
  <2>2. CASE k > Len(q) /\ l > Len(q)
    BY <1>1, <1>2, <1>5, <2>2
  <2>3. CASE k <= Len(q) /\ l > Len(q)
    BY <1>1, <1>2, <1>3, <1>5, <2>3
  <2>4. CASE k > Len(q) /\ l <= Len(q)
    BY <1>1, <1>2, <1>3, <1>5, <2>4
  <2> QED BY <1>1, <2>1, <2>2, <2>3, <2>4
<1>6. ASSUME NEW i \in 1 .. n + 1, NEW m \in 1 .. Len(seqs[i])
      PROVE  \E k \in 1 .. Len(r) : w[k] = i /\ p[k] = m
  <2>1. CASE i = n + 1
    <3>1. Len(q) + m \in 1 .. Len(r) /\ ~(Len(q) + m <= Len(q)) /\ (Len(q) + m) - Len(q) = m
      BY <1>1, <2>1
    <3> QED BY <1>2, <2>1, <3>1
  <2>2. CASE i \in 1 .. n
    <3>1. PICK k \in 1 .. Len(q) : which[k] = i /\ place[k] = m
      BY <2>2 DEF Lists
    <3>2. k \in 1 .. Len(r) /\ k <= Len(q)
      BY <1>1
    <3> QED BY <1>2, <3>1, <3>2
  <2> QED BY <2>1, <2>2
<1>7. Lists(r, seqs, n + 1, w, p)
  BY <1>4, <1>5, <1>6 DEF Lists
<1> QED BY <1>1, <1>7 DEF r

\* FlattenSeq appends the sequences one after the other.
LEMMA FlattenSteps ==
  ASSUME NEW X, NEW seqs \in Seq(Seq(X))
  PROVE  \E g : /\ g[0] = <<>>
                /\ \A i \in 1 .. Len(seqs) : g[i] = g[i - 1] \o seqs[i]
                /\ FlattenSeq(seqs) = g[Len(seqs)]
<1> DEFINE n == Len(seqs)
           flatten == CHOOSE g : g = [i \in 1 .. n |-> FlattenDef(seqs, g, i)]
           h == [i \in 0 .. n |-> IF i = 0 THEN <<>> ELSE flatten[i]]
<1>1. n \in Nat
  OBVIOUS
<1>2. flatten = [i \in 1 .. n |-> FlattenDef(seqs, flatten, i)]
  <2>1. 1 .. n \in SUBSET Nat
    OBVIOUS
  <2>2. \A g, f : \A i \in 1 .. n :
          (\A m \in 1 .. n : m < i => g[m] = f[m]) => FlattenDef(seqs, g, i) = FlattenDef(seqs, f, i)
    <3> TAKE g, f
    <3> TAKE i \in 1 .. n
    <3> HAVE \A m \in 1 .. n : m < i => g[m] = f[m]
    <3>1. i # 1 => i - 1 \in 1 .. n /\ i - 1 < i
      OBVIOUS
    <3>2. i # 1 => g[i - 1] = f[i - 1]
      BY <3>1
    <3> QED BY <3>2 DEF FlattenDef
  <2>3. \E g : g = [i \in 1 .. n |-> FlattenDef(seqs, g, i)]
    <3> HIDE DEF FlattenDef, n
    <3> QED BY <2>1, <2>2, F!FunctionExists
  <2> HIDE DEF FlattenDef, n
  <2> QED BY <2>3
<1>3. FlattenSeq(seqs) = IF n = 0 THEN <<>> ELSE flatten[n]
  BY DEF FlattenSeq, FlattenDef
<1> HIDE DEF flatten
<1>4. \A i \in 1 .. n : flatten[i] = IF i = 1 THEN seqs[i] ELSE flatten[i - 1] \o seqs[i]
  <2>1. \A i \in 1 .. n : flatten[i] = FlattenDef(seqs, flatten, i)
    <3> HIDE DEF FlattenDef
    <3> QED BY <1>2
  <2> QED BY <2>1 DEF FlattenDef
<1>5. \A i \in 1 .. n : <<>> \o seqs[i] = seqs[i]
  OBVIOUS
<1> HIDE DEF n
<1>6. h[0] = <<>> /\ \A i \in 1 .. n : h[i] = flatten[i]
  BY <1>1
<1>7. \A i \in 1 .. n : h[i] = h[i - 1] \o seqs[i]
  <2> TAKE i \in 1 .. n
  <2>1. CASE i = 1
    <3>1. h[i - 1] = <<>>
      BY <1>6, <2>1
    <3> QED BY <1>4, <1>5, <1>6, <2>1, <3>1
  <2>2. CASE i # 1
    <3>1. i - 1 \in 1 .. n
      BY <1>1, <2>2
    <3> QED BY <1>4, <1>6, <2>2, <3>1
  <2> QED BY <2>1, <2>2
<1>8. FlattenSeq(seqs) = h[n]
  <2>1. n # 0 => n \in 1 .. n
    BY <1>1
  <2> QED BY <1>3, <1>6, <2>1
<1> HIDE DEF h
<1> QED BY <1>6, <1>7, <1>8 DEF n

\* FlattenSeq lists the elements of all the sequences.
LEMMA FlattenSeqLists ==
  ASSUME NEW X, NEW seqs \in Seq(Seq(X))
  PROVE  /\ FlattenSeq(seqs) \in Seq(X)
         /\ \E w, p : Lists(FlattenSeq(seqs), seqs, Len(seqs), w, p)
<1>1. PICK g : /\ g[0] = <<>>
               /\ \A i \in 1 .. Len(seqs) : g[i] = g[i - 1] \o seqs[i]
               /\ FlattenSeq(seqs) = g[Len(seqs)]
  BY FlattenSteps
<1> DEFINE n == Len(seqs)
           Good(i) == /\ g[i] \in Seq(X)
                      /\ \E w, p : Lists(g[i], seqs, i, w, p)
           Bad == {i \in 0 .. n : ~Good(i)}
<1>2. n \in Nat /\ \A i \in 1 .. n : seqs[i] \in Seq(X)
  OBVIOUS
<1>3. Good(0)
  <2>1. Lists(<<>>, seqs, 0, <<>>, <<>>)
    BY DEF Lists
  <2> QED BY <1>1, <2>1
<1>4. SUFFICES ASSUME Bad # {} PROVE FALSE
  <2>1. n \in 0 .. n
    BY <1>2
  <2> HIDE DEF Good
  <2>2. Good(n)
    BY <2>1
  <2> QED BY <1>1, <2>2 DEF Good
<1>5. PICK i \in Bad : \A y \in Bad : i <= y
  <2> HIDE DEF Bad
  <2>1. Bad \in SUBSET Nat
    BY DEF Bad
  <2> QED BY <1>4, <2>1, F!LeastElement
<1> HIDE DEF n
<1>6. i \in 0 .. n /\ ~Good(i)
  OBVIOUS
<1>7. i # 0
  <2> HIDE DEF Good, Bad
  <2> QED BY <1>3, <1>6
<1>8. i \in 1 .. n /\ i - 1 \in 0 .. n /\ i - 1 \in Nat /\ (i - 1) + 1 = i
  <2> HIDE DEF Good, Bad
  <2> QED BY <1>2, <1>6, <1>7
<1>9. Good(i - 1)
  <2> HIDE DEF Good
  <2> QED BY <1>2, <1>5, <1>8
<1> HIDE DEF Bad
<1>10. PICK w, p : Lists(g[i - 1], seqs, i - 1, w, p)
  BY <1>9
<1>11. seqs[(i - 1) + 1] \in Seq(X) /\ g[i - 1] \in Seq(X)
  BY <1>2, <1>8, <1>9
<1>12. /\ g[i - 1] \o seqs[(i - 1) + 1] \in Seq(X)
       /\ \E v, o : Lists(g[i - 1] \o seqs[(i - 1) + 1], seqs, (i - 1) + 1, v, o)
  BY <1>8, <1>10, <1>11, ListsAppended
<1>13. g[i] = g[i - 1] \o seqs[i]
  BY <1>1, <1>8 DEF n
<1>14. Good(i)
  <2>1. /\ g[i] = g[i - 1] \o seqs[(i - 1) + 1]
    BY <1>8, <1>13
  <2> QED BY <1>8, <1>12, <2>1
<1> QED BY <1>6, <1>14

\* What comes after the first element.
LEMMA PrependAt ==
  ASSUME NEW a \in Nat, NEW s \in Seq(Nat), NEW k \in 1 .. Len(s)
  PROVE  (<<a>> \o s)[k + 1] = s[k]
OBVIOUS

\* Sequences that start with one element each are equal element by element.
LEMMA PrependInjective ==
  ASSUME NEW a \in Nat, NEW b \in Nat, NEW s \in Seq(Nat), NEW t \in Seq(Nat),
         <<a>> \o s = <<b>> \o t
  PROVE  a = b /\ s = t
<1>1. (<<a>> \o s)[1] = a /\ (<<b>> \o t)[1] = b
  OBVIOUS
<1>2. Len(s) = Len(t)
  <2>1. Len(<<a>> \o s) = 1 + Len(s) /\ Len(<<b>> \o t) = 1 + Len(t)
    OBVIOUS
  <2> QED BY <2>1
<1>3. ASSUME NEW k \in 1 .. Len(s) PROVE s[k] = t[k]
  <2>1. (<<a>> \o s)[k + 1] = s[k]
    BY PrependAt
  <2>2. k \in 1 .. Len(t)
    BY <1>2
  <2>3. (<<b>> \o t)[k + 1] = t[k]
    BY <2>2, PrependAt
  <2> QED BY <2>1, <2>3
<1> QED BY <1>1, <1>2, <1>3, SeqEqual

\* Where a text without stop characters ends is told by the stop that follows.
LEMMA UnambiguousPrefix ==
  ASSUME NEW X, NEW Stops, NEW a \in Seq(X), NEW b \in Seq(X), NEW x \in Seq(X), NEW y \in Seq(X),
         a \o x = b \o y,
         \A k \in 1 .. Len(a) : a[k] \notin Stops,
         \A k \in 1 .. Len(b) : b[k] \notin Stops,
         x = <<>> \/ x[1] \in Stops, y = <<>> \/ y[1] \in Stops
  PROVE  a = b
<1>1. /\ Len(a) \in Nat /\ Len(b) \in Nat /\ Len(x) \in Nat /\ Len(y) \in Nat
      /\ Len(a) + Len(x) = Len(b) + Len(y)
      /\ \A k \in 1 .. Len(a) : (a \o x)[k] = a[k]
      /\ \A k \in 1 .. Len(b) : (b \o y)[k] = b[k]
      /\ x # <<>> => Len(x) > 0 /\ (a \o x)[Len(a) + 1] = x[1]
      /\ y # <<>> => Len(y) > 0 /\ (b \o y)[Len(b) + 1] = y[1]
  <2>1. /\ Len(a) \in Nat /\ Len(b) \in Nat /\ Len(x) \in Nat /\ Len(y) \in Nat
        /\ Len(a \o x) = Len(a) + Len(x) /\ Len(b \o y) = Len(b) + Len(y)
    OBVIOUS
  <2>2. /\ \A k \in 1 .. Len(a) : (a \o x)[k] = a[k]
        /\ x # <<>> => Len(x) > 0 /\ (a \o x)[Len(a) + 1] = x[1]
    BY ConcatProperties, SMTT(30)
  <2>3. /\ \A k \in 1 .. Len(b) : (b \o y)[k] = b[k]
        /\ y # <<>> => Len(y) > 0 /\ (b \o y)[Len(b) + 1] = y[1]
    OBVIOUS
  <2> QED BY <2>1, <2>2, <2>3
<1> DEFINE c == a \o x
<1>2. c = b \o y
  OBVIOUS
<1>3. ASSUME Len(a) < Len(b) PROVE FALSE
  <2>1. x # <<>>
    <3>1. x = <<>> => Len(x) = 0
      OBVIOUS
    <3> QED BY <1>1, <1>3, <3>1
  <2>2. Len(a) + 1 \in 1 .. Len(b)
    BY <1>1, <1>3
  <2>3. b[Len(a) + 1] = x[1]
    BY <1>1, <1>2, <2>1, <2>2
  <2> QED BY <2>1, <2>2, <2>3
<1>4. ASSUME Len(b) < Len(a) PROVE FALSE
  <2>1. y # <<>>
    <3>1. y = <<>> => Len(y) = 0
      OBVIOUS
    <3> QED BY <1>1, <1>4, <3>1
  <2>2. Len(b) + 1 \in 1 .. Len(a)
    BY <1>1, <1>4
  <2>3. a[Len(b) + 1] = y[1]
    BY <1>1, <1>2, <2>1, <2>2
  <2> QED BY <2>1, <2>2, <2>3
<1>5. Len(a) = Len(b)
  BY <1>1, <1>3, <1>4
<1>6. \A k \in 1 .. Len(a) : a[k] = b[k]
  BY <1>1, <1>2, <1>5
<1> QED BY <1>5, <1>6, SeqEqual

-----------------------------------------------------------------------------
(* The text and the nodes of a value, from those of its items *)

\* LeafLines is the function that its definition describes.
LEMMA LinesCases ==
  ASSUME NEW n \in Nat, NEW tree \in Json[n], NEW prefix \in Path
  PROVE  /\ tree.kind = "leaf" =>
              LeafLines[n][tree][prefix] = <<[path |-> prefix, value |-> tree.value]>>
         /\ tree.kind # "leaf" =>
              LeafLines[n][tree][prefix] =
                FlattenSeq([i \in DOMAIN tree.items |->
                              LeafLines[n - 1][tree.items[i]][ItemPath(prefix, tree, i)]])
<1>1. LeafLines = CHOOSE g : g = [m \in Nat |-> LinesDef(0, g, m)]
  BY DEF LeafLines, LinesDef
<1>2. \A g, h : \A m \in Nat :
        (\A l \in Nat : l < m => g[l] = h[l]) => LinesDef(0, g, m) = LinesDef(0, h, m)
  <2> TAKE g, h
  <2> TAKE m \in Nat
  <2> HAVE \A l \in Nat : l < m => g[l] = h[l]
  <2>1. CASE m = 0
    <3>1. \A t \in Json[m] : t.kind = "leaf"
      BY <2>1, JsonCases
    <3> QED BY <3>1 DEF LinesDef
  <2>2. CASE m # 0
    <3>1. g[m - 1] = h[m - 1]
      BY <2>2
    <3> QED BY <3>1 DEF LinesDef
  <2> QED BY <2>1, <2>2
<1>3. LeafLines = [m \in Nat |-> LinesDef(0, LeafLines, m)]
  <2> HIDE DEF LinesDef
  <2> QED BY <1>1, <1>2, L!RecursiveFunction
<1>4. LeafLines[n] = LinesDef(0, LeafLines, n)
  <2> HIDE DEF LinesDef
  <2> QED BY <1>3
<1>5. LeafLines[n][tree][prefix] = LinesDef(0, LeafLines, n)[tree][prefix]
  <2> HIDE DEF LinesDef
  <2> QED BY <1>4
<1> QED BY <1>5 DEF LinesDef

\* Nodes is the function that its definition describes.
LEMMA NodesCases ==
  ASSUME NEW n \in Nat, NEW tree \in Json[n]
  PROVE  \A p : p \in Nodes[n][tree] <=>
           \/ p = <<<<>>, tree>>
           \/ \E i \in DOMAIN tree.items : \E q \in Nodes[n - 1][tree.items[i]] :
                p = Below(i, q)
<1>1. Nodes = CHOOSE g : g = [m \in Nat |-> NodesDef(0, g, m)]
  BY DEF Nodes, NodesDef
<1>2. \A g, h : \A m \in Nat :
        (\A l \in Nat : l < m => g[l] = h[l]) => NodesDef(0, g, m) = NodesDef(0, h, m)
  <2> TAKE g, h
  <2> TAKE m \in Nat
  <2> HAVE \A l \in Nat : l < m => g[l] = h[l]
  <2>1. CASE m = 0
    <3>1. \A t \in Json[m] : DOMAIN t.items = {}
      BY <2>1, JsonCases
    <3> QED BY <3>1 DEF NodesDef
  <2>2. CASE m # 0
    <3>1. g[m - 1] = h[m - 1]
      BY <2>2
    <3> QED BY <3>1 DEF NodesDef
  <2> QED BY <2>1, <2>2
<1>3. Nodes = [m \in Nat |-> NodesDef(0, Nodes, m)]
  <2> HIDE DEF NodesDef
  <2> QED BY <1>1, <1>2, N!RecursiveFunction
<1>4. Nodes[n] = NodesDef(0, Nodes, n)
  <2> HIDE DEF NodesDef
  <2> QED BY <1>3
<1> DEFINE Under(i) == {Below(i, q) : q \in Nodes[n - 1][tree.items[i]]}
           All == UNION {Under(i) : i \in DOMAIN tree.items}
<1>5. Nodes[n][tree] = {<<<<>>, tree>>} \cup All
  BY <1>4 DEF NodesDef
<1>6. \A p, i : p \in Under(i) <=>
        \E q \in Nodes[n - 1][tree.items[i]] : p = Below(i, q)
  OBVIOUS
<1> HIDE DEF Under
<1>7. \A p : p \in All <=> \E i \in DOMAIN tree.items : p \in Under(i)
  OBVIOUS
<1> HIDE DEF All
<1>8. \A p : p \in Nodes[n][tree] <=> p = <<<<>>, tree>> \/ p \in All
  BY <1>5
<1> QED BY <1>6, <1>7, <1>8

\* A node is a position and a value.
LEMMA NodesType ==
  ASSUME NEW n \in Nat, NEW tree \in Json[n], NEW p \in Nodes[n][tree]
  PROVE  p[1] \in Seq(Nat) /\ p = <<p[1], p[2]>>
<1> DEFINE Good(m) == \A t \in Json[m] : \A q \in Nodes[m][t] : q[1] \in Seq(Nat) /\ q = <<q[1], q[2]>>
           Bad == {m \in Nat : ~Good(m)}
<1>1. SUFFICES ASSUME Bad # {} PROVE FALSE
  OBVIOUS
<1>2. PICK m \in Bad : \A y \in Bad : m <= y
  <2> HIDE DEF Bad
  <2>1. Bad \in SUBSET Nat
    BY DEF Bad
  <2> QED BY <1>1, <2>1, N!LeastElement
<1>3. m - 1 \in Nat => Good(m - 1)
  <2> HIDE DEF Good
  <2> QED BY <1>2
<1>4. ASSUME NEW t \in Json[m], NEW q \in Nodes[m][t]
      PROVE  q[1] \in Seq(Nat) /\ q = <<q[1], q[2]>>
  <2>1. \/ q = <<<<>>, t>>
        \/ \E i \in DOMAIN t.items : \E r \in Nodes[m - 1][t.items[i]] : q = Below(i, r)
    <3> HIDE DEF Bad
    <3>1. m \in Nat
      BY DEF Bad
    <3> QED BY <3>1, NodesCases
  <2>2. CASE q = <<<<>>, t>>
    BY <2>2
  <2>3. ASSUME NEW i \in DOMAIN t.items, NEW r \in Nodes[m - 1][t.items[i]], q = Below(i, r)
        PROVE  q[1] \in Seq(Nat) /\ q = <<q[1], q[2]>>
    <3>1. m - 1 \in Nat /\ t.items[i] \in Json[m - 1] /\ i \in Nat
      BY JsonCases
    <3>2. r[1] \in Seq(Nat)
      BY <1>3, <3>1
    <3>3. <<i>> \o r[1] \in Seq(Nat)
      BY <3>1, <3>2
    <3> QED BY <2>3, <3>3 DEF Below
  <2> QED BY <2>1, <2>2, <2>3
<1> QED BY <1>2, <1>4

\* The leaves of a container are those of its items.
LEMMA LeavesCases ==
  ASSUME NEW n \in Nat, NEW tree \in Json[n]
  PROVE  /\ tree.kind = "leaf" => LeavesOf(n, tree) = {<<<<>>, tree>>}
         /\ tree.kind # "leaf" =>
              /\ \A i \in DOMAIN tree.items : \A q \in LeavesOf(n - 1, tree.items[i]) :
                   Below(i, q) \in LeavesOf(n, tree)
              /\ \A p \in LeavesOf(n, tree) :
                   \E i \in DOMAIN tree.items : \E q \in LeavesOf(n - 1, tree.items[i]) :
                     p = Below(i, q)
<1>1. CASE tree.kind = "leaf"
  <2>1. DOMAIN tree.items = {}
    BY <1>1, JsonCases
  <2>2. \A p : p \in Nodes[n][tree] <=> p = <<<<>>, tree>>
    BY <2>1, NodesCases
  <2> QED BY <1>1, <2>2 DEF LeavesOf
<1>2. CASE tree.kind # "leaf"
  <2>1. ASSUME NEW i \in DOMAIN tree.items, NEW q \in LeavesOf(n - 1, tree.items[i])
        PROVE  Below(i, q) \in LeavesOf(n, tree)
    <3>1. Below(i, q) \in Nodes[n][tree]
      BY NodesCases DEF LeavesOf
    <3>2. Below(i, q)[2] = q[2]
      BY DEF Below
    <3> QED BY <3>1, <3>2 DEF LeavesOf
  <2>2. ASSUME NEW p \in LeavesOf(n, tree)
        PROVE  \E i \in DOMAIN tree.items : \E q \in LeavesOf(n - 1, tree.items[i]) :
                 p = Below(i, q)
    <3>1. p # <<<<>>, tree>>
      BY <1>2 DEF LeavesOf
    <3>2. PICK i \in DOMAIN tree.items :
            \E q \in Nodes[n - 1][tree.items[i]] : p = Below(i, q)
      BY <3>1, NodesCases DEF LeavesOf
    <3>3. PICK q \in Nodes[n - 1][tree.items[i]] : p = Below(i, q)
      BY <3>2
    <3>4. p[2] = q[2]
      BY <3>3 DEF Below
    <3> QED BY <3>3, <3>4 DEF LeavesOf
  <2> QED BY <1>2, <2>1, <2>2
<1> QED BY <1>1, <1>2

\* The characters that the code itself writes.
LEMMA OwnChars ==
  /\ Digits \subseteq Chars /\ Newline \in Chars
  /\ "." \in Chars /\ "[" \in Chars /\ "]" \in Chars /\ ":" \in Chars /\ " " \in Chars
<1> USE JsonAssumption
<1>1. Digits \subseteq Chars
  OBVIOUS
<1>2. Newline \in Chars
  OBVIOUS
<1>3. {".", "[", "]", ":", " "} \subseteq Chars
  OBVIOUS
<1> QED BY <1>1, <1>2, <1>3

\* The marks of a path are paths.
LEMMA Brackets == <<".">> \in Path /\ <<"[">> \in Path /\ <<"]">> \in Path
<1>1. \A c \in Chars : <<c>> \in Seq(Chars)
  OBVIOUS
<1>2. "." \in Chars /\ "[" \in Chars /\ "]" \in Chars
  BY OwnChars
<1> QED BY <1>1, <1>2, Zenon DEF Path

\* So are numerals.
LEMMA DigitsAreText == \A s \in Seq(Digits) : s \in Path
<1>1. Digits \subseteq Chars
  BY OwnChars
<1> QED BY <1>1 DEF Path

\* An item has a path, and lies one level deeper than its container.
LEMMA ItemPathType ==
  ASSUME NEW n \in Nat, NEW tree \in Json[n], tree.kind # "leaf",
         NEW i \in DOMAIN tree.items, NEW prefix \in Path
  PROVE  /\ ItemPath(prefix, tree, i) \in Path
         /\ i \in Nat /\ i - 1 \in Nat /\ i \in 1 .. Len(tree.items)
         /\ n - 1 \in Nat /\ tree.items[i] \in Json[n - 1]
<1>1. /\ n - 1 \in Nat /\ tree.items[i] \in Json[n - 1]
      /\ i - 1 \in Nat /\ i \in Nat /\ i \in 1 .. Len(tree.items)
  BY JsonCases
<1>2. CASE tree.kind = "object"
  <2>1. tree.keys[i] \in Path
    BY <1>1, <1>2, JsonCases
  <2>2. <<".">> \in Path
    BY Brackets
  <2> QED BY <1>1, <1>2, <2>1, <2>2 DEF ItemPath, Path
<1>3. CASE tree.kind = "array"
  <2>1. Numeral[i - 1] \in Path
    BY <1>1, NumeralType, DigitsAreText
  <2>2. <<"[">> \in Path /\ <<"]">> \in Path
    BY Brackets
  <2> QED BY <1>1, <1>3, <2>1, <2>2 DEF ItemPath, Path
<1> QED BY <1>1, <1>2, <1>3, JsonCases

-----------------------------------------------------------------------------
(* Every scalar has one line *)

Line == [path : Path, value : Scalars]

\* Line k of the text of a value is the leaf tells[k] of that value.
Tells(tells, n, tree, prefix) ==
  LET lines == LeafLines[n][tree][prefix]
  IN  /\ \A k \in 1 .. Len(lines) : /\ tells[k] \in LeavesOf(n, tree)
                                   /\ lines[k].value = tells[k][2].value
      /\ \A k, l \in 1 .. Len(lines) : tells[k] = tells[l] => k = l
      /\ \A p \in LeavesOf(n, tree) : \E k \in 1 .. Len(lines) : tells[k] = p

Told(n, tree, prefix) ==
  /\ LeafLines[n][tree][prefix] \in Seq(Line)
  /\ \E tells : Tells(tells, n, tree, prefix)

\* The text of a container, when its items are told.
LEMMA ContainerIsTold ==
  ASSUME NEW n \in Nat, NEW tree \in Json[n], NEW prefix \in Path, tree.kind # "leaf",
         \A i \in DOMAIN tree.items : Told(n - 1, tree.items[i], ItemPath(prefix, tree, i))
  PROVE  Told(n, tree, prefix)
<1> DEFINE text(i) == LeafLines[n - 1][tree.items[i]][ItemPath(prefix, tree, i)]
           seqs == [i \in DOMAIN tree.items |-> text(i)]
           lines == LeafLines[n][tree][prefix]
           Itemwise(i, f) == Tells(f, n - 1, tree.items[i], ItemPath(prefix, tree, i))
           item == [i \in DOMAIN tree.items |-> CHOOSE f : Itemwise(i, f)]
<1>1. DOMAIN tree.items = 1 .. Len(tree.items) /\ Len(tree.items) \in Nat
  BY JsonCases
<1>2. /\ seqs \in Seq(Seq(Line)) /\ Len(seqs) = Len(tree.items)
      /\ \A i \in DOMAIN tree.items : seqs[i] = text(i)
  <2>1. \A i \in 1 .. Len(tree.items) : text(i) \in Seq(Line)
    BY <1>1 DEF Told
  <2> HIDE DEF text
  <2> QED BY <1>1, <2>1
<1>3. \A i \in DOMAIN tree.items : Itemwise(i, item[i])
  <2>1. \A i \in DOMAIN tree.items : \E f : Itemwise(i, f)
    BY DEF Told
  <2> HIDE DEF Itemwise
  <2> QED BY <2>1
<1>4. lines = FlattenSeq(seqs)
  BY LinesCases
<1> HIDE DEF seqs, lines, item
<1>5. /\ lines \in Seq(Line)
      /\ \E w, p : Lists(lines, seqs, Len(seqs), w, p)
  BY <1>2, <1>4, FlattenSeqLists
<1>6. PICK w, p : Lists(lines, seqs, Len(seqs), w, p)
  BY <1>5
<1> DEFINE tells == [k \in 1 .. Len(lines) |-> Below(w[k], item[w[k]][p[k]])]
<1>7. ASSUME NEW i \in DOMAIN tree.items, NEW m \in 1 .. Len(seqs[i])
      PROVE  /\ item[i][m] \in LeavesOf(n - 1, tree.items[i])
             /\ seqs[i][m].value = item[i][m][2].value
             /\ Below(i, item[i][m]) \in LeavesOf(n, tree)
             /\ i \in Nat /\ item[i][m][1] \in Seq(Nat)
             /\ item[i][m] = <<item[i][m][1], item[i][m][2]>>
  <2>1. Itemwise(i, item[i]) /\ seqs[i] = text(i)
    BY <1>2, <1>3
  <2>2. item[i][m] \in LeavesOf(n - 1, tree.items[i]) /\ seqs[i][m].value = item[i][m][2].value
    BY <2>1 DEF Tells
  <2>3. Below(i, item[i][m]) \in LeavesOf(n, tree)
    BY <2>2, LeavesCases DEF Below
  <2>4. i \in Nat /\ n - 1 \in Nat /\ tree.items[i] \in Json[n - 1]
    BY ItemPathType
  <2>5. item[i][m][1] \in Seq(Nat) /\ item[i][m] = <<item[i][m][1], item[i][m][2]>>
    BY <2>2, <2>4, NodesType DEF LeavesOf
  <2> QED BY <2>2, <2>3, <2>4, <2>5
<1>8. ASSUME NEW i \in DOMAIN tree.items
      PROVE  /\ \A l, m \in 1 .. Len(seqs[i]) : item[i][l] = item[i][m] => l = m
             /\ \A q \in LeavesOf(n - 1, tree.items[i]) :
                  \E m \in 1 .. Len(seqs[i]) : item[i][m] = q
  <2>1. Itemwise(i, item[i]) /\ seqs[i] = text(i)
    BY <1>2, <1>3
  <2> QED BY <2>1 DEF Tells
<1>9. ASSUME NEW k \in 1 .. Len(lines)
      PROVE  /\ w[k] \in DOMAIN tree.items /\ p[k] \in 1 .. Len(seqs[w[k]])
             /\ lines[k] = seqs[w[k]][p[k]]
             /\ tells[k] = Below(w[k], item[w[k]][p[k]])
  BY <1>1, <1>2, <1>6 DEF Lists
<1> HIDE DEF tells, text, Itemwise
<1>10. ASSUME NEW k \in 1 .. Len(lines)
       PROVE  tells[k] \in LeavesOf(n, tree) /\ lines[k].value = tells[k][2].value
  <2>1. /\ Below(w[k], item[w[k]][p[k]]) \in LeavesOf(n, tree)
        /\ seqs[w[k]][p[k]].value = item[w[k]][p[k]][2].value
    BY <1>7, <1>9
  <2>2. Below(w[k], item[w[k]][p[k]])[2] = item[w[k]][p[k]][2]
    BY DEF Below
  <2>3. lines[k] = seqs[w[k]][p[k]] /\ tells[k] = Below(w[k], item[w[k]][p[k]])
    BY <1>9
  <2>4. tells[k][2] = item[w[k]][p[k]][2]
    BY <2>2, <2>3
  <2>5. lines[k].value = item[w[k]][p[k]][2].value
    BY <2>1, <2>3
  <2> QED BY <2>1, <2>3, <2>4, <2>5
<1>11. ASSUME NEW k \in 1 .. Len(lines), NEW l \in 1 .. Len(lines), tells[k] = tells[l]
       PROVE  k = l
  <2> DEFINE P == item[w[k]][p[k]]
             Q == item[w[l]][p[l]]
  <2>1. /\ w[k] \in Nat /\ w[l] \in Nat /\ P[1] \in Seq(Nat) /\ Q[1] \in Seq(Nat)
        /\ P = <<P[1], P[2]>> /\ Q = <<Q[1], Q[2]>>
    BY <1>7, <1>9
  <2>2. Below(w[k], P) = Below(w[l], Q)
    BY <1>9, <1>11
  <2>3. <<w[k]>> \o P[1] = <<w[l]>> \o Q[1] /\ P[2] = Q[2]
    <3> HIDE DEF P, Q
    <3> QED BY <2>2 DEF Below
  <2>4. w[k] = w[l] /\ P[1] = Q[1]
    <3> HIDE DEF P, Q
    <3>1. \A s, t \in Seq(Nat) : <<w[k]>> \o s = <<w[l]>> \o t => w[k] = w[l] /\ s = t
      BY <2>1, PrependInjective
    <3> QED BY <2>1, <2>3, <3>1
  <2>5. P = Q
    <3> HIDE DEF P, Q
    <3> QED BY <2>1, <2>3, <2>4
  <2>6. p[k] = p[l]
    <3>1. /\ w[k] \in DOMAIN tree.items /\ item[w[k]][p[k]] = item[w[k]][p[l]]
          /\ p[k] \in 1 .. Len(seqs[w[k]]) /\ p[l] \in 1 .. Len(seqs[w[k]])
      BY <1>9, <2>4, <2>5
    <3> QED BY <1>8, <3>1
  <2> QED BY <1>6, <2>4, <2>6 DEF Lists
<1>12. ASSUME NEW q \in LeavesOf(n, tree)
       PROVE  \E k \in 1 .. Len(lines) : tells[k] = q
  <2>1. PICK i \in DOMAIN tree.items :
          \E r \in LeavesOf(n - 1, tree.items[i]) : q = Below(i, r)
    BY LeavesCases
  <2>2. PICK r \in LeavesOf(n - 1, tree.items[i]) : q = Below(i, r)
    BY <2>1
  <2>3. PICK m \in 1 .. Len(seqs[i]) : item[i][m] = r
    BY <1>8
  <2>4. PICK k \in 1 .. Len(lines) : w[k] = i /\ p[k] = m
    BY <1>1, <1>2, <1>6, SMTT(30) DEF Lists
  <2> QED BY <1>9, <2>2, <2>3, <2>4
<1>13. Tells(tells, n, tree, prefix)
  BY <1>10, <1>11, <1>12 DEF Tells, lines
<1> QED BY <1>5, <1>13 DEF Told, lines

\* Of every value, whatever its depth and the path where it stands.
LEMMA JsonIsTold ==
  ASSUME NEW n \in Nat, NEW tree \in Json[n], NEW prefix \in Path
  PROVE  Told(n, tree, prefix)
<1> DEFINE Good(m) == \A t \in Json[m], path \in Path : Told(m, t, path)
           Bad == {m \in Nat : ~Good(m)}
<1>1. SUFFICES ASSUME Bad # {} PROVE FALSE
  OBVIOUS
<1>2. PICK m \in Bad : \A y \in Bad : m <= y
  <2> HIDE DEF Bad
  <2>1. Bad \in SUBSET Nat
    BY DEF Bad
  <2> QED BY <1>1, <2>1, T!LeastElement
<1>3. m - 1 \in Nat => Good(m - 1)
  <2> HIDE DEF Good
  <2> QED BY <1>2
<1>4. ASSUME NEW t \in Json[m], NEW path \in Path
      PROVE  Told(m, t, path)
  <2>1. CASE t.kind = "leaf"
    <3> DEFINE lines == LeafLines[m][t][path]
               leaf == <<<<>>, t>>
    <3>1. lines = <<[path |-> path, value |-> t.value]>>
      BY <2>1, LinesCases
    <3>2. LeavesOf(m, t) = {leaf} /\ leaf[2].value = t.value
      BY <2>1, LeavesCases
    <3>3. t.value \in Scalars
      BY <2>1, JsonCases
    <3>4. Len(lines) = 1 /\ lines[1].value = t.value /\ lines \in Seq(Line)
      BY <3>1, <3>3 DEF Line
    <3> HIDE DEF lines, leaf
    <3>5. Tells(<<leaf>>, m, t, path)
      BY <3>2, <3>4 DEF Tells, lines
    <3> QED BY <3>4, <3>5 DEF Told, lines
  <2>2. CASE t.kind # "leaf"
    <3>1. \A i \in DOMAIN t.items : Told(m - 1, t.items[i], ItemPath(path, t, i))
      BY <1>3, <2>2, ItemPathType
    <3> QED BY <2>2, <3>1, ContainerIsTold
  <2> QED BY <2>1, <2>2
<1> QED BY <1>2, <1>4

-----------------------------------------------------------------------------
(* Plain keys make the paths distinct *)

Marks == {".", "["}
Continues(x) == x = <<>> \/ x[1] \in Marks    \* what may follow a key

\* Plainness is that of the value's own keys and of its items.
LEMMA PlainCases ==
  ASSUME NEW n \in Nat, NEW tree \in Json[n], PlainKeys(n, tree)
  PROVE  /\ \A i \in DOMAIN tree.keys : /\ tree.keys[i] # <<>>
                                       /\ \A c \in DOMAIN tree.keys[i] : tree.keys[i][c] \notin Marks
         /\ \A i \in DOMAIN tree.items : PlainKeys(n - 1, tree.items[i])
<1>1. ASSUME NEW i \in DOMAIN tree.keys
      PROVE  /\ tree.keys[i] # <<>>
             /\ \A c \in DOMAIN tree.keys[i] : tree.keys[i][c] \notin Marks
  <2>1. <<<<>>, tree>> \in Nodes[n][tree] /\ <<<<>>, tree>>[2] = tree
    BY NodesCases
  <2>2. \A key \in ToSet(tree.keys) : key # <<>> /\ Marks \cap ToSet(key) = {}
    <3>1. \A key \in ToSet(<<<<>>, tree>>[2].keys) : key # <<>> /\ Marks \cap ToSet(key) = {}
      BY <2>1 DEF PlainKeys, Marks
    <3> QED BY <2>1, <3>1
  <2>3. tree.keys[i] \in ToSet(tree.keys)
    BY DEF ToSet
  <2>4. \A c \in DOMAIN tree.keys[i] : tree.keys[i][c] \in ToSet(tree.keys[i])
    BY DEF ToSet
  <2> QED BY <2>2, <2>3, <2>4
<1>2. ASSUME NEW i \in DOMAIN tree.items
      PROVE  PlainKeys(n - 1, tree.items[i])
  <2>1. ASSUME NEW q \in Nodes[n - 1][tree.items[i]], NEW key \in ToSet(q[2].keys)
        PROVE  key # <<>> /\ Marks \cap ToSet(key) = {}
    <3>1. Below(i, q) \in Nodes[n][tree]
      BY NodesCases
    <3>2. Below(i, q)[2] = q[2]
      BY DEF Below
    <3>3. key \in ToSet(Below(i, q)[2].keys)
      BY <3>2
    <3> QED BY <3>1, <3>3 DEF PlainKeys, Marks
  <2> QED BY <2>1 DEF PlainKeys, Marks
<1> QED BY <1>1, <1>2

\* Concatenation of paths, as an operator that the provers do not expand.
Joined(s, t) == s \o t

\* Joining paths gives a path, is associative and can be cancelled on the left.
LEMMA JoinedProperties ==
  ASSUME NEW p \in Path, NEW a \in Path, NEW b \in Path
  PROVE  /\ Joined(p, a) \in Path
         /\ Joined(Joined(p, a), b) = Joined(p, Joined(a, b))
         /\ Joined(p, a) = Joined(p, b) => a = b
<1>1. p \in Seq(Chars) /\ a \in Seq(Chars) /\ b \in Seq(Chars)
  BY DEF Path
<1>2. Joined(p, a) \in Path
  BY <1>1 DEF Joined, Path
<1>3. Joined(Joined(p, a), b) = Joined(p, Joined(a, b))
  BY <1>1, ConcatAssociative, SMT DEF Joined
<1>4. Joined(p, a) = Joined(p, b) => a = b
  BY <1>1, ConcatSimplifications DEF Joined
<1> QED BY <1>2, <1>3, <1>4

\* The paths of two items do not become the same when they are continued.
LEMMA ItemPathsDiffer ==
  ASSUME NEW n \in Nat, NEW tree \in Json[n], PlainKeys(n, tree), tree.kind # "leaf",
         NEW i \in DOMAIN tree.items, NEW j \in DOMAIN tree.items, NEW prefix \in Path,
         NEW x \in Path, NEW y \in Path, Continues(x), Continues(y),
         Joined(ItemPath(prefix, tree, i), x) = Joined(ItemPath(prefix, tree, j), y)
  PROVE  i = j
<1>1. CASE tree.kind = "object"
  <2> DEFINE a == tree.keys[i]
             b == tree.keys[j]
  <2>1. i \in DOMAIN tree.keys /\ j \in DOMAIN tree.keys
    BY <1>1, JsonCases
  <2>2. a \in Seq(Chars) /\ b \in Seq(Chars)
    BY <1>1, <2>1, JsonCases DEF Path
  <2>3. /\ \A c \in 1 .. Len(a) : a[c] \notin Marks
        /\ \A c \in 1 .. Len(b) : b[c] \notin Marks
    BY <2>1, <2>2, PlainCases
  <2>4. a \o x = b \o y
    <3>1. CASE prefix = <<>>
      BY <1>1, <3>1 DEF ItemPath, Joined
    <3>2. CASE prefix # <<>>
      <4> DEFINE p == prefix \o <<".">>
      <4>1. p \in Path /\ a \in Path /\ b \in Path
        BY <2>2, Brackets DEF Path
      <4>2. Joined(Joined(p, a), x) = Joined(Joined(p, b), y)
        BY <1>1, <3>2 DEF ItemPath, Joined
      <4> HIDE DEF p, a, b
      <4>3. Joined(a, x) = Joined(b, y)
        BY <4>1, <4>2, JoinedProperties
      <4> QED BY <4>3 DEF Joined
    <3> QED BY <3>1, <3>2
  <2>5. a = b
    <3> HIDE DEF a, b, Marks
    <3> QED BY <2>2, <2>3, <2>4, UnambiguousPrefix DEF Continues, Path
  <2> QED BY <1>1, <2>1, <2>5, JsonCases
<1>2. CASE tree.kind = "array"
  <2> DEFINE a == Numeral[i - 1]
             b == Numeral[j - 1]
             p == prefix \o <<"[">>
             u == <<"]">> \o x
             v == <<"]">> \o y
  <2>1. i - 1 \in Nat /\ j - 1 \in Nat /\ i \in Nat /\ j \in Nat
    <3>1. tree.kind # "leaf"
      BY <1>2
    <3> QED BY <3>1, ItemPathType
  <2>2. a \in Seq(Digits) /\ b \in Seq(Digits)
    BY <2>1, NumeralType
  <2>3. a \in Seq(Chars) /\ b \in Seq(Chars)
    BY <2>2, DigitsAreText DEF Path
  <2>4. /\ \A c \in 1 .. Len(a) : a[c] \notin {"]"}
        /\ \A c \in 1 .. Len(b) : b[c] \notin {"]"}
    <3> HIDE DEF a, b
    <3>1. /\ \A c \in 1 .. Len(a) : a[c] \in Digits
          /\ \A c \in 1 .. Len(b) : b[c] \in Digits
      BY <2>2
    <3> QED BY <3>1, DigitChars
  <2>5. p \in Seq(Chars) /\ <<"]">> \in Seq(Chars)
    BY Brackets DEF Path
  <2>6. ((p \o a) \o <<"]">>) \o x = ((p \o b) \o <<"]">>) \o y
    BY <1>2 DEF ItemPath, Joined
  <2>7. u \in Seq(Chars) /\ v \in Seq(Chars) /\ u[1] \in {"]"} /\ v[1] \in {"]"}
    BY <2>5 DEF Path
  <2>8. a \in Path /\ b \in Path /\ p \in Path /\ <<"]">> \in Path
    BY <2>3, <2>5 DEF Path
  <2> HIDE DEF a, b, p
  <2>9. a \o u = b \o v
    <3> DEFINE c == <<"]">>
    <3>1. Joined(Joined(Joined(p, a), c), x) = Joined(Joined(Joined(p, b), c), y)
      BY <2>6 DEF Joined
    <3>2. c \in Path
      BY Brackets
    <3> HIDE DEF c
    <3>3. Joined(Joined(p, a), Joined(c, x)) = Joined(Joined(p, b), Joined(c, y))
      BY <2>8, <3>1, <3>2, JoinedProperties
    <3>4. Joined(a, Joined(c, x)) = Joined(b, Joined(c, y))
      BY <2>8, <3>2, <3>3, JoinedProperties
    <3> QED BY <3>4 DEF Joined, c
  <2> HIDE DEF u, v
  <2>10. a = b
    BY <2>3, <2>4, <2>7, <2>9, UnambiguousPrefix
  <2> QED BY <2>1, <2>10, NumeralInjective DEF a, b
<1> QED BY <1>1, <1>2, JsonCases

\* The path of an item continues that of its container.
LEMMA ItemPathContinues ==
  ASSUME NEW n \in Nat, NEW tree \in Json[n], PlainKeys(n, tree), tree.kind # "leaf",
         NEW i \in DOMAIN tree.items, NEW prefix \in Path
  PROVE  /\ ItemPath(prefix, tree, i) # <<>>
         /\ prefix # <<>> =>
              \E x \in Path : /\ ItemPath(prefix, tree, i) = Joined(prefix, x)
                              /\ x # <<>> /\ x[1] \in Marks
<1>1. CASE tree.kind = "object"
  <2>1. i \in DOMAIN tree.keys /\ tree.keys[i] \in Path /\ tree.keys[i] # <<>>
    BY <1>1, JsonCases, PlainCases
  <2>2. CASE prefix = <<>>
    BY <1>1, <2>1, <2>2 DEF ItemPath
  <2>3. CASE prefix # <<>>
    <3> DEFINE d == <<".">>
               key == tree.keys[i]
               x == d \o key
    <3>1. d \in Path /\ key \in Path
      BY <2>1, Brackets
    <3>2. ItemPath(prefix, tree, i) = Joined(Joined(prefix, d), key)
      BY <1>1, <2>3 DEF ItemPath, Joined
    <3>3. ItemPath(prefix, tree, i) = Joined(prefix, x)
      <4> HIDE DEF d, key
      <4>1. ItemPath(prefix, tree, i) = Joined(prefix, Joined(d, key))
        BY <3>1, <3>2, JoinedProperties
      <4> QED BY <4>1 DEF Joined
    <3>4. x \in Path /\ x # <<>> /\ x[1] \in Marks
      BY <2>1, <3>1 DEF Path, Marks
    <3>5. Joined(prefix, x) # <<>>
      BY <2>3, <3>4 DEF Path, Joined
    <3> QED BY <3>3, <3>4, <3>5
  <2> QED BY <2>2, <2>3
<1>2. CASE tree.kind = "array"
  <2> DEFINE c == <<"[">>
             d == <<"]">>
             num == Numeral[i - 1]
             t == num \o d
             x == c \o t
  <2>1. num \in Path /\ c \in Path /\ d \in Path
    <3>1. tree.kind # "leaf"
      BY <1>2
    <3>2. i - 1 \in Nat
      BY <3>1, ItemPathType
    <3> QED BY <3>2, NumeralType, DigitsAreText, Brackets
  <2>2. t \in Path
    <3> HIDE DEF num, d
    <3> QED BY <2>1, JoinedProperties DEF Joined
  <2>3. ItemPath(prefix, tree, i) = Joined(prefix, x)
    <3>1. ItemPath(prefix, tree, i) = Joined(Joined(Joined(prefix, c), num), d)
      BY <1>2 DEF ItemPath, Joined
    <3>2. ItemPath(prefix, tree, i) = Joined(prefix, Joined(c, Joined(num, d)))
      <4> HIDE DEF c, d, num
      <4> QED BY <2>1, <3>1, JoinedProperties
    <3> HIDE DEF c, d, num
    <3> QED BY <3>2 DEF Joined
  <2>4. x \in Path /\ x # <<>> /\ x[1] \in Marks
    <3> HIDE DEF t
    <3> QED BY <2>1, <2>2 DEF Path, Marks
  <2> HIDE DEF x
  <2>5. Joined(prefix, x) # <<>>
    BY <2>4 DEF Path, Joined
  <2> QED BY <2>3, <2>4, <2>5
<1> QED BY <1>1, <1>2, JsonCases

\* The lines of a value have distinct paths, which continue that of the value.
PathsDiffer(n, tree, prefix) ==
  LET lines == LeafLines[n][tree][prefix]
  IN  /\ \A k, l \in 1 .. Len(lines) : lines[k].path = lines[l].path => k = l
      /\ prefix # <<>> =>
           \A k \in 1 .. Len(lines) :
             \E x \in Path : Continues(x) /\ lines[k].path = Joined(prefix, x)

\* The paths of a container differ, when those of each item do.
LEMMA ContainerPathsDiffer ==
  ASSUME NEW n \in Nat, NEW tree \in Json[n], NEW prefix \in Path,
         PlainKeys(n, tree), tree.kind # "leaf",
         \A i \in DOMAIN tree.items : PathsDiffer(n - 1, tree.items[i], ItemPath(prefix, tree, i))
  PROVE  PathsDiffer(n, tree, prefix)
<1> DEFINE text(i) == LeafLines[n - 1][tree.items[i]][ItemPath(prefix, tree, i)]
           seqs == [i \in DOMAIN tree.items |-> text(i)]
           lines == LeafLines[n][tree][prefix]
<1>1. DOMAIN tree.items = 1 .. Len(tree.items) /\ Len(tree.items) \in Nat
  BY JsonCases
<1>2. /\ seqs \in Seq(Seq(Line)) /\ Len(seqs) = Len(tree.items)
      /\ \A i \in DOMAIN tree.items : seqs[i] = text(i)
  <2>1. \A i \in 1 .. Len(tree.items) : text(i) \in Seq(Line)
    BY <1>1, ItemPathType, JsonIsTold DEF Told
  <2> HIDE DEF text
  <2> QED BY <1>1, <2>1
<1>3. lines = FlattenSeq(seqs)
  BY LinesCases
<1> HIDE DEF seqs, lines
<1>4. PICK w, p : Lists(lines, seqs, Len(seqs), w, p)
  BY <1>2, <1>3, FlattenSeqLists
<1>5. ASSUME NEW k \in 1 .. Len(lines)
      PROVE  /\ w[k] \in DOMAIN tree.items /\ p[k] \in 1 .. Len(seqs[w[k]])
             /\ lines[k] = seqs[w[k]][p[k]]
  BY <1>1, <1>2, <1>4 DEF Lists
<1>6. ASSUME NEW i \in DOMAIN tree.items
      PROVE  /\ \A m, o \in 1 .. Len(seqs[i]) : seqs[i][m].path = seqs[i][o].path => m = o
             /\ \A m \in 1 .. Len(seqs[i]) :
                  \E x \in Path : Continues(x) /\ seqs[i][m].path = Joined(ItemPath(prefix, tree, i), x)
  <2>1. PathsDiffer(n - 1, tree.items[i], ItemPath(prefix, tree, i)) /\ seqs[i] = text(i)
    BY <1>2
  <2>2. ItemPath(prefix, tree, i) # <<>>
    BY ItemPathContinues
  <2> QED BY <2>1, <2>2 DEF PathsDiffer
<1> HIDE DEF text
<1>7. ASSUME NEW k \in 1 .. Len(lines)
      PROVE  \E x \in Path : Continues(x) /\ lines[k].path = Joined(ItemPath(prefix, tree, w[k]), x)
  <2>1. \A m \in 1 .. Len(seqs[w[k]]) :
          \E x \in Path : Continues(x) /\ seqs[w[k]][m].path = Joined(ItemPath(prefix, tree, w[k]), x)
    BY <1>5, <1>6
  <2> QED BY <1>5, <2>1
<1>8. ASSUME NEW k \in 1 .. Len(lines), NEW l \in 1 .. Len(lines), lines[k].path = lines[l].path
      PROVE  k = l
  <2>1. PICK x \in Path : Continues(x) /\ lines[k].path = Joined(ItemPath(prefix, tree, w[k]), x)
    BY <1>7
  <2>2. PICK y \in Path : Continues(y) /\ lines[l].path = Joined(ItemPath(prefix, tree, w[l]), y)
    BY <1>7
  <2>3. Joined(ItemPath(prefix, tree, w[k]), x) = Joined(ItemPath(prefix, tree, w[l]), y)
    BY <1>8, <2>1, <2>2
  <2>4. w[k] = w[l]
    BY <1>5, <2>1, <2>2, <2>3, ItemPathsDiffer
  <2>5. /\ p[k] \in 1 .. Len(seqs[w[k]]) /\ p[l] \in 1 .. Len(seqs[w[k]])
        /\ seqs[w[k]][p[k]].path = seqs[w[k]][p[l]].path /\ w[k] \in DOMAIN tree.items
    BY <1>5, <1>8, <2>4
  <2>6. p[k] = p[l]
    BY <1>6, <2>5
  <2> QED BY <1>4, <2>4, <2>6 DEF Lists
<1>9. ASSUME prefix # <<>>, NEW k \in 1 .. Len(lines)
      PROVE  \E x \in Path : Continues(x) /\ lines[k].path = Joined(prefix, x)
  <2>1. PICK x \in Path : Continues(x) /\ lines[k].path = Joined(ItemPath(prefix, tree, w[k]), x)
    BY <1>7
  <2>2. PICK y \in Path : /\ ItemPath(prefix, tree, w[k]) = Joined(prefix, y)
                          /\ y # <<>> /\ y[1] \in Marks
    <3>1. w[k] \in DOMAIN tree.items
      BY <1>5
    <3> QED BY <1>9, <3>1, ItemPathContinues
  <2>3. lines[k].path = Joined(prefix, Joined(y, x)) /\ Joined(y, x) \in Path
    BY <2>1, <2>2, JoinedProperties
  <2>4. Joined(y, x)[1] = y[1]
    BY <2>2 DEF Joined, Path
  <2> QED BY <2>2, <2>3, <2>4 DEF Continues
<1> QED BY <1>8, <1>9 DEF PathsDiffer, lines

\* Of every value with plain keys, wherever it stands.
LEMMA PlainPathsDiffer ==
  ASSUME NEW n \in Nat, NEW tree \in Json[n], NEW prefix \in Path, PlainKeys(n, tree)
  PROVE  PathsDiffer(n, tree, prefix)
<1> DEFINE Good(m) == \A t \in Json[m], path \in Path : PlainKeys(m, t) => PathsDiffer(m, t, path)
           Bad == {m \in Nat : ~Good(m)}
<1>1. SUFFICES ASSUME Bad # {} PROVE FALSE
  OBVIOUS
<1>2. PICK m \in Bad : \A y \in Bad : m <= y
  <2> HIDE DEF Bad
  <2>1. Bad \in SUBSET Nat
    BY DEF Bad
  <2> QED BY <1>1, <2>1, T!LeastElement
<1>3. m - 1 \in Nat => Good(m - 1)
  <2> HIDE DEF Good
  <2> QED BY <1>2
<1>4. ASSUME NEW t \in Json[m], NEW path \in Path, PlainKeys(m, t)
      PROVE  PathsDiffer(m, t, path)
  <2>1. CASE t.kind = "leaf"
    <3> DEFINE lines == LeafLines[m][t][path]
    <3>1. lines = <<[path |-> path, value |-> t.value]>>
      BY <2>1, LinesCases
    <3>2. Len(lines) = 1 /\ lines[1].path = path
      BY <3>1
    <3>3. path = Joined(path, <<>>) /\ <<>> \in Path
      BY DEF Path, Joined
    <3> HIDE DEF lines
    <3> QED BY <3>2, <3>3 DEF PathsDiffer, Continues, lines
  <2>2. CASE t.kind # "leaf"
    <3>1. \A i \in DOMAIN t.items : PathsDiffer(m - 1, t.items[i], ItemPath(path, t, i))
      BY <1>3, <1>4, <2>2, ItemPathType, PlainCases
    <3> QED BY <1>4, <2>2, <3>1, ContainerPathsDiffer
  <2> QED BY <2>1, <2>2
<1> QED BY <1>2, <1>4

-----------------------------------------------------------------------------
(* The text is its lines, one after the other *)

\* FlattenJson is the function that its definition describes.
LEMMA TextCases ==
  ASSUME NEW n \in Nat, NEW tree \in Json[n], NEW prefix \in Path
  PROVE  /\ tree.kind = "leaf" => FlattenJson[n][tree][prefix] = Rendered(prefix, tree.value)
         /\ tree.kind # "leaf" =>
              FlattenJson[n][tree][prefix] =
                JoinLines([i \in DOMAIN tree.items |->
                             FlattenJson[n - 1][tree.items[i]][ItemPath(prefix, tree, i)]])
<1>1. FlattenJson = CHOOSE g : g = [m \in Nat |-> TextDef(0, g, m)]
  BY DEF FlattenJson, TextDef
<1>2. \A g, h : \A m \in Nat :
        (\A l \in Nat : l < m => g[l] = h[l]) => TextDef(0, g, m) = TextDef(0, h, m)
  <2> TAKE g, h
  <2> TAKE m \in Nat
  <2> HAVE \A l \in Nat : l < m => g[l] = h[l]
  <2>1. CASE m = 0
    <3>1. \A t \in Json[m] : t.kind = "leaf"
      BY <2>1, JsonCases
    <3> QED BY <3>1 DEF TextDef
  <2>2. CASE m # 0
    <3>1. g[m - 1] = h[m - 1]
      BY <2>2
    <3> QED BY <3>1 DEF TextDef
  <2> QED BY <2>1, <2>2
<1>3. FlattenJson = [m \in Nat |-> TextDef(0, FlattenJson, m)]
  <2> HIDE DEF TextDef
  <2> QED BY <1>1, <1>2, T!RecursiveFunction
<1>4. FlattenJson[n] = TextDef(0, FlattenJson, n)
  <2> HIDE DEF TextDef
  <2> QED BY <1>3
<1> QED BY <1>4 DEF TextDef

\* The text of a line is not empty.
LineText(line) == Rendered(line.path, line.value)

LEMMA LineTextType ==
  ASSUME NEW line \in Line
  PROVE  LineText(line) \in Seq(Chars) /\ Len(LineText(line)) \in Nat /\ Len(LineText(line)) > 1
<1> DEFINE colon == <<":", " ">>
           path == line.path
           value == line.value
           start == path \o colon
<1>1. path \in Seq(Chars) /\ value \in Seq(Chars)
  BY JsonAssumption DEF Line, Path
<1>2. colon \in Seq(Chars) /\ Len(colon) = 2
  <2>1. \A c, e \in Chars : <<c, e>> \in Seq(Chars) /\ Len(<<c, e>>) = 2
    OBVIOUS
  <2>2. ":" \in Chars /\ " " \in Chars
    BY OwnChars
  <2> QED BY <2>1, <2>2, Zenon
<1>3. LineText(line) = start \o value
  BY DEF LineText, Rendered
<1> HIDE DEF colon, path, value
<1> HIDE DEF start
<1>4. start \in Seq(Chars) /\ Len(start) = Len(path) + Len(colon)
  BY <1>1, <1>2, ConcatProperties, Zenon DEF start
<1>5. start \o value \in Seq(Chars) /\ Len(start \o value) = Len(start) + Len(value)
  BY <1>1, <1>4, ConcatProperties
<1>6. Len(path) \in Nat /\ Len(value) \in Nat
  BY <1>1
<1> QED BY <1>2, <1>3, <1>4, <1>5, <1>6

\* A text that consists of these lines, with a line break before each: that of line
\* k is character start[k].
Written(text, lines, start) ==
  LET n == Len(lines)
  IN  /\ \A k \in 1 .. n + 1 : start[k] \in Nat
      /\ start[1] = 1 /\ start[n + 1] = Len(text) + 1
      /\ \A k, l \in 1 .. n + 1 : k < l => start[k] < start[l]
      /\ \A k \in 1 .. n :
           /\ start[k + 1] = start[k] + 1 + Len(LineText(lines[k]))
           /\ text[start[k]] = Newline
           /\ \A j \in 1 .. Len(LineText(lines[k])) : text[start[k] + j] = LineText(lines[k])[j]
      /\ \A i \in 1 .. Len(text) : \E k \in 1 .. n : start[k] <= i /\ i < start[k + 1]

\* Two such texts make one.
LEMMA WrittenAppended ==
  ASSUME NEW text \in Seq(Chars), NEW lines \in Seq(Line), NEW b, Written(text, lines, b),
         NEW other \in Seq(Chars), NEW more \in Seq(Line), NEW c, Written(other, more, c)
  PROVE  \E d : Written(text \o other, lines \o more, d)
<1> DEFINE n == Len(lines)
           m == Len(more)
           t == Len(text)
           u == Len(other)
           whole == text \o other
           all == lines \o more
           d == [k \in 1 .. n + m + 1 |-> IF k <= n THEN b[k] ELSE t + c[k - n]]
<1>1. n \in Nat /\ m \in Nat /\ t \in Nat /\ u \in Nat
  OBVIOUS
<1>2. Len(whole) = t + u /\ Len(all) = n + m
  OBVIOUS
<1>3. /\ \A k \in 1 .. n : all[k] = lines[k] /\ lines[k] \in Line
      /\ \A k \in 1 .. m : all[n + k] = more[k] /\ more[k] \in Line
  OBVIOUS
<1>4. /\ \A i \in 1 .. t : whole[i] = text[i]
      /\ \A i \in 1 .. u : whole[t + i] = other[i]
  OBVIOUS
<1> DEFINE size(line) == Len(LineText(line))
<1>5. /\ \A k \in 1 .. n + 1 : b[k] \in Nat
      /\ b[1] = 1 /\ b[n + 1] = t + 1
      /\ \A k, l \in 1 .. n + 1 : k < l => b[k] < b[l]
  BY DEF Written
<1>6. /\ \A k \in 1 .. n : b[k + 1] = b[k] + 1 + size(lines[k]) /\ text[b[k]] = Newline
      /\ \A k \in 1 .. n : \A j \in 1 .. size(lines[k]) : text[b[k] + j] = LineText(lines[k])[j]
      /\ \A i \in 1 .. t : \E k \in 1 .. n : b[k] <= i /\ i < b[k + 1]
  BY DEF Written
<1>7. /\ \A k \in 1 .. m + 1 : c[k] \in Nat
      /\ c[1] = 1 /\ c[m + 1] = u + 1
      /\ \A k, l \in 1 .. m + 1 : k < l => c[k] < c[l]
  BY DEF Written
<1>8. /\ \A k \in 1 .. m : c[k + 1] = c[k] + 1 + size(more[k]) /\ other[c[k]] = Newline
      /\ \A k \in 1 .. m : \A j \in 1 .. size(more[k]) : other[c[k] + j] = LineText(more[k])[j]
      /\ \A i \in 1 .. u : \E k \in 1 .. m : c[k] <= i /\ i < c[k + 1]
  BY DEF Written
<1>9. \A line \in Line : size(line) \in Nat
  BY LineTextType
<1> HIDE DEF n, m, t, u, whole, all, size
<1>10. /\ \A k \in 1 .. n + 1 : d[k] = b[k]
       /\ \A k \in 1 .. m + 1 : d[n + k] = t + c[k]
  <2>1. \A k \in 1 .. n : k \in 1 .. n + m + 1 /\ d[k] = b[k]
    BY <1>1
  <2>2. \A k \in 1 .. m + 1 : n + k \in 1 .. n + m + 1 /\ d[n + k] = t + c[k]
    <3> TAKE k \in 1 .. m + 1
    <3>1. n + k \in 1 .. n + m + 1 /\ ~(n + k <= n) /\ (n + k) - n = k
      BY <1>1
    <3> QED BY <3>1
  <2> HIDE DEF d
  <2>3. d[n + 1] = t + 1
    BY <1>1, <1>7, <2>2
  <2>4. \A k \in 1 .. n + 1 : k \in 1 .. n \/ k = n + 1
    BY <1>1
  <2> QED BY <1>5, <2>1, <2>2, <2>3, <2>4
<1> HIDE DEF d
<1>11. \A k \in 1 .. n + m + 1 : k \in 1 .. n + 1 \/ \E l \in 1 .. m + 1 : k = n + l
  <2> TAKE k \in 1 .. n + m + 1
  <2>1. k > n => k - n \in 1 .. m + 1 /\ k = n + (k - n)
    BY <1>1
  <2>2. k <= n => k \in 1 .. n + 1
    BY <1>1
  <2> QED BY <1>1, <2>1, <2>2
<1>12. \A k \in 1 .. n + m + 1 : d[k] \in Nat
  <2> TAKE k \in 1 .. n + m + 1
  <2>1. CASE k \in 1 .. n + 1
    <3>1. d[k] = b[k] /\ b[k] \in Nat
      BY <1>5, <1>10, <2>1
    <3> QED BY <3>1
  <2>2. ASSUME NEW l \in 1 .. m + 1, k = n + l PROVE d[k] \in Nat
    <3>1. d[k] = t + c[l]
      BY <1>10, <2>2
    <3>2. c[l] \in Nat
      BY <1>7
    <3> QED BY <1>1, <3>1, <3>2
  <2> QED BY <1>11, <2>1, <2>2
<1>13. d[1] = 1 /\ d[n + m + 1] = t + u + 1
  <2>1. 1 \in 1 .. n + 1 /\ m + 1 \in 1 .. m + 1 /\ n + m + 1 = n + (m + 1) /\ t + (u + 1) = t + u + 1
    BY <1>1
  <2> QED BY <1>5, <1>7, <1>10, <2>1
<1>14. ASSUME NEW k \in 1 .. n + m + 1, NEW l \in 1 .. n + m + 1, k < l
       PROVE  d[k] < d[l]
  <2>1. CASE k \in 1 .. n + 1 /\ l \in 1 .. n + 1
    BY <1>5, <1>10, <1>14, <2>1
  <2>2. ASSUME NEW i \in 1 .. m + 1, NEW j \in 1 .. m + 1, k = n + i, l = n + j
        PROVE  d[k] < d[l]
    <3>1. i < j
      BY <1>1, <1>14, <2>2
    <3>2. c[i] < c[j] /\ c[i] \in Nat /\ c[j] \in Nat /\ d[k] = t + c[i] /\ d[l] = t + c[j]
      BY <1>7, <1>10, <2>2, <3>1
    <3> QED BY <1>1, <3>2
  <2>3. ASSUME k \in 1 .. n + 1, NEW j \in 1 .. m + 1, l = n + j, j # 1
        PROVE  d[k] < d[l]
    <3>1. 1 \in 1 .. m + 1 /\ 1 < j /\ n + 1 \in 1 .. n + 1
      BY <1>1, <2>3
    <3>2. c[1] < c[j] /\ c[j] \in Nat /\ d[l] = t + c[j]
      BY <1>7, <1>10, <2>3, <3>1
    <3>3. b[k] <= b[n + 1] /\ b[k] \in Nat
      <4>1. CASE k = n + 1
        BY <1>5, <3>1, <4>1
      <4>2. CASE k < n + 1
        BY <1>5, <2>3, <3>1, <4>2
      <4> QED BY <1>1, <2>3, <4>1, <4>2
    <3>4. d[k] = b[k] /\ b[n + 1] = t + 1 /\ c[1] = 1
      BY <1>5, <1>7, <1>10, <2>3
    <3> QED BY <1>1, <3>2, <3>3, <3>4
  <2>4. ASSUME NEW i \in 1 .. m + 1, k = n + i, l \in 1 .. n + 1
        PROVE  FALSE
    BY <1>1, <1>14, <2>4
  <2>5. n + 1 \in 1 .. n + 1
    BY <1>1
  <2> QED BY <1>11, <2>1, <2>2, <2>3, <2>4, <2>5
<1>15. ASSUME NEW k \in 1 .. n + m
       PROVE  /\ d[k + 1] = d[k] + 1 + size(all[k])
              /\ whole[d[k]] = Newline
              /\ \A j \in 1 .. size(all[k]) : whole[d[k] + j] = LineText(all[k])[j]
  <2>1. CASE k \in 1 .. n
    <3>1. /\ k \in 1 .. n + 1 /\ k + 1 \in 1 .. n + 1 /\ all[k] = lines[k] /\ lines[k] \in Line
          /\ k < n + 1 /\ n + 1 \in 1 .. n + 1 /\ 1 \in 1 .. n + 1
      BY <1>1, <1>3, <2>1
    <3>2. d[k] = b[k] /\ d[k + 1] = b[k + 1] /\ b[k + 1] = b[k] + 1 + size(lines[k])
      BY <1>6, <1>10, <2>1, <3>1
    <3>3. b[k] \in Nat /\ b[k] >= 1 /\ b[k + 1] <= t + 1 /\ size(lines[k]) \in Nat
      <4>1. b[k] >= 1
        BY <1>5, <3>1
      <4>2. b[k + 1] <= b[n + 1]
        <5>1. b[k + 1] \in Nat /\ (k + 1 = n + 1 \/ k + 1 < n + 1)
          BY <1>1, <1>5, <2>1, <3>1
        <5> QED BY <1>5, <3>1, <5>1
      <4> QED BY <1>5, <1>9, <3>1, <4>1, <4>2
    <3>4. b[k] \in 1 .. t /\ \A j \in 1 .. size(lines[k]) : b[k] + j \in 1 .. t
      BY <1>1, <3>2, <3>3, SMTT(30)
    <3>5. whole[d[k]] = Newline
      BY <1>4, <1>6, <2>1, <3>2, <3>4, SMTT(30)
    <3>6. \A j \in 1 .. size(lines[k]) : whole[d[k] + j] = LineText(lines[k])[j]
      BY <1>4, <1>6, <2>1, <3>2, <3>4, SMTT(30)
    <3> QED BY <3>1, <3>2, <3>5, <3>6
  <2>2. CASE k \notin 1 .. n
    <3> DEFINE i == k - n
    <3>1. i \in 1 .. m /\ k = n + i /\ k + 1 = n + (i + 1) /\ i + 1 \in 1 .. m + 1 /\ i \in 1 .. m + 1
          /\ 1 \in 1 .. m + 1 /\ m + 1 \in 1 .. m + 1 /\ i < m + 1
      BY <1>1, <2>2
    <3> HIDE DEF i
    <3>2. all[k] = more[i] /\ more[i] \in Line /\ size(more[i]) \in Nat
      BY <1>3, <1>9, <3>1
    <3>3. d[k] = t + c[i] /\ d[k + 1] = t + c[i + 1] /\ c[i + 1] = c[i] + 1 + size(more[i])
      BY <1>8, <1>10, <3>1
    <3>4. c[i] \in Nat /\ c[i + 1] \in Nat /\ c[i] >= 1 /\ c[i + 1] <= u + 1
      <4>1. c[i] >= 1
        BY <1>7, <3>1
      <4>2. c[i + 1] <= c[m + 1]
        <5>1. c[i + 1] \in Nat /\ (i + 1 = m + 1 \/ i + 1 < m + 1)
          BY <1>1, <1>7, <3>1
        <5> QED BY <1>7, <3>1, <5>1
      <4> QED BY <1>7, <3>1, <4>1, <4>2
    <3>5. c[i] \in 1 .. u /\ \A j \in 1 .. size(more[i]) : c[i] + j \in 1 .. u
      <4>1. c[i] + 1 + size(more[i]) <= u + 1 /\ c[i] \in Nat /\ c[i] >= 1
        BY <3>3, <3>4
      <4>2. ASSUME NEW x \in Nat, NEW y \in Nat, x >= 1, x + 1 + y <= u + 1
            PROVE  x \in 1 .. u /\ \A j \in 1 .. y : x + j \in 1 .. u
        BY <1>1, <4>2
      <4> QED BY <3>2, <4>1, <4>2
    <3>6. d[k + 1] = d[k] + 1 + size(more[i])
      BY <1>1, <3>2, <3>3, <3>4, SMTT(30)
    <3>7. whole[d[k]] = Newline
      <4>1. d[k] = t + c[i] /\ c[i] \in 1 .. u /\ i \in 1 .. m
        BY <3>1, <3>3, <3>5
      <4>2. whole[t + c[i]] = other[c[i]]
        BY <1>4, <4>1
      <4>3. other[c[i]] = Newline
        BY <1>8, <4>1
      <4> QED BY <4>1, <4>2, <4>3
    <3>8. \A j \in 1 .. size(more[i]) : whole[d[k] + j] = LineText(more[i])[j]
      <4> TAKE j \in 1 .. size(more[i])
      <4>1. d[k] + j = t + (c[i] + j)
        BY <1>1, <3>2, <3>3, <3>4
      <4> QED BY <1>4, <1>8, <3>1, <3>5, <4>1
    <3> QED BY <3>2, <3>6, <3>7, <3>8
  <2> QED BY <2>1, <2>2
<1>16. ASSUME NEW i \in 1 .. t + u
       PROVE  \E k \in 1 .. n + m : d[k] <= i /\ i < d[k + 1]
  <2>1. CASE i \in 1 .. t
    <3>1. PICK k \in 1 .. n : b[k] <= i /\ i < b[k + 1]
      BY <1>6, <2>1
    <3>2. k \in 1 .. n + m /\ k \in 1 .. n + 1 /\ k + 1 \in 1 .. n + 1
      BY <1>1
    <3> QED BY <1>10, <3>1, <3>2
  <2>2. CASE i \notin 1 .. t
    <3>1. i - t \in 1 .. u
      BY <1>1, <2>2
    <3>2. PICK k \in 1 .. m : c[k] <= i - t /\ i - t < c[k + 1]
      BY <1>8, <3>1
    <3>3. n + k \in 1 .. n + m /\ k \in 1 .. m + 1 /\ k + 1 \in 1 .. m + 1 /\ (n + k) + 1 = n + (k + 1)
      BY <1>1
    <3>4. d[n + k] = t + c[k] /\ d[(n + k) + 1] = t + c[k + 1] /\ c[k] \in Nat /\ c[k + 1] \in Nat
      BY <1>7, <1>10, <3>3
    <3>5. d[n + k] <= i /\ i < d[(n + k) + 1]
      BY <1>1, <3>2, <3>4, SMTT(30)
    <3> QED BY <3>3, <3>5
  <2> QED BY <2>1, <2>2
<1>17. Written(whole, all, d)
  BY <1>2, <1>12, <1>13, <1>14, <1>15, <1>16 DEF Written, size
<1> QED BY <1>17 DEF whole, all

\* The text of a value is that of its lines, put on a new line each.
IsWritten(n, tree, prefix) ==
  /\ FlattenJson[n][tree][prefix] \in Seq(Chars)
  /\ OnNewLine(FlattenJson[n][tree][prefix]) \in Seq(Chars)
  /\ \E start : Written(OnNewLine(FlattenJson[n][tree][prefix]), LeafLines[n][tree][prefix], start)

\* An empty text has no lines.
LEMMA NothingWritten == \E start : Written(<<>>, <<>>, start)
<1> DEFINE start == [k \in 1 .. 1 |-> 1]
<1>1. start[1] = 1
  OBVIOUS
<1>2. Len(<<>>) = 0 /\ 1 .. 0 = {} /\ \A k \in 1 .. 0 + 1 : k = 1
  OBVIOUS
<1> HIDE DEF start
<1>3. Written(<<>>, <<>>, start)
  BY <1>1, <1>2 DEF Written
<1> QED BY <1>3

\* The text of a scalar is its line.
LEMMA LeafIsWritten ==
  ASSUME NEW n \in Nat, NEW tree \in Json[n], NEW prefix \in Path, tree.kind = "leaf"
  PROVE  IsWritten(n, tree, prefix)
<1> DEFINE line == [path |-> prefix, value |-> tree.value]
           text == LineText(line)
           first == <<Newline>>
           whole == first \o text
           size == Len(text)
           start == [k \in 1 .. 2 |-> IF k = 1 THEN 1 ELSE size + 2]
<1>1. line \in Line
  BY JsonCases DEF Line
<1>2. FlattenJson[n][tree][prefix] = text /\ LeafLines[n][tree][prefix] = <<line>>
  BY TextCases, LinesCases DEF LineText
<1> HIDE DEF line
<1>3. text \in Seq(Chars) /\ size \in Nat /\ size > 1
  BY <1>1, LineTextType
<1>4. Len(<<line>>) = 1 /\ <<line>>[1] = line
  OBVIOUS
<1> DEFINE lines == <<line>>
<1> HIDE DEF text
<1>5. text # <<>>
  BY <1>3
<1>6. OnNewLine(text) = whole
  BY <1>5 DEF OnNewLine
<1>7. /\ whole \in Seq(Chars) /\ Len(whole) = size + 1
      /\ whole[1] = Newline /\ \A j \in 1 .. size : whole[1 + j] = text[j]
  <2>1. \A c \in Chars : <<c>> \in Seq(Chars) /\ Len(<<c>>) = 1 /\ <<c>>[1] = c
    OBVIOUS
  <2>2. first \in Seq(Chars) /\ Len(first) = 1 /\ first[1] = Newline
    BY <2>1, OwnChars, Zenon
  <2> HIDE DEF first, size
  <2>3. /\ whole \in Seq(Chars) /\ Len(whole) = Len(first) + Len(text)
        /\ \A i \in 1 .. Len(first) + Len(text) :
             whole[i] = IF i <= Len(first) THEN first[i] ELSE text[i - Len(first)]
    BY <1>3, <2>2, ConcatProperties, Zenon
  <2> HIDE DEF whole
  <2>4. 1 \in 1 .. 1 + size /\ \A j \in 1 .. size : 1 + j \in 1 .. 1 + size /\ ~(1 + j <= 1) /\ (1 + j) - 1 = j
    BY <1>3
  <2>5. Len(whole) = size + 1
    BY <1>3, <2>2, <2>3 DEF size
  <2>6. whole[1] = Newline
    BY <2>2, <2>3, <2>4 DEF size
  <2>7. \A j \in 1 .. size : whole[1 + j] = text[j]
    BY <2>2, <2>3, <2>4 DEF size
  <2> QED BY <2>3, <2>5, <2>6, <2>7
<1>8. start[1] = 1 /\ start[2] = size + 2
  OBVIOUS
<1>9. text = LineText(lines[1]) /\ Len(lines) = 1
  BY <1>4 DEF text
<1> HIDE DEF whole, start, lines, size
<1>10. Written(whole, lines, start)
  <2>1. \A k \in 1 .. 1 + 1 : k = 1 \/ k = 2
    OBVIOUS
  <2>2. \A k \in 1 .. 1 + 1 : start[k] \in Nat
    BY <1>3, <1>8, <2>1
  <2>3. start[1] = 1 /\ start[1 + 1] = Len(whole) + 1
    BY <1>3, <1>7, <1>8
  <2>4. \A k, l \in 1 .. 1 + 1 : k < l => start[k] < start[l]
    BY <1>3, <1>8, <2>1
  <2>5. /\ start[1 + 1] = start[1] + 1 + Len(LineText(lines[1]))
        /\ whole[start[1]] = Newline
        /\ \A j \in 1 .. Len(LineText(lines[1])) : whole[start[1] + j] = LineText(lines[1])[j]
    <3>1. Len(LineText(lines[1])) = size
      BY <1>9 DEF size
    <3> QED BY <1>3, <1>7, <1>8, <1>9, <3>1
  <2>6. \A i \in 1 .. Len(whole) : start[1] <= i /\ i < start[1 + 1]
    BY <1>3, <1>7, <1>8
  <2>7. 1 \in 1 .. 1 /\ \A k \in 1 .. 1 : k = 1
    OBVIOUS
  <2>8. \A k \in 1 .. 1 :
          /\ start[k + 1] = start[k] + 1 + Len(LineText(lines[k]))
          /\ whole[start[k]] = Newline
          /\ \A j \in 1 .. Len(LineText(lines[k])) : whole[start[k] + j] = LineText(lines[k])[j]
    BY <2>5, <2>7
  <2>9. \A i \in 1 .. Len(whole) : \E k \in 1 .. 1 : start[k] <= i /\ i < start[k + 1]
    BY <2>6, <2>7
  <2> QED BY <1>9, <2>2, <2>3, <2>4, <2>8, <2>9 DEF Written
<1> QED BY <1>2, <1>3, <1>6, <1>7, <1>10 DEF IsWritten, lines

\* A text that is not empty starts with a line break, and does not end with it.
LEMMA WrittenStarts ==
  ASSUME NEW text \in Seq(Chars), NEW lines \in Seq(Line), NEW start, Written(text, lines, start),
         text # <<>>
  PROVE  text[1] = Newline /\ Len(text) \in Nat /\ Len(text) > 1 /\ lines # <<>>
<1>1. Len(text) \in Nat /\ Len(text) >= 1 /\ Len(lines) \in Nat
  OBVIOUS
<1>2. 1 \in 1 .. Len(text)
  BY <1>1
<1>3. PICK k \in 1 .. Len(lines) : start[k] <= 1 /\ 1 < start[k + 1]
  BY <1>2 DEF Written
<1>4. 1 \in 1 .. Len(lines) /\ 1 \in 1 .. Len(lines) + 1 /\ 1 + 1 \in 1 .. Len(lines) + 1
      /\ Len(lines) + 1 \in 1 .. Len(lines) + 1
  BY <1>1
<1>5. text[start[1]] = Newline /\ start[1] = 1 /\ start[1 + 1] = start[1] + 1 + Len(LineText(lines[1]))
  BY <1>4 DEF Written
<1>6. Len(LineText(lines[1])) \in Nat /\ Len(LineText(lines[1])) > 1
  <2>1. lines[1] \in Line
    BY <1>4
  <2> QED BY <2>1, LineTextType
<1>7. start[1 + 1] <= start[Len(lines) + 1] /\ start[Len(lines) + 1] = Len(text) + 1
  <2>1. 1 + 1 = Len(lines) + 1 \/ 1 + 1 < Len(lines) + 1
    BY <1>1, <1>4
  <2>2. start[1 + 1] \in Nat /\ start[Len(lines) + 1] \in Nat /\ start[Len(lines) + 1] = Len(text) + 1
    BY <1>4 DEF Written
  <2>3. 1 + 1 < Len(lines) + 1 => start[1 + 1] < start[Len(lines) + 1]
    BY <1>4 DEF Written
  <2> QED BY <2>1, <2>2, <2>3
<1>8. Len(text) > 1
  BY <1>1, <1>5, <1>6, <1>7
<1>9. lines # <<>>
  BY <1>4
<1> QED BY <1>1, <1>5, <1>8, <1>9

\* The text of a container, when those of its items are written.
LEMMA ContainerIsWritten ==
  ASSUME NEW n \in Nat, NEW tree \in Json[n], NEW prefix \in Path, tree.kind # "leaf",
         \A i \in DOMAIN tree.items : IsWritten(n - 1, tree.items[i], ItemPath(prefix, tree, i))
  PROVE  IsWritten(n, tree, prefix)
<1> DEFINE size == Len(tree.items)
           text(i) == FlattenJson[n - 1][tree.items[i]][ItemPath(prefix, tree, i)]
           leaves(i) == LeafLines[n - 1][tree.items[i]][ItemPath(prefix, tree, i)]
           texts == [i \in DOMAIN tree.items |-> text(i)]
           onNewLines == [i \in DOMAIN texts |-> OnNewLine(texts[i])]
           seqs == [i \in DOMAIN tree.items |-> leaves(i)]
           all == FlattenSeq(onNewLines)
           lines == FlattenSeq(seqs)
<1>1. size \in Nat /\ DOMAIN tree.items = 1 .. size
  BY JsonCases
<1>2. /\ FlattenJson[n][tree][prefix] = JoinLines(texts)
      /\ LeafLines[n][tree][prefix] = lines
  BY TextCases, LinesCases
<1>3. JoinLines(texts) = IF all = <<>> THEN <<>> ELSE Tail(all)
  BY DEF JoinLines
<1>4. /\ onNewLines \in Seq(Seq(Chars)) /\ Len(onNewLines) = size
      /\ seqs \in Seq(Seq(Line)) /\ Len(seqs) = size
      /\ \A i \in 1 .. size : \E start : Written(onNewLines[i], seqs[i], start)
  <2>1. \A i \in 1 .. size : OnNewLine(text(i)) \in Seq(Chars) /\ \E start : Written(OnNewLine(text(i)), leaves(i), start)
    BY <1>1 DEF IsWritten
  <2>2. \A i \in 1 .. size : leaves(i) \in Seq(Line)
    BY <1>1, ItemPathType, JsonIsTold DEF Told
  <2>3. onNewLines = [i \in 1 .. size |-> OnNewLine(text(i))] /\ seqs = [i \in 1 .. size |-> leaves(i)]
    BY <1>1
  <2> HIDE DEF text, leaves, size, onNewLines, seqs
  <2>4. onNewLines \in Seq(Seq(Chars)) /\ Len(onNewLines) = size
    BY <1>1, <2>1, <2>3
  <2>5. seqs \in Seq(Seq(Line)) /\ Len(seqs) = size
    BY <1>1, <2>2, <2>3
  <2>6. \A i \in 1 .. size : onNewLines[i] = OnNewLine(text(i)) /\ seqs[i] = leaves(i)
    BY <2>3
  <2> QED BY <2>1, <2>4, <2>5, <2>6
<1> HIDE DEF size, texts, onNewLines, seqs, all, lines
<1>5. all \in Seq(Chars) /\ lines \in Seq(Line) /\ \E start : Written(all, lines, start)
  <2>1. PICK g : /\ g[0] = <<>>
                 /\ \A i \in 1 .. Len(onNewLines) : g[i] = g[i - 1] \o onNewLines[i]
                 /\ FlattenSeq(onNewLines) = g[Len(onNewLines)]
    BY <1>4, FlattenSteps
  <2>2. PICK h : /\ h[0] = <<>>
                 /\ \A i \in 1 .. Len(seqs) : h[i] = h[i - 1] \o seqs[i]
                 /\ FlattenSeq(seqs) = h[Len(seqs)]
    BY <1>4, FlattenSteps
  <2> DEFINE Good(i) == /\ g[i] \in Seq(Chars) /\ h[i] \in Seq(Line)
                        /\ \E start : Written(g[i], h[i], start)
             Bad == {i \in 0 .. size : ~Good(i)}
  <2>3. Good(0)
    BY <2>1, <2>2, NothingWritten
  <2>4. SUFFICES ASSUME Bad # {} PROVE FALSE
    <3>1. size \in 0 .. size
      BY <1>1
    <3> HIDE DEF Good
    <3>2. Good(size)
      BY <3>1
    <3>3. all = g[size] /\ lines = h[size]
      BY <1>4, <2>1, <2>2 DEF all, lines
    <3> QED BY <3>2, <3>3 DEF Good
  <2>5. PICK i \in Bad : \A y \in Bad : i <= y
    <3> HIDE DEF Bad
    <3>1. Bad \in SUBSET Nat
      BY DEF Bad
    <3> QED BY <2>4, <3>1, F!LeastElement
  <2> HIDE DEF Good
  <2>6. i \in 0 .. size /\ ~Good(i)
    OBVIOUS
  <2>7. i # 0
    BY <2>3, <2>6
  <2>8. i \in 1 .. size /\ i - 1 \in 0 .. size /\ i - 1 < i
    BY <1>1, <2>6, <2>7
  <2>9. Good(i - 1)
    BY <1>1, <2>5, <2>8
  <2> HIDE DEF Bad
  <2>10. onNewLines[i] \in Seq(Chars) /\ seqs[i] \in Seq(Line)
    BY <1>4, <2>8
  <2>11. PICK c : Written(onNewLines[i], seqs[i], c)
    BY <1>4, <2>8
  <2>12. PICK b : Written(g[i - 1], h[i - 1], b)
    BY <2>9 DEF Good
  <2>13. g[i] = g[i - 1] \o onNewLines[i] /\ h[i] = h[i - 1] \o seqs[i]
    BY <1>4, <2>1, <2>2, <2>8
  <2>14. g[i - 1] \in Seq(Chars) /\ h[i - 1] \in Seq(Line)
    BY <2>9 DEF Good
  <2>15. \E d : Written(g[i - 1] \o onNewLines[i], h[i - 1] \o seqs[i], d)
    BY <2>10, <2>11, <2>12, <2>14, WrittenAppended
  <2>16. g[i - 1] \o onNewLines[i] \in Seq(Chars) /\ h[i - 1] \o seqs[i] \in Seq(Line)
    <3>1. \A x, y \in Seq(Chars) : x \o y \in Seq(Chars)
      OBVIOUS
    <3>2. \A x, y \in Seq(Line) : x \o y \in Seq(Line)
      OBVIOUS
    <3> QED BY <2>10, <2>14, <3>1, <3>2, Zenon
  <2>17. Good(i)
    BY <2>13, <2>15, <2>16, Zenon DEF Good
  <2> QED BY <2>6, <2>17
<1>6. CASE all = <<>>
  <2>1. OnNewLine(<<>>) = <<>> /\ <<>> \in Seq(Chars)
    BY DEF OnNewLine
  <2> QED BY <1>2, <1>3, <1>5, <1>6, <2>1 DEF IsWritten
<1>7. CASE all # <<>>
  <2> DEFINE rest == Tail(all)
             first == <<Newline>>
  <2>1. all[1] = Newline /\ Len(all) \in Nat /\ Len(all) > 1
    BY <1>5, <1>7, WrittenStarts
  <2>2. rest \in Seq(Chars) /\ Len(rest) = Len(all) - 1 /\ \A k \in 1 .. Len(all) - 1 : rest[k] = all[k + 1]
    BY <1>5, <1>7, <2>1
  <2>3. first \in Seq(Chars) /\ Len(first) = 1 /\ first[1] = Newline
    <3>1. \A c \in Chars : <<c>> \in Seq(Chars) /\ Len(<<c>>) = 1 /\ <<c>>[1] = c
      OBVIOUS
    <3> QED BY <3>1, OwnChars, Zenon
  <2> HIDE DEF rest, first
  <2>4. /\ first \o rest \in Seq(Chars) /\ Len(first \o rest) = 1 + Len(rest)
        /\ \A i \in 1 .. 1 + Len(rest) :
             (first \o rest)[i] = IF i <= 1 THEN first[i] ELSE rest[i - 1]
    <3>1. /\ first \o rest \in Seq(Chars) /\ Len(first \o rest) = Len(first) + Len(rest)
          /\ \A i \in 1 .. Len(first) + Len(rest) :
               (first \o rest)[i] = IF i <= Len(first) THEN first[i] ELSE rest[i - Len(first)]
      <4>1. rest \in Seq(Chars) /\ first \in Seq(Chars)
        BY <2>2, <2>3
      <4> QED BY <4>1, ConcatProperties, Zenon
    <3> QED BY <2>3, <3>1
  <2> DEFINE whole == first \o rest
  <2>5. whole \in Seq(Chars) /\ Len(whole) = Len(all)
        /\ \A i \in 1 .. Len(all) : whole[i] = IF i <= 1 THEN first[i] ELSE rest[i - 1]
    BY <2>1, <2>2, <2>4
  <2> HIDE DEF whole
  <2>6. \A i \in 1 .. Len(all) : whole[i] = all[i]
    <3> TAKE i \in 1 .. Len(all)
    <3>1. CASE i = 1
      BY <2>1, <2>3, <2>5, <3>1
    <3>2. CASE i # 1
      <4>1. i - 1 \in 1 .. Len(all) - 1 /\ (i - 1) + 1 = i /\ ~(i <= 1)
        BY <2>1, <3>2
      <4> QED BY <2>2, <2>5, <4>1
    <3> QED BY <3>1, <3>2
  <2>7. whole = all
    BY <1>5, <2>5, <2>6, SeqEqual
  <2>8. rest # <<>>
    BY <2>1, <2>2
  <2>9. OnNewLine(rest) = all
    BY <2>7, <2>8 DEF OnNewLine, whole, first
  <2>10. FlattenJson[n][tree][prefix] = rest
    BY <1>2, <1>3, <1>7 DEF rest
  <2> QED BY <1>2, <1>5, <2>2, <2>9, <2>10 DEF IsWritten
<1> QED BY <1>6, <1>7

\* Of every value, whatever its depth and the path where it stands.
LEMMA TextIsWritten ==
  ASSUME NEW n \in Nat, NEW tree \in Json[n], NEW prefix \in Path
  PROVE  IsWritten(n, tree, prefix)
<1> DEFINE Good(m) == \A t \in Json[m], path \in Path : IsWritten(m, t, path)
           Bad == {m \in Nat : ~Good(m)}
<1>1. SUFFICES ASSUME Bad # {} PROVE FALSE
  OBVIOUS
<1>2. PICK m \in Bad : \A y \in Bad : m <= y
  <2> HIDE DEF Bad
  <2>1. Bad \in SUBSET Nat
    BY DEF Bad
  <2> QED BY <1>1, <2>1, T!LeastElement
<1>3. m - 1 \in Nat => Good(m - 1)
  <2> HIDE DEF Good
  <2> QED BY <1>2
<1>4. ASSUME NEW t \in Json[m], NEW path \in Path
      PROVE  IsWritten(m, t, path)
  <2>1. CASE t.kind = "leaf"
    BY <2>1, LeafIsWritten
  <2>2. CASE t.kind # "leaf"
    <3>1. \A i \in DOMAIN t.items : IsWritten(m - 1, t.items[i], ItemPath(path, t, i))
      BY <1>3, <2>2, ItemPathType
    <3> QED BY <2>2, <3>1, ContainerIsWritten
  <2> QED BY <2>1, <2>2
<1> QED BY <1>2, <1>4

-----------------------------------------------------------------------------
(* The lines of a text, when none of them has a line break *)

\* A line that is read lies between the line breaks that were written before it and
\* before the next one.
LEMMA LinesRead ==
  ASSUME NEW text \in Seq(Chars), NEW lines \in Seq(Line), NEW start,
         Written(OnNewLine(text), lines, start),
         \A k \in 1 .. Len(lines) : \A j \in 1 .. Len(LineText(lines[k])) : LineText(lines[k])[j] # Newline
  PROVE  /\ \A k \in 1 .. Len(lines) :
              /\ <<start[k] - 1, start[k + 1] - 1>> \in Lines(text)
              /\ LineAt(text, <<start[k] - 1, start[k + 1] - 1>>) = LineText(lines[k])
         /\ \A l \in Lines(text) : \E k \in 1 .. Len(lines) : l = <<start[k] - 1, start[k + 1] - 1>>
         /\ \A k, l \in 1 .. Len(lines) : start[k] - 1 = start[l] - 1 => k = l
<1> DEFINE n == Len(lines)
           size(k) == Len(LineText(lines[k]))
           whole == OnNewLine(text)
<1>1. n \in Nat /\ Len(text) \in Nat /\ \A k \in 1 .. n : size(k) \in Nat
  <2>1. \A k \in 1 .. n : lines[k] \in Line
    OBVIOUS
  <2> QED BY <2>1, LineTextType
<1>2. /\ \A k \in 1 .. n + 1 : start[k] \in Nat
      /\ start[1] = 1 /\ start[n + 1] = Len(whole) + 1
      /\ \A k, l \in 1 .. n + 1 : k < l => start[k] < start[l]
  BY DEF Written
<1>3. /\ \A k \in 1 .. n : start[k + 1] = start[k] + 1 + size(k) /\ whole[start[k]] = Newline
      /\ \A k \in 1 .. n : \A j \in 1 .. size(k) : whole[start[k] + j] = LineText(lines[k])[j]
      /\ \A i \in 1 .. Len(whole) : \E k \in 1 .. n : start[k] <= i /\ i < start[k + 1]
  BY DEF Written
<1>4. \A k \in 1 .. n : \A j \in 1 .. size(k) : LineText(lines[k])[j] # Newline
  OBVIOUS
<1> HIDE DEF n, size
<1>5. \A k, l \in 1 .. n : start[k] - 1 = start[l] - 1 => k = l
  <2> TAKE k, l \in 1 .. n
  <2> HAVE start[k] - 1 = start[l] - 1
  <2>1. k \in 1 .. n + 1 /\ l \in 1 .. n + 1 /\ k \in Nat /\ l \in Nat
    BY <1>1
  <2>2. start[k] \in Nat /\ start[l] \in Nat
    BY <1>2, <2>1
  <2>3. ~(start[k] < start[l]) /\ ~(start[l] < start[k])
    BY <2>2
  <2> QED BY <1>2, <2>1, <2>3
<1>6. CASE text = <<>>
  <2>1. whole = <<>> /\ Len(whole) = 0 /\ Lines(text) = {}
    BY <1>6 DEF OnNewLine, Lines
  <2>2. n = 0
    <3>1. n # 0 => 1 \in 1 .. n + 1 /\ n + 1 \in 1 .. n + 1 /\ 1 < n + 1
      BY <1>1
    <3>2. n # 0 => start[1] < start[n + 1]
      BY <1>2, <3>1
    <3> QED BY <1>2, <2>1, <3>2
  <2> QED BY <2>1, <2>2 DEF n
<1>7. CASE text # <<>>
  <2> DEFINE first == <<Newline>>
  <2>1. whole = first \o text
    BY <1>7 DEF OnNewLine
  <2>2. first \in Seq(Chars) /\ Len(first) = 1 /\ first[1] = Newline
    <3>1. \A c \in Chars : <<c>> \in Seq(Chars) /\ Len(<<c>>) = 1 /\ <<c>>[1] = c
      OBVIOUS
    <3> QED BY <3>1, OwnChars, Zenon
  <2> HIDE DEF first, whole
  <2>3. /\ Len(first \o text) = Len(first) + Len(text)
        /\ \A i \in 1 .. Len(first) + Len(text) :
             (first \o text)[i] = IF i <= Len(first) THEN first[i] ELSE text[i - Len(first)]
    <3>1. first \in Seq(Chars) /\ text \in Seq(Chars)
      BY <2>2
    <3> QED BY <3>1, ConcatProperties, Zenon
  <2>4. Len(whole) = 1 + Len(text) /\ \A i \in 1 .. 1 + Len(text) :
             whole[i] = IF i <= 1 THEN first[i] ELSE text[i - 1]
    <3>1. /\ Len(whole) = Len(first) + Len(text)
          /\ \A i \in 1 .. Len(first) + Len(text) :
               whole[i] = IF i <= Len(first) THEN first[i] ELSE text[i - Len(first)]
      BY <2>1, <2>3, Zenon
    <3> QED BY <2>2, <3>1
  <2>5. \A i \in 2 .. Len(whole) : i - 1 \in 1 .. Len(text) /\ whole[i] = text[i - 1]
    <3> TAKE i \in 2 .. Len(whole)
    <3>1. i \in 1 .. 1 + Len(text) /\ ~(i <= 1) /\ i - 1 \in 1 .. Len(text)
      BY <1>1, <2>4
    <3> QED BY <2>4, <3>1
  <2>6. DOMAIN text = 1 .. Len(text)
    OBVIOUS
  <2>7. ASSUME NEW k \in 1 .. n + 1 PROVE start[k] - 1 \in Breaks(text)
    <3>1. k = 1 \/ k = n + 1 \/ (k \in 1 .. n /\ 1 < k)
      BY <1>1
    <3>2. CASE k = 1
      BY <1>2, <3>2 DEF Breaks
    <3>3. CASE k = n + 1
      <4>1. start[k] - 1 = Len(text) + 1
        BY <1>1, <1>2, <2>4, <3>3
      <4> QED BY <4>1 DEF Breaks
    <3>4. CASE k \in 1 .. n /\ 1 < k
      <4>1. 1 \in 1 .. n + 1 /\ n + 1 \in 1 .. n + 1 /\ k < n + 1
        BY <1>1, <3>4
      <4>2. start[1] < start[k] /\ start[k] < start[n + 1] /\ start[k] \in Nat
        BY <1>2, <3>4, <4>1
      <4>3. start[k] \in 2 .. Len(whole)
        BY <1>1, <1>2, <2>4, <4>2
      <4>4. text[start[k] - 1] = Newline /\ start[k] - 1 \in DOMAIN text
        BY <1>3, <2>5, <2>6, <3>4, <4>3
      <4> QED BY <4>4 DEF Breaks
    <3> QED BY <3>1, <3>2, <3>3, <3>4
  <2>8. ASSUME NEW i \in Breaks(text) PROVE \E k \in 1 .. n + 1 : i = start[k] - 1
    <3>1. 1 \in 1 .. n + 1 /\ n + 1 \in 1 .. n + 1
      BY <1>1
    <3>2. CASE i = 0
      BY <1>2, <3>1, <3>2
    <3>3. CASE i = Len(text) + 1
      <4>1. i = start[n + 1] - 1
        BY <1>1, <1>2, <2>4, <3>3
      <4> QED BY <3>1, <4>1
    <3>4. CASE i \in 1 .. Len(text) /\ text[i] = Newline
      <4>1. i + 1 \in 2 .. Len(whole) /\ i + 1 \in 1 .. Len(whole) /\ (i + 1) - 1 = i
        BY <1>1, <2>4, <3>4
      <4>2. whole[i + 1] = Newline
        BY <2>5, <3>4, <4>1
      <4>3. PICK k \in 1 .. n : start[k] <= i + 1 /\ i + 1 < start[k + 1]
        BY <1>3, <4>1
      <4>4. k \in 1 .. n + 1 /\ start[k] \in Nat /\ size(k) \in Nat /\ start[k + 1] = start[k] + 1 + size(k)
        BY <1>1, <1>2, <1>3
      <4>5. ASSUME start[k] # i + 1 PROVE FALSE
        <5> DEFINE j == (i + 1) - start[k]
        <5>1. j \in 1 .. size(k) /\ start[k] + j = i + 1
          <6>1. ASSUME NEW a \in Nat, NEW z \in Nat, a <= i + 1, i + 1 < a + 1 + z, a # i + 1
                PROVE  (i + 1) - a \in 1 .. z /\ a + ((i + 1) - a) = i + 1
            BY <1>1, <3>4, <6>1
          <6>2. i + 1 < start[k] + 1 + size(k)
            BY <4>3, <4>4
          <6> QED BY <4>3, <4>4, <4>5, <6>1, <6>2
        <5> HIDE DEF j
        <5>2. whole[start[k] + j] = LineText(lines[k])[j] /\ LineText(lines[k])[j] # Newline
          BY <1>3, <1>4, <5>1
        <5> QED BY <4>2, <5>1, <5>2
      <4> QED BY <3>4, <4>4, <4>5
    <3> QED BY <2>6, <3>2, <3>3, <3>4 DEF Breaks
  <2>9. ASSUME NEW k \in 1 .. n + 1, NEW l \in 1 .. n + 1
        PROVE  /\ k <= l => start[k] - 1 <= start[l] - 1
               /\ start[k] - 1 < start[l] - 1 => k < l
    <3>1. start[k] \in Nat /\ start[l] \in Nat /\ k \in Nat /\ l \in Nat
      BY <1>1, <1>2
    <3>2. (k < l => start[k] < start[l]) /\ (l < k => start[l] < start[k])
      BY <1>2
    <3>3. k < l \/ l < k \/ k = l
      BY <3>1
    <3> QED BY <3>1, <3>2, <3>3
  <2>10. ASSUME NEW k \in 1 .. n
         PROVE  <<start[k] - 1, start[k + 1] - 1>> \in Lines(text)
    <3>1. k \in 1 .. n + 1 /\ k + 1 \in 1 .. n + 1 /\ k < k + 1
      BY <1>1
    <3>2. start[k] < start[k + 1] /\ start[k] \in Nat /\ start[k + 1] \in Nat
      BY <1>2, <3>1
    <3>3. start[k] - 1 < start[k + 1] - 1
      BY <3>2
    <3>4. \A b \in Breaks(text) : b <= start[k] - 1 \/ start[k + 1] - 1 <= b
      <4> TAKE b \in Breaks(text)
      <4>1. PICK m \in 1 .. n + 1 : b = start[m] - 1
        BY <2>8
      <4>2. m <= k \/ k + 1 <= m
        BY <1>1, <3>1
      <4> QED BY <2>9, <3>1, <4>1, <4>2
    <3>5. start[k] - 1 \in Breaks(text) /\ start[k + 1] - 1 \in Breaks(text)
      BY <2>7, <3>1
    <3> DEFINE x == start[k] - 1
               y == start[k + 1] - 1
    <3> HIDE DEF x, y
    <3>6. <<x, y>> \in Lines(text)
      <4>1. x \in Breaks(text) /\ y \in Breaks(text) /\ x < y /\ \A b \in Breaks(text) : b <= x \/ y <= b
        BY <3>3, <3>4, <3>5 DEF x, y
      <4> QED BY <1>7, <4>1 DEF Lines
    <3> QED BY <3>6 DEF x, y
  <2>11. ASSUME NEW l \in Lines(text)
         PROVE  \E k \in 1 .. n : l = <<start[k] - 1, start[k + 1] - 1>>
    <3>1. /\ l \in Breaks(text) \X Breaks(text)
          /\ l[1] < l[2] /\ \A b \in Breaks(text) : b <= l[1] \/ l[2] <= b
      BY <1>7 DEF Lines
    <3>2. l[1] \in Breaks(text) /\ l[2] \in Breaks(text) /\ l = <<l[1], l[2]>>
      BY <3>1
    <3>3. PICK k \in 1 .. n + 1 : l[1] = start[k] - 1
      BY <2>8, <3>2
    <3>4. PICK m \in 1 .. n + 1 : l[2] = start[m] - 1
      BY <2>8, <3>2
    <3>5. k < m
      BY <2>9, <3>1, <3>3, <3>4
    <3>6. k \in 1 .. n /\ k + 1 \in 1 .. n + 1 /\ k \in Nat /\ m \in Nat /\ k + 1 <= m
      BY <1>1, <3>5
    <3>7. start[k + 1] - 1 \in Breaks(text)
      BY <2>7, <3>6
    <3>8. ~(start[k + 1] - 1 <= l[1])
      <4>1. start[k] < start[k + 1] /\ start[k] \in Nat /\ start[k + 1] \in Nat
        <5>1. k < k + 1
          BY <3>6
        <5> QED BY <1>2, <3>6, <5>1
      <4> QED BY <3>3, <4>1
    <3>9. l[2] <= start[k + 1] - 1
      BY <3>1, <3>7, <3>8
    <3>10. start[m] \in Nat /\ start[k + 1] \in Nat
      BY <1>2, <3>6
    <3>11. m = k + 1
      <4>1. ~(k + 1 < m)
        <5>1. k + 1 < m => start[k + 1] < start[m]
          BY <1>2, <3>6
        <5> QED BY <3>4, <3>9, <3>10, <5>1
      <4> QED BY <3>6, <4>1
    <3> QED BY <3>2, <3>3, <3>4, <3>6, <3>11
  <2>12. ASSUME NEW k \in 1 .. n
         PROVE  LineAt(text, <<start[k] - 1, start[k + 1] - 1>>) = LineText(lines[k])
    <3> DEFINE x == start[k]
               y == start[k + 1] - 2
               read == SubSeq(text, x, y)
    <3>1. k \in 1 .. n + 1 /\ k + 1 \in 1 .. n + 1 /\ n + 1 \in 1 .. n + 1 /\ 1 \in 1 .. n + 1 /\ k \in Nat
      BY <1>1
    <3>2. x \in Nat /\ x >= 1 /\ start[k + 1] = x + 1 + size(k) /\ size(k) \in Nat
          /\ start[k + 1] <= Len(text) + 2
      <4>1. x - 1 >= 0 /\ start[k + 1] - 1 <= start[n + 1] - 1
        <5>1. start[1] - 1 <= start[k] - 1 /\ start[k + 1] - 1 <= start[n + 1] - 1
          BY <1>1, <2>9, <3>1
        <5> QED BY <1>2, <5>1
      <4>2. start[n + 1] = Len(text) + 2 /\ start[k + 1] \in Nat /\ x \in Nat
        BY <1>1, <1>2, <2>4, <3>1
      <4>3. start[k + 1] = x + 1 + size(k) /\ size(k) \in Nat
        BY <1>1, <1>3
      <4> HIDE DEF x
      <4>4. start[k + 1] <= Len(text) + 2
        <5>1. start[n + 1] \in Nat
          BY <1>2, <3>1
        <5> QED BY <4>1, <4>2, <5>1
      <4>5. x >= 1
        BY <4>1, <4>2
      <4> QED BY <4>2, <4>3, <4>4, <4>5
    <3>3. y = x + size(k) - 1 /\ y <= Len(text) /\ y \in Int
      BY <1>1, <3>2
    <3> HIDE DEF x, y
    <3>4. /\ read \in Seq(Chars) /\ Len(read) = size(k)
          /\ \A j \in 1 .. size(k) : read[j] = text[x + j - 1]
      <4>1. x \in Nat /\ x >= 1 /\ size(k) \in Nat
        BY <3>2 DEF x
      <4>2. x \in 1 .. Len(text) + 1 /\ y \in x - 1 .. Len(text)
        BY <1>1, <3>3, <4>1
      <4>3. /\ SubSeq(text, x, y) \in Seq(Chars)
            /\ Len(SubSeq(text, x, y)) = IF x <= y THEN y - x + 1 ELSE 0
            /\ \A j \in 1 .. y - x + 1 : SubSeq(text, x, y)[j] = text[x + j - 1]
        BY <4>2, SubSeqProperties
      <4>4. y - x + 1 = size(k)
        BY <3>3, <4>1
      <4>5. (IF x <= y THEN y - x + 1 ELSE 0) = size(k)
        BY <3>3, <4>1
      <4> QED BY <4>3, <4>4, <4>5
    <3>5. \A j \in 1 .. size(k) : read[j] = LineText(lines[k])[j]
      <4> TAKE j \in 1 .. size(k)
      <4>1. x \in Nat /\ x >= 1 /\ size(k) \in Nat
        BY <3>2 DEF x
      <4>2. x + j \in 2 .. Len(text) + 1 /\ (x + j) - 1 = x + j - 1
        BY <1>1, <3>3, <4>1
      <4>3. x + j \in 2 .. Len(whole)
        BY <1>1, <2>4, <4>2
      <4>4. text[x + j - 1] = whole[x + j]
        BY <2>5, <4>2, <4>3
      <4> QED BY <1>3, <3>4, <4>4 DEF x
    <3>6. LineText(lines[k]) \in Seq(Chars)
      <4>1. lines[k] \in Line
        BY DEF n
      <4> QED BY <4>1, LineTextType
    <3>7. read = LineText(lines[k])
      <4>1. Len(read) = Len(LineText(lines[k]))
        BY <3>4 DEF size
      <4>2. \A j \in 1 .. Len(read) : read[j] = LineText(lines[k])[j]
        BY <3>4, <3>5
      <4> QED BY <3>4, <3>6, <4>1, <4>2, SeqEqual
    <3>8. (start[k] - 1) + 1 = x /\ (start[k + 1] - 1) - 1 = y
      <4>1. start[k + 1] \in Nat
        BY <1>2, <3>1
      <4> QED BY <3>2, <4>1 DEF x, y
    <3> QED BY <3>7, <3>8 DEF LineAt, read
  <2> QED BY <1>5, <2>10, <2>11, <2>12 DEF n
<1> QED BY <1>6, <1>7

-----------------------------------------------------------------------------
(* Line breaks and colons *)

\* None of the characters is a line break; and nor is one a colon.
OneLine(text) == \A i \in 1 .. Len(text) : text[i] # Newline
Clean(text) == \A i \in 1 .. Len(text) : text[i] # Newline /\ text[i] # ":"

\* The code writes neither into a path.
LEMMA CleanMarks ==
  /\ \A c \in Digits : c # Newline /\ c # ":"
  /\ Clean(<<".">>) /\ Clean(<<"[">>) /\ Clean(<<"]">>)
<1>1. \A d \in 1 .. 10 : Digit[d] # "newline" /\ Digit[d] # ":"
  <2> TAKE d \in 1 .. 10
  <2>1. d = 1 \/ d = 2 \/ d = 3 \/ d = 4 \/ d = 5 \/ d = 6 \/ d = 7 \/ d = 8 \/ d = 9 \/ d = 10
    OBVIOUS
  <2>2. /\ Digit[1] = "0" /\ Digit[2] = "1" /\ Digit[3] = "2" /\ Digit[4] = "3" /\ Digit[5] = "4"
        /\ Digit[6] = "5" /\ Digit[7] = "6" /\ Digit[8] = "7" /\ Digit[9] = "8" /\ Digit[10] = "9"
    BY DEF Digit
  <2> HIDE DEF Digit
  <2> QED BY <2>1, <2>2
<1>2. \A c \in Digits : c # Newline /\ c # ":"
  <2> HIDE DEF Digit
  <2> QED BY <1>1 DEF Digits, Newline
<1>3. Clean(<<".">>) /\ Clean(<<"[">>) /\ Clean(<<"]">>)
  BY DEF Clean, Newline
<1> QED BY <1>2, <1>3

\* Joining clean texts gives a clean one.
LEMMA CleanJoined ==
  ASSUME NEW a \in Path, NEW b \in Path, Clean(a), Clean(b)
  PROVE  Joined(a, b) \in Path /\ Clean(Joined(a, b))
<1>1. a \in Seq(Chars) /\ b \in Seq(Chars)
  BY DEF Path
<1>2. /\ a \o b \in Seq(Chars) /\ Len(a \o b) = Len(a) + Len(b)
      /\ \A i \in 1 .. Len(a) + Len(b) :
           (a \o b)[i] = IF i <= Len(a) THEN a[i] ELSE b[i - Len(a)]
  BY <1>1, ConcatProperties, Zenon
<1> DEFINE c == Joined(a, b)
<1>3. /\ c \in Seq(Chars) /\ Len(c) = Len(a) + Len(b)
      /\ \A i \in 1 .. Len(a) + Len(b) : c[i] = IF i <= Len(a) THEN a[i] ELSE b[i - Len(a)]
  BY <1>2, Zenon DEF Joined
<1> HIDE DEF c
<1>4. ASSUME NEW i \in 1 .. Len(c) PROVE c[i] # Newline /\ c[i] # ":"
  <2>1. Len(a) \in Nat /\ Len(b) \in Nat
    BY <1>1
  <2>2. i \in 1 .. Len(a) + Len(b) /\ (i <= Len(a) => i \in 1 .. Len(a))
        /\ (~(i <= Len(a)) => i - Len(a) \in 1 .. Len(b))
    BY <1>3, <2>1
  <2> QED BY <1>3, <2>2 DEF Clean
<1> QED BY <1>3, <1>4 DEF Clean, Path, c

\* Legibility is that of the value itself, of its own keys and of its items.
LEMMA LegibleCases ==
  ASSUME NEW n \in Nat, NEW tree \in Json[n], Legible(n, tree)
  PROVE  /\ tree.kind = "leaf" => OneLine(tree.value)
         /\ \A i \in DOMAIN tree.keys : Clean(tree.keys[i])
         /\ \A i \in DOMAIN tree.items : Legible(n - 1, tree.items[i])
<1> DEFINE root == <<<<>>, tree>>
<1>1. root \in Nodes[n][tree] /\ root[2] = tree
  BY NodesCases
<1> HIDE DEF root
<1>2. /\ Newline \notin ToSet(root[2].value)
      /\ \A key \in ToSet(root[2].keys) : {Newline, ":"} \cap ToSet(key) = {}
  BY <1>1 DEF Legible
<1>3. /\ Newline \notin ToSet(tree.value)
      /\ \A key \in ToSet(tree.keys) : {Newline, ":"} \cap ToSet(key) = {}
  BY <1>1, <1>2
<1>4. tree.kind = "leaf" => OneLine(tree.value)
  <2> HAVE tree.kind = "leaf"
  <2>1. tree.value \in Seq(Chars)
    BY JsonCases, JsonAssumption
  <2>2. DOMAIN tree.value = 1 .. Len(tree.value)
    BY <2>1
  <2> QED BY <1>3, <2>2 DEF OneLine, ToSet
<1>5. ASSUME NEW i \in DOMAIN tree.keys PROVE Clean(tree.keys[i])
  <2> DEFINE key == tree.keys[i]
  <2>1. key \in ToSet(tree.keys)
    BY DEF ToSet
  <2>2. key \in Seq(Chars)
    <3>1. tree.kind = "object"
      BY <1>5, JsonCases
    <3> QED BY <3>1, JsonCases DEF Path
  <2> HIDE DEF key
  <2>3. DOMAIN key = 1 .. Len(key)
    BY <2>2
  <2>4. {Newline, ":"} \cap ToSet(key) = {}
    BY <1>3, <2>1
  <2>5. Clean(key)
    BY <2>3, <2>4 DEF Clean, ToSet
  <2> QED BY <2>5 DEF key
<1>6. ASSUME NEW i \in DOMAIN tree.items
      PROVE  Legible(n - 1, tree.items[i])
  <2>1. ASSUME NEW q \in Nodes[n - 1][tree.items[i]]
        PROVE  /\ Newline \notin ToSet(q[2].value)
               /\ \A key \in ToSet(q[2].keys) : {Newline, ":"} \cap ToSet(key) = {}
    <3> DEFINE p == Below(i, q)
    <3>1. p \in Nodes[n][tree]
      BY NodesCases
    <3>2. p[2] = q[2]
      BY DEF Below
    <3> HIDE DEF p
    <3>3. /\ Newline \notin ToSet(p[2].value)
          /\ \A key \in ToSet(p[2].keys) : {Newline, ":"} \cap ToSet(key) = {}
      BY <3>1 DEF Legible
    <3> QED BY <3>2, <3>3
  <2> QED BY <2>1 DEF Legible
<1> QED BY <1>4, <1>5, <1>6

\* The path of an item is clean.
LEMMA CleanItemPath ==
  ASSUME NEW n \in Nat, NEW tree \in Json[n], Legible(n, tree), tree.kind # "leaf",
         NEW i \in DOMAIN tree.items, NEW prefix \in Path, Clean(prefix)
  PROVE  Clean(ItemPath(prefix, tree, i))
<1>1. CASE tree.kind = "object"
  <2>1. i \in DOMAIN tree.keys /\ tree.keys[i] \in Path
    BY <1>1, JsonCases
  <2>2. Clean(tree.keys[i])
    BY <2>1, LegibleCases
  <2>3. CASE prefix = <<>>
    BY <1>1, <2>2, <2>3 DEF ItemPath
  <2>4. CASE prefix # <<>>
    <3>1. ItemPath(prefix, tree, i) = Joined(Joined(prefix, <<".">>), tree.keys[i])
      BY <1>1, <2>4 DEF ItemPath, Joined
    <3> DEFINE d == <<".">>
               key == tree.keys[i]
    <3>2. d \in Path /\ Clean(d) /\ key \in Path /\ Clean(key)
      BY <2>1, <2>2, Brackets, CleanMarks
    <3>3. ItemPath(prefix, tree, i) = Joined(Joined(prefix, d), key)
      BY <3>1
    <3> HIDE DEF d, key
    <3>4. Joined(prefix, d) \in Path /\ Clean(Joined(prefix, d))
      BY <3>2, CleanJoined
    <3>5. Clean(Joined(Joined(prefix, d), key))
      BY <3>2, <3>4, CleanJoined
    <3> QED BY <3>3, <3>5
  <2> QED BY <2>3, <2>4
<1>2. CASE tree.kind = "array"
  <2> DEFINE c == <<"[">>
             d == <<"]">>
             num == Numeral[i - 1]
  <2>1. ItemPath(prefix, tree, i) = Joined(Joined(Joined(prefix, c), num), d)
    BY <1>2 DEF ItemPath, Joined
  <2>2. num \in Path /\ Clean(num)
    <3>1. tree.kind # "leaf"
      BY <1>2
    <3>2. num \in Seq(Digits)
      BY <3>1, ItemPathType, NumeralType
    <3> HIDE DEF num
    <3>3. \A k \in 1 .. Len(num) : num[k] \in Digits
      BY <3>2
    <3> QED BY <3>2, <3>3, CleanMarks, DigitsAreText DEF Clean
  <2>3. c \in Path /\ d \in Path /\ Clean(c) /\ Clean(d)
    BY Brackets, CleanMarks
  <2> HIDE DEF c, d, num
  <2>4. Joined(prefix, c) \in Path /\ Clean(Joined(prefix, c))
    BY <2>3, CleanJoined
  <2>5. Joined(Joined(prefix, c), num) \in Path /\ Clean(Joined(Joined(prefix, c), num))
    BY <2>2, <2>4, CleanJoined
  <2>6. Clean(Joined(Joined(Joined(prefix, c), num), d))
    BY <2>3, <2>5, CleanJoined
  <2> QED BY <2>1, <2>6
<1> QED BY <1>1, <1>2, JsonCases

\* So are the paths of the lines of a legible value, and their values have no line
\* break.
CleanLines(n, tree, prefix) ==
  \A k \in 1 .. Len(LeafLines[n][tree][prefix]) :
    /\ Clean(LeafLines[n][tree][prefix][k].path)
    /\ OneLine(LeafLines[n][tree][prefix][k].value)

LEMMA LegibleLines ==
  ASSUME NEW n \in Nat, NEW tree \in Json[n], NEW prefix \in Path, Legible(n, tree), Clean(prefix)
  PROVE  CleanLines(n, tree, prefix)
<1> DEFINE Good(m) == \A t \in Json[m], path \in Path : Legible(m, t) /\ Clean(path) => CleanLines(m, t, path)
           Bad == {m \in Nat : ~Good(m)}
<1>1. SUFFICES ASSUME Bad # {} PROVE FALSE
  OBVIOUS
<1>2. PICK m \in Bad : \A y \in Bad : m <= y
  <2> HIDE DEF Bad
  <2>1. Bad \in SUBSET Nat
    BY DEF Bad
  <2> QED BY <1>1, <2>1, T!LeastElement
<1>3. m - 1 \in Nat => Good(m - 1)
  <2> HIDE DEF Good
  <2> QED BY <1>2
<1>4. ASSUME NEW t \in Json[m], NEW path \in Path, Legible(m, t), Clean(path)
      PROVE  CleanLines(m, t, path)
  <2> DEFINE lines == LeafLines[m][t][path]
  <2>1. CASE t.kind = "leaf"
    <3>1. lines = <<[path |-> path, value |-> t.value]>>
      BY <2>1, LinesCases
    <3>2. Len(lines) = 1 /\ lines[1].path = path /\ lines[1].value = t.value
      BY <3>1
    <3>3. OneLine(t.value)
      BY <1>4, <2>1, LegibleCases
    <3>4. \A k \in 1 .. Len(lines) : k = 1
      BY <3>2
    <3> HIDE DEF lines
    <3>5. \A k \in 1 .. Len(lines) : Clean(lines[k].path) /\ OneLine(lines[k].value)
      BY <1>4, <3>2, <3>3, <3>4
    <3> QED BY <3>5 DEF CleanLines, lines
  <2>2. CASE t.kind # "leaf"
    <3> DEFINE leaves(i) == LeafLines[m - 1][t.items[i]][ItemPath(path, t, i)]
               seqs == [i \in DOMAIN t.items |-> leaves(i)]
    <3>1. DOMAIN t.items = 1 .. Len(t.items) /\ Len(t.items) \in Nat
      BY <2>2, JsonCases
    <3>2. \A i \in DOMAIN t.items : leaves(i) \in Seq(Line)
      BY <2>2, ItemPathType, JsonIsTold DEF Told
    <3>3. \A i \in DOMAIN t.items : CleanLines(m - 1, t.items[i], ItemPath(path, t, i))
      BY <1>3, <1>4, <2>2, ItemPathType, LegibleCases, CleanItemPath
    <3>4. \A i \in DOMAIN t.items : \A k \in 1 .. Len(leaves(i)) :
            Clean(leaves(i)[k].path) /\ OneLine(leaves(i)[k].value)
      BY <3>3 DEF CleanLines
    <3>5. lines = FlattenSeq(seqs)
      BY <2>2, LinesCases
    <3> HIDE DEF leaves, lines
    <3>6. seqs \in Seq(Seq(Line)) /\ Len(seqs) = Len(t.items) /\ \A i \in 1 .. Len(t.items) : seqs[i] = leaves(i)
      BY <3>1, <3>2
    <3> HIDE DEF seqs
    <3>7. PICK w, p : Lists(lines, seqs, Len(seqs), w, p)
      BY <3>5, <3>6, FlattenSeqLists
    <3>8. ASSUME NEW k \in 1 .. Len(lines)
          PROVE  Clean(lines[k].path) /\ OneLine(lines[k].value)
      <4>1. /\ w[k] \in 1 .. Len(seqs) /\ p[k] \in 1 .. Len(seqs[w[k]])
            /\ lines[k] = seqs[w[k]][p[k]]
        BY <3>7 DEF Lists
      <4>2. w[k] \in DOMAIN t.items /\ seqs[w[k]] = leaves(w[k])
        BY <3>1, <3>6, <4>1
      <4> QED BY <3>4, <4>1, <4>2
    <3> QED BY <3>8 DEF CleanLines, lines
  <2> QED BY <2>1, <2>2
<1> QED BY <1>2, <1>4

-----------------------------------------------------------------------------
(* What a line tells *)

\* A line that starts with a clean path is read as what it was rendered from.
LEMMA LineIsRead ==
  ASSUME NEW line \in Line, Clean(line.path), OneLine(line.value)
  PROVE  /\ OneLine(LineText(line))
         /\ PathTold(LineText(line)) = line.path
         /\ ValueTold(LineText(line)) = line.value
<1> DEFINE path == line.path
           value == line.value
           mark == <<":", " ">>
           start == path \o mark
           text == start \o value
           n == Len(path)
           m == Len(value)
<1>1. path \in Seq(Chars) /\ value \in Seq(Chars)
  BY JsonAssumption DEF Line, Path
<1>2. mark \in Seq(Chars) /\ Len(mark) = 2 /\ mark[1] = ":" /\ mark[2] = " "
  <2>1. \A c, e \in Chars : /\ <<c, e>> \in Seq(Chars) /\ Len(<<c, e>>) = 2
                            /\ <<c, e>>[1] = c /\ <<c, e>>[2] = e
    OBVIOUS
  <2>2. ":" \in Chars /\ " " \in Chars
    BY OwnChars
  <2> QED BY <2>1, <2>2, Zenon
<1>3. LineText(line) = text
  BY DEF LineText, Rendered
<1>4. Clean(path) /\ OneLine(value)
  OBVIOUS
<1> HIDE DEF path, value, mark, text
<1>5. n \in Nat /\ m \in Nat
  BY <1>1
<1>6. /\ start \in Seq(Chars) /\ Len(start) = n + 2
      /\ \A i \in 1 .. n + 2 : start[i] = IF i <= n THEN path[i] ELSE mark[i - n]
  <2>1. /\ path \o mark \in Seq(Chars) /\ Len(path \o mark) = Len(path) + Len(mark)
        /\ \A i \in 1 .. Len(path) + Len(mark) :
             (path \o mark)[i] = IF i <= Len(path) THEN path[i] ELSE mark[i - Len(path)]
    BY <1>1, <1>2, ConcatProperties, Zenon
  <2> HIDE DEF start
  <2>2. /\ start \in Seq(Chars) /\ Len(start) = n + Len(mark)
        /\ \A i \in 1 .. n + Len(mark) : start[i] = IF i <= n THEN path[i] ELSE mark[i - n]
    BY <2>1, Zenon DEF start
  <2> QED BY <1>2, <2>2
<1> HIDE DEF start
<1>7. /\ text \in Seq(Chars) /\ Len(text) = n + 2 + m
      /\ \A i \in 1 .. n + 2 + m : text[i] = IF i <= n + 2 THEN start[i] ELSE value[i - (n + 2)]
  <2>1. /\ start \o value \in Seq(Chars) /\ Len(start \o value) = Len(start) + Len(value)
        /\ \A i \in 1 .. Len(start) + Len(value) :
             (start \o value)[i] = IF i <= Len(start) THEN start[i] ELSE value[i - Len(start)]
    <3>1. start \in Seq(Chars) /\ value \in Seq(Chars)
      BY <1>1, <1>6
    <3> QED BY <3>1, ConcatProperties, Zenon
  <2>2. /\ text \in Seq(Chars) /\ Len(text) = Len(start) + m
        /\ \A i \in 1 .. Len(start) + m : text[i] = IF i <= Len(start) THEN start[i] ELSE value[i - Len(start)]
    BY <2>1, Zenon DEF text
  <2> QED BY <1>6, <2>2
<1>8. /\ \A i \in 1 .. n : text[i] = path[i]
      /\ text[n + 1] = ":" /\ text[n + 2] = " "
      /\ \A i \in 1 .. m : text[n + 2 + i] = value[i]
  <2>1. \A i \in 1 .. n : text[i] = path[i]
    <3> TAKE i \in 1 .. n
    <3>1. i \in 1 .. n + 2 /\ i \in 1 .. n + 2 + m /\ i <= n /\ i <= n + 2
      BY <1>5
    <3> QED BY <1>6, <1>7, <3>1
  <2>2. text[n + 1] = ":"
    <3>1. n + 1 \in 1 .. n + 2 /\ n + 1 \in 1 .. n + 2 + m /\ ~(n + 1 <= n) /\ n + 1 <= n + 2 /\ (n + 1) - n = 1
      BY <1>5
    <3> QED BY <1>2, <1>6, <1>7, <3>1
  <2>3. text[n + 2] = " "
    <3>1. n + 2 \in 1 .. n + 2 /\ n + 2 \in 1 .. n + 2 + m /\ ~(n + 2 <= n) /\ n + 2 <= n + 2 /\ (n + 2) - n = 2
      BY <1>5
    <3> QED BY <1>2, <1>6, <1>7, <3>1
  <2>4. \A i \in 1 .. m : text[n + 2 + i] = value[i]
    <3> TAKE i \in 1 .. m
    <3>1. n + 2 + i \in 1 .. n + 2 + m /\ ~(n + 2 + i <= n + 2) /\ (n + 2 + i) - (n + 2) = i
      BY <1>5
    <3> QED BY <1>7, <3>1
  <2> QED BY <2>1, <2>2, <2>3, <2>4
<1>9. OneLine(text)
  <2>1. ASSUME NEW i \in 1 .. Len(text) PROVE text[i] # "newline"
    <3>1. i \in 1 .. n \/ i = n + 1 \/ i = n + 2 \/ i - (n + 2) \in 1 .. m
      BY <1>5, <1>7
    <3>2. i \in 1 .. n => text[i] # "newline"
      BY <1>4, <1>8 DEF Clean, Newline
    <3>3. i = n + 1 \/ i = n + 2 => text[i] # "newline"
      BY <1>8
    <3>4. i - (n + 2) \in 1 .. m => text[i] # "newline"
      <4> HAVE i - (n + 2) \in 1 .. m
      <4>1. n + 2 + (i - (n + 2)) = i
        BY <1>5, <1>7
      <4>2. text[i] = value[i - (n + 2)]
        BY <1>8, <4>1
      <4> QED BY <1>4, <4>2 DEF OneLine, Newline
    <3> QED BY <3>1, <3>2, <3>3, <3>4
  <2> QED BY <2>1 DEF OneLine, Newline
<1>10. Colon(text) = n + 1
  <2>1. DOMAIN text = 1 .. n + 2 + m
    BY <1>7
  <2>2. n + 1 \in DOMAIN text
    BY <1>5, <2>1
  <2>3. \A j \in 1 .. (n + 1) - 1 : text[j] # ":"
    <3>1. (n + 1) - 1 = n
      BY <1>5
    <3>2. \A j \in 1 .. n : text[j] # ":"
      BY <1>4, <1>8 DEF Clean
    <3> QED BY <3>1, <3>2
  <2>4. ASSUME NEW i \in DOMAIN text, text[i] = ":", \A j \in 1 .. i - 1 : text[j] # ":"
        PROVE  i = n + 1
    <3>1. i \in Nat /\ i >= 1
      BY <2>1
    <3>2. ~(n + 1 < i)
      <4>1. n + 1 < i => n + 1 \in 1 .. i - 1
        BY <1>5, <3>1
      <4> QED BY <1>8, <2>4, <4>1
    <3>3. ~(i < n + 1)
      <4>1. i < n + 1 => i \in 1 .. n /\ i \in 1 .. (n + 1) - 1
        BY <1>5, <3>1
      <4> QED BY <2>3, <2>4, <4>1
    <3> QED BY <1>5, <3>1, <3>2, <3>3
  <2> DEFINE P(i) == text[i] = ":" /\ \A j \in 1 .. i - 1 : text[j] # ":"
  <2>5. Colon(text) = CHOOSE i \in DOMAIN text : P(i)
    BY DEF Colon
  <2>6. P(n + 1) /\ \A i \in DOMAIN text : P(i) => i = n + 1
    BY <1>8, <2>3, <2>4
  <2> HIDE DEF P
  <2> QED BY <2>2, <2>5, <2>6
<1>11. SubSeq(text, 1, Colon(text) - 1) = path
  <2>1. Colon(text) - 1 = n
    BY <1>5, <1>10
  <2>2. \A i \in 1 .. n : text[i] \in Chars
    <3>1. \A i \in 1 .. n : path[i] \in Chars
      BY <1>1
    <3> QED BY <1>8, <3>1
  <2>3. /\ SubSeq(text, 1, n) \in Seq(Chars)
        /\ Len(SubSeq(text, 1, n)) = IF 1 <= n THEN n - 1 + 1 ELSE 0
        /\ \A i \in 1 .. n - 1 + 1 : SubSeq(text, 1, n)[i] = text[1 + i - 1]
    BY <1>5, <2>2, SubSeqProperties
  <2>4. n - 1 + 1 = n /\ \A i \in 1 .. n : 1 + i - 1 = i
    BY <1>5
  <2>5. Len(SubSeq(text, 1, n)) = n
    BY <1>5, <2>3
  <2>6. \A i \in 1 .. Len(SubSeq(text, 1, n)) : SubSeq(text, 1, n)[i] = path[i]
    BY <1>8, <2>3, <2>4, <2>5
  <2>7. SubSeq(text, 1, n) = path
    BY <1>1, <2>3, <2>5, <2>6, SeqEqual
  <2> QED BY <2>1, <2>7
<1>12. SubSeq(text, Colon(text) + 2, Len(text)) = value
  <2> DEFINE a == n + 3
             b == n + 2 + m
  <2>1. Colon(text) + 2 = a /\ Len(text) = b
    BY <1>5, <1>7, <1>10
  <2>2. \A i \in a .. b : text[i] \in Chars
    <3>1. \A i \in 1 .. Len(text) : text[i] \in Chars
      BY <1>7
    <3>2. \A i \in a .. b : i \in 1 .. Len(text)
      BY <1>5, <2>1
    <3> QED BY <3>1, <3>2
  <2>3. a \in Int /\ b \in Int
    BY <1>5
  <2>4. /\ SubSeq(text, a, b) \in Seq(Chars)
        /\ Len(SubSeq(text, a, b)) = IF a <= b THEN b - a + 1 ELSE 0
        /\ \A i \in 1 .. b - a + 1 : SubSeq(text, a, b)[i] = text[a + i - 1]
    <3> HIDE DEF a, b
    <3> QED BY <2>2, <2>3, SubSeqProperties
  <2>5. b - a + 1 = m /\ (a <= b => b - a + 1 = m) /\ (~(a <= b) => m = 0)
        /\ \A i \in 1 .. m : a + i - 1 = n + 2 + i
    BY <1>5
  <2> DEFINE read == SubSeq(text, a, b)
  <2> HIDE DEF a, b
  <2>6. Len(read) = m /\ \A i \in 1 .. m : read[i] = value[i]
    BY <1>8, <2>4, <2>5
  <2> HIDE DEF read
  <2>7. read = value
    <3>1. read \in Seq(Chars)
      BY <2>4 DEF read
    <3> QED BY <1>1, <2>6, <3>1, SeqEqual
  <2> QED BY <2>1, <2>7 DEF read
<1> QED BY <1>3, <1>9, <1>11, <1>12 DEF PathTold, ValueTold, path, value

\* Whatever is nested in what, and however long it is: when no key has a line break
\* or a colon and no scalar a line break, the lines of what _flatten_json returns are
\* one to one with the scalars of the document and have their values, and with plain
\* keys no two lines have the same path.
THEOREM TextTellsScalars ==
  ASSUME NEW n \in Nat, NEW tree \in Json[n], Legible(n, tree)
  PROVE  LET text == FlattenJson[n][tree][<<>>]
         IN  /\ text \in Seq(Chars)
             /\ \E told \in Bijection(Lines(text), LeavesOf(n, tree)) :
                  \A l \in Lines(text) : ValueTold(LineAt(text, l)) = told[l][2].value
             /\ PlainKeys(n, tree) =>
                  \A l, m \in Lines(text) :
                    PathTold(LineAt(text, l)) = PathTold(LineAt(text, m)) => l = m
<1> DEFINE text == FlattenJson[n][tree][<<>>]
           lines == LeafLines[n][tree][<<>>]
<1>1. <<>> \in Path /\ Clean(<<>>)
  BY DEF Path, Clean
<1>2. /\ text \in Seq(Chars)
      /\ \E start : Written(OnNewLine(text), lines, start)
  BY <1>1, TextIsWritten DEF IsWritten
<1>3. /\ lines \in Seq(Line)
      /\ \E tells : Tells(tells, n, tree, <<>>)
  BY <1>1, JsonIsTold DEF Told
<1>4. \A k \in 1 .. Len(lines) : Clean(lines[k].path) /\ OneLine(lines[k].value)
  BY <1>1, LegibleLines DEF CleanLines
<1>5. PlainKeys(n, tree) => \A k, l \in 1 .. Len(lines) : lines[k].path = lines[l].path => k = l
  BY <1>1, PlainPathsDiffer DEF PathsDiffer
<1>6. PICK tells : Tells(tells, n, tree, <<>>)
  BY <1>3
<1>7. /\ \A k \in 1 .. Len(lines) : /\ tells[k] \in LeavesOf(n, tree)
                                   /\ lines[k].value = tells[k][2].value
      /\ \A k, l \in 1 .. Len(lines) : tells[k] = tells[l] => k = l
      /\ \A p \in LeavesOf(n, tree) : \E k \in 1 .. Len(lines) : tells[k] = p
  BY <1>6 DEF Tells
<1> HIDE DEF text, lines
<1>8. PICK start : Written(OnNewLine(text), lines, start)
  BY <1>2
<1>9. \A k \in 1 .. Len(lines) : /\ OneLine(LineText(lines[k]))
                                 /\ PathTold(LineText(lines[k])) = lines[k].path
                                 /\ ValueTold(LineText(lines[k])) = lines[k].value
  <2>1. \A k \in 1 .. Len(lines) : lines[k] \in Line
    BY <1>3
  <2> QED BY <1>4, <2>1, LineIsRead
<1> DEFINE place(k) == <<start[k] - 1, start[k + 1] - 1>>
<1>10. /\ \A k \in 1 .. Len(lines) : place(k) \in Lines(text) /\ LineAt(text, place(k)) = LineText(lines[k])
       /\ \A l \in Lines(text) : \E k \in 1 .. Len(lines) : l = place(k)
       /\ \A k, l \in 1 .. Len(lines) : place(k) = place(l) => k = l
  <2>1. \A k \in 1 .. Len(lines) : \A j \in 1 .. Len(LineText(lines[k])) : LineText(lines[k])[j] # Newline
    BY <1>9 DEF OneLine
  <2>2. /\ \A k \in 1 .. Len(lines) :
             /\ <<start[k] - 1, start[k + 1] - 1>> \in Lines(text)
             /\ LineAt(text, <<start[k] - 1, start[k + 1] - 1>>) = LineText(lines[k])
        /\ \A l \in Lines(text) : \E k \in 1 .. Len(lines) : l = <<start[k] - 1, start[k + 1] - 1>>
        /\ \A k, l \in 1 .. Len(lines) : start[k] - 1 = start[l] - 1 => k = l
    BY <1>2, <1>3, <1>8, <2>1, LinesRead
  <2>3. \A k, l \in 1 .. Len(lines) : place(k) = place(l) => start[k] - 1 = start[l] - 1
    OBVIOUS
  <2> QED BY <2>2, <2>3
<1> HIDE DEF place
<1> DEFINE number(l) == CHOOSE k \in 1 .. Len(lines) : l = place(k)
           told == [l \in Lines(text) |-> tells[number(l)]]
<1>11. \A l \in Lines(text) : number(l) \in 1 .. Len(lines) /\ l = place(number(l))
  BY <1>10
<1>12. \A k \in 1 .. Len(lines) : place(k) \in Lines(text) /\ number(place(k)) = k
  BY <1>10, <1>11
<1>13. \A l \in Lines(text) : told[l] = tells[number(l)]
  OBVIOUS
<1>14. told \in [Lines(text) -> LeavesOf(n, tree)]
  BY <1>7, <1>11
<1> HIDE DEF number, told
<1>15. \A l, m \in Lines(text) : told[l] = told[m] => l = m
  <2> TAKE l, m \in Lines(text)
  <2> HAVE told[l] = told[m]
  <2>1. number(l) = number(m)
    BY <1>7, <1>11, <1>13
  <2> QED BY <1>11, <2>1
<1>16. \A p \in LeavesOf(n, tree) : \E l \in Lines(text) : told[l] = p
  <2> TAKE p \in LeavesOf(n, tree)
  <2>1. PICK k \in 1 .. Len(lines) : tells[k] = p
    BY <1>7
  <2>2. place(k) \in Lines(text) /\ told[place(k)] = p
    BY <1>12, <1>13, <2>1
  <2> QED BY <2>2
<1>17. told \in Bijection(Lines(text), LeavesOf(n, tree))
  BY <1>14, <1>15, <1>16 DEF Bijection, Injection, Surjection, IsInjective
<1>18. \A l \in Lines(text) : ValueTold(LineAt(text, l)) = told[l][2].value
  <2> TAKE l \in Lines(text)
  <2>1. LineAt(text, l) = LineText(lines[number(l)])
    BY <1>10, <1>11
  <2> QED BY <1>7, <1>9, <1>11, <1>13, <2>1
<1>19. ASSUME PlainKeys(n, tree), NEW l \in Lines(text), NEW m \in Lines(text),
              PathTold(LineAt(text, l)) = PathTold(LineAt(text, m))
       PROVE  l = m
  <2>1. LineAt(text, l) = LineText(lines[number(l)]) /\ LineAt(text, m) = LineText(lines[number(m)])
    BY <1>10, <1>11
  <2>2. lines[number(l)].path = lines[number(m)].path
    BY <1>9, <1>11, <1>19, <2>1
  <2>3. number(l) = number(m)
    BY <1>5, <1>11, <1>19, <2>2
  <2> QED BY <1>11, <2>3
<1> QED BY <1>2, <1>17, <1>18, <1>19 DEF text
=============================================================================
