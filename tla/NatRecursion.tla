---------------------------- MODULE NatRecursion ----------------------------
(***************************************************************************)
(* Recursive definitions f[n \in D] == Def(p, f, n) over a set D of natural *)
(* numbers, where Def looks at f below n only.  The provers know of such a *)
(* function only that it is CHOSEN to satisfy its equation; that one can   *)
(* be chosen is proved here, for any Def: by INSTANCE, since a theorem     *)
(* about an operator parameter cannot be cited.                            *)
(***************************************************************************)
EXTENDS Naturals, WellFoundedInduction, TLAPS

CONSTANT Def(_, _, _)    \* of a parameter, the function and the argument

\* A set of natural numbers that is not empty has a least element.
LEMMA LeastElement ==
  ASSUME NEW T \in SUBSET Nat, T # {}
  PROVE  \E x \in T : \A y \in T : x <= y
<1> DEFINE R == {ss \in Nat \X Nat : ss[1] < ss[2]}
<1>1. IsWellFoundedOn(R, Nat)
  BY NatLessThanWellFounded DEF OpToRel
<1>2. PICK x \in T : \A y \in T : ~(<<y, x>> \in R)
  <2> HIDE DEF R
  <2> QED BY <1>1, WFMin
<1>3. \A y \in T : x <= y
  <2> TAKE y \in T
  <2>1. ~(y < x)
    BY <1>2
  <2> QED BY <2>1
<1> QED BY <1>3

\* The recursion has a solution: the functions that solve it up to n agree
\* wherever two of them are defined, so G, that takes for each n the value of one,
\* solves it everywhere.
LEMMA FunctionExists ==
  ASSUME NEW p, NEW D \in SUBSET Nat,
         \A g, h : \A n \in D : (\A m \in D : m < n => g[m] = h[m]) => Def(p, g, n) = Def(p, h, n)
  PROVE  \E g : g = [n \in D |-> Def(p, g, n)]
<1> DEFINE Upto(n) == {m \in D : m <= n}
           App(g, n) == g = [m \in Upto(n) |-> Def(p, g, m)]
           G == [n \in D |-> (CHOOSE f : App(f, n))[n]]
<1>1. ASSUME NEW g, NEW h, NEW n \in D, NEW k \in D, App(g, n), App(h, k),
             NEW m \in D, m <= n, m <= k
      PROVE  g[m] = h[m]
  <2> DEFINE T == {l \in D : l <= n /\ l <= k /\ g[l] # h[l]}
  <2>1. SUFFICES ASSUME T # {} PROVE FALSE
    BY <1>1
  <2>2. PICK l \in T : \A y \in T : l <= y
    <3> T \in SUBSET Nat
      OBVIOUS
    <3> HIDE DEF T
    <3> QED BY <2>1, LeastElement
  <2>3. \A y \in D : y < l => g[y] = h[y]
    <3> TAKE y \in D
    <3> HAVE y < l
    <3>1. l \in D /\ l <= n /\ l <= k
      BY <2>2
    <3>2. y \in Nat /\ l \in Nat /\ n \in Nat /\ k \in Nat
      BY <3>1
    <3>3. y <= n /\ y <= k /\ ~(l <= y)
      BY <3>1, <3>2
    <3> QED BY <2>2, <3>3
  <2>4. Def(p, g, l) = Def(p, h, l)
    BY <2>3
  <2>5. g[l] = Def(p, g, l) /\ h[l] = Def(p, h, l)
    BY <1>1
  <2> QED BY <2>4, <2>5
<1>2. ASSUME NEW l \in D, \A m \in D : m <= l => \E g : App(g, m)
      PROVE  G[l] = Def(p, G, l)
  <2>1. \A m \in D : m <= l => App(CHOOSE f : App(f, m), m)
    <3> HIDE DEF App
    <3> QED BY <1>2
  <2> DEFINE g == CHOOSE f : App(f, l)
  <2>2. App(g, l) /\ G[l] = g[l]
    <3>1. G[l] = g[l]
      OBVIOUS
    <3>2. l <= l
      OBVIOUS
    <3> HIDE DEF App, G
    <3> QED BY <2>1, <3>1, <3>2
  <2> HIDE DEF g
  <2>3. \A m \in D : m < l => g[m] = G[m]
    <3> TAKE m \in D
    <3> HAVE m < l
    <3> DEFINE h == CHOOSE f : App(f, m)
    <3>1. App(h, m) /\ G[m] = h[m]
      <4>1. G[m] = h[m]
        OBVIOUS
      <4>2. m <= l
        OBVIOUS
      <4> HIDE DEF App, G
      <4> QED BY <2>1, <4>1, <4>2
    <3> HIDE DEF h
    <3> HIDE DEF G, App
    <3> QED BY <3>1, <2>2, <1>1
  <2>4. g[l] = Def(p, g, l)
    BY <2>2
  <2> HIDE DEF G
  <2> QED BY <2>2, <2>3, <2>4
<1>3. \A n \in D : \E g : App(g, n)
  <2> DEFINE T == {n \in D : ~ \E g : App(g, n)}
  <2>1. SUFFICES ASSUME T # {} PROVE FALSE
    OBVIOUS
  <2>2. PICK n \in T : \A y \in T : n <= y
    <3> T \in SUBSET Nat
      OBVIOUS
    <3> HIDE DEF T
    <3> QED BY <2>1, LeastElement
  <2>3. \A m \in D : m < n => \E g : App(g, m)
    <3> HIDE DEF App
    <3> QED BY <2>2
  <2>4. \A l \in D : l < n => G[l] = Def(p, G, l)
    <3> TAKE l \in D
    <3> HAVE l < n
    <3>1. \A m \in D : m <= l => \E g : App(g, m)
      <4> HIDE DEF App
      <4> QED BY <2>3
    <3> HIDE DEF App, G
    <3> QED BY <3>1, <1>2
  <2> DEFINE h == [m \in Upto(n) |-> Def(p, G, m)]
  <2>5. \A l \in D : l < n => h[l] = G[l]
    <3> HIDE DEF G
    <3> QED BY <2>4
  <2>6. \A m \in D : m <= n => Def(p, G, m) = Def(p, h, m)
    <3> HIDE DEF G, h
    <3> TAKE m \in D
    <3> HAVE m <= n
    <3>1. \A l \in D : l < m => G[l] = h[l]
      BY <2>5
    <3> QED BY <3>1
  <2>7. App(h, n)
    <3> HIDE DEF G
    <3>1. \A m \in Upto(n) : h[m] = Def(p, h, m)
      BY <2>6
    <3> QED BY <3>1
  <2> QED BY <2>7
<1>4. \A n \in D : G[n] = Def(p, G, n)
  <2> HIDE DEF App, G
  <2> QED BY <1>3, <1>2
<1>5. G = [n \in D |-> Def(p, G, n)]
  BY <1>4
<1> HIDE DEF G
<1> QED BY <1>5

\* The function that a recursive definition chooses is the one it describes: as is
\* needed of numerals, of JSON values, of their text and of their nodes, which
\* _flatten_json and str() compute by recursion.
LEMMA RecursiveFunction ==
  ASSUME NEW p, NEW D \in SUBSET Nat, NEW f,
         f = (CHOOSE g : g = [n \in D |-> Def(p, g, n)]),
         \A g, h : \A n \in D : (\A m \in D : m < n => g[m] = h[m]) => Def(p, g, n) = Def(p, h, n)
  PROVE  f = [n \in D |-> Def(p, f, n)]
BY FunctionExists
====
