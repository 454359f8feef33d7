----------------------- MODULE DocumentContentProofs -----------------------
(***************************************************************************)
(* The invariants of DocumentContent, for every set of uploads.            *)
(***************************************************************************)
EXTENDS DocumentContent, JsonTextProofs

-----------------------------------------------------------------------------
(* File names *)

\* The last component has neither a separator nor the name ".".
LEMMA LastComponentType ==
  ASSUME NEW name \in Seq(STRING)
  PROVE  LastComponent(name) \in Seq(STRING) /\ LastComponent(name) # <<".">>
<1> DEFINE component(p) ==
             /\ \A i \in p[1] .. p[2] : name[i] # "/"
             /\ p[1] = 1 \/ name[p[1] - 1] = "/"
             /\ p[2] = Len(name) \/ name[p[2] + 1] = "/"
             /\ SubSeq(name, p[1], p[2]) # <<".">>
           parts == {p \in (1 .. Len(name)) \X (1 .. Len(name)) : p[1] <= p[2] /\ component(p)}
           last == CHOOSE p \in parts : \A q \in parts : q[2] <= p[2]
<1>1. LastComponent(name) = IF parts = {} THEN <<>> ELSE SubSeq(name, last[1], last[2])
  BY DEF LastComponent
<1> HIDE DEF component
<1>2. CASE parts = {}
  <2>1. LastComponent(name) = <<>>
    <3> HIDE DEF parts, last
    <3> QED BY <1>1, <1>2
  <2> QED BY <2>1
<1>3. CASE parts # {}
  <2> DEFINE After == {Len(name) - q[2] : q \in parts}
  <2>1. After \in SUBSET Nat /\ After # {}
    BY <1>3
  <2>2. PICK m \in After : \A y \in After : m <= y
    <3> HIDE DEF After
    <3> QED BY <2>1, T!LeastElement
  <2>3. PICK p \in parts : m = Len(name) - p[2]
    BY <2>2
  <2>4. \A q \in parts : q[2] <= p[2]
    <3> TAKE q \in parts
    <3>1. Len(name) - p[2] <= Len(name) - q[2]
      BY <2>2, <2>3
    <3>2. p[2] \in Nat /\ q[2] \in Nat /\ Len(name) \in Nat
      OBVIOUS
    <3> QED BY <3>1, <3>2
  <2>5. last \in parts
    <3> HIDE DEF parts
    <3> QED BY <2>4
  <2> HIDE DEF last
  <2>6. /\ last[1] \in 1 .. Len(name) /\ last[2] \in 1 .. Len(name)
        /\ SubSeq(name, last[1], last[2]) # <<".">>
    BY <2>5 DEF component
  <2>7. SubSeq(name, last[1], last[2]) \in Seq(STRING)
    BY <2>6
  <2> HIDE DEF parts
  <2> QED BY <1>1, <1>3, <2>6, <2>7
<1> QED BY <1>2, <1>3

\* A sanitised name consists of safe characters, and only that of ".." denotes a
\* directory.
LEMMA SafeNameType ==
  ASSUME NEW name \in Seq(STRING)
  PROVE  /\ SafeName(name) \in Seq(SafeChars \cup {"file"})
         /\ ~Opens(SafeName(name)) => LastComponent(name) = <<".", ".">>
<1> DEFINE last == LastComponent(name)
           safe == [i \in DOMAIN last |-> Sanitized(last[i])]
<1>1. last \in Seq(STRING) /\ last # <<".">>
  BY LastComponentType
<1>2. SafeName(name) = IF last = <<>> THEN <<"file">> ELSE safe
  BY DEF SafeName
<1> HIDE DEF last
<1>3. \A c : Sanitized(c) \in SafeChars /\ (Sanitized(c) = "." => c = ".")
  BY DEF Sanitized, SafeChars
<1>4. /\ safe \in Seq(SafeChars \cup {"file"}) /\ Len(safe) = Len(last) /\ Len(last) \in Nat
      /\ \A i \in 1 .. Len(last) : safe[i] = "." => last[i] = "."
  BY <1>1, <1>3
<1> HIDE DEF safe
<1>5. CASE last = <<>>
  BY <1>2, <1>5 DEF Opens
<1>6. CASE last # <<>>
  <2>1. SafeName(name) = safe
    BY <1>2, <1>6
  <2>2. ~Opens(safe) => last = <<".", ".">>
    <3>1. safe # <<>>
      BY <1>1, <1>4, <1>6
    <3>2. ASSUME safe = <<".">> PROVE FALSE
      <4>0. Len(safe) = 1 /\ safe[1] = "."
        BY <3>2
      <4>1. Len(last) = 1 /\ last[1] = "."
        BY <1>4, <4>0
      <4>2. last = <<".">>
        BY <1>1, <4>1
      <4> QED BY <1>1, <4>2
    <3>3. ASSUME safe = <<".", ".">> PROVE last = <<".", ".">>
      <4>0. Len(safe) = 2 /\ safe[1] = "." /\ safe[2] = "."
        BY <3>3
      <4>1. Len(last) = 2 /\ last[1] = "." /\ last[2] = "."
        BY <1>4, <4>0
      <4> QED BY <1>1, <4>1
    <3> QED BY <3>1, <3>2, <3>3 DEF Opens
  <2> QED BY <1>4, <2>1, <2>2 DEF last
<1> QED BY <1>5, <1>6

-----------------------------------------------------------------------------
(* Amounts *)

\* The first characters of a text.
LEMMA UptoType ==
  ASSUME NEW t \in Seq(Chars), NEW limit \in Nat
  PROVE  /\ Upto(t, limit) \in Seq(Chars)
         /\ Len(Upto(t, limit)) = IF Len(t) < limit THEN Len(t) ELSE limit
         /\ \A i \in 1 .. Len(Upto(t, limit)) : Upto(t, limit)[i] = t[i] /\ i \in 1 .. Len(t)
         /\ Len(t) <= limit => Upto(t, limit) = t
<1> DEFINE n == IF Len(t) < limit THEN Len(t) ELSE limit
           u == SubSeq(t, 1, n)
<1>1. n \in Nat /\ n <= Len(t) /\ n <= limit /\ Len(t) \in Nat /\ (Len(t) <= limit => n = Len(t))
  OBVIOUS
<1>2. Upto(t, limit) = u
  BY DEF Upto
<1> HIDE DEF n
<1>3. \A i \in 1 .. n : t[i] \in Chars /\ i \in 1 .. Len(t)
  BY <1>1
<1>4. /\ u \in Seq(Chars) /\ Len(u) = IF 1 <= n THEN n - 1 + 1 ELSE 0
      /\ \A i \in 1 .. n - 1 + 1 : u[i] = t[1 + i - 1]
  BY <1>1, <1>3, SubSeqProperties
<1>5. n - 1 + 1 = n /\ (~(1 <= n) => n = 0) /\ \A i \in 1 .. n : 1 + i - 1 = i
  BY <1>1
<1> HIDE DEF u
<1>6. Len(u) = n /\ \A i \in 1 .. n : u[i] = t[i]
  BY <1>4, <1>5
<1>7. Len(t) <= limit => u = t
  BY <1>1, <1>4, <1>6, SeqEqual
<1> QED BY <1>2, <1>3, <1>4, <1>6, <1>7 DEF n

\* Of nothing there is nothing.
LEMMA NothingUpto ==
  ASSUME NEW limit \in Nat
  PROVE  Upto(NoText, limit) = NoText
<1>1. NoText \in Seq(Chars) /\ Len(NoText) = 0
  BY DEF NoText
<1>2. Len(NoText) <= limit
  BY <1>1
<1> HIDE DEF NoText
<1> QED BY <1>1, <1>2, UptoType

\* The amounts that a prompt shows are amounts, at positions of the text.
LEMMA PricedType ==
  ASSUME NEW t \in Seq(Chars), NEW i \in Priced(t)
  PROVE  i \in 1 .. Len(t) /\ i \in Nat /\ i > 0 /\ Money[t[i]] \in Nat
<1>1. ExtractLimit \in Nat
  BY LimitsAssumption
<1>2. Upto(t, ExtractLimit) \in Seq(Chars) /\ i \in DOMAIN Upto(t, ExtractLimit) /\ t[i] \in DOMAIN Money
  BY <1>1, UptoType DEF Priced
<1>3. i \in 1 .. Len(Upto(t, ExtractLimit))
  BY <1>2
<1>4. i \in 1 .. Len(t)
  BY <1>1, <1>3, UptoType
<1> QED BY <1>2, <1>4, MoneyAssumption

\* A set of positions that is not empty has one with the largest amount.
LEMMA LargestIsLargest ==
  ASSUME NEW t \in Seq(Chars), NEW among \in SUBSET Priced(t), among # {}
  PROVE  /\ Largest(t, among) \in among
         /\ \A j \in among : Money[t[j]] <= Money[t[Largest(t, among)]]
<1> DEFINE amounts == [j \in among |-> Money[t[j]]]
<1>0. \A j \in among : amounts[j] \in Nat /\ j \in 1 .. Len(t) /\ j \in Nat /\ j > 0
  BY PricedType
<1>a. \A j \in among : amounts[j] = Money[t[j]]
  OBVIOUS
<1> HIDE DEF amounts
<1> DEFINE Top(n) == \E i \in among : \A j \in among : j <= n => amounts[j] <= amounts[i]
           Bad == {n \in Nat : ~Top(n)}
<1>1. Bad = {}
  <2>1. SUFFICES ASSUME Bad # {} PROVE FALSE
    OBVIOUS
  <2>2. PICK n \in Bad : \A y \in Bad : n <= y
    <3> HIDE DEF Bad
    <3>1. Bad \in SUBSET Nat
      BY DEF Bad
    <3> QED BY <2>1, <3>1, T!LeastElement
  <2>3. n \in Nat /\ ~Top(n)
    OBVIOUS
  <2>4. Top(0)
    <3>1. \A j \in among : ~(j <= 0)
      BY <1>0
    <3> QED BY <3>1
  <2>5. n # 0
    <3> HIDE DEF Top
    <3> QED BY <2>3, <2>4
  <2>6. Top(n - 1)
    <3> HIDE DEF Top
    <3> QED BY <2>2, <2>3, <2>5
  <2>7. PICK i \in among : \A j \in among : j <= n - 1 => amounts[j] <= amounts[i]
    BY <2>6
  <2>8. \A j \in among : j <= n => j = n \/ j <= n - 1
    BY <1>0, <2>3
  <2>9. CASE n \in among /\ amounts[i] <= amounts[n]
    <3>1. \A j \in among : j <= n => amounts[j] <= amounts[n]
      <4> TAKE j \in among
      <4> HAVE j <= n
      <4>1. amounts[j] \in Nat /\ amounts[i] \in Nat /\ amounts[n] \in Nat
        BY <1>0, <2>9
      <4>2. j = n \/ amounts[j] <= amounts[i]
        BY <2>7, <2>8
      <4> HIDE DEF Bad, Top
      <4>3. CASE j = n
        BY <4>1, <4>3
      <4>4. CASE amounts[j] <= amounts[i]
        BY <2>9, <4>1, <4>4
      <4> QED BY <4>2, <4>3, <4>4
    <3> QED BY <2>3, <2>9, <3>1
  <2>10. CASE ~(n \in among /\ amounts[i] <= amounts[n])
    <3>1. \A j \in among : j <= n => amounts[j] <= amounts[i]
      <4> TAKE j \in among
      <4> HAVE j <= n
      <4>1. amounts[j] \in Nat /\ amounts[i] \in Nat
        BY <1>0
      <4>2. j = n \/ amounts[j] <= amounts[i]
        BY <2>7, <2>8
      <4> HIDE DEF Bad, Top
      <4>3. CASE j = n
        <5>1. amounts[n] \in Nat /\ ~(amounts[i] <= amounts[n])
          BY <2>10, <4>1, <4>3
        <5> QED BY <4>1, <4>3, <5>1
      <4> QED BY <4>2, <4>3
    <3> QED BY <2>3, <3>1
  <2> QED BY <2>9, <2>10
<1>2. Top(Len(t))
  <2>1. Len(t) \in Nat
    OBVIOUS
  <2> HIDE DEF Top
  <2> QED BY <1>1, <2>1
<1>3. \E i \in among : \A j \in among : amounts[j] <= amounts[i]
  BY <1>0, <1>2
<1>4. \E i \in among : \A j \in among : Money[t[j]] <= Money[t[i]]
  BY <1>3, <1>a
<1> QED BY <1>4 DEF Largest

\* Whatever amounts a text has, the invoice that the mock answers adds up.
LEMMA InvoiceAddsUp ==
  ASSUME NEW t \in Seq(Chars)
  PROVE  LET a == InvoiceAnswer(t)
         IN  /\ a.shape = "invoice"
             /\ a.keys = {"invoice_number", "vendor", "subtotal", "tax", "total"}
             /\ a.subtotal \in Nat /\ a.tax \in Nat /\ a.total \in Nat
             /\ a.subtotal + a.tax = a.total
<1> DEFINE priced == Priced(t)
           last == Largest(t, priced)
           others == priced \ {last}
           next == Largest(t, others)
           total == IF priced = {} THEN 110 ELSE Money[t[last]]
           subtotal == CASE priced = {} -> 100 [] priced = {last} -> total [] OTHER -> Money[t[next]]
<1>1. InvoiceAnswer(t) =
        [shape |-> "invoice",
         keys |-> {"invoice_number", "vendor", "subtotal", "tax", "total"},
         subtotal |-> subtotal, total |-> total,
         tax |-> IF total > subtotal THEN total - subtotal ELSE 0]
  BY DEF InvoiceAnswer
<1>2. subtotal \in Nat /\ total \in Nat /\ subtotal <= total
  <2>1. \A i \in priced : Money[t[i]] \in Nat
    BY PricedType
  <2>2. priced # {} => last \in priced /\ \A j \in priced : Money[t[j]] <= Money[t[last]]
    <3> DEFINE all == priced
    <3>1. all \in SUBSET Priced(t) /\ last = Largest(t, all)
      OBVIOUS
    <3> HIDE DEF all, last
    <3>2. all # {} => last \in all /\ \A j \in all : Money[t[j]] <= Money[t[last]]
      BY <3>1, LargestIsLargest
    <3> QED BY <3>2 DEF all
  <2>3. others # {} => next \in others
    <3>1. others \in SUBSET Priced(t) /\ next = Largest(t, others)
      OBVIOUS
    <3> HIDE DEF others, next
    <3> QED BY <3>1, LargestIsLargest
  <2> HIDE DEF priced, last, next
  <2>4. CASE priced = {}
    BY <2>4
  <2>5. CASE priced = {last}
    <3>1. priced # {} /\ subtotal = total /\ total \in Nat
      BY <2>1, <2>5
    <3> HIDE DEF subtotal, total
    <3> QED BY <3>1
  <2>6. CASE priced # {} /\ priced # {last}
    <3>1. others # {} /\ next \in priced /\ last \in priced
      BY <2>2, <2>3, <2>6
    <3>2. subtotal = Money[t[next]] /\ total = Money[t[last]]
      BY <2>6
    <3>3. Money[t[next]] <= Money[t[last]] /\ Money[t[next]] \in Nat /\ Money[t[last]] \in Nat
      BY <2>1, <2>2, <2>6, <3>1
    <3> HIDE DEF subtotal, total
    <3> QED BY <3>2, <3>3
  <2> QED BY <2>4, <2>5, <2>6
<1> HIDE DEF subtotal, total
<1> QED BY <1>1, <1>2

-----------------------------------------------------------------------------
(* Texts and answers *)

\* What an upload consists of.
LEMMA FileFields ==
  ASSUME NEW f \in Files
  PROVE  /\ f.name \in Seq(STRING) /\ f.declared \in DocumentType
         /\ f.text \in Seq(Chars) /\ f.tree \in Json[MaxDepth]
BY FilesAssumption

\* The text of an upload is a text.
LEMMA TextType ==
  ASSUME NEW f \in Files
  PROVE  ExtractText(f) \in Seq(Chars)
<1>1. CASE ExtractText(f) = Flattened(f)
  <2>1. f.tree \in Json[MaxDepth] /\ MaxDepth \in Nat /\ <<>> \in Path
    <3>1. MaxDepth \in Nat
      BY JsonAssumption
    <3>2. <<>> \in Path
      BY DEF Path
    <3> QED BY <3>1, <3>2, FileFields
  <2>2. FlattenJson[MaxDepth][f.tree][<<>>] \in Seq(Chars)
    BY <2>1, TextIsWritten DEF IsWritten
  <2> QED BY <1>1, <2>2 DEF Flattened
<1>2. CASE ExtractText(f) = NoText
  BY <1>2 DEF NoText
<1>3. CASE ExtractText(f) = f.text
  BY <1>3, FileFields
<1> QED BY <1>1, <1>2, <1>3 DEF ExtractText

\* What the router sees of a text is part of what the classifier sees.
LEMMA HeadIsClassified ==
  ASSUME NEW t \in Seq(Chars)
  PROVE  Visible(t, HeadRoom) \subseteq Visible(t, ClassifyLimit)
<1> DEFINE u == Upto(t, HeadRoom)
           v == Upto(t, ClassifyLimit)
<1>1. HeadRoom \in Nat /\ ClassifyLimit \in Nat /\ HeadRoom <= ClassifyLimit /\ Len(t) \in Nat
  BY LimitsAssumption
<1>2. /\ u \in Seq(Chars) /\ Len(u) = IF Len(t) < HeadRoom THEN Len(t) ELSE HeadRoom
      /\ \A i \in 1 .. Len(u) : u[i] = t[i]
  BY <1>1, UptoType
<1>3. /\ v \in Seq(Chars) /\ Len(v) = IF Len(t) < ClassifyLimit THEN Len(t) ELSE ClassifyLimit
      /\ \A i \in 1 .. Len(v) : v[i] = t[i]
  BY <1>1, UptoType
<1> HIDE DEF u, v
<1>4. ASSUME NEW w \in ToSet(u) PROVE w \in ToSet(v)
  <2>1. PICK i \in 1 .. Len(u) : w = u[i]
    BY <1>2 DEF ToSet
  <2>2. i \in 1 .. Len(v)
    BY <1>1, <1>2, <1>3
  <2>3. w = v[i]
    BY <1>2, <1>3, <2>1, <2>2
  <2> QED BY <1>3, <2>2, <2>3 DEF ToSet
<1> QED BY <1>4 DEF Visible, u, v

\* Which extractor answers: the prompt's own one, unless a contract's text opens
\* with the phrase of another.
LEMMA RouteCases ==
  ASSUME NEW about \in {"invoice", "support_ticket", "contract"}, NEW t
  PROVE  /\ about = "invoice" => Route(about, t) = InvoiceAnswer(t)
         /\ about = "support_ticket" => Route(about, t) = TicketAnswer
         /\ about = "contract" =>
              \/ Route(about, t) = ContractAnswer
              \/ Route(about, t) = DoctypeAnswer /\ "classification" \in Visible(t, HeadRoom)
              \/ Route(about, t) = InvoiceAnswer(t) /\ "invoice" \in Visible(t, HeadRoom)
              \/ /\ Route(about, t) = TicketAnswer
                 /\ "support" \in Visible(t, HeadRoom) \/ "ticket" \in Visible(t, HeadRoom)
<1>1. CASE about = "invoice"
  BY <1>1 DEF Route, PromptHead, Template
<1>2. CASE about = "support_ticket"
  BY <1>2 DEF Route, PromptHead, Template
<1>3. CASE about = "contract"
  BY <1>3 DEF Route, PromptHead, Template
<1> QED BY <1>1, <1>2, <1>3

\* The shape of an answer tells whose it is, and only the right one conforms.
LEMMA ShapeConforms ==
  ASSUME NEW about \in {"invoice", "support_ticket", "contract"}, NEW t \in Seq(Chars)
  PROVE  /\ Route(about, t).shape \in {"invoice", "support_ticket", "contract", "doc_type"}
         /\ Conforms(about, Route(about, t)) <=> Route(about, t).shape = about
         /\ Route(about, t).shape = "invoice" =>
              Route(about, t).subtotal + Route(about, t).tax = Route(about, t).total
<1> DEFINE a == Route(about, t)
<1>1. \/ a = InvoiceAnswer(t)
      \/ a = TicketAnswer /\ about # "invoice"
      \/ a = ContractAnswer /\ about = "contract"
      \/ a = DoctypeAnswer /\ about = "contract"
  BY RouteCases
<1>2. a = InvoiceAnswer(t) => about # "support_ticket"
  BY RouteCases, InvoiceAddsUp DEF TicketAnswer
<1> HIDE DEF a
<1>3. CASE a = InvoiceAnswer(t)
  <2>1. /\ a.shape = "invoice"
        /\ a.keys = {"invoice_number", "vendor", "subtotal", "tax", "total"}
        /\ a.subtotal \in Nat /\ a.tax \in Nat /\ a.total \in Nat
        /\ a.subtotal + a.tax = a.total
    BY <1>3, InvoiceAddsUp
  <2>2. about = "invoice" => Conforms(about, a)
    BY <2>1 DEF Conforms, Required
  <2>3. about = "contract" => ~Conforms(about, a)
    BY <2>1 DEF Conforms, Required
  <2>4. about \in {"invoice", "contract"}
    BY <1>2, <1>3
  <2>5. Conforms(about, a) <=> a.shape = about
    BY <2>1, <2>2, <2>3, <2>4
  <2>6. a.shape \in {"invoice", "support_ticket", "contract", "doc_type"}
    BY <2>1
  <2> HIDE DEF InvoiceAnswer
  <2> QED BY <2>1, <2>5, <2>6 DEF a
<1>4. CASE a = TicketAnswer /\ about # "invoice"
  <2>1. a.shape = "support_ticket" /\ a.keys = {"category", "priority", "summary"}
    BY <1>4 DEF TicketAnswer
  <2>2. about = "support_ticket" => Conforms(about, a)
    BY <2>1 DEF Conforms, Required
  <2>3. about = "contract" => ~Conforms(about, a)
    BY <2>1 DEF Conforms, Required
  <2> QED BY <1>4, <2>1, <2>2, <2>3 DEF a
<1>5. CASE a = ContractAnswer /\ about = "contract"
  <2>1. a.shape = "contract" /\ a.keys = {"title", "parties", "term_months"} /\ about = "contract"
    BY <1>5 DEF ContractAnswer
  <2>2. Conforms(about, a)
    BY <2>1 DEF Conforms, Required
  <2> QED BY <2>1, <2>2 DEF a
<1>6. CASE a = DoctypeAnswer /\ about = "contract"
  <2>1. a.shape = "doc_type" /\ a.keys = {"doc_type", "confidence"} /\ about = "contract"
    BY <1>6 DEF DoctypeAnswer
  <2>2. ~Conforms(about, a)
    BY <2>1 DEF Conforms, Required
  <2> QED BY <2>1, <2>2 DEF a
<1> QED BY <1>1, <1>3, <1>4, <1>5, <1>6

-----------------------------------------------------------------------------
(* The journey: at every stage the state is what the earlier stages made of *)
(* the file. *)

ContentInv ==
  /\ file \in Files
  /\ pc \in {"upload", "refused", "preprocess", "classify", "extract", "validate",
             "ready", "rejected", "failed"}
  /\ CASE pc = "upload" -> reply = 0 [] pc = "refused" -> Refused /\ reply = Refusal [] OTHER -> reply = 202
  /\ stored = IF pc \in {"upload", "refused"} THEN <<>> ELSE SafeName(file.name)
  /\ text = IF pc \in {"upload", "refused", "preprocess"} THEN NoText ELSE ExtractText(file)
  /\ rawText = Upto(text, StoredLimit)
  /\ docType = CASE pc \in {"upload", "refused"} -> "unknown"
                 [] file.declared = "unknown" /\ pc \in {"extract", "validate", "ready", "rejected", "failed"} ->
                      ClassifyDoctype(Visible(text, ClassifyLimit))
                 [] OTHER -> file.declared
  /\ pc = "classify" => file.declared = "unknown"
  /\ pc \in {"extract", "validate", "ready", "rejected"} => docType \in Registered
  /\ answer = IF pc \in {"validate", "ready", "rejected"} THEN Route(docType, text) ELSE NoAnswer
  /\ pc = "ready" => Conforms(docType, answer)
  /\ pc = "rejected" => ~Conforms(docType, answer)

\* It holds of an upload that arrives ...
LEMMA ContentInvInit == Init => ContentInv
<1> SUFFICES ASSUME Init PROVE ContentInv
  OBVIOUS
<1>1. NoText = Upto(NoText, StoredLimit)
  <2>1. StoredLimit \in Nat
    BY LimitsAssumption
  <2> QED BY <2>1, NothingUpto
<1> QED BY <1>1 DEF Init, ContentInv

\* ... and every stage keeps it.
LEMMA ContentInvNext == ContentInv /\ [Next]_vars => ContentInv'
<1> SUFFICES ASSUME ContentInv, [Next]_vars PROVE ContentInv'
  OBVIOUS
<1>1. CASE Refuse
  BY <1>1 DEF Refuse, ContentInv, Refused, Refusal
<1>2. CASE Store
  BY <1>2 DEF Store, ContentInv
<1>3. CASE Preprocess
  BY <1>3, RegisteredAssumption, FileFields DEF Preprocess, ContentInv, DocumentType
<1>4. CASE Classify
  BY <1>4 DEF Classify, ContentInv, HasExtractor
<1>5. CASE Extract
  BY <1>5 DEF Extract, ContentInv
<1>6. CASE Validate
  BY <1>6 DEF Validate, ContentInv
<1>7. CASE UNCHANGED vars
  BY <1>7 DEF vars, ContentInv, Refused, Refusal
<1> QED BY <1>1, <1>2, <1>3, <1>4, <1>5, <1>6, <1>7 DEF Next

\* So it always holds.
LEMMA ContentInvariant == Spec => []ContentInv
BY ContentInvInit, ContentInvNext, PTL DEF Spec

-----------------------------------------------------------------------------
(* What the properties say of a state of which ContentInv holds *)

\* There is an answer from extract on only, and it is the one for the type and text.
LEMMA AnswerShape ==
  ASSUME ContentInv, answer.shape # "none"
  PROVE  /\ pc \in {"validate", "ready", "rejected"}
         /\ answer = Route(docType, text) /\ text = ExtractText(file)
         /\ docType \in {"invoice", "support_ticket", "contract"}
         /\ text \in Seq(Chars)
<1>1. NoAnswer.shape = "none"
  BY DEF NoAnswer
<1>2. pc \in {"validate", "ready", "rejected"} /\ answer = Route(docType, text)
  BY <1>1 DEF ContentInv
<1>3. text = ExtractText(file) /\ file \in Files
  BY <1>2 DEF ContentInv
<1>4. docType \in Registered
  BY <1>2 DEF ContentInv
<1> QED BY <1>2, <1>3, <1>4, TextType, RegistryAssumption

\* Hence the types.
LEMMA InvTypeOK == ContentInv => ContentTypeOK
<1> SUFFICES ASSUME ContentInv PROVE ContentTypeOK
  OBVIOUS
<1>1. file \in Files /\ file.declared \in DocumentType /\ file.name \in Seq(STRING)
  BY FileFields DEF ContentInv
<1>2. docType \in DocumentType
  <2>1. \A words : ClassifyDoctype(words) \in DocumentType
    BY RegistryAssumption DEF ClassifyDoctype, DocumentType
  <2> QED BY <1>1, <2>1 DEF ContentInv, DocumentType
<1>3. pc \in {"upload", "refused", "preprocess", "classify", "extract", "validate",
             "ready", "rejected", "failed"}
  BY DEF ContentInv
<1>4. reply \in {0, 202, 413, 415, 500}
  BY DEF ContentInv, Refusal
<1>5. stored \in Seq(SafeChars \cup {"file"})
  <2>1. SafeName(file.name) \in Seq(SafeChars \cup {"file"})
    BY <1>1, SafeNameType
  <2> QED BY <2>1 DEF ContentInv
<1>6. text \in Seq(Chars) /\ rawText \in Seq(Chars) /\ Len(rawText) <= StoredLimit
  <2>1. NoText \in Seq(Chars)
    BY DEF NoText
  <2>2. ExtractText(file) \in Seq(Chars)
    BY <1>1, TextType
  <2>3. text \in Seq(Chars) /\ rawText = Upto(text, StoredLimit)
    BY <2>1, <2>2 DEF ContentInv
  <2>4. StoredLimit \in Nat /\ Len(text) \in Nat
    BY <2>3, LimitsAssumption
  <2> QED BY <2>3, <2>4, UptoType
<1>7. answer.shape \in Registered \cup {"doc_type", "none"}
  BY AnswerShape, ShapeConforms, RegistryAssumption
<1> QED BY <1>1, <1>2, <1>3, <1>4, <1>5, <1>6, <1>7 DEF ContentTypeOK

\* A refusal with status 500 comes after all checks, from the name alone.
LEMMA InvOnlyDotDot == ContentInv => OnlyDotDotCannotBeStored
<1> SUFFICES ASSUME ContentInv, reply = 500 PROVE LastComponent(file.name) = <<".", ".">>
  BY DEF OnlyDotDotCannotBeStored
<1>1. pc = "refused" /\ Refused /\ Refusal = 500
  BY DEF ContentInv
<1>2. file.mime \in SupportedMimeTypes /\ file.size \notin {"empty", "large"}
  BY <1>1 DEF Refusal
<1>3. file.size = "normal"
  BY <1>2, FilesAssumption DEF ContentInv
<1>4. ~Opens(SafeName(file.name))
  BY <1>1, <1>2, <1>3 DEF Refused
<1> QED BY <1>4, FileFields, SafeNameType DEF ContentInv

\* A line of a text that was cut, if it ends before the cut, is a line of the text.
LEMMA LinesBeforeTheCut ==
  ASSUME NEW t \in Seq(Chars), NEW limit \in Nat, Len(Upto(t, limit)) = limit,
         NEW l \in Lines(Upto(t, limit)), l[2] <= limit
  PROVE  l \in Lines(t) /\ LineAt(Upto(t, limit), l) = LineAt(t, l)
<1> DEFINE u == Upto(t, limit)
<1>1. u \in Seq(Chars) /\ Len(u) = limit /\ limit <= Len(t) /\ Len(t) \in Nat
      /\ \A i \in 1 .. limit : u[i] = t[i]
  BY UptoType
<1>2. l \in Lines(u) /\ LineAt(Upto(t, limit), l) = LineAt(u, l)
  OBVIOUS
<1> HIDE DEF u
<1>3. u # <<>> /\ t # <<>>
  <2>1. u # <<>>
    BY <1>2 DEF Lines
  <2> QED BY <1>1, <2>1
<1>4. DOMAIN u = 1 .. limit /\ DOMAIN t = 1 .. Len(t)
  BY <1>1
<1>5. /\ l \in Breaks(u) \X Breaks(u)
      /\ l[1] < l[2] /\ \A b \in Breaks(u) : b <= l[1] \/ l[2] <= b
  BY <1>2, <1>3 DEF Lines
<1>6. l[1] \in Breaks(u) /\ l[2] \in Breaks(u) /\ l = <<l[1], l[2]>>
  BY <1>5
<1>7. \A b : b \in Breaks(u) => b \in 0 .. limit + 1
  BY <1>4 DEF Breaks
<1>8. \A b \in 0 .. limit : b \in Breaks(u) <=> b \in Breaks(t)
  <2> TAKE b \in 0 .. limit
  <2>1. b = 0 \/ b \in 1 .. limit
    OBVIOUS
  <2>2. b # Len(u) + 1 /\ b # Len(t) + 1
    BY <1>1
  <2>3. b \in 1 .. limit => u[b] = t[b] /\ b \in DOMAIN u /\ b \in DOMAIN t
    BY <1>1, <1>4
  <2>4. 0 \in Breaks(u) /\ 0 \in Breaks(t)
    BY DEF Breaks
  <2>5. ASSUME b \in 1 .. limit PROVE b \in Breaks(u) <=> b \in Breaks(t)
    <3>1. b # 0
      BY <2>5
    <3>2. b \in Breaks(u) <=> u[b] = Newline
      BY <2>2, <2>3, <2>5, <3>1, Zenon DEF Breaks
    <3>3. b \in Breaks(t) <=> t[b] = Newline
      BY <2>2, <2>3, <2>5, <3>1, Zenon DEF Breaks
    <3> QED BY <2>3, <2>5, <3>2, <3>3
  <2> QED BY <2>1, <2>4, <2>5
<1>9. l[1] \in 0 .. limit /\ l[2] \in 0 .. limit /\ l[1] \in Nat /\ l[2] \in Nat
  BY <1>5, <1>6, <1>7
<1>10. \A b \in Breaks(t) : b <= l[1] \/ l[2] <= b
  <2> TAKE b \in Breaks(t)
  <2>1. b \in Nat
    BY <1>1, <1>4 DEF Breaks
  <2>2. CASE b \in 0 .. limit
    BY <1>5, <1>8, <2>2
  <2>3. CASE b \notin 0 .. limit
    BY <1>9, <2>1, <2>3
  <2> QED BY <2>2, <2>3
<1>11. l \in Lines(t)
  <2> DEFINE x == l[1]
             y == l[2]
  <2>1. x \in Breaks(t) /\ y \in Breaks(t) /\ x < y /\ \A b \in Breaks(t) : b <= x \/ y <= b
    BY <1>5, <1>6, <1>8, <1>9, <1>10
  <2>2. l = <<x, y>>
    BY <1>6
  <2> HIDE DEF x, y
  <2>3. <<x, y>> \in Lines(t)
    BY <1>3, <2>1 DEF Lines
  <2> QED BY <2>2, <2>3
<1>12. LineAt(u, l) = LineAt(t, l)
  <2> DEFINE x == l[1] + 1
             y == l[2] - 1
             s == SubSeq(u, x, y)
             r == SubSeq(t, x, y)
  <2>1. x \in Int /\ y \in Int /\ \A i \in x .. y : i \in 1 .. limit /\ i \in 1 .. Len(t)
    BY <1>1, <1>9
  <2>2. \A i \in x .. y : u[i] \in Chars /\ t[i] \in Chars /\ u[i] = t[i]
    BY <1>1, <2>1
  <2> HIDE DEF x, y
  <2>3. /\ s \in Seq(Chars) /\ Len(s) = IF x <= y THEN y - x + 1 ELSE 0
        /\ \A i \in 1 .. y - x + 1 : s[i] = u[x + i - 1]
    BY <2>1, <2>2, SubSeqProperties
  <2>4. /\ r \in Seq(Chars) /\ Len(r) = IF x <= y THEN y - x + 1 ELSE 0
        /\ \A i \in 1 .. y - x + 1 : r[i] = t[x + i - 1]
    BY <2>1, <2>2, SubSeqProperties
  <2>5. \A i \in 1 .. y - x + 1 : x + i - 1 \in x .. y
    BY <2>1
  <2>6. Len(s) = Len(r) /\ \A i \in 1 .. Len(s) : s[i] = r[i]
    <3> HIDE DEF s, r
    <3>1. Len(s) = Len(r)
      BY <2>3, <2>4
    <3>2. \A i \in 1 .. Len(s) : i \in 1 .. y - x + 1
      BY <2>1, <2>3
    <3> QED BY <2>2, <2>3, <2>4, <2>5, <3>1, <3>2
  <2>7. s = r
    <3> HIDE DEF s, r
    <3> QED BY <2>3, <2>4, <2>6, SeqEqual
  <2> QED BY <2>7 DEF LineAt, x, y
<1> QED BY <1>2, <1>11, <1>12

\* The text of a JSON document is its flattened value, and raw_text is how it starts.
LEMMA InvLeavesAreTold == ContentInv => LeavesAreTold
<1> DEFINE scalars == LeavesOf(MaxDepth, file.tree)
           full == Len(rawText) = StoredLimit
           whole == {l \in Lines(rawText) : ~full \/ l[2] <= Len(rawText)}
<1> SUFFICES ASSUME ContentInv, pc \notin {"upload", "refused", "preprocess"},
                    file.mime = "application/json", file.parses, Legible(MaxDepth, file.tree)
             PROVE  /\ \E told \in Injection(whole, scalars) :
                         /\ \A l \in whole : ValueTold(LineAt(rawText, l)) = told[l][2].value
                         /\ ~full => \A s \in scalars : \E l \in whole : told[l] = s
                    /\ PlainKeys(MaxDepth, file.tree) =>
                         \A l, m \in whole :
                           PathTold(LineAt(rawText, l)) = PathTold(LineAt(rawText, m)) => l = m
  BY DEF LeavesAreTold
<1>1. file.tree \in Json[MaxDepth] /\ MaxDepth \in Nat
  BY FileFields, JsonAssumption DEF ContentInv
<1>2. text = FlattenJson[MaxDepth][file.tree][<<>>] /\ rawText = Upto(text, StoredLimit)
  BY DEF ContentInv, ExtractText, Flattened
<1>3. /\ text \in Seq(Chars)
      /\ \E told \in Bijection(Lines(text), scalars) :
           \A l \in Lines(text) : ValueTold(LineAt(text, l)) = told[l][2].value
      /\ PlainKeys(MaxDepth, file.tree) =>
           \A l, m \in Lines(text) :
             PathTold(LineAt(text, l)) = PathTold(LineAt(text, m)) => l = m
  <2> DEFINE tree == file.tree
             flat == FlattenJson[MaxDepth][tree][<<>>]
  <2>1. tree \in Json[MaxDepth] /\ MaxDepth \in Nat /\ Legible(MaxDepth, tree)
    BY <1>1
  <2>2. text = flat
    BY <1>2
  <2> HIDE DEF tree
  <2>3. /\ flat \in Seq(Chars)
        /\ \E told \in Bijection(Lines(flat), LeavesOf(MaxDepth, tree)) :
             \A l \in Lines(flat) : ValueTold(LineAt(flat, l)) = told[l][2].value
        /\ PlainKeys(MaxDepth, tree) =>
             \A l, m \in Lines(flat) :
               PathTold(LineAt(flat, l)) = PathTold(LineAt(flat, m)) => l = m
    BY <2>1, TextTellsScalars, Zenon
  <2> HIDE DEF flat
  <2> QED BY <2>2, <2>3, Zenon DEF tree
<1>4. StoredLimit \in Nat /\ Len(text) \in Nat
  BY <1>3, LimitsAssumption
<1>5. ~full => rawText = text /\ whole = Lines(text)
  <2> HAVE ~full
  <2>1. Len(text) <= StoredLimit
    BY <1>2, <1>3, <1>4, UptoType
  <2>2. rawText = text
    BY <1>2, <1>3, <1>4, <2>1, UptoType
  <2> QED BY <2>2
<1>6. \A l \in whole : l \in Lines(text) /\ LineAt(rawText, l) = LineAt(text, l)
  <2> TAKE l \in whole
  <2>1. CASE full
    <3>1. l \in Lines(Upto(text, StoredLimit)) /\ l[2] <= StoredLimit /\ Len(Upto(text, StoredLimit)) = StoredLimit
      BY <1>2, <2>1
    <3> QED BY <1>2, <1>3, <1>4, <3>1, LinesBeforeTheCut
  <2>2. CASE ~full
    BY <1>5, <2>2
  <2> QED BY <2>1, <2>2
<1> HIDE DEF scalars, full, whole
<1>7. PICK all \in Bijection(Lines(text), scalars) :
        \A l \in Lines(text) : ValueTold(LineAt(text, l)) = all[l][2].value
  BY <1>3
<1>8. /\ all \in [Lines(text) -> scalars]
      /\ \A l, m \in Lines(text) : all[l] = all[m] => l = m
      /\ \A s \in scalars : \E l \in Lines(text) : all[l] = s
  BY <1>7 DEF Bijection, Injection, Surjection, IsInjective
<1> DEFINE told == [l \in whole |-> all[l]]
<1>9. \A l \in whole : told[l] = all[l]
  OBVIOUS
<1>10. told \in [whole -> scalars]
  BY <1>6, <1>8
<1> HIDE DEF told
<1>11. told \in Injection(whole, scalars)
  BY <1>6, <1>8, <1>9, <1>10 DEF Injection, IsInjective
<1>12. \A l \in whole : ValueTold(LineAt(rawText, l)) = told[l][2].value
  BY <1>6, <1>7, <1>9
<1>13. ~full => \A s \in scalars : \E l \in whole : told[l] = s
  BY <1>5, <1>8, <1>9
<1>14. PlainKeys(MaxDepth, file.tree) =>
         \A l, m \in whole :
           PathTold(LineAt(rawText, l)) = PathTold(LineAt(rawText, m)) => l = m
  BY <1>3, <1>6
<1> QED BY <1>11, <1>12, <1>13, <1>14

\* Only the contract's prompt shows text to the router, and a classifier that saw
\* "invoice" or "ticket" there would not have said contract.
LEMMA InvOwnPrompt == ContentInv => OwnPromptOwnShape
<1> SUFFICES ASSUME ContentInv, answer.shape \notin {"none", docType}
             PROVE  /\ docType = "contract"
                    /\ \E w \in {"invoice", "ticket", "support", "classification"} :
                         /\ w \in Visible(text, HeadRoom)
                         /\ file.declared = "unknown" => w \in {"support", "classification"}
  BY DEF OwnPromptOwnShape
<1>1. /\ pc \in {"validate", "ready", "rejected"}
      /\ answer = Route(docType, text) /\ text = ExtractText(file)
      /\ docType \in {"invoice", "support_ticket", "contract"}
      /\ text \in Seq(Chars)
  BY AnswerShape
<1>2. docType = "contract"
  BY <1>1, RouteCases, InvoiceAddsUp DEF TicketAnswer
<1>3. PICK w \in {"invoice", "ticket", "support", "classification"} : w \in Visible(text, HeadRoom)
  BY <1>1, <1>2, RouteCases DEF ContractAnswer
<1>4. ASSUME file.declared = "unknown" PROVE w \in {"support", "classification"}
  <2>1. ClassifyDoctype(Visible(text, ClassifyLimit)) = "contract"
    BY <1>1, <1>2, <1>4 DEF ContentInv
  <2>2. w \in Visible(text, ClassifyLimit)
    BY <1>1, <1>3, HeadIsClassified
  <2> QED BY <2>1, <2>2 DEF ClassifyDoctype
<1> QED BY <1>2, <1>3, <1>4

\* A verdict is the comparison of shapes.
LEMMA InvVerdicts == ContentInv => ReadyHasOwnShape /\ OwnShapeIsAccepted
<1> SUFFICES ASSUME ContentInv PROVE ReadyHasOwnShape /\ OwnShapeIsAccepted
  OBVIOUS
<1>1. ASSUME pc \in {"ready", "rejected"}
      PROVE  Conforms(docType, answer) <=> answer.shape = docType
  <2>1. /\ answer = Route(docType, text) /\ text = ExtractText(file) /\ file \in Files
        /\ docType \in {"invoice", "support_ticket", "contract"}
    BY <1>1, RegistryAssumption DEF ContentInv
  <2> QED BY <2>1, TextType, ShapeConforms
<1>2. answer.shape = "invoice" => answer.subtotal + answer.tax = answer.total
  BY AnswerShape, ShapeConforms
<1>3. /\ pc = "ready" => Conforms(docType, answer)
      /\ pc = "rejected" => ~Conforms(docType, answer)
  BY DEF ContentInv
<1> QED BY <1>1, <1>2, <1>3 DEF ReadyHasOwnShape, OwnShapeIsAccepted

\* The classifier finds no type in an empty text.
LEMMA InvInvented == ContentInv => InventedOnlyWhenDeclared
<1> SUFFICES ASSUME ContentInv, pc = "ready", text = NoText, file.declared = "unknown"
             PROVE  FALSE
  BY DEF InventedOnlyWhenDeclared
<1>1. docType = ClassifyDoctype(Visible(text, ClassifyLimit)) /\ docType \in Registered
  BY DEF ContentInv
<1>2. Visible(text, ClassifyLimit) = {}
  <2>1. ClassifyLimit \in Nat
    BY LimitsAssumption
  <2>2. Upto(NoText, ClassifyLimit) = NoText
    BY <2>1, NothingUpto
  <2>3. ToSet(NoText) = {}
    BY DEF ToSet, NoText
  <2> QED BY <2>2, <2>3 DEF Visible
<1>3. docType = "unknown"
  BY <1>1, <1>2 DEF ClassifyDoctype
<1> QED BY <1>1, <1>3, RegisteredAssumption

-----------------------------------------------------------------------------
(* The theorems *)

\* The journey of an upload is well-typed.
THEOREM ContentWellTyped == Spec => []ContentTypeOK
BY ContentInvariant, InvTypeOK, PTL

\* Of the file names that reach save(), only those whose last component is ".."
\* make it fail, however _safe_name rewrites them.
THEOREM OnlyDotDotFails == Spec => []OnlyDotDotCannotBeStored
BY ContentInvariant, InvOnlyDotDot, PTL

\* Of any JSON document, whatever its nesting, whose keys and scalars have no line
\* break and whose keys have no colon, raw_text tells every scalar that the cap of
\* preprocess leaves room for and nothing else, on lines that plain keys tell apart.
THEOREM EveryScalarIsTold == Spec => []LeavesAreTold
BY ContentInvariant, InvLeavesAreTold, PTL

\* Uploaded text misroutes an extraction prompt only at the opening of a contract.
THEOREM OwnPromptAnswers == Spec => []OwnPromptOwnShape
BY ContentInvariant, InvOwnPrompt, PTL

\* The data of a READY document are never those of another extractor: validate
\* accepts a shape for its own type only.
THEOREM ReadyDataFit == Spec => []ReadyHasOwnShape
BY ContentInvariant, InvVerdicts, PTL

\* Whatever amounts the text has, the extractor of the document's own type is never
\* rejected by validate, and an invoice adds up.
THEOREM OwnAnswersAccepted == Spec => []OwnShapeIsAccepted
BY ContentInvariant, InvVerdicts, PTL

\* Without any text, a document becomes READY only if the upload declared its type.
THEOREM NothingInventedUndeclared == Spec => []InventedOnlyWhenDeclared
BY ContentInvariant, InvInvented, PTL
=============================================================================
