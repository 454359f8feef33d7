------------------------- MODULE MCDocumentContent -------------------------
(* The uploads that TLC considers, in families that vary one aspect each. *)
EXTENDS DocumentContent

CONSTANTS MaxName,     \* characters of a file name
          MaxAmounts,  \* amounts in a text
          MaxItems     \* items of a JSON container

MCChars == Digits \cup Words \cup {".", "[", "]", ":", " ", Newline, "a", "b", "other",
                                   "$0", "$1", "$2", "$5"}
MCMoney == [c \in {"$0", "$1", "$2", "$5"} |->
              CASE c = "$0" -> 0 [] c = "$1" -> 1 [] c = "$2" -> 2 [] c = "$5" -> 5]

Letter == [name |-> <<"a">>, declared |-> "unknown", size |-> "normal",
           mime |-> "text/plain", parses |-> TRUE,
           text |-> <<>>, tree |-> Leaf(<<"other">>)]

Names == BoundedSeq({"a", ".", "/", " "}, MaxName)
NamedFiles == {[Letter EXCEPT !.name = n, !.size = s, !.mime = m] :
                 n \in Names, s \in {"empty", "normal", "large"},
                 m \in {"text/plain", "text/html"}}

\* Two phrases in a text, or one, on either side of each limit.  Where the prompts
\* are cut does not depend on the mime type: two phrases in one of them suffice.
Sides == {1} \cup {n + d : n \in {HeadRoom, ClassifyLimit, ExtractLimit}, d \in {0, 1}}
Texts(some) == {[i \in 1 .. ExtractLimit + 1 |-> IF i = m THEN v ELSE IF i = n THEN w ELSE "other"] :
                  v \in some, w \in Words, m, n \in Sides}
TextFiles == {[Letter EXCEPT !.text = t, !.mime = "text/markdown"] : t \in Texts(Words)}
             \cup {[Letter EXCEPT !.text = t, !.mime = m, !.parses = p] :
                     t \in Texts({"other"}) \cup {<<>>},
                     m \in {"application/pdf", "application/json"}, p \in BOOLEAN}

Invoices == {[Letter EXCEPT !.text = <<"invoice">> \o a] :
               a \in BoundedSeq(DOMAIN Money, MaxAmounts)}

Containing(trees, keys) ==
  {Array(items) : items \in BoundedSeq(trees, MaxItems)} \cup
  UNION {{Object(k, items) : k \in {k \in TupleOf(keys, n) : IsInjective(k)},
                             items \in TupleOf(trees, n)} : n \in 0 .. MaxItems}

\* Two scalars in a container, or one and containers of it.
Keys == {<<"a">>, <<"b">>, <<"a", ".", "b">>, <<>>}
One == {Leaf(<<"agreement">>)}
Nested == Containing(One, Keys) \cup Containing(One \cup Containing(One, Keys), Keys)

\* Line breaks and colons, phrases and amounts in keys and scalars.
Odd == {Leaf(<<"ticket", Newline, "b", ":", " ", "$2">>), Leaf(<<"$5">>), Leaf(<<>>)}
OddKeys == {<<"a">>, <<"invoice">>, <<"a", Newline, "b">>, <<"a", ":", " ", "b">>}
Flat == Containing(Odd, OddKeys)
        \cup Containing(Containing(Odd, {<<"a">>, <<"a", Newline, "b">>}), {<<"b">>})

JsonFiles == {[Letter EXCEPT !.mime = "application/json", !.tree = t] : t \in One \cup Nested}
OddFiles == {[Letter EXCEPT !.mime = "application/json", !.tree = t] : t \in Odd \cup Flat}

MCScalars == {t.value : t \in One \cup Odd} \cup {<<"other">>}

\* Of every type that a form can give, JSON of the first family only without one.
MCFiles ==
  {[f EXCEPT !.declared = type] : f \in NamedFiles \cup TextFiles \cup Invoices \cup OddFiles,
                                  type \in DocumentType}
  \cup JsonFiles
=============================================================================
