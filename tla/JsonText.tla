------------------------------ MODULE JsonText ------------------------------
(***************************************************************************)
(* The text of a JSON document: _flatten_json of preprocessor.py, for the  *)
(* values that json.loads returns, and what a reader can tell from it.     *)
(*                                                                         *)
(* A text is a sequence of characters.  A phrase or an amount of money     *)
(* that the code only looks for as a whole counts as one of them.          *)
(***************************************************************************)
EXTENDS SequencesExt, Integers

CONSTANTS Chars,      \* the characters of texts, keys among them
          Scalars,    \* what str() makes of the scalar values of the documents
          MaxDepth    \* how deep containers nest, within Python's recursion limit

Digit == <<"0", "1", "2", "3", "4", "5", "6", "7", "8", "9">>
Digits == {Digit[d] : d \in 1 .. 10}
Newline == "newline"

ASSUME JsonAssumption ==
  /\ Digits \cup {".", "[", "]", ":", " ", Newline} \subseteq Chars
  /\ Scalars \subseteq Seq(Chars)
  /\ MaxDepth \in Nat

-----------------------------------------------------------------------------
(* Values: containers have items, objects also a key for each. *)

Path == Seq(Chars)    \* of a value in its document, and of a key

Leaf(value) == [kind |-> "leaf", value |-> value, keys |-> <<>>, items |-> <<>>]
Array(items) == [kind |-> "array", value |-> <<>>, keys |-> <<>>, items |-> items]
Object(keys, items) == [kind |-> "object", value |-> <<>>, keys |-> keys, items |-> items]

Leaves == [kind : {"leaf"}, value : Scalars, keys : {<<>>}, items : {<<>>}]
ArraysOf(values) == [kind : {"array"}, value : {<<>>}, keys : {<<>>}, items : Seq(values)]
ObjectsOf(values) ==
  {o \in [kind : {"object"}, value : {<<>>}, keys : Seq(Path), items : Seq(values)] :
     Len(o.keys) = Len(o.items) /\ IsInjective(o.keys)}

\* The values with at most n containers around a scalar.
Json[n \in Nat] ==
  IF n = 0 THEN Leaves
  ELSE Leaves \cup ArraysOf(Json[n - 1]) \cup ObjectsOf(Json[n - 1])

-----------------------------------------------------------------------------
(* Text *)

\* str(i)
Numeral[i \in Nat] ==
  IF i < 10 THEN <<Digit[i + 1]>> ELSE Append(Numeral[i \div 10], Digit[(i % 10) + 1])

\* Variant: the items of an array carry the array's own path.
ItemPathUnnumbered(prefix, tree, i) ==
  CASE tree.kind = "array" -> prefix
    [] tree.kind = "object" /\ prefix = <<>> -> tree.keys[i]
    [] OTHER -> prefix \o <<".">> \o tree.keys[i]

ItemPath(prefix, tree, i) ==
  CASE tree.kind = "array" -> prefix \o <<"[">> \o Numeral[i - 1] \o <<"]">>
    [] tree.kind = "object" /\ prefix = <<>> -> tree.keys[i]
    [] OTHER -> prefix \o <<".">> \o tree.keys[i]

\* A text that follows others on a line of its own; an empty one has no line.
OnNewLine(text) == IF text = <<>> THEN <<>> ELSE <<Newline>> \o text

\* "\n".join of the texts that are not empty.
JoinLines(texts) ==
  LET all == FlattenSeq([i \in DOMAIN texts |-> OnNewLine(texts[i])])
  IN  IF all = <<>> THEN <<>> ELSE Tail(all)

Rendered(path, value) == path \o <<":", " ">> \o value

\* An empty container leaves nothing.  Line breaks and colons in keys and scalars
\* are not escaped.
FlattenJson[n \in Nat] ==
  [tree \in Json[n] |-> [prefix \in Path |->
     IF tree.kind = "leaf" THEN Rendered(prefix, tree.value)
     ELSE JoinLines([i \in DOMAIN tree.items |->
                       FlattenJson[n - 1][tree.items[i]][ItemPath(prefix, tree, i)]])]]

-----------------------------------------------------------------------------
(* For reference: every value in a value, with its position. *)

Below(i, p) == <<<<i>> \o p[1], p[2]>>    \* node p of item i, as a node of the container

Nodes[n \in Nat] ==
  [tree \in Json[n] |->
     {<<<<>>, tree>>} \cup
     UNION {{Below(i, p) : p \in Nodes[n - 1][tree.items[i]]} :
              i \in DOMAIN tree.items}]

LeavesOf(n, tree) == {p \in Nodes[n][tree] : p[2].kind = "leaf"}

\* Keys and scalars from which the lines of the text can be told: no line break in
\* either, and no colon in a key.
Legible(n, tree) ==
  \A p \in Nodes[n][tree] :
    /\ Newline \notin ToSet(p[2].value)
    /\ \A key \in ToSet(p[2].keys) : {Newline, ":"} \cap ToSet(key) = {}

\* Keys that cannot be mistaken for a path: not empty, no dot and no bracket.
PlainKeys(n, tree) ==
  \A p \in Nodes[n][tree] : \A key \in ToSet(p[2].keys) :
    key # <<>> /\ {".", "["} \cap ToSet(key) = {}

-----------------------------------------------------------------------------
(* For reference: how a text is read. *)

\* A line lies between two line breaks, or one and an end of the text, that have
\* none in between.
Breaks(text) == {0, Len(text) + 1} \cup {i \in DOMAIN text : text[i] = Newline}
Lines(text) ==
  IF text = <<>> THEN {}
  ELSE {l \in Breaks(text) \X Breaks(text) :
          l[1] < l[2] /\ \A b \in Breaks(text) : b <= l[1] \/ l[2] <= b}
LineAt(text, l) == SubSeq(text, l[1] + 1, l[2] - 1)

\* The first colon ends the path, a blank follows, the rest is the value.
Colon(line) ==
  CHOOSE i \in DOMAIN line : line[i] = ":" /\ \A j \in 1 .. i - 1 : line[j] # ":"
PathTold(line) == SubSeq(line, 1, Colon(line) - 1)
ValueTold(line) == SubSeq(line, Colon(line) + 2, Len(line))
=============================================================================
