-------------------------- MODULE DocumentContent --------------------------
(***************************************************************************)
(* What becomes of the content of one upload when nothing fails: the file  *)
(* name (storage.py), the text (preprocessor.py), the prompts (pipeline.py *)
(* and registry.py), the answers of the mock LLM (mock.py) and the schemas *)
(* that judge them (schemas/document.py).                                  *)
(*                                                                         *)
(* In a text, a phrase that the mock looks for and an amount of money are  *)
(* one character each.  Names are as long as the file system takes.        *)
(* Retries, statuses and concurrent runs are those of DocumentPipeline.    *)
(***************************************************************************)
EXTENDS DocumentTypes, JsonText

CONSTANTS Files,            \* the uploads considered
          Money,            \* the characters that are amounts, with what they amount to
          HeadRoom,         \* characters of a contract that the mock's router sees: 48
          ClassifyLimit,    \* of a text that go into the prompt of classify: 4000
          ExtractLimit,     \* of a text that go into the prompt of extract: 8000
          StoredLimit       \* of a text that are stored in raw_text: 50000

ASSUME RegistryAssumption == Registered = {"invoice", "support_ticket", "contract"}
ASSUME MoneyAssumption == DOMAIN Money \subseteq Chars /\ \A c \in DOMAIN Money : Money[c] \in Nat
ASSUME LimitsAssumption ==
  /\ {HeadRoom, ClassifyLimit, ExtractLimit, StoredLimit} \subseteq Nat
  /\ HeadRoom <= ClassifyLimit /\ ClassifyLimit <= ExtractLimit /\ ExtractLimit <= StoredLimit

VARIABLES file,      \* the upload: name, declared type ("unknown" if none), size,
                     \* mime type, content
          pc,        \* the stage to come, or the end
          reply,     \* HTTP status of the upload
          stored,    \* name of the file in its directory of the storage
          text,      \* what preprocess extracted and returned
          rawText,   \* the column raw_text
          docType,
          answer     \* what extract got from the LLM

vars == <<file, pc, reply, stored, text, rawText, docType, answer>>

-----------------------------------------------------------------------------
(* Storage: a name is a sequence of characters. *)

SafeChars == {"a", ".", "_"}    \* c.isalnum() or c in "._-"

\* Path(name).name: the last component that is neither empty nor ".".
LastComponent(name) ==
  LET component(p) ==
        /\ \A i \in p[1] .. p[2] : name[i] # "/"
        /\ p[1] = 1 \/ name[p[1] - 1] = "/"
        /\ p[2] = Len(name) \/ name[p[2] + 1] = "/"
        /\ SubSeq(name, p[1], p[2]) # <<".">>
      parts == {p \in (1 .. Len(name)) \X (1 .. Len(name)) : p[1] <= p[2] /\ component(p)}
      last == CHOOSE p \in parts : \A q \in parts : q[2] <= p[2]
  IN  IF parts = {} THEN <<>> ELSE SubSeq(name, last[1], last[2])

Sanitized(c) == IF c \in SafeChars THEN c ELSE "_"

\* Variant: characters are kept as they are.
SafeNameUnfiltered(name) ==
  IF LastComponent(name) = <<>> THEN <<"file">> ELSE LastComponent(name)

\* Variant: no default for a name without a last component.
SafeNameOrNothing(name) ==
  [i \in DOMAIN LastComponent(name) |-> Sanitized(LastComponent(name)[i])]

SafeName(name) ==
  LET last == LastComponent(name)
  IN  IF last = <<>> THEN <<"file">> ELSE [i \in DOMAIN last |-> Sanitized(last[i])]

\* open(directory / name, "wb") fails on a name that denotes a directory.
Opens(name) == name \notin {<<>>, <<".">>, <<".", ".">>}

-----------------------------------------------------------------------------
(* Preprocess *)

\* Phrases that mock.py treats alike, under the name of one of them: "subtotal"
\* only makes a classifier say invoice, "support" only routes a prompt, and
\* "classification" is a text with both phrases of the classifier's prompt.
Words == {"invoice", "subtotal", "ticket", "issue", "support", "agreement", "classification"}

ASSUME WordsAssumption == Words \subseteq Chars

\* text is what the bytes decode to, tree what json.loads makes of it.
ASSUME FilesAssumption ==
  Files \subseteq [name : Seq(STRING), declared : DocumentType, size : {"empty", "normal", "large"},
                   mime : STRING, parses : BOOLEAN, text : Seq(Chars), tree : Json[MaxDepth]]

SupportedMimeTypes == {"text/plain", "text/markdown", "application/json", "application/pdf"}

NoText == <<>>
Flattened(f) == FlattenJson[MaxDepth][f.tree][<<>>]

\* JSON that does not parse is taken as text; a PDF that cannot be read is empty.
ExtractText(f) ==
  CASE f.mime = "application/json" /\ f.parses -> Flattened(f)
    [] f.mime = "application/pdf" /\ ~f.parses -> NoText
    [] OTHER -> f.text

\* text[:limit]
Upto(t, limit) == SubSeq(t, 1, IF Len(t) < limit THEN Len(t) ELSE limit)

-----------------------------------------------------------------------------
(* Prompts and answers *)

\* The phrases among the first characters of a text, and where its amounts are.
Visible(t, limit) == Words \cap ToSet(Upto(t, limit))
Priced(t) == {i \in DOMAIN Upto(t, ExtractLimit) : t[i] \in DOMAIN Money}

\* Phrases of the system prompt and of the template, by the type to extract;
\* "unknown" is the prompt of classify.
Template == [unknown |-> {"classification"},
             invoice |-> {"extract", "invoice"},
             support_ticket |-> {"extract", "support", "ticket"},
             contract |-> {"extract", "agreement"}]

\* Variant: the templates of all types leave room for text.
PromptHeadOfShortTemplates(about, t) == Template[about] \cup Visible(t, HeadRoom)

\* head of _route: system prompt and 300 characters of prompt.  The templates for
\* invoices and tickets fill them; that for contracts leaves HeadRoom.
PromptHead(about, t) ==
  Template[about] \cup (IF about = "contract" THEN Visible(t, HeadRoom) ELSE {})

\* Variant: the last branch guesses.
ClassifyAsContract(words) ==
  IF words \cap {"invoice", "subtotal"} # {} THEN "invoice"
  ELSE IF words \cap {"ticket", "issue"} # {} THEN "support_ticket"
  ELSE "contract"

ClassifyDoctype(words) ==
  IF words \cap {"invoice", "subtotal"} # {} THEN "invoice"
  ELSE IF words \cap {"ticket", "issue"} # {} THEN "support_ticket"
  ELSE IF "agreement" \in words THEN "contract"
  ELSE "unknown"

\* Variant: the amounts are not sorted, the last two of the text are taken.
InvoiceAnswerUnsorted(t) ==
  LET latest(among) == CHOOSE i \in among : \A j \in among : j <= i
      priced == Priced(t)
      last == latest(priced)
      total == IF priced = {} THEN 110 ELSE Money[t[last]]
      subtotal == CASE priced = {} -> 100
                    [] priced = {last} -> total
                    [] OTHER -> Money[t[latest(priced \ {last})]]
  IN  [shape |-> "invoice",
       keys |-> {"invoice_number", "vendor", "subtotal", "tax", "total"},
       subtotal |-> subtotal, total |-> total,
       tax |-> IF total > subtotal THEN total - subtotal ELSE 0]

Largest(t, among) == CHOOSE i \in among : \A j \in among : Money[t[j]] <= Money[t[i]]

\* The largest amount is the total and the next one the subtotal.
InvoiceAnswer(t) ==
  LET priced == Priced(t)
      last == Largest(t, priced)
      total == IF priced = {} THEN 110 ELSE Money[t[last]]
      subtotal == CASE priced = {} -> 100
                    [] priced = {last} -> total
                    [] OTHER -> Money[t[Largest(t, priced \ {last})]]
  IN  [shape |-> "invoice",
       keys |-> {"invoice_number", "vendor", "subtotal", "tax", "total"},
       subtotal |-> subtotal, total |-> total,
       tax |-> IF total > subtotal THEN total - subtotal ELSE 0]

TicketAnswer == [shape |-> "support_ticket", keys |-> {"category", "priority", "summary"}]
ContractAnswer == [shape |-> "contract", keys |-> {"title", "parties", "term_months"}]
DoctypeAnswer == [shape |-> "doc_type", keys |-> {"doc_type", "confidence"}]
NoAnswer == [shape |-> "none", keys |-> {}]

\* _route, for the prompts with an extraction task.
Route(about, t) ==
  LET head == PromptHead(about, t)
  IN  IF "classification" \in head THEN DoctypeAnswer
      ELSE IF "invoice" \in head THEN InvoiceAnswer(t)
      ELSE IF {"support", "ticket"} \cap head # {} THEN TicketAnswer
      ELSE ContractAnswer

\* The fields that a schema requires, and ge=0.
Required == [invoice |-> {"invoice_number", "vendor", "subtotal", "total"},
             support_ticket |-> {"category", "priority", "summary"},
             contract |-> {"title", "parties"}]

\* Variant: every field has a default.
ConformsByDefault(type, a) == type = "invoice" /\ a.shape = "invoice" => a.tax >= 0

Conforms(type, a) ==
  /\ Required[type] \subseteq a.keys
  /\ type = "invoice" => a.subtotal >= 0 /\ a.tax >= 0 /\ a.total >= 0

-----------------------------------------------------------------------------
(* The journey of the upload *)

Init ==
  /\ file \in Files
  /\ pc = "upload"
  /\ reply = 0
  /\ stored = <<>>
  /\ text = NoText
  /\ rawText = NoText
  /\ docType = "unknown"
  /\ answer = NoAnswer

\* The checks of DocumentService.upload in their order, then the save.
Refusal ==
  CASE file.mime \notin SupportedMimeTypes -> 415
    [] file.mime \in SupportedMimeTypes /\ file.size \in {"empty", "large"} -> 413
    [] OTHER -> 500

Refused ==
  \/ file.mime \notin SupportedMimeTypes
  \/ file.size # "normal"
  \/ ~Opens(SafeName(file.name))

Refuse ==
  /\ pc = "upload" /\ Refused
  /\ reply' = Refusal
  /\ pc' = "refused"
  /\ UNCHANGED <<file, stored, text, rawText, docType, answer>>

Store ==
  /\ pc = "upload" /\ ~Refused
  /\ reply' = 202
  /\ stored' = SafeName(file.name)
  /\ docType' = file.declared
  /\ pc' = "preprocess"
  /\ UNCHANGED <<file, text, rawText, answer>>

\* The stages that follow get the whole text, the row what it has room for.
Preprocess ==
  /\ pc = "preprocess"
  /\ text' = ExtractText(file)
  /\ rawText' = Upto(text', StoredLimit)
  /\ pc' = IF docType = "unknown" THEN "classify" ELSE "extract"
  /\ UNCHANGED <<file, reply, stored, docType, answer>>

Classify ==
  /\ pc = "classify"
  /\ docType' = ClassifyDoctype(Visible(text, ClassifyLimit))
  /\ pc' = IF HasExtractor(docType') THEN "extract" ELSE "failed"
  /\ UNCHANGED <<file, reply, stored, text, rawText, answer>>

Extract ==
  /\ pc = "extract"
  /\ answer' = Route(docType, text)
  /\ pc' = "validate"
  /\ UNCHANGED <<file, reply, stored, text, rawText, docType>>

Validate ==
  /\ pc = "validate"
  /\ pc' = IF Conforms(docType, answer) THEN "ready" ELSE "rejected"
  /\ UNCHANGED <<file, reply, stored, text, rawText, docType, answer>>

Next == Refuse \/ Store \/ Preprocess \/ Classify \/ Extract \/ Validate

Spec == Init /\ [][Next]_vars

-----------------------------------------------------------------------------
(* Properties *)

ContentTypeOK ==
  /\ file.declared \in DocumentType /\ docType \in DocumentType
  /\ pc \in {"upload", "refused", "preprocess", "classify", "extract", "validate",
             "ready", "rejected", "failed"}
  /\ reply \in {0, 202, 413, 415, 500}
  /\ stored \in Seq(SafeChars \cup {"file"})
  /\ text \in Seq(Chars) /\ rawText \in Seq(Chars) /\ Len(rawText) <= StoredLimit
  /\ answer.shape \in Registered \cup {"doc_type", "none"}

\* The sanitised name of an upload is one that a file can have, with one exception:
\* a name whose last component is ".." is the only one that makes save() fail.
OnlyDotDotCannotBeStored == reply = 500 => LastComponent(file.name) = <<".", ".">>

\* What raw_text tells of a JSON document.  When no key has a line break or a colon
\* and no scalar a line break, the lines of raw_text are one to one with the scalars
\* and have their values, so empty containers vanish and nothing else does; and
\* when the keys are plain too, no two lines have the same path.  Where the cap of
\* raw_text was reached this holds of the lines before the cut, of scalars of the
\* document that need not be all.
LeavesAreTold ==
  LET scalars == LeavesOf(MaxDepth, file.tree)
      full == Len(rawText) = StoredLimit
      whole == {l \in Lines(rawText) : ~full \/ l[2] <= Len(rawText)}
  IN  pc \notin {"upload", "refused", "preprocess"} /\ file.mime = "application/json"
      /\ file.parses /\ Legible(MaxDepth, file.tree) =>
        /\ \E told \in Injection(whole, scalars) :
             /\ \A l \in whole : ValueTold(LineAt(rawText, l)) = told[l][2].value
             /\ ~full => \A s \in scalars : \E l \in whole : told[l] = s
        /\ PlainKeys(MaxDepth, file.tree) =>
             \A l, m \in whole :
               PathTold(LineAt(rawText, l)) = PathTold(LineAt(rawText, m)) => l = m

\* Text that was uploaded decides which extractor answers in one case only: the
\* opening of a contract.  A document that was classified, and not declared, a
\* contract is then misled by the phrases that the classifier does not look for.
OwnPromptOwnShape ==
  answer.shape \notin {"none", docType} =>
    /\ docType = "contract"
    /\ \E w \in {"invoice", "ticket", "support", "classification"} :
         /\ w \in Visible(text, HeadRoom)
         /\ file.declared = "unknown" => w \in {"support", "classification"}

\* What another extractor answered never becomes the data of a READY document:
\* the schemas require different fields.
ReadyHasOwnShape == pc = "ready" => answer.shape = docType

\* The extractor of the document's own type is never rejected, whatever amounts
\* the text has, and the invoice it answers adds up.
OwnShapeIsAccepted ==
  /\ pc = "rejected" => answer.shape # docType
  /\ answer.shape = "invoice" => answer.subtotal + answer.tax = answer.total

\* When nothing could be read (an unreadable PDF, JSON without a scalar), the mock
\* still invents data, and they become READY if the upload declared its type; a
\* document to be classified fails instead.
InventedOnlyWhenDeclared == pc = "ready" /\ text = NoText => file.declared # "unknown"
=============================================================================
