--------------------------- MODULE DocumentTypes ---------------------------
(***************************************************************************)
(* The enumerations that every part of the document processor shares, and *)
(* the registry of extractors (app/schemas/document.py,                    *)
(* app/extractors/registry.py).                                            *)
(***************************************************************************)

\* The document types with an entry in _REGISTRY.  The enum's one other member
\* is "unknown", which has none.
CONSTANT Registered

ASSUME RegisteredAssumption == "unknown" \notin Registered

DocumentType == Registered \cup {"unknown"}

InProgress == {"preprocessing", "extracting", "validating"}
Settled == {"ready", "failed"}
DocumentStatus == {"uploaded"} \cup InProgress \cup Settled

BatchStatus == {"pending", "running", "completed", "partial", "failed"}

\* get_extractor raises KeyError exactly when this is false.
HasExtractor(docType) == docType \in Registered
=============================================================================
