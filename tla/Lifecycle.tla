------------------------------ MODULE Lifecycle ------------------------------
(***************************************************************************)
(* The document state machine as document.rb declares it with AASM: the    *)
(* transitions each event allows.  This is what the pipeline promises about*)
(* documents.status; the workers never call these events, they run UPDATE  *)
(* statements.                                                             *)
(***************************************************************************)
CONSTANT Docs
VARIABLE status

Init == status = [d \in Docs |-> "absent"]

Transition(d, from, to) ==
    /\ status[d] \in from
    /\ status' = [status EXCEPT ![d] = to]

Create(d) == Transition(d, {"absent"}, "uploaded")

start_ocr(d) == Transition(d, {"uploaded", "ocr_completed"}, "ocr_processing")
complete_ocr(d) == Transition(d, {"ocr_processing"}, "ocr_completed")

start_chunking(d) == Transition(d, {"ocr_completed", "chunked"}, "chunking")
complete_chunking(d) == Transition(d, {"chunking"}, "chunked")

start_embedding(d) == Transition(d, {"chunked", "embedded"}, "embedding")
complete_embedding(d) == Transition(d, {"embedding"}, "embedded")

\* Declared without from: allowed in every state of an existing document.
mark_failed(d) ==
    /\ status[d] # "absent"
    /\ status' = [status EXCEPT ![d] = "failed"]

Next ==
    \E d \in Docs :
        \/ Create(d)
        \/ start_ocr(d) \/ complete_ocr(d)
        \/ start_chunking(d) \/ complete_chunking(d)
        \/ start_embedding(d) \/ complete_embedding(d)
        \/ mark_failed(d)

Spec == Init /\ [][Next]_status

=============================================================================
