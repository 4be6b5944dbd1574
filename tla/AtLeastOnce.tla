---------------------------- MODULE AtLeastOnce ----------------------------
(***************************************************************************)
(* What the broker and the workers together promise about messages: one    *)
(* that was published is kept until it is settled, and only then forgotten.*)
(* This is what consumer.py and worker.go aim at by committing first, then *)
(* publishing, then acknowledging; there are no queues, channels, attempts *)
(* or processes here.                                                      *)
(***************************************************************************)
CONSTANT Ids

VARIABLES
    posted,   \* the ids that were ever published
    kept,     \* those the broker is still responsible for
    settled   \* those whose work is done, or will never be done

vars == <<posted, kept, settled>>

Init ==
    /\ posted = {}
    /\ kept = {}
    /\ settled = {}

\* A new message; no id is published twice, however often work is repeated.
Post(id) ==
    /\ id \notin posted
    /\ posted' = posted \cup {id}
    /\ kept' = kept \cup {id}
    /\ UNCHANGED settled

\* Work gets done, once and for all.
Settle ==
    /\ settled \subseteq settled' /\ settled' \subseteq Ids
    /\ UNCHANGED <<posted, kept>>

\* The last copy is acknowledged; nothing brings it back.
Forget(id) ==
    /\ id \in kept \cap settled
    /\ kept' = kept \ {id}
    /\ UNCHANGED <<posted, settled>>

Next == Settle \/ \E id \in Ids : Post(id) \/ Forget(id)

Spec == Init /\ [][Next]_vars

=============================================================================
