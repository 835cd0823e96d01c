------------------------- MODULE DocumentLifecycle -------------------------
(***************************************************************************)
(* What ingestion promises of a document, without its queue and workers:   *)
(* "pending -> processing -> ready | failed", a document is ready only     *)
(* with a complete index, and the index lasts until the document is        *)
(* withdrawn by its owner.                                                 *)
(***************************************************************************)
CONSTANT Docs

VARIABLES
  phase,       \* the document's status, "absent" before and "deleted" after its row
  index,       \* chunk rows and points are there
  withdrawn    \* its owner has begun to delete it

vars == <<phase, index, withdrawn>>

Phases == {"absent", "pending", "processing", "ready", "failed", "deleted"}
Alive(d) == phase[d] \notin {"absent", "deleted"}

Init == /\ phase = [d \in Docs |-> "absent"]
        /\ index = [d \in Docs |-> FALSE]
        /\ withdrawn = [d \in Docs |-> FALSE]

Move(d, from, to) == phase[d] \in from /\ phase' = [phase EXCEPT ![d] = to]

Upload(d) == Move(d, {"absent"}, "pending") /\ UNCHANGED <<index, withdrawn>>

Begin(d) == Move(d, {"pending"}, "processing") /\ UNCHANGED <<index, withdrawn>>

\* Chunk rows and points come and go while the document is processed.
Build(d) == /\ phase[d] = "processing"
            /\ \E complete \in BOOLEAN : index' = [index EXCEPT ![d] = complete]
            /\ UNCHANGED <<phase, withdrawn>>

Succeed(d) == /\ index[d] \/ withdrawn[d]
              /\ Move(d, {"processing"}, "ready")
              /\ UNCHANGED <<index, withdrawn>>

GiveUp(d) == Move(d, {"pending", "processing"}, "failed") /\ UNCHANGED <<index, withdrawn>>

Withdraw(d) == /\ Alive(d)
               /\ withdrawn' = [withdrawn EXCEPT ![d] = TRUE]
               /\ index' = [index EXCEPT ![d] = FALSE]
               /\ UNCHANGED phase

Remove(d) == /\ withdrawn[d]
             /\ Move(d, {"pending", "processing", "ready", "failed"}, "deleted")
             /\ index' = [index EXCEPT ![d] = FALSE]
             /\ UNCHANGED withdrawn

Next == \E d \in Docs : \/ Upload(d) \/ Begin(d) \/ Build(d) \/ Succeed(d)
                        \/ GiveUp(d) \/ Withdraw(d) \/ Remove(d)

Spec == Init /\ [][Next]_vars

\* An uploaded document is decided, or deleted, in the end.
Decided == \A d \in Docs : phase[d] = "pending" ~> phase[d] \in {"ready", "failed", "deleted"}

LiveSpec == Spec /\ Decided
=============================================================================
