-------------------------- MODULE MCClientDocuments --------------------------
(***************************************************************************)
(* Constants of the runs of the client's document store, and bounds.       *)
(***************************************************************************)
EXTENDS ClientDocuments, TLC

CONSTANTS d1, d2

TwoDocs == {d1, d2}

\* Until a page is loaded again one document changes behind its back, by another
\* tab, a failed upload or another run; a decided one changes once.
OneBehind ==
  /\ unseen' \subseteq unseen \/ unseen \cup reopened = {}
  /\ \A d \in reopened' :
       status[d] = "pending" \/ status'[d] \in {status[d], "deleted"} \/ unseen \cup reopened = {}

\* At most two requests and answers are under way, the upload included.
TwoAtATime == Len(calls') + Len(wire') + (IF batch'.open THEN 1 ELSE 0) <= 2
=============================================================================
