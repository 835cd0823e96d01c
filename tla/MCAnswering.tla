---------------------------- MODULE MCAnswering ----------------------------
(***************************************************************************)
(* Constants of the Answering runs.                                        *)
(***************************************************************************)
EXTENDS Answering, TLC

CONSTANTS d1, d2, c1, c2, r1, r2, r3

TwoDocs       == {d1, d2}
OneConv       == {c1}
TwoConvs      == {c1, c2}
TwoRequests   == {r1, r2}
ThreeRequests == {r1, r2, r3}
Symmetric     == Permutations(TwoDocs) \cup Permutations(TwoRequests)
AllSymmetric  == Permutations(TwoDocs) \cup Permutations(TwoConvs) \cup Permutations(ThreeRequests)

\* Bounds of the run history_leaks: no two requests at a time, in whatever
\* conversations, and every question finds something and is answered.
OneRunning == \A q, r \in Requests : Running(q) /\ Running(r) => q = r
NoneFails  == \A r \in Requests : at[r] \notin {"abstain", "storeFailure"}
=============================================================================
