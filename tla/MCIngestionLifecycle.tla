----------------------- MODULE MCIngestionLifecycle -----------------------
(***************************************************************************)
(* Constants of the refinement run.                                        *)
(***************************************************************************)
EXTENDS IngestionLifecycle, TLC

CONSTANTS d1, d2, w1, w2

BothDocs    == {d1, d2}
BothWorkers == {w1, w2}
NoProcs     == {}
LostOnly    == {"enqueueLost"}
=============================================================================
