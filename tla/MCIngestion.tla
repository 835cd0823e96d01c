---------------------------- MODULE MCIngestion ----------------------------
(***************************************************************************)
(* Constants of the Ingestion runs.                                        *)
(***************************************************************************)
EXTENDS Ingestion, TLC

CONSTANTS d1, d2, w1, w2, a1, c1

OneDoc     == {d1}
TwoDocs    == {d1, d2}
OneWorker  == {w1}
TwoWorkers == {w1, w2}
OneThread  == {a1}
OneCli     == {c1}
NoProcs    == {}

NoFaults     == {}
CrashFaults  == {"workerCrash"}
LiveFaults   == {"workerCrash", "redelivery", "enqueueLost", "enqueueLate"}
OnceFaults   == {"enqueueLost", "enqueueLate", "dbError", "apiCrash", "cliCrash"}
BrokerFaults == {"workerCrash", "redelivery", "enqueueLost", "enqueueLate", "deleteAborted", "cliCrash",
                 "apiCrash"}
=============================================================================
