------------------------ MODULE IngestionLifecycle ------------------------
(***************************************************************************)
(* Ingestion implements DocumentLifecycle as long as a task goes over its  *)
(* document once: without a lost worker, a redelivery, a publish that      *)
(* raises although it was heard, a database error, or an aborted delete.   *)
(***************************************************************************)
EXTENDS Ingestion

Index == [d \in Docs |-> points[d] /\ chunks[d] # "none"]
Withdrawn == [d \in Docs |-> deletion[d] # "none"]

Lifecycle == INSTANCE DocumentLifecycle WITH
  phase <- status, index <- Index, withdrawn <- Withdrawn

\* Every step of the upload, the queue, the workers, the delete request and
\* the CLI is a step of the document's lifecycle or leaves it alone.
ImplementsLifecycle == Lifecycle!Spec

\* An accepted upload is decided: every attempt ends, and so do the retries.
DecidesUploads == Lifecycle!Decided
=============================================================================
