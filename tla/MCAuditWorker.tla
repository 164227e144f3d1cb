---------------------------- MODULE MCAuditWorker ----------------------------
(* AuditWorker for TLC: interchangeable worker replicas. *)
EXTENDS AuditWorker, TLC

Replicas == Permutations(Worker)
=============================================================================
