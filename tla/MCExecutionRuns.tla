---------------------------- MODULE MCExecutionRuns ----------------------------
(* Small instances of ExecutionRuns for TLC. *)
EXTENDS ExecutionRuns, TLC

\* Scopes, requests and tasks are interchangeable (safety runs only).
Interchangeable ==
  Permutations(Scopes) \cup Permutations(SyncRequests) \cup Permutations(Tasks)

=============================================================================
