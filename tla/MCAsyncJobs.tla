---------------------------- MODULE MCAsyncJobs -----------------------------
(* Small instances of AsyncJobs for TLC.                                   *)
EXTENDS AsyncJobs, TLC

\* Handlers of one kind are interchangeable; no liveness run uses it.
Symmetric == Permutations(Chats) \cup Permutations(Clients)

=============================================================================
