----------------------- MODULE MCControllerCheckpoint -----------------------
(* Small instances of ControllerCheckpoint for TLC.                        *)
EXTENDS ControllerCheckpoint

CONSTANTS w1, w2

Item(wave, policy, eligible, authority, risky) ==
  [wave |-> wave, policy |-> policy, eligible |-> eligible,
   authority |-> authority, risky |-> risky]

\* One item of every kind that the policy tells apart.
Kinds(wave) ==
  {Item(wave, "auto", eligible, "main", FALSE) : eligible \in BOOLEAN}
  \cup {Item(wave, "explicit_request", FALSE, authority, risky) :
          authority \in {"main", "user"}, risky \in BOOLEAN}
  \cup {Item(wave, "blocked_until_input", FALSE, "user", FALSE)}

\* Queues of at most two waves with different names; the truth sync wave may
\* already be queued.
ShortQueues ==
  {<<>>} \cup {<<a>> : a \in Kinds(w1)}
  \cup {<<a, b>> : a \in Kinds(w1), b \in Kinds(w2) \cup {Item(SyncWave, "auto", TRUE, "main", FALSE)}}

RunnableCandidates ==
  [wave : {w2}, policy : {"auto", "explicit_request"}, safe : BOOLEAN]

=============================================================================
