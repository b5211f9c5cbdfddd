---------------------------- MODULE QueuePolicy -----------------------------
(***************************************************************************)
(* The decisions of the controller (controller/policy.py, precedence.py):  *)
(* which wave of the queue runs next, and where a stage goes.  They are    *)
(* pure functions of their arguments.  A queue item keeps what a decision  *)
(* reads; risky stands for the nine flags any one of which takes the       *)
(* approval away from Main, safe for the seven a candidate must all pass.  *)
(***************************************************************************)
EXTENDS Naturals, Sequences

CONSTANTS
  Waves,       \* names of waves
  SyncWave,    \* "Control Plane Truth Sync"
  DocsWave,    \* the one wave SAFE_STAGE_SUCCESSORS names
  Null         \* Python's None

ASSUME WavesAssumption ==
  /\ {SyncWave, DocsWave} \subseteq Waves
  /\ SyncWave # DocsWave
  /\ Null \notin Waves

RunPolicies == {"auto", "explicit_request", "blocked_until_input"}
QueueItem == [wave : Waves, policy : RunPolicies, eligible : BOOLEAN,
              authority : {"main", "user"}, risky : BOOLEAN]
StageCandidate == [wave : Waves, policy : RunPolicies, safe : BOOLEAN]

\* TerminalState, and the action that resume gives back for each.
ActionOf == [DONE |-> "done", BLOCKED |-> "blocked", ABORTED |-> "aborted",
             WAITING_USER_APPROVAL |-> "waiting_user_approval"]
TerminalStates == DOMAIN ActionOf
QueueActions == {"continue"} \cup {ActionOf[s] : s \in TerminalStates}

\* None is none of these.
ASSUME NoneAssumption ==
  Null \notin QueueItem /\ Null \notin TerminalStates /\ Null \notin QueueActions

-----------------------------------------------------------------------------
(* The queue: next_terminal_or_runnable_state.                             *)

\* The first item of the queue at one of these places, or Null.
FirstItem(items, passing) ==
  IF passing = {} THEN Null ELSE items[CHOOSE i \in passing : \A j \in passing : i <= j]

AutoEligible(item) == item.policy = "auto" /\ item.eligible
ExplicitRequest(item) == item.policy = "explicit_request"
SelfApprovable(item) == ExplicitRequest(item) /\ item.authority = "main" /\ ~item.risky

Instantiable(candidate) == candidate # Null /\ candidate.safe

\* What the decision puts in place of the item or candidate it activates.
SelfApproved(item) == [item EXCEPT !.eligible = TRUE]
Instantiated(candidate) ==
  [wave |-> candidate.wave, policy |-> candidate.policy, eligible |-> TRUE,
   authority |-> "main", risky |-> FALSE]

Stop(state, wave) == [action |-> ActionOf[state], terminal |-> state,
                      wave |-> wave, instantiated |-> Null]
Continue(wave, instantiated) == [action |-> "continue", terminal |-> Null,
                                 wave |-> wave, instantiated |-> instantiated]

\* The order of the tests is the policy.
NextTerminalOrRunnableState(items, blocker, candidate, abort) ==
  LET auto == FirstItem(items, {i \in DOMAIN items : AutoEligible(items[i])})
      own == FirstItem(items, {i \in DOMAIN items : SelfApprovable(items[i])})
      asked == FirstItem(items, {i \in DOMAIN items : ExplicitRequest(items[i])})
  IN  IF abort THEN Stop("ABORTED", Null)
      ELSE IF blocker THEN Stop("BLOCKED", Null)
      ELSE IF auto # Null THEN Continue(auto.wave, Null)
      ELSE IF own # Null THEN Continue(own.wave, SelfApproved(own))
      ELSE IF Instantiable(candidate)
           THEN Continue(candidate.wave, Instantiated(candidate))
      ELSE IF asked # Null THEN Stop("WAITING_USER_APPROVAL", asked.wave)
      ELSE Stop("DONE", Null)

\* derive_next_stage_candidate: truth is "absent", "aligned" or "misaligned",
\* as control_plane_truth_aligned finds the four surfaces; tightening says
\* whether the wave that closed is "Decision Tightening".
SafeStage(wave) == [wave |-> wave, policy |-> "auto", safe |-> TRUE]
DeriveNextStageCandidate(tightening, items, truth) ==
  LET wave == IF truth = "misaligned" THEN SyncWave
              ELSE IF tightening THEN DocsWave
              ELSE Null
      queued == \E i \in DOMAIN items : items[i].wave = wave
  IN  IF wave = Null \/ queued THEN Null ELSE SafeStage(wave)

-----------------------------------------------------------------------------
(* A stage: resolve_controller_action.                                     *)

Signals == [unsafe : BOOLEAN, review : {"none", "approve", "changes_requested", "blocked"},
            validator : {"unknown", "pass", "fail"}, concrete : BOOLEAN]
RouteActions == {"continue", "review", "repair", "abort"}

\* triage_abort_requested chooses between two reasons for "review" only.
ResolveControllerAction(s) ==
  IF s.unsafe THEN "abort"
  ELSE IF ~s.concrete /\ (s.review = "approve" \/ s.validator = "pass") THEN "continue"
  ELSE IF s.review = "changes_requested" \/ s.validator = "fail" \/ s.concrete THEN "repair"
  ELSE "review"

=============================================================================
