------------------------ MODULE ControllerCheckpoint ------------------------
(***************************************************************************)
(* The checkpoint of one controller session (controller/runtime.py), a JSON*)
(* file that record_stage_transition, prepare_compaction and finalize_queue*)
(* read, change in memory and write back in place: the file is emptied when*)
(* it is opened and holds nothing that can be parsed until the text is     *)
(* written.  The process may die between any two steps.  resume only reads,*)
(* so it is the operator ResumeAction of the file and not an action.       *)
(***************************************************************************)
EXTENDS QueuePolicy

CONSTANTS
  Missing,             \* no file
  Torn,                \* a file that was opened and has nothing readable in it
  PrecedenceEnabled,   \* MERIDIAN_CONTROLLER_PRECEDENCE_ENABLED
  Queues,              \* the queues finalize_queue is called with
  Candidates,          \* the stage candidates it is given
  MaxCompactions       \* bound on compaction_sequence

ASSUME ControllerAssumption ==
  /\ PrecedenceEnabled \in BOOLEAN
  /\ Queues \subseteq Seq(QueueItem)
  /\ Candidates \subseteq StageCandidate
  /\ MaxCompactions \in Nat
  /\ Null \notin StageCandidate

VARIABLES
  file,   \* Missing, Torn or a checkpoint
  pc,     \* the running operation: "idle", "built", "opened"
  draft,  \* the checkpoint it is about to write, and the operation's name
  \* History, for the properties only.
  told,   \* the action of the last queue decision written, Null once a stage
          \* transition or a crash came after it
  torn,   \* the last content was lost in a crash, nothing was decided since
  held,   \* the last queue decision waits for the user, and no stage
          \* transition said "continue" since
  compacted  \* compactions written since the file was last created or torn

vars == <<file, pc, draft, told, torn, held, compacted>>
history == <<told, torn, held, compacted>>

\* QueueState: an item without its flags.
QueueState == [wave : Waves, policy : RunPolicies, eligible : BOOLEAN,
               authority : {"main", "user"}]
Checkpoint == [route : RouteActions, terminal : TerminalStates \cup {Null},
               queue : QueueState \cup {Null}, sequence : Nat]

ASSUME FileAssumption ==
  /\ Missing \notin Checkpoint /\ Torn \notin Checkpoint /\ Missing # Torn
  /\ Null \notin QueueState

NoDraft == [kind |-> "none", next |-> Null, action |-> Null]
Draft == [kind : {"transition", "compaction", "finalize"}, next : Checkpoint,
          action : QueueActions \cup {Null}]

-----------------------------------------------------------------------------
(* Reading.                                                                *)

\* load_checkpoint: a missing or unreadable file yields no checkpoint and the
\* decision "review".
Readable == file \notin {Missing, Torn}
\* Mutant: without a checkpoint the session goes on.
LastDecisionOptimistic == IF Readable THEN file.route ELSE "continue"
LastDecision == IF Readable THEN file.route ELSE "review"

\* The item that resume builds: the flags are not in the snapshot and default
\* to FALSE.
AsItem(queue) == [wave |-> queue.wave, policy |-> queue.policy,
                  eligible |-> queue.eligible, authority |-> queue.authority,
                  risky |-> FALSE]

\* resume: what the session is told to do next.
ResumeAction ==
  IF ~Readable THEN "review"
  ELSE IF file.terminal # Null THEN ActionOf[file.terminal]
  ELSE IF file.queue # Null
       THEN NextTerminalOrRunnableState(<<AsItem(file.queue)>>, FALSE, Null, FALSE).action
  ELSE file.route

-----------------------------------------------------------------------------
(* The three operations, up to the checkpoint they are about to write.     *)

Start ==
  /\ pc = "idle"
  /\ pc' = "built"
  /\ UNCHANGED <<file, history>>

\* route_decision
RouteDecision(signals, legacy) ==
  IF PrecedenceEnabled THEN ResolveControllerAction(signals) ELSE legacy

\* Mutants: a transition starts a new compaction record; the terminal state is
\* the action itself.
TransitionedAnew(route) ==
  [route |-> route, terminal |-> IF route = "abort" THEN "ABORTED" ELSE Null,
   queue |-> IF Readable THEN file.queue ELSE Null, sequence |-> 0]
TransitionedToAction(route) ==
  [route |-> route, terminal |-> IF route = "abort" THEN route ELSE Null,
   queue |-> IF Readable THEN file.queue ELSE Null,
   sequence |-> IF Readable THEN file.sequence ELSE 0]
Transitioned(route) ==
  [route |-> route, terminal |-> IF route = "abort" THEN "ABORTED" ELSE Null,
   queue |-> IF Readable THEN file.queue ELSE Null,
   sequence |-> IF Readable THEN file.sequence ELSE 0]

RecordStageTransition(signals, legacy) ==
  /\ Start
  /\ draft' = [kind |-> "transition", action |-> Null,
               next |-> Transitioned(RouteDecision(signals, legacy))]

\* Mutant: compaction carries the decision over and forgets the queue.
CompactedDecisionOnly ==
  [route |-> LastDecision, terminal |-> Null, queue |-> Null,
   sequence |-> IF Readable THEN file.sequence + 1 ELSE 1]
Compacted ==
  IF Readable THEN [file EXCEPT !.sequence = @ + 1]
  ELSE [route |-> LastDecision, terminal |-> Null, queue |-> Null, sequence |-> 1]

PrepareCompaction ==
  /\ Readable => file.sequence < MaxCompactions
  /\ Start
  /\ draft' = [kind |-> "compaction", action |-> Null, next |-> Compacted]

\* _queue_snapshot_for_decision: the instantiated wave, else the first item
\* with the name that the decision gives.
Snapshot(items, decision) ==
  LET named == {i \in DOMAIN items : items[i].wave = decision.wave}
      chosen == IF decision.instantiated # Null THEN decision.instantiated
                ELSE FirstItem(items, named)
  IN  IF chosen = Null THEN Null
      ELSE [wave |-> chosen.wave, policy |-> chosen.policy,
            eligible |-> chosen.eligible, authority |-> chosen.authority]

\* finalize_queue for a session: a candidate is derived only when none was
\* given and the control plane's truth was.  Without a readable checkpoint the
\* decision is returned and nothing is written.
Candidate(given, tightening, items, truth) ==
  IF given = Null /\ truth # "absent"
  THEN DeriveNextStageCandidate(tightening, items, truth)
  ELSE given

FinalizeQueue(items, blocker, given, abort, tightening, truth) ==
  LET decision == NextTerminalOrRunnableState(items, blocker,
                    Candidate(given, tightening, items, truth), abort)
  IN  /\ Readable
      /\ Start
      /\ draft' = [kind |-> "finalize", action |-> decision.action,
                   next |-> [file EXCEPT !.queue = Snapshot(items, decision),
                                         !.terminal = decision.terminal]]

-----------------------------------------------------------------------------
(* _write_checkpoint, and the process that dies.                           *)

\* write_text opens the file, which empties it ...
OpenFile ==
  /\ pc = "built"
  /\ pc' = "opened"
  /\ file' = Torn
  /\ UNCHANGED <<draft, history>>

\* ... and writes it.
WriteFile ==
  /\ pc = "opened"
  /\ pc' = "idle"
  /\ file' = draft.next
  /\ draft' = NoDraft
  /\ told' = CASE draft.kind = "finalize" -> draft.action
               [] draft.kind = "transition" -> Null
               [] OTHER -> told
  /\ torn' = (torn /\ draft.kind = "compaction")
  /\ held' = CASE draft.kind = "finalize" -> draft.action = "waiting_user_approval"
               [] draft.kind = "transition" -> held /\ draft.next.route # "continue"
               [] OTHER -> held
  /\ compacted' = IF draft.kind = "compaction" THEN compacted + 1 ELSE compacted

\* A file that was opened stays empty; one that was not is as it was.
Crash ==
  /\ pc # "idle"
  /\ pc' = "idle"
  /\ draft' = NoDraft
  /\ IF pc = "opened"
     THEN /\ torn' = TRUE /\ told' = Null /\ held' = FALSE /\ compacted' = 0
     ELSE UNCHANGED history
  /\ UNCHANGED file

-----------------------------------------------------------------------------

Init ==
  /\ file = Missing
  /\ pc = "idle"
  /\ draft = NoDraft
  /\ told = Null
  /\ torn = FALSE
  /\ held = FALSE
  /\ compacted = 0

Finalize ==
  \E items \in Queues, given \in Candidates \cup {Null}, blocker, abort, tightening \in BOOLEAN,
     truth \in {"absent", "aligned", "misaligned"} :
       FinalizeQueue(items, blocker, given, abort, tightening, truth)

Next ==
  \/ \E signals \in Signals, legacy \in RouteActions : RecordStageTransition(signals, legacy)
  \/ PrepareCompaction
  \/ Finalize
  \/ OpenFile
  \/ WriteFile
  \/ Crash

Spec == Init /\ [][Next]_vars

-----------------------------------------------------------------------------

TypeOK ==
  /\ file \in {Missing, Torn} \cup Checkpoint
  /\ pc \in {"idle", "built", "opened"}
  /\ draft \in {NoDraft} \cup Draft
  /\ told \in QueueActions \cup {Null}
  /\ torn \in BOOLEAN /\ held \in BOOLEAN
  /\ compacted \in Nat

\* A session that is resumed after finalize_queue is told what finalize_queue
\* decided, however many compactions came in between: the snapshot of one item
\* without its flags still leads to the decision that the whole queue led to.
FinalizedIsResumed ==
  (pc # "opened" /\ told # Null) => ResumeAction = told

\* A crash in the middle of a write never lets the session run on: until a
\* stage or a queue is decided again, and through any compaction, resume
\* answers "review".
TornMeansReview == torn => ResumeAction = "review"

\* The sequence number in the file counts the compactions since the file was
\* created or lost: transitions and queue decisions carry it over.
SequenceCountsCompactions ==
  (pc # "opened" /\ Readable) => file.sequence = compacted

\* A wave that finalize_queue held for the user is not continued by a resume
\* before a stage transition said "continue" or the queue was decided again.
HeldWaveNeedsApproval == held => ResumeAction # "continue"

=============================================================================
