----------------------------- MODULE AsyncJobs ------------------------------
(***************************************************************************)
(* Background refreshes of one chat session: POST /chat creates, prepares  *)
(* and starts a job and records it in the session; polls of GET            *)
(* /jobs/{id} advance its bounded autonomy, refresh it and promote its     *)
(* result to the session; GET /lifecycle refreshes it; POST /cancel cancels*)
(* it.  Handlers run in threads that interleave between calls of the job   *)
(* store and of the session store.                                         *)
(*                                                                         *)
(* A job created by a chat request is named by that request; its token is  *)
(* in the chat's response, so nobody else addresses it before that.  A     *)
(* session row keeps last_response_id and last_job_id.                     *)
(***************************************************************************)
EXTENDS JobRows

CONSTANTS
  Chats,            \* POST /chat requests on the session
  Posts,            \* jobs created by POST /jobs
  Clients,          \* threads that serve GET /jobs/{id}, /lifecycle, /cancel
  AutonomyEnabled,  \* running_autonomy_enabled and the controller flags
  StepBudget,       \* running_autonomy_max_steps
  MaxFaults         \* bound on handlers that die half way

ASSUME JobsAssumption ==
  /\ AutonomyEnabled \in BOOLEAN
  /\ StepBudget \in Nat /\ MaxFaults \in Nat
  /\ Chats \cap Posts = {} /\ Chats \cap Clients = {} /\ Posts \cap Clients = {}
  /\ Null \notin Chats \cup Posts

Jobs == Chats \cup Posts

VARIABLES
  pc,        \* where each handler is
  row,       \* generation_jobs
  session,   \* the session's row in chat_sessions
  draft,     \* the SessionState each chat holds
  view,      \* what each client asked for, and the JobState it holds
  faults,    \* handlers that have died
  turn,      \* history: the chat answered last (Null: the session's first)
  newest,    \* history: the job created last by a chat
  told,      \* history: jobs a poll has reported as succeeded
  overtaken, \* history: chats in flight when another chat was answered
  executed,  \* history: autonomy steps run within budget, per job
  disturbed  \* history: jobs that two polls advanced at once, or of which a
             \* step ran and its index was not recorded

jobVars == <<row, executed, disturbed>>
history == <<turn, newest, told, overtaken>>
vars == <<pc, row, session, draft, view, faults, turn, newest, told, overtaken,
          executed, disturbed>>

\* Response ids: of the answer to a chat (the pending one of an asynchronous
\* chat) and of the result prepared for its job.
Answer(c) == [of |-> c, result |-> FALSE]
Result(j) == [of |-> j, result |-> TRUE]
FirstAnswer == [of |-> Null, result |-> FALSE]
ResponseIds == [of : Jobs \cup {Null}, result : BOOLEAN]
SessionRow == [last_response : ResponseIds, last_job : Jobs \cup {Null}]

\* What a handler holds before it begins and once it has answered.
NoDraft == [last_response |-> FirstAnswer, last_job |-> Null]
NoView == [what |-> "poll", job |-> Null, row |-> NoRow]

InFlight(c) == pc[c] \notin {"idle", "done", "dead"}

Quiet == \A c \in Chats : ~InFlight(c)

Goto(t, label) == pc' = [pc EXCEPT ![t] = label]

-----------------------------------------------------------------------------
\* The session has had one synchronous turn, so it exists and its id and token
\* are known to the client.
Init ==
  /\ pc = [t \in Chats \cup Clients |-> "idle"]
  /\ row = [j \in Jobs |-> NoRow]
  /\ session = [last_response |-> FirstAnswer, last_job |-> Null]
  /\ draft = [c \in Chats |-> NoDraft]
  /\ view = [p \in Clients |-> NoView]
  /\ faults = 0
  /\ turn = Null
  /\ newest = Null
  /\ told = {}
  /\ overtaken = {}
  /\ executed = [j \in Jobs |-> 0]
  /\ disturbed = {}

-----------------------------------------------------------------------------
(* POST /chat.                                                             *)

\* _session_state_for_request: the existing session is read; the prompt makes
\* the request a background refresh or not.  Nothing keeps two requests on one
\* session apart.
BeginChat(c) ==
  /\ pc[c] = "idle"
  /\ draft' = [draft EXCEPT ![c] = session]
  /\ \E label \in {"save_session", "save_pending_session"} : Goto(c, label)
  /\ UNCHANGED <<jobVars, session, view, faults, history>>

\* save_session(session): what was read goes back.
SaveSession(c) ==
  /\ pc[c] \in {"save_session", "save_pending_session"}
  /\ session' = draft[c]
  /\ Goto(c, IF pc[c] = "save_session" THEN "read_session" ELSE "create_job")
  /\ UNCHANGED <<jobVars, draft, view, faults, history>>

CreateJob(c) ==
  /\ pc[c] = "create_job"
  /\ row' = [row EXCEPT ![c] = CreatedRow]
  /\ newest' = c
  /\ Goto(c, "seed")
  /\ UNCHANGED <<executed, disturbed, session, draft, view, faults, turn, told,
                 overtaken>>

\* is_eligible_for_autonomy looks at the prompt; seed_autonomy_run writes the
\* checkpoint and yields step_index 0.
SeedAutonomy(c) ==
  /\ pc[c] = "seed"
  /\ \/ /\ AutonomyEnabled
        /\ row' = [row EXCEPT ![c] = SteppedRow(@, 0, FALSE)]
     \/ UNCHANGED row
  /\ Goto(c, "prepare_result")
  /\ UNCHANGED <<executed, disturbed, session, draft, view, faults, history>>

PrepareResult(c) ==
  /\ pc[c] = "prepare_result"
  /\ row' = [row EXCEPT ![c] = PreparedRow(@)]
  /\ Goto(c, "save_last_job")
  /\ UNCHANGED <<executed, disturbed, session, draft, view, faults, history>>

SaveLastJob(c) ==
  /\ pc[c] = "save_last_job"
  /\ draft' = [draft EXCEPT ![c].last_job = c]
  /\ session' = draft'[c]
  /\ Goto(c, "bind_pending_response")
  /\ UNCHANGED <<jobVars, view, faults, history>>

BindPendingResponse(c) ==
  /\ pc[c] = "bind_pending_response"
  /\ row' = [row EXCEPT ![c] = BoundRow(@)]
  /\ Goto(c, "start_job")
  /\ UNCHANGED <<executed, disturbed, session, draft, view, faults, history>>

\* start_job; nobody else can address the job yet, so its read and its UPDATE
\* are one step here.
StartJob(c) ==
  /\ pc[c] = "start_job"
  /\ row' = [row EXCEPT ![c] = IF ValidTransition(@.status, "running")
                               THEN StartedRow(@) ELSE @]
  /\ Goto(c, "read_session")
  /\ UNCHANGED <<executed, disturbed, session, draft, view, faults, history>>

\* finalized_session: the session is read again, the response id is replaced,
\* and the job id too when there is a job.
\* Mutants: the job id is taken from the row read again even when the request
\* has a job of its own; the response id is only replaced when it has one.
ReadSessionKeepsJob(c) ==
  /\ pc[c] = "read_session"
  /\ draft' = [draft EXCEPT ![c] = [session EXCEPT !.last_response = Answer(c)]]
  /\ Goto(c, "save_final_session")
  /\ UNCHANGED <<jobVars, session, view, faults, history>>

ReadSessionKeepsResponse(c) ==
  /\ pc[c] = "read_session"
  /\ draft' = [draft EXCEPT ![c] =
       IF row[c].status = "absent" THEN session
       ELSE [last_response |-> Answer(c), last_job |-> c]]
  /\ Goto(c, "save_final_session")
  /\ UNCHANGED <<jobVars, session, view, faults, history>>

ReadSession(c) ==
  /\ pc[c] = "read_session"
  /\ draft' = [draft EXCEPT ![c] =
       [last_response |-> Answer(c),
        last_job |-> IF row[c].status = "absent" THEN session.last_job ELSE c]]
  /\ Goto(c, "save_final_session")
  /\ UNCHANGED <<jobVars, session, view, faults, history>>

SaveFinalSession(c) ==
  /\ pc[c] = "save_final_session"
  /\ session' = draft[c]
  /\ draft' = [draft EXCEPT ![c] = NoDraft]
  /\ turn' = c
  /\ overtaken' = overtaken \cup {d \in Chats \ {c} : InFlight(d)}
  /\ Goto(c, "done")
  /\ UNCHANGED <<jobVars, view, faults, newest, told>>

ChatStep(c) ==
  \/ SaveSession(c) \/ CreateJob(c) \/ SeedAutonomy(c) \/ PrepareResult(c)
  \/ SaveLastJob(c) \/ BindPendingResponse(c) \/ StartJob(c)
  \/ ReadSession(c) \/ SaveFinalSession(c)

-----------------------------------------------------------------------------
(* POST /jobs.                                                             *)

PostJob(j) ==
  /\ row[j].status = "absent"
  /\ row' = [row EXCEPT ![j] = CreatedRow]
  /\ UNCHANGED <<pc, executed, disturbed, session, draft, view, faults, history>>

-----------------------------------------------------------------------------
(* The routes of one job.                                                  *)

\* The job's token has reached a client.
Known(j) == row[j].status # "absent" /\ (j \in Chats => pc[j] = "done")

Held(p) == view[p].row
Asked(p) == view[p].job

Look(p) == view' = [view EXCEPT ![p].row = row[Asked(p)]]

Return(p) == Goto(p, "idle") /\ view' = [view EXCEPT ![p] = NoView]

\* get_job_by_poll_token, and what the route does with the row it got.
Autonomous(held) ==
  AutonomyEnabled /\ held.status \in Transient /\ held.step # Null

\* Clients between their look at the metadata and the update that is made of it.
Advancing == {"advance", "record_step", "record_failure"}

Poll(p, j) ==
  /\ pc[p] = "idle" /\ Known(j)
  /\ view' = [view EXCEPT ![p] = [what |-> "poll", job |-> j, row |-> row[j]]]
  /\ Goto(p, IF Autonomous(row[j]) THEN "advance" ELSE "refresh")
  /\ disturbed' = IF /\ Autonomous(row[j])
                     /\ \E q \in Clients : pc[q] \in Advancing /\ Asked(q) = j
                  THEN disturbed \cup {j} ELSE disturbed
  /\ UNCHANGED <<row, executed, session, draft, faults, history>>

AskLifecycle(p, j) ==
  /\ pc[p] = "idle" /\ Known(j)
  /\ view' = [view EXCEPT ![p] = [what |-> "lifecycle", job |-> j,
                                  row |-> row[j]]]
  /\ Goto(p, "refresh")
  /\ UNCHANGED <<jobVars, session, draft, faults, history>>

\* A job that is over is refused with 409.
AskCancel(p, j) ==
  /\ pc[p] = "idle" /\ Known(j) /\ row[j].status \in Transient
  /\ view' = [view EXCEPT ![p] = [what |-> "cancel", job |-> j,
                                  row |-> row[j]]]
  /\ Goto(p, "cancel")
  /\ UNCHANGED <<jobVars, session, draft, faults, history>>

\* advance_step on the metadata held: within the budget a step runs and ends the
\* run, past it the run has failed.  Mutant: the last step is counted one too
\* late.
AdvanceStepLate(p) ==
  /\ pc[p] = "advance"
  /\ \/ /\ Held(p).step <= StepBudget
        /\ executed' = [executed EXCEPT ![Asked(p)] = @ + 1]
        /\ Goto(p, "record_step")
     \/ /\ Held(p).step > StepBudget
        /\ Goto(p, "record_failure") /\ UNCHANGED executed
  /\ UNCHANGED <<row, disturbed, session, draft, view, faults, history>>

AdvanceStep(p) ==
  /\ pc[p] = "advance"
  /\ \/ /\ Held(p).step < StepBudget
        /\ executed' = [executed EXCEPT ![Asked(p)] = @ + 1]
        /\ Goto(p, "record_step")
     \/ /\ Held(p).step >= StepBudget
        /\ Goto(p, "record_failure") /\ UNCHANGED executed
  /\ UNCHANGED <<row, disturbed, session, draft, view, faults, history>>

\* The checkpoint file is gone or unreadable: the step fails the run.
AdvanceWithoutCheckpoint(p) ==
  /\ pc[p] = "advance"
  /\ Held(p).step < StepBudget
  /\ faults < MaxFaults
  /\ faults' = faults + 1
  /\ Goto(p, "record_failure")
  /\ UNCHANGED <<jobVars, session, draft, view, history>>

\* update_autonomy_metadata writes all of the metadata, counted on from what the
\* poll read; the next refresh completes a run that has ended well.
RecordStep(p) ==
  /\ pc[p] \in {"record_step", "record_failure"}
  /\ row' = [row EXCEPT ![Asked(p)] =
               SteppedRow(@, Held(p).step + 1, pc[p] = "record_step")]
  /\ Goto(p, IF pc[p] = "record_step" THEN "refresh" ELSE "fail")
  /\ UNCHANGED <<executed, disturbed, session, draft, view, faults, history>>

\* A handler that stops at its label leaves a step that ran unrecorded.
Disturb(p) ==
  disturbed' = IF pc[p] = "record_step" THEN disturbed \cup {Asked(p)}
                                        ELSE disturbed

\* Whatever raises, in the step, in the update that records it or in fail_job, is
\* logged, and the poll goes on with the job as it is.
StepRaises(p) ==
  /\ pc[p] \in Advancing \cup {"fail", "write_failed"}
  /\ faults < MaxFaults
  /\ faults' = faults + 1
  /\ Disturb(p)
  /\ Goto(p, "refresh")
  /\ UNCHANGED <<row, executed, session, draft, view, history>>

\* fail_job and cancel_job: read the row, check the transition, then UPDATE.
CheckFail(p) ==
  /\ pc[p] = "fail"
  /\ Look(p)
  /\ Goto(p, IF ValidTransition(row[Asked(p)].status, "failed")
             THEN "write_failed" ELSE "refresh")
  /\ UNCHANGED <<jobVars, session, draft, faults, history>>

WriteFailed(p) ==
  /\ pc[p] = "write_failed"
  /\ row' = [row EXCEPT ![Asked(p)] = FailedRow(@)]
  /\ Goto(p, "refresh")
  /\ UNCHANGED <<executed, disturbed, session, draft, view, faults, history>>

CheckCancel(p) ==
  /\ pc[p] = "cancel"
  /\ IF ValidTransition(row[Asked(p)].status, "cancelled")
     THEN Look(p) /\ Goto(p, "write_cancelled")
     ELSE Return(p)
  /\ UNCHANGED <<jobVars, session, draft, faults, history>>

WriteCancelled(p) ==
  /\ pc[p] = "write_cancelled"
  /\ row' = [row EXCEPT ![Asked(p)] = CancelledRow(@)]
  /\ Return(p)
  /\ UNCHANGED <<executed, disturbed, session, draft, faults, history>>

\* refresh_job: a first look without the lock; then, for a running job whose
\* result is prepared, the countdown or the completion under it.
Refresh(p) ==
  /\ pc[p] = "refresh"
  /\ Look(p)
  /\ Goto(p, IF row[Asked(p)].status = "running" THEN "refresh_locked"
                                                 ELSE "respond")
  /\ UNCHANGED <<jobVars, session, draft, faults, history>>

RefreshLocked(p) ==
  LET current == row[Asked(p)]
      fresh == RefreshedRow(current)
  IN /\ pc[p] = "refresh_locked"
     /\ IF ~current.prepared
        THEN /\ Goto(p, "respond")
             /\ UNCHANGED <<row, view>>
        ELSE /\ row' = [row EXCEPT ![Asked(p)] = fresh]
             /\ IF Counted(current) > 0
                THEN Goto(p, "reread") /\ UNCHANGED view
                ELSE /\ Goto(p, "respond")
                     /\ view' = [view EXCEPT ![p].row = fresh]
     /\ UNCHANGED <<executed, disturbed, session, draft, faults, history>>

Reread(p) ==
  /\ pc[p] = "reread"
  /\ Look(p)
  /\ Goto(p, "respond")
  /\ UNCHANGED <<jobVars, session, draft, faults, history>>

\* The end of a poll: promote_job_completion replaces the pending response of
\* the session by the result, if it is still the last one, and the poll
\* answers.  The lifecycle route promotes nothing.
\* Mutant: it promotes whatever the session shows.
PromotedAnyway(p) ==
  IF Held(p).completed /\ Held(p).pending
  THEN [last_response |-> Result(Asked(p)), last_job |-> Asked(p)]
  ELSE session

Promoted(p) ==
  LET j == Asked(p)
  IN IF /\ Held(p).completed /\ Held(p).pending
        /\ session.last_response = Answer(j)
     THEN [last_response |-> Result(j), last_job |-> j]
     ELSE session

Respond(p) ==
  /\ pc[p] = "respond"
  /\ \/ /\ view[p].what = "poll"
        /\ session' = Promoted(p)
        /\ told' = IF Held(p).status = "succeeded" THEN told \cup {Asked(p)}
                                                   ELSE told
     \/ /\ view[p].what = "lifecycle"
        /\ UNCHANGED <<session, told>>
  /\ Return(p)
  /\ UNCHANGED <<jobVars, draft, faults, turn, newest, overtaken>>

ClientStep(p) ==
  \/ AdvanceStep(p) \/ AdvanceWithoutCheckpoint(p) \/ RecordStep(p)
  \/ StepRaises(p) \/ CheckFail(p) \/ WriteFailed(p)
  \/ CheckCancel(p) \/ WriteCancelled(p)
  \/ Refresh(p) \/ RefreshLocked(p) \/ Reread(p) \/ Respond(p)

-----------------------------------------------------------------------------
(* A handler dies half way: an exception that nobody catches, or a restart.*)

ChatDies(c) ==
  /\ InFlight(c) /\ faults < MaxFaults
  /\ faults' = faults + 1
  /\ draft' = [draft EXCEPT ![c] = NoDraft]
  /\ Goto(c, "dead")
  /\ UNCHANGED <<jobVars, session, view, history>>

ClientDies(p) ==
  /\ pc[p] # "idle" /\ faults < MaxFaults
  /\ faults' = faults + 1
  /\ Disturb(p)
  /\ Return(p)
  /\ UNCHANGED <<row, executed, session, draft, history>>

Resting ==
  /\ Quiet /\ \A p \in Clients : pc[p] = "idle"
  /\ UNCHANGED vars

Next ==
  \/ \E c \in Chats : BeginChat(c) \/ ChatStep(c) \/ ChatDies(c)
  \/ \E j \in Posts : PostJob(j)
  \/ \E p \in Clients :
       \/ \E j \in Jobs : Poll(p, j) \/ AskLifecycle(p, j) \/ AskCancel(p, j)
       \/ ClientStep(p) \/ ClientDies(p)
  \/ Resting

\* A handler that has begun goes on.
Spec ==
  /\ Init /\ [][Next]_vars
  /\ \A c \in Chats : WF_vars(ChatStep(c))
  /\ \A p \in Clients : WF_vars(ClientStep(p))

\* The shell polls the job of the turn it shows, and the caller of POST /jobs
\* the job it created, until a poll tells that the job succeeded.
Polled(j) == j \notin told /\ (j \in Posts \/ turn = j)

PollingSpec ==
  /\ Spec
  /\ \A j \in Jobs : SF_vars(Polled(j) /\ \E p \in Clients : Poll(p, j))

-----------------------------------------------------------------------------
(* Properties.                                                             *)

Labels ==
  {"idle", "done", "dead", "save_session", "save_pending_session",
   "create_job", "seed", "prepare_result", "save_last_job",
   "bind_pending_response", "start_job", "read_session",
   "save_final_session", "advance", "record_step", "record_failure", "fail",
   "write_failed", "cancel", "write_cancelled", "refresh", "refresh_locked",
   "reread", "respond"}

Views == [what : {"poll", "lifecycle", "cancel"}, job : Jobs \cup {Null},
          row : JobRow]

\* Every variable keeps its type; a refresh countdown never leaves its range,
\* whichever refreshes, steps and cancellations it races with.
TypeOK ==
  /\ pc \in [Chats \cup Clients -> Labels]
  /\ row \in [Jobs -> JobRow]
  /\ session \in SessionRow
  /\ draft \in [Chats -> SessionRow]
  /\ view \in [Clients -> Views]
  /\ faults \in 0..MaxFaults
  /\ turn \in Chats \cup {Null}
  /\ newest \in Chats \cup {Null}
  /\ told \subseteq Jobs
  /\ overtaken \subseteq Chats
  /\ executed \in [Jobs -> Nat]
  /\ disturbed \subseteq Jobs

\* A job that has failed or has been cancelled never succeeds and never runs
\* again, although refreshes look at the job before they take the lock.
NoResurrection ==
  [][\A j \in Jobs : row[j].status \in {"failed", "cancelled"}
                       => row'[j].status \in {"failed", "cancelled"}]_vars

\* The session's last response is the answer to the last turn, or the result that
\* replaced that very answer: no poll and no request that wrote the session back
\* has left an older one there, however many turns overlap and handlers die.
\* Only a turn that another one overtook may have put an older one there, until
\* it is answered itself.
SessionTracksLatestTurn ==
  (\A c \in overtaken : pc[c] = "done")
    => session.last_response \in {Answer(turn), Result(turn)}

\* Promotion "prevents stale completions from overwriting newer conversation
\* state" (docs/api/async-jobs.md): a poll changes the session only for the
\* job of the turn that was answered last.
PromotionIsNotStale ==
  [][\A p \in Clients :
       pc[p] = "respond" /\ pc'[p] = "idle" /\ session' # session
       => turn = Asked(p)]_vars

\* ... which the code keeps as long as no turn that another one overtook is still
\* to be answered: such a turn has written the session back as it read it, and
\* the older answer it put there may be promoted.
StaleOnlyIfOvertaken ==
  [][\A p \in Clients :
       pc[p] = "respond" /\ pc'[p] = "idle" /\ session' # session
       => turn = Asked(p) \/ \E c \in overtaken : pc[c] # "done"]_vars

NobodyDied == \A c \in Chats : pc[c] # "dead"

\* "last_job_id in session state tracks most recent job": as long as turns have
\* not overlapped and none has died, it is between turns the job that a chat
\* created last, whatever was promoted during the turn.
LastJobIsNewest ==
  Quiet /\ NobodyDied /\ overtaken = {} => session.last_job = newest

\* Once a poll has told the client that a job succeeded, the session does not go
\* on showing the answer that the result replaces, although turns in flight may
\* have read that answer before and written it back: their own answers have
\* replaced it when all are done.
AnsweredIsPromoted ==
  Quiet /\ NobodyDied
    => \A j \in told \cap Chats : session.last_response # Answer(j)

\* Autonomy is "hard-bounded by step count" (autonomy/service.py): a job runs
\* no more steps within its budget than the budget has, however polls overlap and
\* whatever raises, unless two polls advanced it at once or a step that had run
\* was not recorded.
StepsWithinBudget == \A j \in Jobs \ disturbed : executed[j] <= StepBudget

\* "Transitions are enforced by InMemoryJobStore": a terminal status stays.
TerminalIsFinal ==
  [][\A j \in Jobs : row[j].status \in Terminal
                       => row'[j].status = row[j].status]_vars

\* The job of the turn that the shell shows reaches a terminal status, and if it
\* succeeds its result reaches the session, unless another turn is answered.
ResultReachesSession ==
  \A c \in Chats :
    turn = c /\ row[c].status = "running"
    ~> \/ turn # c
       \/ row[c].status \in {"failed", "cancelled"}
       \/ session.last_response = Result(c)

=============================================================================
