----------------------------- MODULE ChatShell ------------------------------
(***************************************************************************)
(* The chat shell in the browser (App.jsx, chat-state.js, job-polling.js), *)
(* one page from its load on, and the part of the back end that it talks   *)
(* to: the handler of each turn, the resource that its session is bound to *)
(* and the job row that it may leave behind, as in JobRows.  Answers may be*)
(* lost, of the turns and of the polls; a lost answer does not stop the    *)
(* handler that was to give it.                                            *)
(*                                                                         *)
(* A turn is also the name of its job, of its message and of the session it*)
(* creates if it is sent without one.  An action of the shell is a callback*)
(* up to its last setState, with the rendering and effects that follow.    *)
(***************************************************************************)
EXTENDS JobRows

CONSTANTS
  Resources,  \* what the user may have on the screen
  MaxTurns,   \* bound on the prompts that are submitted
  Absent,     \* of a session that was not saved yet
  MaxLost     \* bound on lost or refused answers and handlers that raise

ASSUME ShellAssumption ==
  /\ MaxTurns \in Nat
  /\ MaxLost \in Nat
  /\ Null \notin Resources /\ Absent \notin Resources \cup {Null}

Turns == 1..MaxTurns

VARIABLES
  sessionState,  \* "idle", "loading", "ready", "error"
  activeJob,     \* activeJobId: a turn or Null
  messages,      \* what the transcript shows for each turn
  asking,        \* the turn whose POST /chat is awaited, or Null
  sessionId,     \* the turn that created the session, or Null
  activeResource,\* what the last answer was about
  poll,          \* the effect: its phase, the delay of its timer, its failures
  handler,       \* the handler of each turn
  draft,         \* the session, resource and staleness that it works with
  bound,         \* active_resource of each session; Absent before it is saved
  row,           \* its row in generation_jobs
  lost,          \* answers lost so far
  failed,        \* history: turns that ended in an error shown
  givenUp,       \* history: turns whose job ended in an error shown
  streak         \* history: polls lost since the last one that was answered,
                 \* a final 4xx counting for four

shell == <<sessionState, activeJob, messages, asking, sessionId, activeResource>>
backEnd == <<handler, draft, bound, row>>
history == <<failed, givenUp, streak>>
vars == <<shell, poll, backEnd, lost, history>>

-----------------------------------------------------------------------------
(* job-polling.js.  A unit of delay is 400 ms.                             *)

INITIAL_JOB_POLL_DELAY == 3
MAX_JOB_POLL_DELAY == 10
MAX_JOB_POLL_FAILURES == 4

AtMost(delay) == IF delay > MAX_JOB_POLL_DELAY THEN MAX_JOB_POLL_DELAY ELSE delay

\* Mutant: the delay is not capped.
RunningPollDelayUncapped(delay) == delay + 1
nextRunningJobPollDelay(delay) == AtMost(delay + 1)
FailedPollDelay(delay) == AtMost(2 * delay)

\* getJobPollResultAction; "pending" is not a status it knows.
ResultAction(status, hasResult) ==
  CASE status \in {"queued", "running"} -> "retry"
    [] status = "succeeded" /\ hasResult -> "complete"
    [] OTHER -> "fail"

\* getJobPollFailureAction, given the failures before; client says whether the
\* answer was a 4xx other than 408 and 429.
FailureAction(client, failures) ==
  IF client \/ failures + 1 >= MAX_JOB_POLL_FAILURES THEN "fail" ELSE "retry"

-----------------------------------------------------------------------------
(* The poll effect.  Its clean-up cancels a timer, and an answer that comes*)
(* later is dropped, so it is a function of the active job.                *)

Phases == {"off", "timer", "asked"} \cup Transient \cup Terminal
Off == [phase |-> "off", delay |-> INITIAL_JOB_POLL_DELAY, failures |-> 0]
Schedule(delay, failures) == [phase |-> "timer", delay |-> delay, failures |-> failures]
StartPolling == Schedule(INITIAL_JOB_POLL_DELAY, 0)

\* chat-state.js.
\* Mutant: the job stays the active one.
replacePendingJobResponseOnly ==
  /\ sessionState' = "ready"
  /\ messages' = [messages EXCEPT ![activeJob] = "result"]
  /\ poll' = Off
  /\ UNCHANGED activeJob
replacePendingJobResponse ==
  /\ sessionState' = "ready"
  /\ messages' = [messages EXCEPT ![activeJob] = "result"]
  /\ activeJob' = Null
  /\ poll' = Off

markJobError ==
  /\ sessionState' = "error"
  /\ activeJob' = Null
  /\ poll' = Off
  /\ givenUp' = givenUp \cup {activeJob}
  /\ UNCHANGED messages

\* The timer is over: getJob.
AskForJob ==
  /\ poll.phase = "timer"
  /\ poll' = [poll EXCEPT !.phase = "asked"]
  /\ UNCHANGED <<shell, backEnd, lost, history>>

\* GET /jobs/{id} in the back end: bounded autonomy may fail the job, then it
\* is refreshed, and the answer has the status it has then.
ServePoll ==
  /\ poll.phase = "asked"
  /\ \E before \in {row[activeJob], FailedRow(row[activeJob])} :
       /\ before # row[activeJob] => row[activeJob].status \in Transient
       /\ row' = [row EXCEPT ![activeJob] = RefreshedRow(before)]
  /\ poll' = [poll EXCEPT !.phase = row'[activeJob].status]
  /\ UNCHANGED <<shell, handler, draft, bound, lost, history>>

Answered == poll.phase \notin {"off", "timer", "asked"}

\* Mutant: an answer does not end the row of failures.
TakeAnswerKeepingFailures ==
  /\ Answered
  /\ streak' = 0
  /\ LET action == ResultAction(poll.phase, row[activeJob].prepared) IN
     \/ action = "retry" /\ poll' = Schedule(nextRunningJobPollDelay(poll.delay), poll.failures)
                         /\ UNCHANGED <<sessionState, activeJob, messages, givenUp>>
     \/ action = "complete" /\ replacePendingJobResponse /\ UNCHANGED givenUp
     \/ action = "fail" /\ markJobError
  /\ UNCHANGED <<asking, sessionId, activeResource, backEnd, lost, failed>>
TakeAnswer ==
  /\ Answered
  /\ streak' = 0
  /\ LET action == ResultAction(poll.phase, row[activeJob].prepared) IN
     \/ action = "retry" /\ poll' = Schedule(nextRunningJobPollDelay(poll.delay), 0)
                         /\ UNCHANGED <<sessionState, activeJob, messages, givenUp>>
     \/ action = "complete" /\ replacePendingJobResponse /\ UNCHANGED givenUp
     \/ action = "fail" /\ markJobError
  /\ UNCHANGED <<asking, sessionId, activeResource, backEnd, lost, failed>>

\* Mutant: the shell shows the failure and waits for another effect to poll.
FailPollUnscheduled(client) ==
  /\ poll.phase = "asked" \/ Answered
  /\ lost < MaxLost
  /\ lost' = lost + 1
  /\ streak' = streak + (IF client THEN 4 ELSE 1)
  /\ IF FailureAction(client, poll.failures) = "fail" THEN markJobError
     ELSE /\ poll' = [poll EXCEPT !.phase = "off"]
          /\ UNCHANGED <<sessionState, activeJob, messages, givenUp>>
  /\ UNCHANGED <<asking, sessionId, activeResource, backEnd, failed>>
\* The answer is lost, an error of a proxy, or a 4xx (client); the poll may
\* have been served.
FailPoll(client) ==
  /\ poll.phase = "asked" \/ Answered
  /\ lost < MaxLost
  /\ lost' = lost + 1
  /\ streak' = streak + (IF client THEN 4 ELSE 1)
  /\ IF FailureAction(client, poll.failures) = "fail" THEN markJobError
     ELSE /\ poll' = Schedule(FailedPollDelay(poll.delay), poll.failures + 1)
          /\ UNCHANGED <<sessionState, activeJob, messages, givenUp>>
  /\ UNCHANGED <<asking, sessionId, activeResource, backEnd, failed>>

-----------------------------------------------------------------------------
(* handleSubmit.                                                           *)

NextTurn(t) == handler[t] = "unsent" /\ \A u \in 1..(t - 1) : handler[u] # "unsent"

NoDraft == [session |-> Null, resource |-> Null, stale |-> FALSE, final |-> Null]

\* buildChatRequest: what is on the screen, if anything, and the session.
Send(t) ==
  /\ handler' = [handler EXCEPT ![t] = "begun"]
  /\ \E resource \in Resources \cup {Null} :
       draft' = [draft EXCEPT ![t] =
                   [NoDraft EXCEPT !.session = sessionId, !.resource = resource]]

\* Mutants: the button is disabled while the request is awaited only; while a
\* job is polled only.
SubmitWhilePolling(t) ==
  /\ asking = Null
  /\ NextTurn(t)
  /\ sessionState' = "loading"
  /\ asking' = t
  /\ Send(t)
  /\ streak' = 0
  /\ UNCHANGED <<activeJob, messages, sessionId, activeResource, poll, bound, row, lost,
                 failed, givenUp>>
SubmitWhileAsking(t) ==
  /\ activeJob = Null
  /\ NextTurn(t)
  /\ sessionState' = "loading"
  /\ asking' = t
  /\ Send(t)
  /\ streak' = 0
  /\ UNCHANGED <<activeJob, messages, sessionId, activeResource, poll, bound, row, lost,
                 failed, givenUp>>
\* The button is disabled while the shell is loading.
Submit(t) ==
  /\ sessionState # "loading"
  /\ NextTurn(t)
  /\ sessionState' = "loading"
  /\ asking' = t
  /\ Send(t)
  /\ streak' = 0
  /\ UNCHANGED <<activeJob, messages, sessionId, activeResource, poll, bound, row, lost,
                 failed, givenUp>>

\* An answer that names a job is polled for; a plain one is complete.
ShowAnswer(t) ==
  IF row[t].status # "absent"
  THEN /\ messages' = [messages EXCEPT ![t] = "pending"]
       /\ activeJob' = t
       /\ poll' = StartPolling
       /\ UNCHANGED sessionState
  ELSE /\ messages' = [messages EXCEPT ![t] = "plain"]
       /\ activeJob' = Null
       /\ sessionState' = "ready"
       /\ poll' = Off

\* applyChatResponse.
\* Mutant: the session of the answer is not kept.
TakeChatResponseOnly ==
  /\ asking # Null
  /\ handler[asking] = "done"
  /\ asking' = Null
  /\ activeResource' = draft[asking].resource
  /\ draft' = [draft EXCEPT ![asking] = NoDraft]
  /\ ShowAnswer(asking)
  /\ UNCHANGED <<sessionId, handler, bound, row, lost, history>>
TakeChatResponse ==
  /\ asking # Null
  /\ handler[asking] = "done"
  /\ asking' = Null
  /\ sessionId' = draft[asking].session
  /\ activeResource' = draft[asking].resource
  /\ draft' = [draft EXCEPT ![asking] = NoDraft]
  /\ ShowAnswer(asking)
  /\ UNCHANGED <<handler, bound, row, lost, history>>

-----------------------------------------------------------------------------
(* post_chat, as far as a turn that waits for it can tell.                 *)

\* Mutant: a resource is compared with nothing.
ReadSessionTrusting(t) ==
  /\ handler[t] = "begun"
  /\ handler' = [handler EXCEPT ![t] = "read"]
  /\ LET existing == draft[t].session
         old == IF existing = Null THEN Null ELSE bound[existing]
         new == draft[t].resource
     IN  draft' = [draft EXCEPT ![t] =
                     [@ EXCEPT !.session = IF existing = Null THEN t ELSE existing,
                               !.resource = IF new = Null THEN old ELSE new]]
  /\ UNCHANGED <<shell, poll, bound, row, lost, history>>
\* _session_state_for_request: without a resource of its own the request
\* inherits the session's; with another one its context is stale.
ReadSession(t) ==
  /\ handler[t] = "begun"
  /\ handler' = [handler EXCEPT ![t] = "read"]
  /\ LET existing == draft[t].session
         old == IF existing = Null THEN Null ELSE bound[existing]
         new == draft[t].resource
     IN  draft' = [draft EXCEPT ![t] =
                     [@ EXCEPT !.session = IF existing = Null THEN t ELSE existing,
                               !.resource = IF new = Null THEN old ELSE new,
                               !.stale = old # Null /\ new \notin {Null, old}]]
  /\ UNCHANGED <<shell, poll, bound, row, lost, history>>

\* save_session.
Save(t) == bound' = [bound EXCEPT ![draft[t].session] = draft[t].resource]

SaveSession(t) ==
  /\ handler[t] = "read"
  /\ handler' = [handler EXCEPT ![t] = "saved"]
  /\ Save(t)
  /\ UNCHANGED <<shell, draft, poll, row, lost, history>>

\* A background refresh: create_job, prepare_result, and the session again.
CreateJob(t) ==
  /\ handler[t] = "saved"
  /\ handler' = [handler EXCEPT ![t] = "created"]
  /\ row' = [row EXCEPT ![t] = PreparedRow(CreatedRow)]
  /\ Save(t)
  /\ UNCHANGED <<shell, draft, poll, lost, history>>

StartJob(t) ==
  /\ handler[t] = "created"
  /\ handler' = [handler EXCEPT ![t] = "started"]
  /\ row' = [row EXCEPT ![t] = StartedRow(BoundRow(@))]
  /\ UNCHANGED <<shell, draft, bound, poll, lost, history>>

\* finalized_session: the session is read again, and written back with the
\* resource it had.  A turn that needs no job has none of the two steps before.
ReadBack(t) ==
  /\ handler[t] \in {"saved", "started"}
  /\ handler' = [handler EXCEPT ![t] = "final"]
  /\ draft' = [draft EXCEPT ![t].final = bound[draft[t].session]]
  /\ UNCHANGED <<shell, poll, bound, row, lost, history>>

\* An answer that nobody waits for is dropped.
Finish(t) ==
  /\ handler[t] = "final"
  /\ handler' = [handler EXCEPT ![t] = "done"]
  /\ bound' = [bound EXCEPT ![draft[t].session] = draft[t].final]
  /\ draft' = [draft EXCEPT ![t] = IF t = asking THEN [@ EXCEPT !.final = Null] ELSE NoDraft]
  /\ UNCHANGED <<shell, poll, row, lost, history>>

Running(t) == handler[t] \in {"begun", "read", "saved", "created", "started", "final"}
Handle(t) == ReadSession(t) \/ SaveSession(t) \/ CreateJob(t) \/ StartJob(t)
             \/ ReadBack(t) \/ Finish(t)

\* The catch in the shell: the handler raised, or the answer was lost while the
\* handler goes on.  (A handler that raises when nobody waits for it any more
\* does what one does that is never run again.)
FailChat(raises) ==
  /\ asking # Null
  /\ lost < MaxLost
  /\ lost' = lost + 1
  /\ \/ /\ raises /\ Running(asking)
        /\ handler' = [handler EXCEPT ![asking] = "raised"]
        /\ draft' = [draft EXCEPT ![asking] = NoDraft]
     \/ /\ ~raises
        /\ draft' = [draft EXCEPT ![asking] = IF Running(asking) THEN @ ELSE NoDraft]
        /\ UNCHANGED handler
  /\ sessionState' = "error"
  /\ asking' = Null
  /\ failed' = failed \cup {asking}
  /\ UNCHANGED <<activeJob, messages, sessionId, activeResource, poll, bound, row,
                 givenUp, streak>>

-----------------------------------------------------------------------------

Init ==
  /\ sessionState = "idle"
  /\ activeJob = Null
  /\ messages = [t \in Turns |-> "none"]
  /\ asking = Null
  /\ sessionId = Null
  /\ activeResource = Null
  /\ poll = Off
  /\ handler = [t \in Turns |-> "unsent"]
  /\ draft = [t \in Turns |-> NoDraft]
  /\ bound = [t \in Turns |-> Absent]
  /\ row = [t \in Turns |-> NoRow]
  /\ lost = 0
  /\ failed = {}
  /\ givenUp = {}
  /\ streak = 0

Next ==
  \/ \E t \in Turns : Submit(t) \/ Handle(t)
  \/ TakeChatResponse
  \/ \E raises \in BOOLEAN : FailChat(raises)
  \/ AskForJob \/ ServePoll \/ TakeAnswer
  \/ \E client \in BOOLEAN : FailPoll(client)

\* Timers fire, handlers run, and the browser gives an answer or an error for
\* every request it has sent; nobody has to submit a turn.
Spec ==
  /\ Init /\ [][Next]_vars
  /\ \A t \in Turns : WF_vars(Handle(t))
  /\ WF_vars(TakeChatResponse)
  /\ WF_vars(AskForJob \/ ServePoll \/ TakeAnswer)

-----------------------------------------------------------------------------

\* The delay stays between its first value and its cap, and the shell never
\* polls again after the fourth failure.
TypeOK ==
  /\ sessionState \in {"idle", "loading", "ready", "error"}
  /\ activeJob \in Turns \cup {Null} /\ asking \in Turns \cup {Null}
  /\ sessionId \in Turns \cup {Null} /\ activeResource \in Resources \cup {Null}
  /\ messages \in [Turns -> {"none", "plain", "pending", "result"}]
  /\ poll \in [phase : Phases,
               delay : INITIAL_JOB_POLL_DELAY..MAX_JOB_POLL_DELAY,
               failures : 0..(MAX_JOB_POLL_FAILURES - 1)]
  /\ handler \in [Turns -> {"unsent", "begun", "read", "saved", "created", "started",
                          "final", "done", "raised"}]
  /\ draft \in [Turns -> [session : Turns \cup {Null}, resource : Resources \cup {Null},
                         stale : BOOLEAN, final : Resources \cup {Null}]]
  /\ bound \in [Turns -> Resources \cup {Null, Absent}]
  /\ row \in [Turns -> JobRow]
  /\ lost \in 0..MaxLost
  /\ failed \subseteq Turns /\ givenUp \subseteq Turns
  /\ streak \in 0..(MaxLost + 3)

\* A job is polled exactly while it is the active one; then the shell lets
\* nobody send, awaits no turn, and the job's own message is waiting for it.
\* So an answer to a poll always finds the job it asked for.
PolledIsAwaited ==
  /\ poll.phase # "off" <=> activeJob # Null
  /\ activeJob # Null =>
       sessionState = "loading" /\ asking = Null /\ messages[activeJob] = "pending"

\* No message is left waiting in silence: its job is polled, or the shell has
\* shown that it ended badly or was lost.
PendingIsPolled ==
  \A t \in Turns : messages[t] = "pending" => t = activeJob \/ t \in givenUp

\* Two turns run in the back end at a time only when the answer of one of them
\* was lost: the shell sends turns one at a time otherwise.
OverlapOnlyAfterLoss ==
  \A t, u \in Turns :
    (t < u /\ Running(t) /\ handler[u] # "unsent") => t \in failed

\* A job is dropped without its result only because it failed, because the
\* last poll was refused for good, or after four polls in a row were lost:
\* never for a status the shell does not know, nor for failures that an answer
\* came between.
NeverGivesUpEarly ==
  [][(activeJob # Null /\ activeJob' = Null) =>
       \/ messages'[activeJob] = "result"
       \/ row[activeJob].status \in {"failed", "cancelled", "expired"}
       \/ streak' >= 4]_vars

\* Every session but the one the shell goes on with was created by a turn that
\* the shell showed as failed, or is awaited.
OtherSessionsFailed ==
  \A t \in Turns : bound[t] # Absent => t \in failed \cup {sessionId, asking}

\* The user is not moved from one resource to another without the warning that
\* the context is stale, unless a turn failed before: the session remembers the
\* resource of every turn, and the shell of every answer.
NoSilentSwitch ==
  [][(activeResource # Null /\ activeResource' # activeResource) =>
       draft[asking].stale \/ failed # {}]_vars

\* Whatever is lost, the shell stops loading: the user can always send again.
EveryTurnSettles == sessionState = "loading" ~> sessionState # "loading"

=============================================================================
