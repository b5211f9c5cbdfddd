-------------------------- MODULE ChatShellProofs ---------------------------
(***************************************************************************)
(* Theorems about ChatShell, for any number of turns, resources and lost   *)
(* answers.                                                                *)
(***************************************************************************)
EXTENDS ChatShell, TLAPS

-----------------------------------------------------------------------------
(* The invariant.                                                          *)

\* A turn is polled for when its answer came, and what the poll is answered is
\* what the row holds; the shell waits while it asks, and polls that were lost
\* in a row are the failures that it counts.
PollInv ==
  /\ PolledIsAwaited /\ PendingIsPolled
  /\ asking # Null => sessionState = "loading" /\ streak = 0
  /\ poll.failures <= lost
  /\ activeJob # Null => /\ handler[activeJob] = "done" /\ row[activeJob].status # "absent"
                         /\ streak = poll.failures
  /\ Answered => poll.phase = row[activeJob].status

\* A job is prepared and started before its turn is answered.
RowInv ==
  \A t \in Turns :
    /\ handler[t] \in {"unsent", "begun", "read", "saved"} => row[t].status = "absent"
    /\ handler[t] = "created" => row[t].status = "pending" /\ row[t].prepared
    /\ handler[t] \in {"started", "final", "done"} =>
         row[t].status = "absent" \/ (row[t].status # "pending" /\ row[t].prepared)

\* Turns are sent in order, and whoever runs is awaited or was shown as failed.
SendInv ==
  /\ asking # Null => /\ handler[asking] \notin {"unsent", "raised"}
                      /\ \A u \in Turns : u > asking => handler[u] = "unsent"
  /\ \A t, u \in Turns : t < u /\ handler[u] # "unsent" => handler[t] # "unsent"
  /\ \A t \in Turns : Running(t) => t \in failed \cup {asking}

\* A turn works on the session of the shell, or on one of its own; a session
\* that a turn was sent with had been saved.
Working(t) ==
  handler[t] \in {"read", "saved", "created", "started", "final"} \/ (handler[t] = "done" /\ t = asking)
Saved(s) == bound[s] # Absent
SessionInv ==
  /\ OtherSessionsFailed
  /\ sessionId # Null => Saved(sessionId)
  /\ \A t \in Turns :
       /\ handler[t] = "unsent" => ~Saved(t)
       /\ handler[t] = "begun" => draft[t].session = Null \/ Saved(draft[t].session)
       /\ Working(t) => /\ draft[t].session \in Turns
                        /\ (handler[t] = "read" /\ draft[t].session = t) \/ Saved(draft[t].session)
  /\ asking # Null =>
       /\ Saved(asking) => draft[asking].session = asking
       /\ draft[asking].session = sessionId \/ (sessionId = Null /\ draft[asking].session = asking)

ShellInv == TypeOK /\ PollInv /\ RowInv /\ SendInv /\ SessionInv

\* As long as no turn failed, the session remembers the resource of the last
\* answer, and the turn that is awaited carries it on or says that it is stale.
ResourceInv ==
  failed = {} =>
    /\ sessionId = Null => activeResource = Null
    /\ sessionId # Null /\ (asking = Null \/ handler[asking] \in {"begun", "read"}) =>
         bound[sessionId] = activeResource
    /\ asking # Null /\ handler[asking] # "begun" =>
         \/ activeResource = Null \/ draft[asking].stale
         \/ draft[asking].resource = activeResource
    /\ asking # Null /\ handler[asking] \notin {"begun", "read"} =>
         bound[draft[asking].session] = draft[asking].resource
    /\ asking # Null /\ handler[asking] = "final" => draft[asking].final = draft[asking].resource

-----------------------------------------------------------------------------
(* Rows and delays.                                                        *)

LEMMA NullIsNoTurn == Null \notin Turns
BY RowsAssumption DEF Turns

LEMMA RowsWritten ==
  ASSUME NEW a \in JobRow
  PROVE  /\ PreparedRow(CreatedRow) \in JobRow
         /\ PreparedRow(CreatedRow).status = "pending" /\ PreparedRow(CreatedRow).prepared
         /\ StartedRow(BoundRow(a)) \in JobRow
         /\ StartedRow(BoundRow(a)).status = "running"
         /\ StartedRow(BoundRow(a)).prepared = a.prepared
         /\ FailedRow(a) \in JobRow
         /\ FailedRow(a).status = "failed" /\ FailedRow(a).prepared = a.prepared
<1> USE RowsAssumption DEF JobRow, Transient, Terminal
<1>1. /\ PreparedRow(CreatedRow) \in JobRow
      /\ PreparedRow(CreatedRow).status = "pending" /\ PreparedRow(CreatedRow).prepared
  BY DEF PreparedRow, CreatedRow, NoRow
<1>2. /\ StartedRow(BoundRow(a)) \in JobRow
      /\ StartedRow(BoundRow(a)).status = "running"
      /\ StartedRow(BoundRow(a)).prepared = a.prepared
  <2>1. CompletionRefreshPolls \in 0..CompletionRefreshPolls
    OBVIOUS
  <2>2. BoundRow(a) \in JobRow /\ BoundRow(a).prepared = a.prepared
    BY DEF BoundRow
  <2> QED BY <2>1, <2>2 DEF StartedRow
<1>3. FailedRow(a) \in JobRow /\ FailedRow(a).status = "failed" /\ FailedRow(a).prepared = a.prepared
  BY DEF FailedRow
<1> QED BY <1>1, <1>2, <1>3

\* A refresh takes no row back, and leaves what was prepared.
LEMMA RefreshWritten ==
  ASSUME NEW a \in JobRow
  PROVE  /\ RefreshedRow(a) \in JobRow /\ RefreshedRow(a).prepared = a.prepared
         /\ a.status \notin {"absent", "pending"} =>
              RefreshedRow(a).status \notin {"absent", "pending"}
<1> USE RowsAssumption DEF JobRow, Transient, Terminal
<1>1. CASE Counted(a) > 0
  BY <1>1 DEF RefreshedRow, Counted
<1>2. CASE ~(Counted(a) > 0) /\ ValidTransition(a.status, "succeeded")
  <2>1. RefreshedRow(a) = CompletedRow(a)
    BY <1>2 DEF RefreshedRow
  <2> QED BY <2>1 DEF CompletedRow
<1>3. CASE ~(Counted(a) > 0) /\ ~ValidTransition(a.status, "succeeded")
  BY <1>3 DEF RefreshedRow
<1> QED BY <1>1, <1>2, <1>3

LEMMA Delays ==
  ASSUME NEW delay \in INITIAL_JOB_POLL_DELAY..MAX_JOB_POLL_DELAY
  PROVE  /\ nextRunningJobPollDelay(delay) \in INITIAL_JOB_POLL_DELAY..MAX_JOB_POLL_DELAY
         /\ FailedPollDelay(delay) \in INITIAL_JOB_POLL_DELAY..MAX_JOB_POLL_DELAY
BY DEF nextRunningJobPollDelay, FailedPollDelay, AtMost, INITIAL_JOB_POLL_DELAY, MAX_JOB_POLL_DELAY

-----------------------------------------------------------------------------
(* Every step keeps it.                                                    *)

LEMMA ShellInit == Init => ShellInv
<1> SUFFICES ASSUME Init PROVE ShellInv
  OBVIOUS
<1>1. TypeOK
  <2>1. NoRow \in JobRow
    BY DEF NoRow, JobRow
  <2>2. Off \in [phase : Phases, delay : INITIAL_JOB_POLL_DELAY..MAX_JOB_POLL_DELAY,
                 failures : 0..(MAX_JOB_POLL_FAILURES - 1)]
    BY DEF Off, Phases, INITIAL_JOB_POLL_DELAY, MAX_JOB_POLL_DELAY, MAX_JOB_POLL_FAILURES
  <2>3. 0 \in 0..MaxLost /\ 0 \in 0..(MaxLost + 3)
    BY ShellAssumption
  <2> QED BY <2>1, <2>2, <2>3 DEF Init, TypeOK, NoDraft
<1>2. PollInv
  BY ShellAssumption DEF Init, PollInv, PolledIsAwaited, PendingIsPolled, Off, Answered
<1>3. RowInv /\ SendInv
  BY DEF Init, RowInv, SendInv, Running, NoRow
<1>4. SessionInv
  BY DEF Init, SessionInv, OtherSessionsFailed, Saved, Working
<1> QED BY <1>1, <1>2, <1>3, <1>4 DEF ShellInv

\* A poll is no matter of the turns and the sessions.
LEMMA PollingStep ==
  ASSUME ShellInv, UNCHANGED <<asking, sessionId, handler, draft, bound, failed>>
  PROVE  SendInv' /\ SessionInv'
<1>1. SendInv'
  BY DEF ShellInv, SendInv, Running
<1>2. SessionInv'
  BY DEF ShellInv, SessionInv, OtherSessionsFailed, Saved, Working
<1> QED BY <1>1, <1>2

\* What a handler does from the moment it has read its session.
LEMMA HandlerStep ==
  ASSUME ShellInv, NEW t \in Turns, Running(t), handler[t] # "begun",
         NEW label \in {"saved", "created", "started", "final", "done"},
         handler' = [handler EXCEPT ![t] = label],
         UNCHANGED <<shell, poll, lost, history>>,
         \A u \in Turns : u # t => draft'[u] = draft[u] /\ row'[u] = row[u],
         label # "done" \/ t = asking => draft'[t].session = draft[t].session,
         \A s \in Turns : s # draft[t].session => bound'[s] = bound[s],
         bound'[draft[t].session] # Absent
  PROVE  PollInv' /\ SendInv' /\ SessionInv'
<1> USE DEF shell, history
<1>1. /\ handler'[t] = label /\ \A u \in Turns : u # t => handler'[u] = handler[u]
      /\ activeJob \in Turns \cup {Null} /\ asking \in Turns \cup {Null}
      /\ sessionId \in Turns \cup {Null} /\ Null \notin Turns
  BY NullIsNoTurn DEF ShellInv, TypeOK
<1>2. PollInv'
  BY <1>1 DEF ShellInv, PollInv, PolledIsAwaited, PendingIsPolled, Answered, Running
<1>3. SendInv'
  BY <1>1 DEF ShellInv, SendInv, Running
<1>4. draft[t].session \in Turns /\ (draft[t].session = t \/ Saved(draft[t].session))
  BY DEF ShellInv, SessionInv, Working, Running
<1>5. \A s \in Turns : Saved(s) => Saved(s)'
  BY DEF Saved
<1>6. SessionInv'
  <2>1. OtherSessionsFailed'
    BY <1>1, <1>4 DEF ShellInv, SendInv, SessionInv, OtherSessionsFailed, Saved
  <2>2. (sessionId # Null => Saved(sessionId))'
    BY <1>1, <1>5 DEF ShellInv, SessionInv
  <2>3. ASSUME NEW u \in Turns
        PROVE  (/\ handler[u] = "unsent" => ~Saved(u)
                /\ handler[u] = "begun" => draft[u].session = Null \/ Saved(draft[u].session)
                /\ Working(u) => /\ draft[u].session \in Turns
                                 /\ \/ handler[u] = "read" /\ draft[u].session = u
                                    \/ Saved(draft[u].session))'
    <3>1. CASE u = t
      BY <1>1, <1>4, <3>1 DEF Working, Saved
    <3>2. CASE u # t
      <4>1. draft[u].session \in Turns \cup {Null}
        BY DEF ShellInv, TypeOK
      <4> QED BY <1>1, <1>4, <1>5, <3>2, <4>1 DEF ShellInv, SessionInv, Working, Saved
    <3> QED BY <3>1, <3>2
  <2>4. (asking # Null =>
          /\ Saved(asking) => draft[asking].session = asking
          /\ draft[asking].session = sessionId
               \/ (sessionId = Null /\ draft[asking].session = asking))'
    <3>1. CASE asking = t
      BY <1>1, <1>4, <3>1 DEF ShellInv, SessionInv, Saved
    <3>2. CASE asking # t
      BY <1>1, <1>4, <3>2 DEF ShellInv, SessionInv, Saved
    <3> QED BY <3>1, <3>2
  <2> QED BY <2>1, <2>2, <2>3, <2>4 DEF SessionInv
<1> QED BY <1>2, <1>3, <1>6

LEMMA ShellNext == ShellInv /\ [Next]_vars => ShellInv'
<1> SUFFICES ASSUME ShellInv, [Next]_vars PROVE ShellInv'
  OBVIOUS
<1> USE DEF shell, backEnd, history
<1>a. /\ TypeOK /\ PollInv /\ RowInv /\ SendInv /\ SessionInv
      /\ Null \notin Turns /\ Null \notin Resources /\ Absent \notin Resources \cup {Null}
      /\ MaxLost \in Nat
  BY NullIsNoTurn, ShellAssumption DEF ShellInv
<1>b. Off \in [phase : Phases, delay : INITIAL_JOB_POLL_DELAY..MAX_JOB_POLL_DELAY,
               failures : 0..(MAX_JOB_POLL_FAILURES - 1)]
      /\ Off.failures = 0 /\ Off.phase = "off"
  BY DEF Off, Phases, INITIAL_JOB_POLL_DELAY, MAX_JOB_POLL_DELAY, MAX_JOB_POLL_FAILURES
<1>c. \A delay \in INITIAL_JOB_POLL_DELAY..MAX_JOB_POLL_DELAY, failures \in 0..(MAX_JOB_POLL_FAILURES - 1) :
        /\ Schedule(delay, failures)
             \in [phase : Phases, delay : INITIAL_JOB_POLL_DELAY..MAX_JOB_POLL_DELAY,
                  failures : 0..(MAX_JOB_POLL_FAILURES - 1)]
        /\ Schedule(delay, failures).phase = "timer" /\ Schedule(delay, failures).failures = failures
  BY DEF Schedule, Phases
<1>d. activeJob # Null => /\ activeJob \in Turns /\ sessionState = "loading" /\ asking = Null
                          /\ messages[activeJob] = "pending" /\ handler[activeJob] = "done"
                          /\ row[activeJob] \in JobRow
                          /\ row[activeJob].status \notin {"absent", "pending"}
                          /\ row[activeJob].prepared /\ poll.phase # "off"
                          /\ streak = poll.failures
  BY <1>a DEF TypeOK, PollInv, PolledIsAwaited, RowInv
<1>1. CASE AskForJob
  <2>1. SendInv' /\ SessionInv' /\ RowInv'
    BY <1>1, <1>a, PollingStep DEF AskForJob, RowInv
  <2>2. TypeOK'
    BY <1>1, <1>a DEF AskForJob, TypeOK, Phases
  <2>3. PollInv'
    BY <1>1, <1>a, <1>d DEF AskForJob, TypeOK, PollInv, PolledIsAwaited, PendingIsPolled, Answered
  <2> QED BY <2>1, <2>2, <2>3 DEF ShellInv
<1>2. CASE ServePoll
  <2>1. SendInv' /\ SessionInv'
    BY <1>2, PollingStep DEF ServePoll
  <2>2. activeJob # Null
    BY <1>2, <1>a DEF ServePoll, PollInv, PolledIsAwaited
  <2>3. PICK fresh \in JobRow : /\ row' = [row EXCEPT ![activeJob] = fresh]
                                /\ fresh.status \notin {"absent", "pending"} /\ fresh.prepared
    <3>1. PICK before \in {row[activeJob], FailedRow(row[activeJob])} :
            row' = [row EXCEPT ![activeJob] = RefreshedRow(before)]
      BY <1>2 DEF ServePoll
    <3>2. before \in JobRow /\ before.status \notin {"absent", "pending"} /\ before.prepared
      BY <1>d, <2>2, <3>1, RowsWritten
    <3> QED BY <3>1, <3>2, RefreshWritten
  <2>4. /\ poll' = [poll EXCEPT !.phase = fresh.status] /\ row'[activeJob] = fresh
        /\ UNCHANGED <<shell, handler, draft, bound, lost, history>>
    BY <1>2, <1>a, <1>d, <2>2, <2>3 DEF ServePoll, TypeOK
  <2>5. fresh.status \in Phases \ {"off", "timer", "asked"}
    BY <2>3 DEF JobRow, Phases, Transient, Terminal
  <2>6. TypeOK'
    BY <1>a, <2>3, <2>4, <2>5 DEF TypeOK
  <2>7. PollInv'
    BY <1>a, <1>d, <2>2, <2>3, <2>4, <2>5
    DEF TypeOK, PollInv, PolledIsAwaited, PendingIsPolled, Answered
  <2>8. RowInv'
    BY <1>a, <1>d, <2>2, <2>3, <2>4 DEF TypeOK, RowInv
  <2> QED BY <2>1, <2>6, <2>7, <2>8 DEF ShellInv
<1>e. ASSUME activeJob # Null, markJobError, lost' \in lost..MaxLost, streak' \in 0..(MaxLost + 3),
             UNCHANGED <<asking, sessionId, activeResource, backEnd, failed>>
      PROVE  ShellInv'
  <2>1. SendInv' /\ SessionInv' /\ RowInv'
    BY <1>a, <1>e, PollingStep DEF RowInv
  <2>2. TypeOK'
    BY <1>a, <1>b, <1>d, <1>e DEF markJobError, TypeOK
  <2>3. PollInv'
    BY <1>a, <1>b, <1>d, <1>e
    DEF markJobError, TypeOK, PollInv, PolledIsAwaited, PendingIsPolled, Answered
  <2> QED BY <2>1, <2>2, <2>3 DEF ShellInv
<1>f. ASSUME activeJob # Null, NEW delay \in INITIAL_JOB_POLL_DELAY..MAX_JOB_POLL_DELAY,
             NEW failures \in 0..(MAX_JOB_POLL_FAILURES - 1),
             poll' = Schedule(delay, failures), lost' \in lost..MaxLost,
             streak' = failures, streak' \in 0..(MaxLost + 3), failures <= lost',
             UNCHANGED <<sessionState, activeJob, messages, givenUp>>,
             UNCHANGED <<asking, sessionId, activeResource, backEnd, failed>>
      PROVE  ShellInv'
  <2>1. SendInv' /\ SessionInv' /\ RowInv'
    BY <1>a, <1>f, PollingStep DEF RowInv
  <2>2. TypeOK'
    BY <1>a, <1>c, <1>f DEF TypeOK
  <2>3. PollInv'
    BY <1>a, <1>c, <1>d, <1>f DEF TypeOK, PollInv, PolledIsAwaited, PendingIsPolled, Answered
  <2> QED BY <2>1, <2>2, <2>3 DEF ShellInv
<1>3. CASE TakeAnswer
  <2>1. /\ activeJob # Null /\ streak' = 0 /\ lost' = lost
        /\ UNCHANGED <<asking, sessionId, activeResource, backEnd, failed>>
    BY <1>3, <1>a DEF TakeAnswer, Answered, PollInv, PolledIsAwaited
  <2>2. lost \in 0..MaxLost /\ poll.delay \in INITIAL_JOB_POLL_DELAY..MAX_JOB_POLL_DELAY
    BY <1>a DEF TypeOK
  <2>3. CASE /\ poll' = Schedule(nextRunningJobPollDelay(poll.delay), 0)
             /\ UNCHANGED <<sessionState, activeJob, messages, givenUp>>
    BY <1>a, <1>f, <2>1, <2>2, <2>3, Delays DEF MAX_JOB_POLL_FAILURES
  <2>4. CASE replacePendingJobResponse /\ UNCHANGED givenUp
    <3>1. SendInv' /\ SessionInv' /\ RowInv'
      BY <1>a, <2>1, PollingStep DEF RowInv
    <3>2. TypeOK'
      BY <1>a, <1>b, <1>d, <2>1, <2>4 DEF replacePendingJobResponse, TypeOK
    <3>3. PollInv'
      BY <1>a, <1>b, <1>d, <2>1, <2>4
      DEF replacePendingJobResponse, TypeOK, PollInv, PolledIsAwaited, PendingIsPolled, Answered
    <3> QED BY <3>1, <3>2, <3>3 DEF ShellInv
  <2>5. CASE markJobError
    BY <1>a, <1>e, <2>1, <2>2, <2>5
  <2> QED BY <1>3, <2>3, <2>4, <2>5 DEF TakeAnswer
<1>4. ASSUME NEW client \in BOOLEAN, FailPoll(client) PROVE ShellInv'
  <2>1. /\ activeJob # Null /\ lost < MaxLost /\ lost' = lost + 1
        /\ UNCHANGED <<asking, sessionId, activeResource, backEnd, failed>>
    BY <1>4, <1>a DEF FailPoll, Answered, PollInv, PolledIsAwaited
  <2>2. /\ lost \in 0..MaxLost /\ poll.delay \in INITIAL_JOB_POLL_DELAY..MAX_JOB_POLL_DELAY
        /\ poll.failures \in 0..(MAX_JOB_POLL_FAILURES - 1) /\ poll.failures <= lost
        /\ streak = poll.failures
    BY <1>a, <1>d, <2>1 DEF TypeOK, PollInv
  <2>3. lost' \in lost..MaxLost /\ streak' \in 0..(MaxLost + 3)
    BY <1>4, <1>a, <2>1, <2>2 DEF FailPoll, MAX_JOB_POLL_FAILURES
  <2>4. CASE FailureAction(client, poll.failures) = "fail"
    BY <1>4, <1>e, <2>1, <2>3, <2>4 DEF FailPoll
  <2>5. CASE FailureAction(client, poll.failures) # "fail"
    <3>1. ~client /\ poll.failures + 1 \in 0..(MAX_JOB_POLL_FAILURES - 1)
      BY <2>2, <2>5 DEF FailureAction, MAX_JOB_POLL_FAILURES
    <3>2. /\ poll' = Schedule(FailedPollDelay(poll.delay), poll.failures + 1)
          /\ UNCHANGED <<sessionState, activeJob, messages, givenUp>>
          /\ streak' = poll.failures + 1
      BY <1>4, <2>2, <2>5, <3>1 DEF FailPoll
    <3>3. poll.failures + 1 <= lost'
      BY <2>1, <2>2
    <3>4. FailedPollDelay(poll.delay) \in INITIAL_JOB_POLL_DELAY..MAX_JOB_POLL_DELAY
      BY <2>2, Delays
    <3> QED BY <1>f, <2>1, <2>3, <3>1, <3>2, <3>3, <3>4
  <2> QED BY <2>4, <2>5
<1>5. ASSUME NEW t \in Turns, Submit(t) PROVE ShellInv'
  <2>1. /\ asking = Null /\ activeJob = Null /\ asking' = t
        /\ sessionState' = "loading" /\ streak' = 0
        /\ UNCHANGED <<activeJob, messages, sessionId, activeResource, poll, bound, row, lost,
                       failed, givenUp>>
    BY <1>5, <1>a, <1>d DEF Submit, PollInv
  <2>2. /\ handler[t] = "unsent" /\ \A u \in 1..(t - 1) : handler[u] # "unsent"
        /\ handler' = [handler EXCEPT ![t] = "begun"]
    BY <1>5 DEF Submit, NextTurn, Send
  <2>3. PICK sent \in [session : Turns \cup {Null}, resource : Resources \cup {Null},
                       stale : BOOLEAN, final : Resources \cup {Null}] :
          draft' = [draft EXCEPT ![t] = sent] /\ sent.session = sessionId
    <3>1. sessionId \in Turns \cup {Null}
      BY <1>a DEF TypeOK
    <3>2. PICK resource \in Resources \cup {Null} :
            draft' = [draft EXCEPT ![t] =
                        [NoDraft EXCEPT !.session = sessionId, !.resource = resource]]
      BY <1>5 DEF Submit, Send
    <3>3. [NoDraft EXCEPT !.session = sessionId, !.resource = resource]
            \in [session : Turns \cup {Null}, resource : Resources \cup {Null},
                 stale : BOOLEAN, final : Resources \cup {Null}]
      BY <3>1 DEF NoDraft
    <3>4. [NoDraft EXCEPT !.session = sessionId, !.resource = resource].session = sessionId
      BY DEF NoDraft
    <3> QED BY <3>2, <3>3, <3>4
  <2>4. /\ handler'[t] = "begun" /\ draft'[t].session = sessionId
        /\ \A u \in Turns : u # t => handler'[u] = handler[u] /\ draft'[u] = draft[u]
    BY <1>a, <2>2, <2>3 DEF TypeOK
  <2>5. TypeOK'
    BY <1>a, <2>1, <2>2, <2>3 DEF TypeOK
  <2>6. PollInv'
    BY <1>a, <2>1 DEF PollInv, PolledIsAwaited, PendingIsPolled, Answered
  <2>7. RowInv'
    BY <1>a, <2>1, <2>2, <2>4 DEF RowInv
  <2>8. SendInv'
    <3>1. \A u \in Turns : u > t => handler[u] = "unsent"
      BY <1>a, <2>2 DEF SendInv
    <3>2. \A u \in Turns : u < t => handler[u] # "unsent"
      BY <2>2 DEF Turns
    <3>3. \A u, v \in Turns : u < v /\ handler'[v] # "unsent" => handler'[u] # "unsent"
      <4>1. TAKE u, v \in Turns
      <4>2. CASE v = t
        BY <2>4, <3>2, <4>2 DEF Turns
      <4>3. CASE v # t
        BY <1>a, <2>4, <4>3 DEF SendInv
      <4> QED BY <4>2, <4>3
    <3>4. \A u \in Turns : u > t => handler'[u] = "unsent"
      BY <2>4, <3>1 DEF Turns
    <3>5. \A u \in Turns : Running(u)' => u \in failed' \cup {asking'}
      BY <1>a, <2>1, <2>4 DEF SendInv, Running
    <3> QED BY <2>1, <2>4, <3>3, <3>4, <3>5 DEF SendInv
  <2>9. SessionInv'
    <3>1. OtherSessionsFailed' /\ (sessionId # Null => Saved(sessionId))'
      BY <1>a, <2>1 DEF SessionInv, OtherSessionsFailed, Saved
    <3>2. ASSUME NEW u \in Turns
          PROVE  (/\ handler[u] = "unsent" => ~Saved(u)
                  /\ handler[u] = "begun" => draft[u].session = Null \/ Saved(draft[u].session)
                  /\ Working(u) => /\ draft[u].session \in Turns
                                   /\ \/ handler[u] = "read" /\ draft[u].session = u
                                      \/ Saved(draft[u].session))'
      <4>1. CASE u = t
        BY <1>a, <2>1, <2>4, <4>1 DEF SessionInv, Working, Saved
      <4>2. CASE u # t
        BY <1>a, <2>1, <2>4, <4>2 DEF SessionInv, Working, Saved
      <4> QED BY <4>1, <4>2
    <3>3. ~Saved(t)'
      BY <1>a, <2>1, <2>2 DEF SessionInv, Saved
    <3> QED BY <2>1, <2>4, <3>1, <3>2, <3>3 DEF SessionInv
  <2> QED BY <2>5, <2>6, <2>7, <2>8, <2>9 DEF ShellInv
<1>6. CASE TakeChatResponse
  <2>1. /\ asking \in Turns /\ handler[asking] = "done" /\ asking' = Null
        /\ sessionId' = draft[asking].session /\ activeResource' = draft[asking].resource
        /\ draft' = [draft EXCEPT ![asking] = NoDraft]
        /\ UNCHANGED <<handler, bound, row, lost, history>>
        /\ activeJob = Null /\ sessionState = "loading" /\ streak = 0
    BY <1>6, <1>a, <1>d DEF TakeChatResponse, TypeOK, PollInv
  <2>2. /\ draft[asking].session \in Turns /\ Saved(draft[asking].session)
        /\ Saved(asking) => draft[asking].session = asking
        /\ draft[asking].session = sessionId \/ (sessionId = Null /\ draft[asking].session = asking)
    BY <1>a, <2>1 DEF SessionInv, Working
  <2>3. /\ \A u \in Turns : u # asking => draft'[u] = draft[u]
        /\ draft' \in [Turns -> [session : Turns \cup {Null}, resource : Resources \cup {Null},
                                 stale : BOOLEAN, final : Resources \cup {Null}]]
    BY <1>a, <2>1 DEF TypeOK, NoDraft
  <2>4. SendInv'
    BY <1>a, <2>1 DEF SendInv, Running
  <2>5. SessionInv'
    BY <1>a, <2>1, <2>2, <2>3 DEF SessionInv, OtherSessionsFailed, Saved, Working
  <2>6. RowInv'
    BY <1>a, <2>1 DEF RowInv
  <2>7. CASE row[asking].status # "absent"
    <3>1. /\ messages' = [messages EXCEPT ![asking] = "pending"] /\ activeJob' = asking
          /\ poll' = Schedule(INITIAL_JOB_POLL_DELAY, 0) /\ sessionState' = sessionState
      BY <1>6, <2>7 DEF TakeChatResponse, ShowAnswer, StartPolling
    <3>2. INITIAL_JOB_POLL_DELAY \in INITIAL_JOB_POLL_DELAY..MAX_JOB_POLL_DELAY
          /\ 0 \in 0..(MAX_JOB_POLL_FAILURES - 1)
      BY DEF INITIAL_JOB_POLL_DELAY, MAX_JOB_POLL_DELAY, MAX_JOB_POLL_FAILURES
    <3>3. TypeOK'
      BY <1>a, <1>c, <2>1, <2>2, <2>3, <3>1, <3>2 DEF TypeOK
    <3>4. PollInv'
      BY <1>a, <1>c, <2>1, <2>7, <3>1, <3>2
      DEF TypeOK, PollInv, PolledIsAwaited, PendingIsPolled, Answered
    <3> QED BY <2>4, <2>5, <2>6, <3>3, <3>4 DEF ShellInv
  <2>8. CASE row[asking].status = "absent"
    <3>1. /\ messages' = [messages EXCEPT ![asking] = "plain"] /\ activeJob' = Null
          /\ poll' = Off /\ sessionState' = "ready"
      BY <1>6, <2>8 DEF TakeChatResponse, ShowAnswer
    <3>2. TypeOK'
      BY <1>a, <1>b, <2>1, <2>2, <2>3, <3>1 DEF TypeOK
    <3>3. PollInv'
      BY <1>a, <1>b, <2>1, <3>1
      DEF TypeOK, PollInv, PolledIsAwaited, PendingIsPolled, Answered
    <3> QED BY <2>4, <2>5, <2>6, <3>2, <3>3 DEF ShellInv
  <2> QED BY <2>7, <2>8
<1>7. ASSUME NEW raises \in BOOLEAN, FailChat(raises) PROVE ShellInv'
  <2>1. /\ asking \in Turns /\ lost < MaxLost /\ lost' = lost + 1
        /\ sessionState' = "error" /\ asking' = Null /\ failed' = failed \cup {asking}
        /\ UNCHANGED <<activeJob, messages, sessionId, activeResource, poll, bound, row,
                       givenUp, streak>>
        /\ activeJob = Null
    BY <1>7, <1>a, <1>d DEF FailChat, TypeOK, PollInv
  <2>a. draft \in [Turns -> [session : Turns \cup {Null}, resource : Resources \cup {Null},
                             stale : BOOLEAN, final : Resources \cup {Null}]]
    BY <1>a DEF TypeOK
  <2>b. NoDraft \in [session : Turns \cup {Null}, resource : Resources \cup {Null},
                     stale : BOOLEAN, final : Resources \cup {Null}]
    BY DEF NoDraft
  <2>c. \/ /\ handler' = [handler EXCEPT ![asking] = "raised"]
           /\ draft' = [draft EXCEPT ![asking] = NoDraft]
        \/ /\ handler' = handler /\ Running(asking)
           /\ draft' = [draft EXCEPT ![asking] = @]
        \/ /\ handler' = handler /\ ~Running(asking)
           /\ draft' = [draft EXCEPT ![asking] = NoDraft]
    BY <1>7 DEF FailChat
  <2>2. /\ \/ handler' = [handler EXCEPT ![asking] = "raised"] /\ draft'[asking] = NoDraft
           \/ handler' = handler /\ draft'[asking] = draft[asking] /\ Running(asking)
           \/ handler' = handler /\ draft'[asking] = NoDraft /\ ~Running(asking)
        /\ \A u \in Turns : u # asking => draft'[u] = draft[u]
        /\ draft' \in [Turns -> [session : Turns \cup {Null}, resource : Resources \cup {Null},
                                 stale : BOOLEAN, final : Resources \cup {Null}]]
    BY <2>1, <2>a, <2>b, <2>c
  <2>3. handler[asking] \notin {"unsent", "raised"}
    BY <1>a, <2>1 DEF SendInv
  <2>4. lost \in Nat /\ lost' \in 0..MaxLost
    BY <1>a, <2>1 DEF TypeOK
  <2>5. TypeOK'
    BY <1>a, <2>1, <2>2, <2>4 DEF TypeOK
  <2>6. PollInv'
    <3>1. poll.failures <= lost'
      BY <1>a, <2>1, <2>4 DEF TypeOK, PollInv, MAX_JOB_POLL_FAILURES
    <3> QED BY <1>a, <2>1, <3>1 DEF PollInv, PolledIsAwaited, PendingIsPolled, Answered
  <2>7. RowInv'
    BY <1>a, <2>1, <2>2 DEF TypeOK, RowInv
  <2>8. SendInv'
    BY <1>a, <2>1, <2>2, <2>3 DEF TypeOK, SendInv, Running
  <2>9. SessionInv'
    <3>1. OtherSessionsFailed' /\ (sessionId # Null => Saved(sessionId))'
      BY <1>a, <2>1 DEF SessionInv, OtherSessionsFailed, Saved
    <3>2. ASSUME NEW u \in Turns
          PROVE  (/\ handler[u] = "unsent" => ~Saved(u)
                  /\ handler[u] = "begun" => draft[u].session = Null \/ Saved(draft[u].session)
                  /\ Working(u) => /\ draft[u].session \in Turns
                                   /\ \/ handler[u] = "read" /\ draft[u].session = u
                                      \/ Saved(draft[u].session))'
      <4>1. CASE u = asking
        BY <1>a, <2>1, <2>2, <2>3, <4>1 DEF TypeOK, SessionInv, Working, Running, Saved
      <4>2. CASE u # asking
        BY <1>a, <2>1, <2>2, <4>2 DEF TypeOK, SessionInv, Working, Saved
      <4> QED BY <4>1, <4>2
    <3> QED BY <2>1, <3>1, <3>2 DEF SessionInv
  <2> QED BY <2>5, <2>6, <2>7, <2>8, <2>9 DEF ShellInv
<1>8. ASSUME NEW t \in Turns, ReadSession(t) PROVE ShellInv'
  <2> DEFINE existing == draft[t].session
             old == IF existing = Null THEN Null ELSE bound[existing]
             new == draft[t].resource
  <2>1. /\ handler[t] = "begun" /\ handler' = [handler EXCEPT ![t] = "read"]
        /\ UNCHANGED <<shell, poll, bound, row, lost, history>>
    BY <1>8 DEF ReadSession
  <2>2. /\ existing = Null \/ (existing \in Turns /\ Saved(existing))
        /\ old \in Resources \cup {Null} /\ new \in Resources \cup {Null}
    BY <1>a, <2>1 DEF TypeOK, SessionInv, Saved
  <2>3. draft' = [draft EXCEPT ![t] = [@ EXCEPT !.session = IF existing = Null THEN t ELSE existing,
                                                !.resource = IF new = Null THEN old ELSE new,
                                                !.stale = old # Null /\ new \notin {Null, old}]]
    BY <1>8 DEF ReadSession
  <2>4. /\ handler'[t] = "read" /\ draft'[t].session = IF existing = Null THEN t ELSE existing
        /\ \A u \in Turns : u # t => handler'[u] = handler[u] /\ draft'[u] = draft[u]
    BY <1>a, <2>1, <2>3 DEF TypeOK
  <2>5. TypeOK'
    <3>1. draft' \in [Turns -> [session : Turns \cup {Null}, resource : Resources \cup {Null},
                                stale : BOOLEAN, final : Resources \cup {Null}]]
      <4>1. draft \in [Turns -> [session : Turns \cup {Null}, resource : Resources \cup {Null},
                                 stale : BOOLEAN, final : Resources \cup {Null}]]
        BY <1>a DEF TypeOK
      <4>2. \A s \in Turns, r \in Resources \cup {Null}, b \in BOOLEAN :
              [draft[t] EXCEPT !.session = s, !.resource = r, !.stale = b]
                \in [session : Turns \cup {Null}, resource : Resources \cup {Null},
                     stale : BOOLEAN, final : Resources \cup {Null}]
        BY <4>1
      <4>3. /\ (IF existing = Null THEN t ELSE existing) \in Turns
            /\ (IF new = Null THEN old ELSE new) \in Resources \cup {Null}
            /\ (old # Null /\ new \notin {Null, old}) \in BOOLEAN
        BY <2>2
      <4>4. [draft[t] EXCEPT !.session = IF existing = Null THEN t ELSE existing,
                             !.resource = IF new = Null THEN old ELSE new,
                             !.stale = old # Null /\ new \notin {Null, old}]
              \in [session : Turns \cup {Null}, resource : Resources \cup {Null},
                   stale : BOOLEAN, final : Resources \cup {Null}]
        BY <4>2, <4>3
      <4> HIDE DEF existing, old, new
      <4> QED BY <2>3, <4>1, <4>4
    <3> QED BY <1>a, <2>1, <3>1 DEF TypeOK
  <2> HIDE DEF existing, old, new
  <2>6. PollInv'
    BY <1>a, <2>1, <2>4 DEF TypeOK, PollInv, PolledIsAwaited, PendingIsPolled, Answered
  <2>7. RowInv'
    BY <1>a, <2>1, <2>4 DEF RowInv
  <2>8. SendInv'
    BY <1>a, <2>1, <2>4 DEF SendInv, Running
  <2>9. SessionInv'
    <3>1. OtherSessionsFailed' /\ (sessionId # Null => Saved(sessionId))'
      BY <1>a, <2>1 DEF SessionInv, OtherSessionsFailed, Saved
    <3>2. ASSUME NEW u \in Turns
          PROVE  (/\ handler[u] = "unsent" => ~Saved(u)
                  /\ handler[u] = "begun" => draft[u].session = Null \/ Saved(draft[u].session)
                  /\ Working(u) => /\ draft[u].session \in Turns
                                   /\ \/ handler[u] = "read" /\ draft[u].session = u
                                      \/ Saved(draft[u].session))'
      <4>1. CASE u = t
        BY <2>1, <2>2, <2>4, <4>1 DEF Working, Saved
      <4>2. CASE u # t
        BY <1>a, <2>1, <2>4, <4>2 DEF SessionInv, Working, Saved
      <4> QED BY <4>1, <4>2
    <3>3. (asking # Null =>
            /\ Saved(asking) => draft[asking].session = asking
            /\ draft[asking].session = sessionId
                 \/ (sessionId = Null /\ draft[asking].session = asking))'
      BY <1>a, <2>1, <2>2, <2>4 DEF TypeOK, SessionInv, Saved, existing
    <3> QED BY <3>1, <3>2, <3>3 DEF SessionInv
  <2> QED BY <2>5, <2>6, <2>7, <2>8, <2>9 DEF ShellInv
<1>g. ASSUME NEW t \in Turns, handler[t] \in {"read", "saved", "created", "started", "final"}
      PROVE  /\ Running(t) /\ draft[t].session \in Turns
             /\ draft[t].resource \in Resources \cup {Null} /\ draft[t].final \in Resources \cup {Null}
             /\ handler[t] # "read" => bound[draft[t].session] \in Resources \cup {Null}
  BY <1>a, <1>g DEF TypeOK, SessionInv, Running, Working, Saved
<1>h. ASSUME NEW t \in Turns, NEW session \in Turns, NEW resource \in Resources \cup {Null},
             bound' = [bound EXCEPT ![session] = resource]
      PROVE  /\ bound' \in [Turns -> Resources \cup {Null, Absent}]
             /\ bound'[session] # Absent /\ \A s \in Turns : s # session => bound'[s] = bound[s]
  BY <1>a, <1>h DEF TypeOK
<1>9. ASSUME NEW t \in Turns, SaveSession(t) PROVE ShellInv'
  <2>1. /\ handler[t] = "read" /\ handler' = [handler EXCEPT ![t] = "saved"]
        /\ bound' = [bound EXCEPT ![draft[t].session] = draft[t].resource]
        /\ UNCHANGED <<shell, draft, poll, row, lost, history>>
    BY <1>9 DEF SaveSession, Save
  <2>2. PollInv' /\ SendInv' /\ SessionInv'
    BY <1>g, <1>h, <2>1, HandlerStep
  <2>3. TypeOK'
    BY <1>a, <1>g, <1>h, <2>1 DEF TypeOK
  <2>4. RowInv'
    BY <1>a, <2>1 DEF TypeOK, RowInv
  <2> QED BY <2>2, <2>3, <2>4 DEF ShellInv
<1>10. ASSUME NEW t \in Turns, CreateJob(t) PROVE ShellInv'
  <2>1. /\ handler[t] = "saved" /\ handler' = [handler EXCEPT ![t] = "created"]
        /\ row' = [row EXCEPT ![t] = PreparedRow(CreatedRow)]
        /\ bound' = [bound EXCEPT ![draft[t].session] = draft[t].resource]
        /\ UNCHANGED <<shell, draft, poll, lost, history>>
    BY <1>10 DEF CreateJob, Save
  <2>2. row[t] \in JobRow /\ \A u \in Turns : u # t => row'[u] = row[u]
    BY <1>a, <2>1 DEF TypeOK
  <2>3. PollInv' /\ SendInv' /\ SessionInv'
    BY <1>g, <1>h, <2>1, <2>2, HandlerStep
  <2>4. TypeOK'
    BY <1>a, <1>g, <1>h, <2>1, <2>2, RowsWritten DEF TypeOK
  <2>6. row'[t].status = "pending" /\ row'[t].prepared /\ handler'[t] = "created"
    <3>1. row'[t] = PreparedRow(CreatedRow) /\ handler'[t] = "created"
      BY <1>a, <2>1 DEF TypeOK
    <3> QED BY <2>2, <3>1, RowsWritten
  <2>5. RowInv'
    BY <1>a, <2>1, <2>2, <2>6 DEF TypeOK, RowInv
  <2> QED BY <2>3, <2>4, <2>5 DEF ShellInv
<1>11. ASSUME NEW t \in Turns, StartJob(t) PROVE ShellInv'
  <2>1. /\ handler[t] = "created" /\ handler' = [handler EXCEPT ![t] = "started"]
        /\ row' = [row EXCEPT ![t] = StartedRow(BoundRow(row[t]))]
        /\ UNCHANGED <<shell, draft, bound, poll, lost, history>>
    BY <1>11 DEF StartJob
  <2>2. row[t] \in JobRow /\ \A u \in Turns : u # t => row'[u] = row[u]
    BY <1>a, <2>1 DEF TypeOK
  <2>3. PollInv' /\ SendInv' /\ SessionInv'
    BY <1>a, <1>g, <2>1, <2>2, HandlerStep
  <2>4. TypeOK'
    BY <1>a, <2>1, <2>2, RowsWritten DEF TypeOK
  <2>6. row'[t].status = "running" /\ row'[t].prepared
    <3>1. row'[t] = StartedRow(BoundRow(row[t])) /\ row[t].prepared
      BY <1>a, <2>1 DEF TypeOK, RowInv
    <3> QED BY <2>2, <3>1, RowsWritten
  <2>5. RowInv'
    BY <1>a, <2>1, <2>2, <2>6 DEF TypeOK, RowInv
  <2> QED BY <2>3, <2>4, <2>5 DEF ShellInv
<1>12. ASSUME NEW t \in Turns, ReadBack(t) PROVE ShellInv'
  <2>1. /\ handler[t] \in {"saved", "started"} /\ handler' = [handler EXCEPT ![t] = "final"]
        /\ draft' = [draft EXCEPT ![t].final = bound[draft[t].session]]
        /\ UNCHANGED <<shell, poll, bound, row, lost, history>>
    BY <1>12 DEF ReadBack
  <2>2. /\ draft'[t].session = draft[t].session /\ \A u \in Turns : u # t => draft'[u] = draft[u]
        /\ draft' \in [Turns -> [session : Turns \cup {Null}, resource : Resources \cup {Null},
                                 stale : BOOLEAN, final : Resources \cup {Null}]]
    BY <1>a, <1>g, <2>1 DEF TypeOK
  <2>6. bound[draft[t].session] # Absent /\ Running(t) /\ handler[t] # "begun"
    BY <1>a, <1>g, <2>1
  <2>7. bound' = bound /\ row' = row
    BY <2>1
  <2>3. PollInv' /\ SendInv' /\ SessionInv'
    BY <2>1, <2>2, <2>6, <2>7, HandlerStep
  <2>4. TypeOK'
    BY <1>a, <2>1, <2>2 DEF TypeOK
  <2>5. RowInv'
    BY <1>a, <2>1 DEF TypeOK, RowInv
  <2> QED BY <2>3, <2>4, <2>5 DEF ShellInv
<1>13. ASSUME NEW t \in Turns, Finish(t) PROVE ShellInv'
  <2>1. /\ handler[t] = "final" /\ handler' = [handler EXCEPT ![t] = "done"]
        /\ bound' = [bound EXCEPT ![draft[t].session] = draft[t].final]
        /\ draft' = [draft EXCEPT ![t] = IF t = asking THEN [@ EXCEPT !.final = Null] ELSE NoDraft]
        /\ UNCHANGED <<shell, poll, row, lost, history>>
    BY <1>13 DEF Finish
  <2>2. /\ t = asking => draft'[t].session = draft[t].session
        /\ \A u \in Turns : u # t => draft'[u] = draft[u]
        /\ draft' \in [Turns -> [session : Turns \cup {Null}, resource : Resources \cup {Null},
                                 stale : BOOLEAN, final : Resources \cup {Null}]]
    BY <1>a, <2>1 DEF TypeOK, NoDraft
  <2>3. PollInv' /\ SendInv' /\ SessionInv'
    BY <1>g, <1>h, <2>1, <2>2, HandlerStep
  <2>4. TypeOK'
    BY <1>a, <1>g, <1>h, <2>1, <2>2 DEF TypeOK
  <2>5. RowInv'
    BY <1>a, <2>1 DEF TypeOK, RowInv
  <2> QED BY <2>3, <2>4, <2>5 DEF ShellInv
<1>14. CASE UNCHANGED vars
  <2>1. SendInv' /\ SessionInv'
    BY <1>14, PollingStep DEF vars
  <2>2. TypeOK' /\ PollInv' /\ RowInv'
    BY <1>14, <1>a DEF vars, TypeOK, PollInv, PolledIsAwaited, PendingIsPolled, Answered, RowInv
  <2> QED BY <2>1, <2>2 DEF ShellInv
<1> QED
  BY <1>1, <1>2, <1>3, <1>4, <1>5, <1>6, <1>7, <1>8, <1>9, <1>10, <1>11, <1>12, <1>13, <1>14
  DEF Next, Handle

LEMMA ShellAlways == Spec => []ShellInv
BY ShellInit, ShellNext, PTL DEF Spec

\* Each variable has its type: the delay of the timer stays between its first
\* value and its cap, and a failure that is counted is one of the first three.
THEOREM ShellTypeCorrect == Spec => []TypeOK
<1>1. ShellInv => TypeOK
  BY DEF ShellInv
<1> QED BY <1>1, ShellAlways, PTL

\* A job is polled exactly while it is the active one, its message waits for it
\* and no turn can be sent, whatever is lost.
THEOREM PolledAwaited == Spec => []PolledIsAwaited
<1>1. ShellInv => PolledIsAwaited
  BY DEF ShellInv, PollInv
<1> QED BY <1>1, ShellAlways, PTL

\* No message waits for a job that nobody polls, unless the shell has shown that
\* its job ended badly.
THEOREM NothingWaitsInSilence == Spec => []PendingIsPolled
<1>1. ShellInv => PendingIsPolled
  BY DEF ShellInv, PollInv
<1> QED BY <1>1, ShellAlways, PTL

\* Two turns run in the back end at a time only after the answer of the earlier
\* one was lost.
THEOREM OneTurnUnlessLost == Spec => []OverlapOnlyAfterLoss
<1>1. ShellInv => OverlapOnlyAfterLoss
  <2> SUFFICES ASSUME ShellInv, NEW t \in Turns, NEW u \in Turns,
                      t < u, Running(t), handler[u] # "unsent"
               PROVE  t \in failed
    BY DEF OverlapOnlyAfterLoss
  <2>1. t \in failed \cup {asking}
    BY DEF ShellInv, SendInv
  <2>2. t # asking
    BY NullIsNoTurn DEF ShellInv, SendInv
  <2> QED BY <2>1, <2>2
<1> QED BY <1>1, ShellAlways, PTL

\* Every session that is not the shell's was created by a turn that failed, or
\* that is awaited.
THEOREM NoSessionIsForgotten == Spec => []OtherSessionsFailed
<1>1. ShellInv => OtherSessionsFailed
  BY DEF ShellInv, SessionInv
<1> QED BY <1>1, ShellAlways, PTL

\* A job is dropped without its result only because it ended badly, or because
\* four polls in a row were lost or one was refused for good.
THEOREM GivesUpInTime == Spec => NeverGivesUpEarly
<1> DEFINE Reason == \/ messages'[activeJob] = "result"
                     \/ row[activeJob].status \in {"failed", "cancelled", "expired"}
                     \/ streak' >= 4
<1>1. ShellInv /\ [Next]_vars => [activeJob # Null /\ activeJob' = Null => Reason]_vars
  <2> SUFFICES ASSUME ShellInv, Next, activeJob # Null, activeJob' = Null PROVE Reason
    OBVIOUS
  <2> USE DEF shell, backEnd, history
  <2>1. /\ activeJob \in Turns /\ asking = Null /\ row[activeJob] \in JobRow
        /\ row[activeJob].status \notin {"absent", "pending"} /\ row[activeJob].prepared
        /\ streak = poll.failures /\ poll.failures \in 0..(MAX_JOB_POLL_FAILURES - 1)
        /\ messages \in [Turns -> {"none", "plain", "pending", "result"}]
        /\ Answered => poll.phase = row[activeJob].status
    BY DEF ShellInv, TypeOK, PollInv, PolledIsAwaited, RowInv
  <2>2. CASE TakeAnswer
    <3>1. CASE replacePendingJobResponse
      BY <2>1, <3>1 DEF replacePendingJobResponse
    <3>2. CASE ResultAction(poll.phase, row[activeJob].prepared) = "fail"
      BY <2>1, <2>2, <3>2 DEF TakeAnswer, ResultAction, JobRow, Transient, Terminal
    <3> QED BY <2>2, <3>1, <3>2 DEF TakeAnswer
  <2>3. ASSUME NEW client \in BOOLEAN, FailPoll(client) PROVE Reason
    <3>1. FailureAction(client, poll.failures) = "fail"
      BY <2>3 DEF FailPoll
    <3>2. client \/ poll.failures + 1 >= 4
      BY <3>1 DEF FailureAction, MAX_JOB_POLL_FAILURES
    <3>3. streak' = streak + (IF client THEN 4 ELSE 1)
      BY <2>3 DEF FailPoll
    <3> QED BY <2>1, <3>2, <3>3 DEF MAX_JOB_POLL_FAILURES
  <2>4. CASE \E t \in Turns : Submit(t) \/ Handle(t)
    BY <2>4 DEF Submit, Handle, ReadSession, SaveSession, CreateJob, StartJob, ReadBack, Finish
  <2>5. CASE TakeChatResponse \/ \E raises \in BOOLEAN : FailChat(raises)
    BY <2>1, <2>5 DEF TakeChatResponse, FailChat
  <2>6. CASE AskForJob \/ ServePoll
    BY <2>6 DEF AskForJob, ServePoll
  <2> QED BY <2>2, <2>3, <2>4, <2>5, <2>6 DEF Next
<1> QED BY <1>1, ShellAlways, PTL DEF Spec, NeverGivesUpEarly

-----------------------------------------------------------------------------
(* The resource on the screen.                                             *)

LEMMA ResourceNext == ShellInv /\ ResourceInv /\ [Next]_vars => ResourceInv'
<1> SUFFICES ASSUME ShellInv, ResourceInv, [Next]_vars, failed' = {} PROVE ResourceInv'
  BY DEF ResourceInv
<1> USE DEF shell, backEnd, history
<1>a. /\ TypeOK /\ SendInv /\ SessionInv /\ Null \notin Turns
      /\ sessionId \in Turns \cup {Null} /\ asking \in Turns \cup {Null}
  BY NullIsNoTurn DEF ShellInv, TypeOK
<1>b. failed = {}
  BY DEF Next, vars, Submit, Handle, ReadSession, SaveSession, CreateJob, StartJob, ReadBack, Finish,
         TakeChatResponse, FailChat, AskForJob, ServePoll, TakeAnswer, FailPoll
<1>c. /\ sessionId = Null => activeResource = Null
      /\ sessionId # Null /\ (asking = Null \/ handler[asking] \in {"begun", "read"}) =>
           bound[sessionId] = activeResource
      /\ asking # Null /\ handler[asking] # "begun" =>
           \/ activeResource = Null \/ draft[asking].stale
           \/ draft[asking].resource = activeResource
      /\ asking # Null /\ handler[asking] \notin {"begun", "read"} =>
           bound[draft[asking].session] = draft[asking].resource
      /\ asking # Null /\ handler[asking] = "final" => draft[asking].final = draft[asking].resource
  BY <1>b DEF ResourceInv
\* Only the turn that is awaited runs.
<1>d. \A t \in Turns : Running(t) => t = asking
  BY <1>a, <1>b DEF SendInv
<1>1. CASE UNCHANGED <<asking, sessionId, activeResource, handler, draft, bound>>
  BY <1>1, <1>c DEF ResourceInv
<1>2. ASSUME NEW t \in Turns, Submit(t) PROVE ResourceInv'
  <2>1. asking = Null /\ asking' = t /\ handler'[t] = "begun"
        /\ UNCHANGED <<sessionId, activeResource, bound>>
    BY <1>2, <1>a DEF ShellInv, PollInv, TypeOK, Submit, Send
  <2> QED BY <1>a, <1>c, <2>1 DEF ResourceInv
<1>3. CASE TakeChatResponse
  <2>1. /\ asking \in Turns /\ handler[asking] = "done" /\ asking' = Null
        /\ sessionId' = draft[asking].session /\ activeResource' = draft[asking].resource
        /\ bound' = bound
    BY <1>3, <1>a DEF TakeChatResponse
  <2>2. sessionId' # Null
    BY <1>a, <2>1 DEF SessionInv, Working
  <2> QED BY <1>a, <1>c, <2>1, <2>2 DEF ResourceInv
<1>4. ASSUME NEW raises \in BOOLEAN, FailChat(raises) PROVE ResourceInv'
  BY <1>4 DEF FailChat
<1>5. ASSUME NEW t \in Turns, ReadSession(t) PROVE ResourceInv'
  <2> DEFINE existing == draft[t].session
             old == IF existing = Null THEN Null ELSE bound[existing]
             new == draft[t].resource
  <2>1. /\ t = asking /\ handler[t] = "begun" /\ handler'[t] = "read"
        /\ UNCHANGED <<shell, bound>>
    BY <1>5, <1>a, <1>d DEF ReadSession, Running, TypeOK
  <2>2. /\ draft'[t].resource = IF new = Null THEN old ELSE new
        /\ draft'[t].stale = (old # Null /\ new \notin {Null, old})
    <3>1. draft' = [draft EXCEPT ![t] = [@ EXCEPT !.session = IF existing = Null THEN t ELSE existing,
                                                  !.resource = IF new = Null THEN old ELSE new,
                                                  !.stale = old # Null /\ new \notin {Null, old}]]
      BY <1>5 DEF ReadSession
    <3>2. draft \in [Turns -> [session : Turns \cup {Null}, resource : Resources \cup {Null},
                               stale : BOOLEAN, final : Resources \cup {Null}]]
      BY <1>a DEF TypeOK
    <3> HIDE DEF existing, old, new
    <3> QED BY <3>1, <3>2
  <2>3. activeResource # Null => old = activeResource
    BY <1>a, <1>c, <2>1 DEF SessionInv, Saved
  <2>4. activeResource = Null \/ draft'[t].stale \/ draft'[t].resource = activeResource
    BY <2>2, <2>3
  <2> HIDE DEF existing, old, new
  <2> QED BY <1>a, <1>c, <2>1, <2>4 DEF ResourceInv
\* From here on the turn works on the session that it read.
<1>e. ASSUME NEW t \in Turns, NEW label \in {"saved", "created", "started", "final", "done"},
             handler[t] \in {"read", "saved", "created", "started", "final"},
             handler'[t] = label, UNCHANGED shell,
             t = asking =>
               /\ draft'[t].session = draft[t].session /\ draft'[t].resource = draft[t].resource
               /\ draft'[t].stale = draft[t].stale,
             t = asking => bound'[draft[t].session] = draft[t].resource,
             t = asking /\ label = "final" => draft'[t].final = draft[t].resource
      PROVE  ResourceInv'
  <2>1. t = asking /\ asking' = asking /\ sessionId' = sessionId /\ activeResource' = activeResource
    BY <1>d, <1>e DEF Running
  <2> QED BY <1>a, <1>c, <1>e, <2>1 DEF ResourceInv
<1>f. draft \in [Turns -> [session : Turns \cup {Null}, resource : Resources \cup {Null},
                           stale : BOOLEAN, final : Resources \cup {Null}]]
      /\ bound \in [Turns -> Resources \cup {Null, Absent}]
      /\ handler \in [Turns -> {"unsent", "begun", "read", "saved", "created", "started",
                                "final", "done", "raised"}]
      /\ \A t \in Turns : handler[t] \in {"read", "saved", "created", "started", "final"} =>
           draft[t].session \in Turns
  BY <1>a DEF TypeOK, SessionInv, Working
<1>6. ASSUME NEW t \in Turns, SaveSession(t) PROVE ResourceInv'
  <2>1. /\ handler[t] = "read" /\ handler'[t] = "saved" /\ UNCHANGED <<shell, draft>>
        /\ bound'[draft[t].session] = draft[t].resource
    BY <1>6, <1>f DEF SaveSession, Save
  <2> QED BY <1>e, <2>1
<1>7. ASSUME NEW t \in Turns, CreateJob(t) PROVE ResourceInv'
  <2>1. /\ handler[t] = "saved" /\ handler'[t] = "created" /\ UNCHANGED <<shell, draft>>
        /\ bound'[draft[t].session] = draft[t].resource
    BY <1>7, <1>f DEF CreateJob, Save
  <2> QED BY <1>e, <2>1
<1>8. ASSUME NEW t \in Turns, StartJob(t) PROVE ResourceInv'
  <2>1. /\ handler[t] = "created" /\ handler'[t] = "started" /\ UNCHANGED <<shell, draft, bound>>
    BY <1>8, <1>f DEF StartJob
  <2>2. t = asking => bound'[draft[t].session] = draft[t].resource
    BY <1>a, <1>c, <2>1
  <2> QED BY <1>e, <2>1, <2>2
<1>9. ASSUME NEW t \in Turns, ReadBack(t) PROVE ResourceInv'
  <2>1. /\ handler[t] \in {"saved", "started"} /\ handler'[t] = "final" /\ UNCHANGED <<shell, bound>>
        /\ draft'[t].session = draft[t].session /\ draft'[t].resource = draft[t].resource
        /\ draft'[t].stale = draft[t].stale /\ draft'[t].final = bound[draft[t].session]
    BY <1>9, <1>f DEF ReadBack
  <2>2. t = asking => bound[draft[t].session] = draft[t].resource
    BY <1>a, <1>c, <2>1
  <2> QED BY <1>e, <2>1, <2>2
<1>10. ASSUME NEW t \in Turns, Finish(t) PROVE ResourceInv'
  <2>1. /\ handler[t] = "final" /\ handler'[t] = "done" /\ UNCHANGED shell
        /\ bound'[draft[t].session] = draft[t].final
    BY <1>10, <1>f DEF Finish
  <2>2. t = asking =>
          /\ draft'[t].session = draft[t].session /\ draft'[t].resource = draft[t].resource
          /\ draft'[t].stale = draft[t].stale
    BY <1>10, <1>f DEF Finish
  <2>3. t = asking => draft[t].final = draft[t].resource
    BY <1>a, <1>c, <2>1
  <2> QED BY <1>e, <2>1, <2>2, <2>3
<1>11. CASE AskForJob \/ ServePoll \/ TakeAnswer \/ (\E client \in BOOLEAN : FailPoll(client))
            \/ UNCHANGED vars
  BY <1>1, <1>11
  DEF vars, AskForJob, ServePoll, TakeAnswer, FailPoll, replacePendingJobResponse, markJobError
<1> QED
  BY <1>2, <1>3, <1>4, <1>5, <1>6, <1>7, <1>8, <1>9, <1>10, <1>11 DEF Next, Handle

\* The user is not moved to another resource without the warning that the
\* context is stale, unless a turn failed before.
THEOREM NoSwitchInSilence == Spec => NoSilentSwitch
<1>1. Init => ResourceInv
  BY DEF Init, ResourceInv
<1>2. ShellInv /\ ResourceInv /\ [Next]_vars =>
        [activeResource # Null /\ activeResource' # activeResource =>
           draft[asking].stale \/ failed # {}]_vars
  <2> SUFFICES ASSUME ShellInv, ResourceInv, Next, failed = {},
                      activeResource # Null, activeResource' # activeResource
               PROVE  draft[asking].stale
    OBVIOUS
  <2>1. TakeChatResponse
    BY DEF Next, shell, Submit, Handle, ReadSession, SaveSession, CreateJob, StartJob, ReadBack, Finish,
           FailChat, AskForJob, ServePoll, TakeAnswer, FailPoll
  <2> QED BY <2>1 DEF TakeChatResponse, ResourceInv
<1> QED BY <1>1, <1>2, ShellAlways, ResourceNext, PTL DEF Spec, NoSilentSwitch

=============================================================================
