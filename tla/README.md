# Meridian Logistics: a TLA+ verification of its stateful parts

This directory holds TLA+ models of the Meridian Logistics service (`backend/app`,
`frontend/src`), the TLC configurations that check them on small instances, and
TLAPS proofs of the properties that matter most. Source paths below are relative to
the repository root, with `backend/app/` left out where it is clear.

The service is a FastAPI application whose handlers are plain functions, so each
request runs in a thread of the server's pool. The threads share in-process stores
(with locks or condition variables of their own), sqlite connections, and nothing
else. Everything that is hard about the code follows from that: a handler makes
several calls of several stores, and other handlers run between any two of them.

## 1. Inventory

| component | state | operations | hard behaviour | what makes it correct |
|---|---|---|---|---|
| **Booking write gateway** (`gateway/`, `api/routes/actions.py`) | idempotency records per key, target claims per token, one condition variable for both, the shared sqlite connection | `post_confirm_action`, `execute_confirmed_booking`, `claim_record`, `complete_record`, `abandon_record`, `claim_target_execution`, `release_target_execution` | concurrent confirmations of one key, one token, one quote; statements that raise; one open transaction for all threads | a token is submitted once; one execution per key; replays are identical; submitted means committed, and stays so; everybody is answered |
| **Job store** (`jobs/store.py`, `jobs/models.py`) | one row per job: status, completion payload, refresh countdown, autonomy metadata | `create_job`, `prepare_result`, `bind_pending_response`, `start_job`, `complete_job`, `fail_job`, `expire_job`, `cancel_job`, `refresh_job`, `update_autonomy_metadata` | a status checked before the lock and written inside it; a countdown shared by pollers | terminal statuses stay; the countdown stays in range |
| **Job routes** (`api/routes/jobs.py`) | none of their own: the row they hold | `POST /jobs`, `GET /jobs`, `GET /jobs/{id}`, `/lifecycle`, `/cancel` | reading, stepping, refreshing and promoting are four calls on a row that others change | a poll's side effects fit the row as it is |
| **Chat turns** (`api/routes/chat.py`) | the session it read at its start | `POST /chat`, synchronous or background refresh | the session is read, written back, changed and written back again, while polls promote | the session shows the last turn; `last_job_id` names the newest job |
| **Session store** (`session/store.py`) | per session: last response, last job, resource binding, identity | `get_session`, `save_session`, `promote_job_completion` | lost updates; promotion compares with a value that can be set back | a stale completion never replaces a newer turn |
| **Bounded autonomy** (`autonomy/`) | step index in the job's metadata, a checkpoint file | `is_eligible_for_autonomy`, `seed_autonomy_run`, `resume_one_step`, `advance_step` | the budget is compared with metadata that another poll has already used | at most `max_steps` steps |
| **Seeded database** (`db/read_repository.py`) | loads, quotes, brokers, confirmations on one connection | read queries, the booking's UPDATEs | the seed is never committed by itself | rollbacks undo what failed and nothing else |
| **Controller runtime** (`controller/runtime.py`, `models.py`) | a checkpoint file per session | `record_stage_transition`, `prepare_compaction`, `load_checkpoint`, `resume`, `finalize_queue` | files rewritten in place by read-modify-write; crash between | a resume says what was decided last; a torn file stops the session |
| **Controller policy** (`controller/policy.py`, `precedence.py`) | none | queue decisions, stage candidates, precedence of signals | decided on the whole queue, decided again on a snapshot | deciding again on the snapshot gives the same answer |
| **Postgres job repository** (`jobs/repository.py`, `idempotent_store.py`) | jobs in a database, claims per idempotency key | the job store's operations as unguarded UPDATEs; claim, complete | read, decide and write in different transactions; claims that are not given up | one job per request, one completer per job, a prepared job ends |
| **Chat shell** (`frontend/src/`) | the transcript, the awaited turn, the active job, the session, poll delay and failure counts | submit, take an answer, poll, give up | lost answers whose handlers go on; back-off and giving up; a session that has moved on unseen | what is shown as pending is polled; giving up has a reason and is shown; the button comes back |
| **Orchestrator graph** (`orchestrator/graph.py`) | none of its own | wrappers over the controller and the job store | - | - |
| **Read tools, response builder, response renderer, contracts, configuration, identity, sessions and health routes, artifact storage, evaluations** | none that changes | pure functions, formatting, start-up, reads | - | - |

How they interact: `POST /chat` calls the session store, the job store and, when the
controller flags are on, bounded autonomy; `GET /jobs/{id}` calls autonomy, the job
store and the session store; `POST /actions/confirm` calls the gateway, which calls the
idempotency store and the database. The shell calls `POST /chat` and then polls
`GET /jobs/{id}`. The job store and the session store each guard one connection with
one lock (`state/database.py`); no lock spans two stores or two calls. `PROJECT.json`
lists the hazards this leads to, each at its line.

## 2. Modules

| module | what it is |
|---|---|
| `ConfirmedBooking` | what confirming bookings promises its callers: each request is decided in one step |
| `BookingGateway` | the gateway, one action per store call or SQL statement of a thread; its properties; the refinement mapping to `ConfirmedBooking` |
| `MCBookingGateway` | model values, small functions and the symmetry for TLC |
| `BookingGatewayProofs` | theorems about `BookingGateway`: types, who owns a key, one submission |
| `BookingPromiseProofs` | theorems about what its callers may rely on, and the steps of the refinement |
| `JobRows` | a row of the job store and what each UPDATE makes of it: operators without variables, shared by modules about jobs |
| `AsyncJobs` | chat turns, job routes, session store and autonomy composed around `JobRows` |
| `MCAsyncJobs` | symmetry for TLC |
| `AsyncJobsProofs` | theorems about `AsyncJobs`: types, no resurrection, the latest turn |
| `AsyncSessionProofs` | theorems about what the session names between turns, and about the step budget |
| `QueuePolicy` | the queue decision, the stage candidate and the precedence of signals: operators without variables |
| `ControllerCheckpoint` | the checkpoint file of one controller session over `QueuePolicy`, with crashes inside a write |
| `MCControllerCheckpoint` | queues and candidates for TLC |
| `ControllerCheckpointProofs` | lemmas about the decisions of `QueuePolicy`, theorems about the checkpoint |
| `JobRepository` | the Postgres repository and the idempotent store in front of it, one statement per step |
| `MCJobRepository` | the completers' results for TLC |
| `JobRepositoryProofs` | theorems about `JobRepository` |
| `ChatShell` | the page in the browser, composed with the handlers of its turns and with rows of `JobRows` |
| `ChatShellProofs` | theorems about `ChatShell` |

`JobRows` is what `AsyncJobs` (the back end under all its callers) and `ChatShell` (one page
and as much of the back end as it can notice) share, so the shell polls the same rows that
the routes refresh.

Definitions whose comment starts with "Mutant" are faulty variants of the definition
below them (`PROJECT.json`, "mutants"): with any one of them in the code's place, TLC
finds the property named there violated.

### BookingGateway and the code

A thread's `pc` names the call it is about to make.

| action | code |
|---|---|
| `Authorize` | `actions._trusted_action_identity`: refused when the broker rows are not there |
| `ClaimRecord`, `ReplayRecord`, `ConflictRecord`, `AwaitRecord` | `idempotency_store.claim_record` and what `execute_confirmed_booking` does with its answer |
| `ClaimTarget`, `AwaitTarget`, `ReleaseTarget` | `claim_target_execution`, `release_target_execution` |
| `ReadConfirmation`, `ReadQuote` | the two SELECTs; `StillValid` is `_stale_result_if_needed` on the confirmation fetched earlier (`seen`) and the quote as it is |
| `UpdateQuote`, `UpdateConfirmation`, `Commit` | the statements of the submit |
| `CompleteRecord` | `complete_record`, the ValueError included (it leads to `rollback`) |
| `Fault`, `Rollback`, `AbandonRecord` | a statement or the hook raises; the `except` branch |
| `Expire` | the clock passes `expires_at` |

`db` is what the shared connection sees, `saved` what was committed last. An UPDATE opens
the transaction (`inTransaction`) that any thread's commit or rollback ends; the seed rows
are inserted without a commit, so a server that has not booked yet starts with
`saved = NoRows`. `waiting` is the set of threads inside `condition.wait()`: every
`notify_all` empties it, and a woken thread tests its condition again. The data of a
request is its key, its token and its actor; a result is a status and the request whose
execution produced it, which is what the audit stamp shows. `undone` is history: the threads
that were between the check of their quote and their commit when another thread rolled back.
No action reads it.

### AsyncJobs and the code

Jobs are named by the chat request that creates them (`Chats`) or stand for `POST /jobs`
(`Posts`). `Clients` are threads that serve the routes of one job; each serves one request
after the other.

| action | code |
|---|---|
| `BeginChat` ... `SaveFinalSession` | `post_chat` from top to bottom, one action per store call. A synchronous turn saves, reads and saves the session; a background one also creates, seeds, prepares, records, binds and starts a job |
| `PostJob` | `POST /jobs` |
| `Poll`, `AskLifecycle`, `AskCancel` | the three routes' `get_job_by_poll_token` and their early returns |
| `AdvanceStep`, `AdvanceWithoutCheckpoint` | `resume_one_step`, on the row held: the step runs, or the run fails |
| `RecordStep` | `update_autonomy_metadata`, with the index counted on from the row held |
| `StepRaises` | whatever `routes/jobs.py:206` catches, before or after the step has run and before or after it is recorded |
| `CheckFail`, `WriteFailed`, `CheckCancel`, `WriteCancelled` | `fail_job` and `cancel_job`: the read and the UPDATE are two steps, as in the code, which reads before it takes the lock |
| `Refresh`, `RefreshLocked`, `Reread` | `refresh_job` |
| `Respond` | `promote_job_completion` for a poll, then the answer |
| `ChatDies`, `ClientDies` | an exception nobody catches, or the thread is gone |

`draft` is the SessionState a chat holds, `view` the JobState a client holds. A response id
is the chat it answers or the job whose result it is. `turn`, `newest`, `told`, `overtaken`,
`executed` and `disturbed` are history variables that no action reads, except that `Polled`
(fairness) looks at `turn` and `told`. Turns overlap as they like: `overtaken` holds those that
were in flight when another one was answered. `disturbed` holds the jobs that two polls advanced at
once, or of which a step ran and its index was never recorded.

### ControllerCheckpoint, QueuePolicy and the code

| definition | code |
|---|---|
| `NextTerminalOrRunnableState` | `policy.next_terminal_or_runnable_state`, which `finalize_queue_state` returns |
| `DeriveNextStageCandidate` | `policy.derive_next_stage_candidate`, with the control plane's truth as absent, aligned or misaligned |
| `ResolveControllerAction` | `precedence.resolve_controller_action` |
| `RecordStageTransition`, `PrepareCompaction`, `FinalizeQueue` | the methods of `ControllerRuntime`, up to the checkpoint they build |
| `OpenFile`, `WriteFile` | `_write_checkpoint`: `write_text` empties the file, then fills it |
| `Crash` | the process dies between two of these |
| `ResumeAction` | `resume`: an operator of the file, since it writes nothing |

The nine flags that take a wave out of Main's hands are one Boolean `risky`, the seven a
candidate must pass are `safe`: each is read by one conjunction. A queue snapshot
(`QueueState`) has no flags, as in `models.py`; `AsItem` is the item that `resume` builds from
it. A file that exists and cannot be read is `Torn`, whatever it holds. `told`, `torn`, `held`
and `compacted` are history.

### JobRepository and the code

| action | code |
|---|---|
| `ClaimCreate`, `LookUpCreated`, `InsertJob`, `RecordCreated`, `CreateRaises` | `IdempotentJobStore.create_job` |
| `CheckCompletion`, `ClaimCompletion`, `LookUpCompleted`, `WriteCompletion`, `RecordCompletion`, `CompleteRaises` | `complete_job` of the same class |
| `ReadJob`, `WritePlan` | `JobRepository.refresh`: the SELECT, and the UPDATE it decides on |
| `Start`, `PrepareResult`, `Fail`, `CleanupOld` | the repository's statements, which any caller may issue at any time |

An UPDATE carries no condition on the status, so `CompletedRow` and `CountedRow` go over
whatever the row holds. Creators share one request; completers name any job and have
each one result (`brings`), the same or different ones. `claim_record` lets a caller wait while its key is claimed: its action is
not enabled then.

### ChatShell and the code

| action | code |
|---|---|
| `Submit`, `TakeChatResponse`, `FailChat` | `handleSubmit` up to the request, `applyChatResponse`, its `catch` |
| `AskForJob`, `TakeAnswer`, `FailPoll` | the timer of the poll effect, its `then` and its `catch` |
| `ServePoll` | `GET /jobs/{id}`: bounded autonomy may fail the job, then it is refreshed |
| `ReadSession`, `SaveSession`, `CreateJob`, `StartJob`, `ReadBack`, `Finish` | `post_chat`, with what it does to the session's resource and to the job's row |
| `ResultAction`, `FailureAction`, `nextRunningJobPollDelay`, `FailedPollDelay` | the functions of `job-polling.js` |

A turn names its message, its job and the session it creates. `draft` holds the request while
its handler runs and then the answer until the shell takes it. `FailChat(FALSE)` loses an
answer, or the wait for it, while the handler goes on; `FailChat(TRUE)` is a handler that
raises. `FailPoll(TRUE)` is a final 4xx. The prompt is free: every turn may or may not need a
job, and may name any resource or none. `failed`, `givenUp` and `streak` are history.

## 3. What the runs check

| run | instance | what it shows |
|---|---|---|
| `gateway_safety` | 3 requests, 2 keys, 2 tokens of one quote, 2 actors, no faults | `AtMostOneSubmission`, `ConsumedMeansSubmitted`, types; `ImplementsConfirmedBooking`: when no statement raises, the threads look to their callers like the one-step executions of `ConfirmedBooking` |
| `gateway_faults` | 3 requests, 2 keys, 1 token, 2 actors, 2 faults, fairness | `OneExecutionPerKey`, `ReplayIsSame`, `CompletedIsFinal` hold when statements raise, and so does `SubmittedIsDurable` for every booking that no other thread's rollback ran into; `EveryRequestAnswered`: no lost wake-up and no cycle between the two claims, whatever raises |
| `jobs_turns` | 3 chats that overlap, 1 client, 2 faults | `SessionTracksLatestTurn`, `StaleOnlyIfOvertaken`, `LastJobIsNewest`, `AnsweredIsPromoted`: what the session shows and names, however turns overlap each other and a poll, and wherever handlers die |
| `jobs_live` | a chat, a posted job, 2 clients, autonomy with a budget of 2, 2 faults, fairness | `ResultReachesSession`, `NoResurrection`, `StepsWithinBudget`, types: two routes of one job at once, with steps and updates that raise and handlers that die |
| `controller_safety` | queues of up to 2 waves of every kind, all signals, crashes anywhere, 2 compactions | `FinalizedIsResumed`: the snapshot of one flagless item leads to the decision the whole queue led to; `TornMeansReview`; `SequenceCountsCompactions`; types |
| `repository` | 2 creators of one request, 2 completers with the same or different results, 2 refreshers, 2 rows, 1 fault, fairness | `SameJobForAll`, `SecondRowOnlyAfterCleanup`, `CompletedByOne`, `PreparedJobEnds`, `AnsweredUnlessError`, types |
| `shell` | 3 turns, 2 resources, 4 losses, fairness | `PolledIsAwaited`, `PendingIsPolled`, `OverlapOnlyAfterLoss`, `OtherSessionsFailed`, `NeverGivesUpEarly`, `NoSilentSwitch`, `EveryTurnSettles`, types |
| `gateway_double_quote`, `gateway_double_submit`, `jobs_promotion`, `jobs_terminal`, `controller_approval` | as small as shows it | violated: the findings below |

**Bounds.** Two tokens and two keys give every relation two requests can have (same key or
not, same token or not); the third request is the one that retries, or that waits while the
other two work. `gateway_faults` has one token, so that every request competes for it, and
a second fault, so that a recovery fails too. `Init` ranges over what each request asks for
and over which rows exist. `MaxFaults` bounds the statements that raise or the handlers that
die; one is enough for each finding and each recovery path, since every fault leads to the
same branch. `gateway_double_submit` has one token, so that no request can interfere but through
its claims. `jobs_turns` has three chats because a stale promotion takes three turns: the one
whose answer is old, one that is answered after it, and one that began before that and carries
the old answer on. `jobs_live` has one, because what overlapping turns do to the session is
`jobs_turns`' question; its two clients are two polls, or a poll and a cancellation, of one job, its
budget of 2 leaves a step to repeat, and the second fault is a step that raises after the first one
was lost. There `CompletionRefreshPolls` is 1, so that the countdown
has a step before its end and one at 0. For the controller, a decision depends on the first
item that passes each of three tests, so two waves of each of the seven kinds give every
combination of them with an order; the second compaction is the one that increments a
carried number. For the repository, two rows are a job and the one a replay inserts after a
clean-up, and `Refreshes` is 2 so that one refresher can set another's countdown back. For
the shell, `MaxLost` is 4 because a premature giving up shows with three failures, an answer
and one more; three turns are one whose answer is lost, one that overlaps with it, and one
that finds what both left. Symmetry is used in runs without liveness only, over values the
specification treats alike.

**Fairness.** `BookingGateway!Spec`: weak fairness of every thread's steps, because a thread
of the pool that can run is run; faults and the clock owe nothing. `AsyncJobs!Spec`: weak
fairness of every handler that has begun; nothing makes a client send a request.
`PollingSpec` adds strong fairness of polls of the job the caller cares about, because
`App.jsx:410-476` polls the active job again after each answer until the job is over.
Strong, since a poll needs a free thread of the pool again and again rather than all the
time. The shell gives up after four failures in a row (`job-polling.js:74-101`), so `jobs_live`
says what happens when requests do not go on failing: two may raise or die there, not all. `shell`
says what happens when they do go on. `JobRepository!FairSpec`: weak fairness of each caller's and
refresher's steps; nothing makes anyone start, prepare, fail or clean up a job.
`ChatShell!Spec`: weak fairness of each handler, of taking the answer of a turn, and of the
poll's own steps (timers fire, the browser settles every request it sent); losses and the
user owe nothing. `ControllerCheckpoint` states none: the controller is called from outside.

**Overlapping turns.** Nothing in the back end keeps two turns of one session apart, so
`AsyncJobs` does not either. `ChatShell` says when the shell sends such turns
(`OverlapOnlyAfterLoss`); another caller of the API may send them at any time. What overlapping costs is in
the properties: until every overtaken turn is answered the session may show an older answer, and
a poll may promote that answer's job (`StaleOnlyIfOvertaken`; finding 3 is the unconditional claim).

## 4. Findings

Each is a run whose one property is violated; `PROJECT.json` quotes both sides.

1. `gateway_double_quote`: two confirmation tokens of one quote are both booked. The claim
   is on the token; the quote's eligibility is read and written in separate steps.
2. `gateway_double_submit`: one token is submitted twice. A request whose statement raised
   gives its key up (`booking_actions.py:266`) before it releases its target (`:274`). In between, another
   request of the same key claims the key anew and is let in on the target claim, which still
   stands under that key (`idempotency_store.py:150`). The first one's release pops that claim
   (`:164-165`), a request under another key claims the target, and both go on.
3. `jobs_promotion`: a poll overwrites a newer turn with an older job's result, when three turns
   overlap: a turn began while the session showed the job's pending answer and writes that back
   (`routes/chat.py:272`) after the newer turn was answered.
4. `jobs_terminal`: `cancel_job` checks a status read before the lock, so a succeeded job becomes
   cancelled. (`fail_job` is written the same way. `refresh_job` checks again inside: the other
   direction, `NoResurrection`, holds and is proved.)
5. `controller_approval`: `finalize_queue` holds a wave with a risk flag for the user's
   approval (`runtime.py:528-621`); a stage transition routed to review or repair clears
   the terminal state (`:156`) and keeps the snapshot, which has no flags; `resume` then
   approves the wave by itself (`:373`) and continues.
   `docs/plans/queue-finalization-contract.md:60` and `:62` leave such a wave to the user.

Three properties that hold are stated with an exemption, and the exempted case is what the code does:

- `SubmittedIsDurable`: a rollback on the shared connection (`booking_actions.py:265`) undoes
  the UPDATEs of any thread that has not committed yet. That thread then commits nothing, and its
  caller is told "submitted". Without `undone` in the property TLC finds this with one token and two
  faults, or two tokens and one.
- `StepsWithinBudget`: two polls at once both run the step that they both read; and a step whose
  recording raises (`routes/jobs.py:185`), or whose handler dies before it, is run again by the
  next poll. In both cases a job may run more steps than its budget.
- `LastJobIsNewest`: of two turns that overlap, the one that ends last may not have created
  the newest job; and a handler that dies after its row is inserted leaves a job that no session names.

The hazards in `PROJECT.json` that have no property, or whose properties hold under a
restriction, name in their notes what the code does beyond it: a job of `POST /jobs` is never
started; a row whose handler died stays pending; an idempotency key whose holder failed is
never given up, and a restart forgets all of them; a retry after a lost answer is not warned of a changed
resource.

## 5. What is proved

Every safety invariant and every action property that a passing run checks is also a
theorem, for every value of the constants that satisfies the modules' assumptions, and so is
the refinement. A hypothesis that the table names is one that the property needs: without it TLC finds
a counterexample on instances like those of the runs.

| theorem | property | hypothesis |
|---|---|---|
| `BookingGatewayProofs!TypeCorrect` | `TypeOK` | |
| `BookingGatewayProofs!KeyIsOwned` | `OneExecutionPerKey` | |
| `BookingGatewayProofs!CompletedStays` | `CompletedIsFinal` | |
| `BookingGatewayProofs!OneSubmission` | `AtMostOneSubmission` | `MaxFaults = 0` |
| `BookingPromiseProofs!ReplaysAgree` | `ReplayIsSame` | |
| `BookingPromiseProofs!SubmittedIsSaved` | `SubmittedIsDurable` | |
| `BookingPromiseProofs!ConsumedIsSubmitted` | `ConsumedMeansSubmitted` | `MaxFaults = 0` |
| `BookingPromiseProofs!PromiseKept` | `ImplementsConfirmedBooking` | `MaxFaults = 0` |
| `AsyncJobsProofs!JobsTypeCorrect` | `TypeOK` | |
| `AsyncJobsProofs!NeverResurrected` | `NoResurrection` | |
| `AsyncJobsProofs!LatestTurnShown` | `SessionTracksLatestTurn` | |
| `AsyncJobsProofs!StalePromotionNeedsOvertaking` | `StaleOnlyIfOvertaken` | |
| `AsyncSessionProofs!ToldIsPromoted` | `AnsweredIsPromoted` | |
| `AsyncSessionProofs!LastJobNamed` | `LastJobIsNewest` | |
| `AsyncSessionProofs!BudgetKept` | `StepsWithinBudget` | |
| `ControllerCheckpointProofs!CheckpointTypeCorrect` | `TypeOK` | |
| `ControllerCheckpointProofs!CompactionsCounted` | `SequenceCountsCompactions` | |
| `ControllerCheckpointProofs!TornIsReviewed` | `TornMeansReview` | |
| `ControllerCheckpointProofs!DecisionIsResumed` | `FinalizedIsResumed` | names of a queue differ; no candidate is `blocked_until_input` |
| `JobRepositoryProofs!RepositoryTypeCorrect` | `TypeOK` | |
| `JobRepositoryProofs!OneJobPerRequest` | `SameJobForAll` | |
| `JobRepositoryProofs!SecondRowAfterCleanup` | `SecondRowOnlyAfterCleanup` | |
| `JobRepositoryProofs!OneCompleter` | `CompletedByOne` | |
| `ChatShellProofs!ShellTypeCorrect` | `TypeOK` | |
| `ChatShellProofs!PolledAwaited` | `PolledIsAwaited` | |
| `ChatShellProofs!NothingWaitsInSilence` | `PendingIsPolled` | |
| `ChatShellProofs!OneTurnUnlessLost` | `OverlapOnlyAfterLoss` | |
| `ChatShellProofs!NoSessionIsForgotten` | `OtherSessionsFailed` | |
| `ChatShellProofs!GivesUpInTime` | `NeverGivesUpEarly` | |
| `ChatShellProofs!NoSwitchInSilence` | `NoSilentSwitch` | |

**Assumptions.** `ConstantsAssumption`, `JobsAssumption`, `RowsAssumption`,
`ControllerAssumption`, `WavesAssumption`, `RepositoryAssumption` and `ShellAssumption` give
the constants their types and keep sets of unlike values apart (a chat is not a client, a wave
is not another). `NoneAssumption` and `FileAssumption` say that the values standing for `None`, for a
missing file and for a torn one are no items, states or checkpoints. TLC evaluates all of them
in the runs. None bounds a set: requests, keys, tokens, chats, clients, callers, waves, queues
and losses may be as many as one likes.

### The gateway

`AtMostOneSubmission` is far from inductive: that two threads were not both told
"submitted" rests on the rows, on what each thread read, and on the claims. `SubmissionInv`
says that a thread between its target claim and its release holds the target under its key
(`TargetHeld`); that what a thread has checked about its confirmation is still so when it
writes (`RowAsChecked`); that a token submitted has a consumed confirmation and a thread about
to submit is the first (`FirstToSubmit`); and that a recorded submission is the result of a request
for the recorded token (`RecordedIsReal`). It needs `MaxFaults = 0`: when a statement raises the
property is false (finding 2), and so are `ConsumedMeansSubmitted` and the refinement.

`SavedInv` needs no such hypothesis. The seed rows are committed, and lost in a rollback, all
together (`SeedsTogether`), so a thread that goes on after its rows were lost finds its quote
missing and is refused, whatever it read before. What is committed is never undone
(`CommittedSeen`). What a thread has checked and updated is still so when it commits
(`AsChecked`), unless another thread rolled back meanwhile, which puts it in `undone`; other
threads' UPDATEs only move rows forward (`RowsKept`). So whichever thread's commit flushes the shared
transaction, a submission is in the rows that were saved (`ToldSaved`), and the record carries that
to the replays (`RecordSaved`). `ConsumedInv` names, for each
consumed confirmation, working or saved, the thread it belongs to; without a raise that thread
is at its commit or submitted, and stays so. `AgreeInv` says that an answered thread was
answered from its key's record, which `CompletedStays` keeps; no fault disturbs it.

The refinement maps `ConfirmedBooking`'s ledger to the entries that `LedgerEntry` reads out of
the records and of the one thread that has decided and not recorded yet. `LedgerReads`, which
`OneExecutionPerKey` implies, makes that reading unique; `ReleasesOwn` says that a thread that
gives back its target has recorded its own result. `PromiseInv` joins both with
`SubmissionInv`. The steps: a `Commit`, and a check that refuses, map to the abstract decision;
a replay, a conflict and the release of the target map to an answer from the ledger, a thread that finds
no brokers to a refusal; every other statement changes none of
`Ledger`, `Booked` and `Answers` and maps to a stutter.

### Jobs and sessions

`JobsInv` says which handler labels have a job in hand and that this job's row exists, that
a client about to take an autonomy step holds a step index, and that a chat's row is absent
until it inserts it. Without it `TypeOK` is not inductive (a step index could be `Null`,
a row could be created twice). `TurnInv` says that once every overtaken turn has been answered
(`OvertakenDone`), the stored session shows the last answered turn, and so does the draft of a turn in flight
that is about to be written back, until it holds that turn's own answer. A turn that is overtaken falls
out of the invariant and comes back in when it is answered itself, since its last save is
of its own answer.

`KnownInv` says what rows, and the rows that clients read earlier, have on them: a row that
succeeded names its result, a row past `bind_pending_response` names the answer that the result
replaces. With `TurnInv` it gives `ToldIsPromoted`: a poll that reports success has both ids in hand when it
promotes, in the same step, and a turn that was in flight meanwhile ends with an answer of its own.
`LastInv` follows `last_job_id` through the two reads and the saves of a turn: what each draft is
about to save is the job created last, as long as turns have followed one another and none
has died (`Sequential`).

`BudgetInv` ties the steps that a job ran within the budget to the step index in its row, and to the
index that a polling client holds, which is the row's until the client records it: at most as
many steps ran as the index says, and one more between a step and its record. It speaks of each
job that is not `disturbed`, so of any number of clients.

### The controller

A write has two steps, and a crash between them leaves a torn file. So `CountInv`, `TornInv`
and `ResumeInv` say of the draft what their property says of the file: what the running
operation is about to write has the next count, still asks for review, leads to the decision
told. For `FinalizedIsResumed` the lemmas about `QueuePolicy` do the work: `DecisionKinds` says
which four forms a decision has, `SnapshotRuns` that the item put in the snapshot of a decision to
go on may run, `OneItemRuns` that such an item alone is continued, and `SnapshotResumes`
puts them together. Two waves of one name, or a candidate that waits for input, would break it;
nothing in the repository builds either (section 7).

### The Postgres repository

`HandInv` and `PreparedInv` make the types inductive: what a caller or a refresher has in hand
was inserted, and there is one prepared result. `KeyInv` says that while the create key is
claimed its holder alone inserts and nothing was inserted before, and that once it is
completed, only a caller that found the row gone inserts; `RecordInv` that who was told of a
job was told of the one on record. `ClaimInv` and `SoleInv` say that a completer that writes holds
the job's key, unless the row is gone, and that what stands in the row after its write is its
own result or the prepared one, through the refreshes and failures that overwrite it.

### The shell

`ShellInv` is one invariant of five parts, each inductive only with the others: `PollInv` (a job is polled
when its answer came; polls lost in a row are the failures counted; the answer under
way is the row's status), `RowInv` (a job is prepared and started before its turn is
answered, so that the shell never sees `pending`), `SendInv` (turns are sent in order, and who
runs is awaited or was shown as failed) and `SessionInv` (a turn works on the shell's session or on one
it created), with the types. `ResourceInv` adds that, while no turn has failed, the session remembers the
resource of the last answer and the awaited turn carries it on or warns.

## 6. What is only model-checked

- Liveness: `EveryRequestAnswered`, `ResultReachesSession`, `PreparedJobEnds`,
  `AnsweredUnlessError` and `EveryTurnSettles` are about fairness and about which actions are
  enabled, which the provers here do not handle.
- That the hypotheses and exemptions are needed: `gateway_double_submit` shows it for
  `AtMostOneSubmission`, `jobs_promotion` for `StaleOnlyIfOvertaken`; a counterexample on one
  small instance is all it takes.

The inductive invariants can be checked as well as proved: each is an INVARIANT that
the run of its component satisfies.

## 7. What is not modelled, and why

- Read tools, response building and rendering, contracts, health, configuration, artifact
  storage and the evaluation harness: no state that interleaving could disturb.
- Of the gateway: the allow-list and required-field checks that come first and change
  nothing; requests and results as texts.
- Of sessions: the identity, which is fixed when a session is created and only compared
  afterwards; module, scope and sync fields, which each turn sets from its own request.
- Of autonomy: wall-clock budget and the contents of the checkpoint file.
- Of the controller: a second process that writes the same file; the predicates of the
  policy that no checkpoint operation calls (when to open a repair, a review or a search),
  Boolean formulas of their arguments; the text of briefs and compaction summaries. Two kinds
  of input that nothing in the repository builds are left out, and `FinalizedIsResumed` is not
  claimed for them: a safe candidate whose policy is `blocked_until_input`, and a queue with two
  items of one name.
- Of the Postgres repository: `bind_pending_response`, `link_artifact` and the listing queries,
  which touch columns nothing here reads; a restart (the idempotency records are in memory and
  are lost, so no property relates two lives of the process).
- Of the shell: confirmation cards and their action buttons, since no response of the back
  end carries one; panels and layout; reloading the page, which is a new page.
- Of the orchestrator graph: its wrappers over the job store, which nothing calls.
- `expire_job` (no caller), store constructors, schema migration and `reset` (tests only).

## 8. Plan

In order of importance; all of it is done.

1. `ConfirmedBooking`, `BookingGateway`, its runs and proofs.
2. `JobRows`, `AsyncJobs`, its runs and proofs.
3. `QueuePolicy`, `ControllerCheckpoint` and its runs.
4. `JobRepository` and its run.
5. `ChatShell` and its run.
6. Proofs about the modules of 3 to 5, each from a type invariant of its own.
7. The refinement of `ConfirmedBooking`, and the properties of sessions and of the budget.

What could follow: runs for the two remaining exemptions of section 4, if the documentation comes
to promise that a booking or a budget is kept through failures; `AtMostOneSubmission` under faults
once a target is released only by the execution that claimed it.
