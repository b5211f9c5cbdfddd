--------------------------- MODULE JobRepository ----------------------------
(***************************************************************************)
(* The Postgres job repository (jobs/repository.py) and the idempotent     *)
(* store in front of it (jobs/idempotent_store.py).  Every statement of the*)
(* repository is a transaction of its own on a connection of its own, so a *)
(* read and the write that follows it are two steps.  The idempotency      *)
(* records are a dict of the process: claim_record takes a key or waits    *)
(* until its holder completes it, and nothing here gives a key up.         *)
(*                                                                         *)
(* Creators call create_job with one and the same request, completers call *)
(* complete_job for a job, refreshers call refresh_job for a job again and *)
(* again; start, prepare_result, fail and cleanup_old may be called at any *)
(* moment.                                                                 *)
(***************************************************************************)
EXTENDS Integers, FiniteSets

CONSTANTS
  Creators, Completers, Refreshers,
  MaxJobs,      \* bound on the rows that are inserted
  Results,
  Offers,       \* the results that the completers may bring
  Prepared,     \* the result that prepare_result stores
  Refreshes,    \* refreshes_remaining of start
  MaxFaults,    \* bound on statements that raise
  Held,         \* the create key is claimed and not completed
  Null

ASSUME RepositoryAssumption ==
  /\ Offers \subseteq [Completers -> Results]
  /\ Prepared \in Results
  /\ Refreshes \in Nat
  /\ MaxFaults \in Nat
  /\ MaxJobs \in Nat
  /\ Null \notin Results \cup Nat /\ Held \notin {Null} \cup Nat
  /\ Creators \cap Completers = {}

Callers == Creators \cup Completers
\* _generate_job_id draws a fresh id; ids are numbered as they are drawn.
Jobs == 1..MaxJobs

VARIABLES
  rows,        \* generation_jobs
  created,     \* the record of the create key: Null, Held or completed with a job
  completion,  \* the record of each job's complete key: Null, claimed or completed
  pc,          \* where a caller is in create_job or complete_job
  job,         \* the job a caller has in hand
  outcome,     \* what it was told
  polled,      \* the job a refresher refreshes
  seen,        \* what the refresher read and is about to act on
  brings,      \* the result each completer brings; it never changes
  faults

vars == <<rows, created, completion, pc, job, outcome, polled, seen, brings, faults>>
callers == <<pc, job, outcome>>
refreshing == <<polled, seen>>

Row == [status : {"absent", "queued", "running", "succeeded", "failed", "deleted"},
        remaining : 0..Refreshes \cup {Null},
        prepared : Results \cup {Null}, result : Results \cup {Null}]
NoRow == [status |-> "absent", remaining |-> Null, prepared |-> Null, result |-> Null]

\* SELECT finds a row that was inserted and not deleted.
Exists(j) == rows[j].status \notin {"absent", "deleted"}

-----------------------------------------------------------------------------
(* The statements.  An UPDATE of a row that is gone changes nothing.       *)

Update(j, row) == rows' = [rows EXCEPT ![j] = IF Exists(j) THEN row ELSE @]

QueuedRow == [NoRow EXCEPT !.status = "queued"]
\* complete: whatever the status is by then.
CompletedRow(row, result) ==
  [row EXCEPT !.status = "succeeded", !.result = result, !.remaining = Null]

Start(j) ==
  /\ rows[j].status = "queued"
  /\ Update(j, [rows[j] EXCEPT !.status = "running", !.remaining = Refreshes])
  /\ UNCHANGED <<created, completion, callers, refreshing, faults, brings>>

PrepareResult(j) ==
  /\ Exists(j)
  /\ Update(j, [rows[j] EXCEPT !.prepared = Prepared])
  /\ UNCHANGED <<created, completion, callers, refreshing, faults, brings>>

Fail(j) ==
  /\ Exists(j)
  /\ Update(j, [rows[j] EXCEPT !.status = "failed"])
  /\ UNCHANGED <<created, completion, callers, refreshing, faults, brings>>

\* Only complete sets completed_at, together with the result; a row that
\* failed without ever completing is never old enough.
CleanupOld(j) ==
  /\ rows[j].status \in {"succeeded", "failed"}
  /\ rows[j].result # Null
  /\ rows' = [rows EXCEPT ![j] = [NoRow EXCEPT !.status = "deleted"]]
  /\ UNCHANGED <<created, completion, callers, refreshing, faults, brings>>

-----------------------------------------------------------------------------
(* create_job.                                                             *)

Goto(c, label) == pc' = [pc EXCEPT ![c] = label]
Tell(c, what) == Goto(c, "done") /\ outcome' = [outcome EXCEPT ![c] = what]

\* Mutant: a claimed key is not waited for.
ClaimCreateAnyway(c) ==
  /\ pc[c] = "claim"
  /\ \/ /\ created \in {Null, Held}
        /\ created' = Held
        /\ Goto(c, "insert")
        /\ UNCHANGED job
     \/ /\ created \in Jobs
        /\ job' = [job EXCEPT ![c] = created]
        /\ Goto(c, "lookup")
        /\ UNCHANGED created
  /\ UNCHANGED <<rows, completion, outcome, refreshing, faults, brings>>
\* claim_record: a free key is taken, a completed one is replayed; while it is
\* claimed the caller waits.
ClaimCreate(c) ==
  /\ pc[c] = "claim"
  /\ \/ /\ created = Null
        /\ created' = Held
        /\ Goto(c, "insert")
        /\ UNCHANGED job
     \/ /\ created \in Jobs
        /\ job' = [job EXCEPT ![c] = created]
        /\ Goto(c, "lookup")
        /\ UNCHANGED created
  /\ UNCHANGED <<rows, completion, outcome, refreshing, faults, brings>>

\* The replayed job may have been cleaned up: then the caller goes on to
\* create one.
LookUpCreated(c) ==
  /\ pc[c] = "lookup"
  /\ IF Exists(job[c]) THEN Tell(c, "replayed")
     ELSE Goto(c, "insert") /\ UNCHANGED outcome
  /\ UNCHANGED <<rows, created, completion, job, refreshing, faults, brings>>

InsertJob(c) ==
  /\ pc[c] = "insert"
  /\ \E j \in Jobs :
       /\ \A i \in Jobs : rows[i].status = "absent" <=> i >= j
       /\ rows' = [rows EXCEPT ![j] = QueuedRow]
       /\ job' = [job EXCEPT ![c] = j]
  /\ Goto(c, "record")
  /\ UNCHANGED <<created, completion, outcome, refreshing, faults, brings>>

\* Mutant: the newest job replaces the one on record.
RecordCreatedAlways(c) ==
  /\ pc[c] = "record"
  /\ created' = job[c] /\ Tell(c, "created")
  /\ UNCHANGED <<rows, completion, job, refreshing, faults, brings>>
\* complete_record raises when the key was completed before.
RecordCreated(c) ==
  /\ pc[c] = "record"
  /\ IF created = Held
     THEN created' = job[c] /\ Tell(c, "created")
     ELSE Tell(c, "error") /\ UNCHANGED created
  /\ UNCHANGED <<rows, completion, job, refreshing, faults, brings>>

\* The INSERT, or the SELECT after it, raises; create_job answers "error" and
\* the key stays claimed.
CreateRaises(c) ==
  /\ pc[c] \in {"insert", "record"}
  /\ faults < MaxFaults
  /\ faults' = faults + 1
  /\ Tell(c, "error")
  /\ UNCHANGED <<rows, created, completion, job, refreshing, brings>>

CreateStep(c) ==
  ClaimCreate(c) \/ LookUpCreated(c) \/ InsertJob(c) \/ RecordCreated(c)

-----------------------------------------------------------------------------
(* complete_job.                                                           *)

NoClaim == [state |-> "free", result |-> Null]
Claimed(r) == [state |-> "claimed", result |-> r]
Done(r) == [state |-> "completed", result |-> r]

\* The status is read before the key is claimed.
CheckCompletion(c) ==
  /\ pc[c] = "check"
  /\ \E j \in Jobs :
       /\ rows[j].status # "absent"
       /\ job' = [job EXCEPT ![c] = j]
       /\ IF rows[j].status = "succeeded"
          THEN Tell(c, IF rows[j].result = brings[c] THEN "replayed" ELSE "conflict")
          ELSE Goto(c, "claim") /\ UNCHANGED outcome
  /\ UNCHANGED <<rows, created, completion, refreshing, faults, brings>>

\* Mutant: the key is not waited for.
ClaimCompletionAtOnce(c) ==
  /\ pc[c] = "claim"
  /\ completion' = [completion EXCEPT ![job[c]] = Claimed(brings[c])]
  /\ Goto(c, "write")
  /\ UNCHANGED <<rows, created, job, outcome, refreshing, faults, brings>>
\* The fingerprint is the result's.
ClaimCompletion(c) ==
  /\ pc[c] = "claim"
  /\ LET record == completion[job[c]] IN
     \/ /\ record.state = "free"
        /\ completion' = [completion EXCEPT ![job[c]] = Claimed(brings[c])]
        /\ Goto(c, "write")
        /\ UNCHANGED outcome
     \/ /\ record.state = "completed"
        /\ IF record.result = brings[c] THEN Goto(c, "lookup") /\ UNCHANGED outcome
           ELSE Tell(c, "conflict")
        /\ UNCHANGED completion
  /\ UNCHANGED <<rows, created, job, refreshing, faults, brings>>

LookUpCompleted(c) ==
  /\ pc[c] = "lookup"
  /\ IF Exists(job[c]) THEN Tell(c, "replayed")
     ELSE Goto(c, "write") /\ UNCHANGED outcome
  /\ UNCHANGED <<rows, created, completion, job, refreshing, faults, brings>>

WriteCompletion(c) ==
  /\ pc[c] = "write"
  /\ Update(job[c], CompletedRow(rows[job[c]], brings[c]))
  /\ Goto(c, "record")
  /\ UNCHANGED <<created, completion, job, outcome, refreshing, faults, brings>>

\* Mutant: the key is not completed.
RecordCompletionNot(c) ==
  /\ pc[c] = "record"
  /\ Tell(c, IF Exists(job[c]) THEN "created" ELSE "error")
  /\ UNCHANGED <<rows, created, completion, job, refreshing, faults, brings>>
\* complete reads the row back; a job that is gone is an "error" that leaves
\* the key as it is.
RecordCompletion(c) ==
  /\ pc[c] = "record"
  /\ IF Exists(job[c]) /\ completion[job[c]] = Claimed(brings[c])
     THEN /\ completion' = [completion EXCEPT ![job[c]] = Done(brings[c])]
          /\ Tell(c, "created")
     ELSE Tell(c, "error") /\ UNCHANGED completion
  /\ UNCHANGED <<rows, created, job, refreshing, faults, brings>>

CompleteRaises(c) ==
  /\ pc[c] \in {"write", "record"}
  /\ faults < MaxFaults
  /\ faults' = faults + 1
  /\ Tell(c, "error")
  /\ UNCHANGED <<rows, created, completion, job, refreshing, brings>>

CompleteStep(c) ==
  \/ CheckCompletion(c) \/ ClaimCompletion(c) \/ LookUpCompleted(c)
  \/ WriteCompletion(c) \/ RecordCompletion(c)

-----------------------------------------------------------------------------
(* refresh_job.                                                            *)

NothingSeen == [plan |-> "nothing", value |-> Null]

\* Mutant: a countdown at zero is counted down again.
PlanPastZero(row) ==
  IF row.status # "running" \/ row.prepared = Null THEN NothingSeen
  ELSE IF row.remaining # Null THEN [plan |-> "count", value |-> row.remaining - 1]
  ELSE [plan |-> "complete", value |-> row.prepared]
\* Mutant: the countdown is written back as it was read.
PlanWithoutCounting(row) ==
  IF row.status # "running" \/ row.prepared = Null THEN NothingSeen
  ELSE IF row.remaining \in Nat \ {0} THEN [plan |-> "count", value |-> row.remaining]
  ELSE [plan |-> "complete", value |-> row.prepared]
\* What the SELECT makes refresh do next.
Plan(row) ==
  IF row.status # "running" \/ row.prepared = Null THEN NothingSeen
  ELSE IF row.remaining \in Nat \ {0} THEN [plan |-> "count", value |-> row.remaining - 1]
  ELSE [plan |-> "complete", value |-> row.prepared]

ReadJob(r) ==
  /\ seen[r] = NothingSeen
  /\ \E j \in Jobs :
       /\ Exists(j)
       /\ polled[r] \in {Null, j}
       /\ polled' = [polled EXCEPT ![r] = j]
       /\ seen' = [seen EXCEPT ![r] = Plan(rows[j])]
  /\ UNCHANGED <<rows, created, completion, callers, faults, brings>>

\* The write goes over whatever the row holds by now.
CountedRow(row, value) == [row EXCEPT !.remaining = value]
WritePlan(r) ==
  /\ seen[r] # NothingSeen
  /\ Update(polled[r], IF seen[r].plan = "count"
                       THEN CountedRow(rows[polled[r]], seen[r].value)
                       ELSE CompletedRow(rows[polled[r]], seen[r].value))
  /\ seen' = [seen EXCEPT ![r] = NothingSeen]
  /\ UNCHANGED <<created, completion, callers, polled, faults, brings>>

RefreshStep(r) == ReadJob(r) \/ WritePlan(r)

-----------------------------------------------------------------------------

Init ==
  /\ rows = [j \in Jobs |-> NoRow]
  /\ created = Null
  /\ completion = [j \in Jobs |-> NoClaim]
  /\ pc = [c \in Callers |-> IF c \in Creators THEN "claim" ELSE "check"]
  /\ job = [c \in Callers |-> Null]
  /\ brings \in Offers
  /\ outcome = [c \in Callers |-> "none"]
  /\ polled = [r \in Refreshers |-> Null]
  /\ seen = [r \in Refreshers |-> NothingSeen]
  /\ faults = 0

Next ==
  \/ \E j \in Jobs : Start(j) \/ PrepareResult(j) \/ Fail(j) \/ CleanupOld(j)
  \/ \E c \in Creators : CreateStep(c) \/ CreateRaises(c)
  \/ \E c \in Completers : CompleteStep(c) \/ CompleteRaises(c)
  \/ \E r \in Refreshers : RefreshStep(r)

Spec == Init /\ [][Next]_vars

\* Threads of the process run, and a shell that refreshes goes on refreshing.
\* Nothing forces a job to be started, prepared, failed or cleaned up.
FairSpec ==
  /\ Spec
  /\ \A c \in Creators : WF_vars(CreateStep(c))
  /\ \A c \in Completers : WF_vars(CompleteStep(c))
  /\ \A r \in Refreshers : WF_vars(RefreshStep(r))

-----------------------------------------------------------------------------

TypeOK ==
  /\ rows \in [Jobs -> Row]
  /\ created \in {Null, Held} \cup Jobs
  /\ completion \in [Jobs -> [state : {"free", "claimed", "completed"},
                            result : Results \cup {Null}]]
  /\ pc \in [Callers -> {"claim", "lookup", "insert", "check", "write", "record", "done"}]
  /\ job \in [Callers -> Jobs \cup {Null}]
  /\ brings \in [Completers -> Results]
  /\ outcome \in [Callers -> {"none", "created", "replayed", "conflict", "error"}]
  /\ polled \in [Refreshers -> Jobs \cup {Null}]
  /\ \A r \in Refreshers : seen[r] \in [plan : {"nothing", "count", "complete"},
                                       value : 0..Refreshes \cup Results \cup {Null}]
  /\ faults \in 0..MaxFaults

Succeeded(c) == outcome[c] \in {"created", "replayed"}

\* All callers of one create request that are told of a job are told of the
\* same job, although rows are cleaned up, statements raise, and a replay whose
\* row is gone inserts another.
SameJobForAll ==
  \A c, d \in Creators : Succeeded(c) /\ Succeeded(d) => job[c] = job[d]

\* A request has a second row only after its first one was cleaned up: no
\* interleaving and no statement that raises makes one.
SecondRowOnlyAfterCleanup ==
  Cardinality({j \in Jobs : rows[j].status # "absent"}) > 1
    => \E j \in Jobs : rows[j].status = "deleted"

\* However completions of one job interleave with its refreshes and failures,
\* one completer at most is told that it completed the job, and the result in
\* the row is then its own or the prepared one: no later completer's.
CompletedByOne ==
  \A c, d \in Completers :
    outcome[c] = "created" /\ Exists(job[c]) =>
      /\ rows[job[c]].result \in {brings[c], Prepared}
      /\ outcome[d] = "created" /\ job[d] = job[c] => c = d

\* A running job whose result is prepared ends while a shell refreshes it,
\* although refreshers overwrite each other's countdowns.
PreparedJobEnds ==
  \A j \in Jobs :
    (rows[j].status = "running" /\ rows[j].prepared # Null /\ \E r \in Refreshers : polled[r] = j)
      ~> rows[j].status \in {"succeeded", "failed", "deleted"}

\* The callers of one key have all been answered, or one of them "error".
Answered(sameKey) ==
  \/ \A c \in sameKey : pc[c] = "done"
  \/ \E c \in sameKey : outcome[c] = "error"

\* Every caller is answered, unless another caller of the same key was told
\* "error": a key is lost in no other way, and whoever waits for a key that is
\* not lost gets through.
AnsweredUnlessError ==
  []<>(Answered(Creators) /\ \A j \in Jobs : Answered({c \in Completers : job[c] = j}))

=============================================================================
