------------------------ MODULE JobRepositoryProofs -------------------------
(***************************************************************************)
(* Theorems about JobRepository, for any number of callers, refreshers,    *)
(* rows, results and statements that raise.                                *)
(***************************************************************************)
EXTENDS JobRepository, FiniteSetTheorems, TLAPS

-----------------------------------------------------------------------------
(* Types, and what a caller or a refresher has in hand.                    *)

\* A caller past its first step has a job; rows on record or in hand were
\* inserted.
HandInv ==
  /\ \A c \in Creators : pc[c] \in {"lookup", "record"} => job[c] \in Jobs
  /\ \A c \in Completers : pc[c] \in {"claim", "lookup", "write", "record"} => job[c] \in Jobs
  /\ \A c \in Callers : job[c] \in Jobs => rows[job[c]].status # "absent"
  /\ created \in Jobs => rows[created].status # "absent"

\* The one prepared result there is, in a row or on its way into one.
Plans == {NothingSeen} \cup [plan : {"count"}, value : 0..Refreshes]
                       \cup [plan : {"complete"}, value : {Prepared}]
PreparedInv ==
  /\ \A j \in Jobs : rows[j].prepared \in {Null, Prepared}
  /\ seen \in [Refreshers -> Plans]

TypeInv == TypeOK /\ HandInv /\ PreparedInv

\* A row that was inserted, and what the statements make of it.
Inserted(row) == row \in Row /\ row.prepared \in {Null, Prepared} /\ row.status # "absent"

LEMMA StatementsWriteRows ==
  ASSUME NEW row, Inserted(row)
  PROVE  /\ Inserted([row EXCEPT !.status = "running", !.remaining = Refreshes])
         /\ Inserted([row EXCEPT !.prepared = Prepared])
         /\ Inserted([row EXCEPT !.status = "failed"])
         /\ \A result \in Results : Inserted(CompletedRow(row, result))
         /\ \A value \in 0..Refreshes : Inserted(CountedRow(row, value))
<1> USE RepositoryAssumption DEF Inserted, Row
<1>1. Inserted([row EXCEPT !.status = "running", !.remaining = Refreshes])
  <2>1. Refreshes \in 0..Refreshes
    OBVIOUS
  <2>2. \A value \in 0..Refreshes : Inserted([row EXCEPT !.status = "running", !.remaining = value])
    OBVIOUS
  <2> QED BY <2>1, <2>2
<1>2. Inserted([row EXCEPT !.prepared = Prepared])
  OBVIOUS
<1>3. Inserted([row EXCEPT !.status = "failed"])
  OBVIOUS
<1>4. \A result \in Results : Inserted(CompletedRow(row, result))
  BY DEF CompletedRow
<1>5. \A value \in 0..Refreshes : Inserted(CountedRow(row, value))
  BY DEF CountedRow
<1> QED BY <1>1, <1>2, <1>3, <1>4, <1>5

LEMMA FreshRows ==
  /\ NoRow \in Row /\ NoRow.prepared = Null
  /\ Inserted(QueuedRow) /\ Inserted([NoRow EXCEPT !.status = "deleted"])
BY DEF NoRow, QueuedRow, Inserted, Row

\* A refresher plans a countdown or the prepared result.
LEMMA PlanIsPlan ==
  ASSUME NEW row \in Row, row.prepared \in {Null, Prepared}
  PROVE  Plan(row) \in Plans
<1>1. CASE row.status # "running" \/ row.prepared = Null
  BY <1>1 DEF Plan, Plans
<1>2. CASE row.status = "running" /\ row.prepared = Prepared /\ row.remaining \in Nat \ {0}
  <2>1. row.remaining \in 0..Refreshes
    BY <1>2, RepositoryAssumption DEF Row
  <2>2. row.remaining - 1 \in 0..Refreshes
    BY <1>2, <2>1, RepositoryAssumption
  <2>3. Plan(row) = [plan |-> "count", value |-> row.remaining - 1]
    BY <1>2, RepositoryAssumption DEF Plan
  <2> QED BY <2>2, <2>3 DEF Plans
<1>3. CASE row.status = "running" /\ row.prepared = Prepared /\ row.remaining \notin Nat \ {0}
  <2>1. Plan(row) = [plan |-> "complete", value |-> Prepared]
    BY <1>3, RepositoryAssumption DEF Plan
  <2> QED BY <2>1 DEF Plans
<1> QED BY <1>1, <1>2, <1>3, RepositoryAssumption

LEMMA TypeInit == Init => TypeInv
<1> SUFFICES ASSUME Init PROVE TypeInv
  OBVIOUS
<1>1. NoRow \in Row
  BY DEF Row, NoRow
<1>2. rows \in [Jobs -> Row] /\ \A j \in Jobs : rows[j].prepared = Null
  BY <1>1 DEF Init, NoRow
<1>3. completion \in [Jobs -> [state : {"free", "claimed", "completed"}, result : Results \cup {Null}]]
  BY DEF Init, NoClaim
<1>4. brings \in [Completers -> Results] /\ faults \in 0..MaxFaults
  BY RepositoryAssumption DEF Init
<1>5. seen \in [Refreshers -> Plans]
      /\ \A r \in Refreshers : seen[r] \in [plan : {"nothing", "count", "complete"},
                                           value : 0..Refreshes \cup Results \cup {Null}]
  BY DEF Init, Plans, NothingSeen
<1>6. /\ created \in {Null, Held} \cup Jobs
      /\ pc \in [Callers -> {"claim", "lookup", "insert", "check", "write", "record", "done"}]
      /\ job \in [Callers -> Jobs \cup {Null}]
      /\ outcome \in [Callers -> {"none", "created", "replayed", "conflict", "error"}]
      /\ polled \in [Refreshers -> Jobs \cup {Null}]
  BY DEF Init
<1>7. HandInv
  <2>1. Null \notin Jobs /\ \A c \in Callers : job[c] = Null
    BY RepositoryAssumption DEF Init, Jobs
  <2>4. created = Null
    BY DEF Init
  <2>2. \A c \in Creators : pc[c] = "claim"
    BY DEF Init, Callers
  <2>3. \A c \in Completers : pc[c] = "check"
    BY RepositoryAssumption DEF Init, Callers
  <2> QED BY <2>1, <2>2, <2>3, <2>4 DEF HandInv
<1> QED BY <1>2, <1>3, <1>4, <1>5, <1>6, <1>7 DEF TypeInv, TypeOK, PreparedInv

\* A step of a caller that leaves it a job whose row was inserted.
LEMMA HandStep ==
  ASSUME TypeInv, NEW c \in Callers,
         \A j \in Jobs : rows[j].status # "absent" => rows'[j].status # "absent",
         \A d \in Callers : d # c => pc'[d] = pc[d] /\ job'[d] = job[d],
         job'[c] \in Jobs => rows'[job'[c]].status # "absent",
         created' = created \/ created' \notin Jobs \/ created' = job'[c],
         \/ job'[c] \in Jobs
         \/ c \in Creators /\ pc'[c] \in {"insert", "done"}
         \/ c \in Completers /\ pc'[c] = "done"
  PROVE  HandInv'
<1>1. c \notin Creators \/ c \notin Completers
  BY RepositoryAssumption
<1> QED BY <1>1 DEF TypeInv, HandInv, Callers

LEMMA TypeNext == TypeInv /\ [Next]_vars => TypeInv'
<1> SUFFICES ASSUME TypeInv, [Next]_vars PROVE TypeInv'
  OBVIOUS
<1> USE DEF Goto, Tell, callers, refreshing
<1>a. /\ rows \in [Jobs -> Row] /\ created \in {Null, Held} \cup Jobs
      /\ completion \in [Jobs -> [state : {"free", "claimed", "completed"},
                                  result : Results \cup {Null}]]
      /\ pc \in [Callers -> {"claim", "lookup", "insert", "check", "write", "record", "done"}]
      /\ job \in [Callers -> Jobs \cup {Null}]
      /\ brings \in [Completers -> Results]
      /\ outcome \in [Callers -> {"none", "created", "replayed", "conflict", "error"}]
      /\ polled \in [Refreshers -> Jobs \cup {Null}]
      /\ faults \in 0..MaxFaults
      /\ \A j \in Jobs : rows[j] \in Row /\ rows[j].prepared \in {Null, Prepared}
      /\ seen \in [Refreshers -> Plans]
  BY DEF TypeInv, TypeOK, PreparedInv
<1>b. /\ \A c \in Creators : c \in Callers /\ c \notin Completers
      /\ \A c \in Completers : c \in Callers /\ c \notin Creators
      /\ Null \notin Jobs /\ Held \notin Jobs
  BY RepositoryAssumption DEF Callers, Jobs
<1>c. \A plan \in Plans : plan \in [plan : {"nothing", "count", "complete"},
                                    value : 0..Refreshes \cup Results \cup {Null}]
  BY RepositoryAssumption DEF Plans, NothingSeen
<1>g. /\ \A c \in Callers : job[c] \in Jobs => rows[job[c]].status # "absent"
      /\ \A c \in Creators : pc[c] \in {"lookup", "record"} => job[c] \in Jobs
      /\ \A c \in Completers : pc[c] \in {"claim", "lookup", "write", "record"} => job[c] \in Jobs
      /\ created \in Jobs => rows[created].status # "absent"
  BY DEF TypeInv, HandInv
<1>d. ASSUME TypeOK', HandInv',
             \A j \in Jobs : rows'[j].prepared \in {Null, Prepared}, UNCHANGED seen
      PROVE  TypeInv'
  BY <1>d DEF TypeInv, PreparedInv
\* A statement on the row of j.
<1>e. ASSUME NEW j \in Jobs, NEW row, Inserted(row), rows[j].status # "absent",
             rows' = [rows EXCEPT ![j] = row] \/ rows' = rows,
             UNCHANGED <<created, completion, callers, faults, brings>>,
             polled' = polled, seen' \in [Refreshers -> Plans]
      PROVE  TypeInv'
  <2>1. /\ rows' \in [Jobs -> Row]
        /\ \A i \in Jobs : /\ rows'[i].prepared \in {Null, Prepared}
                           /\ rows[i].status # "absent" => rows'[i].status # "absent"
    BY <1>a, <1>e DEF Inserted
  <2>2. HandInv'
    BY <1>e, <2>1 DEF TypeInv, HandInv
  <2> QED BY <1>a, <1>c, <1>e, <2>1, <2>2 DEF TypeInv, TypeOK, PreparedInv
<1>1. ASSUME NEW j \in Jobs, Start(j) \/ PrepareResult(j) \/ Fail(j) PROVE TypeInv'
  <2>1. Inserted(rows[j]) /\ Exists(j)
    BY <1>1, <1>a DEF Start, PrepareResult, Fail, Exists, Inserted
  <2>2. PICK row : Inserted(row) /\ rows' = [rows EXCEPT ![j] = row]
    BY <1>1, <2>1, StatementsWriteRows DEF Start, PrepareResult, Fail, Update
  <2>3. UNCHANGED <<created, completion, callers, refreshing, faults, brings>>
    BY <1>1 DEF Start, PrepareResult, Fail
  <2> QED BY <1>a, <1>e, <2>1, <2>2, <2>3 DEF Inserted
<1>2. ASSUME NEW j \in Jobs, CleanupOld(j) PROVE TypeInv'
  <2>1. PICK row : Inserted(row) /\ rows' = [rows EXCEPT ![j] = row]
    BY <1>2, FreshRows DEF CleanupOld
  <2>2. /\ UNCHANGED <<created, completion, callers, refreshing, faults, brings>>
        /\ rows[j].status # "absent"
    BY <1>2 DEF CleanupOld
  <2> QED BY <1>a, <1>e, <2>1, <2>2
<1>3. ASSUME NEW c \in Creators, ClaimCreate(c) PROVE TypeInv'
  <2>1. TypeOK'
    BY <1>3, <1>a, <1>b, <1>c DEF ClaimCreate, TypeInv, TypeOK
  <2>2. /\ rows' = rows
        /\ created' = created \/ created' \notin Jobs
        /\ \A d \in Callers : d # c => pc'[d] = pc[d] /\ job'[d] = job[d]
    BY <1>3, <1>a, <1>b DEF ClaimCreate
  <2>3. \/ job'[c] = created /\ created \in Jobs
        \/ job'[c] = job[c] /\ pc'[c] = "insert"
    BY <1>3, <1>a, <1>b DEF ClaimCreate
  <2>4. HandInv'
    <3>1. CASE job'[c] = created /\ created \in Jobs
      BY <1>b, <1>g, <2>2, <3>1, HandStep
    <3>2. CASE job'[c] = job[c] /\ pc'[c] = "insert"
      BY <1>b, <1>g, <2>2, <3>2, HandStep
    <3> QED BY <2>3, <3>1, <3>2
  <2> QED BY <1>3, <1>a, <1>d, <2>1, <2>4 DEF ClaimCreate
<1>4. ASSUME NEW c \in Creators, LookUpCreated(c) PROVE TypeInv'
  <2>1. TypeOK'
    BY <1>4, <1>a, <1>b, <1>c DEF LookUpCreated, TypeInv, TypeOK
  <2>2. HandInv'
    BY <1>4, <1>a, <1>b, <1>g, HandStep DEF LookUpCreated
  <2> QED BY <1>4, <1>a, <1>d, <2>1, <2>2 DEF LookUpCreated
<1>5. ASSUME NEW c \in Creators, InsertJob(c) PROVE TypeInv'
  <2>1. PICK j \in Jobs : rows' = [rows EXCEPT ![j] = QueuedRow] /\ job' = [job EXCEPT ![c] = j]
    BY <1>5 DEF InsertJob
  <2>2. rows' \in [Jobs -> Row] /\ \A i \in Jobs : rows'[i].prepared \in {Null, Prepared}
    BY <1>a, <2>1, FreshRows DEF Inserted
  <2>3. \A i \in Jobs : i = j \/ rows[i].status # "absent" => rows'[i].status # "absent"
    BY <1>a, <2>1, FreshRows DEF Inserted
  <2>4. TypeOK'
    BY <1>5, <1>a, <1>b, <1>c, <2>1, <2>2 DEF InsertJob, TypeInv, TypeOK
  <2>5. HandInv'
    BY <1>5, <1>a, <1>b, <2>1, <2>3, HandStep DEF InsertJob
  <2> QED BY <1>5, <1>d, <2>2, <2>4, <2>5 DEF InsertJob
<1>6. ASSUME NEW c \in Creators, RecordCreated(c) PROVE TypeInv'
  <2>1. TypeOK'
    BY <1>6, <1>a, <1>b, <1>c, <1>g DEF RecordCreated, TypeInv, TypeOK
  <2>2. HandInv'
    BY <1>6, <1>a, <1>b, <1>g, HandStep DEF RecordCreated
  <2> QED BY <1>6, <1>a, <1>d, <2>1, <2>2 DEF RecordCreated
<1>7. ASSUME NEW c \in Creators, CreateRaises(c) PROVE TypeInv'
  <2>0. faults' \in 0..MaxFaults
    BY <1>7, <1>a, RepositoryAssumption DEF CreateRaises
  <2>1. TypeOK'
    BY <1>7, <1>a, <1>b, <1>c, <2>0 DEF CreateRaises, TypeInv, TypeOK
  <2>2. HandInv'
    BY <1>7, <1>a, <1>b, <1>g, HandStep DEF CreateRaises
  <2> QED BY <1>7, <1>a, <1>d, <2>1, <2>2 DEF CreateRaises
<1>8. ASSUME NEW c \in Completers, CheckCompletion(c) PROVE TypeInv'
  <2>1. TypeOK'
    BY <1>8, <1>a, <1>b, <1>c DEF CheckCompletion, TypeInv, TypeOK
  <2>2. HandInv'
    BY <1>8, <1>a, <1>b, HandStep DEF CheckCompletion
  <2> QED BY <1>8, <1>a, <1>d, <2>1, <2>2 DEF CheckCompletion
<1>9. ASSUME NEW c \in Completers, ClaimCompletion(c) PROVE TypeInv'
  <2>a. Claimed(brings[c]) \in [state : {"free", "claimed", "completed"}, result : Results \cup {Null}]
    BY <1>a DEF Claimed
  <2>0. completion' \in [Jobs -> [state : {"free", "claimed", "completed"},
                                 result : Results \cup {Null}]]
    BY <1>9, <1>a, <2>a DEF ClaimCompletion
  <2>1. TypeOK'
    BY <1>9, <1>a, <1>b, <1>c, <2>0 DEF ClaimCompletion, TypeInv, TypeOK
  <2>2. HandInv'
    BY <1>9, <1>a, <1>b, <1>g, HandStep DEF ClaimCompletion
  <2> QED BY <1>9, <1>a, <1>d, <2>1, <2>2 DEF ClaimCompletion
<1>10. ASSUME NEW c \in Completers, LookUpCompleted(c) PROVE TypeInv'
  <2>1. TypeOK'
    BY <1>10, <1>a, <1>b, <1>c DEF LookUpCompleted, TypeInv, TypeOK
  <2>2. HandInv'
    BY <1>10, <1>a, <1>b, <1>g, HandStep DEF LookUpCompleted
  <2> QED BY <1>10, <1>a, <1>d, <2>1, <2>2 DEF LookUpCompleted
<1>11. ASSUME NEW c \in Completers, WriteCompletion(c) PROVE TypeInv'
  <2>1. job[c] \in Jobs /\ Inserted(rows[job[c]]) /\ brings[c] \in Results
    BY <1>11, <1>a, <1>b, <1>g DEF WriteCompletion, Inserted
  <2>2. PICK row : Inserted(row) /\ (rows' = [rows EXCEPT ![job[c]] = row])
    BY <1>11, <2>1, StatementsWriteRows DEF WriteCompletion, Update
  <2>3. /\ rows' \in [Jobs -> Row] /\ \A i \in Jobs : rows'[i].prepared \in {Null, Prepared}
        /\ \A i \in Jobs : rows[i].status # "absent" => rows'[i].status # "absent"
    BY <1>a, <2>2 DEF Inserted
  <2>4. TypeOK'
    BY <1>11, <1>a, <1>b, <1>c, <2>3 DEF WriteCompletion, TypeInv, TypeOK
  <2>5. HandInv'
    BY <1>11, <1>a, <1>b, <1>g, <2>1, <2>3, HandStep DEF WriteCompletion
  <2> QED BY <1>11, <1>d, <2>3, <2>4, <2>5 DEF WriteCompletion
<1>12. ASSUME NEW c \in Completers, RecordCompletion(c) PROVE TypeInv'
  <2>a. Done(brings[c]) \in [state : {"free", "claimed", "completed"}, result : Results \cup {Null}]
    BY <1>a DEF Done
  <2>0. completion' \in [Jobs -> [state : {"free", "claimed", "completed"},
                                 result : Results \cup {Null}]]
    BY <1>12, <1>a, <2>a DEF RecordCompletion
  <2>1. TypeOK'
    BY <1>12, <1>a, <1>b, <1>c, <2>0 DEF RecordCompletion, TypeInv, TypeOK
  <2>2. HandInv'
    BY <1>12, <1>a, <1>b, <1>g, HandStep DEF RecordCompletion
  <2> QED BY <1>12, <1>a, <1>d, <2>1, <2>2 DEF RecordCompletion
<1>13. ASSUME NEW c \in Completers, CompleteRaises(c) PROVE TypeInv'
  <2>0. faults' \in 0..MaxFaults
    BY <1>13, <1>a, RepositoryAssumption DEF CompleteRaises
  <2>1. TypeOK'
    BY <1>13, <1>a, <1>b, <1>c, <2>0 DEF CompleteRaises, TypeInv, TypeOK
  <2>2. HandInv'
    BY <1>13, <1>a, <1>b, <1>g, HandStep DEF CompleteRaises
  <2> QED BY <1>13, <1>a, <1>d, <2>1, <2>2 DEF CompleteRaises
<1>14. ASSUME NEW r \in Refreshers, ReadJob(r) PROVE TypeInv'
  <2>1. seen' \in [Refreshers -> Plans]
    BY <1>14, <1>a, PlanIsPlan DEF ReadJob
  <2>2. TypeOK'
    BY <1>14, <1>a, <1>c, <2>1 DEF ReadJob, TypeInv, TypeOK
  <2>3. HandInv'
    BY <1>14 DEF ReadJob, TypeInv, HandInv
  <2> QED BY <1>14, <1>a, <2>1, <2>2, <2>3 DEF ReadJob, TypeInv, PreparedInv
<1>15. ASSUME NEW r \in Refreshers, WritePlan(r) PROVE TypeInv'
  <2>1. seen' \in [Refreshers -> Plans]
    BY <1>15, <1>a DEF WritePlan, Plans
  <2>2. UNCHANGED <<created, completion, callers, polled, faults, brings>>
    BY <1>15 DEF WritePlan
  <2>3. CASE rows' = rows
    <3>1. TypeOK'
      BY <1>a, <1>c, <2>1, <2>2, <2>3 DEF TypeInv, TypeOK
    <3>2. HandInv'
      BY <2>2, <2>3 DEF TypeInv, HandInv
    <3> QED BY <1>a, <2>1, <2>3, <3>1, <3>2 DEF TypeInv, PreparedInv
  <2>4. CASE rows' # rows
    <3>1. polled[r] \in Jobs /\ Exists(polled[r])
      BY <1>15, <1>a, <2>4 DEF WritePlan, Update
    <3>2. Inserted(rows[polled[r]])
      BY <1>a, <3>1 DEF Inserted, Exists
    <3>3. \/ seen[r].plan = "count" /\ seen[r].value \in 0..Refreshes
          \/ seen[r].plan = "complete" /\ seen[r].value \in Results
      BY <1>15, <1>a, RepositoryAssumption DEF WritePlan, Plans
    <3>4. PICK row : Inserted(row) /\ rows' = [rows EXCEPT ![polled[r]] = row]
      BY <1>15, <3>1, <3>2, <3>3, StatementsWriteRows DEF WritePlan, Update
    <3> QED BY <1>e, <2>1, <2>2, <3>1, <3>2, <3>4 DEF Inserted
  <2> QED BY <2>3, <2>4
<1>16. CASE UNCHANGED vars
  BY <1>16 DEF vars, TypeInv, TypeOK, HandInv, PreparedInv
<1> QED
  BY <1>1, <1>2, <1>3, <1>4, <1>5, <1>6, <1>7, <1>8, <1>9, <1>10, <1>11, <1>12,
     <1>13, <1>14, <1>15, <1>16
  DEF Next, CreateStep, CompleteStep, RefreshStep

\* Each variable has its type in every reachable state.
THEOREM RepositoryTypeCorrect == Spec => []TypeOK
<1>1. Spec => []TypeInv
  BY TypeInit, TypeNext, PTL DEF Spec
<1>2. TypeInv => TypeOK
  BY DEF TypeInv
<1> QED BY <1>1, <1>2, PTL

-----------------------------------------------------------------------------
(* What a step leaves alone.                                               *)

\* A statement on a row in the table deletes it, or keeps its result or puts the
\* prepared one there.
Kept(j) ==
  \/ rows'[j] = rows[j]
  \/ /\ Exists(j) /\ rows'[j].status # "absent"
     /\ rows'[j].status = "deleted" \/ rows'[j].result \in {rows[j].result, Prepared}

OthersKept(c) ==
  \A d \in Callers : d # c => pc'[d] = pc[d] /\ job'[d] = job[d] /\ outcome'[d] = outcome[d]

LEMMA StatementStep ==
  ASSUME TypeInv, NEW j \in Jobs, Start(j) \/ PrepareResult(j) \/ Fail(j) \/ CleanupOld(j)
  PROVE  (\A i \in Jobs : Kept(i)) /\ UNCHANGED <<created, completion, callers, brings>>
<1>1. rows \in [Jobs -> Row]
  BY DEF TypeInv, TypeOK
<1>2. CASE Start(j)
  BY <1>1, <1>2 DEF Start, Update, Exists, Kept, Row
<1>3. CASE PrepareResult(j)
  BY <1>1, <1>3 DEF PrepareResult, Update, Exists, Kept, Row
<1>4. CASE Fail(j)
  BY <1>1, <1>4 DEF Fail, Update, Exists, Kept, Row
<1>5. CASE CleanupOld(j)
  BY <1>1, <1>5 DEF CleanupOld, Exists, Kept, Row, NoRow
<1> QED BY <1>2, <1>3, <1>4, <1>5

LEMMA RefreshKeeps ==
  ASSUME TypeInv, NEW r \in Refreshers, RefreshStep(r)
  PROVE  (\A i \in Jobs : Kept(i)) /\ UNCHANGED <<created, completion, callers, brings>>
<1>1. rows \in [Jobs -> Row] /\ seen \in [Refreshers -> Plans]
  BY DEF TypeInv, TypeOK, PreparedInv
<1>2. CASE ReadJob(r)
  BY <1>2 DEF ReadJob, Kept
<1>3. CASE WritePlan(r)
  <2>1. UNCHANGED <<created, completion, callers, brings>>
    BY <1>3 DEF WritePlan
  <2>2. seen[r].plan = "count" \/ seen[r].value = Prepared
    BY <1>1, <1>3 DEF WritePlan, Plans
  <2>3. CASE seen[r].plan = "count"
    BY <1>1, <1>3, <2>1, <2>3 DEF WritePlan, Update, CountedRow, Exists, Kept, Row
  <2>4. CASE seen[r].plan # "count"
    BY <1>1, <1>3, <2>1, <2>2, <2>4 DEF WritePlan, Update, CompletedRow, Exists, Kept, Row
  <2> QED BY <2>3, <2>4
<1> QED BY <1>2, <1>3 DEF RefreshStep

LEMMA CreatorStep ==
  ASSUME TypeInv, NEW c \in Creators, CreateStep(c) \/ CreateRaises(c)
  PROVE  /\ UNCHANGED <<completion, brings>> /\ OthersKept(c)
         /\ \A j \in Jobs : \/ rows'[j] = rows[j]
                            \/ rows[j].status = "absent" /\ rows'[j] = QueuedRow
<1> USE DEF Goto, Tell, callers, refreshing, OthersKept
<1>1. /\ rows \in [Jobs -> Row] /\ c \in Callers /\ job \in [Callers -> Jobs \cup {Null}]
      /\ pc \in [Callers -> {"claim", "lookup", "insert", "check", "write", "record", "done"}]
      /\ outcome \in [Callers -> {"none", "created", "replayed", "conflict", "error"}]
  BY DEF TypeInv, TypeOK, Callers
<1>2. CASE ClaimCreate(c)
  BY <1>1, <1>2 DEF ClaimCreate
<1>3. CASE LookUpCreated(c)
  BY <1>1, <1>3 DEF LookUpCreated
<1>4. CASE InsertJob(c)
  <2>1. PICK j \in Jobs : /\ \A i \in Jobs : rows[i].status = "absent" <=> i >= j
                          /\ rows' = [rows EXCEPT ![j] = QueuedRow]
                          /\ job' = [job EXCEPT ![c] = j]
    BY <1>4 DEF InsertJob
  <2>2. rows[j].status = "absent"
    BY <2>1 DEF Jobs
  <2> QED BY <1>1, <1>4, <2>1, <2>2 DEF InsertJob
<1>5. CASE RecordCreated(c)
  BY <1>1, <1>5 DEF RecordCreated
<1>6. CASE CreateRaises(c)
  BY <1>1, <1>6 DEF CreateRaises
<1> QED BY <1>2, <1>3, <1>4, <1>5, <1>6 DEF CreateStep

LEMMA CompleterStep ==
  ASSUME TypeInv, NEW c \in Completers, CompleteStep(c) \/ CompleteRaises(c)
  PROVE  /\ UNCHANGED <<created, brings>> /\ OthersKept(c)
         /\ \A j \in Jobs : \/ rows'[j] = rows[j]
                            \/ Exists(j) /\ rows'[j].status = "succeeded"
<1> USE DEF Goto, Tell, callers, refreshing, OthersKept
<1>1. /\ rows \in [Jobs -> Row] /\ c \in Callers /\ job \in [Callers -> Jobs \cup {Null}]
      /\ pc \in [Callers -> {"claim", "lookup", "insert", "check", "write", "record", "done"}]
      /\ outcome \in [Callers -> {"none", "created", "replayed", "conflict", "error"}]
  BY DEF TypeInv, TypeOK, Callers
<1>2. CASE CheckCompletion(c)
  BY <1>1, <1>2 DEF CheckCompletion
<1>3. CASE ClaimCompletion(c)
  BY <1>1, <1>3 DEF ClaimCompletion
<1>4. CASE LookUpCompleted(c)
  BY <1>1, <1>4 DEF LookUpCompleted
<1>5. CASE WriteCompletion(c)
  BY <1>1, <1>5 DEF WriteCompletion, Update, CompletedRow, Exists, Row
<1>6. CASE RecordCompletion(c)
  BY <1>1, <1>6 DEF RecordCompletion
<1>7. CASE CompleteRaises(c)
  BY <1>1, <1>7 DEF CompleteRaises
<1> QED BY <1>2, <1>3, <1>4, <1>5, <1>6, <1>7 DEF CompleteStep

-----------------------------------------------------------------------------
(* The create key: who holds it, and what was inserted under it.           *)

\* A caller that was told of a job, or is about to look it up, has the one on
\* record, and the record is never replaced.
RecordInv ==
  \A c \in Creators :
    /\ outcome[c] # "none" => pc[c] = "done"
    /\ pc[c] = "lookup" => created \in Jobs /\ job[c] = created
    /\ Succeeded(c) => created \in Jobs /\ job[c] = created

Gone == \E j \in Jobs : rows[j].status = "deleted"
NoneInserted == \A j \in Jobs : rows[j].status = "absent"
OneInserted == \A i, j \in Jobs : rows[i].status # "absent" /\ rows[j].status # "absent" => i = j
Inserting(c) == pc[c] \in {"insert", "record"}

\* While the key is claimed, its holder alone may insert, and nothing was; once
\* it is completed, only a caller that found the row gone inserts.
KeyInv ==
  /\ created = Null => NoneInserted /\ \A c \in Creators : pc[c] \in {"claim", "done"}
  /\ created = Held => \A c, d \in Creators : Inserting(c) /\ Inserting(d) => c = d
  /\ \A c \in Creators : pc[c] = "insert" =>
       (created = Held /\ NoneInserted) \/ (created \in Jobs /\ Gone)
  /\ OneInserted \/ Gone

LEMMA KeyInit == Init => RecordInv /\ KeyInv
<1> SUFFICES ASSUME Init PROVE RecordInv /\ KeyInv
  OBVIOUS
<1>1. /\ created = Null /\ created # Held /\ created \notin Jobs
      /\ \A c \in Creators : pc[c] = "claim" /\ outcome[c] = "none"
      /\ \A j \in Jobs : rows[j].status = "absent"
  BY RepositoryAssumption DEF Init, Callers, NoRow, Jobs
<1> QED BY <1>1 DEF RecordInv, KeyInv, NoneInserted, OneInserted, Succeeded

LEMMA KeyNext == TypeInv /\ RecordInv /\ KeyInv /\ [Next]_vars => RecordInv' /\ KeyInv'
<1> SUFFICES ASSUME TypeInv, RecordInv, KeyInv, [Next]_vars PROVE RecordInv' /\ KeyInv'
  OBVIOUS
<1>a. /\ rows \in [Jobs -> Row] /\ created \in {Null, Held} \cup Jobs
      /\ pc \in [Callers -> {"claim", "lookup", "insert", "check", "write", "record", "done"}]
      /\ job \in [Callers -> Jobs \cup {Null}]
      /\ outcome \in [Callers -> {"none", "created", "replayed", "conflict", "error"}]
      /\ Null # Held /\ Null \notin Jobs /\ Held \notin Jobs
  BY RepositoryAssumption DEF TypeInv, TypeOK, Jobs
<1>b. \A c \in Creators : c \in Callers /\ c \notin Completers
  BY RepositoryAssumption DEF Callers
\* Rows come and go as they may; the creators and the key are as they were.
<1>c. ASSUME UNCHANGED created,
             \A c \in Creators : pc'[c] = pc[c] /\ job'[c] = job[c] /\ outcome'[c] = outcome[c],
             \A j \in Jobs : /\ rows'[j].status = "absent" <=> rows[j].status = "absent"
                             /\ rows[j].status = "deleted" => rows'[j].status = "deleted"
      PROVE  RecordInv' /\ KeyInv'
  <2>1. RecordInv'
    BY <1>c DEF RecordInv, Succeeded
  <2>2. (NoneInserted => NoneInserted') /\ (OneInserted => OneInserted') /\ (Gone => Gone')
    BY <1>c DEF NoneInserted, OneInserted, Gone
  <2>3. KeyInv'
    BY <1>c, <2>2 DEF KeyInv, Inserting
  <2> QED BY <2>1, <2>3
<1>1. ASSUME NEW c \in Creators, ClaimCreate(c) PROVE RecordInv' /\ KeyInv'
  <2>1. /\ OthersKept(c) /\ rows' = rows /\ outcome' = outcome /\ pc[c] = "claim"
        /\ (Gone => Gone') /\ (NoneInserted => NoneInserted') /\ (OneInserted => OneInserted')
    BY <1>1, CreatorStep DEF ClaimCreate, CreateStep, Gone, NoneInserted, OneInserted
  <2>2. CASE created = Null
    <3>1. created' = Held /\ pc'[c] = "insert" /\ job' = job
      BY <1>1, <1>a, <1>b, <2>2 DEF ClaimCreate, Goto
    <3> QED BY <1>a, <1>b, <2>1, <2>2, <3>1
            DEF RecordInv, KeyInv, Succeeded, Inserting, OthersKept
  <2>3. CASE created # Null
    <3>1. created \in Jobs /\ created' = created /\ pc'[c] = "lookup" /\ job'[c] = created
      BY <1>1, <1>a, <1>b, <2>3 DEF ClaimCreate, Goto
    <3> QED BY <1>a, <1>b, <2>1, <2>3, <3>1
            DEF RecordInv, KeyInv, Succeeded, Inserting, OthersKept
  <2> QED BY <2>2, <2>3
<1>2. ASSUME NEW c \in Creators, LookUpCreated(c) PROVE RecordInv' /\ KeyInv'
  <2>1. /\ OthersKept(c) /\ rows' = rows /\ created' = created /\ job' = job
        /\ created \in Jobs /\ job[c] = created
        /\ (Gone => Gone') /\ (NoneInserted => NoneInserted') /\ (OneInserted => OneInserted')
    BY <1>2, CreatorStep DEF LookUpCreated, CreateStep, Gone, NoneInserted, OneInserted, RecordInv
  <2>2. CASE Exists(job[c])
    <3>1. pc'[c] = "done" /\ outcome'[c] = "replayed"
      BY <1>2, <1>a, <1>b, <2>2 DEF LookUpCreated, Goto, Tell
    <3> QED BY <1>a, <1>b, <2>1, <3>1 DEF RecordInv, KeyInv, Succeeded, Inserting, OthersKept
  <2>3. CASE ~Exists(job[c])
    <3>1. pc'[c] = "insert" /\ outcome'[c] = outcome[c] /\ outcome[c] = "none"
      BY <1>2, <1>a, <1>b, <2>3 DEF LookUpCreated, Goto, RecordInv
    <3>2. Gone
      BY <2>1, <2>3 DEF Gone, Exists, TypeInv, HandInv
    <3> QED BY <1>a, <1>b, <2>1, <3>1, <3>2 DEF RecordInv, KeyInv, Succeeded, Inserting, OthersKept
  <2> QED BY <2>2, <2>3
<1>3. ASSUME NEW c \in Creators, InsertJob(c) PROVE RecordInv' /\ KeyInv'
  <2>1. PICK j \in Jobs : /\ \A i \in Jobs : rows[i].status = "absent" <=> i >= j
                          /\ rows' = [rows EXCEPT ![j] = QueuedRow]
                          /\ job' = [job EXCEPT ![c] = j]
    BY <1>3 DEF InsertJob
  <2>2. /\ OthersKept(c) /\ created' = created /\ pc[c] = "insert" /\ pc'[c] = "record"
        /\ outcome'[c] = outcome[c] /\ outcome[c] = "none"
    BY <1>3, <1>a, <1>b, CreatorStep DEF InsertJob, CreateStep, Goto, RecordInv
  <2>3. rows[j].status = "absent"
    BY <2>1 DEF Jobs
  <2>4. Gone => Gone'
    BY <1>a, <2>1, <2>3 DEF Gone
  <2>5. NoneInserted => OneInserted'
    BY <1>a, <2>1 DEF NoneInserted, OneInserted
  <2>6. (created = Held /\ NoneInserted) \/ (created \in Jobs /\ Gone)
    BY <2>2 DEF KeyInv
  <2>7. \A d \in Creators : d # c /\ pc[d] = "insert" => created \in Jobs /\ Gone
    BY <1>a, <2>2, <2>6 DEF KeyInv, Inserting
  <2>8. RecordInv'
    BY <1>b, <2>2 DEF RecordInv, Succeeded, OthersKept
  <2>9. KeyInv'
    <3>1. created' # Null /\ (OneInserted \/ Gone)'
      BY <1>a, <2>2, <2>4, <2>5, <2>6
    <3>2. (created = Held => \A e, d \in Creators : Inserting(e) /\ Inserting(d) => e = d)'
      BY <1>b, <2>2 DEF KeyInv, Inserting, OthersKept
    <3>3. (\A d \in Creators : pc[d] = "insert" => created \in Jobs /\ Gone)'
      BY <1>b, <2>2, <2>4, <2>7 DEF OthersKept
    <3> QED BY <3>1, <3>2, <3>3 DEF KeyInv
  <2> QED BY <2>8, <2>9
<1>4. ASSUME NEW c \in Creators, RecordCreated(c) PROVE RecordInv' /\ KeyInv'
  <2>1. /\ OthersKept(c) /\ rows' = rows /\ job' = job /\ pc[c] = "record" /\ pc'[c] = "done"
        /\ job[c] \in Jobs /\ created # Null
        /\ (Gone => Gone') /\ (NoneInserted => NoneInserted') /\ (OneInserted => OneInserted')
    BY <1>4, <1>a, <1>b, CreatorStep
    DEF RecordCreated, CreateStep, Tell, Goto, Gone, NoneInserted, OneInserted, KeyInv, TypeInv, HandInv
  <2>2. CASE created = Held
    <3>1. created' = job[c] /\ outcome'[c] = "created"
      BY <1>4, <1>a, <1>b, <2>2 DEF RecordCreated, Tell
    <3>2. \A d \in Creators : d # c => pc[d] # "insert"
      BY <2>1, <2>2 DEF KeyInv, Inserting
    <3> QED BY <1>a, <1>b, <2>1, <2>2, <3>1, <3>2
            DEF RecordInv, KeyInv, Succeeded, Inserting, OthersKept
  <2>3. CASE created # Held
    <3>1. created' = created /\ outcome'[c] = "error"
      BY <1>4, <1>a, <1>b, <2>3 DEF RecordCreated, Tell
    <3> QED BY <1>a, <1>b, <2>1, <2>3, <3>1
            DEF RecordInv, KeyInv, Succeeded, Inserting, OthersKept
  <2> QED BY <2>2, <2>3
<1>5. ASSUME NEW c \in Creators, CreateRaises(c) PROVE RecordInv' /\ KeyInv'
  <2>1. /\ OthersKept(c) /\ UNCHANGED <<rows, created, job>> /\ pc'[c] = "done" /\ outcome'[c] = "error"
        /\ (Gone => Gone') /\ (NoneInserted => NoneInserted') /\ (OneInserted => OneInserted')
    BY <1>5, <1>a, <1>b, CreatorStep DEF CreateRaises, Tell, Goto, Gone, NoneInserted, OneInserted
  <2> QED BY <1>a, <1>b, <2>1 DEF RecordInv, KeyInv, Succeeded, Inserting, OthersKept
<1>6. ASSUME NEW c \in Completers, CompleteStep(c) \/ CompleteRaises(c) PROVE RecordInv' /\ KeyInv'
  BY <1>6, <1>b, <1>c, CompleterStep DEF OthersKept, Exists
<1>7. ASSUME NEW j \in Jobs, Start(j) \/ PrepareResult(j) \/ Fail(j) \/ CleanupOld(j)
      PROVE  RecordInv' /\ KeyInv'
  BY <1>7, <1>c, StatementStep DEF Kept, Exists, callers
<1>8. ASSUME NEW r \in Refreshers, RefreshStep(r) PROVE RecordInv' /\ KeyInv'
  BY <1>8, <1>c, RefreshKeeps DEF Kept, Exists, callers
<1>9. CASE UNCHANGED vars
  BY <1>9, <1>c DEF vars, callers
<1> QED
  BY <1>1, <1>2, <1>3, <1>4, <1>5, <1>6, <1>7, <1>8, <1>9 DEF Next, CreateStep

LEMMA KeyAlways == Spec => [](TypeInv /\ RecordInv /\ KeyInv)
BY TypeInit, TypeNext, KeyInit, KeyNext, PTL DEF Spec

\* All callers of one create request that are told of a job are told of the
\* same job, however many call, rows are cleaned up and statements raise.
THEOREM OneJobPerRequest == Spec => []SameJobForAll
<1>1. RecordInv => SameJobForAll
  BY DEF RecordInv, SameJobForAll
<1> QED BY <1>1, KeyAlways, PTL

\* The request has a second row only after a row of it was cleaned up.
THEOREM SecondRowAfterCleanup == Spec => []SecondRowOnlyAfterCleanup
<1>1. KeyInv => SecondRowOnlyAfterCleanup
  <2> SUFFICES ASSUME OneInserted
               PROVE  ~(Cardinality({j \in Jobs : rows[j].status # "absent"}) > 1)
    BY DEF KeyInv, Gone, SecondRowOnlyAfterCleanup
  <2> DEFINE inserted == {j \in Jobs : rows[j].status # "absent"}
  <2>1. CASE inserted = {}
    BY <2>1, FS_EmptySet
  <2>2. CASE inserted # {}
    <3>1. PICK j : inserted = {j}
      BY <2>2 DEF OneInserted
    <3>2. Cardinality(inserted) = 1
      BY <3>1, FS_Singleton
    <3> QED BY <3>2
  <2> QED BY <2>1, <2>2
<1> QED BY <1>1, KeyAlways, PTL

-----------------------------------------------------------------------------
(* The complete keys.                                                      *)

Writing(c) == pc[c] \in {"write", "record"}

\* A completer that writes holds the key, unless the row is gone; what stands in
\* the row once it has written is its own result, or the prepared one.
ClaimInv ==
  \A c \in Completers :
    /\ outcome[c] # "none" => pc[c] = "done"
    /\ Writing(c) => \/ rows[job[c]].status = "deleted"
                     \/ completion[job[c]] = Claimed(brings[c])
    /\ outcome[c] = "created" => job[c] \in Jobs /\ completion[job[c]] = Done(brings[c])
    /\ (pc[c] = "record" \/ outcome[c] = "created") /\ Exists(job[c])
         => rows[job[c]].result \in {brings[c], Prepared}

\* One completer of a job at a time writes, and one is told that it did.
SoleInv ==
  \A c, d \in Completers : job[c] = job[d] =>
    /\ Writing(c) /\ Writing(d) => c = d \/ rows[job[c]].status = "deleted"
    /\ outcome[c] = "created" /\ outcome[d] = "created" => c = d

LEMMA ClaimInit == Init => ClaimInv /\ SoleInv
<1> SUFFICES ASSUME Init PROVE ClaimInv /\ SoleInv
  OBVIOUS
<1>1. \A c \in Completers : pc[c] = "check" /\ outcome[c] = "none"
  BY RepositoryAssumption DEF Init, Callers
<1> QED BY <1>1 DEF ClaimInv, SoleInv, Writing

LEMMA ClaimNext == TypeInv /\ ClaimInv /\ SoleInv /\ [Next]_vars => ClaimInv' /\ SoleInv'
<1> SUFFICES ASSUME TypeInv, ClaimInv, SoleInv, [Next]_vars PROVE ClaimInv' /\ SoleInv'
  OBVIOUS
<1>a. /\ rows \in [Jobs -> Row]
      /\ completion \in [Jobs -> [state : {"free", "claimed", "completed"},
                                  result : Results \cup {Null}]]
      /\ pc \in [Callers -> {"claim", "lookup", "insert", "check", "write", "record", "done"}]
      /\ job \in [Callers -> Jobs \cup {Null}]
      /\ outcome \in [Callers -> {"none", "created", "replayed", "conflict", "error"}]
  BY DEF TypeInv, TypeOK
<1>b. \A c \in Completers : c \in Callers /\ c \notin Creators
  BY RepositoryAssumption DEF Callers
<1>c. /\ \A c \in Completers : pc[c] \in {"claim", "lookup", "write", "record"} => job[c] \in Jobs
      /\ \A c \in Callers : job[c] \in Jobs => rows[job[c]].status # "absent"
  BY DEF TypeInv, HandInv
<1>d. \A r, q \in Results : Claimed(r) # Done(q) /\ Claimed(r) # NoClaim
  BY DEF Claimed, Done, NoClaim
\* A statement between the completers' steps: the one that adds a row leaves the
\* others alone.
<1>e. ASSUME UNCHANGED <<completion, brings>>,
             \A c \in Completers : pc'[c] = pc[c] /\ job'[c] = job[c] /\ outcome'[c] = outcome[c],
             \A j \in Jobs : rows[j].status = "absent" \/ Kept(j)
      PROVE  ClaimInv' /\ SoleInv'
  <2>1. \A c \in Completers : Writing(c) \/ outcome[c] = "created" =>
          /\ job[c] \in Jobs /\ Kept(job[c])
          /\ rows[job[c]].status = "deleted" => rows'[job[c]].status = "deleted"
    BY <1>b, <1>c, <1>e DEF Writing, ClaimInv, Kept, Exists
  <2>2. ClaimInv'
    BY <1>e, <2>1 DEF ClaimInv, Writing, Kept, Exists
  <2>3. SoleInv'
    BY <1>e, <2>1 DEF SoleInv, Writing
  <2> QED BY <2>2, <2>3
\* A step of a completer that writes no row and no record, and leaves it neither
\* writing nor "created", or writing to a row that is gone.
<1>f. ASSUME NEW c \in Completers, OthersKept(c), UNCHANGED <<rows, completion, brings>>,
             outcome'[c] # "created", outcome'[c] # "none" => pc'[c] = "done",
             pc'[c] # "record",
             pc'[c] = "write" => job'[c] = job[c] /\ rows[job[c]].status = "deleted"
      PROVE  ClaimInv' /\ SoleInv'
  <2>1. \A d \in Completers : d # c => pc'[d] = pc[d] /\ job'[d] = job[d] /\ outcome'[d] = outcome[d]
    BY <1>b, <1>f DEF OthersKept
  <2>2. ClaimInv'
    BY <1>f, <2>1 DEF ClaimInv, Writing, Exists
  <2>3. SoleInv'
    BY <1>f, <2>1 DEF SoleInv, Writing
  <2> QED BY <2>2, <2>3
<1>1. ASSUME NEW c \in Completers, CheckCompletion(c) PROVE ClaimInv' /\ SoleInv'
  <2>1. /\ OthersKept(c) /\ UNCHANGED <<rows, completion, brings>> /\ outcome[c] = "none"
    BY <1>1, CompleterStep DEF CheckCompletion, CompleteStep, ClaimInv
  <2>2. \/ pc'[c] = "claim" /\ outcome'[c] = outcome[c]
        \/ pc'[c] = "done" /\ outcome'[c] \in {"replayed", "conflict"}
    BY <1>1, <1>a, <1>b DEF CheckCompletion, Goto, Tell
  <2> QED BY <1>f, <2>1, <2>2
<1>2. ASSUME NEW c \in Completers, ClaimCompletion(c) PROVE ClaimInv' /\ SoleInv'
  <2>1. /\ OthersKept(c) /\ rows' = rows /\ job' = job /\ brings' = brings
        /\ outcome[c] = "none" /\ pc[c] = "claim" /\ job[c] \in Jobs
    BY <1>2, <1>c, CompleterStep DEF ClaimCompletion, CompleteStep, ClaimInv
  <2>2. CASE completion[job[c]].state = "free"
    <3>1. /\ completion' = [completion EXCEPT ![job[c]] = Claimed(brings[c])]
          /\ pc'[c] = "write" /\ outcome' = outcome
      BY <1>2, <1>a, <1>b, <2>2 DEF ClaimCompletion, Goto
    <3>2. \A d \in Completers : d # c => pc'[d] = pc[d] /\ job'[d] = job[d] /\ outcome'[d] = outcome[d]
      BY <1>b, <2>1 DEF OthersKept
    <3>3. \A d \in Completers : job[d] = job[c] =>
            outcome[d] # "created" /\ (Writing(d) => rows[job[c]].status = "deleted")
      <4>1. TAKE d \in Completers
      <4>2. \A r : Done(r).state # "free" /\ Claimed(r).state # "free"
        BY DEF Done, Claimed
      <4> QED BY <2>2, <4>2 DEF ClaimInv
    <3>4. ClaimInv'
      BY <1>a, <1>c, <2>1, <3>1, <3>2, <3>3 DEF ClaimInv, Writing, Exists
    <3>5. SoleInv'
      BY <2>1, <3>1, <3>2, <3>3 DEF SoleInv, Writing
    <3> QED BY <3>4, <3>5
  <2>3. CASE completion[job[c]].state = "completed"
    <3>1. /\ completion' = completion
          /\ \/ pc'[c] = "lookup" /\ outcome'[c] = outcome[c]
             \/ pc'[c] = "done" /\ outcome'[c] = "conflict"
      BY <1>2, <1>a, <1>b, <2>3 DEF ClaimCompletion, Goto, Tell
    <3> QED BY <1>f, <2>1, <3>1
  <2> QED BY <1>2, <2>2, <2>3 DEF ClaimCompletion
<1>3. ASSUME NEW c \in Completers, LookUpCompleted(c) PROVE ClaimInv' /\ SoleInv'
  <2>1. /\ OthersKept(c) /\ UNCHANGED <<rows, completion, brings, job>>
        /\ outcome[c] = "none" /\ rows[job[c]].status # "absent"
    BY <1>3, <1>b, <1>c, CompleterStep DEF LookUpCompleted, CompleteStep, ClaimInv
  <2>2. \/ pc'[c] = "done" /\ outcome'[c] = "replayed"
        \/ pc'[c] = "write" /\ outcome'[c] = outcome[c] /\ ~Exists(job[c])
    BY <1>3, <1>a, <1>b DEF LookUpCompleted, Goto, Tell
  <2> QED BY <1>f, <2>1, <2>2 DEF Exists
<1>4. ASSUME NEW c \in Completers, WriteCompletion(c) PROVE ClaimInv' /\ SoleInv'
  <2>1. /\ OthersKept(c) /\ completion' = completion /\ job' = job /\ brings' = brings
        /\ outcome' = outcome /\ pc[c] = "write" /\ pc'[c] = "record" /\ job[c] \in Jobs
    BY <1>4, <1>a, <1>b, <1>c, CompleterStep DEF WriteCompletion, CompleteStep, Goto
  <2>2. /\ \A j \in Jobs : j # job[c] => rows'[j] = rows[j]
        /\ ~Exists(job[c]) => rows'[job[c]] = rows[job[c]]
        /\ Exists(job[c]) => rows'[job[c]].result = brings[c] /\ rows'[job[c]].status = "succeeded"
    BY <1>4, <1>a, <2>1 DEF WriteCompletion, Update, CompletedRow, Row
  <2>3. \A d \in Completers : d # c => pc'[d] = pc[d]
    BY <1>b, <2>1 DEF OthersKept
  <2>4. \A d \in Completers : d # c /\ job[d] = job[c] /\ (Writing(d) \/ outcome[d] = "created") =>
          rows[job[c]].status = "deleted"
    <3>1. TAKE d \in Completers
    <3>2. CASE Writing(d)
      BY <2>1, <3>2 DEF SoleInv, Writing
    <3>3. CASE outcome[d] = "created"
      <4>1. brings[c] \in Results /\ brings[d] \in Results
        BY DEF TypeInv, TypeOK
      <4> QED BY <1>d, <2>1, <3>3, <4>1 DEF ClaimInv, Writing
    <3> QED BY <3>2, <3>3
  <2>5. \A d \in Completers : Writing(d) \/ outcome[d] = "created" => job[d] \in Jobs
    BY <1>c DEF Writing, ClaimInv
  <2>6. \A d \in Completers : job[d] \in Jobs /\ rows[job[d]].status = "deleted" =>
          rows'[job[d]].status = "deleted"
    BY <2>2 DEF Exists
  <2>7. ClaimInv'
    <3> SUFFICES ASSUME NEW d \in Completers
                 PROVE  (/\ outcome[d] # "none" => pc[d] = "done"
                         /\ Writing(d) => \/ rows[job[d]].status = "deleted"
                                          \/ completion[job[d]] = Claimed(brings[d])
                         /\ outcome[d] = "created" =>
                              job[d] \in Jobs /\ completion[job[d]] = Done(brings[d])
                         /\ (pc[d] = "record" \/ outcome[d] = "created") /\ Exists(job[d])
                              => rows[job[d]].result \in {brings[d], Prepared})'
      BY DEF ClaimInv
    <3>1. CASE d = c
      BY <2>1, <2>2, <2>5, <2>6, <3>1 DEF ClaimInv, Writing, Exists
    <3>2. CASE d # c
      BY <2>1, <2>2, <2>3, <2>4, <2>5, <2>6, <3>2 DEF ClaimInv, Writing, Exists
    <3> QED BY <3>1, <3>2
  <2>8. SoleInv'
    BY <2>1, <2>3, <2>5, <2>6 DEF SoleInv, Writing
  <2> QED BY <2>7, <2>8
<1>5. ASSUME NEW c \in Completers, RecordCompletion(c) PROVE ClaimInv' /\ SoleInv'
  <2>1. /\ OthersKept(c) /\ rows' = rows /\ job' = job /\ brings' = brings
        /\ pc[c] = "record" /\ pc'[c] = "done" /\ job[c] \in Jobs
    BY <1>5, <1>a, <1>b, <1>c, CompleterStep DEF RecordCompletion, CompleteStep, Goto, Tell
  <2>2. CASE Exists(job[c]) /\ completion[job[c]] = Claimed(brings[c])
    <3>1. /\ completion' = [completion EXCEPT ![job[c]] = Done(brings[c])]
          /\ outcome'[c] = "created"
      BY <1>5, <1>a, <1>b, <2>2 DEF RecordCompletion, Tell
    <3>2. \A d \in Completers : d # c => pc'[d] = pc[d] /\ outcome'[d] = outcome[d]
      BY <1>b, <2>1 DEF OthersKept
    <3>3. \A d \in Completers : d # c /\ job[d] = job[c] => ~Writing(d) /\ outcome[d] # "created"
      <4>1. TAKE d \in Completers
      <4>2. brings[c] \in Results /\ brings[d] \in Results
        BY DEF TypeInv, TypeOK
      <4> QED BY <1>d, <2>1, <2>2, <4>2 DEF ClaimInv, SoleInv, Writing, Exists
    <3>4. ClaimInv'
      BY <1>a, <1>c, <2>1, <2>2, <3>1, <3>2, <3>3 DEF ClaimInv, Writing, Exists
    <3>5. SoleInv'
      BY <2>1, <3>1, <3>2, <3>3 DEF SoleInv, Writing
    <3> QED BY <3>4, <3>5
  <2>3. CASE ~(Exists(job[c]) /\ completion[job[c]] = Claimed(brings[c]))
    <3>1. completion' = completion /\ outcome'[c] = "error"
      BY <1>5, <1>a, <1>b, <2>3 DEF RecordCompletion, Tell
    <3> QED BY <1>f, <2>1, <3>1
  <2> QED BY <2>2, <2>3
<1>6. ASSUME NEW c \in Completers, CompleteRaises(c) PROVE ClaimInv' /\ SoleInv'
  <2>1. /\ OthersKept(c) /\ UNCHANGED <<rows, completion, brings>>
        /\ pc'[c] = "done" /\ outcome'[c] = "error"
    BY <1>6, <1>a, <1>b, CompleterStep DEF CompleteRaises, Tell, Goto
  <2> QED BY <1>f, <2>1
<1>7. ASSUME NEW c \in Creators, CreateStep(c) \/ CreateRaises(c) PROVE ClaimInv' /\ SoleInv'
  BY <1>7, <1>b, <1>e, CreatorStep DEF OthersKept, Kept
<1>8. ASSUME NEW j \in Jobs, Start(j) \/ PrepareResult(j) \/ Fail(j) \/ CleanupOld(j)
      PROVE  ClaimInv' /\ SoleInv'
  BY <1>8, <1>e, StatementStep DEF callers
<1>9. ASSUME NEW r \in Refreshers, RefreshStep(r) PROVE ClaimInv' /\ SoleInv'
  BY <1>9, <1>e, RefreshKeeps DEF callers
<1>10. CASE UNCHANGED vars
  BY <1>10, <1>e DEF vars, callers, Kept
<1> QED
  BY <1>1, <1>2, <1>3, <1>4, <1>5, <1>6, <1>7, <1>8, <1>9, <1>10 DEF Next, CompleteStep

\* One completer of a job at most is told that it completed it, and what stands
\* in the row is then its own result or the prepared one, however completions,
\* refreshes, failures and cleanups interleave.
THEOREM OneCompleter == Spec => []CompletedByOne
<1>1. Spec => [](TypeInv /\ ClaimInv /\ SoleInv)
  BY TypeInit, TypeNext, ClaimInit, ClaimNext, PTL DEF Spec
<1>2. ClaimInv /\ SoleInv => CompletedByOne
  BY DEF ClaimInv, SoleInv, CompletedByOne
<1> QED BY <1>1, <1>2, PTL

=============================================================================
