------------------------- MODULE AsyncSessionProofs -------------------------
(***************************************************************************)
(* More theorems about AsyncJobs: what the session names between turns,    *)
(* that what a poll has told is promoted, and the step budget.             *)
(***************************************************************************)
EXTENDS AsyncJobsProofs

-----------------------------------------------------------------------------
(* Rows, and the rows that clients hold.                                   *)

\* A row that succeeded names the result, and the row of a chat that went past
\* its binding names the answer that the result replaces; a client works on
\* jobs of chats that were answered, and holds such rows.
Named(a) == a.status = "succeeded" => a.completed
Bound == {"start_job", "read_session", "save_final_session", "done"}
KnownInv ==
  /\ \A j \in Jobs : Named(row[j])
  /\ \A c \in Chats : pc[c] \in Bound /\ row[c].status # "absent" => row[c].pending
  /\ \A p \in Clients : pc[p] # "idle" =>
       /\ Named(Held(p))
       /\ Asked(p) \in Chats => pc[Asked(p)] = "done" /\ Held(p).pending
  /\ \A c \in Chats : c \in told => pc[c] = "done"

LEMMA UpdatesName ==
  ASSUME NEW a \in JobRow, Named(a)
  PROVE  /\ Named(CreatedRow) /\ CreatedRow.status # "absent"
         /\ Named(PreparedRow(a)) /\ PreparedRow(a).status = a.status
         /\ Named(BoundRow(a)) /\ BoundRow(a).status = a.status /\ BoundRow(a).pending
         /\ Named(StartedRow(a)) /\ StartedRow(a).status = "running"
         /\ StartedRow(a).pending = a.pending
<1> USE DEF Named, JobRow
<1>1. Named(CreatedRow) /\ CreatedRow.status # "absent"
  BY DEF CreatedRow, NoRow
<1>2. Named(PreparedRow(a)) /\ PreparedRow(a).status = a.status
  BY DEF PreparedRow
<1>3. Named(BoundRow(a)) /\ BoundRow(a).status = a.status /\ BoundRow(a).pending
  BY DEF BoundRow
<1>4. /\ Named(StartedRow(a)) /\ StartedRow(a).status = "running"
      /\ StartedRow(a).pending = a.pending
  BY DEF StartedRow
<1> QED BY <1>1, <1>2, <1>3, <1>4

\* What a client makes of a row.
ClientWrites(a, b) ==
  /\ Named(a) => Named(b)
  /\ b.pending = a.pending /\ b.step = a.step
  /\ a.status # "absent" => b.status # "absent"

LEMMA ClientUpdates ==
  ASSUME NEW a \in JobRow
  PROVE  /\ ClientWrites(a, a) /\ ClientWrites(a, FailedRow(a))
         /\ ClientWrites(a, CancelledRow(a)) /\ ClientWrites(a, RefreshedRow(a))
<1> USE DEF ClientWrites, Named, JobRow
<1>1. ClientWrites(a, a)
  OBVIOUS
<1>2. ClientWrites(a, FailedRow(a)) /\ ClientWrites(a, CancelledRow(a))
  BY DEF FailedRow, CancelledRow
<1>3. ClientWrites(a, RefreshedRow(a))
  <2>1. CASE Counted(a) > 0
    BY <2>1 DEF RefreshedRow
  <2>2. CASE ~(Counted(a) > 0) /\ ValidTransition(a.status, "succeeded")
    <3>1. RefreshedRow(a) = CompletedRow(a)
      BY <2>2 DEF RefreshedRow
    <3> QED BY <3>1 DEF CompletedRow
  <2>3. CASE ~(Counted(a) > 0) /\ ~ValidTransition(a.status, "succeeded")
    BY <1>1, <2>3 DEF RefreshedRow
  <2> QED BY <2>1, <2>2, <2>3
<1> QED BY <1>1, <1>2, <1>3

LEMMA SteppedWrites ==
  ASSUME NEW a \in JobRow, NEW step, NEW trigger
  PROVE  LET b == SteppedRow(a, step, trigger) IN
         /\ Named(a) => Named(b)
         /\ b.pending = a.pending /\ b.step = step /\ b.status = a.status
BY DEF SteppedRow, Named, JobRow

\* What a step of a chat moves: its own row, label and draft.
LEMMA ChatMoves ==
  ASSUME JobsInv, NEW c \in Chats, BeginChat(c) \/ ChatStep(c) \/ ChatDies(c)
  PROVE  /\ pc[c] \notin {"done", "dead"}
         /\ \A t \in Chats \cup Clients : t # c => pc'[t] = pc[t]
         /\ \A j \in Jobs : j # c => row'[j] = row[j]
         /\ \A d \in Chats : d # c => draft'[d] = draft[d]
         /\ UNCHANGED <<view, executed, told, disturbed>>
<1>0. /\ pc \in [Chats \cup Clients -> Labels] /\ row \in [Jobs -> JobRow]
      /\ draft \in [Chats -> SessionRow] /\ c \in Jobs /\ c \in Chats \cup Clients
  BY DEF JobsInv, TypeOK, Jobs
<1> USE DEF Goto, jobVars, history
<1>1. CASE BeginChat(c)
  BY <1>0, <1>1 DEF BeginChat
<1>2. CASE SaveSession(c)
  BY <1>0, <1>2 DEF SaveSession
<1>3. CASE CreateJob(c)
  BY <1>0, <1>3 DEF CreateJob
<1>4. CASE SeedAutonomy(c)
  BY <1>0, <1>4 DEF SeedAutonomy
<1>5. CASE PrepareResult(c)
  BY <1>0, <1>5 DEF PrepareResult
<1>6. CASE SaveLastJob(c)
  BY <1>0, <1>6 DEF SaveLastJob
<1>7. CASE BindPendingResponse(c)
  BY <1>0, <1>7 DEF BindPendingResponse
<1>8. CASE StartJob(c)
  BY <1>0, <1>8 DEF StartJob
<1>9. CASE ReadSession(c)
  BY <1>0, <1>9 DEF ReadSession
<1>10. CASE SaveFinalSession(c)
  BY <1>0, <1>10 DEF SaveFinalSession
<1>11. CASE ChatDies(c)
  BY <1>0, <1>11 DEF ChatDies, InFlight
<1> QED BY <1>1, <1>2, <1>3, <1>4, <1>5, <1>6, <1>7, <1>8, <1>9, <1>10, <1>11 DEF ChatStep

\* A client moves the row that it asked for, its own view, and the session only
\* to what it promotes.
LEMMA ClientMoves ==
  ASSUME JobsInv, NEW p \in Clients,
         \/ \E j \in Jobs : Poll(p, j) \/ AskLifecycle(p, j) \/ AskCancel(p, j)
         \/ ClientStep(p) \/ ClientDies(p)
  PROVE  /\ \A t \in Chats \cup Clients : t # p => pc'[t] = pc[t]
         /\ \A q \in Clients : q # p => view'[q] = view[q]
         /\ \A j \in Jobs : \/ row'[j] = row[j]
                            \/ j = Asked(p) /\ pc[p] # "idle"
         /\ UNCHANGED <<draft, turn, newest, overtaken>>
         /\ session' \in {session, Promoted(p)}
         /\ session' # session => pc[p] # "idle"
         /\ \A j \in told' \ told : j = Asked(p) /\ pc[p] # "idle"
<1>0. /\ pc \in [Chats \cup Clients -> Labels] /\ row \in [Jobs -> JobRow]
      /\ view \in [Clients -> Views] /\ p \in Chats \cup Clients
  BY DEF JobsInv, TypeOK
<1> USE DEF Goto, Return, Look, jobVars, history
<1>1. ASSUME NEW j \in Jobs, Poll(p, j) \/ AskLifecycle(p, j) \/ AskCancel(p, j)
      PROVE  /\ \A t \in Chats \cup Clients : t # p => pc'[t] = pc[t]
             /\ \A q \in Clients : q # p => view'[q] = view[q]
             /\ UNCHANGED <<row, draft, turn, newest, overtaken, session, told>>
  BY <1>0, <1>1 DEF Poll, AskLifecycle, AskCancel
<1>2. CASE AdvanceStep(p) \/ AdvanceWithoutCheckpoint(p)
  BY <1>0, <1>2 DEF AdvanceStep, AdvanceWithoutCheckpoint
<1>3. CASE RecordStep(p) \/ StepRaises(p)
  <2>1. pc[p] # "idle"
    BY <1>3 DEF RecordStep, StepRaises, Advancing
  <2> QED BY <1>0, <1>3, <2>1 DEF RecordStep, StepRaises
<1>4. CASE CheckFail(p) \/ WriteFailed(p)
  BY <1>0, <1>4 DEF CheckFail, WriteFailed
<1>5. CASE CheckCancel(p) \/ WriteCancelled(p)
  BY <1>0, <1>5 DEF CheckCancel, WriteCancelled
<1>6. CASE Refresh(p) \/ Reread(p)
  BY <1>0, <1>6 DEF Refresh, Reread
<1>7. CASE RefreshLocked(p)
  BY <1>0, <1>7 DEF RefreshLocked
<1>8. CASE Respond(p)
  BY <1>0, <1>8 DEF Respond
<1>9. CASE ClientDies(p)
  BY <1>0, <1>9 DEF ClientDies
<1> QED BY <1>1, <1>2, <1>3, <1>4, <1>5, <1>6, <1>7, <1>8, <1>9 DEF ClientStep

LEMMA KnownInit == Init => KnownInv
<1> SUFFICES ASSUME Init PROVE KnownInv
  OBVIOUS
<1>1. /\ \A j \in Jobs : row[j] = NoRow
      /\ \A c \in Chats : pc[c] = "idle" /\ c \in Jobs
      /\ \A p \in Clients : pc[p] = "idle"
      /\ told = {}
  BY DEF Init, Jobs
<1> QED BY <1>1 DEF KnownInv, Named, NoRow, Bound

\* A step of a chat that was not answered, given what it makes of its own row.
LEMMA KnownChat ==
  ASSUME JobsInv, KnownInv, NEW c \in Chats, BeginChat(c) \/ ChatStep(c) \/ ChatDies(c),
         Named(row'[c]),
         pc'[c] \in Bound /\ row'[c].status # "absent" => row'[c].pending
  PROVE  KnownInv'
<1>1. /\ pc[c] \notin {"done", "dead"}
      /\ \A t \in Chats \cup Clients : t # c => pc'[t] = pc[t]
      /\ \A j \in Jobs : j # c => row'[j] = row[j]
      /\ UNCHANGED <<view, told>>
  BY ChatMoves
<1>2. \A p \in Clients : p # c /\ p \in Chats \cup Clients
  BY JobsAssumption
<1>3. \A d \in Chats : d \in Jobs /\ d \in Chats \cup Clients
  BY DEF Jobs
<1> QED BY <1>1, <1>2, <1>3 DEF KnownInv, Asked, Held

\* A step of a client, given what it makes of the row it works on and holds then.
LEMMA KnownClient ==
  ASSUME JobsInv, KnownInv, NEW p \in Clients,
         \/ \E j \in Jobs : Poll(p, j) \/ AskLifecycle(p, j) \/ AskCancel(p, j)
         \/ ClientStep(p) \/ ClientDies(p),
         row'[Asked(p)] = row[Asked(p)]
           \/ (Named(row'[Asked(p)]) /\ row'[Asked(p)].pending = row[Asked(p)].pending),
         pc'[p] # "idle" =>
           /\ Named(view'[p].row)
           /\ view'[p].job \in Chats => pc[view'[p].job] = "done" /\ view'[p].row.pending
  PROVE  KnownInv'
<1>1. /\ \A t \in Chats \cup Clients : t # p => pc'[t] = pc[t]
      /\ \A q \in Clients : q # p => view'[q] = view[q]
      /\ \A j \in Jobs : row'[j] = row[j] \/ (j = Asked(p) /\ pc[p] # "idle")
      /\ \A j \in told' \ told : j = Asked(p) /\ pc[p] # "idle"
  BY ClientMoves
<1>2. \A c \in Chats : c # p /\ c \in Jobs /\ pc'[c] = pc[c]
  BY <1>1, JobsAssumption DEF Jobs
<1>3. pc[p] # "idle" => row[Asked(p)].status # "absent"
  BY DEF JobsInv, HasJob
<1>4. \A j \in Jobs : Named(row'[j])
  BY <1>1 DEF KnownInv
<1>5. \A c \in Chats : pc'[c] \in Bound /\ row'[c].status # "absent" => row'[c].pending
  BY <1>1, <1>2, <1>3 DEF KnownInv
<1>6. \A c \in Chats : c \in told' => pc'[c] = "done"
  BY <1>1, <1>2 DEF KnownInv
<1>7. ASSUME NEW q \in Clients, pc'[q] # "idle"
      PROVE  /\ Named(view'[q].row)
             /\ view'[q].job \in Chats => pc'[view'[q].job] = "done" /\ view'[q].row.pending
  <2>1. CASE q = p
    BY <1>2, <1>7, <2>1
  <2>2. CASE q # p
    <3>1. pc'[q] = pc[q] /\ view'[q] = view[q]
      BY <1>1, <2>2
    <3> QED BY <1>2, <1>7, <3>1 DEF KnownInv, Asked, Held
  <2> QED BY <2>1, <2>2
<1> QED BY <1>4, <1>5, <1>6, <1>7 DEF KnownInv, Asked, Held

LEMMA KnownNext == JobsInv /\ KnownInv /\ [Next]_vars => KnownInv'
<1> SUFFICES ASSUME JobsInv, KnownInv, [Next]_vars PROVE KnownInv'
  OBVIOUS
<1>0. /\ pc \in [Chats \cup Clients -> Labels] /\ row \in [Jobs -> JobRow]
      /\ view \in [Clients -> Views]
      /\ \A c \in Chats : c \in Jobs /\ c \in Chats \cup Clients /\ row[c] \in JobRow
      /\ \A p \in Clients : p \in Chats \cup Clients
      /\ \A j \in Jobs : Named(row[j])
  BY DEF JobsInv, TypeOK, KnownInv, Jobs
<1> USE DEF Goto, Bound
<1>1. ASSUME NEW c \in Chats, BeginChat(c) \/ ChatDies(c) PROVE KnownInv'
  <2>1. row' = row /\ pc'[c] \notin Bound
    BY <1>0, <1>1 DEF BeginChat, ChatDies, jobVars
  <2> QED BY <1>0, <1>1, <2>1, KnownChat
<1>2. ASSUME NEW c \in Chats, ChatStep(c) PROVE KnownInv'
  <2>1. CASE SaveSession(c)
    <3>1. row' = row /\ (row[c].status = "absent" \/ pc'[c] \notin Bound)
      BY <1>0, <2>1 DEF SaveSession, jobVars, JobsInv, NotInserted, BeforeCreate
    <3> QED BY <1>0, <1>2, <3>1, KnownChat
  <2>2. CASE CreateJob(c)
    <3>1. Named(row'[c]) /\ pc'[c] \notin Bound
      BY <1>0, <2>2, UpdatesName DEF CreateJob
    <3> QED BY <1>2, <3>1, KnownChat
  <2>3. CASE SeedAutonomy(c)
    <3>1. row'[c] = row[c] \/ row'[c] = SteppedRow(row[c], 0, FALSE)
      BY <1>0, <2>3 DEF SeedAutonomy
    <3>3. Named(row[c]) /\ Named(SteppedRow(row[c], 0, FALSE))
      BY <1>0, SteppedWrites
    <3>2. Named(row'[c]) /\ pc'[c] \notin Bound
      BY <1>0, <2>3, <3>1, <3>3 DEF SeedAutonomy
    <3> QED BY <1>2, <3>2, KnownChat
  <2>4. CASE PrepareResult(c)
    <3>1. Named(row'[c]) /\ pc'[c] \notin Bound
      BY <1>0, <2>4, UpdatesName DEF PrepareResult
    <3> QED BY <1>2, <3>1, KnownChat
  <2>5. CASE SaveLastJob(c)
    <3>1. row' = row /\ pc'[c] \notin Bound
      BY <1>0, <2>5 DEF SaveLastJob, jobVars
    <3> QED BY <1>0, <1>2, <3>1, KnownChat
  <2>6. CASE BindPendingResponse(c)
    <3>1. Named(row'[c]) /\ row'[c].pending
      BY <1>0, <2>6, UpdatesName DEF BindPendingResponse
    <3> QED BY <1>2, <3>1, KnownChat
  <2>7. CASE StartJob(c)
    <3>1. row'[c] = row[c] \/ row'[c] = StartedRow(row[c])
      BY <1>0, <2>7 DEF StartJob
    <3>2. row[c].status = "absent" => row'[c] = row[c]
      BY <1>0, <2>7 DEF StartJob, ValidTransition
    <3>3. row[c].status # "absent" => row[c].pending
      BY <2>7 DEF StartJob, KnownInv
    <3>4. Named(row'[c]) /\ (row'[c].status # "absent" => row'[c].pending)
      BY <1>0, <3>1, <3>2, <3>3, UpdatesName
    <3> QED BY <1>2, <3>4, KnownChat
  <2>8. CASE ReadSession(c) \/ SaveFinalSession(c)
    <3>1. row' = row /\ (row[c].status # "absent" => row[c].pending)
      BY <1>0, <2>8 DEF ReadSession, SaveFinalSession, jobVars, KnownInv
    <3> QED BY <1>0, <1>2, <3>1, KnownChat
  <2> QED BY <1>2, <2>1, <2>2, <2>3, <2>4, <2>5, <2>6, <2>7, <2>8 DEF ChatStep
<1>3. ASSUME NEW p \in Clients, NEW j \in Jobs, Poll(p, j) \/ AskLifecycle(p, j) \/ AskCancel(p, j)
      PROVE  KnownInv'
  <2>1. row' = row /\ view'[p].job = j /\ view'[p].row = row[j] /\ Known(j)
    BY <1>0, <1>3 DEF Poll, AskLifecycle, AskCancel, jobVars
  <2>2. j \in Chats => pc[j] = "done" /\ row[j].pending
    BY <2>1 DEF Known, KnownInv
  <2> QED BY <1>0, <1>3, <2>1, <2>2, KnownClient
<1>4. ASSUME NEW p \in Clients, ClientStep(p) \/ ClientDies(p) PROVE KnownInv'
  <2>1. pc[p] # "idle"
    BY <1>4
    DEF ClientStep, ClientDies, AdvanceStep, AdvanceWithoutCheckpoint, RecordStep, StepRaises,
        Advancing, CheckFail, WriteFailed, CheckCancel, WriteCancelled, Refresh, RefreshLocked,
        Reread, Respond
  <2>2. /\ Asked(p) \in Jobs /\ row[Asked(p)] \in JobRow /\ row[Asked(p)].status # "absent"
        /\ Named(row[Asked(p)]) /\ Named(Held(p))
        /\ Asked(p) \in Chats =>
             pc[Asked(p)] = "done" /\ Held(p).pending /\ row[Asked(p)].pending
    BY <1>0, <2>1 DEF JobsInv, HasJob, KnownInv
  <2>3. CASE RecordStep(p)
    <3>1. PICK step, trigger :
            row' = [row EXCEPT ![Asked(p)] = SteppedRow(row[Asked(p)], step, trigger)]
      BY <2>3 DEF RecordStep
    <3>2. row'[Asked(p)] = SteppedRow(row[Asked(p)], step, trigger) /\ view' = view
      BY <1>0, <2>2, <2>3, <3>1 DEF RecordStep
    <3>3. Named(row'[Asked(p)]) /\ row'[Asked(p)].pending = row[Asked(p)].pending
      BY <2>2, <3>2, SteppedWrites
    <3> QED BY <1>4, <2>2, <3>2, <3>3, KnownClient DEF Asked, Held
  <2>4. CASE AdvanceStep(p) \/ AdvanceWithoutCheckpoint(p) \/ StepRaises(p)
    <3>1. UNCHANGED <<row, view>>
      BY <2>4 DEF AdvanceStep, AdvanceWithoutCheckpoint, StepRaises, jobVars
    <3> QED BY <1>4, <2>2, <3>1, KnownClient DEF Asked, Held
  <2>5. CASE CheckFail(p) \/ CheckCancel(p) \/ Refresh(p) \/ Reread(p)
    <3>1. /\ row' = row
          /\ pc'[p] = "idle" \/ (view'[p].job = Asked(p) /\ view'[p].row = row[Asked(p)])
      BY <1>0, <2>5 DEF CheckFail, CheckCancel, Refresh, Reread, Look, Return, Asked, jobVars, Views
    <3> QED BY <1>4, <2>2, <3>1, KnownClient
  <2>6. CASE WriteFailed(p) \/ WriteCancelled(p)
    <3>1. /\ row'[Asked(p)] \in {FailedRow(row[Asked(p)]), CancelledRow(row[Asked(p)])}
          /\ pc'[p] = "idle" \/ view' = view
      BY <1>0, <2>2, <2>6 DEF WriteFailed, WriteCancelled, Return
    <3>2. Named(row'[Asked(p)]) /\ row'[Asked(p)].pending = row[Asked(p)].pending
      BY <2>2, <3>1, ClientUpdates DEF ClientWrites
    <3> QED BY <1>4, <2>2, <3>1, <3>2, KnownClient DEF Asked, Held
  <2>7. CASE RefreshLocked(p)
    <3>1. /\ row'[Asked(p)] \in {row[Asked(p)], RefreshedRow(row[Asked(p)])}
          /\ view'[p].job = Asked(p)
          /\ view'[p].row \in {Held(p), RefreshedRow(row[Asked(p)])}
      BY <1>0, <2>2, <2>7 DEF RefreshLocked, Asked, Held, Views
    <3>2. /\ Named(RefreshedRow(row[Asked(p)]))
          /\ RefreshedRow(row[Asked(p)]).pending = row[Asked(p)].pending
      BY <2>2, ClientUpdates DEF ClientWrites
    <3> QED BY <1>4, <2>2, <3>1, <3>2, KnownClient
  <2>8. CASE Respond(p) \/ ClientDies(p)
    <3>1. row' = row /\ pc'[p] = "idle"
      BY <1>0, <2>8 DEF Respond, ClientDies, Return, jobVars
    <3> QED BY <1>4, <3>1, KnownClient
  <2> QED BY <1>4, <2>3, <2>4, <2>5, <2>6, <2>7, <2>8 DEF ClientStep
<1>5. ASSUME NEW j \in Posts, PostJob(j) PROVE KnownInv'
  <2>1. /\ UNCHANGED <<pc, view, told>> /\ j \in Jobs /\ j \notin Chats
        /\ row' = [row EXCEPT ![j] = CreatedRow] /\ Named(CreatedRow)
    BY <1>0, <1>5, JobsAssumption, UpdatesName DEF PostJob, history, Jobs
  <2>2. /\ \A i \in Jobs : i # j => row'[i] = row[i]
        /\ row'[j] = CreatedRow
    BY <1>0, <2>1
  <2> QED BY <1>0, <2>1, <2>2 DEF KnownInv, Asked, Held
<1>6. CASE UNCHANGED vars \/ Resting
  BY <1>6 DEF vars, Resting, KnownInv, Asked, Held
<1> QED BY <1>1, <1>2, <1>3, <1>4, <1>5, <1>6 DEF Next

LEMMA KnownAlways == Spec => [](JobsInv /\ KnownInv)
BY KnownInit, KnownNext, JobsInit, JobsStep, PTL DEF Spec

-----------------------------------------------------------------------------
(* What a poll told is promoted.                                           *)

\* A chat is in flight until it is answered or dies.
LEMMA InFlightStays ==
  ASSUME JobsInv, NEW c \in Chats, BeginChat(c) \/ ChatStep(c) \/ ChatDies(c)
  PROVE  \/ SaveFinalSession(c) /\ ~ChatDies(c) /\ pc'[c] = "done"
         \/ ChatDies(c) /\ pc'[c] = "dead"
         \/ ~ChatDies(c) /\ ~SaveFinalSession(c) /\ InFlight(c)' /\ pc'[c] # "dead"
<1>0. pc \in [Chats \cup Clients -> Labels] /\ draft \in [Chats -> SessionRow]
  BY DEF JobsInv, TypeOK
<1>1. ChatDies(c) => pc'[c] = "dead"
  BY <1>0 DEF ChatDies, Goto
<1>2. BeginChat(c) => InFlight(c)' /\ pc'[c] # "dead" /\ ~SaveFinalSession(c)
  BY <1>0 DEF BeginChat, Goto, InFlight, SaveFinalSession
<1>3. SaveFinalSession(c) => pc'[c] = "done"
  BY <1>0 DEF SaveFinalSession, Goto
<1>4. ChatStep(c) => SaveFinalSession(c) \/ InFlight(c)'
  BY <1>0
  DEF ChatStep, InFlight, Goto, SaveSession, CreateJob, SeedAutonomy, PrepareResult,
      SaveLastJob, BindPendingResponse, StartJob, ReadSession
<1> QED BY <1>1, <1>2, <1>3, <1>4 DEF InFlight

LEMMA AnsweredStep ==
  ASSUME JobsInv, KnownInv, TurnInv, AnsweredIsPromoted, [Next]_vars
  PROVE  AnsweredIsPromoted'
<1>0. pc \in [Chats \cup Clients -> Labels]
  BY DEF JobsInv, TypeOK
<1>1. ASSUME NEW c \in Chats, BeginChat(c) \/ ChatStep(c) \/ ChatDies(c) PROVE AnsweredIsPromoted'
  <2>1. CASE InFlight(c)'
    BY <2>1 DEF AnsweredIsPromoted, Quiet, InFlight
  <2>3. CASE pc'[c] = "dead"
    BY <2>3 DEF AnsweredIsPromoted, NobodyDied
  <2>2. CASE SaveFinalSession(c)
    <3>1. session' = draft[c] /\ draft[c].last_response = Answer(c) /\ told' = told
      BY <2>2 DEF SaveFinalSession, TurnInv
    <3>2. c \notin told
      BY <2>2 DEF SaveFinalSession, KnownInv
    <3> QED BY <3>1, <3>2, ResponsesDiffer DEF AnsweredIsPromoted
  <2> QED BY <1>1, <2>1, <2>2, <2>3, InFlightStays
<1>2. ASSUME NEW p \in Clients,
             \/ \E j \in Jobs : Poll(p, j) \/ AskLifecycle(p, j) \/ AskCancel(p, j)
             \/ ClientStep(p) \/ ClientDies(p)
      PROVE  AnsweredIsPromoted'
  <2>1. /\ \A c \in Chats : pc'[c] = pc[c]
        /\ session' \in {session, Promoted(p)}
    BY <1>2, ClientMoves, JobsAssumption
  <2>2. (Quiet /\ NobodyDied)' => Quiet /\ NobodyDied
    BY <2>1 DEF Quiet, InFlight, NobodyDied
  <2>3. \A j : session.last_response # Answer(j) => session'.last_response # Answer(j)
    BY <2>1, ResponsesDiffer DEF Promoted
  <2>4. ASSUME NEW j \in told' \ told, j \in Chats PROVE session'.last_response # Answer(j)
    <3>1. Respond(p) /\ j = Asked(p) /\ Held(p).status = "succeeded" /\ session' = Promoted(p)
      BY <1>2, <2>4
      DEF Poll, AskLifecycle, AskCancel, ClientStep, ClientDies, AdvanceStep,
          AdvanceWithoutCheckpoint, RecordStep, StepRaises, CheckFail, WriteFailed, CheckCancel,
          WriteCancelled, Refresh, RefreshLocked, Reread, Respond, history
    <3>2. Held(p).completed /\ Held(p).pending
      BY <2>4, <3>1 DEF Respond, KnownInv, Named
    <3> QED BY <3>1, <3>2, ResponsesDiffer DEF Promoted
  <2> QED BY <2>2, <2>3, <2>4 DEF AnsweredIsPromoted
<1>3. CASE UNCHANGED vars \/ Resting \/ \E j \in Posts : PostJob(j)
  <2>1. UNCHANGED <<pc, session, told>>
    BY <1>3 DEF vars, Resting, PostJob, history
  <2> QED BY <2>1 DEF AnsweredIsPromoted, Quiet, InFlight, NobodyDied
<1> QED BY <1>1, <1>2, <1>3 DEF Next

\* When no turn is in flight and none has died, the session never shows the pending
\* answer of a job that a poll has reported as succeeded, however polls and turns
\* overlapped before, and whatever polls died or raised.
THEOREM ToldIsPromoted == Spec => []AnsweredIsPromoted
<1>1. Init => AnsweredIsPromoted
  BY DEF Init, AnsweredIsPromoted
<1>2. JobsInv /\ TurnInv /\ [Next]_vars => TurnInv'
  BY TurnStep
<1>3. JobsInv /\ KnownInv /\ TurnInv /\ AnsweredIsPromoted /\ [Next]_vars => AnsweredIsPromoted'
  BY AnsweredStep
<1> QED BY <1>1, <1>2, <1>3, TurnInit, KnownAlways, PTL DEF Spec

-----------------------------------------------------------------------------
(* The last job.                                                           *)

\* The job created last is the one of the last answer that has one, or of the
\* turn in flight; what that turn is about to save, or to read, names it.
LastInv ==
  /\ turn \in Chats => pc[turn] = "done"
  /\ turn \in Chats /\ row[turn].status # "absent" =>
       \/ newest = turn
       \/ \E c \in Chats : InFlight(c) /\ newest = c /\ row[c].status # "absent"
  /\ Quiet => session.last_job = newest
  /\ \A c \in Chats : InFlight(c) /\ row[c].status # "absent" => newest = c
  /\ \A c \in Chats :
       /\ pc[c] \in {"seed", "prepare_result", "save_last_job", "bind_pending_response", "start_job"} =>
            row[c].status # "absent"
       /\ pc[c] \in {"save_session", "save_pending_session"} =>
            draft[c].last_job = newest /\ session.last_job = newest
       /\ pc[c] = "read_session" /\ row[c].status = "absent" => session.last_job = newest
       /\ pc[c] = "save_final_session" => draft[c].last_job = newest

\* No client takes a row back, and only a step of an autonomy run moves its index.
LEMMA ClientRows ==
  ASSUME JobsInv, NEW p \in Clients,
         \/ \E j \in Jobs : Poll(p, j) \/ AskLifecycle(p, j) \/ AskCancel(p, j)
         \/ ClientStep(p) \/ ClientDies(p),
         NEW j \in Jobs
  PROVE  \/ ClientWrites(row[j], row'[j])
         \/ /\ RecordStep(p) /\ j = Asked(p)
            /\ row'[j].status = row[j].status /\ row'[j].step = Held(p).step + 1
<1>0. row \in [Jobs -> JobRow] /\ row[j] \in JobRow
  BY DEF JobsInv, TypeOK
<1>1. CASE row'[j] = row[j]
  BY <1>0, <1>1, ClientUpdates
<1>2. ASSUME row'[j] # row[j], ClientStep(p)
      PROVE  \/ ClientWrites(row[j], row'[j])
             \/ /\ RecordStep(p) /\ j = Asked(p)
                /\ row'[j].status = row[j].status /\ row'[j].step = Held(p).step + 1
  <2>1. CASE RecordStep(p)
    <3>1. PICK trigger : row' = [row EXCEPT ![Asked(p)] =
                                   SteppedRow(row[Asked(p)], Held(p).step + 1, trigger)]
      BY <2>1 DEF RecordStep
    <3>2. j = Asked(p) /\ row'[j] = SteppedRow(row[j], Held(p).step + 1, trigger)
      BY <1>0, <1>2, <3>1
    <3> QED BY <1>0, <2>1, <3>2, SteppedWrites
  <2>2. CASE \/ WriteFailed(p) \/ WriteCancelled(p) \/ RefreshLocked(p)
    <3>1. row'[j] \in {FailedRow(row[j]), CancelledRow(row[j]), RefreshedRow(row[j])}
      BY <1>0, <1>2, <2>2 DEF WriteFailed, WriteCancelled, RefreshLocked
    <3> QED BY <1>0, <3>1, ClientUpdates
  <2>3. CASE \/ AdvanceStep(p) \/ AdvanceWithoutCheckpoint(p) \/ StepRaises(p)
             \/ CheckFail(p) \/ CheckCancel(p) \/ Refresh(p) \/ Reread(p) \/ Respond(p)
    BY <1>2, <2>3
    DEF AdvanceStep, AdvanceWithoutCheckpoint, StepRaises, CheckFail, CheckCancel, Refresh,
        Reread, Respond, jobVars
  <2> QED BY <1>2, <2>1, <2>2, <2>3 DEF ClientStep
<1>3. CASE ~ClientStep(p)
  BY <1>1, <1>3 DEF Poll, AskLifecycle, AskCancel, ClientDies, jobVars
<1> QED BY <1>1, <1>2, <1>3

LEMMA LastInit == Init => LastInv
<1> SUFFICES ASSUME Init PROVE LastInv
  OBVIOUS
<1>1. /\ \A c \in Chats : pc[c] = "idle" /\ ~InFlight(c)
      /\ turn = Null /\ newest = Null /\ session.last_job = Null /\ Null \notin Chats
  BY JobsAssumption DEF Init, InFlight
<1> QED BY <1>1 DEF LastInv

\* Turns have followed one another, and none has died.
Sequential ==
  /\ NobodyDied /\ overtaken = {}
  /\ \A c, d \in Chats : InFlight(c) /\ InFlight(d) => c = d

\* Turns that have overlapped have, for good.
LEMMA SequentialBefore ==
  ASSUME JobsInv, [Next]_vars, Sequential'
  PROVE  Sequential
<1>0. pc \in [Chats \cup Clients -> Labels] /\ overtaken \subseteq Chats
  BY DEF JobsInv, TypeOK
<1>1. ASSUME NEW c \in Chats, BeginChat(c) \/ ChatStep(c) \/ ChatDies(c) PROVE Sequential
  <2>1. pc[c] # "dead" /\ \A d \in Chats : d # c => pc'[d] = pc[d]
    BY <1>1, ChatMoves
  <2>2. NobodyDied
    BY <2>1 DEF Sequential, NobodyDied
  <2>3. /\ ~ChatDies(c) /\ (SaveFinalSession(c) \/ InFlight(c)')
        /\ overtaken = {}
        /\ SaveFinalSession(c) => \A d \in Chats : d # c => ~InFlight(d)
    <3>1. ~ChatDies(c) /\ (SaveFinalSession(c) \/ InFlight(c)')
      BY <1>1, InFlightStays DEF Sequential, NobodyDied
    <3>2. /\ overtaken \subseteq overtaken'
          /\ SaveFinalSession(c) =>
               overtaken' = overtaken \cup {d \in Chats \ {c} : InFlight(d)}
      BY <1>1
      DEF BeginChat, ChatStep, ChatDies, SaveSession, CreateJob, SeedAutonomy, PrepareResult,
          SaveLastJob, BindPendingResponse, StartJob, ReadSession, SaveFinalSession, history
    <3> QED BY <3>1, <3>2 DEF Sequential
  <2>4. \A d \in Chats : d # c => (InFlight(d)' <=> InFlight(d))
    BY <2>1 DEF InFlight
  <2> QED BY <2>2, <2>3, <2>4 DEF Sequential
<1>2. ASSUME UNCHANGED overtaken, \A c \in Chats : pc'[c] = pc[c] PROVE Sequential
  BY <1>2 DEF Sequential, NobodyDied, InFlight
<1>3. ASSUME NEW p \in Clients,
             \/ \E j \in Jobs : Poll(p, j) \/ AskLifecycle(p, j) \/ AskCancel(p, j)
             \/ ClientStep(p) \/ ClientDies(p)
      PROVE  Sequential
  BY <1>2, <1>3, ClientMoves, JobsAssumption
<1>4. CASE UNCHANGED vars \/ Resting \/ \E j \in Posts : PostJob(j)
  BY <1>2, <1>4 DEF vars, Resting, PostJob, history
<1> QED BY <1>1, <1>3, <1>4 DEF Next

LEMMA LastStep ==
  ASSUME JobsInv, TurnInv, Sequential, Sequential', LastInv, [Next]_vars
  PROVE  LastInv'
<1>0. /\ pc \in [Chats \cup Clients -> Labels] /\ row \in [Jobs -> JobRow]
      /\ draft \in [Chats -> SessionRow] /\ session \in SessionRow /\ turn \in Chats \cup {Null}
      /\ \A c \in Chats : c \in Jobs /\ c \in Chats \cup Clients /\ NotInserted(c)
  BY DEF JobsInv, TypeOK, Jobs
\* A step of a chat: the others are not in flight.
<1>a. ASSUME NEW c \in Chats, BeginChat(c) \/ ChatStep(c) \/ ChatDies(c)
      PROVE  /\ ~ChatDies(c)
             /\ \A d \in Chats : d # c =>
                  /\ pc'[d] = pc[d] /\ row'[d] = row[d] /\ draft'[d] = draft[d]
                  /\ pc[d] \in {"idle", "done", "dead"}
             /\ pc[c] # "done"
  <2>1. /\ pc[c] # "done"
        /\ \A d \in Chats : d # c => pc'[d] = pc[d] /\ row'[d] = row[d] /\ draft'[d] = draft[d]
    BY <1>0, <1>a, ChatMoves
  <2>2. \A d \in Chats : d # c => pc[d] \in {"idle", "done", "dead"}
    <3>1. InFlight(c) \/ InFlight(c)'
      BY <1>0, <1>a
      DEF BeginChat, ChatDies, ChatStep, InFlight, Goto, SaveSession, CreateJob, SeedAutonomy,
          PrepareResult, SaveLastJob, BindPendingResponse, StartJob, ReadSession,
          SaveFinalSession
    <3>2. \A d \in Chats : d # c => (InFlight(d)' <=> InFlight(d))
      BY <2>1 DEF InFlight
    <3>3. \A d \in Chats : d # c => ~InFlight(d)
      BY <3>1, <3>2 DEF Sequential
    <3> QED BY <3>3 DEF InFlight
  <2>3. ~ChatDies(c)
    BY <1>a, InFlightStays DEF Sequential, NobodyDied
  <2> QED BY <2>1, <2>2, <2>3
\* A step of a chat that stays in flight, given what it leaves itself.
<1>b. ASSUME NEW c \in Chats, BeginChat(c) \/ ChatStep(c), InFlight(c)',
             turn' = turn,
             newest' = newest \/ (newest' = c /\ row'[c].status # "absent"),
             row[c].status # "absent" => row'[c].status # "absent",
             row'[c].status # "absent" => newest' = c,
             pc'[c] \in {"seed", "prepare_result", "save_last_job", "bind_pending_response",
                         "start_job"} => row'[c].status # "absent",
             pc'[c] \in {"save_session", "save_pending_session"} =>
               draft'[c].last_job = newest' /\ session'.last_job = newest',
             pc'[c] = "read_session" /\ row'[c].status = "absent" => session'.last_job = newest',
             pc'[c] = "save_final_session" => draft'[c].last_job = newest'
      PROVE  LastInv'
  <2>1. /\ \A d \in Chats : d # c =>
             /\ pc'[d] = pc[d] /\ row'[d] = row[d] /\ draft'[d] = draft[d]
             /\ pc[d] \in {"idle", "done", "dead"}
        /\ pc[c] # "done"
    BY <1>a, <1>b
  <2>2. \A d \in Chats : InFlight(d)' => d = c
    BY <2>1 DEF InFlight
  <2>3. (turn \in Chats => pc[turn] = "done")'
    BY <1>b, <2>1 DEF LastInv
  <2>4. (turn \in Chats /\ row[turn].status # "absent" =>
           \/ newest = turn
           \/ \E d \in Chats : InFlight(d) /\ newest = d /\ row[d].status # "absent")'
    <3>1. CASE newest' = c /\ row'[c].status # "absent"
      BY <1>b, <3>1
    <3>2. CASE newest' = newest
      <4>1. turn \in Chats => turn # c
        BY <2>1 DEF LastInv
      <4>2. \A d \in Chats : InFlight(d) => d = c
        BY <2>1 DEF InFlight
      <4> QED BY <1>b, <2>1, <3>2, <4>1, <4>2 DEF LastInv
    <3> QED BY <1>b, <3>1, <3>2
  <2>5. ~Quiet'
    BY <1>b DEF Quiet, InFlight
  <2>6. \A d \in Chats : d # c => pc'[d] \in {"idle", "done", "dead"}
    BY <2>1
  <2> QED BY <1>b, <2>2, <2>3, <2>4, <2>5, <2>6 DEF LastInv
<1>1. ASSUME NEW c \in Chats, BeginChat(c) PROVE LastInv'
  <2>0. Quiet
    BY <1>1, <1>a DEF Quiet, InFlight, BeginChat
  <2>1. /\ Quiet /\ draft'[c] = session /\ UNCHANGED <<row, session, turn, newest>>
        /\ pc'[c] \in {"save_session", "save_pending_session"} /\ InFlight(c)'
    BY <1>0, <1>1, <2>0 DEF BeginChat, Goto, InFlight, jobVars, history
  <2>2. row[c].status = "absent" /\ session.last_job = newest
    BY <1>0, <1>1, <2>1 DEF BeginChat, NotInserted, BeforeCreate, LastInv
  <2> QED BY <1>1, <1>b, <2>1, <2>2
<1>2. ASSUME NEW c \in Chats, SaveSession(c) PROVE LastInv'
  <2>1. /\ session' = draft[c] /\ UNCHANGED <<row, draft, turn, newest>>
        /\ pc'[c] \in {"read_session", "create_job"} /\ InFlight(c)'
    BY <1>0, <1>2 DEF SaveSession, Goto, InFlight, jobVars, history
  <2>2. row[c].status = "absent" /\ draft[c].last_job = newest
    BY <1>0, <1>2 DEF SaveSession, NotInserted, BeforeCreate, LastInv
  <2> QED BY <1>2, <1>b, <2>1, <2>2 DEF ChatStep
<1>3. ASSUME NEW c \in Chats, CreateJob(c) PROVE LastInv'
  <2>1. /\ newest' = c /\ turn' = turn /\ row'[c].status # "absent" /\ pc'[c] = "seed"
        /\ InFlight(c)'
    BY <1>0, <1>3 DEF CreateJob, Goto, InFlight, CreatedRow, NoRow
  <2> QED BY <1>3, <1>b, <2>1 DEF ChatStep
<1>4. ASSUME NEW c \in Chats,
             SeedAutonomy(c) \/ PrepareResult(c) \/ BindPendingResponse(c) \/ StartJob(c)
      PROVE  LastInv'
  <2>1. row[c].status # "absent" /\ newest = c
    BY <1>4 DEF SeedAutonomy, PrepareResult, BindPendingResponse, StartJob, LastInv, InFlight
  <2>2. /\ UNCHANGED <<draft, session, turn, newest>>
        /\ pc'[c] \in {"prepare_result", "save_last_job", "start_job", "read_session"}
        /\ InFlight(c)'
    BY <1>0, <1>4
    DEF SeedAutonomy, PrepareResult, BindPendingResponse, StartJob, Goto, InFlight, history
  <2>3. row'[c].status # "absent"
    BY <1>0, <1>4, <2>1
    DEF SeedAutonomy, PrepareResult, BindPendingResponse, StartJob, SteppedRow, PreparedRow,
        BoundRow, StartedRow, JobRow
  <2> QED BY <1>4, <1>b, <2>1, <2>2, <2>3 DEF ChatStep
<1>5. ASSUME NEW c \in Chats, SaveLastJob(c) PROVE LastInv'
  <2>1. row[c].status # "absent" /\ newest = c
    BY <1>5 DEF SaveLastJob, LastInv, InFlight
  <2>2. /\ UNCHANGED <<row, turn, newest>> /\ pc'[c] = "bind_pending_response" /\ InFlight(c)'
    BY <1>0, <1>5 DEF SaveLastJob, Goto, InFlight, jobVars, history
  <2> QED BY <1>5, <1>b, <2>1, <2>2 DEF ChatStep
<1>6. ASSUME NEW c \in Chats, ReadSession(c) PROVE LastInv'
  <2>1. /\ UNCHANGED <<row, session, turn, newest>> /\ pc'[c] = "save_final_session"
        /\ InFlight(c)'
        /\ draft'[c].last_job = IF row[c].status = "absent" THEN session.last_job ELSE c
    BY <1>0, <1>6 DEF ReadSession, Goto, InFlight, jobVars, history
  <2>2. IF row[c].status = "absent" THEN session.last_job = newest ELSE newest = c
    BY <1>6 DEF ReadSession, LastInv, InFlight
  <2> QED BY <1>6, <1>b, <2>1, <2>2 DEF ChatStep
<1>7. ASSUME NEW c \in Chats, SaveFinalSession(c) PROVE LastInv'
  <2>1. /\ session' = draft[c] /\ turn' = c /\ UNCHANGED <<row, newest>> /\ pc'[c] = "done"
    BY <1>0, <1>7 DEF SaveFinalSession, Goto, jobVars
  <2>2. /\ draft[c].last_job = newest /\ (row[c].status # "absent" => newest = c)
    BY <1>7 DEF SaveFinalSession, LastInv, InFlight
  <2>3. \A d \in Chats : pc'[d] \in {"idle", "done", "dead"}
    BY <1>7, <1>a, <2>1 DEF ChatStep
  <2>4. \A d \in Chats : ~InFlight(d)'
    BY <2>3 DEF InFlight
  <2> QED BY <2>1, <2>2, <2>3, <2>4 DEF LastInv
\* A client's step leaves the chats alone; what it promotes is the last turn's.
<1>c. ASSUME \A c \in Chats : /\ pc'[c] = pc[c]
                              /\ row'[c].status = "absent" <=> row[c].status = "absent",
             UNCHANGED <<draft, turn, newest>>,
             \/ session' = session
             \/ turn \in Chats /\ row[turn].status # "absent" /\ session'.last_job = turn
      PROVE  LastInv'
  <2>1. \A c \in Chats : InFlight(c)' <=> InFlight(c)
    BY <1>c DEF InFlight
  <2>2. Quiet' <=> Quiet
    BY <2>1 DEF Quiet
  <2>3. CASE session' = session
    BY <1>c, <2>1, <2>2, <2>3 DEF LastInv
  <2>4. CASE turn \in Chats /\ row[turn].status # "absent" /\ session'.last_job = turn
    <3>1. CASE newest = turn
      BY <1>c, <2>1, <2>2, <2>4, <3>1 DEF LastInv
    <3>2. CASE newest # turn
      <4>1. PICK c \in Chats : InFlight(c) /\ newest = c /\ row[c].status # "absent"
        BY <2>4, <3>2 DEF LastInv
      <4>2. \A d \in Chats : InFlight(d) => d = c
        BY <4>1 DEF Sequential
      <4>3. pc[c] \notin {"save_session", "save_pending_session"}
        BY <1>0, <4>1 DEF NotInserted, BeforeCreate
      <4>4. \A d \in Chats : d # c => pc[d] \in {"idle", "done", "dead"}
        BY <4>2 DEF InFlight
      <4>5. ~Quiet'
        BY <2>2, <4>1 DEF Quiet
      <4> QED BY <1>c, <2>1, <4>1, <4>3, <4>4, <4>5 DEF LastInv
    <3> QED BY <3>1, <3>2
  <2> QED BY <1>c, <2>3, <2>4
<1>8. ASSUME NEW p \in Clients,
             \/ \E j \in Jobs : Poll(p, j) \/ AskLifecycle(p, j) \/ AskCancel(p, j)
             \/ ClientStep(p) \/ ClientDies(p)
      PROVE  LastInv'
  <2>1. /\ \A c \in Chats : pc'[c] = pc[c]
        /\ \A j \in Jobs : row'[j] = row[j] \/ (j = Asked(p) /\ pc[p] # "idle")
        /\ UNCHANGED <<draft, turn, newest>>
        /\ session' \in {session, Promoted(p)} /\ (session' # session => pc[p] # "idle")
    BY <1>8, ClientMoves, JobsAssumption
  <2>2. pc[p] # "idle" => Asked(p) \in Jobs /\ row[Asked(p)].status # "absent"
    BY DEF JobsInv, HasJob
  <2>3. \A c \in Chats : row'[c].status = "absent" <=> row[c].status = "absent"
    BY <1>0, <1>8, <2>1, <2>2, ClientRows DEF ClientWrites
  <2>4. CASE session' # session
    <3>1. session' = Promoted(p) /\ turn = Asked(p)
      BY <2>1, <2>4, PromotedShows DEF TurnInv, OvertakenDone, Sequential
    <3>2. session'.last_job = turn
      BY <2>4, <3>1 DEF Promoted
    <3>3. turn \in Chats
      BY <1>0, <2>1, <2>2, <2>4, <3>1, JobsAssumption DEF Jobs
    <3> QED BY <1>c, <2>1, <2>2, <2>3, <2>4, <3>1, <3>2, <3>3
  <2> QED BY <1>c, <2>1, <2>3, <2>4
<1>9. CASE UNCHANGED vars \/ Resting \/ \E j \in Posts : PostJob(j)
  <2>1. UNCHANGED <<pc, session, draft, turn, newest>>
    BY <1>9 DEF vars, Resting, PostJob, history
  <2>2. \A c \in Chats : row'[c] = row[c]
    BY <1>0, <1>9, JobsAssumption DEF vars, Resting, PostJob
  <2> QED BY <1>c, <2>1, <2>2
<1> QED
  BY <1>1, <1>2, <1>3, <1>4, <1>5, <1>6, <1>7, <1>8, <1>9, <1>a DEF Next, ChatStep

\* As long as turns have not overlapped and none has died, last_job_id is between
\* turns the job that a chat created last, whatever polls promoted, raised or died
\* meanwhile.
THEOREM LastJobNamed == Spec => []LastJobIsNewest
<1>1. JobsInv /\ TurnInv /\ [Next]_vars => TurnInv'
  BY TurnStep
<1>2. JobsInv /\ TurnInv /\ (Sequential => LastInv) /\ [Next]_vars => (Sequential => LastInv)'
  BY LastStep, SequentialBefore
<1>3. (Sequential => LastInv) => LastJobIsNewest
  BY DEF LastInv, LastJobIsNewest, Sequential, Quiet
<1>4. Init => (Sequential => LastInv)
  BY LastInit
<1> QED BY <1>1, <1>2, <1>3, <1>4, TurnInit, JobsInvariant, PTL DEF Spec

-----------------------------------------------------------------------------
(* The budget of autonomy steps.                                           *)

\* p is between its look at the metadata of j and the update that is made of it.
Advances(p, j) == pc[p] \in Advancing /\ Asked(p) = j

\* Only one poll advances a job that is not disturbed, and the row holds the step
\* index that it read; the index counts at least the steps that ran, but for the
\* one that is about to be recorded.
JobBudget(j) ==
  /\ executed[j] \in 0..StepBudget
  /\ \/ executed[j] = 0
     \/ row[j].step \in Nat /\ executed[j] <= row[j].step
     \/ \E p \in Clients : pc[p] = "record_step" /\ Asked(p) = j
  /\ \A p \in Clients : Advances(p, j) =>
       /\ Held(p).step = row[j].step
       /\ pc[p] # "record_step" => executed[j] <= Held(p).step
       /\ pc[p] = "record_step" => executed[j] <= Held(p).step + 1
       /\ \A q \in Clients : Advances(q, j) => q = p

\* A job that nobody was told of has run no step.
BudgetInv ==
  \A j \in Jobs :
    /\ row[j].status = "absent" \/ (j \in Chats /\ pc[j] # "done") => executed[j] = 0
    /\ j \notin disturbed => JobBudget(j)

LEMMA BudgetInit == Init => BudgetInv
<1> SUFFICES ASSUME Init PROVE BudgetInv
  OBVIOUS
<1>1. /\ \A j \in Jobs : executed[j] = 0 /\ \A p \in Clients : pc[p] \notin Advancing
      /\ 0 \in 0..StepBudget
  BY JobsAssumption DEF Init, Advancing
<1> QED BY <1>1 DEF BudgetInv, JobBudget, Advances

\* A step that leaves the labels and the views of all clients but p alone, and p
\* neither advances j nor begins to, keeps the budget of j.
LEMMA BudgetFrame ==
  ASSUME NEW j \in Jobs, JobBudget(j), NEW p,
         \A q \in Clients : q # p => pc'[q] = pc[q] /\ view'[q] = view[q],
         p \in Clients => ~Advances(p, j) /\ ~Advances(p, j)',
         row'[j].step = row[j].step, executed'[j] = executed[j]
  PROVE  JobBudget(j)'
<1>1. \A q \in Clients : q # p =>
        /\ Advances(q, j)' <=> Advances(q, j)
        /\ Held(q)' = Held(q) /\ Asked(q)' = Asked(q)
  BY DEF Advances, Asked, Held
<1>2. \A q \in Clients : Advances(q, j) => q # p
  OBVIOUS
<1>3. ASSUME NEW q \in Clients, pc[q] = "record_step", Asked(q) = j
      PROVE  pc'[q] = "record_step" /\ Asked(q)' = j
  BY <1>1, <1>2, <1>3 DEF Advances, Advancing
<1> QED BY <1>1, <1>2, <1>3 DEF JobBudget

\* A client that stops before it records what it held, and no step has run, keeps
\* the budget of the job that it advanced.
LEMMA BudgetStopped ==
  ASSUME NEW p \in Clients, NEW j \in Jobs, JobBudget(j), Advances(p, j), JobsInv,
         pc[p] # "record_step", pc'[p] \notin Advancing,
         \A q \in Clients : q # p => pc'[q] = pc[q] /\ view'[q] = view[q],
         row'[j].step = row[j].step, executed'[j] = executed[j]
  PROVE  JobBudget(j)'
<1>1. \A q \in Clients : Advances(q, j) => q = p
  BY DEF JobBudget
<1>2. \A q \in Clients : ~Advances(q, j)'
  BY <1>1 DEF Advances, Asked
<1>3. executed[j] = 0 \/ (row[j].step \in Nat /\ executed[j] <= row[j].step)
  BY <1>1 DEF JobBudget, Advances, Advancing
<1> QED BY <1>2, <1>3 DEF JobBudget

\* Every step of a chat keeps the budgets: no step of its job has run.
LEMMA BudgetChat ==
  ASSUME JobsInv, KnownInv, BudgetInv, NEW c \in Chats,
         BeginChat(c) \/ ChatStep(c) \/ ChatDies(c)
  PROVE  BudgetInv'
<1>1. /\ pc[c] \notin {"done", "dead"}
      /\ \A t \in Chats \cup Clients : t # c => pc'[t] = pc[t]
      /\ \A j \in Jobs : j # c => row'[j] = row[j]
      /\ UNCHANGED <<view, executed, disturbed>>
  BY ChatMoves
<1>2. \A p \in Clients : p # c /\ pc'[p] = pc[p] /\ ~Advances(p, c)
  BY <1>1, JobsAssumption DEF KnownInv, Advances, Advancing
<1>3. executed[c] = 0 /\ c \in Jobs
  BY <1>1 DEF BudgetInv, Jobs
<1>4. \A p \in Clients : ~Advances(p, c)'
  BY <1>1, <1>2 DEF Advances, Asked
<1>5. JobBudget(c)'
  BY <1>1, <1>3, <1>4, JobsAssumption DEF JobBudget
<1>6. ASSUME NEW j \in Jobs, j # c, j \notin disturbed PROVE JobBudget(j)'
  <2>1. JobBudget(j) /\ row'[j] = row[j] /\ executed'[j] = executed[j] /\ c \notin Clients
    BY <1>1, <1>6, JobsAssumption DEF BudgetInv
  <2>2. \A q \in Clients : q # c => pc'[q] = pc[q] /\ view'[q] = view[q]
    BY <1>1
  <2> QED BY <2>1, <2>2, BudgetFrame
<1>7. ASSUME NEW j \in Jobs,
             row'[j].status = "absent" \/ (j \in Chats /\ pc'[j] # "done")
      PROVE  executed'[j] = 0
  <2>1. CASE j = c
    BY <1>1, <1>3, <2>1
  <2>2. CASE j # c
    BY <1>1, <1>7, <2>2 DEF BudgetInv
  <2> QED BY <2>1, <2>2
<1> QED BY <1>1, <1>5, <1>6, <1>7 DEF BudgetInv

\* Every step of a client keeps the budgets, or marks the job as disturbed.
LEMMA BudgetClient ==
  ASSUME JobsInv, KnownInv, BudgetInv, NEW p \in Clients,
         \/ \E j \in Jobs : Poll(p, j) \/ AskLifecycle(p, j) \/ AskCancel(p, j)
         \/ ClientStep(p) \/ ClientDies(p)
  PROVE  BudgetInv'
<1>0. /\ pc \in [Chats \cup Clients -> Labels] /\ row \in [Jobs -> JobRow]
      /\ executed \in [Jobs -> Nat] /\ view \in [Clients -> Views]
      /\ p \in Chats \cup Clients
      /\ \A q \in Clients : q # p => pc'[q] = pc[q] /\ view'[q] = view[q]
      /\ \A c \in Chats : pc'[c] = pc[c]
      /\ \A j \in Jobs : row[j] \in JobRow
  BY ClientMoves, JobsAssumption DEF JobsInv, TypeOK
\* What is left to show: the budget of the jobs, and that only a job somebody was
\* told of runs a step.
<1>a. ASSUME \A j \in Jobs : executed'[j] = executed[j] \/ (j = Asked(p) /\ pc[p] # "idle"),
             \A j \in Jobs : j \notin disturbed' => JobBudget(j)'
      PROVE  BudgetInv'
  <2>1. ASSUME NEW j \in Jobs, row'[j].status = "absent" \/ (j \in Chats /\ pc'[j] # "done")
        PROVE  executed'[j] = 0
    <3>1. row[j].status # "absent" => row'[j].status # "absent"
      BY <1>0, ClientRows DEF ClientWrites
    <3>2. row[j].status = "absent" \/ (j \in Chats /\ pc[j] # "done")
      BY <1>0, <2>1, <3>1
    <3>3. ~(j = Asked(p) /\ pc[p] # "idle")
      BY <3>2 DEF JobsInv, HasJob, KnownInv
    <3> QED BY <1>a, <3>2, <3>3 DEF BudgetInv
  <2> QED BY <1>a, <2>1 DEF BudgetInv
<1>1. ASSUME NEW j \in Jobs, Poll(p, j) \/ AskLifecycle(p, j) \/ AskCancel(p, j)
      PROVE  BudgetInv'
  <2>1. UNCHANGED <<row, executed>> /\ pc[p] = "idle" /\ disturbed \subseteq disturbed'
    BY <1>1 DEF Poll, AskLifecycle, AskCancel, jobVars
  <2>2. view'[p].job = j /\ view'[p].row = row[j]
    BY <1>0, <1>1 DEF Poll, AskLifecycle, AskCancel
  <2>3. ASSUME NEW i \in Jobs, i \notin disturbed' PROVE JobBudget(i)'
    <3>1. JobBudget(i) /\ ~Advances(p, i)
      BY <2>1, <2>3 DEF BudgetInv, Advances, Advancing
    <3>2. CASE ~Advances(p, i)'
      BY <1>0, <2>1, <3>1, <3>2, BudgetFrame
    <3>3. CASE Advances(p, i)'
      <4>1. i = j /\ pc'[p] \in Advancing
        BY <2>2, <3>3 DEF Advances, Asked
      <4>2. Poll(p, j) /\ Autonomous(row[j]) /\ pc'[p] = "advance"
        BY <1>0, <1>1, <4>1 DEF Poll, AskLifecycle, AskCancel, Goto, Advancing
      <4>3. \A q \in Clients : ~Advances(q, j)
        BY <2>3, <4>1, <4>2 DEF Poll, Advances
      <4>4. \A q \in Clients : Advances(q, j)' => q = p
        BY <1>0, <4>3 DEF Advances, Asked
      <4>5. executed[j] = 0 \/ (row[j].step \in Nat /\ executed[j] <= row[j].step)
        BY <3>1, <4>1, <4>3 DEF JobBudget, Advances, Advancing
      <4>6. row[j].step \in Nat /\ executed[j] <= row[j].step
        BY <1>0, <4>2, <4>5 DEF Autonomous, JobRow
      <4>7. Held(p)' = row[j] /\ pc'[p] # "record_step"
        BY <2>2, <4>2 DEF Held
      <4> QED BY <2>1, <3>1, <4>1, <4>4, <4>6, <4>7 DEF JobBudget
    <3> QED BY <3>2, <3>3
  <2> QED BY <1>a, <2>1, <2>3
<1>b. ASSUME pc[p] # "idle" PROVE Asked(p) \in Jobs
  BY <1>b DEF JobsInv, HasJob
<1>2. CASE AdvanceStep(p) \/ AdvanceWithoutCheckpoint(p)
  <2> DEFINE ran == pc'[p] = "record_step"
  <2>0. pc[p] # "idle"
    BY <1>2 DEF AdvanceStep, AdvanceWithoutCheckpoint
  <2>j. PICK j \in Jobs : j = Asked(p)
    BY <1>b, <2>0
  <2>1. /\ pc[p] = "advance" /\ pc'[p] \in {"record_step", "record_failure"}
        /\ UNCHANGED <<row, view, disturbed>>
    BY <1>0, <1>2 DEF AdvanceStep, AdvanceWithoutCheckpoint, Goto, jobVars
  <2>2. /\ j \in Jobs /\ Held(p).step \in Nat /\ Advances(p, j)
        /\ Held(p)' = Held(p) /\ Asked(p)' = j
    BY <2>j, <2>1 DEF JobsInv, HasStep, Advances, Advancing, Held, Asked
  <2>3. /\ \A i \in Jobs : i # j => executed'[i] = executed[i]
        /\ executed'[j] = IF ran THEN executed[j] + 1 ELSE executed[j]
        /\ ran => Held(p).step < StepBudget
    BY <1>0, <1>2, <2>j, <2>2 DEF AdvanceStep, AdvanceWithoutCheckpoint, Goto, jobVars
  <2>4. ASSUME NEW i \in Jobs, i \notin disturbed' PROVE JobBudget(i)'
    <3>1. JobBudget(i)
      BY <2>1, <2>4 DEF BudgetInv
    <3>2. CASE i # j
      BY <1>0, <2>1, <2>j, <2>2, <2>3, <3>1, <3>2, BudgetFrame DEF Advances
    <3>3. CASE i = j
      <4>1. /\ \A q \in Clients : Advances(q, j) => q = p
            /\ Held(p).step = row[j].step /\ executed[j] <= Held(p).step
            /\ executed[j] \in Nat /\ executed[j] \in 0..StepBudget
        <5>1. JobBudget(j) /\ pc[p] # "record_step" /\ executed[j] \in Nat
          BY <1>0, <2>1, <2>2, <3>1, <3>3
        <5>2. \A q \in Clients : Advances(q, j) => q = p
          BY <2>2, <5>1 DEF JobBudget
        <5> QED BY <2>2, <5>1, <5>2 DEF JobBudget
      <4>2. \A q \in Clients : Advances(q, j)' => q = p
        BY <1>0, <4>1 DEF Advances, Asked
      <4>3. executed'[j] \in 0..StepBudget /\ (~ran => executed'[j] <= row[j].step)
        BY <2>2, <2>3, <4>1, JobsAssumption
      <4>4. executed'[j] <= Held(p).step + 1 /\ (~ran => executed'[j] <= Held(p).step)
        BY <2>2, <2>3, <4>1
      <4>5. row[j].step \in Nat
        BY <2>2, <4>1
      <4> QED BY <2>1, <2>2, <3>3, <4>1, <4>2, <4>3, <4>4, <4>5 DEF JobBudget
    <3> QED BY <3>2, <3>3
  <2>5. \A i \in Jobs : executed'[i] = executed[i] \/ (i = j /\ pc[p] # "idle")
    BY <2>j, <2>1, <2>3
  <2> QED BY <1>a, <2>j, <2>4, <2>5
<1>3. CASE RecordStep(p)
  <2>0. pc[p] # "idle"
    BY <1>3 DEF RecordStep
  <2>j. PICK j \in Jobs : j = Asked(p)
    BY <1>b, <2>0
  <2>1. /\ pc[p] \in {"record_step", "record_failure"} /\ pc'[p] \in {"refresh", "fail"}
        /\ UNCHANGED <<executed, view, disturbed>>
    BY <1>0, <1>3 DEF RecordStep, Goto
  <2>2. j \in Jobs /\ Held(p).step \in Nat /\ Advances(p, j)
    BY <2>j, <2>1 DEF JobsInv, HasStep, Advances, Advancing
  <2>3. /\ \A i \in Jobs : i # j => row'[i] = row[i]
        /\ row'[j].step = Held(p).step + 1
    <3>1. PICK trigger :
            row' = [row EXCEPT ![j] = SteppedRow(row[j], Held(p).step + 1, trigger)]
      BY <1>3, <2>j DEF RecordStep
    <3> QED BY <1>0, <2>2, <3>1, SteppedWrites
  <2>4. ASSUME NEW i \in Jobs, i \notin disturbed' PROVE JobBudget(i)'
    <3>1. JobBudget(i)
      BY <2>1, <2>4 DEF BudgetInv
    <3>2. CASE i # j
      BY <1>0, <2>1, <2>j, <2>3, <3>1, <3>2, BudgetFrame DEF Advances, Asked
    <3>3. CASE i = j
      <4>1. /\ \A q \in Clients : Advances(q, j) => q = p
            /\ executed[j] <= Held(p).step + 1 /\ executed[j] \in 0..StepBudget
        <5>1. \/ executed[j] <= Held(p).step
              \/ executed[j] <= Held(p).step + 1
          BY <2>2, <3>1, <3>3 DEF JobBudget
        <5>2. executed[j] \in Nat
          BY <1>0, <2>2
        <5>3. executed[j] <= Held(p).step + 1
          BY <2>2, <5>1, <5>2
        <5> QED BY <2>2, <3>1, <3>3, <5>3 DEF JobBudget
      <4>2. \A q \in Clients : ~Advances(q, j)'
        BY <1>0, <2>1, <4>1 DEF Advances, Asked, Advancing
      <4>3. /\ row'[j].step \in Nat /\ executed'[j] <= row'[j].step
            /\ executed'[j] \in 0..StepBudget
        BY <2>1, <2>2, <2>3, <4>1
      <4> QED BY <3>3, <4>2, <4>3 DEF JobBudget
    <3> QED BY <3>2, <3>3
  <2> QED BY <1>a, <2>1, <2>4
<1>4. CASE ~AdvanceStep(p) /\ ~AdvanceWithoutCheckpoint(p) /\ ~RecordStep(p)
           /\ (ClientStep(p) \/ ClientDies(p))
  <2>1. /\ executed' = executed /\ pc'[p] \notin Advancing /\ pc[p] # "idle"
        /\ \/ disturbed' = disturbed /\ pc[p] \notin Advancing
           \/ Disturb(p)
    BY <1>0, <1>4
    DEF ClientStep, ClientDies, StepRaises, CheckFail, WriteFailed, CheckCancel, WriteCancelled,
        Refresh, RefreshLocked, Reread, Respond, Goto, Return, jobVars, Advancing
  <2>2. \A i \in Jobs : row'[i].step = row[i].step
    BY <1>4, ClientRows DEF ClientWrites
  <2>3. disturbed \subseteq disturbed'
    BY <2>1 DEF Disturb
  <2>4. ASSUME NEW i \in Jobs, i \notin disturbed' PROVE JobBudget(i)'
    <3>1. JobBudget(i)
      BY <2>3, <2>4 DEF BudgetInv
    <3>2. CASE ~Advances(p, i)
      <4>1. ~Advances(p, i)'
        BY <2>1 DEF Advances
      <4> QED BY <1>0, <2>1, <2>2, <3>1, <3>2, <4>1, BudgetFrame
    <3>3. CASE Advances(p, i)
      <4>1. pc[p] # "record_step"
        BY <2>1, <2>4, <3>3 DEF Disturb, Advances
      <4> QED BY <1>0, <2>1, <2>2, <3>1, <3>3, <4>1, BudgetStopped
    <3> QED BY <3>2, <3>3
  <2> QED BY <1>a, <2>1, <2>4
<1> QED BY <1>1, <1>2, <1>3, <1>4

LEMMA BudgetStep ==
  ASSUME JobsInv, KnownInv, BudgetInv, [Next]_vars
  PROVE  BudgetInv'
<1>1. ASSUME NEW c \in Chats, BeginChat(c) \/ ChatStep(c) \/ ChatDies(c) PROVE BudgetInv'
  BY <1>1, BudgetChat
<1>2. ASSUME NEW p \in Clients,
             \/ \E j \in Jobs : Poll(p, j) \/ AskLifecycle(p, j) \/ AskCancel(p, j)
             \/ ClientStep(p) \/ ClientDies(p)
      PROVE  BudgetInv'
  BY <1>2, BudgetClient
<1>3. ASSUME NEW i \in Posts, PostJob(i) PROVE BudgetInv'
  <2>1. /\ UNCHANGED <<pc, executed, disturbed, view>> /\ i \in Jobs /\ i \notin Chats
        /\ row[i].status = "absent" /\ row' = [row EXCEPT ![i] = CreatedRow]
    BY <1>3, JobsAssumption DEF PostJob, Jobs
  <2>2. executed[i] = 0 /\ \A j \in Jobs : j # i => row'[j] = row[j]
    BY <2>1 DEF BudgetInv, JobsInv, TypeOK
  <2>3. \A p \in Clients : ~Advances(p, i) /\ ~Advances(p, i)'
    BY <2>1 DEF JobsInv, HasJob, Advances, Advancing, Asked
  <2>4. JobBudget(i)'
    BY <2>1, <2>2, <2>3, JobsAssumption DEF JobBudget
  <2>5. ASSUME NEW j \in Jobs, j # i, j \notin disturbed PROVE JobBudget(j)'
    <3>1. JobBudget(j) /\ row'[j] = row[j]
      BY <2>2, <2>5 DEF BudgetInv
    <3>2. i \notin Clients
      BY <1>3, JobsAssumption
    <3> QED BY <2>1, <3>1, <3>2, BudgetFrame
  <2>6. ASSUME NEW j \in Jobs, row'[j].status = "absent" \/ (j \in Chats /\ pc'[j] # "done")
        PROVE  executed'[j] = 0
    BY <2>1, <2>2, <2>6 DEF BudgetInv
  <2> QED BY <2>1, <2>4, <2>5, <2>6 DEF BudgetInv
<1>4. CASE UNCHANGED vars \/ Resting
  BY <1>4 DEF vars, Resting, BudgetInv, JobBudget, Advances, Asked, Held
<1> QED BY <1>1, <1>2, <1>3, <1>4 DEF Next

\* For any number of clients, and whatever raises and dies: a job runs no more
\* steps within its budget than the budget has, unless two polls advanced it at
\* once or a step that had run was not recorded.
THEOREM BudgetKept == Spec => []StepsWithinBudget
<1>1. JobsInv /\ KnownInv /\ BudgetInv /\ [Next]_vars => BudgetInv'
  BY BudgetStep
<1>2. JobsInv /\ BudgetInv => StepsWithinBudget
  <2>1. ASSUME JobsInv, BudgetInv, NEW j \in Jobs \ disturbed
        PROVE  executed[j] <= StepBudget
    BY <2>1, JobsAssumption DEF BudgetInv, JobBudget
  <2> QED BY <2>1 DEF StepsWithinBudget
<1> QED BY <1>1, <1>2, BudgetInit, KnownAlways, PTL DEF Spec

=============================================================================
