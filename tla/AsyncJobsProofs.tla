-------------------------- MODULE AsyncJobsProofs ---------------------------
(***************************************************************************)
(* Theorems about AsyncJobs.  JobsInv strengthens its type invariant with  *)
(* what the labels say: which handlers have a job in hand, and whose job   *)
(* has not been inserted yet.  TurnInv adds what turns leave in the        *)
(* session: unless an overtaken turn is still unanswered, every copy of the*)
(* session, the stored one and the drafts, shows the last answered turn.   *)
(***************************************************************************)
EXTENDS AsyncJobs, TLAPS

HasJob(p) ==
  pc[p] # "idle" => Asked(p) \in Jobs /\ row[Asked(p)].status # "absent"
HasStep(p) == pc[p] \in Advancing => Held(p).step \in Nat
BeforeCreate == {"idle", "save_session", "save_pending_session", "create_job"}
NotInserted(c) == pc[c] \in BeforeCreate => row[c].status = "absent"

ClientLabels ==
  {"idle", "advance", "record_step", "record_failure", "refresh", "fail",
   "write_failed", "cancel", "write_cancelled", "refresh_locked", "reread", "respond"}

JobsInv ==
  /\ TypeOK
  /\ \A p \in Clients : pc[p] \in ClientLabels /\ HasJob(p) /\ HasStep(p)
  /\ \A c \in Chats : NotInserted(c)

\* What shows turn t: its answer, or the result that replaced it.
Shows(s, t) == s.last_response \in {Answer(t), Result(t)}

\* Every turn that another one overtook has been answered.
OvertakenDone == \A c \in overtaken : pc[c] = "done"

TurnInv ==
  /\ \A c \in Chats :
       pc[c] = "save_final_session" => draft[c].last_response = Answer(c)
  /\ OvertakenDone =>
       /\ Shows(session, turn)
       /\ \A c \in Chats : InFlight(c) /\ pc[c] # "save_final_session"
                            => Shows(draft[c], turn)

-----------------------------------------------------------------------------
(* Rows.                                                                   *)

\* What a step may make of a job's row: a row is never taken back, and a job
\* that has failed or been cancelled is not resurrected.
RowMoves(a, b) ==
  /\ b \in JobRow
  /\ a.status # "absent" => b.status # "absent"
  /\ a.status \in {"failed", "cancelled"} => b.status \in {"failed", "cancelled"}

\* Every UPDATE of the job store makes such a move; the two that need a guard in
\* the code (the INSERT of a new id, the start of a pending job) need it here.
LEMMA UpdatesMove ==
  ASSUME NEW a \in JobRow
  PROVE  /\ RowMoves(a, a)
         /\ RowMoves(a, PreparedRow(a))
         /\ RowMoves(a, BoundRow(a))
         /\ RowMoves(a, FailedRow(a))
         /\ RowMoves(a, CancelledRow(a))
         /\ RowMoves(a, RefreshedRow(a))
         /\ \A step \in Nat, trigger \in BOOLEAN :
              RowMoves(a, SteppedRow(a, step, trigger))
         /\ a.status = "absent" => RowMoves(a, CreatedRow)
         /\ ValidTransition(a.status, "running") => RowMoves(a, StartedRow(a))
<1> USE RowsAssumption DEF RowMoves, JobRow, Transient, Terminal
<1>1. RowMoves(a, a) /\ RowMoves(a, PreparedRow(a)) /\ RowMoves(a, BoundRow(a))
  BY DEF PreparedRow, BoundRow
<1>2. RowMoves(a, FailedRow(a)) /\ RowMoves(a, CancelledRow(a))
  BY DEF FailedRow, CancelledRow
<1>3. RowMoves(a, RefreshedRow(a))
  <2>1. CASE Counted(a) > 0
    BY <2>1 DEF RefreshedRow, Counted
  <2>2. CASE ~(Counted(a) > 0) /\ ValidTransition(a.status, "succeeded")
    <3>1. RefreshedRow(a) = CompletedRow(a)
      BY <2>2 DEF RefreshedRow
    <3> QED BY <2>2, <3>1 DEF CompletedRow, ValidTransition
  <2>3. CASE ~(Counted(a) > 0) /\ ~ValidTransition(a.status, "succeeded")
    BY <1>1, <2>3 DEF RefreshedRow
  <2> QED BY <2>1, <2>2, <2>3
<1>4. ASSUME NEW step \in Nat, NEW trigger \in BOOLEAN
      PROVE  RowMoves(a, SteppedRow(a, step, trigger))
  <2>1. 0 \in 0..CompletionRefreshPolls
    OBVIOUS
  <2>2. CASE trigger
    <3>1. SteppedRow(a, step, trigger) = [a EXCEPT !.step = step, !.remaining = 0]
      BY <2>2 DEF SteppedRow
    <3> QED BY <2>1, <3>1
  <2>3. CASE ~trigger
    <3>1. SteppedRow(a, step, trigger)
            = [a EXCEPT !.step = step, !.remaining = a.remaining]
      BY <2>3 DEF SteppedRow
    <3> QED BY <3>1
  <2> QED BY <2>2, <2>3
<1>5. a.status = "absent" => RowMoves(a, CreatedRow)
  BY DEF CreatedRow, NoRow
<1>6. ValidTransition(a.status, "running") => RowMoves(a, StartedRow(a))
  <2>1. CompletionRefreshPolls \in 0..CompletionRefreshPolls
    OBVIOUS
  <2> QED BY <2>1 DEF StartedRow, ValidTransition
<1> QED BY <1>1, <1>2, <1>3, <1>4, <1>5, <1>6

-----------------------------------------------------------------------------
(* The invariant of the handlers.                                          *)

\* A step of chat request c that moves no row but its own.
LEMMA ChatFrame ==
  ASSUME JobsInv, TypeOK', NEW c \in Chats, NEW label,
         pc' = [pc EXCEPT ![c] = label], UNCHANGED view,
         \A j \in Jobs : \/ row'[j] = row[j]
                         \/ j = c /\ RowMoves(row[j], row'[j]),
         label \in BeforeCreate => row'[c].status = "absent"
  PROVE  JobsInv'
<1>1. ASSUME NEW p \in Clients
      PROVE  (pc[p] \in ClientLabels /\ HasJob(p) /\ HasStep(p))'
  <2>1. pc'[p] = pc[p]
    BY JobsAssumption DEF JobsInv, TypeOK
  <2>2. ASSUME pc[p] # "idle" PROVE row'[Asked(p)].status # "absent"
    BY <2>2 DEF JobsInv, HasJob, RowMoves
  <2> QED BY <2>1, <2>2 DEF JobsInv, HasJob, HasStep, Asked, Held
<1>2. ASSUME NEW d \in Chats PROVE NotInserted(d)'
  <2>1. CASE d = c
    BY <2>1 DEF JobsInv, NotInserted, TypeOK
  <2>2. CASE d # c
    <3>1. pc'[d] = pc[d] /\ row'[d] = row[d]
      BY <2>2 DEF JobsInv, TypeOK, Jobs
    <3> QED BY <3>1 DEF JobsInv, NotInserted
  <2> QED BY <2>1, <2>2
<1> QED BY <1>1, <1>2 DEF JobsInv

\* A step of client p that moves only rows that have been inserted.
LEMMA ClientFrame ==
  ASSUME JobsInv, TypeOK', NEW p \in Clients, NEW label \in ClientLabels,
         pc' = [pc EXCEPT ![p] = label],
         \A q \in Clients : q # p => view'[q] = view[q],
         label # "idle" => /\ view'[p].job \in Jobs
                           /\ row[view'[p].job].status # "absent",
         label \in Advancing => view'[p].row.step \in Nat,
         \A j \in Jobs : \/ row'[j] = row[j]
                         \/ /\ row[j].status # "absent"
                            /\ RowMoves(row[j], row'[j])
  PROVE  JobsInv'
<1>1. ASSUME NEW q \in Clients
      PROVE  (pc[q] \in ClientLabels /\ HasJob(q) /\ HasStep(q))'
  <2>1. CASE q = p
    BY <2>1 DEF JobsInv, TypeOK, HasJob, HasStep, Asked, Held, RowMoves
  <2>2. CASE q # p
    <3>1. pc'[q] = pc[q] /\ view'[q] = view[q]
      BY <2>2 DEF JobsInv, TypeOK
    <3>2. ASSUME pc[q] # "idle"
          PROVE  row'[Asked(q)].status # "absent"
      BY <3>2 DEF JobsInv, HasJob, RowMoves
    <3> QED BY <3>1, <3>2 DEF JobsInv, HasJob, HasStep, Asked, Held
  <2> QED BY <2>1, <2>2
<1>2. ASSUME NEW d \in Chats PROVE NotInserted(d)'
  <2>1. pc'[d] = pc[d]
    BY JobsAssumption DEF JobsInv, TypeOK
  <2>2. row[d].status = "absent" => row'[d] = row[d]
    BY DEF Jobs
  <2> QED BY <2>1, <2>2 DEF JobsInv, NotInserted
<1> QED BY <1>1, <1>2 DEF JobsInv

\* The initial state satisfies the invariant.
LEMMA JobsInit == Init => JobsInv
<1> SUFFICES ASSUME Init PROVE JobsInv
  OBVIOUS
<1>1. NoRow \in JobRow /\ NoDraft \in SessionRow /\ NoView \in Views
  BY DEF NoRow, JobRow, NoDraft, FirstAnswer, SessionRow, ResponseIds, NoView,
         Views
<1>2. TypeOK
  <2>1. session \in SessionRow
    BY DEF Init, FirstAnswer, SessionRow, ResponseIds
  <2>2. faults \in 0..MaxFaults
    BY JobsAssumption DEF Init
  <2> QED BY <1>1, <2>1, <2>2 DEF Init, TypeOK, Labels
<1> QED
  BY <1>2 DEF Init, JobsInv, ClientLabels, Advancing, HasJob, HasStep, NotInserted, NoRow,
              Jobs

\* The labels of the two kinds of handlers.
LEMMA ClientLabelsAreLabels == ClientLabels \subseteq Labels
BY DEF ClientLabels, Labels

\* Every step of a chat request keeps the invariant.
LEMMA ChatKeeps ==
  ASSUME JobsInv, NEW c \in Chats,
         BeginChat(c) \/ ChatStep(c) \/ ChatDies(c)
  PROVE  JobsInv'
<1> USE JobsAssumption
<1>0. /\ TypeOK /\ row[c] \in JobRow /\ draft[c] \in SessionRow /\ c \in Jobs
      /\ NotInserted(c)
  BY DEF JobsInv, TypeOK, Jobs
<1>01. NoDraft \in SessionRow
  BY DEF NoDraft, FirstAnswer, SessionRow, ResponseIds
<1>02. Answer(c) \in ResponseIds
  BY <1>0 DEF Answer, ResponseIds
<1>1. CASE BeginChat(c)
  <2>1. PICK label \in {"save_session", "save_pending_session"} :
          pc' = [pc EXCEPT ![c] = label]
    BY <1>1 DEF BeginChat, Goto
  <2>2. TypeOK'
    BY <1>0, <1>1, <2>1 DEF BeginChat, TypeOK, Labels, jobVars, history
  <2>3. row[c].status = "absent"
    BY <1>0, <1>1 DEF BeginChat, NotInserted, BeforeCreate
  <2> QED BY <1>1, <2>1, <2>2, <2>3, ChatFrame DEF BeginChat, jobVars, history
<1>2. CASE SaveSession(c)
  <2>1. PICK label \in {"read_session", "create_job"} :
          pc' = [pc EXCEPT ![c] = label]
    BY <1>2 DEF SaveSession, Goto
  <2>2. TypeOK'
    BY <1>0, <1>2, <2>1 DEF SaveSession, TypeOK, Labels, jobVars, history
  <2>3. row[c].status = "absent"
    BY <1>0, <1>2 DEF SaveSession, NotInserted, BeforeCreate
  <2> QED BY <1>2, <2>1, <2>2, <2>3, ChatFrame DEF SaveSession, jobVars, history
<1>3. CASE CreateJob(c)
  <2>1. RowMoves(row[c], CreatedRow)
    BY <1>0, <1>3, UpdatesMove DEF CreateJob, NotInserted, BeforeCreate
  <2>2. TypeOK'
    BY <1>0, <1>3, <2>1 DEF CreateJob, Goto, TypeOK, Labels, RowMoves
  <2> QED
    BY <1>0, <1>3, <2>1, <2>2, ChatFrame
    DEF CreateJob, Goto, BeforeCreate, TypeOK
<1>4. CASE SeedAutonomy(c)
  <2>1. RowMoves(row[c], SteppedRow(row[c], 0, FALSE))
    BY <1>0, UpdatesMove
  <2>2. TypeOK'
    BY <1>0, <1>4, <2>1 DEF SeedAutonomy, Goto, TypeOK, Labels, RowMoves, history
  <2>3. \A j \in Jobs : row'[j] = row[j] \/ (j = c /\ RowMoves(row[j], row'[j]))
    BY <1>0, <1>4, <2>1 DEF SeedAutonomy, TypeOK
  <2>4. pc' = [pc EXCEPT ![c] = "prepare_result"] /\ UNCHANGED view
    BY <1>4 DEF SeedAutonomy, Goto
  <2> QED BY <2>2, <2>3, <2>4, ChatFrame DEF BeforeCreate
<1>5. CASE PrepareResult(c)
  <2>1. RowMoves(row[c], PreparedRow(row[c]))
    BY <1>0, UpdatesMove
  <2>2. TypeOK'
    BY <1>0, <1>5, <2>1 DEF PrepareResult, Goto, TypeOK, Labels, RowMoves, history
  <2> QED
    BY <1>0, <1>5, <2>1, <2>2, ChatFrame
    DEF PrepareResult, Goto, BeforeCreate, TypeOK
<1>6. CASE SaveLastJob(c)
  <2>1. draft'[c] \in SessionRow /\ session' \in SessionRow
    BY <1>0, <1>6 DEF SaveLastJob, SessionRow, TypeOK
  <2>2. TypeOK'
    BY <1>0, <1>6, <2>1
    DEF SaveLastJob, Goto, TypeOK, Labels, jobVars, history, SessionRow
  <2> QED
    BY <1>6, <2>2, ChatFrame DEF SaveLastJob, Goto, BeforeCreate, jobVars
<1>7. CASE BindPendingResponse(c)
  <2>1. RowMoves(row[c], BoundRow(row[c]))
    BY <1>0, UpdatesMove
  <2>2. TypeOK'
    BY <1>0, <1>7, <2>1
    DEF BindPendingResponse, Goto, TypeOK, Labels, RowMoves, history
  <2> QED
    BY <1>0, <1>7, <2>1, <2>2, ChatFrame
    DEF BindPendingResponse, Goto, BeforeCreate, TypeOK
<1>8. CASE StartJob(c)
  <2> DEFINE new == IF ValidTransition(row[c].status, "running")
                    THEN StartedRow(row[c]) ELSE row[c]
  <2>1. row' = [row EXCEPT ![c] = new] /\ RowMoves(row[c], new)
    BY <1>0, <1>8, UpdatesMove DEF StartJob
  <2> HIDE DEF new
  <2>2. TypeOK'
    BY <1>0, <1>8, <2>1 DEF StartJob, Goto, TypeOK, Labels, RowMoves, history
  <2>3. \A j \in Jobs : \/ row'[j] = row[j]
                        \/ j = c /\ RowMoves(row[j], row'[j])
    BY <1>0, <2>1 DEF TypeOK
  <2>4. pc' = [pc EXCEPT ![c] = "read_session"] /\ UNCHANGED view
    BY <1>8 DEF StartJob, Goto
  <2> QED BY <2>2, <2>3, <2>4, ChatFrame DEF BeforeCreate
<1>9. CASE ReadSession(c)
  <2>1. draft' \in [Chats -> SessionRow]
    BY <1>0, <1>02, <1>9 DEF ReadSession, TypeOK, SessionRow
  <2>2. TypeOK'
    BY <1>0, <1>9, <2>1 DEF ReadSession, Goto, TypeOK, Labels, jobVars, history
  <2> QED
    BY <1>9, <2>2, ChatFrame DEF ReadSession, Goto, BeforeCreate, jobVars
<1>10. CASE SaveFinalSession(c)
  <2>1. TypeOK'
    BY <1>0, <1>01, <1>10 DEF SaveFinalSession, Goto, TypeOK, Labels, jobVars
  <2> QED
    BY <1>10, <2>1, ChatFrame DEF SaveFinalSession, Goto, BeforeCreate, jobVars
<1>11. CASE ChatDies(c)
  <2>1. TypeOK'
    BY <1>0, <1>01, <1>11
    DEF ChatDies, Goto, TypeOK, Labels, jobVars, history
  <2> QED
    BY <1>11, <2>1, ChatFrame DEF ChatDies, Goto, BeforeCreate, jobVars
<1> QED
  BY <1>1, <1>2, <1>3, <1>4, <1>5, <1>6, <1>7, <1>8, <1>9, <1>10, <1>11
  DEF ChatStep

\* Every step of the three routes of one job keeps the invariant.
LEMMA ClientKeeps ==
  ASSUME JobsInv, NEW p \in Clients,
         \/ \E j \in Jobs : Poll(p, j) \/ AskLifecycle(p, j) \/ AskCancel(p, j)
         \/ ClientStep(p) \/ ClientDies(p)
  PROVE  JobsInv'
<1> USE JobsAssumption
<1> DEFINE a == row[Asked(p)]
<1>0. /\ TypeOK
      /\ pc[p] \in ClientLabels
      /\ pc[p] # "idle" => Asked(p) \in Jobs /\ a \in JobRow /\ a.status # "absent"
      /\ pc[p] \in Advancing => Held(p).step \in Nat
      /\ view[p] \in Views
  BY DEF JobsInv, HasJob, HasStep, TypeOK
<1>01. NoView \in Views
  BY DEF NoView, NoRow, JobRow, Views
<1>02. ClientLabels \subseteq Labels
  BY ClientLabelsAreLabels
<1>1. ASSUME NEW j \in Jobs,
             Poll(p, j) \/ AskLifecycle(p, j) \/ AskCancel(p, j)
      PROVE  JobsInv'
  <2>1. PICK label \in ClientLabels, what \in {"poll", "lifecycle", "cancel"} :
          /\ pc' = [pc EXCEPT ![p] = label]
          /\ view' = [view EXCEPT ![p] = [what |-> what, job |-> j,
                                          row |-> row[j]]]
          /\ label \in Advancing => Autonomous(row[j])
    BY <1>1 DEF Poll, AskLifecycle, AskCancel, Goto, ClientLabels, Advancing
  <2>2. row[j] \in JobRow /\ row[j].status # "absent"
    BY <1>0, <1>1 DEF TypeOK, Poll, AskLifecycle, AskCancel, Known
  <2>3. label \in Advancing => row[j].step \in Nat
    BY <2>1, <2>2 DEF Autonomous, JobRow
  <2>4. view' \in [Clients -> Views] /\ view'[p].job = j /\ view'[p].row = row[j]
    BY <1>0, <2>1, <2>2 DEF Views, TypeOK
  <2>5. /\ UNCHANGED <<row, executed, session, draft, faults, turn, newest, told,
                        overtaken>>
        /\ disturbed' \subseteq Jobs
    BY <1>0, <1>1 DEF Poll, AskLifecycle, AskCancel, jobVars, history, TypeOK
  <2>6. pc' \in [Chats \cup Clients -> Labels]
    BY <1>0, <1>02, <2>1 DEF TypeOK
  <2>7. TypeOK'
    BY <1>0, <2>4, <2>5, <2>6 DEF TypeOK
  <2>8. \A q \in Clients : q # p => view'[q] = view[q]
    BY <1>0, <2>1 DEF TypeOK
  <2> QED BY <2>1, <2>2, <2>3, <2>4, <2>5, <2>7, <2>8, ClientFrame
<1>2. ASSUME pc[p] # "idle", NEW label \in ClientLabels,
             label \in Advancing => pc[p] \in Advancing /\ view' = view,
             pc' = [pc EXCEPT ![p] = label],
             view' \in [Clients -> Views],
             label # "idle" => view'[p].job = Asked(p),
             \A q \in Clients : q # p => view'[q] = view[q],
             row' = row \/ \E b : /\ row' = [row EXCEPT ![Asked(p)] = b]
                                  /\ RowMoves(a, b),
             executed' \in [Jobs -> Nat], session' \in SessionRow,
             faults' \in 0..MaxFaults, told' \subseteq Jobs,
             disturbed' \subseteq Jobs, UNCHANGED <<draft, turn, newest, overtaken>>
      PROVE  JobsInv'
  <2>1. pc' \in [Chats \cup Clients -> Labels]
    BY <1>0, <1>02, <1>2 DEF TypeOK
  <2>2. /\ row' \in [Jobs -> JobRow]
        /\ \A j \in Jobs : \/ row'[j] = row[j]
                           \/ row[j].status # "absent" /\ RowMoves(row[j], row'[j])
    <3>1. CASE row' = row
      BY <1>0, <3>1 DEF TypeOK
    <3>2. ASSUME NEW b, row' = [row EXCEPT ![Asked(p)] = b], RowMoves(a, b)
          PROVE  <2>2!1 /\ <2>2!2
      <4>1. row' \in [Jobs -> JobRow] /\ row'[Asked(p)] = b
        BY <1>0, <1>2, <3>2 DEF TypeOK, RowMoves
      <4>2. RowMoves(row[Asked(p)], row'[Asked(p)])
        BY <3>2, <4>1 DEF RowMoves
      <4>3. ASSUME NEW j \in Jobs, j # Asked(p) PROVE row'[j] = row[j]
        BY <1>0, <3>2, <4>3 DEF TypeOK
      <4> QED BY <1>0, <1>2, <4>1, <4>2, <4>3
    <3> QED BY <1>2, <3>1, <3>2
  <2>3. TypeOK'
    BY <1>0, <1>2, <2>1, <2>2 DEF TypeOK
  <2>4. label \in Advancing => view'[p].row.step \in Nat
    BY <1>0, <1>2 DEF Held
  <2>5. label # "idle" => view'[p].job \in Jobs /\ row[view'[p].job].status # "absent"
    BY <1>0, <1>2
  <2> QED BY <1>2, <2>2, <2>3, <2>4, <2>5, ClientFrame
<1> HIDE DEF a
<1>3. ASSUME pc[p] # "idle", Look(p)
      PROVE  /\ view' \in [Clients -> Views]
             /\ view'[p].job = Asked(p)
             /\ \A q \in Clients : q # p => view'[q] = view[q]
  <2>1. [view[p] EXCEPT !.row = row[Asked(p)]] \in Views
    BY <1>0, <1>3 DEF Views, a
  <2> QED BY <1>0, <1>3, <2>1 DEF Look, TypeOK, Asked, Views
<1>4. ASSUME Return(p)
      PROVE  /\ view' \in [Clients -> Views]
             /\ \A q \in Clients : q # p => view'[q] = view[q]
             /\ pc' = [pc EXCEPT ![p] = "idle"]
  BY <1>0, <1>01, <1>4 DEF Return, Goto, TypeOK
<1>5. ASSUME UNCHANGED view
      PROVE  /\ view' \in [Clients -> Views]
             /\ view'[p].job = Asked(p)
             /\ \A q \in Clients : q # p => view'[q] = view[q]
  BY <1>0, <1>5 DEF TypeOK, Asked
<1>6. /\ executed \in [Jobs -> Nat] /\ session \in SessionRow
      /\ faults \in 0..MaxFaults /\ told \subseteq Jobs /\ disturbed \subseteq Jobs
  BY <1>0 DEF TypeOK
<1>7. /\ {"idle", "refresh", "fail", "write_failed", "write_cancelled",
          "refresh_locked", "reread", "respond"} \subseteq ClientLabels \ Advancing
      /\ Advancing \subseteq ClientLabels
  BY DEF ClientLabels, Advancing
<1>8. a \in JobRow => /\ RowMoves(a, FailedRow(a)) /\ RowMoves(a, CancelledRow(a))
                      /\ RowMoves(a, RefreshedRow(a))
                      /\ \A step \in Nat, trigger \in BOOLEAN :
                           RowMoves(a, SteppedRow(a, step, trigger))
  BY UpdatesMove
<1>9. CASE AdvanceStep(p) \/ AdvanceWithoutCheckpoint(p)
  <2>1. PICK label \in {"record_step", "record_failure"} : pc' = [pc EXCEPT ![p] = label]
    BY <1>9 DEF AdvanceStep, AdvanceWithoutCheckpoint, Goto
  <2>2. executed' \in [Jobs -> Nat] /\ faults' \in 0..MaxFaults
    BY <1>0, <1>6, <1>9 DEF AdvanceStep, AdvanceWithoutCheckpoint, jobVars
  <2>3. label \in ClientLabels /\ pc[p] \in Advancing /\ pc[p] # "idle"
    BY <1>7, <1>9, <2>1 DEF AdvanceStep, AdvanceWithoutCheckpoint, Advancing
  <2>4. UNCHANGED <<view, row, session, told, disturbed, draft, turn, newest, overtaken>>
    BY <1>9 DEF AdvanceStep, AdvanceWithoutCheckpoint, history, jobVars
  <2> QED BY <1>2, <1>5, <1>6, <2>1, <2>2, <2>3, <2>4
<1>10. CASE RecordStep(p)
  <2> DEFINE ran == pc[p] = "record_step"
  <2>1. Held(p).step + 1 \in Nat /\ ran \in BOOLEAN /\ pc[p] # "idle"
    BY <1>0, <1>10 DEF RecordStep, Advancing
  <2>2. RowMoves(a, SteppedRow(a, Held(p).step + 1, ran))
    BY <1>0, <1>8, <2>1
  <2>3. row' = [row EXCEPT ![Asked(p)] = SteppedRow(a, Held(p).step + 1, ran)]
    BY <1>10 DEF RecordStep, a
  <2>4. PICK label \in {"refresh", "fail"} : pc' = [pc EXCEPT ![p] = label]
    BY <1>10 DEF RecordStep, Goto
  <2>5. UNCHANGED <<view, executed, session, faults, told, disturbed, draft, turn, newest,
                    overtaken>>
    BY <1>10 DEF RecordStep, history
  <2> HIDE DEF ran
  <2> QED BY <1>2, <1>5, <1>6, <1>7, <2>1, <2>2, <2>3, <2>4, <2>5
<1>11. CASE StepRaises(p)
  <2>1. faults' \in 0..MaxFaults /\ pc[p] # "idle"
    BY <1>6, <1>11 DEF StepRaises, Advancing
  <2>2. disturbed' \subseteq Jobs
    BY <1>0, <1>6, <1>11, <2>1 DEF StepRaises, Disturb
  <2> QED
    BY <1>2, <1>5, <1>6, <1>7, <1>11, <2>1, <2>2 DEF StepRaises, Goto, history
<1>12. CASE CheckFail(p)
  <2>1. PICK label \in {"write_failed", "refresh"} : pc' = [pc EXCEPT ![p] = label]
    BY <1>12 DEF CheckFail, Goto
  <2> QED
    BY <1>2, <1>3, <1>6, <1>7, <1>12, <2>1 DEF CheckFail, history, jobVars
<1>13. CASE WriteFailed(p)
  BY <1>0, <1>2, <1>5, <1>6, <1>7, <1>8, <1>13 DEF WriteFailed, Goto, history, a
<1>14. CASE CheckCancel(p)
  BY <1>2, <1>3, <1>4, <1>6, <1>7, <1>14 DEF CheckCancel, Goto, history, jobVars
<1>15. CASE WriteCancelled(p)
  BY <1>0, <1>2, <1>4, <1>6, <1>7, <1>8, <1>15 DEF WriteCancelled, history, a
<1>16. CASE Refresh(p)
  <2>1. PICK label \in {"refresh_locked", "respond"} : pc' = [pc EXCEPT ![p] = label]
    BY <1>16 DEF Refresh, Goto
  <2> QED
    BY <1>2, <1>3, <1>6, <1>7, <1>16, <2>1 DEF Refresh, history, jobVars
<1>17. CASE RefreshLocked(p)
  <2>1. a \in JobRow /\ RowMoves(a, RefreshedRow(a)) /\ Asked(p) \in Jobs
    BY <1>0, <1>8, <1>17 DEF RefreshLocked
  <2>2. PICK label \in {"respond", "reread"} : pc' = [pc EXCEPT ![p] = label]
    BY <1>17 DEF RefreshLocked, Goto
  <2>3. row' = row \/ row' = [row EXCEPT ![Asked(p)] = RefreshedRow(a)]
    BY <1>17 DEF RefreshLocked, a
  <2>4. /\ view' \in [Clients -> Views] /\ view'[p].job = Asked(p)
        /\ \A q \in Clients : q # p => view'[q] = view[q]
    <3>1. CASE UNCHANGED view
      BY <1>5, <3>1
    <3>2. CASE view' = [view EXCEPT ![p].row = RefreshedRow(a)]
      <4>1. [view[p] EXCEPT !.row = RefreshedRow(a)] \in Views
        BY <1>0, <2>1 DEF Views, RowMoves
      <4> QED BY <1>0, <3>2, <4>1 DEF TypeOK, Asked, Views
    <3> QED BY <1>17, <3>1, <3>2 DEF RefreshLocked, a
  <2> QED
    BY <1>2, <1>6, <1>7, <1>17, <2>1, <2>2, <2>3, <2>4 DEF RefreshLocked, history
<1>18. CASE Reread(p)
  BY <1>2, <1>3, <1>6, <1>7, <1>18 DEF Reread, Goto, history, jobVars
<1>19. CASE Respond(p)
  <2>1. Promoted(p) \in SessionRow
    BY <1>0, <1>6, <1>19 DEF Respond, Promoted, SessionRow, ResponseIds, Result
  <2>2. session' \in SessionRow /\ told' \subseteq Jobs
    BY <1>0, <1>6, <1>19, <2>1 DEF Respond
  <2> QED
    BY <1>2, <1>4, <1>6, <1>7, <1>19, <2>2 DEF Respond, jobVars
<1>20. CASE ClientDies(p)
  <2>1. faults' \in 0..MaxFaults
    BY <1>6, <1>20 DEF ClientDies
  <2>2. disturbed' \subseteq Jobs
    BY <1>0, <1>6, <1>20 DEF ClientDies, Disturb
  <2> QED
    BY <1>2, <1>4, <1>6, <1>7, <1>20, <2>1, <2>2 DEF ClientDies, history
<1> QED
  BY <1>1, <1>9, <1>10, <1>11, <1>12, <1>13, <1>14, <1>15, <1>16, <1>17, <1>18,
     <1>19, <1>20
  DEF ClientStep

\* Creating a job by POST /jobs keeps it too.
LEMMA PostKeeps ==
  ASSUME JobsInv, NEW j \in Posts, PostJob(j)
  PROVE  JobsInv'
<1>1. RowMoves(row[j], CreatedRow) /\ j \in Jobs /\ row[j].status = "absent"
  BY UpdatesMove DEF JobsInv, TypeOK, PostJob, Jobs
<1>2. TypeOK'
  BY <1>1 DEF JobsInv, TypeOK, PostJob, RowMoves, history
<1>3. \A i \in Jobs : i # j => row'[i] = row[i]
  BY DEF JobsInv, TypeOK, PostJob
<1>4. ASSUME NEW p \in Clients
      PROVE  (pc[p] \in ClientLabels /\ HasJob(p) /\ HasStep(p))'
  BY <1>1, <1>3, <1>4 DEF JobsInv, PostJob, HasJob, HasStep, Asked, Held
<1>5. ASSUME NEW c \in Chats PROVE NotInserted(c)'
  <2>1. c # j /\ c \in Jobs
    BY JobsAssumption DEF Jobs
  <2> QED BY <1>3, <2>1 DEF JobsInv, PostJob, NotInserted
<1> QED BY <1>2, <1>4, <1>5 DEF JobsInv

LEMMA JobsStep == JobsInv /\ [Next]_vars => JobsInv'
<1> SUFFICES ASSUME JobsInv, [Next]_vars PROVE JobsInv'
  OBVIOUS
<1>1. CASE UNCHANGED vars
  BY <1>1
  DEF vars, JobsInv, TypeOK, HasJob, HasStep, NotInserted, Asked, Held
<1>2. CASE Resting
  BY <1>1, <1>2 DEF Resting
<1> QED BY <1>1, <1>2, ChatKeeps, ClientKeeps, PostKeeps DEF Next

\* The invariant of the handlers holds in every reachable state.
THEOREM JobsInvariant == Spec => []JobsInv
BY JobsInit, JobsStep, PTL DEF Spec

\* Every variable of the jobs and of the session keeps its type; in particular
\* no countdown of refresh_job leaves its range.
THEOREM JobsTypeCorrect == Spec => []TypeOK
<1>1. JobsInv => TypeOK
  BY DEF JobsInv
<1> QED BY <1>1, JobsInvariant, PTL

-----------------------------------------------------------------------------
(* No resurrection.                                                        *)

\* update_autonomy_metadata leaves the status alone.
LEMMA SteppedKeepsStatus ==
  ASSUME NEW a \in JobRow, NEW step, NEW trigger
  PROVE  SteppedRow(a, step, trigger).status = a.status
BY DEF SteppedRow, JobRow

\* Every step moves the rows of failed and of cancelled jobs, if at all, to
\* failed or cancelled ones.
LEMMA RowsStay ==
  ASSUME JobsInv, [Next]_vars, NEW j \in Jobs,
         row[j].status \in {"failed", "cancelled"}
  PROVE  row'[j].status \in {"failed", "cancelled"}
<1>0. /\ row \in [Jobs -> JobRow] /\ row[j] \in JobRow
      /\ \A c \in Chats : NotInserted(c)
  BY DEF JobsInv, TypeOK
<1>1. CASE row'[j] = row[j]
  BY <1>1
<1>2. ASSUME NEW c \in Chats, ChatStep(c), row'[j] # row[j]
      PROVE  row'[j].status \in {"failed", "cancelled"}
  <2>1. CASE CreateJob(c)
    <3>1. row[c].status = "absent"
      BY <1>0, <2>1 DEF CreateJob, NotInserted, BeforeCreate
    <3> QED BY <1>0, <1>2, <2>1, <3>1 DEF CreateJob
  <2>2. CASE SeedAutonomy(c)
    <3> DEFINE new == SteppedRow(row[c], 0, FALSE)
    <3>1. row' = [row EXCEPT ![c] = new] /\ c = j
      BY <1>0, <1>2, <2>2 DEF SeedAutonomy
    <3>2. new.status = row[c].status
      BY <1>0, <3>1, SteppedKeepsStatus
    <3> HIDE DEF new
    <3> QED BY <1>0, <3>1, <3>2
  <2>5. CASE PrepareResult(c) \/ BindPendingResponse(c)
    BY <1>0, <1>2, <2>5
    DEF PrepareResult, BindPendingResponse, PreparedRow, BoundRow, JobRow
  <2>3. CASE StartJob(c)
    BY <1>0, <1>2, <2>3 DEF StartJob, ValidTransition
  <2>4. CASE \/ SaveSession(c) \/ SaveLastJob(c) \/ ReadSession(c)
             \/ SaveFinalSession(c)
    BY <1>2, <2>4
    DEF SaveSession, SaveLastJob, ReadSession, SaveFinalSession, jobVars
  <2> QED BY <1>2, <2>1, <2>2, <2>3, <2>4, <2>5 DEF ChatStep
<1>3. ASSUME NEW p \in Clients, ClientStep(p), row'[j] # row[j]
      PROVE  row'[j].status \in {"failed", "cancelled"}
  <2>1. CASE RecordStep(p)
    <3>1. PICK step, trigger :
            row' = [row EXCEPT ![Asked(p)] =
                      SteppedRow(row[Asked(p)], step, trigger)]
      BY <2>1 DEF RecordStep
    <3> DEFINE new == SteppedRow(row[Asked(p)], step, trigger)
    <3>2. Asked(p) = j
      BY <1>0, <1>3, <3>1
    <3>3. new.status = row[j].status
      BY <1>0, <3>2, SteppedKeepsStatus
    <3> QED BY <1>0, <3>1, <3>2, <3>3
  <2>2. CASE WriteFailed(p) \/ WriteCancelled(p)
    BY <1>0, <1>3, <2>2
    DEF WriteFailed, WriteCancelled, FailedRow, CancelledRow, JobRow
  <2>3. CASE RefreshLocked(p)
    BY <1>0, <1>3, <2>3 DEF RefreshLocked, RefreshedRow, ValidTransition, JobRow
  <2>4. CASE \/ AdvanceStep(p) \/ AdvanceWithoutCheckpoint(p) \/ StepRaises(p)
             \/ CheckFail(p) \/ CheckCancel(p) \/ Refresh(p) \/ Reread(p) \/ Respond(p)
    BY <1>3, <2>4
    DEF AdvanceStep, AdvanceWithoutCheckpoint, StepRaises, CheckFail, CheckCancel,
        Refresh, Reread, Respond, jobVars
  <2> QED BY <1>3, <2>1, <2>2, <2>3, <2>4 DEF ClientStep
<1>4. ASSUME NEW i \in Posts, PostJob(i), row'[j] # row[j]
      PROVE  row'[j].status \in {"failed", "cancelled"}
  BY <1>0, <1>4 DEF PostJob
<1>5. CASE \/ UNCHANGED vars \/ Resting
           \/ \E c \in Chats : BeginChat(c) \/ ChatDies(c)
           \/ \E p \in Clients :
                \/ ClientDies(p)
                \/ \E i \in Jobs : Poll(p, i) \/ AskLifecycle(p, i) \/ AskCancel(p, i)
  <2>1. UNCHANGED row
    BY <1>5
    DEF vars, Resting, BeginChat, ChatDies, ClientDies, Poll, AskLifecycle,
        AskCancel, jobVars
  <2> QED BY <2>1
<1> QED BY <1>1, <1>2, <1>3, <1>4, <1>5 DEF Next

\* A failed or cancelled job never runs or succeeds again, for any number of
\* concurrent polls, cancellations, refreshes and dying handlers.
THEOREM NeverResurrected == Spec => NoResurrection
<1>1. JobsInv /\ [Next]_vars =>
        [\A j \in Jobs : row[j].status \in {"failed", "cancelled"}
                         => row'[j].status \in {"failed", "cancelled"}]_vars
  BY RowsStay
<1> QED BY <1>1, JobsInvariant, PTL DEF Spec, NoResurrection

-----------------------------------------------------------------------------
(* Turns: no stale answer and no stale promotion.                          *)

\* Response ids tell the requests and the two kinds apart.
LEMMA ResponsesDiffer ==
  ASSUME NEW i, NEW j
  PROVE  /\ Answer(i) = Answer(j) => i = j
         /\ Answer(i) # Result(j)
<1>1. Answer(i).of = i /\ Answer(j).of = j
  BY DEF Answer
<1>2. Answer(i).result = FALSE /\ Result(j).result = TRUE
  BY DEF Answer, Result
<1> QED BY <1>1, <1>2

\* A promotion keeps the session on the turn it shows, and changes it only for
\* the job of that turn.
LEMMA PromotedShows ==
  ASSUME Shows(session, turn), NEW p \in Clients
  PROVE  /\ Shows(Promoted(p), turn)
         /\ Promoted(p) # session => turn = Asked(p)
<1>1. CASE session.last_response = Answer(Asked(p))
  <2>1. turn = Asked(p)
    BY <1>1, ResponsesDiffer DEF Shows
  <2>2. Promoted(p).last_response \in {session.last_response, Result(turn)}
    BY <2>1 DEF Promoted
  <2> QED BY <2>1, <2>2 DEF Shows
<1>2. CASE session.last_response # Answer(Asked(p))
  BY <1>2 DEF Promoted
<1> QED BY <1>1, <1>2

LEMMA TurnInit == Init => TurnInv
BY DEF Init, TurnInv, Shows, FirstAnswer, Answer, InFlight

\* However turns overlap and die, they keep TurnInv.
LEMMA TurnStep ==
  ASSUME JobsInv, TurnInv, [Next]_vars
  PROVE  TurnInv'
<1> USE JobsAssumption
<1>0. /\ pc \in [Chats \cup Clients -> Labels]
      /\ draft \in [Chats -> SessionRow] /\ session \in SessionRow
      /\ overtaken \subseteq Chats
  BY DEF JobsInv, TypeOK
\* A step of a chat that is not answered by it, given what it saves and holds.
<1>a. ASSUME NEW c \in Chats, NEW label, pc[c] # "done", label # "done",
             pc' = [pc EXCEPT ![c] = label],
             \A d \in Chats : d # c => draft'[d] = draft[d],
             UNCHANGED <<turn, overtaken>>,
             label = "save_final_session" => draft'[c].last_response = Answer(c),
             OvertakenDone => Shows(session', turn),
             OvertakenDone /\ label \notin {"dead", "save_final_session"}
               => Shows(draft'[c], turn)
      PROVE  TurnInv'
  <2>1. pc'[c] = label /\ \A d \in Chats : d # c => pc'[d] = pc[d]
    BY <1>0, <1>a
  <2>2. OvertakenDone' => OvertakenDone
    BY <1>0, <1>a, <2>1 DEF OvertakenDone
  <2>3. \A d \in Chats :
          pc'[d] = "save_final_session" => draft'[d].last_response = Answer(d)
    BY <1>a, <2>1 DEF TurnInv
  <2>4. ASSUME OvertakenDone', NEW d \in Chats, InFlight(d)',
               pc'[d] # "save_final_session"
        PROVE  Shows(draft'[d], turn')
    <3>1. CASE d = c
      BY <1>a, <2>1, <2>2, <2>4, <3>1 DEF InFlight
    <3>2. CASE d # c
      BY <1>a, <2>1, <2>2, <2>4, <3>2 DEF InFlight, TurnInv
    <3> QED BY <3>1, <3>2
  <2>5. OvertakenDone' => Shows(session', turn')
    BY <1>a, <2>2
  <2> QED BY <2>3, <2>4, <2>5 DEF TurnInv, Shows
<1>1. ASSUME NEW c \in Chats, BeginChat(c) PROVE TurnInv'
  <2>1. PICK label \in {"save_session", "save_pending_session"} :
          pc' = [pc EXCEPT ![c] = label]
    BY <1>1 DEF BeginChat, Goto
  <2>2. /\ pc[c] = "idle" /\ draft' = [draft EXCEPT ![c] = session]
        /\ UNCHANGED <<session, turn, overtaken>>
    BY <1>1 DEF BeginChat, history
  <2>3. draft'[c] = session /\ \A d \in Chats : d # c => draft'[d] = draft[d]
    BY <1>0, <2>2
  <2>4. OvertakenDone => Shows(session, turn)
    BY DEF TurnInv
  <2> QED BY <1>a, <2>1, <2>2, <2>3, <2>4
<1>2. ASSUME NEW c \in Chats, ChatStep(c) PROVE TurnInv'
  <2>0. OvertakenDone => Shows(session, turn)
    BY DEF TurnInv
  <2>1. InFlight(c) /\ pc[c] # "done"
    BY <1>2
    DEF ChatStep, InFlight, SaveSession, CreateJob, SeedAutonomy, PrepareResult,
        SaveLastJob, BindPendingResponse, StartJob, ReadSession,
        SaveFinalSession
  <2>5. CASE SaveSession(c)
    <3>1. OvertakenDone => Shows(draft[c], turn)
      BY <2>1, <2>5 DEF TurnInv, SaveSession
    <3>2. PICK label \in {"read_session", "create_job"} : pc' = [pc EXCEPT ![c] = label]
      BY <2>5 DEF SaveSession, Goto
    <3>3. session' = draft[c] /\ UNCHANGED <<draft, turn, overtaken>>
      BY <2>5 DEF SaveSession, history
    <3> QED BY <1>a, <2>1, <3>1, <3>2, <3>3
  <2>6. CASE \/ CreateJob(c) \/ SeedAutonomy(c) \/ PrepareResult(c)
             \/ BindPendingResponse(c) \/ StartJob(c)
    <3>1. OvertakenDone => Shows(draft[c], turn)
      BY <2>1, <2>6
      DEF TurnInv, CreateJob, SeedAutonomy, PrepareResult, BindPendingResponse,
          StartJob
    <3>2. PICK label \in {"seed", "prepare_result", "save_last_job", "start_job",
                          "read_session"} : pc' = [pc EXCEPT ![c] = label]
      BY <2>6
      DEF CreateJob, SeedAutonomy, PrepareResult, BindPendingResponse, StartJob, Goto
    <3>3. UNCHANGED <<session, draft, turn, overtaken>>
      BY <2>6
      DEF CreateJob, SeedAutonomy, PrepareResult, BindPendingResponse, StartJob,
          history
    <3> QED BY <1>a, <2>0, <2>1, <3>1, <3>2, <3>3
  <2>7. CASE SaveLastJob(c)
    <3>1. OvertakenDone => Shows(draft[c], turn)
      BY <2>1, <2>7 DEF TurnInv, SaveLastJob
    <3>2. /\ draft'[c].last_response = draft[c].last_response
          /\ session' = draft'[c] /\ UNCHANGED <<turn, overtaken>>
          /\ \A d \in Chats : d # c => draft'[d] = draft[d]
      BY <1>0, <2>7 DEF SaveLastJob, history, SessionRow
    <3>3. OvertakenDone => Shows(draft'[c], turn)
      BY <3>1, <3>2 DEF Shows
    <3>4. pc' = [pc EXCEPT ![c] = "bind_pending_response"]
      BY <2>7 DEF SaveLastJob, Goto
    <3> QED BY <1>a, <2>1, <3>2, <3>3, <3>4
  <2>8. CASE ReadSession(c)
    <3>1. /\ draft'[c].last_response = Answer(c)
          /\ \A d \in Chats : d # c => draft'[d] = draft[d]
          /\ UNCHANGED <<session, turn, overtaken>>
      BY <1>0, <2>8 DEF ReadSession, history
    <3>2. pc' = [pc EXCEPT ![c] = "save_final_session"]
      BY <2>8 DEF ReadSession, Goto
    <3> QED BY <1>a, <2>0, <2>1, <3>1, <3>2
  <2>9. CASE SaveFinalSession(c)
    <3>1. draft[c].last_response = Answer(c)
      BY <2>9 DEF TurnInv, SaveFinalSession
    <3>2. /\ session' = draft[c] /\ turn' = c /\ pc'[c] = "done"
          /\ \A d \in Chats : d # c => pc'[d] = pc[d] /\ draft'[d] = draft[d]
          /\ overtaken' = overtaken \cup {d \in Chats \ {c} : InFlight(d)}
      BY <1>0, <2>9 DEF SaveFinalSession, Goto
    <3>3. \A d \in Chats :
            pc'[d] = "save_final_session" => draft'[d].last_response = Answer(d)
      BY <3>2 DEF TurnInv
    <3>4. Shows(session', turn')
      BY <3>1, <3>2 DEF Shows
    \* Every other turn in flight is overtaken now, and is not answered.
    <3>5. ASSUME OvertakenDone', NEW d \in Chats, InFlight(d)' PROVE FALSE
      <4>1. d # c /\ InFlight(d)
        BY <3>2, <3>5 DEF InFlight
      <4>2. d \in overtaken'
        BY <3>2, <4>1
      <4> QED BY <3>5, <4>2 DEF OvertakenDone, InFlight
    <3> QED BY <3>3, <3>4, <3>5 DEF TurnInv, Shows
  <2> QED BY <1>2, <2>5, <2>6, <2>7, <2>8, <2>9 DEF ChatStep
<1>3. ASSUME NEW c \in Chats, ChatDies(c) PROVE TurnInv'
  <2>1. /\ pc[c] # "done" /\ pc' = [pc EXCEPT ![c] = "dead"]
        /\ UNCHANGED <<session, turn, overtaken>>
        /\ \A d \in Chats : d # c => draft'[d] = draft[d]
    BY <1>0, <1>3 DEF ChatDies, Goto, InFlight, history
  <2>2. OvertakenDone => Shows(session, turn)
    BY DEF TurnInv
  <2> QED BY <1>a, <2>1, <2>2
<1>4. ASSUME UNCHANGED <<draft, turn, overtaken>>, \A c \in Chats : pc'[c] = pc[c],
             Shows(session, turn) => Shows(session', turn)
      PROVE  TurnInv'
  <2>1. OvertakenDone' <=> OvertakenDone
    BY <1>0, <1>4 DEF OvertakenDone
  <2>2. \A c \in Chats : InFlight(c)' <=> InFlight(c)
    BY <1>4 DEF InFlight
  <2> QED BY <1>4, <2>1, <2>2 DEF TurnInv, Shows
<1>6. ASSUME NEW p \in Clients,
             \/ \E j \in Jobs : Poll(p, j) \/ AskLifecycle(p, j) \/ AskCancel(p, j)
             \/ ClientStep(p) \/ ClientDies(p)
      PROVE  TurnInv'
  <2>1. PICK label : pc' = [pc EXCEPT ![p] = label]
    BY <1>6
    DEF Poll, AskLifecycle, AskCancel, ClientStep, ClientDies, AdvanceStep,
        AdvanceWithoutCheckpoint, RecordStep, StepRaises, CheckFail, WriteFailed,
        CheckCancel, WriteCancelled, Refresh, RefreshLocked, Reread, Respond,
        Return, Goto
  <2>2. \A c \in Chats : pc'[c] = pc[c]
    BY <1>0, <2>1
  <2>3. UNCHANGED <<draft, turn, overtaken>> /\ session' \in {session, Promoted(p)}
    BY <1>6
    DEF Poll, AskLifecycle, AskCancel, ClientStep, ClientDies, AdvanceStep,
        AdvanceWithoutCheckpoint, RecordStep, StepRaises, CheckFail, WriteFailed,
        CheckCancel, WriteCancelled, Refresh, RefreshLocked, Reread, Respond,
        history
  <2> QED BY <1>4, <2>2, <2>3, PromotedShows
<1>7. CASE UNCHANGED vars \/ Resting \/ \E j \in Posts : PostJob(j)
  BY <1>4, <1>7 DEF vars, Resting, PostJob, history
<1> QED BY <1>1, <1>2, <1>3, <1>6, <1>7 DEF Next

\* However many turns of one session overlap and die, the session shows the last
\* answered one or the result that replaced it, as soon as every turn that
\* another one overtook has been answered.
THEOREM LatestTurnShown == Spec => []SessionTracksLatestTurn
<1>1. JobsInv /\ TurnInv /\ [Next]_vars => TurnInv'
  BY TurnStep
<1>2. TurnInv => SessionTracksLatestTurn
  BY DEF TurnInv, OvertakenDone, Shows, SessionTracksLatestTurn
<1> QED BY <1>1, <1>2, TurnInit, JobsInvariant, PTL DEF Spec

\* A poll promotes the result of an older turn's job only while a turn that
\* another one overtook is unanswered, whatever turns overlap and die.
THEOREM StalePromotionNeedsOvertaking == Spec => StaleOnlyIfOvertaken
<1>1. JobsInv /\ TurnInv /\ [Next]_vars => TurnInv'
  BY TurnStep
<1>2. ASSUME JobsInv, TurnInv, Next, NEW p \in Clients,
             pc[p] = "respond", pc'[p] = "idle", session' # session, OvertakenDone
      PROVE  turn = Asked(p)
  <2>0. pc \in [Chats \cup Clients -> Labels] /\ p \notin Chats
    BY <1>2, JobsAssumption DEF JobsInv, TypeOK
  <2>1. Shows(session, turn)
    BY <1>2 DEF TurnInv
  <2>2. ASSUME NEW q \in Clients, ClientStep(q) PROVE turn = Asked(p)
    <3>1. Respond(q) /\ session' = Promoted(q)
      BY <1>2, <2>2
      DEF ClientStep, AdvanceStep, AdvanceWithoutCheckpoint, RecordStep,
          StepRaises, CheckFail, WriteFailed, CheckCancel, WriteCancelled, Refresh,
          RefreshLocked, Reread, Respond
    <3>2. q = p
      BY <1>2, <2>0, <3>1 DEF Respond, Return, Goto
    <3> QED BY <1>2, <2>1, <3>1, <3>2, PromotedShows
  <2>3. ASSUME NEW c \in Chats, BeginChat(c) \/ ChatStep(c) \/ ChatDies(c)
        PROVE  FALSE
    <3>1. PICK label : pc' = [pc EXCEPT ![c] = label]
      BY <2>3
      DEF BeginChat, ChatDies, ChatStep, Goto, SaveSession, CreateJob,
          SeedAutonomy, PrepareResult, SaveLastJob, BindPendingResponse,
          StartJob, ReadSession, SaveFinalSession
    <3> QED BY <1>2, <2>0, <3>1
  <2>4. CASE \/ Resting \/ \E j \in Posts : PostJob(j)
             \/ \E q \in Clients :
                  \/ ClientDies(q)
                  \/ \E j \in Jobs :
                       Poll(q, j) \/ AskLifecycle(q, j) \/ AskCancel(q, j)
    BY <1>2, <2>4
    DEF Resting, PostJob, ClientDies, Poll, AskLifecycle, AskCancel, vars
  <2> QED BY <1>2, <2>2, <2>3, <2>4 DEF Next
<1>3. JobsInv /\ TurnInv /\ [Next]_vars =>
        [\A p \in Clients :
           pc[p] = "respond" /\ pc'[p] = "idle" /\ session' # session
           => turn = Asked(p) \/ \E c \in overtaken : pc[c] # "done"]_vars
  BY <1>2 DEF OvertakenDone
<1> QED
  BY <1>1, <1>3, TurnInit, JobsInvariant, PTL DEF Spec, StaleOnlyIfOvertaken

=============================================================================
