------------------------ MODULE BookingPromiseProofs ------------------------
(***************************************************************************)
(* What the callers of BookingGateway may rely on: a submission is in the  *)
(* committed rows, no confirmation is used up for nothing, a replay repeats*)
(* the first answer, and the interleaved threads implement the one-step    *)
(* promise of ConfirmedBooking.                                            *)
(***************************************************************************)
EXTENDS BookingGatewayProofs

-----------------------------------------------------------------------------
(* Replays, however many statements raise.                                 *)

\* What the record of a key has to say to a request.
Recorded(key, fingerprint) ==
  IF store[key].fingerprint = fingerprint THEN store[key].result
  ELSE [status |-> "idempotency_conflict", by |-> store[key].result.by]

\* A thread that has been answered has been answered from the record of its key.
Agrees(r) ==
  /\ pc[r] \in {"release", "done"}
  /\ result[r].status \notin {"error", "unavailable"}
  => store[Key(r)].state = "completed" /\ result[r] = Recorded(Key(r), Fingerprint(r))

AgreeInv == \A r \in Requests : Agrees(r)

\* A completed record is final, as CompletedStays says of each step.
CompletedKept ==
  [\A k \in Keys : store[k].state = "completed" => store'[k] = store[k]]_store

\* A thread that a step leaves alone goes on agreeing with its record.
LEMMA AgreesStill ==
  ASSUME TypeOK, CompletedKept, NEW r \in Requests, Agrees(r), req' = req,
         pc'[r] = pc[r], result'[r] = result[r]
  PROVE  Agrees(r)'
<1>1. Key(r)' = Key(r) /\ Key(r) \in Keys /\ Fingerprint(r)' = Fingerprint(r)
  BY DEF Key, Fingerprint, TypeOK
<1>2. store[Key(r)].state = "completed" => store'[Key(r)] = store[Key(r)]
  BY <1>1 DEF CompletedKept
<1> QED BY <1>1, <1>2 DEF Agrees, Recorded

\* Every step is a step of at most one thread.
LEMMA StepIsOfOne ==
  ASSUME TypeOK, [Next]_vars
  PROVE  /\ req' = req
         /\ \/ UNCHANGED <<pc, store, target, db, saved, undone, result>>
            \/ \E r \in Requests :
                 /\ Step(r) \/ Fault(r)
                 /\ \A s \in Requests : s # r => pc'[s] = pc[s] /\ result'[s] = result[s]
<1> USE DEF TypeOK, At, Goto, Decide, storeVars, dbVars
<1>1. ASSUME NEW r \in Requests, Step(r) \/ Fault(r)
      PROVE  /\ req' = req
             /\ \A s \in Requests : s # r => pc'[s] = pc[s] /\ result'[s] = result[s]
  BY <1>1
  DEF Step, Authorize, ClaimRecord, ReplayRecord, ConflictRecord, AwaitRecord,
      ClaimTarget, AwaitTarget, ReadConfirmation, ReadQuote, UpdateQuote,
      UpdateConfirmation, Commit, CompleteRecord, Rollback, AbandonRecord,
      ReleaseTarget, Fault
<1>2. CASE (\E t \in Tokens : Expire(t)) \/ Terminating \/ UNCHANGED vars
  BY <1>2 DEF Expire, Terminating, vars
<1> QED BY <1>1, <1>2 DEF Next

LEMMA AgreeStep ==
  ASSUME TypeOK, OneExecutionPerKey, AgreeInv, [Next]_vars, CompletedKept
  PROVE  AgreeInv'
<1> USE DEF At, Goto, Decide, storeVars, dbVars
<1>a. /\ pc \in [Requests -> Labels] /\ result \in [Requests -> Results]
      /\ req \in [Requests -> [key : Keys, token : Tokens, actor : Actors]]
      /\ store \in [Keys -> Records]
  BY DEF TypeOK
<1>1. CASE UNCHANGED <<pc, store, result>>
  BY <1>1, StepIsOfOne DEF AgreeInv, Agrees, Recorded, Key, Fingerprint
<1>2. ASSUME NEW r \in Requests, Step(r) \/ Fault(r),
             \A s \in Requests : s # r => pc'[s] = pc[s] /\ result'[s] = result[s]
      PROVE  AgreeInv'
  <2>1. req' = req /\ Key(r)' = Key(r) /\ Fingerprint(r)' = Fingerprint(r) /\ Key(r) \in Keys
    BY <1>a, StepIsOfOne DEF Key, Fingerprint
  <2>2. \A s \in Requests : s # r => Agrees(s)'
    BY <1>2, <2>1, AgreesStill DEF AgreeInv
  <2>3. Agrees(r)'
    <3>1. CASE Authorize(r)
      BY <1>a, <3>1 DEF Authorize, Agrees, Outcome
    <3>2. CASE ReplayRecord(r)
      BY <1>a, <2>1, <3>2 DEF ReplayRecord, Agrees, Recorded
    <3>3. CASE ConflictRecord(r)
      BY <1>a, <2>1, <3>3 DEF ConflictRecord, Agrees, Recorded
    <3>4. CASE CompleteRecord(r)
      <4>1. Completable(r)
        BY <3>4 DEF CompleteRecord, OneExecutionPerKey, Executing, Labels, Completable
      <4>2. store'[Key(r)] = Completed(r) /\ result' = result
        BY <1>a, <2>1, <3>4, <4>1 DEF CompleteRecord
      <4>3. /\ store'[Key(r)].state = "completed" /\ store'[Key(r)].result = result'[r]
            /\ store'[Key(r)].fingerprint = Fingerprint(r)
        BY <4>2 DEF Completed
      <4> QED BY <2>1, <4>3 DEF Agrees, Recorded
    <3>5. CASE AbandonRecord(r)
      BY <1>a, <3>5 DEF AbandonRecord, Agrees, Outcome
    <3>6. CASE ReleaseTarget(r)
      BY <1>a, <2>1, <3>6 DEF ReleaseTarget, AgreeInv, Agrees, Recorded
    <3>7. CASE \/ ClaimRecord(r) \/ ClaimTarget(r) \/ ReadConfirmation(r) \/ ReadQuote(r)
               \/ UpdateQuote(r) \/ UpdateConfirmation(r) \/ Commit(r) \/ Rollback(r) \/ Fault(r)
      <4>1. pc'[r] \notin {"release", "done"}
        BY <1>a, <3>7 DEF ClaimRecord, ClaimTarget, ReadConfirmation, ReadQuote,
          UpdateQuote, UpdateConfirmation, Commit, Rollback, Fault
      <4> QED BY <4>1 DEF Agrees
    <3>8. CASE AwaitRecord(r) \/ AwaitTarget(r)
      <4>1. pc' = pc /\ result' = result
        BY <3>8 DEF AwaitRecord, AwaitTarget
      <4> QED BY <2>1, <4>1, AgreesStill DEF AgreeInv
    <3> QED BY <1>2, <3>1, <3>2, <3>3, <3>4, <3>5, <3>6, <3>7, <3>8 DEF Step
  <2> QED BY <2>2, <2>3 DEF AgreeInv
<1> QED BY <1>1, <1>2, StepIsOfOne

\* Every caller with one key and one request gets the same answer, audit stamp
\* included, whoever executed it and whatever failed in between.
THEOREM ReplaysAgree == Spec => []ReplayIsSame
<1>1. Init => AgreeInv
  BY DEF Init, AgreeInv, Agrees
<1>2. TypeOK /\ OneExecutionPerKey /\ AgreeInv /\ [Next]_vars /\ CompletedKept => AgreeInv'
  BY AgreeStep
<1>3. AgreeInv => ReplayIsSame
  <2> SUFFICES ASSUME AgreeInv, NEW r \in Requests, NEW s \in Requests,
                      Answered(r), Answered(s), Key(r) = Key(s), Fingerprint(r) = Fingerprint(s)
               PROVE  result[r] = result[s]
    BY DEF ReplayIsSame
  <2>1. \A x \in Requests :
          Answered(x) => result[x] = Recorded(Key(x), Fingerprint(x))
    BY DEF AgreeInv, Agrees, Answered
  <2> QED BY <2>1
<1> QED
  BY <1>1, <1>2, <1>3, TypeCorrect, KeyIsOwned, CompletedStays, PTL
  DEF Spec, CompletedIsFinal, CompletedKept

-----------------------------------------------------------------------------
(* Submissions and the committed rows, however many statements raise.  What*)
(* a thread knows of its rows between the check of the quote and the commit*)
(* holds until another thread rolls back, and what is committed stays.     *)

QuoteRow(r) == db.quote[QuoteOf[Token(r)]]
ConfirmationRow(r) == db.confirmation[Token(r)]

\* The seed rows are committed, and lost, all together.
SeedsTogether ==
  /\ saved.brokers => db.brokers
  /\ saved.brokers => \A t \in Tokens : db.confirmation[t] # "absent"
                                          => saved.confirmation[t] # "absent"
  /\ ~db.brokers => \A q \in Quotes : db.quote[q] = "absent"
  /\ ~saved.brokers => \A q \in Quotes : saved.quote[q] = "absent"

\* The connection sees what is committed.
CommittedSeen ==
  /\ \A t \in Tokens : saved.confirmation[t] = "consumed" => db.confirmation[t] = "consumed"
  /\ \A q \in Quotes : saved.quote[q] = "booked" => db.quote[q] = "booked"

\* What a thread that no rollback ran into knows of its rows.
AsChecked(r) ==
  /\ pc[r] \in {"read_quote", "update_quote", "update_confirmation"} /\ db.brokers
       => ConfirmationRow(r) # "absent"
  /\ r \notin undone /\ pc[r] = "update_quote" => QuoteRow(r) # "absent"
  /\ r \notin undone /\ pc[r] \in {"update_confirmation", "commit"} => QuoteRow(r) = "booked"
  /\ r \notin undone /\ pc[r] = "commit" => ConfirmationRow(r) = "consumed"

InSaved(t) ==
  /\ saved.confirmation[t] = "consumed"
  /\ saved.quote[QuoteOf[t]] = "booked"

ToldSaved(r) == Submitted(r) /\ result[r].by \notin undone => InSaved(Token(r))

RecordSaved(k) ==
  /\ store[k].state = "completed"
  /\ store[k].result.status = "submitted"
  /\ store[k].result.by \notin undone
  => InSaved(store[k].fingerprint[1])

SavedInv ==
  /\ SeedsTogether
  /\ CommittedSeen
  /\ \A r \in Requests : AsChecked(r) /\ ToldSaved(r)
  /\ \A k \in Keys : RecordSaved(k)

\* An UPDATE adds and removes no row, and goes forward with the one it touches.
RowsKept ==
  /\ db'.brokers = db.brokers
  /\ \A t \in Tokens : /\ db'.confirmation[t] = "absent" <=> db.confirmation[t] = "absent"
                       /\ db.confirmation[t] = "consumed" => db'.confirmation[t] = "consumed"
  /\ \A q \in Quotes : /\ db'.quote[q] = "absent" <=> db.quote[q] = "absent"
                       /\ db.quote[q] = "booked" => db'.quote[q] = "booked"

\* Nothing that is committed is taken back.
SavedKept == \A t \in Tokens : InSaved(t) => InSaved(t)'

LEMMA RowsStayTogether ==
  ASSUME SeedsTogether, CommittedSeen, RowsKept, saved' = saved
  PROVE  SeedsTogether' /\ CommittedSeen'
BY DEF SeedsTogether, CommittedSeen, RowsKept

\* A step of r that writes no record and rolls nothing back keeps SavedInv.
LEMMA SavedByOthers ==
  ASSUME TypeOK, SavedInv, req' = req, undone' = undone, store' = store,
         RowsKept, SavedKept, SeedsTogether', CommittedSeen', NEW r \in Requests,
         \A s \in Requests : s # r => pc'[s] = pc[s] /\ result'[s] = result[s],
         AsChecked(r)', ToldSaved(r)'
  PROVE  SavedInv'
<1>1. \A s \in Requests : /\ Token(s)' = Token(s) /\ Token(s) \in Tokens
                          /\ QuoteOf[Token(s)] \in Quotes
  BY ConstantsAssumption DEF Token, TypeOK
<1>2. ASSUME NEW s \in Requests, s # r PROVE AsChecked(s)'
  <2>1. AsChecked(s) /\ pc'[s] = pc[s]
    BY <1>2 DEF SavedInv
  <2> QED BY <1>1, <2>1 DEF AsChecked, QuoteRow, ConfirmationRow, RowsKept
<1>3. ASSUME NEW s \in Requests, s # r PROVE ToldSaved(s)'
  BY <1>1, <1>3 DEF SavedInv, ToldSaved, Submitted, SavedKept
<1>4. ASSUME NEW k \in Keys PROVE RecordSaved(k)'
  <2>1. store[k].state = "completed" => store[k].fingerprint[1] \in Tokens
    BY DEF TypeOK, Records, NoRecord, Fingerprints
  <2> QED BY <2>1 DEF SavedInv, RecordSaved, SavedKept
<1> QED BY <1>2, <1>3, <1>4 DEF SavedInv

\* The step that rolls back what the connection holds.
LEMMA SavedThroughRollback ==
  ASSUME TypeOK, SavedInv, req' = req, NEW r \in Requests, Rollback(r)
  PROVE  SavedInv'
<1> USE DEF At, Goto, storeVars
<1>1. /\ pc[r] = "rollback" /\ pc'[r] = "abandon"
      /\ \A s \in Requests : s # r => pc'[s] = pc[s]
      /\ UNCHANGED <<store, saved, result>> /\ undone \subseteq undone'
  BY DEF Rollback, TypeOK
<1>2. \A s \in Requests : Token(s)' = Token(s) /\ Token(s) \in Tokens
  BY DEF Token, TypeOK
<1>3. \A s \in Requests : ToldSaved(s)'
  BY <1>1, <1>2 DEF SavedInv, ToldSaved, Submitted, InSaved
<1>4. \A k \in Keys : RecordSaved(k)'
  BY <1>1 DEF SavedInv, RecordSaved, InSaved
<1>5. CASE inTransaction
  <2>1. db' = saved /\ \A s \in Requests : pc[s] \in Booking => s \in undone'
    BY <1>5 DEF Rollback
  <2>2. SeedsTogether' /\ CommittedSeen'
    BY <1>1, <2>1 DEF SavedInv, SeedsTogether, CommittedSeen
  <2>3. ASSUME NEW s \in Requests, s # r PROVE AsChecked(s)'
    <3>1. AsChecked(s) /\ pc'[s] = pc[s]
      BY <1>1, <2>3 DEF SavedInv
    <3> QED
      BY <1>2, <2>1, <3>1 DEF SavedInv, SeedsTogether, AsChecked, ConfirmationRow, Booking
  <2>4. AsChecked(r)'
    BY <1>1 DEF AsChecked
  <2> QED BY <1>3, <1>4, <2>2, <2>3, <2>4 DEF SavedInv
<1>6. CASE ~inTransaction
  <2>1. UNCHANGED <<db, undone>>
    BY <1>6 DEF Rollback
  <2>2. SeedsTogether' /\ CommittedSeen'
    BY <1>1, <2>1 DEF SavedInv, SeedsTogether, CommittedSeen
  <2>3. ASSUME NEW s \in Requests, s # r PROVE AsChecked(s)'
    <3>1. AsChecked(s) /\ pc'[s] = pc[s]
      BY <1>1, <2>3 DEF SavedInv
    <3> QED BY <1>2, <2>1, <3>1 DEF AsChecked, QuoteRow, ConfirmationRow
  <2>4. AsChecked(r)'
    BY <1>1 DEF AsChecked
  <2> QED BY <1>3, <1>4, <2>2, <2>3, <2>4 DEF SavedInv
<1> QED BY <1>5, <1>6

LEMMA SavedStep ==
  ASSUME TypeOK, OneExecutionPerKey, SavedInv, [Next]_vars
  PROVE  SavedInv'
<1> USE DEF At, Goto, Decide, storeVars, dbVars
<1>a. /\ pc \in [Requests -> Labels] /\ result \in [Requests -> Results]
      /\ store \in [Keys -> Records] /\ db \in Rows /\ undone \subseteq Requests
      /\ req' = req
  BY StepIsOfOne DEF TypeOK
<1>b. \A r \in Requests : /\ AsChecked(r) /\ ToldSaved(r)
                          /\ Token(r)' = Token(r) /\ Token(r) \in Tokens
                          /\ Key(r) \in Keys /\ QuoteOf[Token(r)] \in Quotes
  BY <1>a, ConstantsAssumption DEF SavedInv, Token, Key, TypeOK
<1>c. /\ \A k \in Keys : RecordSaved(k)
      /\ SeedsTogether /\ CommittedSeen
  BY DEF SavedInv
<1>d. db' = db => RowsKept
  BY DEF RowsKept
<1>e. saved' = saved => SavedKept
  BY DEF SavedKept, InSaved
<1>1. CASE UNCHANGED <<pc, store, target, db, saved, undone, result>>
  BY <1>1, <1>a
  DEF SavedInv, SeedsTogether, CommittedSeen, AsChecked, QuoteRow, ConfirmationRow,
      ToldSaved, RecordSaved, InSaved, Submitted, Token
<1>2. ASSUME NEW r \in Requests, Step(r) \/ Fault(r),
             \A s \in Requests : s # r => pc'[s] = pc[s] /\ result'[s] = result[s]
      PROVE  SavedInv'
  <2>1. ASSUME UNCHANGED <<db, saved, undone, store>>, ToldSaved(r)',
               pc'[r] \notin {"read_quote", "update_quote", "update_confirmation", "commit"}
        PROVE  SavedInv'
    <3>1. AsChecked(r)' /\ SeedsTogether' /\ CommittedSeen'
      BY <1>c, <2>1 DEF AsChecked, SeedsTogether, CommittedSeen
    <3> QED BY <1>2, <1>a, <1>d, <1>e, <2>1, <3>1, SavedByOthers
  <2>2. ASSUME UNCHANGED <<saved, undone>>, Submitted(r)' => Submitted(r) /\ result'[r] = result[r]
        PROVE  ToldSaved(r)'
    BY <1>b, <2>2 DEF ToldSaved, InSaved
  <2>3. CASE \/ Authorize(r) \/ ConflictRecord(r) \/ AwaitRecord(r)
             \/ ClaimTarget(r) \/ AwaitTarget(r) \/ ReleaseTarget(r) \/ Fault(r)
    <3>1. UNCHANGED <<db, saved, undone, store>>
      BY <2>3 DEF Authorize, ConflictRecord, AwaitRecord, ClaimTarget,
        AwaitTarget, ReleaseTarget, Fault
    <3>2. pc'[r] \notin {"read_quote", "update_quote", "update_confirmation", "commit"}
      BY <1>a, <2>3 DEF Authorize, ConflictRecord, AwaitRecord, ClaimTarget,
        AwaitTarget, ReleaseTarget, Fault
    <3>3. Submitted(r)' => Submitted(r) /\ result'[r] = result[r]
      BY <1>a, <2>3 DEF Authorize, ConflictRecord, AwaitRecord, ClaimTarget,
        AwaitTarget, ReleaseTarget, Fault, Submitted, Outcome
    <3> QED BY <2>1, <2>2, <3>1, <3>2, <3>3
  <2>4. CASE ReplayRecord(r)
    <3>1. /\ store[Key(r)].state = "completed" /\ store[Key(r)].fingerprint[1] = Token(r)
          /\ UNCHANGED <<db, saved, undone, store>> /\ pc'[r] = "done"
          /\ result'[r] = store[Key(r)].result
      BY <1>a, <2>4 DEF ReplayRecord, Fingerprint, Token
    <3>2. ToldSaved(r)'
      BY <1>b, <1>c, <3>1 DEF ToldSaved, RecordSaved, Submitted, InSaved
    <3> QED BY <2>1, <3>1, <3>2
  <2>5. ASSUME NEW k \in Keys, \A x \in Keys : x # k => store'[x] = store[x],
               UNCHANGED <<db, saved, undone>>,
               pc'[r] \notin {"read_quote", "update_quote", "update_confirmation", "commit"},
               Submitted(r)' => Submitted(r) /\ result'[r] = result[r], RecordSaved(k)'
        PROVE  SavedInv'
    <3>1. AsChecked(r)' /\ SeedsTogether' /\ CommittedSeen' /\ ToldSaved(r)'
      BY <1>c, <2>2, <2>5 DEF AsChecked, SeedsTogether, CommittedSeen
    <3>2. ASSUME NEW s \in Requests, s # r PROVE AsChecked(s)' /\ ToldSaved(s)'
      BY <1>2, <1>b, <2>5, <3>2
      DEF AsChecked, QuoteRow, ConfirmationRow, ToldSaved, Submitted, InSaved
    <3>3. ASSUME NEW x \in Keys, x # k PROVE RecordSaved(x)'
      <4>1. store'[x] = store[x]
        BY <2>5, <3>3
      <4> QED BY <1>c, <2>5, <4>1 DEF RecordSaved, InSaved
    <3> QED BY <2>5, <3>1, <3>2, <3>3 DEF SavedInv
  <2>6. CASE ClaimRecord(r)
    <3>1. /\ store' = [store EXCEPT ![Key(r)] = InProgress(r)] /\ pc'[r] = "claim_target"
          /\ UNCHANGED <<db, saved, undone, result>>
      BY <1>a, <2>6 DEF ClaimRecord
    <3>0. PICK k \in Keys : k = Key(r)
      BY <1>b
    <3>2. RecordSaved(k)'
      BY <1>a, <3>0, <3>1 DEF RecordSaved, InProgress
    <3>3. Submitted(r)' => Submitted(r) /\ result'[r] = result[r]
      BY <3>1 DEF Submitted
    <3>4. \A x \in Keys : x # k => store'[x] = store[x]
      BY <1>a, <3>0, <3>1
    <3> QED BY <2>5, <3>1, <3>2, <3>3, <3>4
  <2>7. CASE CompleteRecord(r)
    <3>1. Completable(r)
      BY <2>7 DEF CompleteRecord, OneExecutionPerKey, Executing, Labels, Completable
    <3>2. /\ store' = [store EXCEPT ![Key(r)] = Completed(r)] /\ pc'[r] = "release"
          /\ UNCHANGED <<db, saved, undone, result>>
      BY <1>a, <2>7, <3>1 DEF CompleteRecord
    <3>3. /\ store'[Key(r)].fingerprint[1] = Token(r)
          /\ store'[Key(r)].result = result[r]
      BY <1>a, <1>b, <3>2 DEF Completed, Fingerprint, Token
    <3>0. PICK k \in Keys : k = Key(r)
      BY <1>b
    <3>4. RecordSaved(k)'
      BY <1>b, <3>0, <3>2, <3>3 DEF RecordSaved, ToldSaved, Submitted, InSaved
    <3>5. Submitted(r)' => Submitted(r) /\ result'[r] = result[r]
      BY <3>2 DEF Submitted
    <3>6. \A x \in Keys : x # k => store'[x] = store[x]
      BY <1>a, <3>0, <3>2
    <3> QED BY <2>5, <3>2, <3>4, <3>5, <3>6
  <2>8. CASE AbandonRecord(r)
    <3>1. store[Key(r)] = InProgress(r)
      BY <2>8 DEF AbandonRecord, OneExecutionPerKey, Executing, Labels
    <3>2. /\ store' = [store EXCEPT ![Key(r)] = NoRecord] /\ pc'[r] = "release"
          /\ UNCHANGED <<db, saved, undone>> /\ result'[r] = Outcome(r, "error")
      BY <1>a, <2>8, <3>1 DEF AbandonRecord
    <3>0. PICK k \in Keys : k = Key(r)
      BY <1>b
    <3>3. RecordSaved(k)'
      BY <1>a, <3>0, <3>2 DEF RecordSaved, NoRecord
    <3>4. ~Submitted(r)'
      BY <3>2 DEF Submitted, Outcome
    <3>5. \A x \in Keys : x # k => store'[x] = store[x]
      BY <1>a, <3>0, <3>2
    <3> QED BY <2>5, <3>2, <3>3, <3>4, <3>5
  <2>9. CASE ReadConfirmation(r)
    <3>1. CASE db.confirmation[Token(r)] = "absent"
      <4>1. /\ UNCHANGED <<db, saved, undone, store>> /\ pc'[r] = "complete"
            /\ result'[r] = Outcome(r, "unsupported_or_missing_confirmation")
        BY <1>a, <2>9, <3>1 DEF ReadConfirmation
      <4>2. ToldSaved(r)'
        BY <4>1 DEF ToldSaved, Submitted, Outcome
      <4> QED BY <2>1, <4>1, <4>2
    <3>2. CASE db.confirmation[Token(r)] # "absent"
      <4>1. /\ UNCHANGED <<db, saved, undone, store, result>> /\ pc'[r] = "read_quote"
        BY <1>a, <2>9, <3>2 DEF ReadConfirmation
      <4>2. AsChecked(r)' /\ ToldSaved(r)'
        BY <1>b, <2>2, <3>2, <4>1 DEF AsChecked, ConfirmationRow, Submitted
      <4>3. SeedsTogether' /\ CommittedSeen'
        BY <1>c, <1>d, <4>1, RowsStayTogether
      <4> QED BY <1>2, <1>a, <1>d, <1>e, <4>1, <4>2, <4>3, SavedByOthers
    <3> QED BY <3>1, <3>2
  <2>10. CASE ReadQuote(r)
    <3>1. CASE ~StillValid(r)
      <4>1. /\ UNCHANGED <<db, saved, undone, store>> /\ pc'[r] = "complete"
            /\ result'[r] = Outcome(r, "stale_state")
        BY <1>a, <2>10, <3>1 DEF ReadQuote
      <4>2. ToldSaved(r)'
        BY <4>1 DEF ToldSaved, Submitted, Outcome
      <4> QED BY <2>1, <4>1, <4>2
    <3>2. CASE StillValid(r)
      <4>1. /\ UNCHANGED <<db, saved, undone, store, result>>
            /\ pc[r] = "read_quote" /\ pc'[r] = "update_quote"
            /\ QuoteRow(r) # "absent"
        BY <1>a, <2>10, <3>2 DEF ReadQuote, StillValid, QuoteRow
      <4>2. AsChecked(r)' /\ ToldSaved(r)'
        BY <1>b, <2>2, <4>1 DEF AsChecked, ConfirmationRow, QuoteRow, Submitted
      <4>3. SeedsTogether' /\ CommittedSeen'
        BY <1>c, <1>d, <4>1, RowsStayTogether
      <4> QED BY <1>2, <1>a, <1>d, <1>e, <4>1, <4>2, <4>3, SavedByOthers
    <3> QED BY <3>1, <3>2
  <2>11. CASE UpdateQuote(r)
    <3> DEFINE q == QuoteOf[Token(r)]
    <3>1. /\ pc[r] = "update_quote" /\ pc'[r] = "update_confirmation"
          /\ UNCHANGED <<saved, undone, store, result>>
          /\ db'.quote = [db.quote EXCEPT ![q] = IF @ = "absent" THEN @ ELSE "booked"]
          /\ db'.confirmation = db.confirmation /\ db'.brokers = db.brokers
      BY <1>a, <2>11 DEF UpdateQuote, Rows
    <3>2. db.quote \in [Quotes -> {"absent", "eligible_for_booking", "booked"}]
      BY <1>a DEF Rows
    <3>3. RowsKept
      BY <1>b, <3>1, <3>2 DEF RowsKept
    <3>4. r \notin undone => db'.quote[q] = "booked"
      BY <1>b, <3>1, <3>2 DEF AsChecked, QuoteRow
    <3>5. AsChecked(r)' /\ ToldSaved(r)'
      BY <1>b, <2>2, <3>1, <3>4 DEF AsChecked, QuoteRow, ConfirmationRow, Submitted
    <3>6. SeedsTogether' /\ CommittedSeen'
      BY <1>c, <3>1, <3>3, RowsStayTogether
    <3> QED BY <1>2, <1>a, <1>e, <3>1, <3>3, <3>5, <3>6, SavedByOthers
  <2>12. CASE UpdateConfirmation(r)
    <3>1. /\ pc[r] = "update_confirmation" /\ pc'[r] = "commit"
          /\ UNCHANGED <<saved, undone, store, result>>
          /\ db'.confirmation = [db.confirmation EXCEPT ![Token(r)] =
                                   IF @ = "absent" THEN @ ELSE "consumed"]
          /\ db'.quote = db.quote /\ db'.brokers = db.brokers
      BY <1>a, <2>12 DEF UpdateConfirmation, Rows
    <3>2. db.confirmation \in [Tokens -> {"absent", "pending", "consumed"}]
      BY <1>a DEF Rows
    <3>3. RowsKept
      BY <1>b, <3>1, <3>2 DEF RowsKept
    <3>4. r \notin undone => QuoteRow(r) = "booked" /\ ConfirmationRow(r) # "absent"
      BY <1>b, <1>c, <3>1 DEF AsChecked, QuoteRow, ConfirmationRow, SeedsTogether
    <3>5. r \notin undone => db'.confirmation[Token(r)] = "consumed"
      BY <1>b, <3>1, <3>2, <3>4 DEF ConfirmationRow
    <3>6. AsChecked(r)' /\ ToldSaved(r)'
      BY <1>b, <2>2, <3>1, <3>4, <3>5 DEF AsChecked, QuoteRow, ConfirmationRow, Submitted
    <3>7. SeedsTogether' /\ CommittedSeen'
      BY <1>c, <3>1, <3>3, RowsStayTogether
    <3> QED BY <1>2, <1>a, <1>e, <3>1, <3>3, <3>6, <3>7, SavedByOthers
  <2>13. CASE Commit(r)
    <3>1. /\ pc[r] = "commit" /\ pc'[r] = "complete" /\ saved' = db
          /\ UNCHANGED <<db, undone, store>> /\ result'[r].by = r
      BY <1>a, <2>13 DEF Commit, Outcome
    <3>2. SavedKept /\ SeedsTogether' /\ CommittedSeen'
      BY <1>c, <3>1, ConstantsAssumption
      DEF SavedKept, InSaved, SeedsTogether, CommittedSeen
    <3>3. AsChecked(r)' /\ ToldSaved(r)'
      BY <1>b, <3>1 DEF AsChecked, ToldSaved, InSaved, QuoteRow, ConfirmationRow
    <3> QED BY <1>2, <1>a, <1>d, <3>1, <3>2, <3>3, SavedByOthers
  <2>14. CASE Rollback(r)
    BY <1>a, <2>14, SavedThroughRollback
  <2> QED
    BY <1>2, <2>3, <2>4, <2>6, <2>7, <2>8, <2>9, <2>10, <2>11, <2>12, <2>13, <2>14
    DEF Step
<1> QED BY <1>1, <1>2, StepIsOfOne

\* However many statements raise, for any number of requests, keys, tokens and
\* quotes: a booking that a caller is told of is in the committed rows, and
\* stays there, unless another thread rolled back between the execution's check
\* of its quote and its commit.
THEOREM SubmittedIsSaved == Spec => []SubmittedIsDurable
<1>1. Init => SavedInv
  <2> SUFFICES ASSUME Init PROVE SavedInv
    OBVIOUS
  <2>1. SeedsTogether /\ CommittedSeen
    <3>1. db.brokers /\ (saved = NoRows \/ saved = db)
      BY DEF Init
    <3>2. CASE saved = NoRows
      BY <3>1, <3>2 DEF SeedsTogether, CommittedSeen, NoRows
    <3>3. CASE saved = db
      BY <3>1, <3>3 DEF SeedsTogether, CommittedSeen
    <3> QED BY <3>1, <3>2, <3>3
  <2>2. \A r \in Requests : AsChecked(r) /\ ToldSaved(r)
    BY DEF Init, AsChecked, ToldSaved, Submitted, Outcome
  <2>3. \A k \in Keys : RecordSaved(k)
    BY DEF Init, RecordSaved, NoRecord
  <2> QED BY <2>1, <2>2, <2>3 DEF SavedInv
<1>2. TypeOK /\ OneExecutionPerKey /\ SavedInv /\ [Next]_vars => SavedInv'
  BY SavedStep
<1>3. SavedInv => SubmittedIsDurable
  BY DEF SavedInv, ToldSaved, InSaved, SubmittedIsDurable
<1> QED BY <1>1, <1>2, <1>3, TypeCorrect, KeyIsOwned, PTL DEF Spec

-----------------------------------------------------------------------------
(* Consumed confirmations, when no statement raises.                       *)

\* The thread that a consumed confirmation row belongs to.
Consumer(r, t) == Token(r) = t /\ (pc[r] = "commit" \/ Submitted(r))

ConsumedInv ==
  \A t \in Tokens :
    "consumed" \in {db.confirmation[t], saved.confirmation[t]}
      => \E r \in Requests : Consumer(r, t)

\* A thread that is about to submit does so, and then stays submitted.
LEMMA ConsumerStays ==
  ASSUME MaxFaults = 0, TypeOK, SubmissionInv, [Next]_vars,
         NEW w \in Requests, NEW t \in Tokens, Consumer(w, t)
  PROVE  Consumer(w, t)'
<1> USE DEF At, Goto, Decide
<1>a. pc \in [Requests -> Labels] /\ result \in [Requests -> Results] /\ faults = 0
  BY DEF TypeOK, SubmissionInv, NothingRaised
<1>b. Token(w)' = Token(w)
  BY StepIsOfOne DEF Token
<1>1. CASE pc'[w] = pc[w] /\ result'[w] = result[w]
  BY <1>1, <1>b DEF Consumer, Submitted
<1>2. CASE Step(w) \/ Fault(w)
  <2>1. CASE pc[w] = "commit"
    <3>1. Commit(w)
      BY <1>2, <1>a, <2>1
      DEF Step, Authorize, ClaimRecord, ReplayRecord, ConflictRecord, AwaitRecord,
          ClaimTarget, AwaitTarget, ReadConfirmation, ReadQuote, UpdateQuote,
          UpdateConfirmation, CompleteRecord, Rollback, AbandonRecord,
          ReleaseTarget, Fault
    <3> QED BY <1>a, <1>b, <3>1 DEF Commit, Consumer, Submitted, Outcome
  <2>2. CASE pc[w] # "commit"
    <3>1. Submitted(w) /\ ~Undecided(w) /\ pc[w] \notin {"rollback", "abandon"}
      BY <2>2 DEF Consumer, Submitted, SubmissionInv, NothingRaised
    <3>2. CompleteRecord(w) \/ ReleaseTarget(w)
      BY <1>2, <1>a, <3>1
      DEF Step, Authorize, ClaimRecord, ReplayRecord, ConflictRecord, AwaitRecord,
          ClaimTarget, AwaitTarget, ReadConfirmation, ReadQuote, UpdateQuote,
          UpdateConfirmation, Commit, Rollback, AbandonRecord, Fault, Undecided
    <3>3. result' = result
      BY <3>2 DEF CompleteRecord, ReleaseTarget
    <3> QED BY <1>b, <3>1, <3>3 DEF Consumer, Submitted
  <2> QED BY <2>1, <2>2
<1> QED BY <1>1, <1>2, StepIsOfOne

LEMMA ConsumedStep ==
  ASSUME MaxFaults = 0, TypeOK, SubmissionInv, ConsumedInv, [Next]_vars
  PROVE  ConsumedInv'
<1> USE DEF At, Goto, Decide, storeVars, dbVars
<1>a. pc \in [Requests -> Labels] /\ db \in Rows /\ \A r \in Requests : Token(r) \in Tokens
  BY DEF TypeOK, Token
<1>1. SUFFICES ASSUME NEW t \in Tokens,
                      "consumed" \in {db'.confirmation[t], saved'.confirmation[t]}
               PROVE  \E r \in Requests : Consumer(r, t)'
  BY DEF ConsumedInv
<1>2. CASE "consumed" \in {db.confirmation[t], saved.confirmation[t]}
  BY <1>2, ConsumerStays DEF ConsumedInv
<1>3. CASE "consumed" \notin {db.confirmation[t], saved.confirmation[t]}
  <2>1. PICK r \in Requests : Step(r) \/ Fault(r)
    BY <1>1, <1>3, StepIsOfOne DEF TypeOK
  <2>2. UpdateConfirmation(r)
    <3>1. CASE UpdateQuote(r)
      <4>1. db'.confirmation = db.confirmation /\ saved' = saved
        BY <1>a, <3>1 DEF UpdateQuote, Rows
      <4> QED BY <1>1, <1>3, <4>1
    <3>2. CASE Commit(r)
      BY <1>1, <1>3, <3>2 DEF Commit
    <3>3. ~Rollback(r)
      BY DEF Rollback, SubmissionInv, NothingRaised
    <3>4. CASE UNCHANGED <<db, saved>>
      BY <1>1, <1>3, <3>4
    <3> QED
      BY <2>1, <3>1, <3>2, <3>3, <3>4
      DEF Step, Authorize, ClaimRecord, ReplayRecord, ConflictRecord, AwaitRecord,
          ClaimTarget, AwaitTarget, ReadConfirmation, ReadQuote, CompleteRecord,
          AbandonRecord, ReleaseTarget, Fault
  <2>3. t = Token(r)
    <3>1. \A u \in Tokens : u # Token(r) => db'.confirmation[u] = db.confirmation[u]
      BY <1>a, <2>2 DEF UpdateConfirmation, Rows
    <3>2. saved' = saved
      BY <2>2 DEF UpdateConfirmation
    <3> QED BY <1>1, <1>3, <3>1, <3>2
  <2>4. Token(r)' = Token(r) /\ pc'[r] = "commit"
    BY <1>a, <2>2 DEF UpdateConfirmation, Token
  <2> QED BY <2>3, <2>4 DEF Consumer
<1> QED BY <1>2, <1>3

\* When no statement raises, a confirmation that is used up in the committed
\* rows has been submitted, or is about to be, by a request for its token.
THEOREM ConsumedIsSubmitted ==
  ASSUME MaxFaults = 0
  PROVE  Spec => []ConsumedMeansSubmitted
<1>1. Init => ConsumedInv
  <2> SUFFICES ASSUME Init PROVE ConsumedInv
    OBVIOUS
  <2>1. \A t \in Tokens : db.confirmation[t] # "consumed" /\ NoRows.confirmation[t] # "consumed"
    BY DEF Init, NoRows
  <2> QED BY <2>1 DEF Init, ConsumedInv
<1>2. TypeOK /\ SubmissionInv /\ ConsumedInv /\ [Next]_vars => ConsumedInv'
  BY ConsumedStep
<1>3. ConsumedInv => ConsumedMeansSubmitted
  BY DEF ConsumedInv, ConsumedMeansSubmitted, Consumer
<1> QED BY <1>1, <1>2, <1>3, SubmissionAlways, PTL DEF Spec

-----------------------------------------------------------------------------
(* The refinement, when no statement raises.  Ledger, Booked and Answers   *)
(* are what the instance Promise puts for the variables of ConfirmedBooking*)

Ledger == [k \in Keys |-> LedgerEntry(k)]
Booked == {Token(r) : r \in {s \in Requests : Submitted(s)}}
Answers == [r \in Requests |-> IF pc[r] = "done" THEN result[r] ELSE Outcome(r, "none")]

EntryOf(fingerprint, outcome) ==
  [entered |-> TRUE, fingerprint |-> fingerprint, result |-> outcome]

\* What is entered for a key: its record, or what the one thread that has
\* decided under it is about to record, or nothing.
LedgerReads ==
  \A k \in Keys :
    /\ store[k].state = "completed"
         => LedgerEntry(k) = EntryOf(store[k].fingerprint, store[k].result)
    /\ store[k].state # "completed"
         => /\ \A r \in Requests : Decided(r) /\ Key(r) = k
                  => LedgerEntry(k) = EntryOf(Fingerprint(r), result[r])
            /\ (\A r \in Requests : ~(Decided(r) /\ Key(r) = k))
                  => LedgerEntry(k) = [entered |-> FALSE]

LEMMA LedgerCanBeRead == OneExecutionPerKey => LedgerReads
<1> SUFFICES ASSUME OneExecutionPerKey, NEW k \in Keys
             PROVE  /\ store[k].state = "completed"
                         => LedgerEntry(k) = EntryOf(store[k].fingerprint, store[k].result)
                    /\ store[k].state # "completed"
                         => /\ \A r \in Requests : Decided(r) /\ Key(r) = k
                                  => LedgerEntry(k) = EntryOf(Fingerprint(r), result[r])
                            /\ (\A r \in Requests : ~(Decided(r) /\ Key(r) = k))
                                  => LedgerEntry(k) = [entered |-> FALSE]
  BY DEF LedgerReads
<1>1. ASSUME store[k].state # "completed", NEW r \in Requests, Decided(r), Key(r) = k
      PROVE  LedgerEntry(k) = EntryOf(Fingerprint(r), result[r])
  <2> DEFINE x == CHOOSE s \in Requests : Decided(s) /\ Key(s) = k
  <2>1. x \in Requests /\ Decided(x) /\ Key(x) = k
    BY <1>1
  <2>2. x = r
    BY <1>1, <2>1 DEF OneExecutionPerKey, Executing, Decided, Labels
  <2>3. LedgerEntry(k) = EntryOf(Fingerprint(x), result[x])
    BY <1>1 DEF LedgerEntry, EntryOf
  <2> QED BY <2>2, <2>3
<1> QED BY <1>1 DEF LedgerEntry, EntryOf

\* A thread that gives its target back has recorded its own result.
ReleasesOwn == \A r \in Requests : pc[r] = "release" => store[Key(r)] = Completed(r)

LEMMA ReleasesOwnStep ==
  ASSUME TypeOK, OneExecutionPerKey, SubmissionInv, ReleasesOwn, [Next]_vars, CompletedKept
  PROVE  ReleasesOwn'
<1> USE DEF At, Goto, Decide
<1>a. /\ pc \in [Requests -> Labels] /\ req' = req /\ store \in [Keys -> Records]
      /\ \A r \in Requests : /\ Key(r)' = Key(r) /\ Key(r) \in Keys
                             /\ Fingerprint(r)' = Fingerprint(r)
  BY StepIsOfOne DEF TypeOK, Key, Fingerprint
<1> SUFFICES ASSUME NEW r \in Requests, pc'[r] = "release"
             PROVE  store'[Key(r)] = Completed(r)'
  BY <1>a DEF ReleasesOwn
<1>1. CASE pc[r] = "release" /\ result'[r] = result[r]
  <2>1. store[Key(r)] = Completed(r) /\ store[Key(r)].state = "completed"
    BY <1>1 DEF ReleasesOwn, Completed
  <2> QED BY <1>1, <1>a, <2>1 DEF CompletedKept, Completed
<1>2. CASE Step(r) \/ Fault(r)
  <2>1. CompleteRecord(r)
    BY <1>2, <1>a
    DEF Step, Authorize, ClaimRecord, ReplayRecord, ConflictRecord, AwaitRecord,
        ClaimTarget, AwaitTarget, ReadConfirmation, ReadQuote, UpdateQuote,
        UpdateConfirmation, Commit, Rollback, AbandonRecord, ReleaseTarget, Fault,
        SubmissionInv, NothingRaised
  <2>2. Completable(r)
    BY <2>1 DEF CompleteRecord, OneExecutionPerKey, Executing, Labels, Completable
  <2> QED BY <1>a, <2>1, <2>2 DEF CompleteRecord, Completed
<1> QED BY <1>1, <1>2, StepIsOfOne

PromiseInv ==
  /\ TypeOK /\ OneExecutionPerKey /\ SubmissionInv
  /\ LedgerReads /\ ReleasesOwn

LEMMA EntryKept ==
  ASSUME LedgerReads, LedgerReads', req' = req, NEW k \in Keys,
         \/ store'[k] = store[k]
         \/ store[k].state # "completed" /\ store'[k].state # "completed",
         \A s \in Requests : Key(s) = k => /\ Decided(s)' <=> Decided(s)
                                           /\ Decided(s) => result'[s] = result[s]
  PROVE  LedgerEntry(k)' = LedgerEntry(k)
<1>a. \A s \in Requests : Key(s)' = Key(s) /\ Fingerprint(s)' = Fingerprint(s)
  BY DEF Key, Fingerprint
<1>1. CASE store[k].state = "completed"
  <2>1. LedgerEntry(k) = EntryOf(store[k].fingerprint, store[k].result)
    BY <1>1 DEF LedgerReads
  <2>2. LedgerEntry(k)' = EntryOf(store'[k].fingerprint, store'[k].result)
    BY <1>1 DEF LedgerReads
  <2> QED BY <1>1, <2>1, <2>2
<1>2. ASSUME store[k].state # "completed", NEW s \in Requests, Decided(s), Key(s) = k
      PROVE  LedgerEntry(k)' = LedgerEntry(k)
  <2>1. LedgerEntry(k) = EntryOf(Fingerprint(s), result[s])
    BY <1>2 DEF LedgerReads
  <2>2. store'[k].state # "completed" /\ Decided(s)' /\ Key(s)' = k /\ result'[s] = result[s]
    BY <1>2, <1>a DEF Decided
  <2>3. LedgerEntry(k)' = EntryOf(Fingerprint(s)', result'[s])
    BY <2>2 DEF LedgerReads
  <2> QED BY <1>a, <2>1, <2>2, <2>3
<1>3. CASE store[k].state # "completed" /\ \A s \in Requests : ~(Decided(s) /\ Key(s) = k)
  <2>1. LedgerEntry(k) = [entered |-> FALSE]
    BY <1>3 DEF LedgerReads
  <2>2. store'[k].state # "completed" /\ \A s \in Requests : ~(Decided(s)' /\ Key(s)' = k)
    BY <1>3, <1>a DEF Decided
  <2>3. LedgerEntry(k)' = [entered |-> FALSE]
    BY <2>2 DEF LedgerReads
  <2> QED BY <2>1, <2>3
<1> QED BY <1>1, <1>2, <1>3

\* A step that moves r, but neither decides for it nor answers it, and touches
\* no completed record, is not seen by any caller.
LEMMA UnseenStep ==
  ASSUME PromiseInv, LedgerReads', UNCHANGED <<req, result>>,
         \A s \in Requests : Decided(s)' <=> Decided(s),
         \A s \in Requests : pc'[s] = "done" <=> pc[s] = "done",
         \A k \in Keys : store'[k] # store[k] => /\ store[k].state # "completed"
                                                 /\ store'[k].state # "completed"
  PROVE  UNCHANGED Promise!avars
<1>1. \A s \in Requests : /\ Key(s)' = Key(s) /\ Fingerprint(s)' = Fingerprint(s)
                          /\ Token(s)' = Token(s) /\ (Submitted(s)' <=> Submitted(s))
  BY DEF Key, Fingerprint, Token, Submitted
<1>2. \A k \in Keys : LedgerEntry(k)' = LedgerEntry(k)
  BY EntryKept DEF PromiseInv
<1>3. Ledger' = Ledger
  BY <1>2 DEF Ledger
<1>4. Booked' = Booked
  BY <1>1 DEF Booked
<1>5. Answers' = Answers
  BY DEF Answers, Outcome
<1> QED BY <1>3, <1>4, <1>5 DEF Promise!avars, Ledger, Booked, Answers

\* A step that decides for r is the one-step execution of the promise.
LEMMA DecidingStep ==
  ASSUME PromiseInv, LedgerReads', NEW r \in Requests, Executing(r), Undecided(r),
         NEW status \in {"submitted", "stale_state", "unsupported_or_missing_confirmation"},
         pc' = [pc EXCEPT ![r] = "complete"],
         result' = [result EXCEPT ![r] = Outcome(r, status)],
         UNCHANGED <<req, store>>,
         status = "submitted" => Token(r) \notin Booked
  PROVE  Promise!Execute(r)
<1>a. /\ pc \in [Requests -> Labels] /\ result \in [Requests -> Results]
      /\ store \in [Keys -> Records] /\ Key(r) \in Keys
      /\ store[Key(r)].state = "in_progress" /\ ~Decided(r) /\ pc[r] # "done"
  BY ExecutingIsInProgress DEF PromiseInv, TypeOK, Key, Executing, Decided, Undecided
<1>b. \A s \in Requests : /\ Key(s)' = Key(s) /\ Fingerprint(s)' = Fingerprint(s)
                          /\ Token(s)' = Token(s)
  BY DEF Key, Fingerprint, Token
<1>c. \A s \in Requests : s # r => pc'[s] = pc[s] /\ result'[s] = result[s]
  BY <1>a
<1>d. pc'[r] = "complete" /\ result'[r] = Outcome(r, status)
  BY <1>a
<1>1. Answers[r] = Promise!NoReply(r)
  BY <1>a DEF Answers, Outcome, Promise!NoReply
<1>2. ~Ledger[Key(r)].entered
  <2>1. \A s \in Requests : ~(Decided(s) /\ Key(s) = Key(r))
    BY <1>a DEF PromiseInv, OneExecutionPerKey, Executing, Decided, Labels
  <2>2. LedgerEntry(Key(r)) = [entered |-> FALSE]
    BY <1>a, <2>1 DEF PromiseInv, LedgerReads
  <2> QED BY <1>a, <2>2 DEF Ledger
<1>3. Ledger' = [Ledger EXCEPT ![Key(r)] = EntryOf(Fingerprint(r), Outcome(r, status))]
  <2>1. Decided(r)' /\ \A s \in Requests : s # r => (Decided(s)' <=> Decided(s))
    BY <1>c, <1>d DEF Decided
  <2>2. LedgerEntry(Key(r))' = EntryOf(Fingerprint(r), Outcome(r, status))
    BY <1>a, <1>b, <1>d, <2>1 DEF LedgerReads
  <2>3. \A k \in Keys : k # Key(r) => LedgerEntry(k)' = LedgerEntry(k)
    <3> SUFFICES ASSUME NEW k \in Keys, k # Key(r) PROVE LedgerEntry(k)' = LedgerEntry(k)
      OBVIOUS
    <3>1. \A s \in Requests : Key(s) = k => s # r
      OBVIOUS
    <3> QED BY <1>c, <2>1, <3>1, EntryKept DEF PromiseInv
  <2> QED BY <1>a, <1>b, <2>2, <2>3 DEF Ledger
<1>4. Booked' = IF status = "submitted" THEN Booked \cup {Token(r)} ELSE Booked
  <2>1. ~Submitted(r) /\ (Submitted(r)' <=> status = "submitted")
    BY <1>d DEF PromiseInv, SubmissionInv, Submitted, Outcome
  <2>2. \A s \in Requests : s # r => (Submitted(s)' <=> Submitted(s))
    BY <1>c DEF Submitted
  <2> QED BY <1>b, <2>1, <2>2 DEF Booked
<1>5. Answers' = Answers
  BY <1>a, <1>c, <1>d DEF Answers, Outcome
<1>6. Ledger' = [Ledger EXCEPT ![req[r].key] =
                   Promise!Entry(Promise!Asked(r), [status |-> status, by |-> r])]
  BY <1>3 DEF Promise!Entry, Promise!Asked, EntryOf, Fingerprint, Outcome, Key
<1> QED
  BY <1>1, <1>2, <1>4, <1>5, <1>6
  DEF Promise!Execute, Ledger, Booked, Answers, Key, Token

\* A step that answers r from the record of its key is the reply of the promise.
LEMMA AnsweringStep ==
  ASSUME PromiseInv, LedgerReads', NEW r \in Requests,
         pc[r] \notin {"done", "complete"}, pc' = [pc EXCEPT ![r] = "done"],
         UNCHANGED <<req, store>>, store[Key(r)].state = "completed",
         \A s \in Requests : s # r => result'[s] = result[s],
         result'[r] = Recorded(Key(r), Fingerprint(r)),
         Submitted(r) => Submitted(r)',
         Submitted(r)' => Token(r) \in Booked
  PROVE  Promise!Reply(r)
<1>a. /\ pc \in [Requests -> Labels] /\ result \in [Requests -> Results]
      /\ store \in [Keys -> Records] /\ Key(r) \in Keys
  BY DEF PromiseInv, TypeOK, Key
<1>b. \A s \in Requests : /\ Key(s)' = Key(s) /\ Fingerprint(s)' = Fingerprint(s)
                          /\ Token(s)' = Token(s)
  BY DEF Key, Fingerprint, Token
<1>c. pc'[r] = "done" /\ \A s \in Requests : s # r => pc'[s] = pc[s]
  BY <1>a
<1>1. Answers[r] = Promise!NoReply(r)
  BY DEF Answers, Outcome, Promise!NoReply
<1>2. Ledger[Key(r)] = EntryOf(store[Key(r)].fingerprint, store[Key(r)].result)
  BY <1>a DEF Ledger, PromiseInv, LedgerReads
<1>3. Ledger' = Ledger
  <2>1. \A s \in Requests : /\ Decided(s)' <=> Decided(s)
                            /\ Decided(s) => result'[s] = result[s]
    BY <1>c DEF Decided
  <2>2. \A k \in Keys : LedgerEntry(k)' = LedgerEntry(k)
    BY <2>1, EntryKept DEF PromiseInv
  <2> QED BY <2>2 DEF Ledger
<1>4. Booked' = Booked
  BY <1>b DEF Booked, Submitted
<1>5. Answers' = [Answers EXCEPT ![r] = Recorded(Key(r), Fingerprint(r))]
  BY <1>c DEF Answers, Outcome
<1>6. Ledger[req[r].key].entered
  BY <1>2 DEF EntryOf, Key
<1>7. Recorded(Key(r), Fingerprint(r)) =
        IF Ledger[req[r].key].fingerprint = Promise!Asked(r) THEN Ledger[req[r].key].result
        ELSE [status |-> "idempotency_conflict", by |-> Ledger[req[r].key].result.by]
  BY <1>2 DEF Recorded, EntryOf, Key, Fingerprint, Promise!Asked
<1> QED
  BY <1>1, <1>3, <1>4, <1>5, <1>6, <1>7
  DEF Promise!Reply, Ledger, Booked, Answers

\* A step that records what r has decided shows nothing new.
LEMMA RecordingStep ==
  ASSUME PromiseInv, LedgerReads', NEW r \in Requests, Decided(r),
         pc' = [pc EXCEPT ![r] = "release"], UNCHANGED <<req, result>>,
         store' = [store EXCEPT ![Key(r)] = Completed(r)]
  PROVE  UNCHANGED Promise!avars
<1>a. /\ pc \in [Requests -> Labels] /\ store \in [Keys -> Records] /\ Key(r) \in Keys
      /\ Executing(r) /\ store[Key(r)].state = "in_progress"
  BY ExecutingIsInProgress DEF PromiseInv, TypeOK, Key, Executing, Decided, Labels
<1>b. /\ pc'[r] = "release" /\ pc[r] = "complete"
      /\ \A s \in Requests : s # r => pc'[s] = pc[s]
  BY <1>a DEF Decided
<1>1. LedgerEntry(Key(r)) = EntryOf(Fingerprint(r), result[r])
  BY <1>a DEF PromiseInv, LedgerReads
<1>2. LedgerEntry(Key(r))' = EntryOf(Fingerprint(r), result[r])
  <2>1. store'[Key(r)] = Completed(r) /\ Key(r)' = Key(r)
    BY <1>a DEF Key
  <2>2. /\ store'[Key(r)].state = "completed" /\ store'[Key(r)].result = result[r]
        /\ store'[Key(r)].fingerprint = Fingerprint(r)
    BY <2>1 DEF Completed
  <2> QED BY <1>a, <2>1, <2>2 DEF LedgerReads
<1>3. \A k \in Keys : k # Key(r) => LedgerEntry(k)' = LedgerEntry(k)
  <2> SUFFICES ASSUME NEW k \in Keys, k # Key(r) PROVE LedgerEntry(k)' = LedgerEntry(k)
    OBVIOUS
  <2>1. store'[k] = store[k] /\ \A s \in Requests : Key(s) = k => s # r
    BY <1>a
  <2> QED BY <1>b, <2>1, EntryKept DEF PromiseInv, Decided
<1>4. Ledger' = Ledger
  BY <1>1, <1>2, <1>3 DEF Ledger, Key
<1>5. Booked' = Booked
  BY DEF Booked, Submitted, Token
<1>6. Answers' = Answers
  BY <1>b DEF Answers, Outcome
<1> QED BY <1>4, <1>5, <1>6 DEF Promise!avars, Ledger, Booked, Answers

\* A request that is refused is refused by the promise.
LEMMA RefusingStep ==
  ASSUME PromiseInv, LedgerReads', NEW r \in Requests, pc[r] = "authorize",
         pc' = [pc EXCEPT ![r] = "done"],
         result' = [result EXCEPT ![r] = Outcome(r, "unavailable")],
         UNCHANGED <<req, store>>
  PROVE  Promise!Refuse(r)
<1>a. pc \in [Requests -> Labels] /\ result \in [Requests -> Results]
  BY DEF PromiseInv, TypeOK
<1>b. /\ pc'[r] = "done" /\ result'[r] = Outcome(r, "unavailable")
      /\ \A s \in Requests : s # r => pc'[s] = pc[s] /\ result'[s] = result[s]
  BY <1>a
<1>1. Answers[r] = Promise!NoReply(r)
  BY DEF Answers, Outcome, Promise!NoReply
<1>2. Ledger' = Ledger
  <2>1. \A s \in Requests : /\ Decided(s)' <=> Decided(s)
                            /\ Decided(s) => result'[s] = result[s]
    BY <1>b DEF Decided
  <2> QED BY <2>1, EntryKept DEF PromiseInv, Ledger
<1>3. Booked' = Booked
  <2>1. \A s \in Requests : Submitted(s)' <=> Submitted(s)
    BY <1>b DEF PromiseInv, SubmissionInv, Undecided, Submitted, Outcome
  <2> QED BY <2>1 DEF Booked, Token
<1>4. Answers' = [Answers EXCEPT ![r] = [status |-> "unavailable", by |-> r]]
  BY <1>b DEF Answers, Outcome
<1> QED BY <1>1, <1>2, <1>3, <1>4 DEF Promise!Refuse, Ledger, Booked, Answers

\* Every step of the threads is a step of the promise, or is not seen.
LEMMA PromiseStep ==
  ASSUME MaxFaults = 0, PromiseInv, LedgerReads', [Next]_vars
  PROVE  [Promise!ANext]_(Promise!avars)
<1> USE DEF At, Goto, Decide, storeVars, dbVars
<1>a. /\ pc \in [Requests -> Labels] /\ result \in [Requests -> Results]
      /\ store \in [Keys -> Records] /\ req' = req
      /\ \A r \in Requests : Key(r) \in Keys /\ Token(r) \in Tokens
  BY StepIsOfOne DEF PromiseInv, TypeOK, Key, Token
<1>1. ASSUME NEW r \in Requests, Authorize(r)
      PROVE  UNCHANGED Promise!avars \/ Promise!Refuse(r)
  <2>1. CASE db.brokers
    <3>1. /\ pc[r] = "authorize" /\ pc' = [pc EXCEPT ![r] = "claim_record"]
          /\ UNCHANGED <<store, result>>
      BY <1>1, <2>1 DEF Authorize
    <3> QED BY <1>a, <3>1, UnseenStep DEF Decided
  <2>2. CASE ~db.brokers
    BY <1>1, <2>2, RefusingStep DEF Authorize
  <2> QED BY <2>1, <2>2
<1>2. ASSUME NEW r \in Requests, ClaimRecord(r)
      PROVE  UNCHANGED Promise!avars
  <2>1. /\ pc[r] = "claim_record" /\ pc' = [pc EXCEPT ![r] = "claim_target"]
        /\ UNCHANGED result /\ store[Key(r)].state = "absent"
        /\ store' = [store EXCEPT ![Key(r)] = InProgress(r)]
    BY <1>2 DEF ClaimRecord
  <2>2. \A k \in Keys : store'[k] # store[k] => /\ store[k].state # "completed"
                                                /\ store'[k].state # "completed"
    BY <1>a, <2>1 DEF InProgress
  <2> QED BY <1>a, <2>1, <2>2, UnseenStep DEF Decided
<1>3. ASSUME NEW r \in Requests, ReplayRecord(r)
      PROVE  Promise!Reply(r)
  <2>1. /\ pc[r] = "claim_record" /\ pc' = [pc EXCEPT ![r] = "done"]
        /\ UNCHANGED store /\ store[Key(r)].state = "completed"
        /\ store[Key(r)].fingerprint = Fingerprint(r)
        /\ result' = [result EXCEPT ![r] = store[Key(r)].result]
    BY <1>3 DEF ReplayRecord
  <2>2. result'[r] = store[Key(r)].result /\ ~Submitted(r)
    BY <1>a, <2>1 DEF PromiseInv, SubmissionInv, Undecided, Submitted
  <2>3. Submitted(r)' => Token(r) \in Booked
    <3> SUFFICES ASSUME Submitted(r)' PROVE Token(r) \in Booked
      OBVIOUS
    <3>1. store[Key(r)].fingerprint[1] = Token(r)
      BY <2>1 DEF Fingerprint, Token
    <3>2. PICK o \in Requests : Token(o) = Token(r) /\ result[o] = store[Key(r)].result
      BY <1>a, <2>1, <2>2, <3>1 DEF PromiseInv, SubmissionInv, RecordedIsReal, Submitted
    <3>3. Submitted(o)
      BY <2>2, <3>2 DEF Submitted
    <3> QED BY <3>2, <3>3 DEF Booked
  <2>4. result'[r] = Recorded(Key(r), Fingerprint(r))
    BY <2>1, <2>2 DEF Recorded
  <2>5. \A s \in Requests : s # r => result'[s] = result[s]
    BY <1>a, <2>1
  <2> QED BY <1>a, <2>1, <2>2, <2>3, <2>4, <2>5, AnsweringStep
<1>4. ASSUME NEW r \in Requests, ConflictRecord(r)
      PROVE  Promise!Reply(r)
  <2>1. /\ pc[r] = "claim_record" /\ pc' = [pc EXCEPT ![r] = "done"]
        /\ UNCHANGED store /\ store[Key(r)].state = "completed"
        /\ result' = [result EXCEPT ![r] = Recorded(Key(r), Fingerprint(r))]
        /\ Recorded(Key(r), Fingerprint(r)).status = "idempotency_conflict"
    BY <1>4 DEF ConflictRecord, Recorded
  <2>2. ~Submitted(r) /\ ~Submitted(r)'
    BY <1>a, <2>1 DEF PromiseInv, SubmissionInv, Undecided, Submitted
  <2>3. /\ result'[r] = Recorded(Key(r), Fingerprint(r))
        /\ \A s \in Requests : s # r => result'[s] = result[s]
    BY <1>a, <2>1
  <2> QED BY <1>a, <2>1, <2>2, <2>3, AnsweringStep
<1>5. ASSUME NEW r \in Requests,
             \/ AwaitRecord(r) \/ AwaitTarget(r) \/ ClaimTarget(r)
             \/ UpdateQuote(r) \/ UpdateConfirmation(r)
      PROVE  UNCHANGED Promise!avars
  <2>1. UNCHANGED <<store, result>>
    BY <1>5 DEF AwaitRecord, AwaitTarget, ClaimTarget, UpdateQuote, UpdateConfirmation
  <2>2. \A s \in Requests : (Decided(s)' <=> Decided(s)) /\ (pc'[s] = "done" <=> pc[s] = "done")
    BY <1>5, <1>a DEF AwaitRecord, AwaitTarget, ClaimTarget, UpdateQuote,
                      UpdateConfirmation, Decided
  <2> QED BY <1>a, <2>1, <2>2, UnseenStep
<1>6. ASSUME NEW r \in Requests, ReadConfirmation(r)
      PROVE  UNCHANGED Promise!avars \/ Promise!Execute(r)
  <2>1. CASE db.confirmation[Token(r)] = "absent"
    <3>1. /\ pc[r] = "read_confirmation" /\ pc' = [pc EXCEPT ![r] = "complete"]
          /\ result' = [result EXCEPT ![r] = Outcome(r, "unsupported_or_missing_confirmation")]
          /\ UNCHANGED store
      BY <1>6, <2>1 DEF ReadConfirmation
    <3> QED BY <1>a, <3>1, DecidingStep DEF Executing, Undecided, Labels
  <2>2. CASE db.confirmation[Token(r)] # "absent"
    <3>1. /\ pc[r] = "read_confirmation" /\ pc' = [pc EXCEPT ![r] = "read_quote"]
          /\ UNCHANGED <<store, result>>
      BY <1>6, <2>2 DEF ReadConfirmation
    <3> QED BY <1>a, <3>1, UnseenStep DEF Decided
  <2> QED BY <2>1, <2>2
<1>7. ASSUME NEW r \in Requests, ReadQuote(r)
      PROVE  UNCHANGED Promise!avars \/ Promise!Execute(r)
  <2>1. CASE ~StillValid(r)
    <3>1. /\ pc[r] = "read_quote" /\ pc' = [pc EXCEPT ![r] = "complete"]
          /\ result' = [result EXCEPT ![r] = Outcome(r, "stale_state")]
          /\ UNCHANGED store
      BY <1>7, <2>1 DEF ReadQuote
    <3> QED BY <1>a, <3>1, DecidingStep DEF Executing, Undecided, Labels
  <2>2. CASE StillValid(r)
    <3>1. /\ pc[r] = "read_quote" /\ pc' = [pc EXCEPT ![r] = "update_quote"]
          /\ UNCHANGED <<store, result>>
      BY <1>7, <2>2 DEF ReadQuote
    <3> QED BY <1>a, <3>1, UnseenStep DEF Decided
  <2> QED BY <2>1, <2>2
<1>8. ASSUME NEW r \in Requests, Commit(r)
      PROVE  Promise!Execute(r)
  <2>1. /\ pc[r] = "commit" /\ pc' = [pc EXCEPT ![r] = "complete"]
        /\ result' = [result EXCEPT ![r] = Outcome(r, "submitted")]
        /\ UNCHANGED store
    BY <1>8 DEF Commit
  <2>2. Token(r) \notin Booked
    BY <2>1 DEF PromiseInv, SubmissionInv, FirstToSubmit, Booked
  <2> QED BY <1>a, <2>1, <2>2, DecidingStep DEF Executing, Undecided, Labels
<1>9. ASSUME NEW r \in Requests, CompleteRecord(r)
      PROVE  UNCHANGED Promise!avars
  <2>1. Completable(r)
    BY <1>9 DEF CompleteRecord, PromiseInv, OneExecutionPerKey, Executing, Labels, Completable
  <2>2. /\ pc[r] = "complete" /\ pc' = [pc EXCEPT ![r] = "release"]
        /\ UNCHANGED result /\ store' = [store EXCEPT ![Key(r)] = Completed(r)]
    BY <1>9, <2>1 DEF CompleteRecord
  <2> QED BY <1>a, <2>2, RecordingStep DEF Decided
<1>10. ASSUME NEW r \in Requests, ReleaseTarget(r)
       PROVE  Promise!Reply(r)
  <2>1. /\ pc[r] = "release" /\ pc' = [pc EXCEPT ![r] = "done"]
        /\ UNCHANGED <<store, result>>
    BY <1>10 DEF ReleaseTarget
  <2>2. store[Key(r)] = Completed(r)
    BY <2>1 DEF PromiseInv, ReleasesOwn
  <2>3. store[Key(r)].state = "completed" /\ result'[r] = Recorded(Key(r), Fingerprint(r))
    BY <2>1, <2>2 DEF Completed, Recorded
  <2>4. (Submitted(r)' <=> Submitted(r)) /\ (Submitted(r) => Token(r) \in Booked)
    BY <2>1 DEF Submitted, Booked
  <2> QED BY <1>a, <2>1, <2>3, <2>4, AnsweringStep
<1>11. ASSUME NEW r \in Requests PROVE ~Rollback(r) /\ ~AbandonRecord(r) /\ ~Fault(r)
  BY DEF PromiseInv, SubmissionInv, NothingRaised, Rollback, AbandonRecord, Fault
<1>12. CASE (\E t \in Tokens : Expire(t)) \/ Terminating \/ UNCHANGED vars
  <2>1. UNCHANGED <<pc, store, result>>
    BY <1>12 DEF Expire, Terminating, vars
  <2> QED BY <1>a, <2>1, UnseenStep DEF Decided
<1>13. ASSUME NEW r \in Requests, Promise!Execute(r) \/ Promise!Reply(r) \/ Promise!Refuse(r)
       PROVE  Promise!ANext
  BY <1>13, Zenon DEF Promise!ANext
<1> QED
  BY <1>1, <1>2, <1>3, <1>4, <1>5, <1>6, <1>7, <1>8, <1>9, <1>10, <1>11, <1>12, <1>13
  DEF Next, Step

LEMMA PromiseInit == Init => Promise!AInit
<1> SUFFICES ASSUME Init PROVE Promise!AInit
  OBVIOUS
<1>1. \A k \in Keys : LedgerEntry(k) = Promise!NoEntry
  BY DEF Init, LedgerEntry, NoRecord, Decided, Promise!NoEntry
<1>2. Ledger = [k \in Keys |-> Promise!NoEntry]
  BY <1>1 DEF Ledger
<1>3. Booked = {}
  BY DEF Init, Booked, Submitted, Outcome
<1>4. Answers = [r \in Requests |-> Promise!NoReply(r)]
  BY DEF Init, Answers, Outcome, Promise!NoReply
<1> QED BY <1>2, <1>3, <1>4 DEF Init, Promise!AInit, Ledger, Booked, Answers

\* When no statement raises, the threads of the endpoint look to their callers
\* like the one-step executions of ConfirmedBooking, for any number of
\* requests, keys, tokens, quotes and actors.
THEOREM PromiseKept ==
  ASSUME MaxFaults = 0
  PROVE  Spec => ImplementsConfirmedBooking
<1>1. Init => ReleasesOwn
  BY DEF Init, ReleasesOwn
<1>2. TypeOK /\ OneExecutionPerKey /\ SubmissionInv /\ ReleasesOwn /\ [Next]_vars /\ CompletedKept
        => ReleasesOwn'
  BY ReleasesOwnStep
<1>3. OneExecutionPerKey => LedgerReads
  BY LedgerCanBeRead
<1>4. Spec => []PromiseInv
  BY <1>1, <1>2, <1>3, SubmissionAlways, CompletedStays, PTL
  DEF Spec, PromiseInv, CompletedIsFinal, CompletedKept
<1>5. PromiseInv /\ LedgerReads' /\ [Next]_vars => [Promise!ANext]_(Promise!avars)
  BY PromiseStep
<1>6. PromiseInv => LedgerReads
  BY DEF PromiseInv
<1> QED
  BY <1>4, <1>5, <1>6, PromiseInit, PTL
  DEF Spec, ImplementsConfirmedBooking, Promise!ASpec

=============================================================================
