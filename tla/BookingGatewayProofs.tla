------------------------ MODULE BookingGatewayProofs ------------------------
(***************************************************************************)
(* Theorems about BookingGateway, for any number of requests, keys, tokens,*)
(* quotes and actors.                                                      *)
(***************************************************************************)
EXTENDS BookingGateway, TLAPS

\* Whatever a thread decides is a result.
LEMMA OutcomeIsResult ==
  ASSUME NEW r \in Requests, NEW status \in Statuses
  PROVE  Outcome(r, status) \in Results
BY DEF Outcome, Results

\* Every variable of the confirm endpoint keeps its type, failed bookings and
\* rollbacks included.
THEOREM TypeCorrect == Spec => []TypeOK
<1>1. Init => TypeOK
  <2> SUFFICES ASSUME Init PROVE TypeOK
    OBVIOUS
  <2>1. NoRows \in Rows /\ db \in Rows
    BY DEF Init, Rows, NoRows
  <2>2. result \in [Requests -> Results]
    BY OutcomeIsResult DEF Init, Statuses
  <2>3. store \in [Keys -> Records]
    BY DEF Init, Records
  <2>4. faults \in 0..MaxFaults
    BY ConstantsAssumption DEF Init
  <2> QED
    BY <2>1, <2>2, <2>3, <2>4 DEF Init, TypeOK, Labels
<1>2. TypeOK /\ [Next]_vars => TypeOK'
  <2> SUFFICES ASSUME TypeOK, [Next]_vars PROVE TypeOK'
    OBVIOUS
  <2> USE ConstantsAssumption
      DEF TypeOK, Labels, At, Goto, Decide, NotifyAll, Wait, storeVars, dbVars
  <2>1. CASE UNCHANGED vars
    BY <2>1 DEF vars
  <2>2. ASSUME NEW r \in Requests, Authorize(r) PROVE TypeOK'
    <3>1. Outcome(r, "unavailable") \in Results
      BY OutcomeIsResult DEF Statuses
    <3> QED BY <2>2, <3>1 DEF Authorize
  <2>3. ASSUME NEW r \in Requests, ClaimRecord(r) PROVE TypeOK'
    BY <2>3 DEF ClaimRecord, InProgress, Records, Fingerprint, Fingerprints, Key
  <2>4. ASSUME NEW r \in Requests, ReplayRecord(r) PROVE TypeOK'
    <3>1. store[Key(r)] \in Records
      BY DEF Key
    <3>2. store[Key(r)].result \in Results
      BY <2>4, <3>1 DEF ReplayRecord, Records, NoRecord
    <3> QED BY <2>4, <3>2 DEF ReplayRecord
  <2>5. ASSUME NEW r \in Requests, ConflictRecord(r) PROVE TypeOK'
    <3>1. store[Key(r)] \in Records
      BY DEF Key
    <3>2. store[Key(r)].result \in Results
      BY <2>5, <3>1 DEF ConflictRecord, Records, NoRecord
    <3> QED BY <2>5, <3>2 DEF ConflictRecord, Results, Statuses
  <2>6. ASSUME NEW r \in Requests, AwaitRecord(r) PROVE TypeOK'
    BY <2>6 DEF AwaitRecord
  <2>7. ASSUME NEW r \in Requests, ClaimTarget(r) PROVE TypeOK'
    BY <2>7 DEF ClaimTarget, Key, Token
  <2>8. ASSUME NEW r \in Requests, AwaitTarget(r) PROVE TypeOK'
    BY <2>8 DEF AwaitTarget
  <2>9. ASSUME NEW r \in Requests, ReadConfirmation(r) PROVE TypeOK'
    <3>1. Outcome(r, "unsupported_or_missing_confirmation") \in Results
      BY OutcomeIsResult DEF Statuses
    <3>2. db.confirmation[Token(r)] \in {"absent", "pending", "consumed"}
      BY DEF Token, Rows
    <3> QED BY <2>9, <3>1, <3>2 DEF ReadConfirmation
  <2>10. ASSUME NEW r \in Requests, ReadQuote(r) PROVE TypeOK'
    <3>1. Outcome(r, "stale_state") \in Results
      BY OutcomeIsResult DEF Statuses
    <3> QED BY <2>10, <3>1 DEF ReadQuote
  <2>11. ASSUME NEW r \in Requests, UpdateQuote(r) PROVE TypeOK'
    BY <2>11 DEF UpdateQuote, Rows, Token
  <2>12. ASSUME NEW r \in Requests, UpdateConfirmation(r) PROVE TypeOK'
    BY <2>12 DEF UpdateConfirmation, Rows, Token
  <2>13. ASSUME NEW r \in Requests, Commit(r) PROVE TypeOK'
    BY <2>13 DEF Commit, Outcome, Results, Statuses
  <2>14. ASSUME NEW r \in Requests, CompleteRecord(r) PROVE TypeOK'
    <3>1. Completed(r) \in Records /\ Key(r) \in Keys
      BY DEF Completed, Records, Fingerprint, Fingerprints, Key
    <3>2. UNCHANGED <<req, target, db, saved, inTransaction, undone, expired, seen, result, faults>>
      BY <2>14 DEF CompleteRecord
    <3>3. /\ store' \in [Keys -> Records] /\ waiting' \subseteq Requests
          /\ pc' \in [Requests -> Labels]
      BY <2>14, <3>1 DEF CompleteRecord
    <3> QED BY <3>2, <3>3
  <2>15. ASSUME NEW r \in Requests, Rollback(r) PROVE TypeOK'
    BY <2>15 DEF Rollback
  <2>16. ASSUME NEW r \in Requests, AbandonRecord(r) PROVE TypeOK'
    BY <2>16 DEF AbandonRecord, NoRecord, Records, Outcome, Results, Statuses, Key
  <2>17. ASSUME NEW r \in Requests, ReleaseTarget(r) PROVE TypeOK'
    BY <2>17 DEF ReleaseTarget, Token
  <2>18. ASSUME NEW r \in Requests, Fault(r) PROVE TypeOK'
    BY <2>18 DEF Fault
  <2>19. ASSUME NEW t \in Tokens, Expire(t) PROVE TypeOK'
    BY <2>19 DEF Expire
  <2>20. CASE Terminating
    BY <2>20 DEF Terminating, vars
  <2> QED
    BY <2>1, <2>2, <2>3, <2>4, <2>5, <2>6, <2>7, <2>8, <2>9, <2>10, <2>11,
       <2>12, <2>13, <2>14, <2>15, <2>16, <2>17, <2>18, <2>19, <2>20
    DEF Next, Step
<1> QED
  BY <1>1, <1>2, PTL DEF Spec

-----------------------------------------------------------------------------
\* The record of a key that is being executed says so.
LEMMA ExecutingIsInProgress ==
  ASSUME OneExecutionPerKey, NEW r \in Requests, Executing(r)
  PROVE  store[Key(r)].state = "in_progress"
<1>1. store[Key(r)] = InProgress(r)
  BY DEF OneExecutionPerKey
<1> QED BY <1>1 DEF InProgress

\* A step that leaves the store, and lets no new thread execute, keeps the
\* ownership of the keys.
LEMMA OwnershipKept ==
  ASSUME OneExecutionPerKey, UNCHANGED <<req, store>>,
         \A r \in Requests : Executing(r)' => Executing(r)
  PROVE  OneExecutionPerKey'
BY DEF OneExecutionPerKey, InProgress, Fingerprint, Key

\* A step with which r stops executing, and that changes no record but the one
\* under r's key, keeps the ownership of the other keys.
LEMMA OwnershipReturned ==
  ASSUME TypeOK, OneExecutionPerKey, NEW r \in Requests, NEW record,
         Executing(r), ~Executing(r)', UNCHANGED req,
         store' = [store EXCEPT ![Key(r)] = record],
         \A s \in Requests : Executing(s)' => Executing(s)
  PROVE  OneExecutionPerKey'
BY DEF OneExecutionPerKey, InProgress, Fingerprint, Key, TypeOK

\* One thread executes under a key, and finds its own claim when it gives the
\* key back, whatever fails: claim_record is a lock on the key.
THEOREM KeyIsOwned == Spec => []OneExecutionPerKey
<1>1. Init => OneExecutionPerKey
  BY DEF Init, OneExecutionPerKey, Executing, Labels
<1>2. TypeOK /\ OneExecutionPerKey /\ [Next]_vars => OneExecutionPerKey'
  <2> SUFFICES ASSUME TypeOK, OneExecutionPerKey, [Next]_vars
               PROVE  OneExecutionPerKey'
    OBVIOUS
  <2>0. pc \in [Requests -> Labels]
    BY DEF TypeOK
  <2>1. ASSUME NEW r \in Requests, ClaimRecord(r) PROVE OneExecutionPerKey'
    <3>1. \A s \in Requests : Executing(s) => Key(s) # Key(r)
      BY <2>1, ExecutingIsInProgress DEF ClaimRecord
    <3>2. \A s \in Requests : Executing(s)' => s = r \/ Executing(s)
      BY <2>0, <2>1 DEF ClaimRecord, Goto, Executing, Labels
    <3>3. store' = [store EXCEPT ![Key(r)] = InProgress(r)] /\ req' = req
      BY <2>1 DEF ClaimRecord
    <3>4. Key(r) \in Keys /\ store \in [Keys -> Records]
      BY DEF TypeOK, Key
    <3> QED
      BY <3>1, <3>2, <3>3, <3>4
      DEF OneExecutionPerKey, InProgress, Fingerprint, Key
  <2>2. ASSUME NEW r \in Requests, CompleteRecord(r) PROVE OneExecutionPerKey'
    <3>1. Executing(r) /\ Completable(r)
      BY <2>2 DEF CompleteRecord, At, OneExecutionPerKey, Completable,
                  Executing, Labels
    <3>2. ~Executing(r)' /\ (\A s \in Requests : Executing(s)' => Executing(s))
      BY <2>0, <2>2, <3>1 DEF CompleteRecord, Goto, Executing, Labels
    <3> QED
      BY <2>2, <3>1, <3>2, OwnershipReturned DEF CompleteRecord
  <2>3. ASSUME NEW r \in Requests, AbandonRecord(r) PROVE OneExecutionPerKey'
    <3>1. Executing(r) /\ store[Key(r)] = InProgress(r)
      BY <2>3 DEF AbandonRecord, At, OneExecutionPerKey, Executing, Labels
    <3>2. ~Executing(r)' /\ (\A s \in Requests : Executing(s)' => Executing(s))
      BY <2>0, <2>3 DEF AbandonRecord, Decide, Goto, Executing, Labels
    <3> QED
      BY <2>3, <3>1, <3>2, OwnershipReturned DEF AbandonRecord
  <2>4. ASSUME NEW r \in Requests,
               \/ Authorize(r) \/ ReplayRecord(r) \/ ConflictRecord(r)
               \/ AwaitRecord(r) \/ ClaimTarget(r) \/ AwaitTarget(r)
               \/ ReadConfirmation(r) \/ ReadQuote(r) \/ UpdateQuote(r)
               \/ UpdateConfirmation(r) \/ Commit(r) \/ Rollback(r)
               \/ ReleaseTarget(r) \/ Fault(r)
        PROVE  OneExecutionPerKey'
    <3>1. UNCHANGED <<req, store>>
      BY <2>4 DEF Authorize, ReplayRecord, ConflictRecord, AwaitRecord,
        ClaimTarget, AwaitTarget, ReadConfirmation, ReadQuote, UpdateQuote,
        UpdateConfirmation, Commit, Rollback, ReleaseTarget, Fault, storeVars
    <3>2. \A s \in Requests : Executing(s)' => Executing(s)
      BY <2>0, <2>4 DEF Authorize, ReplayRecord, ConflictRecord, AwaitRecord,
        ClaimTarget, AwaitTarget, ReadConfirmation, ReadQuote, UpdateQuote,
        UpdateConfirmation, Commit, Rollback, ReleaseTarget, Fault,
        At, Goto, Decide, Executing, Labels
    <3> QED BY <3>1, <3>2, OwnershipKept
  <2>5. CASE (\E t \in Tokens : Expire(t)) \/ Terminating \/ UNCHANGED vars
    <3>1. UNCHANGED <<req, store, pc>>
      BY <2>5 DEF Expire, Terminating, vars, storeVars
    <3> QED BY <3>1, OwnershipKept DEF Executing
  <2> QED
    BY <2>1, <2>2, <2>3, <2>4, <2>5 DEF Next, Step
<1> QED
  BY <1>1, <1>2, TypeCorrect, PTL DEF Spec

\* A completed record stays as it is: only the thread that owns a key writes
\* under it, and it owns the key only while the record is in progress.
THEOREM CompletedStays == Spec => CompletedIsFinal
<1>1. TypeOK /\ OneExecutionPerKey /\ [Next]_vars
        => [\A k \in Keys : store[k].state = "completed"
                              => store'[k] = store[k]]_store
  <2> SUFFICES ASSUME TypeOK, OneExecutionPerKey, [Next]_vars,
                      NEW k \in Keys, store[k].state = "completed"
               PROVE  store'[k] = store[k]
    OBVIOUS
  <2>1. ASSUME NEW r \in Requests, ClaimRecord(r) PROVE store'[k] = store[k]
    BY <2>1 DEF ClaimRecord, TypeOK
  <2>2. ASSUME NEW r \in Requests, CompleteRecord(r) \/ AbandonRecord(r)
        PROVE  store'[k] = store[k]
    <3>1. Executing(r)
      BY <2>2 DEF CompleteRecord, AbandonRecord, At, Executing, Labels
    <3>2. k # Key(r)
      BY <3>1, ExecutingIsInProgress
    <3> QED BY <2>2, <3>2 DEF CompleteRecord, AbandonRecord, TypeOK
  <2>3. CASE store' = store
    BY <2>3
  <2> QED
    BY <2>1, <2>2, <2>3
    DEF Next, Step, vars, storeVars, Authorize, ReplayRecord, ConflictRecord,
        AwaitRecord, ClaimTarget, AwaitTarget, ReadConfirmation, ReadQuote,
        UpdateQuote, UpdateConfirmation, Commit, Rollback, ReleaseTarget,
        Fault, Expire, Terminating
<1> QED
  BY <1>1, TypeCorrect, KeyIsOwned, PTL DEF Spec, CompletedIsFinal

-----------------------------------------------------------------------------
(* AtMostOneSubmission, when no statement raises.  The property alone is   *)
(* not inductive: what makes it so is that a thread inside the target's    *)
(* critical section is alone with its token, and that the row it passed    *)
(* its check on is still pending there.                                    *)

Undecided(r) ==
  pc[r] \in {"authorize", "claim_record", "claim_target", "read_confirmation",
             "read_quote", "update_quote", "update_confirmation", "commit"}

Holding(r) ==
  pc[r] \in {"read_confirmation", "read_quote", "update_quote",
             "update_confirmation", "commit", "complete", "release"}

\* Nothing has raised, so nothing is being undone.
NothingRaised ==
  /\ faults = 0
  /\ \A r \in Requests : pc[r] \notin {"rollback", "abandon"}

\* Between claim_target and release_target a thread has the target under its
\* own key, and only the thread that completed a key releases under it.
TargetHeld ==
  /\ \A r \in Requests : Holding(r) => target[Token(r)] = Key(r)
  /\ \A r \in Requests :
       pc[r] = "release" => store[Key(r)].state = "completed"
  /\ \A r, s \in Requests :
       pc[r] = "release" /\ pc[s] = "release" /\ Key(r) = Key(s) => r = s

\* What a thread knows of its confirmation row inside the critical section.
RowAsChecked(r) ==
  /\ pc[r] = "read_quote" /\ seen[r] = "pending"
       => db.confirmation[Token(r)] = "pending"
  /\ pc[r] \in {"update_quote", "update_confirmation"}
       => db.confirmation[Token(r)] = "pending"
  /\ pc[r] = "commit" => db.confirmation[Token(r)] = "consumed"
  /\ Submitted(r) => db.confirmation[Token(r)] = "consumed"

\* A thread about to submit is the first to do so for its token.
FirstToSubmit ==
  \A r, s \in Requests :
    /\ pc[r] \in {"update_quote", "update_confirmation", "commit"}
    /\ Token(r) = Token(s)
    => ~Submitted(s)

\* A recorded submission is the result of a request for the recorded token.
RecordedIsReal ==
  \A k \in Keys :
    /\ store[k].state = "completed"
    /\ store[k].result.status = "submitted"
    => \E s \in Requests : /\ Token(s) = store[k].fingerprint[1]
                           /\ result[s] = store[k].result

SubmissionInv ==
  /\ NothingRaised
  /\ TargetHeld
  /\ \A r \in Requests : RowAsChecked(r)
  /\ \A r \in Requests : Undecided(r) => result[r].status = "none"
  /\ FirstToSubmit
  /\ RecordedIsReal
  /\ AtMostOneSubmission

\* Two threads inside the critical section of a target are one: they would
\* hold it under one key.
LEMMA AloneWithToken ==
  ASSUME TypeOK, OneExecutionPerKey, NothingRaised, TargetHeld,
         NEW r \in Requests, NEW s \in Requests,
         Holding(r), Holding(s), Token(r) = Token(s)
  PROVE  r = s
<1>1. Key(r) = Key(s)
  BY DEF TargetHeld
<1>2. \A x \in Requests : Holding(x) => pc[x] = "release" \/ Executing(x)
  BY DEF Holding, Executing, Labels
<1>3. \A x \in Requests :
        pc[x] = "release" => store[Key(x)].state # "in_progress"
  BY DEF TargetHeld
<1>4. \A x \in Requests : Executing(x) => store[Key(x)].state = "in_progress"
  BY ExecutingIsInProgress
<1> QED
  BY <1>1, <1>2, <1>3, <1>4 DEF TargetHeld, OneExecutionPerKey

\* A step of r that decides nothing as submitted, and completes no record,
\* keeps what is known of the submissions; before the updates r must have seen
\* that its token has none.
LEMMA QuietStep ==
  ASSUME TypeOK, SubmissionInv, NEW r \in Requests, Undecided(r),
         UNCHANGED req,
         \A s \in Requests : s # r => pc'[s] = pc[s] /\ result'[s] = result[s],
         result'[r].status # "submitted",
         \A k \in Keys : store'[k].state = "completed" => store'[k] = store[k],
         pc'[r] \in {"update_quote", "update_confirmation", "commit"}
           => \A s \in Requests : Token(s) = Token(r) => ~Submitted(s)
  PROVE  FirstToSubmit' /\ RecordedIsReal' /\ AtMostOneSubmission'
<1>1. \A s \in Requests : Submitted(s)' => s # r /\ Submitted(s)
  BY DEF Submitted
<1>2. \A s \in Requests : s # r => result'[s] = result[s]
  OBVIOUS
<1>3. \A s \in Requests : Token(s)' = Token(s)
  BY DEF Token
<1>4. FirstToSubmit'
  BY <1>1, <1>3 DEF SubmissionInv, FirstToSubmit
<1>5. RecordedIsReal'
  <2> SUFFICES ASSUME NEW k \in Keys, store'[k].state = "completed",
                      store'[k].result.status = "submitted"
               PROVE  \E s \in Requests : /\ Token(s)' = store'[k].fingerprint[1]
                                          /\ result'[s] = store'[k].result
    BY DEF RecordedIsReal
  <2>1. store'[k] = store[k]
    OBVIOUS
  <2>2. PICK s \in Requests : /\ Token(s) = store[k].fingerprint[1]
                              /\ result[s] = store[k].result
    BY <2>1 DEF SubmissionInv, RecordedIsReal
  <2>3. result[r].status = "none"
    BY DEF SubmissionInv
  <2> QED BY <1>2, <1>3, <2>1, <2>2, <2>3
<1>6. AtMostOneSubmission'
  BY <1>1, <1>2, <1>3 DEF SubmissionInv, AtMostOneSubmission
<1> QED BY <1>4, <1>5, <1>6

\* A step of r that neither takes nor gives back the target keeps it held.
LEMMA HeldStep ==
  ASSUME TypeOK, TargetHeld, NEW r \in Requests, NEW label,
         pc' = [pc EXCEPT ![r] = label], label # "release",
         UNCHANGED <<req, target>>,
         label \in {"claim_record", "claim_target", "done"} \/ Holding(r),
         \A k \in Keys :
           store[k].state = "completed" => store'[k].state = "completed"
  PROVE  TargetHeld'
<1>1. \A s \in Requests : Holding(s)' => Holding(s)
  BY DEF Holding, TypeOK
<1>2. \A s \in Requests : pc'[s] = "release" => pc[s] = "release"
  BY DEF TypeOK
<1>3. \A s \in Requests : Key(s)' = Key(s) /\ Token(s)' = Token(s) /\ Key(s) \in Keys
  BY DEF Key, Token, TypeOK
<1> QED BY <1>1, <1>2, <1>3 DEF TargetHeld

\* What the other threads know of their rows holds on while the rows stay.
LEMMA RowsStep ==
  ASSUME TypeOK, SubmissionInv, NEW r \in Requests,
         req' = req, db'.confirmation = db.confirmation,
         \A s \in Requests : s # r => /\ pc'[s] = pc[s] /\ result'[s] = result[s]
                                      /\ seen'[s] = seen[s],
         RowAsChecked(r)'
  PROVE  \A s \in Requests : RowAsChecked(s)'
<1> SUFFICES ASSUME NEW s \in Requests, s # r PROVE RowAsChecked(s)'
  OBVIOUS
<1>1. RowAsChecked(s)
  BY DEF SubmissionInv
<1> QED BY <1>1 DEF RowAsChecked, Submitted, Token

\* Every step keeps SubmissionInv when no statement may raise.
LEMMA SubmissionStep ==
  ASSUME MaxFaults = 0, TypeOK, OneExecutionPerKey, SubmissionInv, [Next]_vars
  PROVE  SubmissionInv'
<1> USE DEF At, Goto, Decide, NotifyAll, Wait, storeVars, dbVars
<1>a. /\ pc \in [Requests -> Labels] /\ result \in [Requests -> Results]
      /\ seen \in [Requests -> {"absent", "pending", "consumed"}]
      /\ req \in [Requests -> [key : Keys, token : Tokens, actor : Actors]]
      /\ store \in [Keys -> Records] /\ db \in Rows
      /\ target \in [Tokens -> Keys \cup {NoKey}]
  BY DEF TypeOK
<1>b. /\ NothingRaised /\ TargetHeld
      /\ \A r \in Requests : RowAsChecked(r)
      /\ \A r \in Requests : Undecided(r) => result[r].status = "none"
      /\ FirstToSubmit /\ RecordedIsReal /\ AtMostOneSubmission
  BY DEF SubmissionInv
<1>c. \A r \in Requests : Key(r) \in Keys /\ Token(r) \in Tokens
  BY <1>a DEF Key, Token
<1>1. ASSUME NEW r \in Requests, Authorize(r) PROVE SubmissionInv'
  <2> DEFINE label == IF db.brokers THEN "claim_record" ELSE "done"
  <2>1. /\ pc[r] = "authorize" /\ Undecided(r) /\ pc' = [pc EXCEPT ![r] = label]
        /\ label \in {"claim_record", "done"}
        /\ UNCHANGED <<req, store, target, db, seen, faults>>
    BY <1>1 DEF Authorize, Undecided
  <2>2. result' = [result EXCEPT ![r] =
                     IF db.brokers THEN @ ELSE Outcome(r, "unavailable")]
    BY <1>a, <1>1 DEF Authorize
  <2>3. result'[r].status \in {"none", "unavailable"}
        /\ (pc'[r] = "claim_record" => result'[r].status = "none")
    BY <1>a, <1>b, <2>1, <2>2 DEF Outcome
  <2> HIDE DEF label
  <2>4. FirstToSubmit' /\ RecordedIsReal' /\ AtMostOneSubmission'
    BY <1>a, <2>1, <2>2, <2>3, QuietStep
  <2>5. TargetHeld'
    BY <1>b, <2>1, HeldStep
  <2>6. RowAsChecked(r)'
    BY <1>a, <2>1, <2>3 DEF RowAsChecked, Submitted
  <2>7. \A s \in Requests : RowAsChecked(s)'
    BY <1>a, <2>1, <2>2, <2>6, RowsStep
  <2>8. NothingRaised' /\ \A s \in Requests : Undecided(s)' => result'[s].status = "none"
    BY <1>a, <1>b, <2>1, <2>2, <2>3 DEF NothingRaised, Undecided
  <2> QED BY <2>4, <2>5, <2>7, <2>8 DEF SubmissionInv
<1>2. ASSUME NEW r \in Requests, ClaimRecord(r) PROVE SubmissionInv'
  <2>1. /\ pc[r] = "claim_record" /\ Undecided(r)
        /\ pc' = [pc EXCEPT ![r] = "claim_target"]
        /\ UNCHANGED <<req, target, db, seen, result, faults>>
    BY <1>2 DEF ClaimRecord, Undecided
  <2>2. result[r].status = "none"
    BY <1>b, <2>1
  <2>3. /\ \A k \in Keys : store'[k].state = "completed" => store'[k] = store[k]
        /\ \A k \in Keys : store[k].state = "completed" => store'[k].state = "completed"
    BY <1>2, <1>a, <1>c DEF ClaimRecord, InProgress
  <2>4. FirstToSubmit' /\ RecordedIsReal' /\ AtMostOneSubmission'
    BY <1>a, <2>1, <2>2, <2>3, QuietStep
  <2>5. TargetHeld'
    BY <1>b, <2>1, <2>3, HeldStep
  <2>6. RowAsChecked(r)'
    BY <1>a, <2>1, <2>2 DEF RowAsChecked, Submitted
  <2>7. \A s \in Requests : RowAsChecked(s)'
    BY <1>a, <2>1, <2>6, RowsStep
  <2>8. NothingRaised' /\ \A s \in Requests : Undecided(s)' => result'[s].status = "none"
    BY <1>a, <1>b, <2>1, <2>2 DEF NothingRaised, Undecided
  <2> QED BY <2>4, <2>5, <2>7, <2>8 DEF SubmissionInv
<1>3. ASSUME NEW r \in Requests, ReplayRecord(r) PROVE SubmissionInv'
  <2> DEFINE record == store[Key(r)]
  <2>1. /\ pc[r] = "claim_record" /\ Undecided(r)
        /\ pc' = [pc EXCEPT ![r] = "done"]
        /\ result' = [result EXCEPT ![r] = record.result]
        /\ record.state = "completed" /\ record.fingerprint[1] = Token(r)
        /\ UNCHANGED <<req, store, target, db, seen, faults>>
    BY <1>3 DEF ReplayRecord, Undecided, Fingerprint, Token
  <2>2. TargetHeld'
    BY <1>b, <2>1, HeldStep
  <2>3. NothingRaised' /\ \A s \in Requests : Undecided(s)' => result'[s].status = "none"
    BY <1>a, <1>b, <2>1 DEF NothingRaised, Undecided
  <2>4. CASE record.result.status # "submitted"
    <3>1. FirstToSubmit' /\ RecordedIsReal' /\ AtMostOneSubmission'
      BY <1>a, <2>1, <2>4, QuietStep
    <3>2. RowAsChecked(r)'
      BY <1>a, <2>1, <2>4 DEF RowAsChecked, Submitted
    <3>3. \A s \in Requests : RowAsChecked(s)'
      BY <1>a, <2>1, <3>2, RowsStep
    <3> QED BY <2>2, <2>3, <3>1, <3>3 DEF SubmissionInv
  <2>5. CASE record.result.status = "submitted"
    <3>1. PICK o \in Requests : Token(o) = Token(r) /\ result[o] = record.result
      BY <1>b, <1>c, <2>1, <2>5 DEF RecordedIsReal
    <3>2. Submitted(o) /\ o # r /\ result'[r] = result[o]
      BY <1>a, <1>b, <2>1, <2>5, <3>1 DEF Submitted
    <3>3. /\ \A s \in Requests : Token(s)' = Token(s)
          /\ \A s \in Requests : s # r => pc'[s] = pc[s] /\ result'[s] = result[s]
          /\ pc'[r] = "done"
      BY <1>a, <2>1 DEF Token
    <3>4. RowAsChecked(r)'
      <4>1. db'.confirmation[Token(r)'] = "consumed"
        BY <1>b, <2>1, <3>1, <3>2, <3>3 DEF RowAsChecked
      <4> QED BY <3>3, <4>1 DEF RowAsChecked
    <3>5. \A s \in Requests : RowAsChecked(s)'
      BY <1>a, <2>1, <3>3, <3>4, RowsStep
    <3>6. FirstToSubmit'
      BY <1>b, <3>1, <3>2, <3>3 DEF FirstToSubmit, Submitted
    <3>7. AtMostOneSubmission'
      BY <1>b, <3>1, <3>2, <3>3 DEF AtMostOneSubmission, Submitted
    <3>8. RecordedIsReal'
      <4> SUFFICES ASSUME NEW k \in Keys, store[k].state = "completed",
                          store[k].result.status = "submitted"
                   PROVE  \E s \in Requests :
                            /\ Token(s)' = store[k].fingerprint[1]
                            /\ result'[s] = store[k].result
        BY <2>1 DEF RecordedIsReal
      <4>1. PICK s \in Requests : /\ Token(s) = store[k].fingerprint[1]
                                  /\ result[s] = store[k].result
        BY <1>b DEF RecordedIsReal
      <4>2. s # r
        BY <1>b, <2>1, <4>1
      <4> QED BY <3>3, <4>1, <4>2
    <3> QED BY <2>2, <2>3, <3>5, <3>6, <3>7, <3>8 DEF SubmissionInv
  <2> QED BY <2>4, <2>5
<1>4. ASSUME NEW r \in Requests, ConflictRecord(r) PROVE SubmissionInv'
  <2>1. /\ pc[r] = "claim_record" /\ Undecided(r)
        /\ pc' = [pc EXCEPT ![r] = "done"]
        /\ \A s \in Requests : s # r => pc'[s] = pc[s] /\ result'[s] = result[s]
        /\ result'[r].status = "idempotency_conflict"
        /\ UNCHANGED <<req, store, target, db, seen, faults>>
    BY <1>a, <1>4 DEF ConflictRecord, Undecided
  <2>2. FirstToSubmit' /\ RecordedIsReal' /\ AtMostOneSubmission'
    BY <1>a, <2>1, QuietStep
  <2>3. TargetHeld'
    BY <1>b, <2>1, HeldStep
  <2>4. RowAsChecked(r)'
    BY <1>a, <2>1 DEF RowAsChecked, Submitted
  <2>5. \A s \in Requests : RowAsChecked(s)'
    BY <2>1, <2>4, RowsStep
  <2>6. NothingRaised' /\ \A s \in Requests : Undecided(s)' => result'[s].status = "none"
    BY <1>a, <1>b, <2>1 DEF NothingRaised, Undecided
  <2> QED BY <2>2, <2>3, <2>5, <2>6 DEF SubmissionInv
<1>5. ASSUME NEW r \in Requests, ClaimTarget(r) PROVE SubmissionInv'
  <2>1. /\ pc[r] = "claim_target" /\ Undecided(r)
        /\ pc' = [pc EXCEPT ![r] = "read_confirmation"]
        /\ UNCHANGED <<req, store, db, seen, result, faults>>
    BY <1>5 DEF ClaimTarget, Undecided
  <2>2. result[r].status = "none"
    BY <1>b, <2>1
  <2>3. FirstToSubmit' /\ RecordedIsReal' /\ AtMostOneSubmission'
    BY <1>a, <2>1, <2>2, QuietStep
  <2>4. TargetHeld'
    <3>1. \A s \in Requests : Key(s)' = Key(s) /\ Token(s)' = Token(s)
      BY <2>1 DEF Key, Token
    <3>2. \A s \in Requests : Holding(s) /\ Token(s) = Token(r) => Key(s) = Key(r)
      BY <1>b, <1>c, <1>5, ConstantsAssumption DEF ClaimTarget, TargetHeld
    <3>3. \A s \in Requests : Holding(s)' => s = r \/ Holding(s)
      BY <1>a, <2>1 DEF Holding
    <3>4. \A s \in Requests : Holding(s)' => target'[Token(s)] = Key(s)
      BY <1>a, <1>b, <1>c, <1>5, <3>2, <3>3 DEF ClaimTarget, TargetHeld
    <3>5. \A s \in Requests : pc'[s] = "release" => pc[s] = "release"
      BY <1>a, <2>1
    <3> QED BY <1>b, <2>1, <3>1, <3>4, <3>5 DEF TargetHeld
  <2>5. RowAsChecked(r)'
    BY <1>a, <2>1, <2>2 DEF RowAsChecked, Submitted
  <2>6. \A s \in Requests : RowAsChecked(s)'
    BY <1>a, <2>1, <2>5, RowsStep
  <2>7. NothingRaised' /\ \A s \in Requests : Undecided(s)' => result'[s].status = "none"
    BY <1>a, <1>b, <2>1, <2>2 DEF NothingRaised, Undecided
  <2> QED BY <2>3, <2>4, <2>6, <2>7 DEF SubmissionInv
<1>6. ASSUME NEW r \in Requests, ReadConfirmation(r) PROVE SubmissionInv'
  <2> DEFINE row == db.confirmation[Token(r)]
             label == IF row = "absent" THEN "complete" ELSE "read_quote"
  <2>1. /\ pc[r] = "read_confirmation" /\ Undecided(r) /\ Holding(r)
        /\ pc' = [pc EXCEPT ![r] = label]
        /\ label \in {"complete", "read_quote"}
        /\ seen' = [seen EXCEPT ![r] = row]
        /\ UNCHANGED <<req, store, target, db, faults>>
    BY <1>6 DEF ReadConfirmation, Undecided, Holding
  <2>2. result' = [result EXCEPT ![r] = IF row = "absent"
                     THEN Outcome(r, "unsupported_or_missing_confirmation")
                     ELSE @]
    BY <1>a, <1>6 DEF ReadConfirmation
  <2>3. result'[r].status \in {"none", "unsupported_or_missing_confirmation"}
        /\ (pc'[r] = "read_quote" => result'[r].status = "none")
    BY <1>a, <1>b, <2>1, <2>2 DEF Outcome
  <2> HIDE DEF label
  <2>4. FirstToSubmit' /\ RecordedIsReal' /\ AtMostOneSubmission'
    BY <1>a, <2>1, <2>2, <2>3, QuietStep
  <2>5. TargetHeld'
    BY <1>b, <2>1, HeldStep
  <2>6. RowAsChecked(r)'
    BY <1>a, <2>1, <2>3 DEF RowAsChecked, Submitted, Token
  <2>7. \A s \in Requests : RowAsChecked(s)'
    BY <1>a, <2>1, <2>2, <2>6, RowsStep
  <2>8. NothingRaised' /\ \A s \in Requests : Undecided(s)' => result'[s].status = "none"
    BY <1>a, <1>b, <2>1, <2>2, <2>3 DEF NothingRaised, Undecided
  <2> QED BY <2>4, <2>5, <2>7, <2>8 DEF SubmissionInv
<1>7. ASSUME NEW r \in Requests, ReadQuote(r) PROVE SubmissionInv'
  <2> DEFINE label == IF StillValid(r) THEN "update_quote" ELSE "complete"
  <2>1. /\ pc[r] = "read_quote" /\ Undecided(r) /\ Holding(r)
        /\ pc' = [pc EXCEPT ![r] = label]
        /\ label \in {"complete", "update_quote"}
        /\ UNCHANGED <<req, store, target, db, seen, faults>>
    BY <1>7 DEF ReadQuote, Undecided, Holding
  <2>2. result' = [result EXCEPT ![r] = IF StillValid(r) THEN @
                                        ELSE Outcome(r, "stale_state")]
    BY <1>a, <1>7 DEF ReadQuote
  <2>3. result'[r].status \in {"none", "stale_state"}
        /\ (pc'[r] = "update_quote" => result'[r].status = "none")
    BY <1>a, <1>b, <2>1, <2>2 DEF Outcome
  <2>4. pc'[r] = "update_quote" => db.confirmation[Token(r)] = "pending"
    BY <1>a, <1>b, <2>1 DEF StillValid, RowAsChecked
  <2> HIDE DEF label
  <2>5. pc'[r] = "update_quote" =>
          \A s \in Requests : Token(s) = Token(r) => ~Submitted(s)
    BY <1>b, <2>4 DEF RowAsChecked
  <2>6. FirstToSubmit' /\ RecordedIsReal' /\ AtMostOneSubmission'
    BY <1>a, <2>1, <2>2, <2>3, <2>5, QuietStep
  <2>7. TargetHeld'
    BY <1>b, <2>1, HeldStep
  <2>8. RowAsChecked(r)'
    BY <1>a, <2>1, <2>3, <2>4 DEF RowAsChecked, Submitted, Token
  <2>9. \A s \in Requests : RowAsChecked(s)'
    BY <1>a, <2>1, <2>2, <2>8, RowsStep
  <2>10. NothingRaised' /\ \A s \in Requests : Undecided(s)' => result'[s].status = "none"
    BY <1>a, <1>b, <2>1, <2>2, <2>3 DEF NothingRaised, Undecided
  <2> QED BY <2>6, <2>7, <2>9, <2>10 DEF SubmissionInv
<1>8. ASSUME NEW r \in Requests, UpdateQuote(r) PROVE SubmissionInv'
  <2>1. /\ pc[r] = "update_quote" /\ Undecided(r) /\ Holding(r)
        /\ pc' = [pc EXCEPT ![r] = "update_confirmation"]
        /\ db'.confirmation = db.confirmation
        /\ UNCHANGED <<req, store, target, seen, result, faults>>
    BY <1>a, <1>8 DEF UpdateQuote, Undecided, Holding, Rows
  <2>2. result[r].status = "none" /\ RowAsChecked(r)
    BY <1>b, <2>1
  <2>3. \A s \in Requests : Token(s) = Token(r) => ~Submitted(s)
    BY <1>b, <2>1 DEF FirstToSubmit
  <2>4. FirstToSubmit' /\ RecordedIsReal' /\ AtMostOneSubmission'
    BY <1>a, <2>1, <2>2, <2>3, QuietStep
  <2>5. TargetHeld'
    BY <1>b, <2>1, HeldStep
  <2>6. RowAsChecked(r)'
    BY <1>a, <2>1, <2>2 DEF RowAsChecked, Submitted, Token
  <2>7. \A s \in Requests : RowAsChecked(s)'
    BY <1>a, <2>1, <2>6, RowsStep
  <2>8. NothingRaised' /\ \A s \in Requests : Undecided(s)' => result'[s].status = "none"
    BY <1>a, <1>b, <2>1, <2>2 DEF NothingRaised, Undecided
  <2> QED BY <2>4, <2>5, <2>7, <2>8 DEF SubmissionInv
<1>9. ASSUME NEW r \in Requests, UpdateConfirmation(r) PROVE SubmissionInv'
  <2>1. /\ pc[r] = "update_confirmation" /\ Undecided(r) /\ Holding(r)
        /\ pc' = [pc EXCEPT ![r] = "commit"]
        /\ UNCHANGED <<req, store, target, seen, result, faults>>
    BY <1>9 DEF UpdateConfirmation, Undecided, Holding
  <2>2. result[r].status = "none" /\ db.confirmation[Token(r)] = "pending"
    BY <1>b, <2>1 DEF RowAsChecked
  <2>3. db'.confirmation = [db.confirmation EXCEPT ![Token(r)] = "consumed"]
    BY <1>a, <1>c, <1>9, <2>2 DEF UpdateConfirmation, Rows
  <2>4. \A s \in Requests : Token(s) = Token(r) => ~Submitted(s)
    BY <1>b, <2>1 DEF FirstToSubmit
  <2>5. FirstToSubmit' /\ RecordedIsReal' /\ AtMostOneSubmission'
    BY <1>a, <2>1, <2>2, <2>4, QuietStep
  <2>6. TargetHeld'
    BY <1>b, <2>1, HeldStep
  <2>7. \A s \in Requests : RowAsChecked(s)'
    <3>1. db.confirmation \in [Tokens -> {"absent", "pending", "consumed"}]
      BY <1>a DEF Rows
    <3>2. \A s \in Requests : Token(s)' = Token(s)
      BY <2>1 DEF Token
    <3>3. RowAsChecked(r)'
      BY <1>a, <1>c, <2>1, <2>2, <2>3, <3>1, <3>2 DEF RowAsChecked, Submitted
    <3>4. ASSUME NEW s \in Requests, s # r PROVE RowAsChecked(s)'
      <4>1. pc'[s] = pc[s] /\ result'[s] = result[s] /\ seen'[s] = seen[s]
        BY <1>a, <2>1, <3>4
      <4>2. CASE Token(s) # Token(r)
        BY <1>b, <1>c, <2>3, <3>1, <3>2, <4>1, <4>2 DEF RowAsChecked, Submitted
      <4>3. CASE Token(s) = Token(r)
        <5>1. ~Holding(s) /\ ~Submitted(s)
          BY <1>b, <2>1, <2>4, <3>4, <4>3, AloneWithToken
        <5> QED BY <4>1, <5>1 DEF RowAsChecked, Submitted, Holding
      <4> QED BY <4>2, <4>3
    <3> QED BY <3>3, <3>4
  <2>8. NothingRaised' /\ \A s \in Requests : Undecided(s)' => result'[s].status = "none"
    BY <1>a, <1>b, <2>1, <2>2 DEF NothingRaised, Undecided
  <2> QED BY <2>5, <2>6, <2>7, <2>8 DEF SubmissionInv
<1>10. ASSUME NEW r \in Requests, Commit(r) PROVE SubmissionInv'
  <2>1. /\ pc[r] = "commit" /\ Undecided(r) /\ Holding(r)
        /\ pc' = [pc EXCEPT ![r] = "complete"]
        /\ result' = [result EXCEPT ![r] = Outcome(r, "submitted")]
        /\ UNCHANGED <<req, store, target, db, seen, faults>>
    BY <1>10 DEF Commit, Undecided, Holding
  <2>2. /\ \A s \in Requests : Token(s)' = Token(s)
        /\ \A s \in Requests : s # r => pc'[s] = pc[s] /\ result'[s] = result[s]
        /\ pc'[r] = "complete"
    BY <1>a, <2>1 DEF Token
  <2>3. db.confirmation[Token(r)] = "consumed" /\ result[r].status = "none"
    BY <1>b, <2>1 DEF RowAsChecked
  <2>4. \A s \in Requests : Token(s) = Token(r) => ~Submitted(s)
    BY <1>b, <2>1 DEF FirstToSubmit
  <2>5. \A s \in Requests : Token(s) = Token(r) /\ Holding(s) => s = r
    BY <1>b, <2>1, AloneWithToken
  <2>6. TargetHeld'
    BY <1>b, <2>1, HeldStep
  <2>7. RowAsChecked(r)'
    BY <2>1, <2>2, <2>3 DEF RowAsChecked
  <2>8. \A s \in Requests : RowAsChecked(s)'
    BY <1>a, <2>1, <2>7, RowsStep
  <2>9. FirstToSubmit'
    BY <1>b, <2>2, <2>5 DEF FirstToSubmit, Submitted, Holding
  <2>10. AtMostOneSubmission'
    BY <1>b, <2>2, <2>4 DEF AtMostOneSubmission, Submitted
  <2>11. RecordedIsReal'
    <3> SUFFICES ASSUME NEW k \in Keys, store[k].state = "completed",
                        store[k].result.status = "submitted"
                 PROVE  \E s \in Requests :
                          /\ Token(s)' = store[k].fingerprint[1]
                          /\ result'[s] = store[k].result
      BY <2>1 DEF RecordedIsReal
    <3>1. PICK s \in Requests : /\ Token(s) = store[k].fingerprint[1]
                                /\ result[s] = store[k].result
      BY <1>b DEF RecordedIsReal
    <3>2. s # r
      BY <2>3, <3>1
    <3> QED BY <2>2, <3>1, <3>2
  <2>12. NothingRaised' /\ \A s \in Requests : Undecided(s)' => result'[s].status = "none"
    BY <1>a, <1>b, <2>1, <2>2 DEF NothingRaised, Undecided
  <2> QED BY <2>6, <2>8, <2>9, <2>10, <2>11, <2>12 DEF SubmissionInv
<1>11. ASSUME NEW r \in Requests, CompleteRecord(r) PROVE SubmissionInv'
  <2>1. pc[r] = "complete" /\ Holding(r) /\ Executing(r)
    BY <1>11 DEF CompleteRecord, Holding, Executing, Labels
  <2>2. /\ pc' = [pc EXCEPT ![r] = "release"]
        /\ store' = [store EXCEPT ![Key(r)] = Completed(r)]
        /\ UNCHANGED <<req, target, db, seen, result, faults>>
    BY <1>11, <2>1 DEF CompleteRecord, Completable, OneExecutionPerKey
  <2>3. /\ \A s \in Requests : Token(s)' = Token(s) /\ Key(s)' = Key(s)
        /\ \A s \in Requests : s # r => pc'[s] = pc[s]
        /\ pc'[r] = "release"
    BY <1>a, <2>2 DEF Token, Key
  <2>4. /\ store'[Key(r)].state = "completed"
        /\ store'[Key(r)].fingerprint[1] = Token(r)
        /\ store'[Key(r)].result = result[r]
    BY <1>a, <1>c, <2>2 DEF Completed, Fingerprint, Token
  <2>5. \A k \in Keys : k # Key(r) => store'[k] = store[k]
    BY <1>a, <2>2
  <2>6. \A s \in Requests : pc[s] = "release" => Key(s) # Key(r)
    BY <1>b, <2>1, ExecutingIsInProgress DEF TargetHeld
  <2>7. TargetHeld'
    <3>1. \A s \in Requests : Holding(s)' => Holding(s)
      BY <2>1, <2>3 DEF Holding
    <3> QED BY <1>b, <1>c, <2>2, <2>3, <2>4, <2>5, <2>6, <3>1 DEF TargetHeld
  <2>8. RowAsChecked(r)'
    BY <1>b, <2>2, <2>3 DEF RowAsChecked, Submitted
  <2>9. \A s \in Requests : RowAsChecked(s)'
    BY <1>a, <2>2, <2>3, <2>8, RowsStep
  <2>10. FirstToSubmit' /\ AtMostOneSubmission'
    BY <1>b, <2>2, <2>3 DEF FirstToSubmit, AtMostOneSubmission, Submitted
  <2>11. RecordedIsReal'
    BY <1>b, <2>2, <2>3, <2>4, <2>5 DEF RecordedIsReal
  <2>12. NothingRaised' /\ \A s \in Requests : Undecided(s)' => result'[s].status = "none"
    BY <1>b, <2>2, <2>3 DEF NothingRaised, Undecided
  <2> QED BY <2>7, <2>9, <2>10, <2>11, <2>12 DEF SubmissionInv
<1>12. ASSUME NEW r \in Requests, ReleaseTarget(r) PROVE SubmissionInv'
  <2>1. /\ pc[r] = "release" /\ Holding(r)
        /\ pc' = [pc EXCEPT ![r] = "done"]
        /\ UNCHANGED <<req, store, db, seen, result, faults>>
    BY <1>12 DEF ReleaseTarget, Holding
  <2>2. /\ \A s \in Requests : Token(s)' = Token(s) /\ Key(s)' = Key(s)
        /\ \A s \in Requests : s # r => pc'[s] = pc[s]
        /\ pc'[r] = "done"
    BY <1>a, <2>1 DEF Token, Key
  <2>3. \A s \in Requests : Holding(s)' => s # r /\ Holding(s)
    BY <2>2 DEF Holding
  <2>4. \A t \in Tokens : t # Token(r) => target'[t] = target[t]
    BY <1>a, <1>12 DEF ReleaseTarget
  <2>5. TargetHeld'
    <3>1. ASSUME NEW s \in Requests, Holding(s)' PROVE target'[Token(s)] = Key(s)
      <4>1. Token(s) # Token(r)
        BY <1>b, <2>1, <2>3, <3>1, AloneWithToken
      <4> QED BY <1>b, <1>c, <2>3, <2>4, <3>1, <4>1 DEF TargetHeld
    <3> QED BY <1>b, <2>1, <2>2, <3>1 DEF TargetHeld
  <2>6. RowAsChecked(r)'
    BY <1>b, <2>1, <2>2 DEF RowAsChecked, Submitted
  <2>7. \A s \in Requests : RowAsChecked(s)'
    BY <1>a, <2>1, <2>2, <2>6, RowsStep
  <2>8. FirstToSubmit' /\ AtMostOneSubmission' /\ RecordedIsReal'
    BY <1>b, <2>1, <2>2
    DEF FirstToSubmit, AtMostOneSubmission, RecordedIsReal, Submitted
  <2>9. NothingRaised' /\ \A s \in Requests : Undecided(s)' => result'[s].status = "none"
    BY <1>b, <2>1, <2>2 DEF NothingRaised, Undecided
  <2> QED BY <2>5, <2>7, <2>8, <2>9 DEF SubmissionInv
<1>13. ASSUME NEW r \in Requests, Fault(r) \/ Rollback(r) \/ AbandonRecord(r)
       PROVE  SubmissionInv'
  BY <1>b, <1>13 DEF Fault, Rollback, AbandonRecord, NothingRaised, TypeOK
<1>14. ASSUME UNCHANGED <<pc, req, store, target, db, seen, result, faults>>
       PROVE  SubmissionInv'
  BY <1>b, <1>14
  DEF SubmissionInv, NothingRaised, TargetHeld, RowAsChecked, Undecided,
      FirstToSubmit, RecordedIsReal, AtMostOneSubmission, Submitted, Holding,
      Key, Token
<1>15. CASE \/ \E r \in Requests : AwaitRecord(r) \/ AwaitTarget(r)
            \/ \E t \in Tokens : Expire(t)
            \/ Terminating \/ UNCHANGED vars
  BY <1>14, <1>15 DEF AwaitRecord, AwaitTarget, Expire, Terminating, vars
<1> QED
  BY <1>1, <1>2, <1>3, <1>4, <1>5, <1>6, <1>7, <1>8, <1>9, <1>10, <1>11,
     <1>12, <1>13, <1>15
  DEF Next, Step

LEMMA SubmissionAlways ==
  ASSUME MaxFaults = 0
  PROVE  Spec => [](TypeOK /\ OneExecutionPerKey /\ SubmissionInv)
<1>1. Init => SubmissionInv
  BY DEF Init, SubmissionInv, NothingRaised, TargetHeld, RowAsChecked, Holding,
         Undecided, FirstToSubmit, RecordedIsReal, AtMostOneSubmission,
         Submitted, Outcome, NoRecord
<1>2. TypeOK /\ OneExecutionPerKey /\ SubmissionInv /\ [Next]_vars
        => SubmissionInv'
  BY SubmissionStep
<1> QED
  BY <1>1, <1>2, TypeCorrect, KeyIsOwned, PTL DEF Spec

\* When no statement raises, confirming a booking is safe against every
\* interleaving: for each token, all who are told "submitted" are told of one
\* and the same execution, whatever keys they used.
THEOREM OneSubmission ==
  ASSUME MaxFaults = 0
  PROVE  Spec => []AtMostOneSubmission
<1>1. SubmissionInv => AtMostOneSubmission
  BY DEF SubmissionInv
<1> QED
  BY <1>1, SubmissionAlways, PTL

=============================================================================
