--------------------------- MODULE BookingGateway ---------------------------
(***************************************************************************)
(* POST /actions/confirm: concurrent confirmations of bookings.            *)
(*                                                                         *)
(* Every request runs post_confirm_action in a thread of its own; all of   *)
(* them share the idempotency store, the table of target claims, one       *)
(* condition variable for both, and ONE sqlite connection, hence one open  *)
(* transaction.  A step of a thread is what it does between two points     *)
(* where another thread may run: a call of the idempotency store (under    *)
(* its condition) or one statement on the connection.                      *)
(*                                                                         *)
(* The pair (broker, office) of a request is one value, its actor; the     *)
(* fingerprint action|token|broker|office is the pair (token, actor).      *)
(***************************************************************************)
EXTENDS Naturals, FiniteSets

CONSTANTS
  Requests,      \* the confirm requests (a thread each)
  Keys,          \* idempotency keys
  Tokens,        \* confirmation tokens
  Quotes,        \* quote ids
  Actors,        \* (broker, office) pairs
  NoKey,         \* no thread has claimed the target
  QuoteOf,       \* the quote a confirmation row names
  ConfirmedFor,  \* the actor a confirmation row was issued to
  QuotedFor,     \* the actor a quote row belongs to
  TermsAgree,    \* tokens whose carrier and pickup date match their quote's
  MaxFaults      \* bound on statements that raise

ASSUME ConstantsAssumption ==
  /\ NoKey \notin Keys
  /\ QuoteOf \in [Tokens -> Quotes]
  /\ ConfirmedFor \in [Tokens -> Actors]
  /\ QuotedFor \in [Quotes -> Actors]
  /\ TermsAgree \subseteq Tokens
  /\ MaxFaults \in Nat

VARIABLES
  pc,             \* where each thread is
  req,            \* what each request asks for
  store,          \* the idempotency store: key -> record
  target,         \* _TARGET_CLAIMS: token -> key of the claimant
  waiting,        \* threads inside condition.wait()
  db,             \* the rows as the shared connection sees them
  saved,          \* the rows as of the last commit
  inTransaction,  \* connection.in_transaction
  undone,         \* history: threads that another's rollback ran into between
                  \* their check of the quote and their commit
  expired,        \* tokens whose expires_at has passed
  seen,           \* confirmation_status in the Row each thread fetched
  result,         \* what each thread has decided to return
  faults          \* statements that have raised so far

dbVars == <<db, saved, inTransaction, undone>>
storeVars == <<store, target, waiting>>
vars == <<pc, req, store, target, waiting, db, saved, inTransaction, undone,
          expired, seen, result, faults>>

-----------------------------------------------------------------------------
Key(r) == req[r].key
Token(r) == req[r].token

\* _request_fingerprint
Fingerprint(r) == <<req[r].token, req[r].actor>>
Fingerprints == Tokens \X Actors

\* A result; `by' is the request whose execution produced it, which is what
\* its audit stamp (outcome_recorded_at) tells apart.
Statuses == {"none", "submitted", "unsupported_or_missing_confirmation",
             "stale_state", "idempotency_conflict", "unavailable", "error"}
Results == [status : Statuses, by : Requests]
Outcome(r, status) == [status |-> status, by |-> r]

NoRecord == [state |-> "absent"]
InProgress(r) == [state |-> "in_progress", fingerprint |-> Fingerprint(r)]
Completed(r) == [state |-> "completed", fingerprint |-> Fingerprint(r),
                 result |-> result[r]]
Records == {NoRecord}
             \cup [state : {"in_progress"}, fingerprint : Fingerprints]
             \cup [state : {"completed"}, fingerprint : Fingerprints,
                   result : Results]

\* The rows booking touches or reads; brokers says whether the broker rows
\* that the route checks an identity against are there.
Rows == [confirmation : [Tokens -> {"absent", "pending", "consumed"}],
         quote : [Quotes -> {"absent", "eligible_for_booking", "booked"}],
         brokers : BOOLEAN]
NoRows == [confirmation |-> [t \in Tokens |-> "absent"],
           quote |-> [q \in Quotes |-> "absent"],
           brokers |-> FALSE]

\* The seeded rows.  build_seeded_read_connection inserts them without a
\* commit, so they are part of an open transaction (saved = NoRows) until the
\* first booking commits (saved = db: a server that has booked before).
Init ==
  /\ pc = [r \in Requests |-> "authorize"]
  /\ req \in [Requests -> [key : Keys, token : Tokens, actor : Actors]]
  /\ store = [k \in Keys |-> NoRecord]
  /\ target = [t \in Tokens |-> NoKey]
  /\ waiting = {}
  /\ db \in [confirmation : [Tokens -> {"absent", "pending"}],
             quote : [Quotes -> {"absent", "eligible_for_booking"}],
             brokers : {TRUE}]
  /\ saved \in {NoRows, db}
  /\ inTransaction = (saved # db)
  /\ undone = {}
  /\ expired = {}
  /\ seen = [r \in Requests |-> "absent"]
  /\ result = [r \in Requests |-> Outcome(r, "none")]
  /\ faults = 0

-----------------------------------------------------------------------------
(* Helpers: a thread that runs, moves on, decides, or wakes the others.    *)

At(r, label) == pc[r] = label /\ r \notin waiting

Goto(r, label) == pc' = [pc EXCEPT ![r] = label]

Decide(r, outcome, label) ==
  /\ result' = [result EXCEPT ![r] = outcome]
  /\ Goto(r, label)

NotifyAll == waiting' = {}

Wait(r) == waiting' = waiting \cup {r}

-----------------------------------------------------------------------------
(* _trusted_action_identity: both the seeded development identity and a    *)
(* trusted one must be found among the broker rows (503 or 403 otherwise). *)
Authorize(r) ==
  /\ At(r, "authorize")
  /\ \/ /\ db.brokers
        /\ Goto(r, "claim_record")
        /\ UNCHANGED result
     \/ /\ ~db.brokers
        /\ Decide(r, Outcome(r, "unavailable"), "done")
  /\ UNCHANGED <<req, storeVars, dbVars, expired, seen, faults>>

\* Mutant: the store is asked only whether the key is free or completed, so a
\* key in progress is claimed again.
ClaimRecordInProgress(r) ==
  /\ At(r, "claim_record")
  /\ store[Key(r)].state # "completed"
  /\ store' = [store EXCEPT ![Key(r)] = InProgress(r)]
  /\ Goto(r, "claim_target")
  /\ UNCHANGED <<req, target, waiting, dbVars, expired, seen, result, faults>>

\* Mutant: a completed key is executed again.
ClaimRecordCompleted(r) ==
  /\ At(r, "claim_record")
  /\ store[Key(r)].state # "in_progress"
  /\ store' = [store EXCEPT ![Key(r)] = InProgress(r)]
  /\ Goto(r, "claim_target")
  /\ UNCHANGED <<req, target, waiting, dbVars, expired, seen, result, faults>>

(* claim_record: the first caller of a key executes ...                    *)
ClaimRecord(r) ==
  /\ At(r, "claim_record")
  /\ store[Key(r)].state = "absent"
  /\ store' = [store EXCEPT ![Key(r)] = InProgress(r)]
  /\ Goto(r, "claim_target")
  /\ UNCHANGED <<req, target, waiting, dbVars, expired, seen, result, faults>>

\* Mutant: a replay stamps its audit afresh.
ReplayRecordRestamped(r) ==
  /\ At(r, "claim_record")
  /\ store[Key(r)].state = "completed"
  /\ store[Key(r)].fingerprint = Fingerprint(r)
  /\ Decide(r, Outcome(r, store[Key(r)].result.status), "done")
  /\ UNCHANGED <<req, storeVars, dbVars, expired, seen, faults>>

\* Mutant: a replay does not compare the request with the recorded one.
ReplayRecordOfAnother(r) ==
  /\ At(r, "claim_record")
  /\ store[Key(r)].state = "completed"
  /\ Decide(r, store[Key(r)].result, "done")
  /\ UNCHANGED <<req, storeVars, dbVars, expired, seen, faults>>

(* ... a later one replays the recorded result, or is told that the key    *)
(* was used for something else ...                                         *)
ReplayRecord(r) ==
  /\ At(r, "claim_record")
  /\ store[Key(r)].state = "completed"
  /\ store[Key(r)].fingerprint = Fingerprint(r)
  /\ Decide(r, store[Key(r)].result, "done")
  /\ UNCHANGED <<req, storeVars, dbVars, expired, seen, faults>>

ConflictRecord(r) ==
  /\ At(r, "claim_record")
  /\ store[Key(r)].state = "completed"
  /\ store[Key(r)].fingerprint # Fingerprint(r)
  /\ Decide(r, [status |-> "idempotency_conflict",
                by |-> store[Key(r)].result.by], "done")
  /\ UNCHANGED <<req, storeVars, dbVars, expired, seen, faults>>

(* ... and one that finds the key in progress, under whatever fingerprint, *)
(* waits.                                                                  *)
AwaitRecord(r) ==
  /\ At(r, "claim_record")
  /\ store[Key(r)].state = "in_progress"
  /\ Wait(r)
  /\ UNCHANGED <<pc, req, store, target, dbVars, expired, seen, result, faults>>

\* Mutant: the claim does not look at the claimant.
ClaimTargetAnyway(r) ==
  /\ At(r, "claim_target")
  /\ target' = [target EXCEPT ![Token(r)] = Key(r)]
  /\ Goto(r, "read_confirmation")
  /\ UNCHANGED <<req, store, waiting, dbVars, expired, seen, result, faults>>

\* Mutant: the claim records the token instead of the key.
ClaimTargetByToken(r) ==
  /\ At(r, "claim_target")
  /\ target[Token(r)] \in {NoKey, Key(r)}
  /\ target' = [target EXCEPT ![Token(r)] = Token(r)]
  /\ Goto(r, "read_confirmation")
  /\ UNCHANGED <<req, store, waiting, dbVars, expired, seen, result, faults>>

(* claim_target_execution: free, or already claimed under this very key.   *)
ClaimTarget(r) ==
  /\ At(r, "claim_target")
  /\ target[Token(r)] \in {NoKey, Key(r)}
  /\ target' = [target EXCEPT ![Token(r)] = Key(r)]
  /\ Goto(r, "read_confirmation")
  /\ UNCHANGED <<req, store, waiting, dbVars, expired, seen, result, faults>>

AwaitTarget(r) ==
  /\ At(r, "claim_target")
  /\ target[Token(r)] \notin {NoKey, Key(r)}
  /\ Wait(r)
  /\ UNCHANGED <<pc, req, store, target, dbVars, expired, seen, result, faults>>

-----------------------------------------------------------------------------
(* _confirmation_row, and the denial when there is none.                   *)
ReadConfirmation(r) ==
  /\ At(r, "read_confirmation")
  /\ seen' = [seen EXCEPT ![r] = db.confirmation[Token(r)]]
  /\ \/ /\ db.confirmation[Token(r)] = "absent"
        /\ Decide(r, Outcome(r, "unsupported_or_missing_confirmation"),
                  "complete")
     \/ /\ db.confirmation[Token(r)] # "absent"
        /\ Goto(r, "read_quote")
        /\ UNCHANGED result
  /\ UNCHANGED <<req, storeVars, dbVars, expired, faults>>

(* _stale_result_if_needed: the confirmation is the Row fetched before, the*)
(* quote is read now; a missing quote row is not eligible.                 *)
StillValid(r) ==
  LET t == Token(r)
      q == QuoteOf[t]
  IN /\ ConfirmedFor[t] = req[r].actor
     /\ seen[r] = "pending"
     /\ t \notin expired
     /\ db.quote[q] = "eligible_for_booking"
     /\ QuotedFor[q] = req[r].actor
     /\ t \in TermsAgree

\* Mutant: the stale branch uses the confirmation up.
ReadQuoteConsumes(r) ==
  /\ At(r, "read_quote")
  /\ \/ /\ StillValid(r)
        /\ Goto(r, "update_quote")
        /\ UNCHANGED <<result, dbVars>>
     \/ /\ ~StillValid(r)
        /\ Decide(r, Outcome(r, "stale_state"), "complete")
        /\ db' = [db EXCEPT !.confirmation[Token(r)] = "consumed"]
        /\ inTransaction' = TRUE
        /\ UNCHANGED <<saved, undone>>
  /\ UNCHANGED <<req, storeVars, expired, seen, faults>>

ReadQuote(r) ==
  /\ At(r, "read_quote")
  /\ \/ /\ StillValid(r)
        /\ Goto(r, "update_quote")
        /\ UNCHANGED result
     \/ /\ ~StillValid(r)
        /\ Decide(r, Outcome(r, "stale_state"), "complete")
  /\ UNCHANGED <<req, storeVars, dbVars, expired, seen, faults>>

(* The two UPDATEs (an UPDATE of a missing row changes nothing, yet opens  *)
(* a transaction) and the commit of whatever the connection holds.         *)
UpdateQuote(r) ==
  LET q == QuoteOf[Token(r)]
  IN /\ At(r, "update_quote")
     /\ db' = [db EXCEPT !.quote[q] = IF @ = "absent" THEN @ ELSE "booked"]
     /\ inTransaction' = TRUE
     /\ Goto(r, "update_confirmation")
     /\ UNCHANGED <<req, storeVars, saved, undone, expired, seen, result, faults>>

UpdateConfirmation(r) ==
  /\ At(r, "update_confirmation")
  /\ db' = [db EXCEPT !.confirmation[Token(r)] =
              IF @ = "absent" THEN @ ELSE "consumed"]
  /\ inTransaction' = TRUE
  /\ Goto(r, "commit")
  /\ UNCHANGED <<req, storeVars, saved, undone, expired, seen, result, faults>>

\* Mutant: the commit is forgotten.
CommitForgotten(r) ==
  /\ At(r, "commit")
  /\ Decide(r, Outcome(r, "submitted"), "complete")
  /\ UNCHANGED <<req, storeVars, dbVars, expired, seen, faults>>

Commit(r) ==
  /\ At(r, "commit")
  /\ saved' = db
  /\ inTransaction' = FALSE
  /\ Decide(r, Outcome(r, "submitted"), "complete")
  /\ UNCHANGED <<req, storeVars, db, undone, expired, seen, faults>>

-----------------------------------------------------------------------------
(* complete_record: raises when the key is held by another execution.      *)
Completable(r) ==
  store[Key(r)] \in {NoRecord, InProgress(r)}

CompleteRecord(r) ==
  /\ At(r, "complete")
  /\ IF Completable(r)
     THEN /\ store' = [store EXCEPT ![Key(r)] = Completed(r)]
          /\ NotifyAll
          /\ Goto(r, "release")
     ELSE /\ Goto(r, "rollback")
          /\ UNCHANGED <<store, waiting>>
  /\ UNCHANGED <<req, target, dbVars, expired, seen, result, faults>>

(* A statement, the expiry parse, or the hook before the submit raises.    *)
Fault(r) ==
  /\ pc[r] \in {"read_confirmation", "read_quote", "update_quote",
                "update_confirmation", "commit"}
  /\ faults < MaxFaults
  /\ faults' = faults + 1
  /\ Goto(r, "rollback")
  /\ UNCHANGED <<req, storeVars, dbVars, expired, seen, result>>

\* The points between the check of the quote row and the commit.
Booking == {"update_quote", "update_confirmation", "commit"}

(* The except branch: undo whatever the connection holds, of any thread,   *)
(* then give the key up.                                                   *)
Rollback(r) ==
  /\ At(r, "rollback")
  /\ IF inTransaction
     THEN /\ db' = saved
          /\ undone' = undone \cup {s \in Requests : pc[s] \in Booking}
     ELSE UNCHANGED <<db, undone>>
  /\ inTransaction' = FALSE
  /\ Goto(r, "abandon")
  /\ UNCHANGED <<req, storeVars, saved, expired, seen, result, faults>>

AbandonRecord(r) ==
  /\ At(r, "abandon")
  /\ IF store[Key(r)] = InProgress(r)
     THEN store' = [store EXCEPT ![Key(r)] = NoRecord] /\ NotifyAll
     ELSE UNCHANGED <<store, waiting>>
  /\ Decide(r, Outcome(r, "error"), "release")
  /\ UNCHANGED <<req, target, dbVars, expired, seen, faults>>

\* Mutant: the release wakes nobody.
ReleaseTargetSilently(r) ==
  /\ At(r, "release")
  /\ target' = [target EXCEPT ![Token(r)] = IF @ = Key(r) THEN NoKey ELSE @]
  /\ Goto(r, "done")
  /\ UNCHANGED <<req, store, waiting, dbVars, expired, seen, result, faults>>

(* The finally branch, then the response.                                  *)
ReleaseTarget(r) ==
  /\ At(r, "release")
  /\ IF target[Token(r)] = Key(r)
     THEN target' = [target EXCEPT ![Token(r)] = NoKey] /\ NotifyAll
     ELSE UNCHANGED <<target, waiting>>
  /\ Goto(r, "done")
  /\ UNCHANGED <<req, store, dbVars, expired, seen, result, faults>>

(* The clock passes a confirmation's expires_at.                           *)
Expire(t) ==
  /\ t \notin expired
  /\ expired' = expired \cup {t}
  /\ UNCHANGED <<pc, req, storeVars, dbVars, seen, result, faults>>

Terminating ==
  /\ \A r \in Requests : pc[r] = "done"
  /\ UNCHANGED vars

-----------------------------------------------------------------------------
Step(r) ==
  \/ Authorize(r)
  \/ ClaimRecord(r) \/ ReplayRecord(r) \/ ConflictRecord(r) \/ AwaitRecord(r)
  \/ ClaimTarget(r) \/ AwaitTarget(r)
  \/ ReadConfirmation(r) \/ ReadQuote(r)
  \/ UpdateQuote(r) \/ UpdateConfirmation(r) \/ Commit(r)
  \/ CompleteRecord(r)
  \/ Rollback(r) \/ AbandonRecord(r) \/ ReleaseTarget(r)

Next ==
  \/ \E r \in Requests : Step(r) \/ Fault(r)
  \/ \E t \in Tokens : Expire(t)
  \/ Terminating

\* A thread that can run is run; faults and the clock owe nothing.
Spec == Init /\ [][Next]_vars /\ \A r \in Requests : WF_vars(Step(r))

-----------------------------------------------------------------------------
(* Properties.                                                             *)

\* Every variable keeps its type: the thread labels, the record shapes of the
\* idempotency store, the row statuses and the fault bound.
Labels == {"authorize", "claim_record", "claim_target", "read_confirmation",
           "read_quote", "update_quote", "update_confirmation", "commit",
           "complete", "rollback", "abandon", "release", "done"}

TypeOK ==
  /\ pc \in [Requests -> Labels]
  /\ req \in [Requests -> [key : Keys, token : Tokens, actor : Actors]]
  /\ store \in [Keys -> Records]
  /\ target \in [Tokens -> Keys \cup {NoKey}]
  /\ waiting \subseteq Requests
  /\ db \in Rows
  /\ saved \in Rows
  /\ inTransaction \in BOOLEAN
  /\ undone \subseteq Requests
  /\ expired \subseteq Tokens
  /\ seen \in [Requests -> {"absent", "pending", "consumed"}]
  /\ result \in [Requests -> Results]
  /\ faults \in 0..MaxFaults

\* A thread between claim_record and the end of its claim on the key.
Executing(r) ==
  pc[r] \in Labels \ {"authorize", "claim_record", "release", "done"}

Submitted(r) == result[r].status = "submitted"

\* claim_record never lets two threads execute under one key, and a thread that
\* executes finds its own claim when it completes or abandons it, so the
\* ValueError of complete_record cannot be raised, failed bookings included.
OneExecutionPerKey ==
  /\ \A r \in Requests : Executing(r) => store[Key(r)] = InProgress(r)
  /\ \A r, s \in Requests :
       Executing(r) /\ Executing(s) /\ Key(r) = Key(s) => r = s

\* However the threads that confirm one token interleave, under one key or
\* several, execute_confirmed_booking submits that token's booking once: every
\* caller told "submitted" was told of the same execution.
AtMostOneSubmission ==
  \A r, s \in Requests :
    Submitted(r) /\ Submitted(s) /\ Token(r) = Token(s)
      => result[r].by = result[s].by

\* A booking answered as submitted, at first hand or in a replay, is in the
\* committed rows for good, its confirmation consumed and its quote booked:
\* whichever threads raise, and whoever re-executes their keys, the only thing
\* that can lose it is the rollback of another thread of the one connection
\* between the execution's check of the quote and its commit.
SubmittedIsDurable ==
  \A r \in Requests :
    Submitted(r) /\ result[r].by \notin undone
      => /\ saved.confirmation[Token(r)] = "consumed"
         /\ saved.quote[QuoteOf[Token(r)]] = "booked"

\* No confirmation is used up for nothing: a committed "consumed" belongs to a
\* thread that has submitted it or is about to, even when another thread's
\* commit flushed it.
ConsumedMeansSubmitted ==
  \A t \in Tokens :
    saved.confirmation[t] = "consumed" =>
      \E r \in Requests : Token(r) = t /\ (pc[r] = "commit" \/ Submitted(r))

\* The recorded outcome of a key is what every caller with that key and that
\* request gets back (its audit stamp included), unless its own execution
\* failed or the route refused it.
Answered(r) ==
  /\ pc[r] = "done"
  /\ result[r].status \notin {"error", "unavailable"}

ReplayIsSame ==
  \A r, s \in Requests :
    /\ Answered(r) /\ Answered(s)
    /\ Key(r) = Key(s) /\ Fingerprint(r) = Fingerprint(s)
    => result[r] = result[s]

\* A completed record is never overwritten, dropped or reopened.
CompletedIsFinal ==
  [][\A k \in Keys : store[k].state = "completed" => store'[k] = store[k]]_store

\* Nobody sleeps for ever: whatever fails, each confirm request is answered
\* (no lost wake-up between the two waits that share one condition, no cycle
\* between the record claim and the target claim).
EveryRequestAnswered ==
  <>(\A r \in Requests : pc[r] = "done")

\* One quote is booked by one execution, even when two confirmation tokens
\* were issued for it: the eligibility check at execution time guards it.
QuoteBookedOnce ==
  \A r, s \in Requests :
    Submitted(r) /\ Submitted(s) /\ QuoteOf[Token(r)] = QuoteOf[Token(s)]
      => result[r].by = result[s].by

-----------------------------------------------------------------------------
(* The endpoint implements ConfirmedBooking: a request takes effect when   *)
(* its thread decides, that is at the commit or at the failed check, before*)
(* the record that makes it visible to others is written.                  *)

Decided(r) == pc[r] = "complete"

LedgerEntry(k) ==
  IF store[k].state = "completed"
  THEN [entered |-> TRUE, fingerprint |-> store[k].fingerprint,
        result |-> store[k].result]
  ELSE IF \E r \in Requests : Decided(r) /\ Key(r) = k
       THEN LET r == CHOOSE s \in Requests : Decided(s) /\ Key(s) = k
            IN [entered |-> TRUE, fingerprint |-> Fingerprint(r),
                result |-> result[r]]
       ELSE [entered |-> FALSE]

Promise == INSTANCE ConfirmedBooking WITH
  ledger <- [k \in Keys |-> LedgerEntry(k)],
  booked <- {Token(r) : r \in {s \in Requests : Submitted(s)}},
  reply  <- [r \in Requests |-> IF pc[r] = "done" THEN result[r]
                                ELSE Outcome(r, "none")]

\* When no statement raises, the interleaved threads look to their callers
\* like one-step executions: at most one per key and one booking per token,
\* everyone else answered from the ledger.
ImplementsConfirmedBooking == Promise!ASpec

=============================================================================
