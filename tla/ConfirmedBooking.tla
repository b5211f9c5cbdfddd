-------------------------- MODULE ConfirmedBooking --------------------------
(***************************************************************************)
(* What confirming a booking promises: each request is decided in one      *)
(* step.  The first request to use an idempotency key executes and enters  *)
(* its outcome in a ledger; a token is booked by at most one of them; every*)
(* request is answered from the ledger entry of its key, or refused.       *)
(***************************************************************************)
CONSTANTS Requests, Keys, Tokens, Actors

VARIABLES
  req,     \* what each request asks for
  ledger,  \* key -> the outcome entered for it, with the request it was for
  booked,  \* tokens whose booking was submitted
  reply    \* what each request was answered

avars == <<req, ledger, booked, reply>>

NoEntry == [entered |-> FALSE]
Entry(fingerprint, outcome) ==
  [entered |-> TRUE, fingerprint |-> fingerprint, result |-> outcome]

Asked(r) == <<req[r].token, req[r].actor>>
NoReply(r) == [status |-> "none", by |-> r]

AInit ==
  /\ req \in [Requests -> [key : Keys, token : Tokens, actor : Actors]]
  /\ ledger = [k \in Keys |-> NoEntry]
  /\ booked = {}
  /\ reply = [r \in Requests |-> NoReply(r)]

\* A booking that was already submitted is never submitted again.
Execute(r) ==
  /\ reply[r] = NoReply(r)
  /\ ~ledger[req[r].key].entered
  /\ \E status \in {"submitted", "stale_state",
                    "unsupported_or_missing_confirmation"} :
       /\ status = "submitted" => req[r].token \notin booked
       /\ ledger' = [ledger EXCEPT ![req[r].key] =
                       Entry(Asked(r), [status |-> status, by |-> r])]
       /\ booked' = IF status = "submitted" THEN booked \cup {req[r].token}
                                            ELSE booked
  /\ UNCHANGED <<req, reply>>

Reply(r) ==
  LET entry == ledger[req[r].key]
  IN /\ reply[r] = NoReply(r)
     /\ entry.entered
     /\ reply' = [reply EXCEPT ![r] =
                    IF entry.fingerprint = Asked(r)
                    THEN entry.result
                    ELSE [status |-> "idempotency_conflict",
                          by |-> entry.result.by]]
     /\ UNCHANGED <<req, ledger, booked>>

Refuse(r) ==
  /\ reply[r] = NoReply(r)
  /\ reply' = [reply EXCEPT ![r] = [status |-> "unavailable", by |-> r]]
  /\ UNCHANGED <<req, ledger, booked>>

ANext == \E r \in Requests : Execute(r) \/ Reply(r) \/ Refuse(r)

ASpec == AInit /\ [][ANext]_avars
=============================================================================
