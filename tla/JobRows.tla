------------------------------ MODULE JobRows -------------------------------
(***************************************************************************)
(* The rows of generation_jobs: what each operation of InMemoryJobStore    *)
(* writes, and the transitions that jobs/models.py allows.  A row keeps the*)
(* columns that the control depends on; pending and completed say whether  *)
(* pending_response_id and completed_response_id are set, prepared whether *)
(* prepared_result_payload is, and step is autonomy_metadata's step_index. *)
(***************************************************************************)
EXTENDS Naturals

CONSTANTS
  CompletionRefreshPolls,  \* refreshes a started job waits for
  Null                     \* the NULL of a column

ASSUME RowsAssumption ==
  /\ CompletionRefreshPolls \in Nat
  /\ Null \notin Nat

Transient == {"pending", "running"}
Terminal == {"succeeded", "failed", "cancelled", "expired"}

\* _VALID_TRANSITIONS
ValidTransition(from, to) ==
  \/ from = "pending" /\ to \in {"running", "failed", "cancelled", "expired"}
  \/ from = "running" /\ to \in Terminal

\* "absent": the row has not been inserted.
JobRow == [status : {"absent"} \cup Transient \cup Terminal,
           remaining : 0..CompletionRefreshPolls \cup {Null},
           prepared : BOOLEAN, pending : BOOLEAN, completed : BOOLEAN,
           step : Nat \cup {Null}]

NoRow == [status |-> "absent", remaining |-> Null, prepared |-> FALSE,
          pending |-> FALSE, completed |-> FALSE, step |-> Null]

\* The UPDATE statements; each writes the row whatever its status is by then.
CreatedRow == [NoRow EXCEPT !.status = "pending"]
PreparedRow(row) == [row EXCEPT !.prepared = TRUE]
\* Mutant: the pending response is never bound.
BoundRowForgotten(row) == row
BoundRow(row) == [row EXCEPT !.pending = TRUE]
StartedRow(row) == [row EXCEPT !.status = "running",
                               !.remaining = CompletionRefreshPolls]
FailedRow(row) == [row EXCEPT !.status = "failed", !.remaining = Null]
CancelledRow(row) == [row EXCEPT !.status = "cancelled", !.remaining = Null]
CompletedRow(row) == [row EXCEPT !.status = "succeeded", !.completed = TRUE,
                                 !.remaining = Null]
SteppedRow(row, step, trigger) ==
  [row EXCEPT !.step = step, !.remaining = IF trigger THEN 0 ELSE @]

\* refresh_job inside its lock: int(remaining or 0) counts down, and at 0 the
\* job completes if complete_job, reading the row again, finds it running.
Counted(row) == IF row.remaining = Null THEN 0 ELSE row.remaining

\* Mutants: the countdown runs past zero; the completion trusts the look taken
\* before the lock; the countdown is read but not written.
RefreshedRowPastZero(row) ==
  IF row.remaining # Null THEN [row EXCEPT !.remaining = @ - 1]
  ELSE IF ValidTransition(row.status, "succeeded") THEN CompletedRow(row)
  ELSE row

RefreshedRowUnchecked(row) ==
  IF Counted(row) > 0 THEN [row EXCEPT !.remaining = Counted(row) - 1]
  ELSE CompletedRow(row)

RefreshedRowUncounted(row) ==
  IF Counted(row) > 0 THEN row
  ELSE IF ValidTransition(row.status, "succeeded") THEN CompletedRow(row)
  ELSE row

RefreshedRow(row) ==
  IF Counted(row) > 0 THEN [row EXCEPT !.remaining = Counted(row) - 1]
  ELSE IF ValidTransition(row.status, "succeeded") THEN CompletedRow(row)
  ELSE row

=============================================================================
