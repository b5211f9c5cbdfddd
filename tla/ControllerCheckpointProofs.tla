--------------------- MODULE ControllerCheckpointProofs ---------------------
(***************************************************************************)
(* Theorems about ControllerCheckpoint, for any queues, candidates and     *)
(* number of compactions.  A write has two steps, and between them nothing *)
(* of the old checkpoint is left in the file: so each invariant of the file*)
(* is strengthened with what the draft is going to put there.              *)
(***************************************************************************)
EXTENDS ControllerCheckpoint, WellFoundedInduction, TLAPS

-----------------------------------------------------------------------------
(* The decisions.                                                          *)

\* A set of places of a queue has a first one.
LEMMA HasFirst ==
  ASSUME NEW S, S \subseteq Nat, S # {}
  PROVE  \E i \in S : \A j \in S : i <= j
<1>1. IsWellFoundedOn(OpToRel(<, Nat), Nat)
  BY NatLessThanWellFounded
<1>2. PICK i \in S : \A j \in S : ~(<<j, i>> \in OpToRel(<, Nat))
  BY <1>1, WFMin
<1>3. \A j \in S : ~(j < i)
  BY <1>2 DEF OpToRel
<1> QED BY <1>3

\* FirstItem returns an item at one of the places it is given, or Null when it
\* is given none.
LEMMA FirstItemIsOne ==
  ASSUME NEW items \in Seq(QueueItem), NEW places, places \subseteq DOMAIN items
  PROVE  /\ places = {} => FirstItem(items, places) = Null
         /\ places # {} => \E i \in places : FirstItem(items, places) = items[i]
         /\ FirstItem(items, places) \in QueueItem \cup {Null}
<1>1. CASE places = {}
  BY <1>1 DEF FirstItem
<1>2. CASE places # {}
  <2>1. places \subseteq Nat
    BY DOMAIN items = 1..Len(items), Len(items) \in Nat
  <2>2. \E j \in places : \A k \in places : j <= k
    BY <1>2, <2>1, HasFirst
  <2>3. PICK i \in places : FirstItem(items, places) = items[i]
    BY <1>2, <2>2 DEF FirstItem
  <2>4. items[i] \in QueueItem
    BY <2>3
  <2> QED BY <1>2, <2>3, <2>4
<1> QED BY <1>1, <1>2

\* What a decision of the queue can be, and why it was taken: it stops in a
\* terminal state, or it continues with an item that may run as it is, or with
\* one that it has put in an item's or a candidate's place.
Stops(d) ==
  /\ d.terminal \in TerminalStates /\ d.action = ActionOf[d.terminal]
  /\ d.instantiated = Null
ContinuesQueued(d, items) ==
  /\ d.action = "continue" /\ d.terminal = Null /\ d.instantiated = Null
  /\ \E i \in DOMAIN items : AutoEligible(items[i]) /\ d.wave = items[i].wave
ContinuesOwn(d, items) ==
  /\ d.action = "continue" /\ d.terminal = Null
  /\ \E i \in DOMAIN items :
       SelfApprovable(items[i]) /\ d.instantiated = SelfApproved(items[i])
ContinuesStage(d, candidate) ==
  /\ d.action = "continue" /\ d.terminal = Null
  /\ candidate # Null /\ d.instantiated = Instantiated(candidate)

LEMMA DecisionKinds ==
  ASSUME NEW items \in Seq(QueueItem), NEW blocker, NEW candidate, NEW abort,
         NEW d, d = NextTerminalOrRunnableState(items, blocker, candidate, abort)
  PROVE  \/ Stops(d)
         \/ ContinuesQueued(d, items)
         \/ ContinuesOwn(d, items)
         \/ ContinuesStage(d, candidate)
<1> DEFINE AutoAt == {i \in DOMAIN items : AutoEligible(items[i])}
           OwnAt == {i \in DOMAIN items : SelfApprovable(items[i])}
           auto == FirstItem(items, AutoAt)
           own == FirstItem(items, OwnAt)
           asked == FirstItem(items, {i \in DOMAIN items : ExplicitRequest(items[i])})
<1>1. auto # Null => \E i \in AutoAt : auto = items[i]
  BY FirstItemIsOne
<1>2. own # Null => \E i \in OwnAt : own = items[i]
  BY FirstItemIsOne
<1>3. \A s \in TerminalStates : \A w : Stops(Stop(s, w))
  BY DEF Stops, Stop
<1>4. {"ABORTED", "BLOCKED", "WAITING_USER_APPROVAL", "DONE"} \subseteq TerminalStates
  BY DEF TerminalStates, ActionOf
<1>5. d = IF abort THEN Stop("ABORTED", Null)
          ELSE IF blocker THEN Stop("BLOCKED", Null)
          ELSE IF auto # Null THEN Continue(auto.wave, Null)
          ELSE IF own # Null THEN Continue(own.wave, SelfApproved(own))
          ELSE IF Instantiable(candidate)
               THEN Continue(candidate.wave, Instantiated(candidate))
          ELSE IF asked # Null THEN Stop("WAITING_USER_APPROVAL", asked.wave)
          ELSE Stop("DONE", Null)
  BY DEF NextTerminalOrRunnableState
<1> HIDE DEF auto, own, asked
<1>6. CASE ~abort /\ ~blocker /\ auto # Null
  <2>1. d = Continue(auto.wave, Null)
    BY <1>5, <1>6
  <2>2. PICK i \in AutoAt : auto = items[i]
    BY <1>1, <1>6
  <2> QED BY <2>1, <2>2 DEF ContinuesQueued, Continue
<1>7. CASE ~abort /\ ~blocker /\ auto = Null /\ own # Null
  <2>1. d = Continue(own.wave, SelfApproved(own))
    BY <1>5, <1>7
  <2>2. PICK i \in OwnAt : own = items[i]
    BY <1>2, <1>7
  <2> QED BY <2>1, <2>2 DEF ContinuesOwn, Continue
<1>8. CASE ~abort /\ ~blocker /\ auto = Null /\ own = Null /\ Instantiable(candidate)
  <2>1. d = Continue(candidate.wave, Instantiated(candidate))
    BY <1>5, <1>8
  <2> QED BY <1>8, <2>1 DEF ContinuesStage, Continue, Instantiable
<1>9. CASE abort \/ blocker \/ (auto = Null /\ own = Null /\ ~Instantiable(candidate))
  <2>1. \E s \in TerminalStates : \E w : d = Stop(s, w)
    BY <1>4, <1>5, <1>9
  <2> QED BY <1>3, <2>1
<1> QED BY <1>6, <1>7, <1>8, <1>9

\* A decision, its candidate and its snapshot have their types.
LEMMA CandidateType ==
  ASSUME NEW given \in Candidates \cup {Null}, NEW tightening, NEW items, NEW truth
  PROVE  Candidate(given, tightening, items, truth) \in StageCandidate \cup {Null}
<1>1. \A wave \in Waves : SafeStage(wave) \in StageCandidate
  BY DEF SafeStage, StageCandidate, RunPolicies
<1>2. DeriveNextStageCandidate(tightening, items, truth) \in StageCandidate \cup {Null}
  BY <1>1, WavesAssumption DEF DeriveNextStageCandidate
<1> QED BY <1>2, ControllerAssumption DEF Candidate

LEMMA DecisionType ==
  ASSUME NEW items \in Seq(QueueItem), NEW blocker, NEW abort,
         NEW candidate \in StageCandidate \cup {Null},
         NEW d, d = NextTerminalOrRunnableState(items, blocker, candidate, abort)
  PROVE  /\ d.action \in QueueActions
         /\ d.terminal \in TerminalStates \cup {Null}
         /\ d.instantiated \in QueueItem \cup {Null}
<1>1. \A item \in QueueItem : SelfApproved(item) \in QueueItem
  BY DEF QueueItem, SelfApproved
<1>2. \A stage \in StageCandidate : Instantiated(stage) \in QueueItem
  BY DEF QueueItem, StageCandidate, Instantiated
<1>3. CASE Stops(d)
  BY <1>3 DEF Stops, QueueActions
<1>4. CASE ContinuesQueued(d, items)
  BY <1>4 DEF ContinuesQueued, QueueActions
<1>5. CASE ContinuesOwn(d, items)
  <2>1. PICK i \in DOMAIN items : d.instantiated = SelfApproved(items[i])
    BY <1>5 DEF ContinuesOwn
  <2>2. items[i] \in QueueItem
    OBVIOUS
  <2> QED BY <1>1, <1>5, <2>1, <2>2 DEF ContinuesOwn, QueueActions
<1>6. CASE ContinuesStage(d, candidate)
  BY <1>2, <1>6 DEF ContinuesStage, QueueActions
<1> QED BY <1>3, <1>4, <1>5, <1>6, DecisionKinds

LEMMA SnapshotType ==
  ASSUME NEW items \in Seq(QueueItem), NEW d, d.instantiated \in QueueItem \cup {Null}
  PROVE  Snapshot(items, d) \in QueueState \cup {Null}
<1> DEFINE named == {i \in DOMAIN items : items[i].wave = d.wave}
           chosen == IF d.instantiated # Null THEN d.instantiated ELSE FirstItem(items, named)
<1>1. chosen \in QueueItem \cup {Null}
  BY FirstItemIsOne
<1>2. \A item \in QueueItem :
        [wave |-> item.wave, policy |-> item.policy, eligible |-> item.eligible,
         authority |-> item.authority] \in QueueState
  BY DEF QueueItem, QueueState
<1>3. Snapshot(items, d) = IF chosen = Null THEN Null
        ELSE [wave |-> chosen.wave, policy |-> chosen.policy,
              eligible |-> chosen.eligible, authority |-> chosen.authority]
  BY DEF Snapshot
<1> HIDE DEF chosen
<1> QED BY <1>1, <1>2, <1>3

-----------------------------------------------------------------------------
(* What a session is told when it resumes from a checkpoint.               *)

ResumeOf(checkpoint) ==
  IF checkpoint.terminal # Null THEN ActionOf[checkpoint.terminal]
  ELSE IF checkpoint.queue # Null
       THEN NextTerminalOrRunnableState(<<AsItem(checkpoint.queue)>>, FALSE, Null, FALSE).action
  ELSE checkpoint.route

LEMMA ResumeReads == ResumeAction = IF Readable THEN ResumeOf(file) ELSE "review"
BY DEF ResumeAction, ResumeOf

\* A queue of one item that may run on its own, or that Main may approve, is
\* continued.
Runs(queue) == \/ queue.policy = "auto" /\ queue.eligible
               \/ queue.policy = "explicit_request" /\ queue.authority = "main"

LEMMA OneItemRuns ==
  ASSUME NEW queue \in QueueState, Runs(queue)
  PROVE  NextTerminalOrRunnableState(<<AsItem(queue)>>, FALSE, Null, FALSE).action = "continue"
<1> DEFINE items == <<AsItem(queue)>>
           AutoAt == {i \in DOMAIN items : AutoEligible(items[i])}
           OwnAt == {i \in DOMAIN items : SelfApprovable(items[i])}
           d == NextTerminalOrRunnableState(items, FALSE, Null, FALSE)
<1>1. AsItem(queue) \in QueueItem
  BY DEF AsItem, QueueItem, QueueState
<1>2. items \in Seq(QueueItem) /\ DOMAIN items = {1} /\ items[1] = AsItem(queue)
  BY <1>1
<1>3. AutoEligible(items[1]) \/ SelfApprovable(items[1])
  BY <1>2 DEF Runs, AsItem, AutoEligible, SelfApprovable, ExplicitRequest
<1>4. 1 \in AutoAt \/ 1 \in OwnAt
  BY <1>2, <1>3
<1>5. FirstItem(items, AutoAt) # Null \/ FirstItem(items, OwnAt) # Null
  <2>1. \A i \in DOMAIN items : items[i] # Null
    BY <1>1, <1>2, NoneAssumption
  <2> HIDE DEF items
  <2>2. AutoAt # {} => \E i \in AutoAt : FirstItem(items, AutoAt) = items[i]
    BY <1>2, FirstItemIsOne
  <2>3. OwnAt # {} => \E i \in OwnAt : FirstItem(items, OwnAt) = items[i]
    BY <1>2, FirstItemIsOne
  <2> QED BY <1>4, <2>1, <2>2, <2>3
<1>6. \E wave, instantiated : d = Continue(wave, instantiated)
  <2> DEFINE auto == FirstItem(items, AutoAt)
             own == FirstItem(items, OwnAt)
             rest == IF Instantiable(Null) THEN Continue(Null.wave, Instantiated(Null))
                     ELSE IF FirstItem(items, {i \in DOMAIN items : ExplicitRequest(items[i])}) # Null
                          THEN Stop("WAITING_USER_APPROVAL",
                                    FirstItem(items, {i \in DOMAIN items : ExplicitRequest(items[i])}).wave)
                     ELSE Stop("DONE", Null)
  <2> HIDE DEF items
  <2>1. d = IF auto # Null THEN Continue(auto.wave, Null)
            ELSE IF own # Null THEN Continue(own.wave, SelfApproved(own))
            ELSE rest
    BY DEF NextTerminalOrRunnableState
  <2>2. auto # Null \/ own # Null
    BY <1>5
  <2> HIDE DEF auto, own, rest, d
  <2> QED BY <2>1, <2>2
<1>7. PICK wave, instantiated : d = Continue(wave, instantiated)
  BY <1>6
<1>8. Continue(wave, instantiated).action = "continue"
  BY DEF Continue
<1> QED BY <1>7, <1>8

\* The decision about a queue of waves with different names, and with no
\* candidate that waits for input, is the one that a session is told when it
\* resumes from its snapshot.
Distinct(items) ==
  \A i, j \in DOMAIN items : items[i].wave = items[j].wave => i = j
AsksNothing(candidate) == candidate = Null \/ candidate.policy # "blocked_until_input"

LEMMA SnapshotRuns ==
  ASSUME NEW items \in Seq(QueueItem), Distinct(items),
         NEW blocker, NEW abort,
         NEW candidate \in StageCandidate \cup {Null}, AsksNothing(candidate),
         NEW d, d = NextTerminalOrRunnableState(items, blocker, candidate, abort),
         ~Stops(d)
  PROVE  /\ d.terminal = Null /\ d.action = "continue"
         /\ Snapshot(items, d) \in QueueState /\ Runs(Snapshot(items, d))
<1> DEFINE named == {i \in DOMAIN items : items[i].wave = d.wave}
           AsState(item) == [wave |-> item.wave, policy |-> item.policy,
                             eligible |-> item.eligible, authority |-> item.authority]
<1>1. CASE ContinuesQueued(d, items)
  <2>1. PICK i \in DOMAIN items : AutoEligible(items[i]) /\ d.wave = items[i].wave
    BY <1>1 DEF ContinuesQueued
  <2>2. named = {i}
    BY <2>1 DEF Distinct
  <2>3. FirstItem(items, named) = items[i]
    BY <2>2, FirstItemIsOne
  <2>4. items[i] \in QueueItem /\ items[i] # Null
    BY NoneAssumption
  <2>5. Snapshot(items, d) = AsState(items[i])
    BY <1>1, <2>3, <2>4 DEF Snapshot, ContinuesQueued
  <2> QED BY <1>1, <2>1, <2>4, <2>5
       DEF ContinuesQueued, AutoEligible, Runs, QueueState, QueueItem
<1>2. CASE ContinuesOwn(d, items)
  <2>1. PICK i \in DOMAIN items :
          SelfApprovable(items[i]) /\ d.instantiated = SelfApproved(items[i])
    BY <1>2 DEF ContinuesOwn
  <2>2. items[i] \in QueueItem
    OBVIOUS
  <2>3. SelfApproved(items[i]) \in QueueItem
    BY <2>2 DEF SelfApproved, QueueItem
  <2>4. Snapshot(items, d) = AsState(SelfApproved(items[i]))
    BY <2>1, <2>3, NoneAssumption DEF Snapshot
  <2>5. Snapshot(items, d) \in QueueState
    BY <2>3, <2>4 DEF QueueState, QueueItem
  <2>6. Runs(Snapshot(items, d))
    BY <2>1, <2>2, <2>4 DEF Runs, SelfApproved, SelfApprovable, ExplicitRequest, QueueItem
  <2> QED BY <1>2, <2>5, <2>6 DEF ContinuesOwn
<1>3. CASE ContinuesStage(d, candidate)
  <2>1. candidate \in StageCandidate /\ d.instantiated = Instantiated(candidate)
    BY <1>3 DEF ContinuesStage
  <2>2. Instantiated(candidate) \in QueueItem
    BY <2>1 DEF Instantiated, QueueItem, StageCandidate
  <2>3. Snapshot(items, d) = AsState(Instantiated(candidate))
    BY <2>1, <2>2, NoneAssumption DEF Snapshot
  <2>4. Snapshot(items, d) \in QueueState
    BY <2>2, <2>3 DEF QueueState, QueueItem
  <2>5. candidate.policy \in {"auto", "explicit_request"}
    BY <1>3, <2>1 DEF ContinuesStage, AsksNothing, StageCandidate, RunPolicies
  <2>6. Runs(Snapshot(items, d))
    BY <2>3, <2>5 DEF Runs, Instantiated
  <2> QED BY <1>3, <2>4, <2>6 DEF ContinuesStage
<1> QED BY <1>1, <1>2, <1>3, DecisionKinds

LEMMA SnapshotResumes ==
  ASSUME NEW items \in Seq(QueueItem), Distinct(items),
         NEW blocker, NEW abort,
         NEW candidate \in StageCandidate \cup {Null}, AsksNothing(candidate),
         NEW d, d = NextTerminalOrRunnableState(items, blocker, candidate, abort),
         NEW checkpoint, checkpoint.terminal = d.terminal,
         checkpoint.queue = Snapshot(items, d)
  PROVE  ResumeOf(checkpoint) = d.action
<1>1. CASE Stops(d)
  BY <1>1, NoneAssumption DEF Stops, ResumeOf
<1>2. CASE ~Stops(d)
  <2>1. /\ d.terminal = Null /\ d.action = "continue"
        /\ Snapshot(items, d) \in QueueState /\ Runs(Snapshot(items, d))
    BY <1>2, SnapshotRuns
  <2>2. checkpoint.queue # Null
    BY <2>1, FileAssumption
  <2> QED BY <2>1, <2>2, OneItemRuns DEF ResumeOf
<1> QED BY <1>1, <1>2

-----------------------------------------------------------------------------
(* The operations.                                                         *)

LEMMA RouteType ==
  ASSUME NEW signals \in Signals, NEW legacy \in RouteActions
  PROVE  RouteDecision(signals, legacy) \in RouteActions
BY DEF RouteDecision, ResolveControllerAction, RouteActions

\* TypeOK, and between two steps of an operation there is a draft, and nothing
\* in a file that is open.
TypeInv ==
  /\ TypeOK
  /\ pc # "idle" => draft \in Draft
  /\ pc = "opened" => file = Torn

LEMMA TypeInit == Init => TypeInv
<1> SUFFICES ASSUME Init PROVE TypeInv
  OBVIOUS
<1>1. torn \in BOOLEAN /\ held \in BOOLEAN
  BY Zenon DEF Init
<1>2. file \in {Missing} /\ pc = "idle" /\ draft \in {NoDraft} /\ told = Null /\ compacted \in Nat
  BY DEF Init
<1> QED BY <1>1, <1>2 DEF TypeInv, TypeOK

LEMMA TypeNext == TypeInv /\ [Next]_vars => TypeInv'
<1> SUFFICES ASSUME TypeInv, [Next]_vars PROVE TypeInv'
  OBVIOUS
<1> USE DEF TypeInv, TypeOK
<1>0. Readable => file \in Checkpoint
  BY DEF Readable
<1>1. ASSUME NEW signals \in Signals, NEW legacy \in RouteActions,
             RecordStageTransition(signals, legacy)
      PROVE  TypeInv'
  <2>1. \A route \in RouteActions : Transitioned(route) \in Checkpoint
    BY <1>0 DEF Transitioned, Checkpoint, TerminalStates, ActionOf
  <2>2. draft' \in Draft
    BY <1>1, <2>1, RouteType DEF RecordStageTransition, Draft
  <2> QED BY <1>1, <2>2 DEF RecordStageTransition, Start, history
<1>2. CASE PrepareCompaction
  <2>1. Compacted \in Checkpoint
    BY <1>0 DEF Compacted, LastDecision, Checkpoint, RouteActions
  <2>2. draft' \in Draft
    BY <1>2, <2>1 DEF PrepareCompaction, Draft
  <2> QED BY <1>2, <2>2 DEF PrepareCompaction, Start, history
<1>3. ASSUME NEW items \in Queues, NEW given \in Candidates \cup {Null},
             NEW blocker \in BOOLEAN, NEW abort \in BOOLEAN, NEW tightening \in BOOLEAN,
             NEW truth \in {"absent", "aligned", "misaligned"},
             FinalizeQueue(items, blocker, given, abort, tightening, truth)
      PROVE  TypeInv'
  <2> DEFINE candidate == Candidate(given, tightening, items, truth)
             d == NextTerminalOrRunnableState(items, blocker, candidate, abort)
  <2>1. items \in Seq(QueueItem) /\ candidate \in StageCandidate \cup {Null}
    BY ControllerAssumption, CandidateType
  <2> HIDE DEF candidate
  <2>2. /\ d.action \in QueueActions /\ d.terminal \in TerminalStates \cup {Null}
        /\ d.instantiated \in QueueItem \cup {Null}
    BY <2>1, DecisionType
  <2>3. Readable /\ Start
        /\ draft' = [kind |-> "finalize", action |-> d.action,
                     next |-> [file EXCEPT !.queue = Snapshot(items, d), !.terminal = d.terminal]]
    BY <1>3 DEF FinalizeQueue, candidate
  <2> HIDE DEF d
  <2>4. Snapshot(items, d) \in QueueState \cup {Null}
    BY <2>1, <2>2, SnapshotType
  <2>5. draft' \in Draft
    BY <1>0, <2>2, <2>3, <2>4 DEF Draft, Checkpoint
  <2> QED BY <2>3, <2>5 DEF Start, history
<1>4. CASE OpenFile
  BY <1>4 DEF OpenFile, history
<1>5. CASE WriteFile
  <2>1. draft \in Draft
    BY <1>5 DEF WriteFile
  <2>2. draft.next \in Checkpoint /\ draft.action \in QueueActions \cup {Null}
    BY <2>1 DEF Draft
  <2>3. torn' \in BOOLEAN
    BY <1>5, Zenon DEF WriteFile
  <2>4. held' \in BOOLEAN
    <3>1. (draft.action = "waiting_user_approval") \in BOOLEAN
      OBVIOUS
    <3>2. (held /\ draft.next.route # "continue") \in BOOLEAN
      BY Zenon
    <3>3. \/ held' = (draft.action = "waiting_user_approval")
          \/ held' = (held /\ draft.next.route # "continue")
          \/ held' = held
      BY <1>5, <2>1, Zenon DEF WriteFile
    <3> QED BY <3>1, <3>2, <3>3, Zenon
  <2>5. told' \in QueueActions \cup {Null}
    BY <1>5, <2>1, <2>2 DEF WriteFile, Draft
  <2> QED BY <1>5, <2>2, <2>3, <2>4, <2>5 DEF WriteFile
<1>6. CASE Crash
  <2>1. torn' \in BOOLEAN /\ held' \in BOOLEAN
    BY <1>6, Zenon DEF Crash, history
  <2>2. told' \in QueueActions \cup {Null} /\ compacted' \in Nat
    BY <1>6 DEF Crash, history
  <2> QED BY <1>6, <2>1, <2>2 DEF Crash
<1>7. CASE UNCHANGED vars
  BY <1>7 DEF vars
<1> QED BY <1>1, <1>2, <1>3, <1>4, <1>5, <1>6, <1>7 DEF Next, Finalize

\* Every behaviour keeps the types of the checkpoint file, the draft of the
\* running operation and the history.
THEOREM CheckpointTypeCorrect == Spec => []TypeOK
<1>1. TypeInv => TypeOK
  BY DEF TypeInv
<1> QED BY <1>1, TypeInit, TypeNext, PTL DEF Spec

LEMMA AlwaysTyped == Spec => []TypeInv
BY TypeInit, TypeNext, PTL DEF Spec

\* What finalize_queue drafts is the checkpoint that it read, with another
\* snapshot and another terminal state.
LEMMA FinalizeDrafts ==
  ASSUME Finalize
  PROVE  /\ Readable /\ Start
         /\ \E snapshot, terminal, action :
              draft' = [kind |-> "finalize", action |-> action,
                        next |-> [file EXCEPT !.queue = snapshot, !.terminal = terminal]]
         /\ draft'.kind = "finalize"
<1>1. Readable /\ Start
  BY Zenon DEF Finalize, FinalizeQueue
<1>2. PICK snapshot, terminal, action :
        draft' = [kind |-> "finalize", action |-> action,
                  next |-> [file EXCEPT !.queue = snapshot, !.terminal = terminal]]
  BY Zenon DEF Finalize, FinalizeQueue
<1> QED BY <1>1, <1>2

-----------------------------------------------------------------------------
(* The compactions are counted.                                            *)

\* Between two operations the file has the count, or there is nothing to count
\* from; the draft has the count that its write is going to make true.
CountInv ==
  /\ pc # "opened" => compacted = (IF Readable THEN file.sequence ELSE 0)
  /\ pc # "idle" => draft.next.sequence =
                      (IF draft.kind = "compaction" THEN compacted + 1 ELSE compacted)

LEMMA CountInit == Init => CountInv
BY DEF Init, CountInv, Readable

LEMMA CountNext == TypeInv /\ CountInv /\ [Next]_vars => CountInv'
<1> SUFFICES ASSUME TypeInv, CountInv, [Next]_vars PROVE CountInv'
  OBVIOUS
<1> USE DEF CountInv
<1>0. compacted \in Nat /\ (Readable => file \in Checkpoint /\ file.sequence \in Nat)
  BY DEF TypeInv, TypeOK, Readable, Checkpoint
<1>1. ASSUME NEW signals \in Signals, NEW legacy \in RouteActions,
             RecordStageTransition(signals, legacy)
      PROVE  CountInv'
  <2>1. \A route : Transitioned(route).sequence = IF Readable THEN file.sequence ELSE 0
    BY DEF Transitioned
  <2>2. draft'.next.sequence = compacted /\ draft'.kind = "transition"
    BY <1>1, <2>1 DEF RecordStageTransition, Start
  <2> QED BY <1>1, <2>2 DEF RecordStageTransition, Start, history, Readable
<1>2. CASE PrepareCompaction
  <2>1. Compacted.sequence = IF Readable THEN file.sequence + 1 ELSE 1
    BY <1>0 DEF Compacted, Checkpoint
  <2>2. draft'.next.sequence = compacted + 1 /\ draft'.kind = "compaction"
    BY <1>0, <1>2, <2>1 DEF PrepareCompaction, Start
  <2> QED BY <1>2, <2>2 DEF PrepareCompaction, Start, history, Readable
<1>3. CASE Finalize
  <2>1. PICK snapshot, terminal, action :
          draft' = [kind |-> "finalize", action |-> action,
                    next |-> [file EXCEPT !.queue = snapshot, !.terminal = terminal]]
    BY <1>3, FinalizeDrafts
  <2>2. Readable /\ Start
    BY <1>3, FinalizeDrafts
  <2>3. draft'.next.sequence = compacted /\ draft'.kind = "finalize"
    BY <1>0, <2>1, <2>2 DEF Start, Checkpoint
  <2> QED BY <2>2, <2>3 DEF Start, history, Readable
<1>4. CASE OpenFile
  BY <1>4, FileAssumption DEF OpenFile, history, Readable
<1>5. CASE WriteFile
  <2>1. draft.next \in Checkpoint
    BY <1>5 DEF WriteFile, TypeInv, Draft
  <2>2. pc' = "idle" /\ Readable' /\ file' = draft.next
    BY <1>5, <2>1, FileAssumption DEF WriteFile, Readable
  <2> QED BY <1>5, <2>2 DEF WriteFile
<1>6. CASE Crash
  <2>1. pc = "opened" => ~Readable
    BY DEF TypeInv, Readable
  <2> QED BY <1>6, <2>1 DEF Crash, history, Readable
<1>7. CASE UNCHANGED vars
  BY <1>7 DEF vars, Readable
<1> QED BY <1>1, <1>2, <1>3, <1>4, <1>5, <1>6, <1>7 DEF Next

\* The sequence number of a checkpoint is the number of compactions written
\* since the file was created or lost.
THEOREM CompactionsCounted == Spec => []SequenceCountsCompactions
<1>1. CountInv => SequenceCountsCompactions
  BY DEF CountInv, SequenceCountsCompactions
<1> QED BY <1>1, CountInit, CountNext, AlwaysTyped, PTL DEF Spec

-----------------------------------------------------------------------------
(* A torn write stops the session.                                         *)

Reviews(checkpoint) ==
  checkpoint.route = "review" /\ checkpoint.terminal = Null /\ checkpoint.queue = Null

\* What a compaction has written since the crash, or is about to write.
TornInv ==
  /\ torn /\ Readable => Reviews(file)
  /\ torn /\ pc # "idle" /\ draft.kind = "compaction" => Reviews(draft.next)

LEMMA TornInit == Init => TornInv
BY DEF Init, TornInv, Readable

LEMMA TornNext == TypeInv /\ TornInv /\ [Next]_vars => TornInv'
<1> SUFFICES ASSUME TypeInv, TornInv, [Next]_vars PROVE TornInv'
  OBVIOUS
<1> USE DEF TornInv
<1>1. ASSUME NEW signals \in Signals, NEW legacy \in RouteActions,
             RecordStageTransition(signals, legacy)
      PROVE  TornInv'
  BY <1>1 DEF RecordStageTransition, Start, history, Readable, Reviews
<1>2. CASE PrepareCompaction
  <2>1. torn => Reviews(Compacted)
    <3>1. CASE Readable
      BY <3>1 DEF Compacted, Reviews, TypeInv, TypeOK, Readable, Checkpoint
    <3>2. CASE ~Readable
      BY <3>2 DEF Compacted, Reviews, LastDecision
    <3> QED BY <3>1, <3>2
  <2> QED BY <1>2, <2>1 DEF PrepareCompaction, Start, history, Readable, Reviews
<1>3. CASE Finalize
  <2>1. Start /\ draft'.kind = "finalize"
    BY <1>3, FinalizeDrafts
  <2> QED BY <2>1 DEF Start, history, Readable, Reviews
<1>4. CASE OpenFile
  BY <1>4 DEF OpenFile, history, Readable, Reviews
<1>5. CASE WriteFile
  <2>1. torn' => torn /\ draft.kind = "compaction"
    BY <1>5 DEF WriteFile
  <2> QED BY <1>5, <2>1 DEF WriteFile, Reviews
<1>6. CASE Crash
  <2>1. pc = "opened" => ~Readable
    BY DEF TypeInv, Readable
  <2> QED BY <1>6, <2>1 DEF Crash, history, Readable, Reviews
<1>7. CASE UNCHANGED vars
  BY <1>7 DEF vars, Readable, Reviews
<1> QED BY <1>1, <1>2, <1>3, <1>4, <1>5, <1>6, <1>7 DEF Next

\* After a crash in the middle of a write a resumed session is told to stop for
\* review, until a stage or the queue is decided again.
THEOREM TornIsReviewed == Spec => []TornMeansReview
<1>1. TornInv => TornMeansReview
  BY ResumeReads DEF TornInv, TornMeansReview, Reviews, ResumeOf
<1> QED BY <1>1, TornInit, TornNext, AlwaysTyped, PTL DEF Spec

-----------------------------------------------------------------------------
(* A resumed session is told what was decided.                             *)

\* The last decision can be read back from the file, and from what a compaction
\* or a new decision is about to put there.
ResumeInv ==
  /\ pc # "opened" /\ told # Null => Readable /\ ResumeOf(file) = told
  /\ pc # "idle" /\ draft.kind = "compaction" /\ told # Null => ResumeOf(draft.next) = told
  /\ pc # "idle" /\ draft.kind = "finalize" => ResumeOf(draft.next) = draft.action

LEMMA ResumeInit == Init => ResumeInv
BY DEF Init, ResumeInv

LEMMA ResumeNext ==
  ASSUME \A items \in Queues : Distinct(items),
         \A candidate \in Candidates : AsksNothing(candidate)
  PROVE  TypeInv /\ ResumeInv /\ [Next]_vars => ResumeInv'
<1> SUFFICES ASSUME TypeInv, ResumeInv, [Next]_vars PROVE ResumeInv'
  OBVIOUS
<1> USE DEF ResumeInv
<1>1. ASSUME NEW signals \in Signals, NEW legacy \in RouteActions,
             RecordStageTransition(signals, legacy)
      PROVE  ResumeInv'
  BY <1>1 DEF RecordStageTransition, Start, history, Readable
<1>2. CASE PrepareCompaction
  <2>1. told # Null => ResumeOf(Compacted) = told
    <3> SUFFICES ASSUME told # Null PROVE ResumeOf(Compacted) = told
      OBVIOUS
    <3>1. Readable /\ ResumeOf(file) = told /\ file \in Checkpoint
      BY <1>2 DEF PrepareCompaction, Start, TypeInv, TypeOK, Readable
    <3>2. /\ Compacted.terminal = file.terminal /\ Compacted.queue = file.queue
          /\ Compacted.route = file.route
      BY <3>1 DEF Compacted, Checkpoint
    <3> QED BY <3>1, <3>2 DEF ResumeOf
  <2>2. Start /\ draft'.kind = "compaction" /\ draft'.next = Compacted
    BY <1>2 DEF PrepareCompaction
  <2> QED BY <2>1, <2>2 DEF Start, history, Readable
<1>3. ASSUME NEW items \in Queues, NEW given \in Candidates \cup {Null},
             NEW blocker \in BOOLEAN, NEW abort \in BOOLEAN, NEW tightening \in BOOLEAN,
             NEW truth \in {"absent", "aligned", "misaligned"},
             FinalizeQueue(items, blocker, given, abort, tightening, truth)
      PROVE  ResumeInv'
  <2> DEFINE candidate == Candidate(given, tightening, items, truth)
             d == NextTerminalOrRunnableState(items, blocker, candidate, abort)
             next == [file EXCEPT !.queue = Snapshot(items, d), !.terminal = d.terminal]
  <2>1. items \in Seq(QueueItem) /\ Distinct(items) /\ candidate \in StageCandidate \cup {Null}
    BY ControllerAssumption, CandidateType
  <2>2. AsksNothing(candidate)
    <3>1. given = Null \/ AsksNothing(given)
      OBVIOUS
    <3>2. \A wave : AsksNothing(SafeStage(wave))
      BY DEF AsksNothing, SafeStage
    <3> QED BY <3>1, <3>2 DEF Candidate, DeriveNextStageCandidate, AsksNothing
  <2> HIDE DEF candidate
  <2>3. /\ Readable /\ Start
        /\ draft' = [kind |-> "finalize", action |-> d.action, next |-> next]
    BY <1>3 DEF FinalizeQueue, candidate
  <2>4. file \in Checkpoint
    BY <2>3 DEF TypeInv, TypeOK, Readable
  <2>5. next.terminal = d.terminal /\ next.queue = Snapshot(items, d)
    BY <2>4 DEF Checkpoint
  <2> HIDE DEF d, next
  <2>6. ResumeOf(next) = d.action
    BY <2>1, <2>2, <2>5, SnapshotResumes DEF d
  <2> QED BY <2>3, <2>6 DEF Start, history, Readable
<1>4. CASE OpenFile
  BY <1>4 DEF OpenFile, history, Readable
<1>5. CASE WriteFile
  <2>1. draft \in Draft /\ draft.next \in Checkpoint
    BY <1>5 DEF WriteFile, TypeInv, Draft
  <2>2. pc' = "idle" /\ Readable' /\ file' = draft.next
    BY <1>5, <2>1, FileAssumption DEF WriteFile, Readable
  <2>3. told' # Null => ResumeOf(draft.next) = told'
    BY <1>5, <2>1 DEF WriteFile, Draft
  <2> QED BY <2>2, <2>3
<1>6. CASE Crash
  BY <1>6 DEF Crash, history, Readable
<1>7. CASE UNCHANGED vars
  BY <1>7 DEF vars, Readable
<1> QED BY <1>1, <1>2, <1>3, <1>4, <1>5, <1>6, <1>7 DEF Next, Finalize

\* When the waves of a queue have different names and no candidate waits for
\* input, a resumed session is told what finalize_queue decided, whatever the
\* queue, and however many compactions and crashes came in between.
THEOREM DecisionIsResumed ==
  ASSUME \A items \in Queues : Distinct(items),
         \A candidate \in Candidates : AsksNothing(candidate)
  PROVE  Spec => []FinalizedIsResumed
<1>1. ResumeInv => FinalizedIsResumed
  BY ResumeReads DEF ResumeInv, FinalizedIsResumed
<1>2. TypeInv /\ ResumeInv /\ [Next]_vars => ResumeInv'
  BY ResumeNext
<1> QED BY <1>1, <1>2, ResumeInit, AlwaysTyped, PTL DEF Spec

=============================================================================
