------------------------ MODULE IntentTracking_proofs ------------------------
(***************************************************************************)
(* Optimistic concurrency makes the workers' passes atomic: whatever the   *)
(* number of workers, their versioned writes only take the steps of        *)
(* IntentProjection.                                                       *)
(*                                                                         *)
(* The argument is ReadsCurrent: a worker whose version is still the row's *)
(* holds the row and the winner it would read now, because every write of  *)
(* either advances the version and versions never come back.  The rest of  *)
(* the inductive invariant says that a worker in a pass holds a sound row  *)
(* of an attached transaction and never scans that transaction itself.     *)
(*                                                                         *)
(* What the projection promises of its row therefore holds of the row the  *)
(* workers share (SharedRowIsSound, SharedRowMoves).                       *)
(*                                                                         *)
(* The attempts are not part of that argument: a second invariant,         *)
(* Exclusive, keeps the winner alone with one worker, and with any number  *)
(* of them as long as no candidate is written from a stale copy.           *)
(***************************************************************************)
EXTENDS IntentTracking, ExecutionRow_proofs

\* A worker state is in line with the row, its winner and its version.
InLine(s, row, winner, current) ==
    /\ s \in WorkerState
    /\ SoundRow(s.row)
    /\ s.pc \in {"attempts", "pass"} =>
          /\ s.row.tx # NoTx
          /\ s.version <= current
          /\ s.version = current => s.row = row /\ s.winning = winner
    /\ s.pc = "pass" => s.row.tx \notin s.todo

IInv ==
    /\ TypeOK
    /\ SoundRow(exec)
    /\ \A w \in Worker : InLine(worker[w], exec, winning, version)

LEMMA IInvMeaning == IInv => ReadsCurrent
BY DEF IInv, InLine, ReadsCurrent

\* A settlement event is one of the two the outbox knows.
LEMMA EventType ==
    ASSUME NEW row, NEW next, SettlementEvent(row, next) # {}
    PROVE  (CHOOSE e \in SettlementEvent(row, next) : TRUE) \in {"READY", "REVOKED"}
BY DEF SettlementEvent

LEMMA InitialStorable ==
    ASSUME NEW t \in TxHash \cup {NoTx} PROVE InitialRow(t) \in Row
<1>1. InitialRow(t) \in AnyRow
  BY InitialRowFacts DEF SoundRow
<1>2. Storable(InitialRow(t))
  BY DEF Storable, InitialRow, NoConflict, Conflict, StorableConflict
<1>3. QED BY <1>1, <1>2, StorableRow

LEMMA NoAttemptType == NoAttempt \in Attempt
<1>1. NoConflict \in Conflicts
  BY PlainConflict DEF NoConflict, ConflictType
<1>2. QED BY <1>1 DEF NoAttempt, Attempt, SubmissionStatus, ChainStatus, WorkflowStatus

\* A worker that starts over holds nothing of the row.
LEMMA RestartInLine ==
    ASSUME NEW row, NEW winner, NEW current, NEW s \in WorkerState,
           s.row = InitialRow(NoTx), s.pc \in {"idle", "refresh"}
    PROVE  InLine(s, row, winner, current)
BY InitialRowFacts DEF InLine

LEMMA IdleType == Idle \in WorkerState /\ Idle.row = InitialRow(NoTx) /\ Idle.pc = "idle"
<1>1. [t \in TxHash |-> NoAttempt] \in [TxHash -> Attempt]
  BY NoAttemptType
<1>2. InitialRow(NoTx) \in Row /\ 0 \in 0 .. MaxTries - 1
  BY InitialStorable, BoundAssumption
<1>3. QED BY <1>1, <1>2 DEF Idle, WorkerState

\* After a lost race a worker retries or gives up, within its tries.
LEMMA AfterConflictType ==
    ASSUME NEW w \in Worker, worker[w] \in WorkerState
    PROVE  /\ AfterConflict(w) \in WorkerState
           /\ AfterConflict(w).row = InitialRow(NoTx)
           /\ AfterConflict(w).pc \in {"idle", "refresh"}
<1>1. CASE worker[w].tries + 1 < MaxTries
  <2>1. worker[w].tries + 1 \in 0 .. MaxTries - 1
    BY <1>1, BoundAssumption DEF WorkerState
  <2>2. AfterConflict(w) = [Idle EXCEPT !.pc = "refresh", !.tries = worker[w].tries + 1]
    BY <1>1 DEF AfterConflict
  <2>3. AfterConflict(w) \in WorkerState
    BY <2>1, <2>2, IdleType DEF WorkerState
  <2>4. QED BY <2>2, <2>3, IdleType DEF WorkerState
<1>2. CASE ~(worker[w].tries + 1 < MaxTries)
  BY <1>2, IdleType DEF AfterConflict
<1>3. QED BY <1>1, <1>2

LEMMA InitIInv == Init => IInv
<1> SUFFICES ASSUME Init PROVE IInv
  OBVIOUS
<1>1. exec \in Row /\ SoundRow(exec)
  BY InitialRowFacts, InitialStorable DEF Init
<1>2. att \in [TxHash -> Attempt]
  BY NoAttemptType DEF Init
<1>3. InLine(Idle, exec, winning, version)
  BY IdleType, RestartInLine
<1>4. Idle \in WorkerState
  BY IdleType
<1>5. worker = [w \in Worker |-> Idle]
  BY DEF Init
<1>6. QED BY <1>1, <1>2, <1>3, <1>4, <1>5 DEF Init, IInv, TypeOK

-----------------------------------------------------------------------------
(* Steps that leave the row alone *)

\* A step that only changes what worker w holds, or an attempt, stutters for
\* the projection.
LEMMA QuietStep ==
    ASSUME IInv, UNCHANGED rowVars, att' \in [TxHash -> Attempt],
           NEW w \in Worker, NEW s, InLine(s, exec, winning, version),
           worker' = [worker EXCEPT ![w] = s]
    PROVE  IInv' /\ UNCHANGED <<exec, winning, announced>>
<1>1. /\ exec' = exec /\ winning' = winning /\ announced' = announced /\ version' = version
  BY DEF rowVars
<1>2. s \in WorkerState /\ worker \in [Worker -> WorkerState]
  BY DEF InLine, IInv, TypeOK
<1>3. worker' \in [Worker -> WorkerState]
  BY <1>2
<1>4. ASSUME NEW v \in Worker PROVE InLine(worker'[v], exec, winning, version)
  <2>1. InLine(worker[v], exec, winning, version)
    BY DEF IInv
  <2>2. worker'[v] = IF v = w THEN s ELSE worker[v]
    BY <1>2
  <2>3. QED BY <2>1, <2>2
<1>5. TypeOK'
  BY <1>1, <1>3 DEF IInv, TypeOK
<1>6. SoundRow(exec)'
  <2>1. SoundRow(exec)
    BY DEF IInv
  <2>2. QED BY <1>1, <2>1
<1>7. (\A v \in Worker : InLine(worker[v], exec, winning, version))'
  BY <1>1, <1>4
<1>8. QED BY <1>1, <1>5, <1>6, <1>7 DEF IInv

\* The same when nothing changes at all.
LEMMA StutterStep ==
    ASSUME IInv, UNCHANGED vars
    PROVE  IInv' /\ UNCHANGED <<exec, winning, announced>>
<1>1. /\ exec' = exec /\ winning' = winning /\ announced' = announced /\ version' = version
      /\ att' = att /\ worker' = worker
  BY DEF vars
<1>2. TypeOK'
  BY <1>1 DEF IInv, TypeOK
<1>3. SoundRow(exec)'
  BY <1>1 DEF IInv
<1>4. (\A v \in Worker : InLine(worker[v], exec, winning, version))'
  BY <1>1 DEF IInv
<1>5. QED BY <1>1, <1>2, <1>3, <1>4 DEF IInv

LEMMA ReadIntentStep ==
    ASSUME IInv, NEW w \in Worker, ReadIntent(w)
    PROVE  IInv' /\ UNCHANGED <<exec, winning, announced>>
<1>1. worker[w] \in WorkerState /\ att' = att /\ UNCHANGED rowVars
  BY DEF IInv, TypeOK, ReadIntent
<1>2. PICK s : s = [worker[w] EXCEPT !.pc = "attempts", !.version = version,
                                     !.row = exec, !.winning = winning]
  OBVIOUS
<1>3. worker' = [worker EXCEPT ![w] = s]
  BY <1>2 DEF ReadIntent
<1>4. /\ s \in WorkerState
      /\ s.pc = "attempts" /\ s.row = exec /\ s.winning = winning /\ s.version = version
  BY <1>1, <1>2 DEF IInv, TypeOK, WorkerState
<1>5. InLine(s, exec, winning, version)
  <2>1. SoundRow(exec) /\ exec.tx # NoTx /\ version \in Nat
    BY DEF IInv, TypeOK, ReadIntent
  <2>2. version <= version
    BY <2>1
  <2>3. QED BY <1>4, <2>1, <2>2 DEF InLine
<1>6. att' \in [TxHash -> Attempt]
  BY <1>1 DEF IInv, TypeOK
<1>7. QED BY <1>1, <1>3, <1>5, <1>6, QuietStep

LEMMA ReadAttemptsStep ==
    ASSUME IInv, NEW w \in Worker, ReadAttempts(w)
    PROVE  IInv' /\ UNCHANGED <<exec, winning, announced>>
<1>1. /\ worker[w] \in WorkerState /\ worker[w].pc = "attempts"
      /\ InLine(worker[w], exec, winning, version)
      /\ att' = att /\ att \in [TxHash -> Attempt] /\ UNCHANGED rowVars
  BY DEF IInv, TypeOK, ReadAttempts
<1>2. PICK competing : competing = Competing(att, worker[w].row.tx)
  OBVIOUS
<1>3. competing \subseteq TxHash /\ worker[w].row.tx \notin competing
  BY <1>2 DEF Competing
<1>4. PICK held : held = [t \in TxHash |-> IF t \in competing THEN att[t] ELSE NoAttempt]
  OBVIOUS
<1>5. held \in [TxHash -> Attempt]
  BY <1>1, <1>4, NoAttemptType
<1>6. PICK todo : todo = IF worker[w].scan THEN competing ELSE {}
  OBVIOUS
<1>7. PICK s : s = [worker[w] EXCEPT !.pc = "pass", !.att = held, !.todo = todo]
  OBVIOUS
<1>8. worker' = [worker EXCEPT ![w] = s]
  BY <1>2, <1>4, <1>6, <1>7 DEF ReadAttempts
<1>9. todo \in SUBSET TxHash /\ worker[w].row.tx \notin todo
  BY <1>3, <1>6
<1>10. /\ s \in WorkerState
       /\ s.pc = "pass" /\ s.row = worker[w].row /\ s.winning = worker[w].winning
       /\ s.version = worker[w].version /\ s.todo = todo
  BY <1>1, <1>5, <1>7, <1>9 DEF WorkerState
<1>11. InLine(s, exec, winning, version)
  BY <1>1, <1>9, <1>10 DEF InLine
<1>12. QED BY <1>1, <1>8, <1>11, QuietStep

\* Losing a race and dying both forget what was read.
LEMMA LoseRaceStep ==
    ASSUME IInv, NEW w \in Worker, LoseRace(w)
    PROVE  IInv' /\ UNCHANGED <<exec, winning, announced>>
<1>1. /\ worker[w] \in WorkerState /\ att' = att /\ att \in [TxHash -> Attempt]
      /\ UNCHANGED rowVars /\ worker' = [worker EXCEPT ![w] = AfterConflict(w)]
  BY DEF IInv, TypeOK, LoseRace
<1>2. InLine(AfterConflict(w), exec, winning, version)
  BY <1>1, AfterConflictType, RestartInLine
<1>3. QED BY <1>1, <1>2, QuietStep

LEMMA AbandonStep ==
    ASSUME IInv, NEW w \in Worker, Abandon(w)
    PROVE  IInv' /\ UNCHANGED <<exec, winning, announced>>
<1>1. /\ att' = att /\ att \in [TxHash -> Attempt]
      /\ UNCHANGED rowVars /\ worker' = [worker EXCEPT ![w] = Idle]
  BY DEF IInv, TypeOK, Abandon
<1>2. InLine(Idle, exec, winning, version)
  BY IdleType, RestartInLine
<1>3. QED BY <1>1, <1>2, QuietStep

\* The scan's writes: a candidate's row may change, the tracked row does not.
LEMMA ScannedStep ==
    ASSUME IInv, NEW w \in Worker, NEW t \in TxHash, worker[w].pc = "pass", Scanned(w, t),
           UNCHANGED rowVars, att' \in [TxHash -> Attempt]
    PROVE  IInv' /\ UNCHANGED <<exec, winning, announced>>
<1>1. worker[w] \in WorkerState /\ InLine(worker[w], exec, winning, version)
  BY DEF IInv, TypeOK
<1>2. PICK s : s = [worker[w] EXCEPT !.todo = worker[w].todo \ {t}]
  OBVIOUS
<1>3. worker' = [worker EXCEPT ![w] = s]
  BY <1>2 DEF Scanned
<1>4. /\ s \in WorkerState
      /\ s.pc = "pass" /\ s.row = worker[w].row /\ s.winning = worker[w].winning
      /\ s.version = worker[w].version /\ s.todo = worker[w].todo \ {t}
  BY <1>1, <1>2 DEF WorkerState
<1>5. InLine(s, exec, winning, version)
  BY <1>1, <1>4 DEF InLine
<1>6. QED BY <1>3, <1>5, QuietStep

-----------------------------------------------------------------------------
(* Candidate rows *)

LEMMA DispositionType == ASSUME NEW s PROVE DispositionFor(s) \in Disposition
BY DEF DispositionFor, Disposition

LEMMA PriorType == ASSUME NEW s PROVE PriorDisposition(s) \in Disposition
BY DispositionType DEF PriorDisposition, Disposition

LEMMA AttemptOfType == ASSUME NEW row \in AnyRow PROVE AttemptOf(row) \in Attempt
BY DispositionType DEF AttemptOf, Attempt, AnyRow

LEMMA CandidateType ==
    ASSUME NEW a \in Attempt PROVE CandidateSnapshot(a) \in AnyRow
<1>1. CandidateSubmission(a.sub) \in SubmissionStatus /\ a.chain \in ChainStatus
      /\ a.wf \in WorkflowStatus
  BY DEF Attempt, CandidateSubmission, SubmissionStatus
<1>2. InitialRow(NoTx) \in AnyRow
  BY InitialRowFacts DEF SoundRow
<1>3. [InitialRow(NoTx) EXCEPT !.sub = CandidateSubmission(a.sub)] \in AnyRow
  BY <1>1, <1>2, FieldUpdate
<1>4. [[InitialRow(NoTx) EXCEPT !.sub = CandidateSubmission(a.sub)]
          EXCEPT !.chain = a.chain] \in AnyRow
  BY <1>1, <1>3, FieldUpdate
<1>5. QED BY <1>1, <1>4, FieldUpdate DEF CandidateSnapshot

\* Settling the attempts keeps their types.
LEMMA SettledAttempts ==
    ASSUME NEW attempts \in [TxHash -> Attempt], NEW t, NEW a \in Attempt
    PROVE  SettleAttempts(attempts, t, a) \in [TxHash -> Attempt]
<1>1. ASSUME NEW u \in TxHash
      PROVE  [attempts[u] EXCEPT !.disp = "SUPERSEDED"] \in Attempt
  BY DEF Attempt, Disposition
<1>2. QED BY <1>1 DEF SettleAttempts

LEMMA SkipCandidateStep ==
    ASSUME IInv, NEW w \in Worker, NEW t \in TxHash, SkipCandidate(w, t)
    PROVE  IInv' /\ UNCHANGED <<exec, winning, announced>>
<1>1. worker[w].pc = "pass" /\ Scanned(w, t) /\ UNCHANGED rowVars
      /\ att' \in [TxHash -> Attempt]
  BY DEF SkipCandidate, IInv, TypeOK
<1>2. QED BY <1>1, ScannedStep

LEMMA UpdateCandidateStep ==
    ASSUME IInv, NEW w \in Worker, NEW t \in TxHash,
           NEW status \in ObservedStatus \ {"COMMITTED"}, UpdateCandidate(w, t, status)
    PROVE  IInv' /\ UNCHANGED <<exec, winning, announced>>
<1>1. PICK a : a = worker[w].att[t]
  OBVIOUS
<1>2. PICK o : o = [status |-> status, block |-> NoBlock, tip |-> 0, displaced |-> FALSE]
  OBVIOUS
<1>3. PICK next : next = ApplyChainObservation(CandidateSnapshot(a), o)
  OBVIOUS
<1>4. a \in Attempt
  BY <1>1 DEF IInv, TypeOK, WorkerState
<1>5. next \in AnyRow
  <2>1. CandidateSnapshot(a) \in AnyRow
    BY <1>4, CandidateType
  <2>2. ChainAnswer(o)
    BY <1>2 DEF ChainAnswer
  <2>3. PICK row \in AnyRow : row = CandidateSnapshot(a)
    BY <2>1
  <2>4. next = ApplyChainObservation(row, o)
    BY <1>3, <2>3
  <2>5. QED BY <2>2, <2>4, ApplyChainFacts
<1>6. AttemptOf(next) \in Attempt
  BY <1>5, AttemptOfType
<1>7. att' = [att EXCEPT ![t] = AttemptOf(next)]
  BY <1>1, <1>2, <1>3 DEF UpdateCandidate
<1>8. att' \in [TxHash -> Attempt]
  BY <1>6, <1>7 DEF IInv, TypeOK
<1>9. worker[w].pc = "pass" /\ Scanned(w, t) /\ UNCHANGED rowVars
  BY DEF UpdateCandidate
<1>10. QED BY <1>8, <1>9, ScannedStep

LEMMA ConflictCandidateStep ==
    ASSUME IInv, NEW w \in Worker, NEW t \in TxHash, ConflictCandidate(w, t)
    PROVE  IInv' /\ UNCHANGED <<exec, winning, announced>>
<1>1. PICK a : a = worker[w].att[t]
  OBVIOUS
<1>2. a \in Attempt
  BY <1>1 DEF IInv, TypeOK, WorkerState
<1>3. PICK c : c = Conflict("SIGNED_PAYLOAD_MISMATCH", NoSpend)
  OBVIOUS
<1>4. c \in Conflicts
  BY <1>3, PlainConflict DEF ConflictType
<1>5. PICK b : b = [disp |-> "CONFLICTED", sub |-> CandidateSubmission(a.sub),
                    chain |-> a.chain, wf |-> "CONFLICTED", conflict |-> c]
  OBVIOUS
<1>6. b \in Attempt
  BY <1>2, <1>4, <1>5
     DEF Attempt, Disposition, CandidateSubmission, SubmissionStatus, WorkflowStatus
<1>7. att' = [att EXCEPT ![t] = b]
  BY <1>1, <1>3, <1>5 DEF ConflictCandidate
<1>8. att' \in [TxHash -> Attempt]
  BY <1>6, <1>7 DEF IInv, TypeOK
<1>9. worker[w].pc = "pass" /\ Scanned(w, t) /\ UNCHANGED rowVars
  BY DEF ConflictCandidate
<1>10. QED BY <1>8, <1>9, ScannedStep

-----------------------------------------------------------------------------
(* Steps that write the row *)

\* A versioned write of a sound row puts every reader of the old row behind.
LEMMA WrittenRow ==
    ASSUME IInv, AdvanceVersion, exec' \in Row, SoundRow(exec'),
           winning' \in TxHash \cup {NoTx}, announced' \in {"NONE", "READY", "REVOKED"},
           att' \in [TxHash -> Attempt],
           worker' \in [Worker -> WorkerState],
           \A v \in Worker :
              worker'[v] = worker[v] \/ InLine(worker'[v], exec', winning', version')
    PROVE  IInv'
<1>1. version \in Nat /\ version' = version + 1
  BY DEF IInv, TypeOK, AdvanceVersion
<1>2. ASSUME NEW v \in Worker PROVE InLine(worker'[v], exec', winning', version')
  <2>1. CASE worker'[v] = worker[v]
    <3>1. InLine(worker[v], exec, winning, version)
      BY DEF IInv
    <3>2. worker[v].version \in Nat
      BY <3>1 DEF InLine, WorkerState
    <3>3. worker[v].pc \in {"attempts", "pass"} =>
             worker[v].version <= version' /\ worker[v].version # version'
      BY <1>1, <3>1, <3>2 DEF InLine
    <3>4. QED BY <2>1, <3>1, <3>3 DEF InLine
  <2>2. QED BY <2>1
<1>3. TypeOK'
  BY <1>1 DEF TypeOK
<1>4. QED BY <1>2, <1>3 DEF IInv

LEMMA AttachStep ==
    ASSUME IInv, NEW t \in TxHash, NEW status \in {"PREPARED", "SUBMITTED"},
           NEW kind \in AttemptKind, AttachTransaction(t, status, kind)
    PROVE  IInv' /\ Projection!AttachTransaction(t, status, kind)
<1>1. /\ SoundRow(exec) /\ exec \in Row /\ att \in [TxHash -> Attempt]
      /\ AdvanceVersion /\ AttachAllowed(exec, t, status, kind)
      /\ exec' = Attached(exec, t, status)
      /\ winning' = IF exec.tx = t THEN winning ELSE NoTx
      /\ announced' = announced /\ worker' = worker
  BY DEF IInv, TypeOK, AttachTransaction
<1>2. PICK next : next = Attached(exec, t, status)
  OBVIOUS
<1>3. /\ SoundRow(next)
      /\ exec.tx = t => next.conflict = exec.conflict
      /\ exec.tx # t => next.conflict = NoConflict
  BY <1>1, <1>2, AttachedFacts
<1>4. next \in Row
  <2>1. Storable(next)
    BY <1>1, <1>3 DEF Row, Storable, NoConflict, Conflict, StorableConflict
  <2>2. QED BY <1>3, <2>1, StorableRow DEF SoundRow
<1>5. att' \in [TxHash -> Attempt]
  <2>1. status \in SubmissionStatus
    BY DEF SubmissionStatus
  <2>2. CASE att[t].disp # "ABSENT"
    <3>1. [att[t] EXCEPT !.sub = status] \in Attempt
      BY <1>1, <2>1 DEF Attempt
    <3>2. att' = [att EXCEPT ![t].sub = status]
      BY <2>2 DEF AttachTransaction
    <3>3. QED BY <1>1, <3>1, <3>2
  <2>3. CASE ~(att[t].disp # "ABSENT")
    <3>1. PICK fresh : fresh = [NoAttempt EXCEPT !.disp = "ACTIVE", !.sub = status]
      OBVIOUS
    <3>2. fresh \in Attempt
      BY <2>1, <3>1, NoAttemptType DEF Attempt, Disposition
    <3>3. ASSUME NEW u \in TxHash
          PROVE  [att[u] EXCEPT !.disp = PriorDisposition(exec)] \in Attempt
      BY <1>1, PriorType DEF Attempt
    <3>4. att' = [u \in TxHash |->
                    IF u = t THEN fresh
                    ELSE IF u = exec.tx /\ kind # "RBF_REPLACEMENT"
                    THEN [att[u] EXCEPT !.disp = PriorDisposition(exec)] ELSE att[u]]
      BY <2>3, <3>1 DEF AttachTransaction
    <3>5. QED BY <1>1, <3>2, <3>3, <3>4
  <2>4. QED BY <2>2, <2>3
<1>6. IInv'
  BY <1>1, <1>2, <1>3, <1>4, <1>5, WrittenRow DEF IInv, TypeOK
<1>7. Projection!AttachAllowed(exec, t, status, kind)
  BY <1>1 DEF Projection!AttachAllowed, AttachAllowed, Projection!Replaces, Replaces,
       Projection!Finalized, Finalized, Projection!PotentiallyLive, PotentiallyLive,
       Projection!SharesInput, SharesInput, Projection!SubmissionAllowed, SubmissionAllowed,
       Projection!SubmissionRank, SubmissionRank, Projection!InitialRow, InitialRow,
       Projection!NoConflict, NoConflict, Projection!Conflict, Conflict,
       Projection!NoSpend, NoSpend, Projection!NothingSeen, NothingSeen
<1>8. Projection!Attached(exec, t, status) = Attached(exec, t, status)
  BY DEF Projection!Attached, Attached, Projection!InitialRow, InitialRow,
       Projection!NoConflict, NoConflict, Projection!Conflict, Conflict,
       Projection!NoSpend, NoSpend, Projection!NothingSeen, NothingSeen
<1>9. QED BY <1>1, <1>6, <1>7, <1>8 DEF Projection!AttachTransaction

LEMMA MarkStep ==
    ASSUME IInv, NEW status \in SubmissionStatus, NEW suspected \in BOOLEAN,
           MarkSubmission(status, suspected)
    PROVE  IInv' /\ Projection!MarkSubmission(status, suspected)
<1>1. /\ SoundRow(exec) /\ exec \in Row /\ att \in [TxHash -> Attempt]
      /\ AdvanceVersion /\ MarkAllowed(exec, status, suspected)
      /\ exec' = Marked(exec, status, suspected)
      /\ winning' = winning /\ announced' = announced /\ worker' = worker
  BY DEF IInv, TypeOK, MarkSubmission
<1>2. PICK next : next = Marked(exec, status, suspected)
  OBVIOUS
<1>3. /\ SoundRow(next)
      /\ next.conflict = Conflict(IF suspected THEN "INPUT_CONFLICT_SUSPECTED"
                                  ELSE exec.conflict.type, NoSpend)
  BY <1>1, <1>2, MarkedFacts
<1>4. next \in Row
  <2>1. exec.conflict.type \in StorableConflict
    BY <1>1 DEF Row
  <2>2. Storable(next)
    BY <1>3, <2>1 DEF Storable, Conflict, StorableConflict
  <2>3. QED BY <1>3, <2>2, StorableRow DEF SoundRow
<1>5. att' \in [TxHash -> Attempt]
  <2>1. exec.tx \in TxHash /\ next.conflict \in Conflicts
    BY <1>1, <1>3 DEF MarkAllowed, Row, SoundRow, AnyRow
  <2>2. PICK a : a = [att[exec.tx] EXCEPT !.sub = status, !.conflict = next.conflict,
                         !.disp = IF status = "NODE_REJECTED" THEN "REJECTED" ELSE "ACTIVE"]
    OBVIOUS
  <2>3. a \in Attempt
    BY <1>1, <2>1, <2>2 DEF Attempt, Disposition
  <2>4. att' = [att EXCEPT ![exec.tx] = a]
    BY <1>1, <1>2, <2>1, <2>2 DEF MarkSubmission
  <2>5. QED BY <1>1, <2>3, <2>4
<1>6. IInv'
  BY <1>1, <1>2, <1>3, <1>4, <1>5, WrittenRow DEF IInv, TypeOK
<1>7. Projection!MarkAllowed(exec, status, suspected)
  BY <1>1 DEF Projection!MarkAllowed, MarkAllowed, Projection!SubmissionAllowed,
       SubmissionAllowed, Projection!SubmissionRank, SubmissionRank
<1>8. Projection!Marked(exec, status, suspected) = Marked(exec, status, suspected)
  BY DEF Projection!Marked, Marked, Projection!Conflict, Conflict, Projection!NoSpend, NoSpend
<1>9. QED BY <1>1, <1>6, <1>7, <1>8 DEF Projection!MarkSubmission

\* The instance's copies of the settlement event and of the storage check.
LEMMA SameEvent ==
    ASSUME NEW row, NEW next
    PROVE  /\ Projection!SettlementEvent(row, next) = SettlementEvent(row, next)
           /\ Projection!Storable(next) = Storable(next)
<1>1. Projection!SettlementEvent(row, next) = SettlementEvent(row, next)
  BY DEF Projection!SettlementEvent, SettlementEvent, Projection!WasReady, WasReady,
       Projection!SettlementReady, SettlementReady,
       Projection!IsSettlementReady, IsSettlementReady,
       Projection!ConfirmationSatisfied, ConfirmationSatisfied
<1>2. Projection!Storable(next) = Storable(next)
  BY DEF Projection!Storable, Storable, Projection!StorableConflict, StorableConflict
<1>3. QED BY <1>1, <1>2

\* A current worker's versioned write is an atomic write of the projection.
LEMMA CurrentWrite ==
    ASSUME IInv, NEW w \in Worker, worker[w].pc = "pass", Current(w),
           NEW next, SoundRow(next), Storable(next), AdvanceVersion, exec' = next,
           announced' = IF SettlementEvent(worker[w].row, next) = {} THEN announced
                        ELSE CHOOSE e \in SettlementEvent(worker[w].row, next) : TRUE,
           NEW t \in TxHash,
           winning' = IF next.wf = "CONFIRMED" THEN t ELSE worker[w].winning,
           NEW a \in Attempt, att' = SettleAttempts(att, t, a),
           NEW s \in WorkerState, s.row = InitialRow(NoTx), s.pc \in {"idle", "refresh"},
           worker' = [worker EXCEPT ![w] = s]
    PROVE  /\ IInv'
           /\ Projection!Write(next)
           /\ winning' = IF exec'.wf = "CONFIRMED" THEN t ELSE winning
<1>1. worker[w].row = exec /\ worker[w].winning = winning
  BY DEF IInv, InLine, Current
<1>2. announced' = IF SettlementEvent(exec, next) = {} THEN announced
                   ELSE CHOOSE e \in SettlementEvent(exec, next) : TRUE
  BY <1>1
<1>3. announced' \in {"NONE", "READY", "REVOKED"}
  BY <1>2, EventType DEF IInv, TypeOK
<1>4. winning' = IF next.wf = "CONFIRMED" THEN t ELSE winning
  BY <1>1
<1>5. exec' \in Row /\ SoundRow(exec')
  BY StorableRow DEF SoundRow
<1>6. att' \in [TxHash -> Attempt]
  BY SettledAttempts DEF IInv, TypeOK
<1>7. worker' \in [Worker -> WorkerState]
  BY DEF IInv, TypeOK
<1>8. ASSUME NEW v \in Worker
      PROVE  worker'[v] = worker[v] \/ InLine(worker'[v], exec', winning', version')
  <2>1. worker'[v] = IF v = w THEN s ELSE worker[v]
    BY DEF IInv, TypeOK
  <2>2. InLine(s, exec', winning', version')
    BY RestartInLine
  <2>3. QED BY <2>1, <2>2
<1>9. IInv'
  <2>1. winning' \in TxHash \cup {NoTx}
    BY <1>4 DEF IInv, TypeOK
  <2>2. QED BY <1>3, <1>5, <1>6, <1>7, <1>8, <2>1, WrittenRow
<1>10. Projection!Write(next)
  BY <1>2, SameEvent DEF Projection!Write
<1>11. QED BY <1>4, <1>9, <1>10

LEMMA SamePromotion ==
    ASSUME NEW t, NEW sub, NEW conflict, NEW o
    PROVE  Projection!Promoted(t, sub, conflict, o) = Promoted(t, sub, conflict, o)
BY DEF Projection!Promoted, Promoted, Projection!CandidateSubmission, CandidateSubmission,
     Projection!InitialRow, InitialRow, Projection!NoConflict, NoConflict,
     Projection!Conflict, Conflict, Projection!NoSpend, NoSpend,
     Projection!NothingSeen, NothingSeen, Projection!Noted, Noted,
     Projection!ApplyChainObservation, ApplyChainObservation,
     Projection!CommitPreserved, CommitPreserved, Projection!ReorgDetected, ReorgDetected,
     Projection!ConfirmationCount, ConfirmationCount,
     Projection!ConfirmationSatisfied, ConfirmationSatisfied,
     Projection!SettlementReady, SettlementReady,
     Projection!IsSettlementReady, IsSettlementReady

LEMMA PromoteStep ==
    ASSUME IInv, NEW w \in Worker, NEW t \in TxHash, NEW o \in PromotingObservations,
           PromoteCandidate(w, t, o)
    PROVE  /\ IInv'
           /\ \/ UNCHANGED <<exec, winning, announced>>
              \/ \E sub \in SubmissionStatus, conflict \in Conflicts :
                    Projection!PromoteCandidate(t, sub, conflict, o)
<1>1. PICK a : a = worker[w].att[t]
  OBVIOUS
<1>2. PICK next : next = Promoted(t, a.sub, a.conflict, o)
  OBVIOUS
<1>3. /\ worker[w] \in WorkerState /\ a \in Attempt
      /\ a.sub \in SubmissionStatus /\ a.conflict \in Conflicts
      /\ att \in [TxHash -> Attempt]
      /\ worker[w].pc = "pass" /\ t \in worker[w].todo
  BY <1>1 DEF IInv, TypeOK, WorkerState, Attempt, PromoteCandidate
<1>4. SoundRow(next) /\ Storable(next)
  <2>1. SoundRow(next)
    BY <1>2, <1>3, PromotedFacts
  <2>2. QED BY <1>1, <1>2, <2>1 DEF PromoteCandidate
<1>5. CASE LoseRace(w)
  BY <1>5, LoseRaceStep
<1>6. CASE ~LoseRace(w)
  <2>1. PICK b : b = [AttemptOf(next) EXCEPT !.conflict = att[t].conflict]
    OBVIOUS
  <2>2. PICK s : s = [Idle EXCEPT !.pc = "refresh", !.scan = FALSE, !.tries = worker[w].tries]
    OBVIOUS
  <2>3. /\ Current(w) /\ AdvanceVersion /\ exec' = next
        /\ announced' = IF SettlementEvent(worker[w].row, next) = {} THEN announced
                        ELSE CHOOSE e \in SettlementEvent(worker[w].row, next) : TRUE
        /\ winning' = IF next.wf = "CONFIRMED" THEN t ELSE worker[w].winning
        /\ att' = SettleAttempts(att, t, b)
        /\ worker' = [worker EXCEPT ![w] = s]
    BY <1>1, <1>2, <1>6, <2>1, <2>2 DEF PromoteCandidate
  <2>4. b \in Attempt
    <3>1. AttemptOf(next) \in Attempt
      BY <1>4, AttemptOfType DEF SoundRow
    <3>2. att[t].conflict \in Conflicts
      BY <1>3 DEF Attempt
    <3>3. QED BY <2>1, <3>1, <3>2 DEF Attempt
  <2>5. s \in WorkerState /\ s.row = InitialRow(NoTx) /\ s.pc = "refresh"
    <3>1. worker[w].tries \in 0 .. MaxTries - 1
      BY <1>3 DEF WorkerState
    <3>2. s \in WorkerState
      BY <2>2, <3>1, IdleType DEF WorkerState
    <3>3. QED BY <2>2, <3>2, IdleType DEF WorkerState
  <2>6. /\ IInv'
        /\ Projection!Write(next)
        /\ winning' = IF exec'.wf = "CONFIRMED" THEN t ELSE winning
    BY <1>3, <1>4, <2>3, <2>4, <2>5, CurrentWrite
  <2>7. exec.tx \notin {NoTx, t}
    BY <1>3, <2>3 DEF IInv, InLine, Current
  <2>8. Projection!Promoted(t, a.sub, a.conflict, o) = next
    BY <1>2, SamePromotion
  <2>9. Projection!PromoteCandidate(t, a.sub, a.conflict, o)
    BY <2>6, <2>7, <2>8 DEF Projection!PromoteCandidate
  <2>10. QED BY <1>3, <2>6, <2>9
<1>7. QED BY <1>5, <1>6

\* A pass applied by a current worker is an atomic write of its result.
LEMMA ApplyStep ==
    ASSUME IInv, NEW w \in Worker, NEW next, Apply(w, next),
           worker[w].pc = "pass" => SoundRow(next)
    PROVE  /\ IInv'
           /\ \/ UNCHANGED <<exec, winning, announced>>
              \/ /\ worker[w].row = exec /\ exec.tx # NoTx /\ ~ObservationRefused(exec)
                 /\ Projection!Write(next)
                 /\ winning' = IF exec'.wf = "CONFIRMED" THEN exec.tx ELSE winning
<1>1. /\ worker[w].pc = "pass" /\ Storable(next) /\ SoundRow(next)
      /\ ~ObservationRefused(worker[w].row)
      /\ InLine(worker[w], exec, winning, version)
  BY DEF Apply, IInv
<1>2. CASE LoseRace(w)
  BY <1>2, LoseRaceStep
<1>3. CASE ~LoseRace(w)
  <2>1. /\ Current(w) /\ AdvanceVersion /\ exec' = next
        /\ announced' = IF SettlementEvent(worker[w].row, next) = {} THEN announced
                        ELSE CHOOSE e \in SettlementEvent(worker[w].row, next) : TRUE
        /\ winning' = IF next.wf = "CONFIRMED" THEN worker[w].row.tx ELSE worker[w].winning
        /\ att' = SettleAttempts(att, worker[w].row.tx, AttemptOf(next))
        /\ worker' = [worker EXCEPT ![w] = Idle]
    BY <1>3 DEF Apply
  <2>2. worker[w].row = exec /\ exec.tx # NoTx /\ exec.tx \in TxHash
    BY <1>1, <2>1 DEF InLine, Current, IInv, TypeOK, Row
  <2>3. AttemptOf(next) \in Attempt
    BY <1>1, AttemptOfType DEF SoundRow
  <2>4. PICK t \in TxHash : t = exec.tx
    BY <2>2
  <2>5. PICK a \in Attempt : a = AttemptOf(next)
    BY <2>3
  <2>6. /\ winning' = IF next.wf = "CONFIRMED" THEN t ELSE worker[w].winning
        /\ att' = SettleAttempts(att, t, a)
    BY <2>1, <2>2, <2>4, <2>5
  <2>7. /\ IInv'
        /\ Projection!Write(next)
        /\ winning' = IF exec'.wf = "CONFIRMED" THEN t ELSE winning
    BY <1>1, <2>1, <2>4, <2>5, <2>6, IdleType, CurrentWrite
  <2>8. QED BY <1>1, <2>2, <2>4, <2>7
<1>4. QED BY <1>2, <1>3

LEMMA SamePass ==
    ASSUME NEW row, NEW o, NEW competing, NEW monitored
    PROVE  Projection!Reconciled(row, o, competing, monitored)
             = Reconciled(row, o, competing, monitored)
BY DEF Projection!Reconciled, Reconciled, Projection!StopsPolling, StopsPolling,
     Projection!Terminal, Terminal, Projection!AssertionsApplied, AssertionsApplied,
     Projection!ShouldReverify, ShouldReverify,
     Projection!AssertionsCleared, AssertionsCleared,
     Projection!ChainApplied, ChainApplied, Projection!ConflictAfter, ConflictAfter,
     Projection!SpendProven, SpendProven, Projection!Noted, Noted,
     Projection!Suspected, Suspected, Projection!NoConflict, NoConflict,
     Projection!Conflict, Conflict, Projection!NoSpend, NoSpend,
     Projection!Matured, Matured, Projection!Continues, Continues,
     Projection!MaturityWindow, MaturityWindow, Projection!NextSpent, NextSpent,
     Projection!BreakContinuity, BreakContinuity, Projection!BrokenSpend, BrokenSpend,
     Projection!Found, Found,
     Projection!SupersedeNodeRejection, SupersedeNodeRejection,
     Projection!ApplyChainObservation, ApplyChainObservation,
     Projection!CommitPreserved, CommitPreserved, Projection!ReorgDetected, ReorgDetected,
     Projection!ConfirmationCount, ConfirmationCount,
     Projection!ConfirmationSatisfied, ConfirmationSatisfied,
     Projection!SettlementReady, SettlementReady,
     Projection!IsSettlementReady, IsSettlementReady

LEMMA ReconcileStep ==
    ASSUME IInv, NEW w \in Worker, NEW o \in Observations,
           NEW monitored \in {FALSE, Monitoring}, ReconcilePass(w, o, monitored)
    PROVE  /\ IInv'
           /\ \/ UNCHANGED <<exec, winning, announced>>
              \/ \E competing \in BOOLEAN : Projection!ReconcilePass(o, competing, monitored)
<1>1. PICK competing : competing = (Competing(worker[w].att, worker[w].row.tx) # {})
  OBVIOUS
<1>2. competing \in BOOLEAN /\ monitored \in BOOLEAN
  BY <1>1, SettingAssumption
<1>3. PICK next : next = Reconciled(worker[w].row, o, competing, monitored)
  OBVIOUS
<1>4. Apply(w, next)
  BY <1>1, <1>3 DEF ReconcilePass
<1>5. SoundRow(next)
  <2>1. SoundRow(worker[w].row)
    BY DEF IInv, InLine
  <2>2. QED BY <1>2, <1>3, <2>1, ReconciledFacts
<1>6. /\ IInv'
      /\ \/ UNCHANGED <<exec, winning, announced>>
         \/ /\ worker[w].row = exec /\ exec.tx # NoTx /\ ~ObservationRefused(exec)
            /\ Projection!Write(next)
            /\ winning' = IF exec'.wf = "CONFIRMED" THEN exec.tx ELSE winning
  BY <1>4, <1>5, ApplyStep
<1>7. ASSUME worker[w].row = exec, exec.tx # NoTx, ~ObservationRefused(exec),
             Projection!Write(next),
             winning' = IF exec'.wf = "CONFIRMED" THEN exec.tx ELSE winning
      PROVE  Projection!ReconcilePass(o, competing, monitored)
  <2>1. Projection!Reconciled(exec, o, competing, monitored) = next
    BY <1>3, <1>7, SamePass
  <2>2. ~Projection!ObservationRefused(exec)
    BY <1>7 DEF Projection!ObservationRefused, ObservationRefused
  <2>3. QED BY <1>7, <2>1, <2>2 DEF Projection!ReconcilePass
<1>8. QED BY <1>2, <1>6, <1>7

LEMMA SameFailure == ASSUME NEW row PROVE Projection!RpcFailed(row) = RpcFailed(row)
BY DEF Projection!RpcFailed, RpcFailed, Projection!FailureObservation, FailureObservation,
     Projection!Noted, Noted, Projection!BreakContinuity, BreakContinuity,
     Projection!BrokenSpend, BrokenSpend, Projection!NoSpend, NoSpend,
     Projection!ApplyChainObservation, ApplyChainObservation,
     Projection!CommitPreserved, CommitPreserved, Projection!ReorgDetected, ReorgDetected,
     Projection!ConfirmationCount, ConfirmationCount,
     Projection!ConfirmationSatisfied, ConfirmationSatisfied,
     Projection!SettlementReady, SettlementReady,
     Projection!IsSettlementReady, IsSettlementReady

LEMMA RpcFailureStep ==
    ASSUME IInv, NEW w \in Worker, RpcFailurePass(w)
    PROVE  /\ IInv'
           /\ UNCHANGED <<exec, winning, announced>> \/ Projection!RpcFailurePass
<1>1. PICK next : next = RpcFailed(worker[w].row)
  OBVIOUS
<1>2. Apply(w, next)
  BY <1>1 DEF RpcFailurePass
<1>3. SoundRow(next)
  <2>1. SoundRow(worker[w].row)
    BY DEF IInv, InLine
  <2>2. QED BY <1>1, <2>1, RpcFailedFacts
<1>4. /\ IInv'
      /\ \/ UNCHANGED <<exec, winning, announced>>
         \/ /\ worker[w].row = exec /\ exec.tx # NoTx /\ ~ObservationRefused(exec)
            /\ Projection!Write(next)
            /\ winning' = IF exec'.wf = "CONFIRMED" THEN exec.tx ELSE winning
  BY <1>2, <1>3, ApplyStep
<1>5. Projection!RpcFailed(exec) = RpcFailed(exec)
  BY SameFailure
<1>6. Projection!ObservationRefused(exec) = ObservationRefused(exec)
  BY DEF Projection!ObservationRefused, ObservationRefused
<1>7. QED BY <1>1, <1>4, <1>5, <1>6 DEF Projection!RpcFailurePass

-----------------------------------------------------------------------------
(* The theorems *)

LEMMA SameSets ==
    /\ Projection!Observations = Observations
    /\ Projection!PromotingObservations = PromotingObservations
    /\ Projection!SubmissionStatus = SubmissionStatus
    /\ Projection!AttemptKind = AttemptKind
    /\ Projection!Conflicts = Conflicts
<1>1. Projection!Observations = Observations
  BY DEF Projection!Observations, Observations,
       Projection!CommitObservations, CommitObservations,
       Projection!PoolObservations, PoolObservations,
       Projection!UninspectedObservations, UninspectedObservations,
       Projection!InspectedObservations, InspectedObservations,
       Projection!Verdicts, Verdicts, Projection!Verdict, Verdict
<1>2. Projection!PromotingObservations = PromotingObservations
  BY DEF Projection!PromotingObservations, PromotingObservations,
       Projection!CommitObservations, CommitObservations,
       Projection!Verdicts, Verdicts, Projection!Verdict, Verdict
<1>3. Projection!SubmissionStatus = SubmissionStatus
  BY DEF Projection!SubmissionStatus, SubmissionStatus
<1>4. Projection!AttemptKind = AttemptKind
  BY DEF Projection!AttemptKind, AttemptKind
<1>5. Projection!Conflicts = Conflicts
  BY DEF Projection!Conflicts, Conflicts, Projection!ConflictType, ConflictType,
       Projection!ObservedEvidence, ObservedEvidence,
       Projection!BrokenSpend, BrokenSpend, Projection!Suspected, Suspected,
       Projection!Conflict, Conflict, Projection!NoSpend, NoSpend
<1>6. QED BY <1>1, <1>2, <1>3, <1>4, <1>5

\* Every step of a client keeps the invariant and is a step of the projection.
LEMMA ClientStepRefines == ASSUME IInv, ClientStep PROVE IInv' /\ Projection!Next
<1>1. CASE \E t \in TxHash, status \in {"PREPARED", "SUBMITTED"}, kind \in AttemptKind :
              AttachTransaction(t, status, kind)
  <2>1. PICK t \in TxHash, status \in {"PREPARED", "SUBMITTED"}, kind \in AttemptKind :
             AttachTransaction(t, status, kind)
    BY <1>1
  <2>2. IInv' /\ Projection!AttachTransaction(t, status, kind)
    BY <2>1, AttachStep
  <2>3. QED BY <2>2, SameSets DEF Projection!Next
<1>2. CASE \E status \in {"BROADCASTING", "SUBMITTED", "SUBMISSION_UNKNOWN", "NODE_REJECTED"},
              suspected \in BOOLEAN : MarkSubmission(status, suspected)
  <2>1. PICK status \in {"BROADCASTING", "SUBMITTED", "SUBMISSION_UNKNOWN", "NODE_REJECTED"},
             suspected \in BOOLEAN : MarkSubmission(status, suspected)
    BY <1>2
  <2>2. status \in SubmissionStatus
    BY DEF SubmissionStatus
  <2>3. IInv' /\ Projection!MarkSubmission(status, suspected)
    BY <2>1, <2>2, MarkStep
  <2>4. QED BY <2>3 DEF Projection!Next
<1>3. QED BY <1>1, <1>2 DEF ClientStep

\* Every step of a worker keeps the invariant, and is a step of the projection
\* or leaves it alone.
LEMMA WorkerStepRefines ==
    ASSUME IInv, NEW w \in Worker, WorkerStep(w)
    PROVE  IInv' /\ (UNCHANGED <<exec, winning, announced>> \/ Projection!Next)
<1>1. CASE ReadIntent(w) \/ ReadAttempts(w) \/ Abandon(w)
  BY <1>1, ReadIntentStep, ReadAttemptsStep, AbandonStep
<1>2. ASSUME NEW t \in TxHash,
             \/ SkipCandidate(w, t)
             \/ \E status \in ObservedStatus \ {"COMMITTED"} : UpdateCandidate(w, t, status)
             \/ ConflictCandidate(w, t)
      PROVE  IInv' /\ UNCHANGED <<exec, winning, announced>>
  BY <1>2, SkipCandidateStep, UpdateCandidateStep, ConflictCandidateStep
<1>3. ASSUME NEW t \in TxHash, NEW o \in PromotingObservations, PromoteCandidate(w, t, o)
      PROVE  IInv' /\ (UNCHANGED <<exec, winning, announced>> \/ Projection!Next)
  <2>1. CASE \E sub \in SubmissionStatus, conflict \in Conflicts :
                Projection!PromoteCandidate(t, sub, conflict, o)
    <3>1. Projection!Next
      BY <2>1, SameSets DEF Projection!Next
    <3>2. QED BY <1>3, <3>1, PromoteStep
  <2>2. QED BY <1>3, <2>1, PromoteStep
<1>4. ASSUME NEW o \in Observations, NEW monitored \in {FALSE, Monitoring},
             ReconcilePass(w, o, monitored)
      PROVE  IInv' /\ (UNCHANGED <<exec, winning, announced>> \/ Projection!Next)
  <2>1. CASE \E competing \in BOOLEAN : Projection!ReconcilePass(o, competing, monitored)
    <3>1. Projection!Next
      BY <2>1, SameSets DEF Projection!Next
    <3>2. QED BY <1>4, <3>1, ReconcileStep
  <2>2. QED BY <1>4, <2>1, ReconcileStep
<1>5. CASE RpcFailurePass(w)
  BY <1>5, RpcFailureStep DEF Projection!Next
<1>6. QED BY <1>1, <1>2, <1>3, <1>4, <1>5 DEF WorkerStep

LEMMA StepRefines ==
    ASSUME IInv, [Next]_vars PROVE IInv' /\ [Projection!Next]_Projection!vars
<1>1. CASE ClientStep
  BY <1>1, ClientStepRefines
<1>2. CASE \E w \in Worker : WorkerStep(w)
  BY <1>2, WorkerStepRefines DEF Projection!vars
<1>3. CASE UNCHANGED vars
  BY <1>3, StutterStep DEF Projection!vars
<1>4. QED BY <1>1, <1>2, <1>3 DEF Next

\* The inductive invariant holds in every reachable state.
THEOREM Invariance == Spec => []IInv
<1>1. IInv /\ [Next]_vars => IInv'
  BY StepRefines
<1>2. QED BY <1>1, InitIInv, PTL DEF Spec

\* The tables and the workers' copies always have their types.
THEOREM TypeCorrect == Spec => []TypeOK
<1>1. IInv => TypeOK
  BY DEF IInv
<1>2. QED BY <1>1, Invariance, PTL

\* The version guard is sufficient: a current worker has read what is stored.
THEOREM VersionsGuardReads == Spec => []ReadsCurrent
<1>1. QED BY IInvMeaning, Invariance, PTL

\* Concurrent workers implement the atomic projection, so what is proved of
\* the projection holds of the row they share.
THEOREM PassesAreAtomic == Spec => AtomicProjection
<1>1. Init => Projection!Init
  BY DEF Init, Projection!Init, Projection!InitialRow, InitialRow,
       Projection!NoConflict, NoConflict, Projection!Conflict, Conflict,
       Projection!NoSpend, NoSpend, Projection!NothingSeen, NothingSeen
<1>2. IInv /\ [Next]_vars => [Projection!Next]_Projection!vars
  BY StepRefines
<1>3. IInv /\ [Next]_vars
        => [UNCHANGED <<exec, winning, announced>> \/ Projection!Next]_<<exec, winning, announced>>
  BY <1>2 DEF Projection!vars
<1>4. QED BY <1>1, <1>3, Invariance, PTL DEF Spec, AtomicProjection

-----------------------------------------------------------------------------
(* What the projection promises of the row, told of the shared tables *)

RowPromises ==
    /\ Projection!CommitEvidence
    /\ Projection!SettledIsEvidenced
    /\ Projection!AssertionsMatchBlock
    /\ Projection!PollingKept

WinnerPromises == Projection!ConfirmedIsWinning /\ Projection!ReadyAnnounced

\* A commit is given up only on proof and a conflicted row is left alone.
StepPromises ==
    /\ exec.chain = "COMMITTED" /\ exec'.tx = exec.tx /\ exec'.chain # "COMMITTED"
          => exec'.seen.displaced
    /\ exec.wf = "CONFLICTED" /\ exec'.tx = exec.tx => exec' = exec

LEMMA RowIsSound == IInv => RowPromises
BY DEF IInv, SoundRow, Evidenced, VerdictMatches, SettledRow, PolledRow, Terminal,
       RowPromises, Projection!CommitEvidence, Projection!SettledIsEvidenced,
       Projection!AssertionsMatchBlock, Projection!PollingKept, Projection!Terminal,
       Projection!ConfirmationSatisfied, ConfirmationSatisfied

LEMMA SameSubmission ==
    ASSUME NEW row, NEW t, NEW status, NEW kind, NEW suspected
    PROVE  /\ Projection!AttachAllowed(row, t, status, kind)
                 = AttachAllowed(row, t, status, kind)
           /\ Projection!Attached(row, t, status) = Attached(row, t, status)
           /\ Projection!MarkAllowed(row, status, suspected)
                 = MarkAllowed(row, status, suspected)
           /\ Projection!Marked(row, status, suspected) = Marked(row, status, suspected)
<1>1. Projection!InitialRow(t) = InitialRow(t)
  BY DEF Projection!InitialRow, InitialRow, Projection!NoConflict, NoConflict,
       Projection!Conflict, Conflict, Projection!NoSpend, NoSpend,
       Projection!NothingSeen, NothingSeen
<1>2. \A s : Projection!SubmissionAllowed(s, status) = SubmissionAllowed(s, status)
  BY DEF Projection!SubmissionAllowed, SubmissionAllowed,
       Projection!SubmissionRank, SubmissionRank
<1>3. Projection!AttachAllowed(row, t, status, kind) = AttachAllowed(row, t, status, kind)
  BY <1>1, <1>2 DEF Projection!AttachAllowed, AttachAllowed, Projection!Replaces, Replaces,
       Projection!Finalized, Finalized, Projection!PotentiallyLive, PotentiallyLive,
       Projection!SharesInput, SharesInput
<1>4. Projection!Attached(row, t, status) = Attached(row, t, status)
  BY <1>1 DEF Projection!Attached, Attached
<1>5. Projection!MarkAllowed(row, status, suspected) = MarkAllowed(row, status, suspected)
  BY <1>2 DEF Projection!MarkAllowed, MarkAllowed
<1>6. Projection!Marked(row, status, suspected) = Marked(row, status, suspected)
  BY DEF Projection!Marked, Marked, Projection!Conflict, Conflict,
       Projection!NoSpend, NoSpend
<1>7. QED BY <1>3, <1>4, <1>5, <1>6

\* A write of a row announces its settlement.
LEMMA WriteAnnounces ==
    ASSUME Projection!ReadyAnnounced, exec.ready \in BOOLEAN, NEW row, row.ready \in BOOLEAN,
           Projection!Write(row)
    PROVE  exec' = row /\ Projection!ReadyAnnounced'
<1>1. exec' = row
  BY DEF Projection!Write
<1>2. announced' = IF SettlementEvent(exec, row) = {} THEN announced
                   ELSE CHOOSE e \in SettlementEvent(exec, row) : TRUE
  <2>1. Projection!SettlementEvent(exec, row) = SettlementEvent(exec, row)
    BY SameEvent
  <2>2. QED BY <2>1 DEF Projection!Write
<1>3. CASE WasReady(exec) = row.ready
  <2>1. SettlementEvent(exec, row) = {}
    BY <1>3 DEF SettlementEvent
  <2>2. announced' = announced
    BY <1>2, <2>1
  <2>3. row.ready => exec.ready
    BY <1>3 DEF WasReady
  <2>4. QED BY <1>1, <2>2, <2>3 DEF Projection!ReadyAnnounced
<1>4. CASE WasReady(exec) # row.ready
  <2>1. SettlementEvent(exec, row) = {IF row.ready THEN "READY" ELSE "REVOKED"}
    BY <1>4 DEF SettlementEvent
  <2>2. row.ready => announced' = "READY"
    BY <1>2, <2>1
  <2>3. QED BY <1>1, <2>2 DEF Projection!ReadyAnnounced
<1>5. QED BY <1>1, <1>3, <1>4

LEMMA ReadyType == ASSUME NEW row \in AnyRow PROVE row.ready \in BOOLEAN
BY DEF AnyRow

\* What a pass makes of a sound row, in the terms of the promises.
LEMMA PassFacts ==
    ASSUME NEW row, SoundRow(row), NEW o \in Observations,
           NEW competing \in BOOLEAN, NEW monitored \in BOOLEAN,
           NEW next, next = Reconciled(row, o, competing, monitored)
    PROVE  /\ SoundRow(next) /\ next.tx = row.tx
           /\ row.chain = "COMMITTED" /\ next.chain # "COMMITTED" => next.seen.displaced
BY ReconciledFacts

\* Every step of the projection keeps its promises about the winner, the event
\* and the order in which a row may change.
LEMMA ProjectionStepKeeps ==
    ASSUME IInv, WinnerPromises, Projection!Next
    PROVE  WinnerPromises' /\ StepPromises
<1>1. SoundRow(exec) /\ exec \in AnyRow /\ exec.ready \in BOOLEAN
  BY ReadyType DEF IInv, SoundRow
<1>2. Projection!ReadyAnnounced /\ Projection!ConfirmedIsWinning
  BY DEF WinnerPromises
<1>3. ASSUME NEW t \in TxHash, NEW status \in {"PREPARED", "SUBMITTED"},
             NEW kind \in AttemptKind, Projection!AttachTransaction(t, status, kind)
      PROVE  WinnerPromises' /\ StepPromises
  <2>1. PICK next : next = Attached(exec, t, status)
    OBVIOUS
  <2>2. /\ AttachAllowed(exec, t, status, kind) /\ exec' = next
        /\ winning' = IF exec.tx = t THEN winning ELSE NoTx
        /\ announced' = announced
    BY <1>3, <2>1, SameSubmission DEF Projection!AttachTransaction
  <2>3. /\ next.tx = t
        /\ exec.tx = t => /\ next.chain = exec.chain /\ next.wf = exec.wf
                          /\ next.ready = exec.ready
                          /\ exec.wf # "CONFLICTED"
        /\ exec.tx # t => ~next.ready /\ next.wf = "IDLE"
    BY <1>1, <2>1, <2>2, AttachedFacts
  <2>4. QED
    BY <1>2, <2>2, <2>3 DEF WinnerPromises, StepPromises, Projection!ConfirmedIsWinning,
                            Projection!ReadyAnnounced
<1>4. ASSUME NEW status \in SubmissionStatus, NEW suspected \in BOOLEAN,
             Projection!MarkSubmission(status, suspected)
      PROVE  WinnerPromises' /\ StepPromises
  <2>1. PICK next : next = Marked(exec, status, suspected)
    OBVIOUS
  <2>2. /\ MarkAllowed(exec, status, suspected) /\ exec' = next
        /\ winning' = winning /\ announced' = announced
    BY <1>4, <2>1, SameSubmission DEF Projection!MarkSubmission
  <2>3. /\ next.tx = exec.tx /\ next.chain = exec.chain /\ next.wf = exec.wf
        /\ next.ready = exec.ready /\ exec.wf # "CONFLICTED"
    BY <1>1, <2>1, <2>2, MarkedFacts
  <2>4. QED
    BY <1>2, <2>2, <2>3 DEF WinnerPromises, StepPromises, Projection!ConfirmedIsWinning,
                            Projection!ReadyAnnounced
<1>5. ASSUME NEW next, SoundRow(next), next.tx = exec.tx, Projection!Write(next),
             ~Projection!ObservationRefused(exec),
             winning' = IF exec'.wf = "CONFIRMED" THEN exec.tx ELSE winning,
             exec.chain = "COMMITTED" /\ next.chain # "COMMITTED" => next.seen.displaced
      PROVE  WinnerPromises' /\ StepPromises
  <2>1. exec' = next /\ Projection!ReadyAnnounced'
    BY <1>1, <1>2, <1>5, ReadyType, WriteAnnounces DEF SoundRow
  <2>2. exec.wf # "CONFLICTED"
    BY <1>5 DEF Projection!ObservationRefused
  <2>3. Projection!ConfirmedIsWinning'
    BY <1>5, <2>1 DEF Projection!ConfirmedIsWinning
  <2>4. QED BY <1>5, <2>1, <2>2, <2>3 DEF WinnerPromises, StepPromises
<1>6. ASSUME NEW o \in Observations, NEW competing \in BOOLEAN,
             NEW monitored \in {FALSE, Monitoring},
             Projection!ReconcilePass(o, competing, monitored)
      PROVE  WinnerPromises' /\ StepPromises
  <2>1. PICK m \in BOOLEAN : m = monitored
    BY SettingAssumption
  <2>2. PICK next : next = Reconciled(exec, o, competing, m)
    OBVIOUS
  <2>3. /\ Projection!Write(next) /\ ~Projection!ObservationRefused(exec)
        /\ winning' = IF exec'.wf = "CONFIRMED" THEN exec.tx ELSE winning
    BY <1>6, <2>1, <2>2, SamePass DEF Projection!ReconcilePass
  <2>4. /\ SoundRow(next) /\ next.tx = exec.tx
        /\ exec.chain = "COMMITTED" /\ next.chain # "COMMITTED" => next.seen.displaced
    BY <1>1, <2>2, PassFacts
  <2>5. QED BY <1>5, <2>3, <2>4
<1>7. ASSUME Projection!RpcFailurePass
      PROVE  WinnerPromises' /\ StepPromises
  <2>1. PICK next : next = RpcFailed(exec)
    OBVIOUS
  <2>2. /\ Projection!Write(next) /\ ~Projection!ObservationRefused(exec)
        /\ winning' = IF exec'.wf = "CONFIRMED" THEN exec.tx ELSE winning
    BY <1>7, <2>1, SameFailure DEF Projection!RpcFailurePass
  <2>3. /\ SoundRow(next) /\ next.tx = exec.tx
        /\ exec.chain = "COMMITTED" => next.chain = "COMMITTED"
    BY <1>1, <2>1, RpcFailedFacts
  <2>4. QED BY <1>5, <2>2, <2>3
<1>8. ASSUME NEW t \in TxHash, NEW sub \in SubmissionStatus, NEW conflict \in Conflicts,
             NEW o \in PromotingObservations, Projection!PromoteCandidate(t, sub, conflict, o)
      PROVE  WinnerPromises' /\ StepPromises
  <2>1. PICK next : next = Promoted(t, sub, conflict, o)
    OBVIOUS
  <2>2. /\ Projection!Write(next) /\ exec.tx # t
        /\ winning' = IF exec'.wf = "CONFIRMED" THEN t ELSE winning
    BY <1>8, <2>1, SamePromotion DEF Projection!PromoteCandidate
  <2>3. SoundRow(next) /\ next.tx = t
    BY <2>1, PromotedFacts
  <2>4. exec' = next /\ Projection!ReadyAnnounced'
    BY <1>1, <1>2, <2>2, <2>3, ReadyType, WriteAnnounces DEF SoundRow
  <2>5. Projection!ConfirmedIsWinning'
    BY <2>2, <2>3, <2>4 DEF Projection!ConfirmedIsWinning
  <2>6. QED BY <2>2, <2>3, <2>4, <2>5 DEF WinnerPromises, StepPromises
<1>9. CASE \E t \in TxHash, status \in {"PREPARED", "SUBMITTED"}, kind \in AttemptKind :
              Projection!AttachTransaction(t, status, kind)
  BY <1>3, <1>9
<1>10. CASE \E status \in {"BROADCASTING", "SUBMITTED", "SUBMISSION_UNKNOWN", "NODE_REJECTED"},
               suspected \in BOOLEAN : Projection!MarkSubmission(status, suspected)
  BY <1>4, <1>10 DEF SubmissionStatus
<1>11. CASE \E o \in Observations, competing \in BOOLEAN, monitored \in {FALSE, Monitoring} :
               Projection!ReconcilePass(o, competing, monitored)
  BY <1>6, <1>11
<1>12. CASE \E t \in TxHash, sub \in SubmissionStatus, conflict \in Conflicts,
               o \in PromotingObservations : Projection!PromoteCandidate(t, sub, conflict, o)
  BY <1>8, <1>12
<1>13. QED BY <1>7, <1>9, <1>10, <1>11, <1>12, SameSets DEF Projection!Next

\* A step that leaves the projection alone keeps its promises.
LEMMA ProjectionStutter ==
    ASSUME WinnerPromises, UNCHANGED Projection!vars
    PROVE  WinnerPromises' /\ StepPromises
BY DEF WinnerPromises, StepPromises, Projection!vars, Projection!ConfirmedIsWinning,
       Projection!ReadyAnnounced

LEMMA TableStep ==
    ASSUME IInv, WinnerPromises, [Next]_vars PROVE WinnerPromises' /\ StepPromises
<1>1. [Projection!Next]_Projection!vars
  BY StepRefines
<1>2. QED BY <1>1, ProjectionStepKeeps, ProjectionStutter

\* What the projection promises of one row holds of the row any number of
\* workers share: its commit, its settlement and its verdict are evidenced, it
\* is polled, its winner is its own transaction, its settlement was published.
THEOREM SharedRowIsSound == Spec => [](RowPromises /\ WinnerPromises)
<1>1. Init => WinnerPromises
  BY DEF Init, InitialRow, WinnerPromises, Projection!ConfirmedIsWinning,
         Projection!ReadyAnnounced
<1>2. IInv /\ WinnerPromises /\ [Next]_vars => WinnerPromises'
  BY TableStep
<1>3. QED BY <1>1, <1>2, RowIsSound, Invariance, PTL DEF Spec

\* Racing workers never undo a recorded commit without proof that its block left
\* the chain, and never touch a conflicted row but to replace its transaction.
THEOREM SharedRowMoves == Spec => [][StepPromises]_<<exec, winning, announced>>
<1>1. IInv /\ WinnerPromises /\ [Next]_vars => [StepPromises]_<<exec, winning, announced>>
  BY TableStep
<1>2. QED BY <1>1, SharedRowIsSound, Invariance, PTL DEF Spec

-----------------------------------------------------------------------------
(* The winner is exclusive, but for the candidate writes of racing workers *)

\* The first setting of the theorems below: no two workers reconcile the intent.
OneWorker == \A v, w \in Worker : v = w

\* What breaks the winner with two of them: a scan writes an open candidate from
\* a copy of the intent that is no longer the row's (updateCandidateAttempt has
\* no version guard).
StaleCandidateWrite ==
    \E w \in Worker, t \in TxHash, status \in ObservedStatus \ {"COMMITTED"} :
        UpdateCandidate(w, t, status) /\ ~Current(w)

\* The second setting: any number of workers, that write no candidate so.
GuardedSpec == Init /\ [][Next /\ ~StaleCandidateWrite]_vars

\* What a worker holds can be relied on: nobody else writes, or nobody did.
Trusted(s) == OneWorker \/ s.version = version

\* How the attempt row a of hash t relates to the executions row.
Closed(a, t, row) ==
    /\ a.disp = "CONFIRMED" => a.wf = "CONFIRMED"
    /\ a.wf = "CONFIRMED" => row.wf = "CONFIRMED" /\ row.tx = t
    /\ row.wf = "CONFIRMED" /\ t # row.tx => a.disp # "ACTIVE"

\* A worker has read the winner, and then finds no candidate to scan.
Scans(s, row) ==
    /\ row.wf = "CONFIRMED" /\ s.pc \in {"attempts", "pass"} => s.row.tx = row.tx
    /\ s.pc = "pass" => \A t \in s.todo : row.wf # "CONFIRMED" /\ s.att[t].wf # "CONFIRMED"

Exclusive ==
    /\ exec.wf = "CONFIRMED" => exec.tx # NoTx
    /\ \A t \in TxHash : Closed(att[t], t, exec)
    /\ \A w \in Worker : Trusted(worker[w]) => Scans(worker[w], exec)

\* What every step keeps: the invariant, and the hash of a confirmed row.
KeepsWinner == Exclusive' /\ (exec.wf = "CONFIRMED" => exec'.tx = exec.tx)

LEMMA InitExclusive == Init => Exclusive
<1> SUFFICES ASSUME Init PROVE Exclusive
  OBVIOUS
<1>1. exec.wf # "CONFIRMED"
  BY DEF Init, InitialRow
<1>2. ASSUME NEW t \in TxHash PROVE Closed(att[t], t, exec)
  <2>1. att[t] = NoAttempt
    BY DEF Init
  <2>2. QED BY <1>1, <2>1 DEF Closed, NoAttempt
<1>3. ASSUME NEW w \in Worker PROVE Scans(worker[w], exec)
  <2>1. worker[w].pc = "idle"
    BY DEF Init, Idle
  <2>2. QED BY <2>1 DEF Scans
<1>4. QED BY <1>1, <1>2, <1>3 DEF Exclusive

\* A step that leaves the row and all but one worker alone.
LEMMA QuietKeeps ==
    ASSUME IInv, Exclusive, UNCHANGED rowVars, NEW w \in Worker, NEW s,
           Trusted(s) => Scans(s, exec),
           worker' = [worker EXCEPT ![w] = s],
           \A t \in TxHash : Closed(att'[t], t, exec)
    PROVE  KeepsWinner
<1> exec' = exec /\ version' = version
  BY DEF rowVars
<1>1. ASSUME NEW v \in Worker, OneWorker \/ worker'[v].version = version
      PROVE  Scans(worker'[v], exec)
  <2>1. worker'[v] = IF v = w THEN s ELSE worker[v]
    BY DEF IInv, TypeOK
  <2>2. QED BY <1>1, <2>1 DEF Exclusive, Trusted
<1>2. Exclusive'
  BY <1>1 DEF Exclusive, Trusted
<1>3. QED BY <1>2 DEF KeepsWinner

\* A worker that starts over scans nothing.
LEMMA RestartScans ==
    ASSUME NEW s, s.pc \in {"idle", "refresh"}, NEW row PROVE Scans(s, row)
BY DEF Scans

LEMMA ReadIntentKeeps ==
    ASSUME IInv, Exclusive, NEW w \in Worker, ReadIntent(w) PROVE KeepsWinner
<1>1. PICK s : s = [worker[w] EXCEPT !.pc = "attempts", !.version = version,
                                     !.row = exec, !.winning = winning]
  OBVIOUS
<1>2. worker' = [worker EXCEPT ![w] = s] /\ UNCHANGED rowVars /\ exec' = exec /\ att' = att
  BY <1>1 DEF ReadIntent, rowVars
<1>3. s.pc = "attempts" /\ s.row = exec
  BY <1>1 DEF IInv, TypeOK, WorkerState
<1>4. Scans(s, exec)
  BY <1>3 DEF Scans
<1>5. QED BY <1>2, <1>4, QuietKeeps DEF Exclusive

LEMMA ReadAttemptsKeeps ==
    ASSUME IInv, Exclusive, NEW w \in Worker, ReadAttempts(w) PROVE KeepsWinner
<1>1. PICK competing : competing = Competing(att, worker[w].row.tx)
  OBVIOUS
<1>2. PICK held : held = [t \in TxHash |-> IF t \in competing THEN att[t] ELSE NoAttempt]
  OBVIOUS
<1>3. PICK todo : todo = IF worker[w].scan THEN competing ELSE {}
  OBVIOUS
<1>4. PICK s : s = [worker[w] EXCEPT !.pc = "pass", !.att = held, !.todo = todo]
  OBVIOUS
<1>5. /\ worker' = [worker EXCEPT ![w] = s] /\ UNCHANGED rowVars /\ exec' = exec
      /\ att' = att /\ worker[w].pc = "attempts"
  BY <1>1, <1>2, <1>3, <1>4 DEF ReadAttempts, rowVars
<1>6. /\ s.pc = "pass" /\ s.row = worker[w].row /\ s.att = held /\ s.todo = todo
      /\ s.version = worker[w].version
  BY <1>4 DEF IInv, TypeOK, WorkerState
<1>7. Trusted(s) => (exec.wf = "CONFIRMED" => worker[w].row.tx = exec.tx)
  BY <1>5, <1>6 DEF Exclusive, Scans, Trusted
<1>8. ASSUME Trusted(s), NEW t \in todo
      PROVE  exec.wf # "CONFIRMED" /\ held[t].wf # "CONFIRMED"
  <2>1. t \in TxHash /\ t # worker[w].row.tx /\ att[t].disp = "ACTIVE" /\ held[t] = att[t]
    BY <1>1, <1>2, <1>3, <1>8 DEF Competing
  <2>2. Closed(att[t], t, exec)
    BY <2>1 DEF Exclusive
  <2>3. QED BY <1>7, <1>8, <2>1, <2>2 DEF Closed
<1>9. Trusted(s) => Scans(s, exec)
  BY <1>6, <1>7, <1>8 DEF Scans
<1>10. QED BY <1>5, <1>9, QuietKeeps DEF Exclusive

LEMMA LoseRaceKeeps ==
    ASSUME IInv, Exclusive, NEW w \in Worker, LoseRace(w) PROVE KeepsWinner
<1>1. /\ worker' = [worker EXCEPT ![w] = AfterConflict(w)]
      /\ UNCHANGED rowVars /\ exec' = exec /\ att' = att
  BY DEF LoseRace, rowVars
<1>2. AfterConflict(w).pc \in {"idle", "refresh"}
  BY AfterConflictType DEF IInv, TypeOK
<1>3. Scans(AfterConflict(w), exec)
  BY <1>2, RestartScans
<1>4. QED BY <1>1, <1>3, QuietKeeps DEF Exclusive

LEMMA AbandonKeeps ==
    ASSUME IInv, Exclusive, NEW w \in Worker, Abandon(w) PROVE KeepsWinner
<1>1. worker' = [worker EXCEPT ![w] = Idle] /\ UNCHANGED rowVars /\ exec' = exec /\ att' = att
  BY DEF Abandon, rowVars
<1>2. Scans(Idle, exec)
  BY IdleType, RestartScans
<1>3. QED BY <1>1, <1>2, QuietKeeps DEF Exclusive

\* A scan writes no winner, and keeps a candidate open only while nothing is
\* confirmed.
LEMMA ScannedKeeps ==
    ASSUME IInv, Exclusive, NEW w \in Worker, NEW t \in TxHash,
           worker[w].pc = "pass", t \in worker[w].todo, Scanned(w, t), UNCHANGED rowVars,
           NEW a, a.wf # "CONFIRMED", a.disp # "CONFIRMED",
           Trusted(worker[w]) \/ a.disp # "ACTIVE",
           att' = att \/ att' = [att EXCEPT ![t] = a]
    PROVE  KeepsWinner
<1>1. PICK s : s = [worker[w] EXCEPT !.todo = worker[w].todo \ {t}]
  OBVIOUS
<1>2. worker' = [worker EXCEPT ![w] = s]
  BY <1>1 DEF Scanned
<1>3. /\ s.pc = worker[w].pc /\ s.row = worker[w].row /\ s.att = worker[w].att
      /\ s.todo = worker[w].todo \ {t} /\ s.version = worker[w].version
  BY <1>1 DEF IInv, TypeOK, WorkerState
<1>4. Trusted(worker[w]) => Scans(worker[w], exec) /\ exec.wf # "CONFIRMED"
  BY DEF Exclusive, Scans
<1>5. Trusted(s) => Scans(s, exec)
  BY <1>3, <1>4 DEF Scans, Trusted
<1>6. ASSUME NEW u \in TxHash PROVE Closed(att'[u], u, exec)
  <2>1. att'[u] = att[u] \/ att'[u] = a
    BY DEF IInv, TypeOK
  <2>2. Closed(att[u], u, exec) /\ Closed(a, u, exec)
    BY <1>4 DEF Exclusive, Closed
  <2>3. QED BY <2>1, <2>2
<1>7. QED BY <1>2, <1>5, <1>6, QuietKeeps

LEMMA SkipCandidateKeeps ==
    ASSUME IInv, Exclusive, NEW w \in Worker, NEW t \in TxHash, SkipCandidate(w, t)
    PROVE  KeepsWinner
<1>1. /\ worker[w].pc = "pass" /\ t \in worker[w].todo /\ Scanned(w, t)
      /\ UNCHANGED rowVars /\ att' = att
  BY DEF SkipCandidate, rowVars
<1>2. NoAttempt.wf # "CONFIRMED" /\ NoAttempt.disp \notin {"CONFIRMED", "ACTIVE"}
  BY DEF NoAttempt
<1>3. QED BY <1>1, <1>2, ScannedKeeps

LEMMA UpdateCandidateKeeps ==
    ASSUME IInv, Exclusive, NEW w \in Worker, NEW t \in TxHash,
           NEW status \in ObservedStatus \ {"COMMITTED"}, UpdateCandidate(w, t, status),
           OneWorker \/ Current(w)
    PROVE  KeepsWinner
<1>1. PICK b : b = worker[w].att[t]
  OBVIOUS
<1>2. PICK o : o = [status |-> status, block |-> NoBlock, tip |-> 0, displaced |-> FALSE]
  OBVIOUS
<1>3. PICK row : row = CandidateSnapshot(b)
  OBVIOUS
<1>4. PICK next : next = ApplyChainObservation(row, o)
  OBVIOUS
<1>5. /\ worker[w].pc = "pass" /\ t \in worker[w].todo /\ Scanned(w, t)
      /\ UNCHANGED rowVars /\ att' = [att EXCEPT ![t] = AttemptOf(next)]
      /\ Trusted(worker[w])
  BY <1>1, <1>2, <1>3, <1>4 DEF UpdateCandidate, rowVars, Trusted, Current
<1>6. b \in Attempt /\ b.wf # "CONFIRMED"
  BY <1>1, <1>5 DEF IInv, TypeOK, WorkerState, Exclusive, Scans
<1>7. row \in AnyRow /\ row.wf # "CONFIRMED"
  <2>1. row \in AnyRow
    BY <1>3, <1>6, CandidateType
  <2>2. row.wf = b.wf
    BY <1>3 DEF CandidateSnapshot, InitialRow
  <2>3. QED BY <1>6, <2>1, <2>2
<1>8. next.wf # "CONFIRMED"
  BY <1>2, <1>4, <1>7 DEF ApplyChainObservation, AnyRow
<1>9. AttemptOf(next).wf # "CONFIRMED" /\ AttemptOf(next).disp # "CONFIRMED"
  BY <1>8 DEF AttemptOf, DispositionFor
<1>10. QED BY <1>5, <1>9, ScannedKeeps

LEMMA ConflictCandidateKeeps ==
    ASSUME IInv, Exclusive, NEW w \in Worker, NEW t \in TxHash, ConflictCandidate(w, t)
    PROVE  KeepsWinner
<1>1. PICK a : a = [disp |-> "CONFLICTED", sub |-> CandidateSubmission(worker[w].att[t].sub),
                    chain |-> worker[w].att[t].chain, wf |-> "CONFLICTED",
                    conflict |-> Conflict("SIGNED_PAYLOAD_MISMATCH", NoSpend)]
  OBVIOUS
<1>2. /\ worker[w].pc = "pass" /\ t \in worker[w].todo /\ Scanned(w, t)
      /\ UNCHANGED rowVars /\ att' = [att EXCEPT ![t] = a]
  BY <1>1 DEF ConflictCandidate, rowVars
<1>3. a.wf # "CONFIRMED" /\ a.disp \notin {"CONFIRMED", "ACTIVE"}
  BY <1>1
<1>4. QED BY <1>2, <1>3, ScannedKeeps

\* Once the version has moved, what the other workers hold is out of date.
LEMMA OutOfDate ==
    ASSUME IInv, AdvanceVersion, NEW v \in Worker, worker'[v] = worker[v],
           ~OneWorker, Trusted(worker[v])'
    PROVE  worker[v].pc \in {"idle", "refresh"}
<1>1. version \in Nat /\ InLine(worker[v], exec, winning, version)
  BY DEF IInv, TypeOK
<1>2. worker[v].version = version + 1
  BY DEF Trusted, AdvanceVersion
<1>3. worker[v].version \in Nat /\ ~(worker[v].version <= version)
  BY <1>1, <1>2
<1>4. worker[v].pc \in {"idle", "refresh", "attempts", "pass"}
  BY <1>1 DEF InLine, WorkerState
<1>5. QED BY <1>1, <1>3, <1>4 DEF InLine

\* A versioned write of worker w: it closes the other attempts when it confirms
\* t, w forgets what it had read, and what the others have read is out of date.
LEMMA WriteKeeps ==
    ASSUME IInv, Exclusive, AdvanceVersion, NEW w \in Worker, NEW t \in TxHash,
           exec.wf = "CONFIRMED" => t = exec.tx,
           exec'.tx = t, NEW a \in Attempt, a.wf = exec'.wf, a.disp = DispositionFor(exec'),
           att' = SettleAttempts(att, t, a), worker'[w].pc \in {"idle", "refresh"},
           \A v \in Worker \ {w} : worker'[v] = worker[v]
    PROVE  KeepsWinner
<1>1. ASSUME NEW u \in TxHash PROVE Closed(att'[u], u, exec')
  <2>1. CASE u = t
    <3>1. att'[u] = a
      BY <2>1 DEF SettleAttempts
    <3>2. QED BY <2>1, <3>1 DEF Closed, DispositionFor
  <2>2. CASE u # t
    <3>1. att[u] \in Attempt /\ Closed(att[u], u, exec)
      BY DEF IInv, TypeOK, Exclusive
    <3>2. att'[u] = IF a.disp = "CONFIRMED" /\ att[u].disp = "ACTIVE"
                    THEN [att[u] EXCEPT !.disp = "SUPERSEDED"] ELSE att[u]
      BY <2>2 DEF SettleAttempts
    <3>3. att[u].wf # "CONFIRMED" /\ att[u].disp # "CONFIRMED"
      BY <2>2, <3>1 DEF Closed
    <3>4. exec'.wf = "CONFIRMED" => a.disp = "CONFIRMED"
      BY DEF DispositionFor
    <3>5. CASE a.disp = "CONFIRMED" /\ att[u].disp = "ACTIVE"
      <4>1. att'[u].wf = att[u].wf /\ att'[u].disp = "SUPERSEDED"
        BY <3>1, <3>2, <3>5 DEF Attempt
      <4>2. QED BY <3>3, <4>1 DEF Closed
    <3>6. CASE ~(a.disp = "CONFIRMED" /\ att[u].disp = "ACTIVE")
      BY <3>2, <3>3, <3>4, <3>6 DEF Closed
    <3>7. QED BY <3>5, <3>6
  <2>3. QED BY <2>1, <2>2
<1>2. ASSUME NEW v \in Worker, Trusted(worker[v])' PROVE Scans(worker'[v], exec')
  <2>1. CASE v = w
    BY <2>1, RestartScans
  <2>2. CASE v # w
    BY <1>2, <2>2, OutOfDate, RestartScans DEF OneWorker
  <2>3. QED BY <2>1, <2>2
<1>3. t # NoTx
  BY TxAssumption
<1>4. Exclusive'
  BY <1>1, <1>2, <1>3 DEF Exclusive
<1>5. QED BY <1>4 DEF KeepsWinner

LEMMA PromoteKeeps ==
    ASSUME IInv, Exclusive, NEW w \in Worker, NEW t \in TxHash,
           NEW o \in PromotingObservations, PromoteCandidate(w, t, o)
    PROVE  KeepsWinner
<1>1. PICK b : b = worker[w].att[t]
  OBVIOUS
<1>2. PICK next : next = Promoted(t, b.sub, b.conflict, o)
  OBVIOUS
<1>3. b \in Attempt /\ worker[w].pc = "pass" /\ t \in worker[w].todo
  BY <1>1 DEF IInv, TypeOK, WorkerState, PromoteCandidate
<1>4. next.tx = t
  BY <1>2, <1>3, PromotedFacts DEF Attempt
<1>5. Current(w) => exec.wf # "CONFIRMED"
  BY <1>3 DEF Exclusive, Scans, Trusted, Current
<1>6. CASE LoseRace(w)
  BY <1>6, LoseRaceKeeps
<1>7. CASE ~LoseRace(w)
  <2>1. PICK a : a = [AttemptOf(next) EXCEPT !.conflict = att[t].conflict]
    OBVIOUS
  <2>2. PICK s : s = [Idle EXCEPT !.pc = "refresh", !.scan = FALSE, !.tries = worker[w].tries]
    OBVIOUS
  <2>3. /\ exec' = next /\ att' = SettleAttempts(att, t, a)
        /\ worker' = [worker EXCEPT ![w] = s] /\ Current(w) /\ AdvanceVersion
    BY <1>1, <1>2, <1>7, <2>1, <2>2 DEF PromoteCandidate
  <2>4. a.wf = exec'.wf /\ a.disp = DispositionFor(exec') /\ exec'.tx = t
    BY <1>4, <2>1, <2>3 DEF AttemptOf
  <2>5. s.pc = "refresh"
    BY <2>2, IdleType DEF WorkerState
  <2>6. worker'[w].pc \in {"idle", "refresh"} /\ a \in Attempt
    <3>1. worker'[w] = s
      BY <2>3 DEF IInv, TypeOK
    <3>2. AttemptOf(next) \in Attempt
      BY <1>2, <1>3, PromotedFacts, AttemptOfType DEF SoundRow, Attempt
    <3>3. att[t].conflict \in Conflicts
      BY DEF IInv, TypeOK, Attempt
    <3>4. a \in Attempt
      BY <2>1, <3>2, <3>3 DEF Attempt
    <3>5. QED BY <2>5, <3>1, <3>4
  <2>7. exec.wf = "CONFIRMED" => t = exec.tx
    BY <1>5, <2>3
  <2>8. \A v \in Worker \ {w} : worker'[v] = worker[v]
    BY <2>3 DEF IInv, TypeOK
  <2>9. QED BY <2>3, <2>4, <2>6, <2>7, <2>8, WriteKeeps
<1>8. QED BY <1>6, <1>7

\* A pass writes the row it has read, under its own hash.
LEMMA ApplyKeeps ==
    ASSUME IInv, Exclusive, NEW w \in Worker, NEW next, Apply(w, next),
           SoundRow(next), next.tx = worker[w].row.tx
    PROVE  KeepsWinner
<1>1. CASE LoseRace(w)
  BY <1>1, LoseRaceKeeps
<1>2. CASE ~LoseRace(w)
  <2>1. /\ Current(w) /\ exec' = next /\ worker[w].pc = "pass"
        /\ att' = SettleAttempts(att, worker[w].row.tx, AttemptOf(next))
        /\ worker' = [worker EXCEPT ![w] = Idle] /\ AdvanceVersion
    BY <1>2 DEF Apply
  <2>2. worker[w].row = exec /\ exec.tx \in TxHash
    BY <2>1 DEF Current, IInv, InLine, TypeOK, Row
  <2>3. PICK t \in TxHash : t = exec.tx
    BY <2>2
  <2>4. PICK a \in Attempt : a = AttemptOf(next)
    BY AttemptOfType DEF SoundRow
  <2>5. /\ a.wf = exec'.wf /\ a.disp = DispositionFor(exec') /\ exec'.tx = t
        /\ att' = SettleAttempts(att, t, a)
    BY <2>1, <2>2, <2>3, <2>4 DEF AttemptOf
  <2>6. worker'[w].pc \in {"idle", "refresh"}
    BY <2>1, IdleType DEF IInv, TypeOK
  <2>7. exec.wf = "CONFIRMED" => t = exec.tx
    BY <2>3
  <2>8. \A v \in Worker \ {w} : worker'[v] = worker[v]
    BY <2>1 DEF IInv, TypeOK
  <2>9. QED BY <2>1, <2>5, <2>6, <2>7, <2>8, WriteKeeps
<1>3. QED BY <1>1, <1>2

LEMMA ReconcileKeeps ==
    ASSUME IInv, Exclusive, NEW w \in Worker, NEW o \in Observations,
           NEW monitored \in {FALSE, Monitoring}, ReconcilePass(w, o, monitored)
    PROVE  KeepsWinner
<1>1. PICK competing : competing = (Competing(worker[w].att, worker[w].row.tx) # {})
  OBVIOUS
<1>2. PICK next : next = Reconciled(worker[w].row, o, competing, monitored)
  OBVIOUS
<1>3. Apply(w, next)
  BY <1>1, <1>2 DEF ReconcilePass
<1>4. competing \in BOOLEAN /\ monitored \in BOOLEAN /\ SoundRow(worker[w].row)
  BY <1>1, SettingAssumption DEF IInv, InLine
<1>5. SoundRow(next) /\ next.tx = worker[w].row.tx
  BY <1>2, <1>4, ReconciledFacts
<1>6. QED BY <1>3, <1>5, ApplyKeeps

LEMMA RpcFailureKeeps ==
    ASSUME IInv, Exclusive, NEW w \in Worker, RpcFailurePass(w)
    PROVE  KeepsWinner
<1>1. PICK next : next = RpcFailed(worker[w].row)
  OBVIOUS
<1>2. Apply(w, next) /\ SoundRow(worker[w].row)
  BY <1>1 DEF RpcFailurePass, IInv, InLine
<1>3. SoundRow(next) /\ next.tx = worker[w].row.tx
  BY <1>1, <1>2, RpcFailedFacts
<1>4. QED BY <1>2, <1>3, ApplyKeeps

\* Clients change a confirmed row's submission status at most.
LEMMA ClientKeeps ==
    ASSUME IInv, Exclusive, AdvanceVersion, worker' = worker, NEW t \in TxHash, exec'.tx = t,
           exec.wf = "CONFIRMED" => t = exec.tx,
           exec'.wf = "CONFIRMED" <=> exec.wf = "CONFIRMED",
           \A u \in TxHash :
              /\ att'[u].disp = "CONFIRMED" => att[u].disp = "CONFIRMED"
              /\ att'[u].wf = "CONFIRMED" => att[u].wf = "CONFIRMED"
              /\ att'[u].disp = "ACTIVE" => att[u].disp = "ACTIVE" \/ u = t,
           \A u \in TxHash :
              att'[u].disp = "CONFIRMED" /\ att[u].wf = "CONFIRMED" => att'[u].wf = "CONFIRMED"
    PROVE  KeepsWinner
<1>1. ASSUME NEW u \in TxHash PROVE Closed(att'[u], u, exec')
  <2>1. Closed(att[u], u, exec)
    BY DEF Exclusive
  <2>2. QED BY <2>1 DEF Closed
<1>2. ASSUME NEW v \in Worker, Trusted(worker[v])' PROVE Scans(worker'[v], exec')
  <2>1. CASE OneWorker
    <3>1. Scans(worker[v], exec)
      BY <2>1 DEF Exclusive, Trusted
    <3>2. QED BY <3>1 DEF Scans
  <2>2. CASE ~OneWorker
    BY <1>2, <2>2, OutOfDate, RestartScans
  <2>3. QED BY <2>1, <2>2
<1>3. t # NoTx
  BY TxAssumption
<1>4. Exclusive'
  BY <1>1, <1>2, <1>3 DEF Exclusive
<1>5. QED BY <1>4 DEF KeepsWinner

LEMMA AttachKeeps ==
    ASSUME IInv, Exclusive, NEW t \in TxHash, NEW status \in {"PREPARED", "SUBMITTED"},
           NEW kind \in AttemptKind, AttachTransaction(t, status, kind)
    PROVE  KeepsWinner
<1>1. /\ SoundRow(exec) /\ AttachAllowed(exec, t, status, kind)
      /\ exec' = Attached(exec, t, status) /\ worker' = worker /\ AdvanceVersion
      /\ att \in [TxHash -> Attempt]
  BY DEF IInv, TypeOK, AttachTransaction
<1>2. /\ exec'.tx = t
      /\ exec.tx = t => exec'.wf = exec.wf
      /\ exec.tx # t => exec'.wf = "IDLE"
  BY <1>1, AttachedFacts
<1>3. exec.wf = "CONFIRMED" => t = exec.tx
  BY <1>1 DEF AttachAllowed, Replaces, Finalized, Exclusive
<1>4. CASE att[t].disp # "ABSENT"
  <2>1. ASSUME NEW u \in TxHash PROVE att'[u].disp = att[u].disp /\ att'[u].wf = att[u].wf
    <3>1. att' = [att EXCEPT ![t].sub = status]
      BY <1>4 DEF AttachTransaction
    <3>2. QED BY <1>1, <3>1 DEF Attempt
  <2>2. QED BY <1>1, <1>2, <1>3, <2>1, ClientKeeps
<1>5. CASE ~(att[t].disp # "ABSENT")
  <2>1. att' = [u \in TxHash |->
                  IF u = t THEN [NoAttempt EXCEPT !.disp = "ACTIVE", !.sub = status]
                  ELSE IF u = exec.tx /\ kind # "RBF_REPLACEMENT"
                  THEN [att[u] EXCEPT !.disp = PriorDisposition(exec)] ELSE att[u]]
    BY <1>5 DEF AttachTransaction
  <2>2. att'[t].disp = "ACTIVE" /\ att'[t].wf = "IDLE"
    BY <2>1 DEF NoAttempt
  <2>3. ASSUME NEW u \in TxHash, u # t
        PROVE  /\ att'[u].wf = att[u].wf
               /\ \/ att'[u].disp = att[u].disp
                  \/ u = exec.tx /\ att'[u].disp = PriorDisposition(exec)
    <3>1. att'[u] \in {att[u], [att[u] EXCEPT !.disp = PriorDisposition(exec)]}
          /\ (att'[u] = att[u] \/ u = exec.tx)
      BY <2>1, <2>3
    <3>2. att[u] \in Attempt
      BY <1>1
    <3>3. QED BY <3>1, <3>2 DEF Attempt
  <2>4. exec.tx # t => PriorDisposition(exec) \notin {"CONFIRMED", "ACTIVE"}
    BY <1>3 DEF PriorDisposition, DispositionFor
  <2>5. QED BY <1>1, <1>2, <1>3, <2>2, <2>3, <2>4, ClientKeeps
<1>6. QED BY <1>4, <1>5

LEMMA MarkKeeps ==
    ASSUME IInv, Exclusive, NEW status \in SubmissionStatus, NEW suspected \in BOOLEAN,
           MarkSubmission(status, suspected)
    PROVE  KeepsWinner
<1>1. /\ SoundRow(exec) /\ exec \in Row /\ MarkAllowed(exec, status, suspected)
      /\ exec' = Marked(exec, status, suspected) /\ worker' = worker /\ AdvanceVersion
      /\ att \in [TxHash -> Attempt]
  BY DEF IInv, TypeOK, MarkSubmission
<1>2. exec'.tx = exec.tx /\ exec'.wf = exec.wf /\ exec.tx \in TxHash
  BY <1>1, MarkedFacts DEF MarkAllowed, Row
<1>3. PICK disp : disp = IF status = "NODE_REJECTED" THEN "REJECTED" ELSE "ACTIVE"
  OBVIOUS
<1>4. ASSUME NEW u \in TxHash
      PROVE  /\ att'[u].wf = att[u].wf
             /\ att'[u].disp = IF u = exec.tx THEN disp ELSE att[u].disp
  <2>1. att' = [att EXCEPT ![exec.tx] = [@ EXCEPT !.sub = status, !.conflict = exec'.conflict,
                                                  !.disp = disp]]
    BY <1>2, <1>3 DEF MarkSubmission
  <2>2. QED BY <1>1, <1>2, <2>1 DEF Attempt
<1>5. disp # "CONFIRMED"
  BY <1>3
<1>6. QED BY <1>1, <1>2, <1>4, <1>5, ClientKeeps

LEMMA StepKeeps ==
    ASSUME IInv, Exclusive, [Next]_vars, OneWorker \/ ~StaleCandidateWrite
    PROVE  KeepsWinner
<1>1. CASE ClientStep
  <2>1. {"BROADCASTING", "SUBMITTED", "SUBMISSION_UNKNOWN", "NODE_REJECTED"}
          \subseteq SubmissionStatus
    BY DEF SubmissionStatus
  <2>2. QED BY <1>1, <2>1, AttachKeeps, MarkKeeps DEF ClientStep
<1>2. ASSUME NEW w \in Worker, WorkerStep(w) PROVE KeepsWinner
  <2>1. ASSUME NEW t \in TxHash, NEW status \in ObservedStatus \ {"COMMITTED"},
               UpdateCandidate(w, t, status)
        PROVE  KeepsWinner
    BY <2>1, UpdateCandidateKeeps DEF StaleCandidateWrite
  <2>2. QED BY <1>2, <2>1, ReadIntentKeeps, ReadAttemptsKeeps, LoseRaceKeeps, AbandonKeeps,
               SkipCandidateKeeps, ConflictCandidateKeeps, PromoteKeeps, ReconcileKeeps,
               RpcFailureKeeps DEF WorkerStep
<1>3. CASE UNCHANGED vars
  <2>1. exec' = exec /\ att' = att /\ worker' = worker /\ version' = version
    BY <1>3 DEF vars
  <2>2. QED BY <2>1 DEF KeepsWinner, Exclusive, Trusted
<1>4. QED BY <1>1, <1>2, <1>3 DEF Next

\* The same invariant says what the two theorems of each setting state.
LEMMA ExclusiveMeans == IInv /\ Exclusive => WinnerIsExclusive
BY DEF Exclusive, Closed, WinnerIsExclusive

LEMMA KeepsSettlement ==
    ASSUME IInv, Exclusive, KeepsWinner
    PROVE  exec.ready /\ ~exec'.ready => exec'.tx = exec.tx
<1>1. exec.ready => exec.wf = "CONFIRMED"
  BY DEF IInv, SoundRow, SettledRow
<1>2. QED BY <1>1 DEF KeepsWinner

\* With one worker, chain evidence chooses one winner: its own scan is the only
\* unguarded write, and it has no candidate left once the row is confirmed.
THEOREM OneWinner == ASSUME OneWorker PROVE Spec => []WinnerIsExclusive
<1>1. IInv /\ Exclusive /\ [Next]_vars => Exclusive'
  BY StepKeeps DEF KeepsWinner
<1>2. QED BY <1>1, ExclusiveMeans, InitExclusive, Invariance, PTL DEF Spec

\* With one worker, no other hash displaces a settled one.
THEOREM SettlementStays == ASSUME OneWorker PROVE Spec => SettlementKept
<1>1. IInv /\ Exclusive /\ [Next]_vars => Exclusive'
  BY StepKeeps DEF KeepsWinner
<1>2. IInv /\ Exclusive /\ [Next]_vars => [exec.ready /\ ~exec'.ready => exec'.tx = exec.tx]_vars
  BY StepKeeps, KeepsSettlement
<1>3. QED BY <1>1, <1>2, InitExclusive, Invariance, PTL DEF Spec, SettlementKept

\* The write of a candidate that was read before the row moved on is the only
\* way to two winners, and to a settled hash displaced by another: without it,
\* both theorems hold of any number of workers racing each other and the API.
THEOREM OnlyStaleWritesReopen == GuardedSpec => []WinnerIsExclusive /\ SettlementKept
<1>1. [Next /\ ~StaleCandidateWrite]_vars => [Next]_vars
  OBVIOUS
<1>2. IInv /\ Exclusive /\ [Next /\ ~StaleCandidateWrite]_vars => KeepsWinner
  <2> SUFFICES ASSUME IInv, Exclusive, [Next /\ ~StaleCandidateWrite]_vars PROVE KeepsWinner
    OBVIOUS
  <2>1. CASE ~StaleCandidateWrite
    BY <2>1, StepKeeps
  <2>2. CASE UNCHANGED vars
    <3>1. exec' = exec /\ att' = att /\ worker' = worker /\ version' = version
      BY <2>2 DEF vars
    <3>2. QED BY <3>1 DEF KeepsWinner, Exclusive, Trusted
  <2>3. QED BY <2>1, <2>2
<1>3. IInv /\ Exclusive /\ [Next /\ ~StaleCandidateWrite]_vars => Exclusive'
  BY <1>2 DEF KeepsWinner
<1>4. IInv /\ Exclusive /\ [Next /\ ~StaleCandidateWrite]_vars
        => [exec.ready /\ ~exec'.ready => exec'.tx = exec.tx]_vars
  BY <1>2, KeepsSettlement
<1>5. GuardedSpec => []IInv
  BY <1>1, Invariance, PTL DEF GuardedSpec, Spec
<1>6. GuardedSpec => []Exclusive
  BY <1>3, <1>5, InitExclusive, PTL DEF GuardedSpec
<1>7. QED BY <1>4, <1>5, <1>6, ExclusiveMeans, PTL DEF GuardedSpec, SettlementKept
=============================================================================
