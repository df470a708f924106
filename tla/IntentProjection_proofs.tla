----------------------- MODULE IntentProjection_proofs -----------------------
(***************************************************************************)
(* The safety of the projection, for every set of transactions, blocks and *)
(* tips, every confirmation policy and both settings of the switches.      *)
(*                                                                         *)
(* The inductive invariant is the conjunction of TypeOK and the invariants *)
(* the model is checked for.  None is inductive alone: that a verdict is   *)
(* about the recorded block, say, needs that a confirmed row records one.  *)
(* The lemmas of ExecutionRow_proofs say what each operation makes of a    *)
(* sound row; here the winner and the published event are added.           *)
(*                                                                         *)
(* The last section adds the history of SpendHistory: a row only becomes   *)
(* conflicted over a spent input when that history vouches for it.         *)
(***************************************************************************)
EXTENDS SpendHistory, ExecutionRow_proofs

IInv ==
    /\ TypeOK
    /\ SoundRow(exec)
    /\ ConfirmedIsWinning
    /\ ReadyAnnounced

\* The row of the inductive invariant has every property the runs check.
LEMMA SoundRowMeaning ==
    ASSUME SoundRow(exec)
    PROVE  CommitEvidence /\ SettledIsEvidenced /\ AssertionsMatchBlock /\ PollingKept
BY DEF SoundRow, Evidenced, VerdictMatches, SettledRow, PolledRow,
       CommitEvidence, SettledIsEvidenced, AssertionsMatchBlock, PollingKept

\* The initial row, and the conflicts a submission may leave, are storable.
LEMMA InitialStorable ==
    ASSUME NEW t \in TxHash \cup {NoTx} PROVE InitialRow(t) \in Row
<1>1. InitialRow(t) \in AnyRow
  BY InitialRowFacts DEF SoundRow
<1>2. Storable(InitialRow(t))
  BY DEF Storable, InitialRow, NoConflict, Conflict, StorableConflict
<1>3. QED BY <1>1, <1>2, StorableRow

LEMMA InitIInv == Init => IInv
<1> SUFFICES ASSUME Init PROVE IInv
  OBVIOUS
<1>1. exec \in Row /\ SoundRow(exec)
  BY InitialRowFacts, InitialStorable DEF Init
<1>2. ~exec.ready /\ exec.wf = "IDLE"
  BY DEF Init, InitialRow
<1>3. QED BY <1>1, <1>2 DEF Init, IInv, TypeOK, ConfirmedIsWinning, ReadyAnnounced

\* Writing a sound row announces its settlement and revokes only what was
\* announced before.
LEMMA WriteFacts ==
    ASSUME IInv, NEW row, SoundRow(row), Write(row)
    PROVE  /\ exec' = row
           /\ exec' \in Row
           /\ announced' \in {"NONE", "READY", "REVOKED"}
           /\ ReadyAnnounced'
           /\ announced' = "REVOKED" => announced \in {"READY", "REVOKED"}
<1>1. row \in Row
  BY StorableRow DEF Write, SoundRow
<1>2. row.ready \in BOOLEAN /\ exec.ready \in BOOLEAN
  BY <1>1 DEF IInv, TypeOK, Row
<1>3. exec.ready => announced = "READY"
  BY DEF IInv, ReadyAnnounced
<1>4. CASE WasReady(exec) = row.ready
  <2>1. SettlementEvent(exec, row) = {}
    BY <1>4 DEF SettlementEvent
  <2>2. announced' = announced
    BY <2>1 DEF Write
  <2>3. row.ready => exec.ready
    BY <1>4 DEF WasReady
  <2>4. QED BY <1>1, <1>3, <2>2, <2>3 DEF Write, ReadyAnnounced, IInv, TypeOK
<1>5. CASE WasReady(exec) # row.ready
  <2>1. SettlementEvent(exec, row) = {IF row.ready THEN "READY" ELSE "REVOKED"}
    BY <1>5 DEF SettlementEvent
  <2>2. announced' = IF row.ready THEN "READY" ELSE "REVOKED"
    BY <2>1 DEF Write
  <2>3. ~row.ready => exec.ready
    BY <1>2, <1>5 DEF WasReady
  <2>4. QED BY <1>1, <1>3, <2>2, <2>3 DEF Write, ReadyAnnounced
<1>6. QED BY <1>4, <1>5

-----------------------------------------------------------------------------
(* What each action does to a row that satisfies the invariant *)

\* What a step may do: keep the invariant, revoke only what was announced,
\* give up a commit only on proof, and leave a conflicted row alone.
GoodStep ==
    /\ IInv'
    /\ announced' = "REVOKED" => announced \in {"READY", "REVOKED"}
    /\ exec.chain = "COMMITTED" /\ exec'.tx = exec.tx /\ exec'.chain # "COMMITTED"
          => exec'.seen.displaced
    /\ exec.wf = "CONFLICTED" /\ exec'.tx = exec.tx => exec' = exec

LEMMA AttachStep ==
    ASSUME IInv, NEW t \in TxHash, NEW status \in {"PREPARED", "SUBMITTED"},
           NEW kind \in AttemptKind, AttachTransaction(t, status, kind)
    PROVE  GoodStep
<1>1. SoundRow(exec)
  BY DEF IInv
<1>2. PICK next : next = Attached(exec, t, status)
  OBVIOUS
<1>3. AttachAllowed(exec, t, status, kind) /\ exec' = next
  BY <1>2 DEF AttachTransaction
<1>4. /\ SoundRow(next)
      /\ next.tx = t
      /\ exec.tx = t => /\ next.chain = exec.chain /\ next.wf = exec.wf
                        /\ next.ready = exec.ready
                        /\ next.conflict = exec.conflict
                        /\ exec.wf # "CONFLICTED"
      /\ exec.tx # t => /\ ~next.ready /\ next.wf = "IDLE"
                        /\ next.conflict = NoConflict
  BY <1>1, <1>2, <1>3, AttachedFacts
<1>5. next \in Row
  <2>1. Storable(next)
    BY <1>4 DEF IInv, TypeOK, Row, Storable, NoConflict, Conflict, StorableConflict
  <2>2. QED BY <1>4, <2>1, StorableRow DEF SoundRow
<1>6. /\ winning' = IF exec.tx = t THEN winning ELSE NoTx
      /\ announced' = announced
  BY DEF AttachTransaction
<1>7. TypeOK'
  BY <1>3, <1>5, <1>6 DEF IInv, TypeOK
<1>8. ConfirmedIsWinning' /\ ReadyAnnounced'
  BY <1>3, <1>4, <1>6 DEF IInv, ConfirmedIsWinning, ReadyAnnounced
<1>9. QED BY <1>3, <1>4, <1>6, <1>7, <1>8 DEF GoodStep, IInv, TypeOK

LEMMA MarkStep ==
    ASSUME IInv, NEW status \in SubmissionStatus, NEW suspected \in BOOLEAN,
           MarkSubmission(status, suspected)
    PROVE  GoodStep
<1>1. SoundRow(exec)
  BY DEF IInv
<1>2. PICK next : next = Marked(exec, status, suspected)
  OBVIOUS
<1>3. MarkAllowed(exec, status, suspected) /\ exec' = next
  BY <1>2 DEF MarkSubmission
<1>4. /\ SoundRow(next)
      /\ next.tx = exec.tx /\ next.chain = exec.chain /\ next.wf = exec.wf
      /\ next.ready = exec.ready
      /\ next.conflict = Conflict(IF suspected THEN "INPUT_CONFLICT_SUSPECTED"
                                  ELSE exec.conflict.type, NoSpend)
      /\ exec.wf # "CONFLICTED"
  BY <1>1, <1>2, <1>3, MarkedFacts
<1>5. next \in Row
  <2>1. exec.conflict.type \in StorableConflict
    BY DEF IInv, TypeOK, Row
  <2>2. Storable(next)
    BY <1>4, <2>1 DEF Storable, Conflict, StorableConflict
  <2>3. QED BY <1>4, <2>2, StorableRow DEF SoundRow
<1>6. winning' = winning /\ announced' = announced
  BY DEF MarkSubmission
<1>7. TypeOK'
  BY <1>3, <1>5, <1>6 DEF IInv, TypeOK
<1>8. ConfirmedIsWinning' /\ ReadyAnnounced'
  BY <1>3, <1>4, <1>6 DEF IInv, ConfirmedIsWinning, ReadyAnnounced
<1>9. QED BY <1>3, <1>4, <1>6, <1>7, <1>8 DEF GoodStep, IInv, TypeOK

LEMMA ReconcileStep ==
    ASSUME IInv, NEW o \in Observations, NEW competing \in BOOLEAN,
           NEW monitored \in {FALSE, Monitoring},
           ReconcilePass(o, competing, monitored)
    PROVE  GoodStep
<1>1. SoundRow(exec) /\ monitored \in BOOLEAN
  BY SettingAssumption DEF IInv
<1>2. PICK next : next = Reconciled(exec, o, competing, monitored)
  OBVIOUS
<1>3. /\ SoundRow(next)
      /\ next.tx = exec.tx
      /\ exec.chain = "COMMITTED" /\ next.chain # "COMMITTED" => next.seen.displaced
  BY <1>1, <1>2, ReconciledFacts
<1>4. Write(next)
  BY <1>2 DEF ReconcilePass
<1>5. /\ exec' = next /\ exec' \in Row
      /\ announced' \in {"NONE", "READY", "REVOKED"}
      /\ ReadyAnnounced'
      /\ announced' = "REVOKED" => announced \in {"READY", "REVOKED"}
  BY <1>3, <1>4, WriteFacts
<1>6. winning' = IF exec'.wf = "CONFIRMED" THEN exec.tx ELSE winning
  BY DEF ReconcilePass
<1>7. TypeOK' /\ ConfirmedIsWinning'
  BY <1>3, <1>5, <1>6 DEF IInv, TypeOK, Row, ConfirmedIsWinning
<1>8. exec.wf # "CONFLICTED"
  BY DEF ReconcilePass, ObservationRefused
<1>9. QED BY <1>3, <1>5, <1>7, <1>8 DEF GoodStep, IInv

LEMMA RpcFailureStep ==
    ASSUME IInv, RpcFailurePass
    PROVE  GoodStep
<1>1. SoundRow(exec)
  BY DEF IInv
<1>2. PICK next : next = RpcFailed(exec)
  OBVIOUS
<1>3. /\ SoundRow(next)
      /\ next.tx = exec.tx
      /\ exec.chain = "COMMITTED" => next.chain = "COMMITTED"
  BY <1>1, <1>2, RpcFailedFacts
<1>4. Write(next)
  BY <1>2 DEF RpcFailurePass
<1>5. /\ exec' = next /\ exec' \in Row
      /\ announced' \in {"NONE", "READY", "REVOKED"}
      /\ ReadyAnnounced'
      /\ announced' = "REVOKED" => announced \in {"READY", "REVOKED"}
  BY <1>3, <1>4, WriteFacts
<1>6. winning' = IF exec'.wf = "CONFIRMED" THEN exec.tx ELSE winning
  BY DEF RpcFailurePass
<1>7. TypeOK' /\ ConfirmedIsWinning'
  BY <1>3, <1>5, <1>6 DEF IInv, TypeOK, Row, ConfirmedIsWinning
<1>8. exec.wf # "CONFLICTED"
  BY DEF RpcFailurePass, ObservationRefused
<1>9. QED BY <1>3, <1>5, <1>7, <1>8 DEF GoodStep, IInv

LEMMA PromoteStep ==
    ASSUME IInv, NEW t \in TxHash, NEW sub \in SubmissionStatus, NEW conflict \in Conflicts,
           NEW o \in PromotingObservations, PromoteCandidate(t, sub, conflict, o)
    PROVE  GoodStep
<1>1. PICK next : next = Promoted(t, sub, conflict, o)
  OBVIOUS
<1>2. SoundRow(next) /\ next.tx = t
  BY <1>1, PromotedFacts
<1>3. Write(next) /\ exec.tx # t
  BY <1>1 DEF PromoteCandidate
<1>4. /\ exec' = next /\ exec' \in Row
      /\ announced' \in {"NONE", "READY", "REVOKED"}
      /\ ReadyAnnounced'
      /\ announced' = "REVOKED" => announced \in {"READY", "REVOKED"}
  BY <1>2, <1>3, WriteFacts
<1>5. winning' = IF exec'.wf = "CONFIRMED" THEN t ELSE winning
  BY DEF PromoteCandidate
<1>6. TypeOK' /\ ConfirmedIsWinning'
  BY <1>2, <1>4, <1>5 DEF IInv, TypeOK, ConfirmedIsWinning
<1>7. QED BY <1>2, <1>3, <1>4, <1>6 DEF GoodStep, IInv

LEMMA StutterStep == ASSUME IInv, UNCHANGED vars PROVE GoodStep
BY DEF vars, GoodStep, IInv, TypeOK, SoundRow, Evidenced, VerdictMatches, SettledRow,
       PolledRow, Terminal, ConfirmedIsWinning, ReadyAnnounced

LEMMA StepIsGood == ASSUME IInv, [Next]_vars PROVE GoodStep
<1>1. CASE \E t \in TxHash, status \in {"PREPARED", "SUBMITTED"}, kind \in AttemptKind :
              AttachTransaction(t, status, kind)
  BY <1>1, AttachStep
<1>2. CASE \E status \in {"BROADCASTING", "SUBMITTED", "SUBMISSION_UNKNOWN", "NODE_REJECTED"},
              suspected \in BOOLEAN : MarkSubmission(status, suspected)
  <2>1. PICK status \in {"BROADCASTING", "SUBMITTED", "SUBMISSION_UNKNOWN", "NODE_REJECTED"},
             suspected \in BOOLEAN : MarkSubmission(status, suspected)
    BY <1>2
  <2>2. status \in SubmissionStatus
    BY DEF SubmissionStatus
  <2>3. QED BY <2>1, <2>2, MarkStep
<1>3. CASE \E o \in Observations, competing \in BOOLEAN, monitored \in {FALSE, Monitoring} :
              ReconcilePass(o, competing, monitored)
  BY <1>3, ReconcileStep
<1>4. CASE RpcFailurePass
  BY <1>4, RpcFailureStep
<1>5. CASE \E t \in TxHash, sub \in SubmissionStatus, conflict \in Conflicts,
              o \in PromotingObservations : PromoteCandidate(t, sub, conflict, o)
  BY <1>5, PromoteStep
<1>6. CASE UNCHANGED vars
  BY <1>6, StutterStep
<1>7. QED BY <1>1, <1>2, <1>3, <1>4, <1>5, <1>6 DEF Next

-----------------------------------------------------------------------------
(* The theorems *)

\* The inductive invariant holds in every reachable state.
THEOREM Invariance == Spec => []IInv
<1>1. IInv /\ [Next]_vars => IInv'
  BY StepIsGood DEF GoodStep
<1>2. QED BY <1>1, InitIInv, PTL DEF Spec

\* The row always has the types its columns and their CHECKs admit.
THEOREM TypeCorrect == Spec => []TypeOK
<1>1. IInv => TypeOK
  BY DEF IInv
<1>2. QED BY <1>1, Invariance, PTL

\* A claimed confirmation always rests on a commit the row still holds.
THEOREM CommitsAreEvidenced == Spec => []CommitEvidence
<1>1. IInv => CommitEvidence
  BY SoundRowMeaning DEF IInv
<1>2. QED BY <1>1, Invariance, PTL

\* A settled row is confirmed and its expected Cells are verified.
THEOREM SettlementIsEvidenced == Spec => []SettledIsEvidenced
<1>1. IInv => SettledIsEvidenced
  BY SoundRowMeaning DEF IInv
<1>2. QED BY <1>1, Invariance, PTL

\* No verdict survives the block it was given for.
THEOREM VerdictsMatch == Spec => []AssertionsMatchBlock
<1>1. IInv => AssertionsMatchBlock
  BY SoundRowMeaning DEF IInv
<1>2. QED BY <1>1, Invariance, PTL

\* An unresolved submitted transaction always has a next reconciliation.
THEOREM PollingIsKept == Spec => []PollingKept
<1>1. IInv => PollingKept
  BY SoundRowMeaning DEF IInv
<1>2. QED BY <1>1, Invariance, PTL

\* The winner recorded with a confirmed row is that row's transaction.
THEOREM WinnerIsConfirmed == Spec => []ConfirmedIsWinning
<1>1. IInv => ConfirmedIsWinning
  BY DEF IInv
<1>2. QED BY <1>1, Invariance, PTL

\* A settlement timestamp is never set without its event being published.
THEOREM SettlementIsAnnounced == Spec => []ReadyAnnounced
<1>1. IInv => ReadyAnnounced
  BY DEF IInv
<1>2. QED BY <1>1, Invariance, PTL

\* Consumers never see a revocation of something that was not announced.
THEOREM RevocationsFollowReady == Spec => RevokesOnlyReady
<1>1. IInv /\ [Next]_vars =>
        [announced' = "REVOKED" => announced \in {"READY", "REVOKED"}]_vars
  BY StepIsGood DEF GoodStep
<1>2. QED BY <1>1, Invariance, PTL DEF Spec, RevokesOnlyReady

\* A lagging or failing endpoint never undoes a recorded commit.
THEOREM CommitsNeedDisproof == Spec => CommitLeavesOnlyByProof
<1>1. IInv /\ [Next]_vars =>
        [exec.chain = "COMMITTED" /\ exec'.tx = exec.tx /\ exec'.chain # "COMMITTED"
            => exec'.seen.displaced]_vars
  BY StepIsGood DEF GoodStep
<1>2. QED BY <1>1, Invariance, PTL DEF Spec, CommitLeavesOnlyByProof

\* Nothing but a new transaction changes a conflicted row.
THEOREM ConflictsAreFinal == Spec => ConflictedIsFinal
<1>1. IInv /\ [Next]_vars =>
        [exec.wf = "CONFLICTED" /\ exec'.tx = exec.tx => exec' = exec]_vars
  BY StepIsGood DEF GoodStep
<1>2. QED BY <1>1, Invariance, PTL DEF Spec, ConflictedIsFinal

-----------------------------------------------------------------------------
(* What does not hold, and exactly where it fails *)

\* A pass is refused by the table for a foreign payload and for nothing else, so
\* the missing type of the CHECK is the whole disagreement of MismatchIsRecorded.
THEOREM RefusedExactlyOnMismatch ==
    Spec => [](\A o \in Observations, competing \in BOOLEAN, monitored \in BOOLEAN :
                  Storable(Reconciled(exec, o, competing, monitored)) <=> ~o.mismatch)
<1>1. IInv => \A o \in Observations, competing \in BOOLEAN, monitored \in BOOLEAN :
                 Storable(Reconciled(exec, o, competing, monitored)) <=> ~o.mismatch
  BY RefusedOnMismatch DEF IInv, TypeOK
<1>2. QED BY <1>1, Invariance, PTL

\* A row that is settled has a transaction and carries its settlement timestamp.
Dated == SettlementReady(exec) => exec.ready /\ exec.tx # NoTx

\* A step that unsettles the row unannounced.
Unannounced == SettlementLossAnnounced /\ ~SettlementLossAnnounced'

\* A report that the node refused the transaction over its inputs.
LateReport == MarkSubmission("NODE_REJECTED", TRUE)

DatedStep == Dated' /\ (Unannounced => LateReport)

\* A pass, an outage and a promotion write the timestamp and the event that go
\* with the settlement they compute.
LEMMA WriteIsDated ==
    ASSUME Dated, NEW row, row.ready = SettlementReady(row), row.tx # NoTx, Write(row)
    PROVE  DatedStep
<1>1. exec' = row
  BY DEF Write
<1>2. Dated'
  BY <1>1 DEF Dated, SettlementReady, IsSettlementReady
<1>3. ASSUME Unannounced PROVE FALSE
  <2>1. /\ announced = "READY" => SettlementReady(exec)
        /\ announced' = "READY" /\ ~SettlementReady(row)
    BY <1>1, <1>3 DEF Unannounced, SettlementLossAnnounced, SettlementReady, IsSettlementReady
  <2>2. CASE SettlementReady(exec)
    <3>1. WasReady(exec) /\ row.ready = FALSE
      BY <2>1, <2>2, ReadyIsBoolean DEF Dated, WasReady
    <3>2. SettlementEvent(exec, row) = {"REVOKED"}
      BY <3>1, ReadyIsBoolean DEF SettlementEvent, WasReady
    <3>3. announced' = "REVOKED"
      BY <3>2 DEF Write
    <3>4. QED BY <2>1, <3>3
  <2>3. CASE ~SettlementReady(exec)
    <3>1. WasReady(exec) = FALSE /\ row.ready = FALSE
      BY <2>1, <2>3, ReadyIsBoolean DEF WasReady
    <3>2. SettlementEvent(exec, row) = {}
      BY <3>1 DEF SettlementEvent
    <3>3. announced' = announced
      BY <3>2 DEF Write
    <3>4. QED BY <2>1, <2>3, <3>3
  <2>4. QED BY <2>2, <2>3
<1>4. QED BY <1>2, <1>3 DEF DatedStep

\* Clients leave what settlement is computed from alone, but for the conflict a
\* report brings; a settled row's transaction is not replaced.
LEMMA AttachIsDated ==
    ASSUME IInv, Dated, NEW t \in TxHash, NEW status \in {"PREPARED", "SUBMITTED"},
           NEW kind \in AttemptKind, AttachTransaction(t, status, kind)
    PROVE  DatedStep
<1>1. /\ AttachAllowed(exec, t, status, kind) /\ exec' = Attached(exec, t, status)
      /\ announced' = announced /\ exec \in AnyRow
  BY DEF AttachTransaction, IInv, SoundRow
<1>2. CASE exec.tx = t
  <2>1. exec' = [exec EXCEPT !.sub = status, !.due = (status = "SUBMITTED")]
    BY <1>1, <1>2 DEF Attached
  <2>2. /\ exec'.wf = exec.wf /\ exec'.chain = exec.chain /\ exec'.block = exec.block
        /\ exec'.count = exec.count /\ exec'.assertion = exec.assertion
        /\ exec'.conflict = exec.conflict /\ exec'.ready = exec.ready /\ exec'.tx = exec.tx
    BY <1>1, <2>1 DEF AnyRow
  <2>3. QED BY <1>1, <2>2 DEF DatedStep, Dated, Unannounced, SettlementLossAnnounced,
                              SettlementReady, IsSettlementReady
<1>3. CASE exec.tx # t
  <2>1. exec'.wf = "IDLE"
    BY <1>1, <1>3, AttachedFacts DEF IInv
  <2>2. ~SettlementReady(exec)
    <3>1. exec.tx # NoTx => exec.wf # "CONFIRMED"
      BY <1>1, <1>3 DEF AttachAllowed, Replaces, Finalized
    <3>2. QED BY <3>1 DEF Dated, SettlementReady, IsSettlementReady
  <2>3. ~SettlementReady(exec)'
    BY <2>1 DEF SettlementReady, IsSettlementReady
  <2>4. QED BY <1>1, <2>2, <2>3 DEF DatedStep, Dated, Unannounced, SettlementLossAnnounced
<1>4. QED BY <1>2, <1>3

LEMMA MarkIsDated ==
    ASSUME IInv, Dated, NEW status \in SubmissionStatus, NEW suspected \in BOOLEAN,
           MarkSubmission(status, suspected)
    PROVE  DatedStep
<1>1. /\ MarkAllowed(exec, status, suspected) /\ exec' = Marked(exec, status, suspected)
      /\ announced' = announced /\ exec \in AnyRow
  BY DEF MarkSubmission, IInv, SoundRow
<1>2. CASE suspected
  <2>1. exec'.conflict.type = "INPUT_CONFLICT_SUSPECTED"
    BY <1>1, <1>2 DEF Marked, AnyRow, Conflict
  <2>2. ~SettlementReady(exec)'
    BY <2>1 DEF SettlementReady, IsSettlementReady
  <2>3. LateReport
    BY <1>1, <1>2 DEF MarkAllowed, LateReport
  <2>4. QED BY <2>2, <2>3 DEF DatedStep, Dated
<1>3. CASE ~suspected
  <2>1. /\ exec'.wf = exec.wf /\ exec'.chain = exec.chain /\ exec'.block = exec.block
        /\ exec'.count = exec.count /\ exec'.assertion = exec.assertion
        /\ exec'.conflict.type = exec.conflict.type /\ exec'.ready = exec.ready
        /\ exec'.tx = exec.tx
    BY <1>1, <1>3 DEF Marked, AnyRow, Conflict
  <2>2. QED BY <1>1, <2>1 DEF DatedStep, Dated, Unannounced, SettlementLossAnnounced,
                              SettlementReady, IsSettlementReady
<1>4. QED BY <1>2, <1>3

LEMMA StepIsDated == ASSUME IInv, Dated, [Next]_vars PROVE DatedStep
<1>1. CASE \E t \in TxHash, status \in {"PREPARED", "SUBMITTED"}, kind \in AttemptKind :
              AttachTransaction(t, status, kind)
  BY <1>1, AttachIsDated
<1>2. CASE \E status \in {"BROADCASTING", "SUBMITTED", "SUBMISSION_UNKNOWN", "NODE_REJECTED"},
              suspected \in BOOLEAN : MarkSubmission(status, suspected)
  BY <1>2, MarkIsDated DEF SubmissionStatus
<1>3. ASSUME NEW o \in Observations, NEW competing \in BOOLEAN,
             NEW monitored \in {FALSE, Monitoring}, ReconcilePass(o, competing, monitored)
      PROVE  DatedStep
  <2>1. monitored \in BOOLEAN
    BY SettingAssumption
  <2>2. PICK next : next = Reconciled(exec, o, competing, monitored)
    OBVIOUS
  <2>3. next.ready = SettlementReady(next) /\ next.tx # NoTx /\ Write(next)
    BY <1>3, <2>1, <2>2, ReconciledFacts DEF IInv, ReconcilePass
  <2>4. QED BY <2>3, WriteIsDated
<1>4. CASE RpcFailurePass
  <2>1. PICK next : next = RpcFailed(exec)
    OBVIOUS
  <2>2. next.ready = SettlementReady(next) /\ next.tx # NoTx /\ Write(next)
    BY <1>4, <2>1, RpcFailedFacts DEF IInv, RpcFailurePass
  <2>3. QED BY <2>2, WriteIsDated
<1>5. ASSUME NEW t \in TxHash, NEW sub \in SubmissionStatus, NEW conflict \in Conflicts,
             NEW o \in PromotingObservations, PromoteCandidate(t, sub, conflict, o)
      PROVE  DatedStep
  <2>1. PICK next : next = Promoted(t, sub, conflict, o)
    OBVIOUS
  <2>2. next.ready = SettlementReady(next) /\ next.tx # NoTx /\ Write(next)
    BY <1>5, <2>1, PromotedFacts, TxAssumption DEF PromoteCandidate
  <2>3. QED BY <2>2, WriteIsDated
<1>6. CASE UNCHANGED vars
  BY <1>6 DEF vars, DatedStep, Dated, Unannounced, SettlementLossAnnounced, SettlementReady,
              IsSettlementReady
<1>7. QED BY <1>1, <1>2, <1>3, <1>4, <1>5, <1>6 DEF Next

\* markSubmissionStatus, which writes no event, is the only operation that takes a
\* settlement back unannounced, and only with a report of an input conflict.
THEOREM OnlyLateReportsUnsettle ==
    Spec => [][SettlementLossAnnounced /\ ~SettlementLossAnnounced'
                  => MarkSubmission("NODE_REJECTED", TRUE)]_vars
<1>1. Init => Dated
  BY DEF Init, InitialRow, Dated, SettlementReady, IsSettlementReady
<1>2. IInv /\ Dated /\ [Next]_vars => Dated'
  BY StepIsDated DEF DatedStep
<1>3. IInv /\ Dated /\ [Next]_vars =>
        [SettlementLossAnnounced /\ ~SettlementLossAnnounced'
            => MarkSubmission("NODE_REJECTED", TRUE)]_vars
  BY StepIsDated DEF DatedStep, Unannounced, LateReport
<1>4. QED BY <1>1, <1>2, <1>3, Invariance, PTL DEF Spec

\* A confirmation is taken back for one of four reasons only: its block was proven
\* gone, the transaction is in another block, the same block is not as deep as it
\* was, or the pass found the inputs spent or a Cell that is not as expected.
THEOREM ConfirmationsNeedCause ==
    Spec => [][exec.wf = "CONFIRMED" /\ exec'.tx = exec.tx /\ exec'.wf # "CONFIRMED"
                  => GivesUp(exec, exec')]_vars
<1>1. ASSUME IInv, [Next]_vars, exec.wf = "CONFIRMED", exec'.tx = exec.tx,
             exec'.wf # "CONFIRMED"
      PROVE  GivesUp(exec, exec')
  <2>1. ASSUME NEW t \in TxHash, NEW status \in {"PREPARED", "SUBMITTED"},
               NEW kind \in AttemptKind, AttachTransaction(t, status, kind)
        PROVE  FALSE
    <3>1. exec' = Attached(exec, t, status) /\ AttachAllowed(exec, t, status, kind)
      BY <2>1 DEF AttachTransaction
    <3>2. QED BY <1>1, <3>1, AttachedFacts DEF IInv
  <2>2. ASSUME NEW status \in SubmissionStatus, NEW suspected \in BOOLEAN,
               MarkSubmission(status, suspected)
        PROVE  FALSE
    <3>1. exec' = Marked(exec, status, suspected) /\ MarkAllowed(exec, status, suspected)
      BY <2>2 DEF MarkSubmission
    <3>2. QED BY <1>1, <3>1, MarkedFacts DEF IInv
  <2>3. ASSUME NEW o \in Observations, NEW competing \in BOOLEAN,
               NEW monitored \in {FALSE, Monitoring}, ReconcilePass(o, competing, monitored)
        PROVE  GivesUp(exec, exec')
    <3>1. monitored \in BOOLEAN
      BY SettingAssumption
    <3>2. exec' = Reconciled(exec, o, competing, monitored)
          /\ Storable(Reconciled(exec, o, competing, monitored))
      BY <2>3 DEF ReconcilePass, Write
    <3>3. ~o.mismatch /\ SoundRow(exec)
      BY <1>1, <3>1, <3>2, RefusedOnMismatch DEF IInv, TypeOK
    <3>4. PICK next : next = Reconciled(exec, o, competing, monitored)
      OBVIOUS
    <3>5. GivesUp(exec, next)
      BY <1>1, <3>1, <3>2, <3>3, <3>4, ConfirmationGivenUp
    <3>6. QED BY <3>2, <3>4, <3>5
  <2>4. ASSUME RpcFailurePass PROVE FALSE
    <3>1. exec' = RpcFailed(exec)
      BY <2>4 DEF RpcFailurePass, Write
    <3>2. QED BY <1>1, <3>1, RpcFailedFacts DEF IInv
  <2>5. ASSUME NEW t \in TxHash, NEW sub \in SubmissionStatus, NEW conflict \in Conflicts,
               NEW o \in PromotingObservations, PromoteCandidate(t, sub, conflict, o)
        PROVE  FALSE
    <3>1. exec' = Promoted(t, sub, conflict, o) /\ exec.tx # t
      BY <2>5 DEF PromoteCandidate, Write
    <3>2. QED BY <1>1, <3>1, PromotedFacts
  <2>6. CASE UNCHANGED vars
    BY <1>1, <2>6 DEF vars
  <2>7. {"BROADCASTING", "SUBMITTED", "SUBMISSION_UNKNOWN", "NODE_REJECTED"}
          \subseteq SubmissionStatus
    BY DEF SubmissionStatus
  <2>8. QED BY <1>1, <2>1, <2>2, <2>3, <2>4, <2>5, <2>6, <2>7 DEF Next
<1>2. IInv /\ [Next]_vars =>
        [exec.wf = "CONFIRMED" /\ exec'.tx = exec.tx /\ exec'.wf # "CONFIRMED"
            => GivesUp(exec, exec')]_vars
  BY <1>1
<1>3. QED BY <1>2, Invariance, PTL DEF Spec

-----------------------------------------------------------------------------
(* The history of a spend *)

\* Unbroken evidence in the row names two tips at which the inputs were found
\* spent since anything spoke against it; the code counts on earlier tips too.
EvidenceIsHistory ==
    Continues(exec.conflict.spend) =>
        {exec.conflict.spend.first, exec.conflict.spend.last} \subseteq spent \cup earlier

HistoryInv == EvidenceIsHistory /\ SpentIsInspected

\* The history only watches: a step of the one is a step of the other.
LEMMA HistoryWatches ==
    /\ HistoryInit => Init
    /\ [HistoryNext]_historyVars => [Next]_vars
BY DEF HistoryInit, HistoryNext, Next, historyVars, vars

LEMMA InitHistory == HistoryInit => HistoryInv
BY DEF HistoryInit, Init, InitialRow, NoConflict, Conflict, NoSpend, Continues, HistoryInv,
       EvidenceIsHistory, SpentIsInspected, SpendConflict

LEMMA AttachKeepsHistory ==
    ASSUME IInv, HistoryInv, NEW t \in TxHash, NEW status \in {"PREPARED", "SUBMITTED"},
           NEW kind \in AttemptKind, AttachTransaction(t, status, kind),
           IF exec.tx = t THEN UNCHANGED <<spent, earlier>> ELSE Forget
    PROVE  HistoryInv'
<1>1. PICK next : next = Attached(exec, t, status)
  OBVIOUS
<1>2. AttachAllowed(exec, t, status, kind) /\ exec' = next
  BY <1>1 DEF AttachTransaction
<1>3. /\ exec.tx = t => /\ next.wf = exec.wf /\ next.conflict = exec.conflict
                        /\ exec.wf # "CONFLICTED"
      /\ exec.tx # t => next.wf = "IDLE" /\ next.conflict = NoConflict
  BY <1>1, <1>2, AttachedFacts DEF IInv
<1>4. ~Continues(NoConflict.spend)
  BY DEF NoConflict, Conflict, NoSpend, Continues
<1>5. QED BY <1>2, <1>3, <1>4 DEF HistoryInv, EvidenceIsHistory, SpentIsInspected, SpendConflict

LEMMA MarkKeepsHistory ==
    ASSUME IInv, NEW status \in SubmissionStatus, NEW suspected \in BOOLEAN,
           MarkSubmission(status, suspected)
    PROVE  HistoryInv'
<1>1. PICK next : next = Marked(exec, status, suspected)
  OBVIOUS
<1>2. MarkAllowed(exec, status, suspected) /\ exec' = next
  BY <1>1 DEF MarkSubmission
<1>3. /\ next.wf = exec.wf /\ exec.wf # "CONFLICTED"
      /\ next.conflict = Conflict(IF suspected THEN "INPUT_CONFLICT_SUSPECTED"
                                  ELSE exec.conflict.type, NoSpend)
  BY <1>1, <1>2, MarkedFacts DEF IInv
<1>4. ~Continues(next.conflict.spend)
  BY <1>3 DEF Conflict, NoSpend, Continues
<1>5. QED BY <1>2, <1>3, <1>4 DEF HistoryInv, EvidenceIsHistory, SpentIsInspected, SpendConflict

\* A pass extends the evidence by the tip it found the inputs spent at, and
\* declares the conflict when the window separates two of them.
LEMMA ReconcileKeepsHistory ==
    ASSUME IInv, HistoryInv, NEW o \in Observations, NEW competing \in BOOLEAN,
           NEW monitored \in {FALSE, Monitoring},
           ReconcilePass(o, competing, monitored),
           spent' = SpentAfter(o), earlier' = EarlierAfter(o)
    PROVE  HistoryInv'
<1>1. SoundRow(exec) /\ exec \in AnyRow /\ monitored \in BOOLEAN
  BY SettingAssumption DEF IInv, SoundRow
<1>2. PICK next : next = Reconciled(exec, o, competing, monitored)
  OBVIOUS
<1>3. exec' = next
  BY <1>2 DEF ReconcilePass, Write
<1>4. PICK e : e = exec.conflict.spend
  OBVIOUS
<1>5. /\ next.conflict.spend \in {NoSpend, ConflictAfter(exec, o).spend}
      /\ next.wf = "CONFLICTED" /\ next.conflict.type = "INPUT_SPENT" => SpendProven(exec, o)
  BY <1>1, <1>2, ReconciledFacts
<1>6. Continues(e) => e.first \in spent \cup earlier /\ e.last \in spent \cup earlier
  BY <1>4 DEF HistoryInv, EvidenceIsHistory
<1>7. o.inspect = "CANONICALLY_SPENT" => spent' = spent \cup {o.tip} /\ earlier' = earlier
  <2>1. o.inspect = "CANONICALLY_SPENT" => o.status = "UNKNOWN"
    BY DEF Observations, CommitObservations, PoolObservations, UninspectedObservations,
           InspectedObservations
  <2>2. QED BY <2>1 DEF SpentAfter, EarlierAfter, Uninspected, Disproving, Found
<1>8. o.inspect = "NONE" /\ o.status \notin Found =>
          spent' \cup earlier' = spent \cup earlier
  BY DEF SpentAfter, EarlierAfter, Uninspected, Disproving
<1>9. ASSUME Continues(next.conflict.spend)
      PROVE  {next.conflict.spend.first, next.conflict.spend.last} \subseteq spent' \cup earlier'
  <2>1. next.conflict.spend = ConflictAfter(exec, o).spend
    BY <1>5, <1>9 DEF NoSpend, Continues
  <2>2. CASE /\ o.inspect = "CANONICALLY_SPENT"
             /\ next.conflict.spend = NextSpent(e, o.tip)
    <3>1. /\ next.conflict.spend.last = o.tip
          /\ next.conflict.spend.first = IF Continues(e) THEN e.first ELSE o.tip
      BY <2>2 DEF NextSpent
    <3>2. QED BY <1>6, <1>7, <2>2, <3>1
  <2>3. CASE /\ o.inspect = "NONE" /\ o.status \notin Found
             /\ next.conflict.spend = e
    BY <1>6, <1>8, <1>9, <2>3
  <2>4. QED BY <1>1, <1>4, <1>9, <2>1, <2>2, <2>3, EvidenceAfterPass
<1>10. ASSUME SpendProven(exec, o)
       PROVE  \E a \in spent' \cup earlier', b \in spent' : b >= a + MaturityWindow
  <2>1. Continues(e) /\ o.tip >= e.first + MaturityWindow /\ o.inspect = "CANONICALLY_SPENT"
    BY <1>4, <1>10 DEF SpendProven, Matured
  <2>2. e.first \in spent' \cup earlier' /\ o.tip \in spent'
    BY <1>6, <1>7, <2>1
  <2>3. QED BY <2>1, <2>2
<1>11. QED BY <1>3, <1>5, <1>9, <1>10 DEF HistoryInv, EvidenceIsHistory, SpentIsInspected, SpendConflict

LEMMA RpcFailureKeepsHistory ==
    ASSUME IInv, RpcFailurePass
    PROVE  HistoryInv'
<1>1. PICK next : next = RpcFailed(exec)
  OBVIOUS
<1>2. exec' = next
  BY <1>1 DEF RpcFailurePass, Write
<1>3. /\ next.conflict = Conflict(exec.conflict.type, BreakContinuity(exec.conflict.spend))
      /\ next.wf # "CONFLICTED"
  BY <1>1, RpcFailedFacts DEF IInv
<1>4. exec.conflict.spend \in ObservedEvidence
  BY SpendOfConflict DEF IInv, SoundRow, AnyRow
<1>5. ~Continues(next.conflict.spend)
  BY <1>3, <1>4, BrokenEnds DEF Conflict
<1>6. QED BY <1>2, <1>3, <1>5 DEF HistoryInv, EvidenceIsHistory, SpentIsInspected, SpendConflict

LEMMA PromoteKeepsHistory ==
    ASSUME NEW t \in TxHash, NEW sub \in SubmissionStatus, NEW conflict \in Conflicts,
           NEW o \in PromotingObservations, PromoteCandidate(t, sub, conflict, o),
           spent' = BroughtAlong(conflict.spend), earlier' = {}
    PROVE  HistoryInv'
<1>1. PICK next : next = Promoted(t, sub, conflict, o)
  OBVIOUS
<1>2. exec' = next
  BY <1>1 DEF PromoteCandidate, Write
<1>3. next.conflict = conflict /\ next.wf # "CONFLICTED"
  BY <1>1, PromotedFacts
<1>4. QED
  BY <1>2, <1>3 DEF HistoryInv, EvidenceIsHistory, SpentIsInspected, SpendConflict, BroughtAlong

LEMMA HistoryStep ==
    ASSUME IInv, HistoryInv, [HistoryNext]_historyVars PROVE HistoryInv'
<1>1. CASE \E t \in TxHash, status \in {"PREPARED", "SUBMITTED"}, kind \in AttemptKind :
              /\ AttachTransaction(t, status, kind)
              /\ IF exec.tx = t THEN UNCHANGED <<spent, earlier>> ELSE Forget
  BY <1>1, AttachKeepsHistory
<1>2. CASE \E status \in {"BROADCASTING", "SUBMITTED", "SUBMISSION_UNKNOWN", "NODE_REJECTED"},
              suspected \in BOOLEAN : MarkSubmission(status, suspected) /\ Forget
  <2>1. PICK status \in {"BROADCASTING", "SUBMITTED", "SUBMISSION_UNKNOWN", "NODE_REJECTED"},
             suspected \in BOOLEAN : MarkSubmission(status, suspected)
    BY <1>2
  <2>2. status \in SubmissionStatus
    BY DEF SubmissionStatus
  <2>3. QED BY <2>1, <2>2, MarkKeepsHistory
<1>3. CASE \E o \in Observations, competing \in BOOLEAN, monitored \in {FALSE, Monitoring} :
              /\ ReconcilePass(o, competing, monitored)
              /\ spent' = SpentAfter(o) /\ earlier' = EarlierAfter(o)
  BY <1>3, ReconcileKeepsHistory
<1>4. CASE RpcFailurePass /\ Forget
  BY <1>4, RpcFailureKeepsHistory
<1>5. CASE \E t \in TxHash, sub \in SubmissionStatus, conflict \in Conflicts,
              o \in PromotingObservations :
              /\ PromoteCandidate(t, sub, conflict, o)
              /\ spent' = BroughtAlong(conflict.spend) /\ earlier' = {}
  BY <1>5, PromoteKeepsHistory
<1>6. CASE UNCHANGED historyVars
  BY <1>6 DEF historyVars, HistoryInv, EvidenceIsHistory, SpentIsInspected, SpendConflict
<1>7. QED BY <1>1, <1>2, <1>3, <1>4, <1>5, <1>6 DEF HistoryNext

\* Every behaviour with a history is one of the projection, so all the theorems
\* above hold of it too.
THEOREM HistoryIsProjection == HistorySpec => Spec
BY HistoryWatches, PTL DEF HistorySpec, Spec

\* A terminal input conflict always rests on two inspections, the policy's
\* blocks apart, with nothing between them but answers without an inspection.
THEOREM SpendsInspected == HistorySpec => []SpentIsInspected
<1>1. HistoryInv /\ IInv /\ [HistoryNext]_historyVars => HistoryInv'
  BY HistoryStep
<1>2. HistorySpec => []IInv
  BY HistoryIsProjection, Invariance, PTL
<1>3. HistoryInv => SpentIsInspected
  BY DEF HistoryInv
<1>4. QED BY <1>1, <1>2, <1>3, InitHistory, PTL DEF HistorySpec

\* The continuity that README.md:9 promises is broken in one way only: as long as
\* no evidence from before an answer without an inspection is counted on, two
\* uninterrupted inspections vouch for every terminal input conflict.
THEOREM OnlyUninspectedHurry == HistorySpec => [](earlier = {} => SpentIsMature)
<1>1. SpentIsInspected /\ earlier = {} => SpentIsMature
  BY DEF SpentIsInspected, SpentIsMature
<1>2. QED BY <1>1, SpendsInspected, PTL
=============================================================================
