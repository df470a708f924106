-------------------------- MODULE IntentProjection --------------------------
(***************************************************************************)
(* What CellFlow promises about one business intent, as if every operation *)
(* read and wrote the intent's row in one atomic step.  IntentTracking     *)
(* keeps the same row with many stateless workers that read, wait for the  *)
(* network and write back under optimistic concurrency control, and is     *)
(* shown to implement this specification.                                  *)
(*                                                                         *)
(* The chain is the environment: an observation may be any answer the RPC  *)
(* client accepts, so endpoints may lag, fail over or disagree.            *)
(***************************************************************************)
EXTENDS ExecutionRow

VARIABLES
    exec,        \* the executions row
    winning,     \* intents.winning_attempt_id, as a hash
    announced    \* the last settlement event in the outbox

vars == <<exec, winning, announced>>

Init ==
    /\ exec = InitialRow(NoTx)
    /\ winning = NoTx
    /\ announced = "NONE"

\* The row and its settlement event are written in one transaction.
Write(row) ==
    /\ Storable(row)
    /\ exec' = row
    /\ announced' = IF SettlementEvent(exec, row) = {} THEN announced
                    ELSE CHOOSE e \in SettlementEvent(exec, row) : TRUE

AttachTransaction(t, status, kind) ==
    /\ AttachAllowed(exec, t, status, kind)
    /\ exec' = Attached(exec, t, status)
    /\ winning' = IF exec.tx = t THEN winning ELSE NoTx
    /\ UNCHANGED announced

MarkSubmission(status, suspected) ==
    /\ MarkAllowed(exec, status, suspected)
    /\ exec' = Marked(exec, status, suspected)
    /\ UNCHANGED <<winning, announced>>

\* Only a confirmed row names a winner; otherwise the old winner is kept.
ReconcilePass(o, competing, monitored) ==
    /\ exec.tx # NoTx
    /\ ~ObservationRefused(exec)
    /\ Write(Reconciled(exec, o, competing, monitored))
    /\ winning' = IF exec'.wf = "CONFIRMED" THEN exec.tx ELSE winning

RpcFailurePass ==
    /\ exec.tx # NoTx
    /\ ~ObservationRefused(exec)
    /\ Write(RpcFailed(exec))
    /\ winning' = IF exec'.wf = "CONFIRMED" THEN exec.tx ELSE winning

\* Fault: promotion leaves the recorded winner alone.
FaultyPromoteCandidate(t, sub, conflict, o) ==
    /\ exec.tx \notin {NoTx, t}
    /\ Write(Promoted(t, sub, conflict, o))
    /\ UNCHANGED winning

PromoteCandidate(t, sub, conflict, o) ==
    /\ exec.tx \notin {NoTx, t}
    /\ Write(Promoted(t, sub, conflict, o))
    /\ winning' = IF exec'.wf = "CONFIRMED" THEN t ELSE winning

Next ==
    \/ \E t \in TxHash, status \in {"PREPARED", "SUBMITTED"}, kind \in AttemptKind :
          AttachTransaction(t, status, kind)
    \/ \E status \in {"BROADCASTING", "SUBMITTED", "SUBMISSION_UNKNOWN", "NODE_REJECTED"},
          suspected \in BOOLEAN : MarkSubmission(status, suspected)
    \/ \E o \in Observations, competing \in BOOLEAN, monitored \in {FALSE, Monitoring} :
          ReconcilePass(o, competing, monitored)
    \/ RpcFailurePass
    \/ \E t \in TxHash, sub \in SubmissionStatus, conflict \in Conflicts,
          o \in PromotingObservations : PromoteCandidate(t, sub, conflict, o)

Spec == Init /\ [][Next]_vars

-----------------------------------------------------------------------------
(* Properties that hold *)

\* Types of the projection, with the part of the row's shape the columns fix.
TypeOK ==
    /\ exec \in Row
    /\ winning \in TxHash \cup {NoTx}
    /\ announced \in {"NONE", "READY", "REVOKED"}

\* A chain status of COMMITTED always comes with the block it was seen in, and
\* the workflow only waits for or claims confirmation of a commit it still
\* holds, at a depth the policy accepts (state-machine.ts, applyChainObservation).
CommitEvidence ==
    /\ exec.chain = "COMMITTED" => exec.block # NoBlock
    /\ exec.wf \in {"CONFIRMED", "WAITING_CONFIRMATIONS"} => exec.chain = "COMMITTED"
    /\ exec.wf = "CONFIRMED" => ConfirmationSatisfied(exec.chain, exec.count)

\* settlement_ready_at is only set on a row that is confirmed and whose
\* expected Cells are verified, whatever happened to the row since it was set
\* (isSettlementReady, applySnapshot).
SettledIsEvidenced ==
    exec.ready => /\ exec.wf = "CONFIRMED"
                  /\ exec.block # NoBlock
                  /\ Required => exec.assertion = "VERIFIED"

\* A VERIFIED verdict is about the block the row records: no reorganisation,
\* replacement or promotion leaves a verdict of another block behind
\* (reconcile.ts:609, "Never re-use assertions from an earlier committed block").
AssertionsMatchBlock ==
    exec.assertion = "VERIFIED" => exec.block # NoBlock /\ exec.proof = exec.block

\* While the transaction may still commit and the workflow has not reached a
\* terminal state, a next reconciliation is scheduled (PROJECT_SPEC durability).
PollingKept ==
    exec.sub \in {"SUBMITTED", "SUBMISSION_UNKNOWN"} /\ ~Terminal(exec) => exec.due

\* A confirmed row's own attempt is the recorded winner, also after promotions
\* and replacements moved the projection between hashes.
ConfirmedIsWinning == exec.wf = "CONFIRMED" => winning = exec.tx

\* Whenever the row carries a settlement timestamp, the last settlement event
\* the outbox published is SETTLEMENT_READY (applySnapshot, promotion).
ReadyAnnounced == exec.ready => announced = "READY"

\* The prefix of settlement events a consumer sees starts with READY: a
\* revocation always revokes something that was announced.
RevokesOnlyReady ==
    [][announced' = "REVOKED" => announced \in {"READY", "REVOKED"}]_vars

\* A recorded commit is only given up on explicit proof that its block left the
\* canonical chain (state-machine.ts, "may be a lagging node and is not proof").
CommitLeavesOnlyByProof ==
    [][exec.chain = "COMMITTED" /\ exec'.tx = exec.tx /\ exec'.chain # "COMMITTED"
          => exec'.seen.displaced]_vars

\* A conflicted intent stays so until another transaction takes over its row:
\* late observations and late submission reports are refused.
ConflictedIsFinal ==
    [][exec.wf = "CONFLICTED" /\ exec'.tx = exec.tx => exec' = exec]_vars

-----------------------------------------------------------------------------
(* What the repository says, and the code does not do *)

\* SETTLEMENT_REVIEW_FIX.md: a transition of the settlement predicate to false
\* is announced by intent.settlement_revoked.
SettlementLossAnnounced == announced = "READY" => SettlementReady(exec)

\* reconcile.ts: a foreign signed payload under the tracked hash conflicts the
\* intent, so the row a pass computes from it must be one the table accepts.
MismatchIsRecorded ==
    exec.tx # NoTx /\ ~ObservationRefused(exec) =>
        \A o \in Observations : o.mismatch => Storable(Reconciled(exec, o, FALSE, FALSE))
=============================================================================
