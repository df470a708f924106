---------------------------- MODULE ExecutionRow ----------------------------
(***************************************************************************)
(* One row of the executions table and what each operation that writes it  *)
(* computes from the row it read: attaching a transaction, recording a     *)
(* submission outcome, a reconciliation pass, a pass whose RPC failed, and *)
(* the promotion of a competing candidate.  intents.active_attempt_id is   *)
(* written in the same transactions as tx_hash and always names the        *)
(* attempt of that hash, so the field tx stands for both.                  *)
(***************************************************************************)
EXTENDS SpendEvidence

CONSTANTS
    TxHash,        \* the transaction hashes that may be attached
    NoTx,          \* no transaction attached yet
    InputsOf,      \* the input OutPoints persisted with each hash
    Required,      \* the intent has expected-Cell assertions
    Monitoring,    \* CELLFLOW_POST_CONFIRMATION_MONITOR_MS > 0
    Tips           \* the tip heights an endpoint may report

ASSUME TxAssumption == NoTx \notin TxHash /\ DOMAIN InputsOf = TxHash

ASSUME SettingAssumption ==
    /\ Required \in BOOLEAN
    /\ Monitoring \in BOOLEAN
    /\ Tips \subseteq Nat

ConflictType == {"NONE", "INPUT_CONFLICT_SUSPECTED", "INPUT_SPENT",
                 "EXPECTED_CELL_ASSERTION_FAILED", "SIGNED_PAYLOAD_MISMATCH"}

\* The CHECK of migration 005 on executions.conflict_type (of the types used).
StorableConflict == {"NONE", "INPUT_CONFLICT_SUSPECTED", "INPUT_SPENT",
                     "EXPECTED_CELL_ASSERTION_FAILED"}

Verdict == {"PENDING", "VERIFIED", "FAILED"}

AttemptKind == {"INITIAL", "REBUILD", "RBF_REPLACEMENT", "MANUAL_RETRY"}

\* conflict_type with the part of conflict_details the code reads back.
Conflict(type, evidence) == [type |-> type, spend |-> evidence]

NoConflict == Conflict("NONE", NoSpend)

Suspected(evidence) == Conflict("INPUT_CONFLICT_SUSPECTED", evidence)

ObservedEvidence ==
    {NoSpend, BrokenSpend}
    \cup [seen : {TRUE}, first : Tips, last : Tips, broken : {FALSE}]

\* Spend evidence only ever accompanies a suspicion.
Conflicts == {Conflict(type, NoSpend) : type \in ConflictType}
             \cup {Suspected(evidence) : evidence \in ObservedEvidence}

\* proof is the committed block the last verdict was given for
\* (assertion_result); seen abstracts last_raw_observation: whether it proved the
\* recorded block gone; due says that next_reconcile_at is set; ready that
\* settlement_ready_at is.
Row == [tx : TxHash \cup {NoTx},
        sub : SubmissionStatus,
        chain : ChainStatus,
        wf : WorkflowStatus,
        count : Nat,
        block : Block \cup {NoBlock},
        conflict : {c \in Conflicts : c.type \in StorableConflict},
        assertion : Verdict \cup {"NONE"},
        proof : Block \cup {NoBlock},
        seen : [displaced : BOOLEAN],
        ready : BOOLEAN,
        due : BOOLEAN]

NothingSeen == [displaced |-> FALSE]

InitialRow(tx) ==
    [tx |-> tx, sub |-> "NOT_SUBMITTED", chain |-> "UNOBSERVED", wf |-> "IDLE",
     count |-> 0, block |-> NoBlock, conflict |-> NoConflict,
     assertion |-> "NONE", proof |-> NoBlock, seen |-> NothingSeen,
     ready |-> FALSE, due |-> FALSE]

Storable(row) == row.conflict.type \in StorableConflict

\* The settlement predicate over the stored row.
SettlementReady(row) ==
    IsSettlementReady(row, row.assertion, Required, row.conflict.type)

-----------------------------------------------------------------------------
(* The disposition of an attempt row *)

Disposition == {"ACTIVE", "SUPERSEDED", "CONFIRMED", "REJECTED", "CONFLICTED"}

\* dispositionForSnapshot
DispositionFor(s) ==
    IF s.wf = "CONFIRMED" THEN "CONFIRMED"
    ELSE IF s.wf = "CONFLICTED" THEN "CONFLICTED"
    ELSE IF s.chain = "REJECTED" \/ s.sub = "NODE_REJECTED" THEN "REJECTED"
    ELSE "ACTIVE"

\* priorAttemptDisposition: what a replaced attempt is left as.
PriorDisposition(s) ==
    IF DispositionFor(s) = "ACTIVE" THEN "SUPERSEDED" ELSE DispositionFor(s)

-----------------------------------------------------------------------------
(* Attaching a transaction *)

Finalized(row) == row.chain = "COMMITTED" \/ row.wf = "CONFIRMED"

\* Fault: an ambiguous broadcast does not count.
FaultyPotentiallyLive(row) ==
    row.sub \in {"BROADCASTING", "SUBMITTED"} \/ row.chain \in {"PENDING", "PROPOSED"}

PotentiallyLive(row) ==
    \/ row.sub \in {"BROADCASTING", "SUBMISSION_UNKNOWN", "SUBMITTED"}
    \/ row.chain \in {"PENDING", "PROPOSED"}

SharesInput(t, u) == InputsOf[t] \cap InputsOf[u] # {}

Replaces(row, t) == row.tx # NoTx /\ row.tx # t

\* Fault: a finalized attempt may be replaced like any other.
FaultyAttachAllowed(row, t, status, kind) ==
    /\ SubmissionAllowed(IF Replaces(row, t) THEN InitialRow(t) ELSE row, status)
    /\ Replaces(row, t) =>
          /\ kind # "INITIAL"
          /\ PotentiallyLive(row) => kind = "RBF_REPLACEMENT"
          /\ kind = "RBF_REPLACEMENT" => SharesInput(row.tx, t)

AttachAllowed(row, t, status, kind) ==
    /\ SubmissionAllowed(IF Replaces(row, t) THEN InitialRow(t) ELSE row, status)
    /\ Replaces(row, t) =>
          /\ kind # "INITIAL"
          /\ ~Finalized(row)
          /\ PotentiallyLive(row) => kind = "RBF_REPLACEMENT"
          /\ kind = "RBF_REPLACEMENT" => SharesInput(row.tx, t)

Attached(row, t, status) ==
    [(IF row.tx = t THEN row ELSE InitialRow(t))
        EXCEPT !.sub = status, !.due = (status = "SUBMITTED")]

-----------------------------------------------------------------------------
(* Recording a submission outcome *)

\* suspected: the broadcast error was classified INPUT_CONFLICT_SUSPECTED.
MarkAllowed(row, status, suspected) ==
    /\ row.tx # NoTx
    /\ SubmissionAllowed(row, status)
    /\ suspected => status = "NODE_REJECTED"

\* Fault: an ambiguous broadcast does not schedule a reconciliation.
FaultyMarked(row, status, suspected) ==
    [row EXCEPT
        !.sub = status,
        !.conflict = Conflict(IF suspected THEN "INPUT_CONFLICT_SUSPECTED"
                              ELSE @.type, NoSpend),
        !.due = @ \/ suspected \/ status = "SUBMITTED"]

\* conflict_details is overwritten even when no conflict is reported.
Marked(row, status, suspected) ==
    [row EXCEPT
        !.sub = status,
        !.conflict = Conflict(IF suspected THEN "INPUT_CONFLICT_SUSPECTED"
                              ELSE @.type, NoSpend),
        !.due = @ \/ suspected \/ status \in {"SUBMITTED", "SUBMISSION_UNKNOWN"}]

-----------------------------------------------------------------------------
(* Observations: what observeTransaction, the payload fingerprint, the       *)
(* assertion RPCs and the corroborating endpoint can answer in one pass      *)

\* Without expected Cells nothing is evaluated.
Verdicts == IF Required THEN Verdict ELSE {"PENDING"}

\* COMMITTED is only reported for a block verified canonical below the tip.
CommitObservations ==
    {o \in [status : {"COMMITTED"}, block : Block, tip : Tips,
            displaced : BOOLEAN, inspect : {"NONE"}, corroborated : {FALSE},
            mismatch : BOOLEAN, verdict : Verdicts] : o.tip >= BlockNumber[o.block]}

PoolObservations ==
    [status : {"PENDING", "PROPOSED"}, block : {NoBlock}, tip : {0},
     displaced : BOOLEAN, inspect : {"NONE"}, corroborated : {FALSE},
     mismatch : BOOLEAN, verdict : Verdicts]

\* REJECTED, a commit whose block could not be verified, or a hash that is
\* absent and has no persisted inputs to inspect.
UninspectedObservations ==
    [status : {"REJECTED", "UNKNOWN"}, block : {NoBlock}, tip : {0},
     displaced : BOOLEAN, inspect : {"NONE"}, corroborated : {FALSE},
     mismatch : {FALSE}, verdict : Verdicts]

\* The hash is absent, so there is no transaction to verify: PENDING.
InspectedObservations ==
    [status : {"UNKNOWN"}, block : {NoBlock}, tip : {0}, displaced : BOOLEAN,
     inspect : {"MEMPOOL_CONTENDED", "ALL_LIVE", "UNKNOWN"}, corroborated : {FALSE},
     mismatch : {FALSE}, verdict : {"PENDING"}]
    \cup
    [status : {"UNKNOWN"}, block : {NoBlock}, tip : Tips, displaced : BOOLEAN,
     inspect : {"CANONICALLY_SPENT"}, corroborated : BOOLEAN,
     mismatch : {FALSE}, verdict : {"PENDING"}]

Observations == CommitObservations \cup PoolObservations
                \cup UninspectedObservations \cup InspectedObservations

-----------------------------------------------------------------------------
(* A reconciliation pass *)

Noted(row, o) == [displaced |-> o.displaced /\ row.block # NoBlock]

\* A spend seen through the whole window and corroborated: terminal conflict.
SpendProven(row, o) ==
    /\ o.inspect = "CANONICALLY_SPENT"
    /\ Matured(row.conflict.spend, o.tip)
    /\ o.corroborated

ConflictAfter(row, o) ==
    CASE o.mismatch -> Conflict("SIGNED_PAYLOAD_MISMATCH", NoSpend)
      [] o.status \in Found /\ ~o.mismatch -> NoConflict
      [] o.inspect = "MEMPOOL_CONTENDED" -> Suspected(NoSpend)
      [] o.inspect = "CANONICALLY_SPENT" ->
            IF SpendProven(row, o) THEN Conflict("INPUT_SPENT", NoSpend)
            ELSE Suspected(NextSpent(row.conflict.spend, o.tip))
      [] o.inspect = "ALL_LIVE" -> NoConflict
      [] o.inspect = "UNKNOWN" /\ row.conflict.spend.seen ->
            Suspected(BreakContinuity(row.conflict.spend))
      [] OTHER -> row.conflict

\* The snapshot before the expected Cells are evaluated.
ChainApplied(row, o) ==
    [ApplyChainObservation(row, o) EXCEPT
        !.sub = SupersedeNodeRejection(@, o.status),
        !.wf = IF o.mismatch \/ SpendProven(row, o) THEN "CONFLICTED" ELSE @,
        !.conflict = ConflictAfter(row, o),
        !.seen = Noted(row, o)]

\* Fault: only a REORGED workflow clears the verdict.
FaultyAssertionsCleared(row, o) == ChainApplied(row, o).wf = "REORGED"

\* An assertion verified against another block is never reused.
AssertionsCleared(row, o) ==
    ReorgDetected(row, o) \/ ChainApplied(row, o).wf = "REORGED"

ShouldReverify(row, next, o) ==
    \/ ~row.ready
    \/ row.assertion # "VERIFIED"
    \/ ReorgDetected(row, o)
    \/ row.block = NoBlock
    \/ row.block # next.block

AssertionsApplied(row, o) ==
    LET next == ChainApplied(row, o) IN
    IF next.wf = "CONFIRMED" /\ Required /\ ShouldReverify(row, next, o)
    THEN [next EXCEPT
            !.assertion = o.verdict,
            !.proof = next.block,
            !.wf = IF o.verdict = "FAILED" THEN "CONFLICTED" ELSE @,
            !.conflict = IF o.verdict = "FAILED"
                         THEN Conflict("EXPECTED_CELL_ASSERTION_FAILED", NoSpend) ELSE @]
    ELSE IF AssertionsCleared(row, o)
    THEN [next EXCEPT !.assertion = "NONE", !.proof = NoBlock]
    ELSE next

Terminal(row) ==
    \/ row.wf \in {"CONFLICTED", "EXPIRED"}
    \/ row.chain = "REJECTED"
    \/ row.wf = "CONFIRMED" /\ (Required => row.assertion = "VERIFIED")

\* competing: another attempt is still ACTIVE; monitored: the settlement is
\* within the monitoring horizon.
StopsPolling(row, next, o, competing, monitored) ==
    /\ ~(competing /\ next.wf # "CONFIRMED")
    /\ \/ Terminal(next) /\ ~(monitored /\ SettlementReady(next))
       \/ /\ o.status = "UNKNOWN"
          /\ row.sub = "NODE_REJECTED"
          /\ next.conflict.type = "NONE"

\* Fault: the settlement timestamp, once set, is never cleared.
FaultyReconciled(row, o, competing, monitored) ==
    LET next == AssertionsApplied(row, o) IN
    [next EXCEPT
        !.ready = @ \/ SettlementReady(next),
        !.due = ~StopsPolling(row, next, o, competing, monitored)]

Reconciled(row, o, competing, monitored) ==
    LET next == AssertionsApplied(row, o) IN
    [next EXCEPT
        !.ready = SettlementReady(next),
        !.due = ~StopsPolling(row, next, o, competing, monitored)]

\* An RPC outage is no evidence: UNKNOWN goes through the state machine, the
\* continuity of spend evidence is broken, polling goes on.
FailureObservation == [status |-> "UNKNOWN", block |-> NoBlock, tip |-> 0,
                       displaced |-> FALSE]

\* Fault: an outage clears the suspicion but keeps its evidence.
FaultyRpcFailed(row) ==
    [ApplyChainObservation(row, FailureObservation) EXCEPT
        !.conflict = Conflict("NONE", BreakContinuity(@.spend)), !.due = TRUE]

RpcFailed(row) ==
    LET next == [ApplyChainObservation(row, FailureObservation) EXCEPT
                    !.conflict.spend = BreakContinuity(@),
                    !.seen = Noted(row, FailureObservation)] IN
    [next EXCEPT !.ready = SettlementReady(next), !.due = TRUE]

-----------------------------------------------------------------------------
(* Promotion of a competing candidate that was observed committed *)

\* A candidate is observed without a prior block and its Cells are not
\* evaluated; a foreign payload keeps it from being promoted.
PromotingObservations ==
    {o \in CommitObservations : ~o.displaced /\ ~o.mismatch /\ o.verdict = "PENDING"}

\* The candidate's own chain and workflow status only decide whether the
\* observation is refused; a committed observation overwrites both.
CandidateSubmission(sub) == IF sub = "NOT_SUBMITTED" THEN "SUBMITTED" ELSE sub

\* Its conflict is copied from the attempt row the pass read at its start.
Promoted(t, sub, conflict, o) ==
    LET base == [InitialRow(t) EXCEPT !.sub = CandidateSubmission(sub)]
        next == [ApplyChainObservation(base, o) EXCEPT
                    !.conflict = conflict,
                    !.seen = Noted(base, o)] IN
    [next EXCEPT !.ready = SettlementReady(next), !.due = TRUE]

-----------------------------------------------------------------------------
(* Settlement events, written with the row by applySnapshot and promotion *)

\* Fault: chain confirmation is taken for settlement.
FaultyWasReady(row) == row.wf = "CONFIRMED"

WasReady(row) == row.ready /\ SettlementReady(row)

SettlementEvent(row, next) ==
    IF WasReady(row) = next.ready THEN {}
    ELSE {IF next.ready THEN "READY" ELSE "REVOKED"}
=============================================================================
