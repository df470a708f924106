--------------------------- MODULE IntentTracking ---------------------------
(***************************************************************************)
(* One intent as the database and the stateless processes around it really *)
(* hold it: the executions row with its version, one transaction_attempts  *)
(* row per hash, and reconciliation workers (cron, durable workflow, API)  *)
(* that read the intent, talk to RPC endpoints and write back what they    *)
(* computed from the copy they read.                                       *)
(*                                                                         *)
(* Writes to the row are guarded by its version.  The write of a candidate *)
(* attempt during the scan is not (updateCandidateAttempt).  The API       *)
(* operations re-read and retry under the same version guard, so each is   *)
(* one atomic step here; a reconciliation pass is not.                     *)
(***************************************************************************)
EXTENDS ExecutionRow

CONSTANTS
    Worker,        \* processes that may reconcile the intent at once
    MaxTries,      \* passes before a worker gives up on lost races (3)
    MaxVersion     \* bound: versioned writes explored

ASSUME BoundAssumption == MaxTries \in Nat \ {0} /\ MaxVersion \in Nat

VARIABLES
    exec,          \* the executions row
    winning,       \* intents.winning_attempt_id, as a hash
    announced,     \* the last settlement event in the outbox
    version,       \* executions.version
    att,           \* transaction_attempts, by hash
    worker         \* what each worker has read and is about to do

vars == <<exec, winning, announced, version, att, worker>>

rowVars == <<exec, winning, announced, version>>

\* "ABSENT": no attempt row for the hash.
Attempt == [disp : Disposition \cup {"ABSENT"}, sub : SubmissionStatus,
            chain : ChainStatus, wf : WorkflowStatus, conflict : Conflicts]

NoAttempt == [disp |-> "ABSENT", sub |-> "NOT_SUBMITTED", chain |-> "UNOBSERVED",
              wf |-> "IDLE", conflict |-> NoConflict]

WorkerState == [pc : {"idle", "refresh", "attempts", "pass"},
                version : Nat, row : Row, winning : TxHash \cup {NoTx},
                att : [TxHash -> Attempt], scan : BOOLEAN,
                todo : SUBSET TxHash, tries : 0 .. MaxTries - 1]

Idle == [pc |-> "idle", version |-> 0, row |-> InitialRow(NoTx), winning |-> NoTx,
         att |-> [t \in TxHash |-> NoAttempt], scan |-> TRUE, todo |-> {}, tries |-> 0]

Init ==
    /\ exec = InitialRow(NoTx)
    /\ winning = NoTx
    /\ announced = "NONE"
    /\ version = 0
    /\ att = [t \in TxHash |-> NoAttempt]
    /\ worker = [w \in Worker |-> Idle]

-----------------------------------------------------------------------------
(* Attempts *)

Competing(attempts, active) == {t \in TxHash \ {active} : attempts[t].disp = "ACTIVE"}

\* An attempt row written from a snapshot of the execution.
AttemptOf(row) == [disp |-> DispositionFor(row), sub |-> row.sub, chain |-> row.chain,
                   wf |-> row.wf, conflict |-> row.conflict]

\* Fault: the other open candidates stay open.
FaultySettleAttempts(attempts, t, a) == [attempts EXCEPT ![t] = a]

\* Once an attempt is confirmed every other ACTIVE one is superseded.
SettleAttempts(attempts, t, a) ==
    [u \in TxHash |->
        IF u = t THEN a
        ELSE IF a.disp = "CONFIRMED" /\ attempts[u].disp = "ACTIVE"
        THEN [attempts[u] EXCEPT !.disp = "SUPERSEDED"]
        ELSE attempts[u]]

-----------------------------------------------------------------------------
(* Optimistic concurrency control *)

\* Fault: the write forgets to advance the version.
FaultyAdvanceVersion == version < MaxVersion /\ UNCHANGED version

\* Every write of the row advances its version (up to the explored bound).
AdvanceVersion == version < MaxVersion /\ version' = version + 1

\* Fault: the update's WHERE clause does not mention the version.
FaultyCurrent(w) == TRUE

\* The version guard of the workers' writes.
Current(w) == worker[w].version = version

-----------------------------------------------------------------------------
(* The API: attachTransaction and markSubmission *)

AttachTransaction(t, status, kind) ==
    /\ AdvanceVersion
    /\ AttachAllowed(exec, t, status, kind)
    /\ exec' = Attached(exec, t, status)
    /\ winning' = IF exec.tx = t THEN winning ELSE NoTx
    /\ att' = IF att[t].disp # "ABSENT"
              THEN [att EXCEPT ![t].sub = status]
              ELSE [u \in TxHash |->
                      IF u = t THEN [NoAttempt EXCEPT !.disp = "ACTIVE", !.sub = status]
                      ELSE IF u = exec.tx /\ kind # "RBF_REPLACEMENT"
                      THEN [att[u] EXCEPT !.disp = PriorDisposition(exec)]
                      ELSE att[u]]
    /\ UNCHANGED <<announced, worker>>

MarkSubmission(status, suspected) ==
    /\ AdvanceVersion
    /\ MarkAllowed(exec, status, suspected)
    /\ exec' = Marked(exec, status, suspected)
    /\ att' = [att EXCEPT ![exec.tx].sub = status,
                          ![exec.tx].conflict = exec'.conflict,
                          ![exec.tx].disp = IF status = "NODE_REJECTED"
                                            THEN "REJECTED" ELSE "ACTIVE"]
    /\ UNCHANGED <<winning, announced, worker>>

-----------------------------------------------------------------------------
(* Reading the intent: getIntent selects the row, then the attempts *)

ReadIntent(w) ==
    /\ worker[w].pc \in {"idle", "refresh"}
    /\ exec.tx # NoTx
    /\ worker' = [worker EXCEPT ![w] =
          [@ EXCEPT !.pc = "attempts", !.version = version, !.row = exec, !.winning = winning]]
    /\ UNCHANGED <<rowVars, att>>

\* Of the attempts only the competing ones matter to the rest of the pass.
ReadAttempts(w) ==
    LET competing == Competing(att, worker[w].row.tx) IN
    /\ worker[w].pc = "attempts"
    /\ worker' = [worker EXCEPT ![w] =
          [@ EXCEPT !.pc = "pass",
                    !.att = [t \in TxHash |-> IF t \in competing THEN att[t] ELSE NoAttempt],
                    !.todo = IF worker[w].scan THEN competing ELSE {}]]
    /\ UNCHANGED <<rowVars, att>>

-----------------------------------------------------------------------------
(* Lost races, crashes *)

\* Fault: lost races are retried without end.
FaultyAfterConflict(w) == [Idle EXCEPT !.pc = "refresh", !.tries = worker[w].tries + 1]

\* A version conflict restarts the pass from a fresh read, a bounded number of
\* times; any other error ends it.
AfterConflict(w) ==
    IF worker[w].tries + 1 < MaxTries
    THEN [Idle EXCEPT !.pc = "refresh", !.tries = worker[w].tries + 1]
    ELSE Idle

LoseRace(w) ==
    /\ ~Current(w)
    /\ worker' = [worker EXCEPT ![w] = AfterConflict(w)]
    /\ UNCHANGED <<rowVars, att>>

\* The process dies, its deadline passes, or a non-retryable error is thrown.
Abandon(w) ==
    /\ worker[w].pc # "idle"
    /\ worker' = [worker EXCEPT ![w] = Idle]
    /\ UNCHANGED <<rowVars, att>>

-----------------------------------------------------------------------------
(* Scanning the competing candidates (promoteCommittedCompetingCandidate) *)

CandidateSnapshot(a) ==
    [InitialRow(NoTx) EXCEPT !.sub = CandidateSubmission(a.sub),
                             !.chain = a.chain, !.wf = a.wf]

Scanned(w, t) == worker' = [worker EXCEPT ![w] = [@ EXCEPT !.todo = worker[w].todo \ {t}]]

\* RPC failure or a refused observation: swallowed, nothing is written.
SkipCandidate(w, t) ==
    /\ worker[w].pc = "pass" /\ t \in worker[w].todo
    /\ Scanned(w, t)
    /\ UNCHANGED <<rowVars, att>>

\* Written from the copy read earlier, without a version guard.
UpdateCandidate(w, t, status) ==
    LET a == worker[w].att[t]
        o == [status |-> status, block |-> NoBlock, tip |-> 0, displaced |-> FALSE]
        next == ApplyChainObservation(CandidateSnapshot(a), o)
    IN  /\ worker[w].pc = "pass" /\ t \in worker[w].todo
        /\ ~ObservationRefused(a)
        /\ att' = [att EXCEPT ![t] = AttemptOf(next)]
        /\ Scanned(w, t)
        /\ UNCHANGED rowVars

\* Committed with a foreign witness payload.
ConflictCandidate(w, t) ==
    LET a == worker[w].att[t] IN
    /\ worker[w].pc = "pass" /\ t \in worker[w].todo
    /\ att' = [att EXCEPT ![t] = [disp |-> "CONFLICTED", sub |-> CandidateSubmission(a.sub),
                                  chain |-> a.chain, wf |-> "CONFLICTED",
                                  conflict |-> Conflict("SIGNED_PAYLOAD_MISMATCH", NoSpend)]]
    /\ Scanned(w, t)
    /\ UNCHANGED rowVars

PromoteCandidate(w, t, o) ==
    LET a == worker[w].att[t]
        next == Promoted(t, a.sub, a.conflict, o)
    IN  /\ worker[w].pc = "pass" /\ t \in worker[w].todo
        /\ ~ObservationRefused(a)
        /\ Storable(next)
        /\ \/ LoseRace(w)
           \/ /\ Current(w)
              /\ AdvanceVersion
              /\ exec' = next
              /\ announced' = IF SettlementEvent(worker[w].row, next) = {} THEN announced
                              ELSE CHOOSE e \in SettlementEvent(worker[w].row, next) : TRUE
              /\ winning' = IF next.wf = "CONFIRMED" THEN t ELSE worker[w].winning
              /\ att' = SettleAttempts(att, t,
                          [AttemptOf(next) EXCEPT !.conflict = att[t].conflict])
              \* the promoted intent is re-read and reconciled without a scan
              /\ worker' = [worker EXCEPT ![w] =
                    [Idle EXCEPT !.pc = "refresh", !.scan = FALSE, !.tries = worker[w].tries]]

-----------------------------------------------------------------------------
(* Reconciling the active attempt (applySnapshot) *)

\* Write what was computed from the copy, if nobody wrote in between.
Apply(w, next) ==
    LET row == worker[w].row IN
    /\ worker[w].pc = "pass" /\ worker[w].todo = {}
    /\ ~ObservationRefused(row)
    /\ Storable(next)
    /\ \/ LoseRace(w)
       \/ /\ Current(w)
          /\ AdvanceVersion
          /\ exec' = next
          /\ announced' = IF SettlementEvent(row, next) = {} THEN announced
                          ELSE CHOOSE e \in SettlementEvent(row, next) : TRUE
          /\ winning' = IF next.wf = "CONFIRMED" THEN row.tx ELSE worker[w].winning
          /\ att' = SettleAttempts(att, row.tx, AttemptOf(next))
          /\ worker' = [worker EXCEPT ![w] = Idle]

ReconcilePass(w, o, monitored) ==
    Apply(w, Reconciled(worker[w].row, o,
                        Competing(worker[w].att, worker[w].row.tx) # {}, monitored))

RpcFailurePass(w) == Apply(w, RpcFailed(worker[w].row))

-----------------------------------------------------------------------------
ClientStep ==
    \/ \E t \in TxHash, status \in {"PREPARED", "SUBMITTED"}, kind \in AttemptKind :
          AttachTransaction(t, status, kind)
    \/ \E status \in {"BROADCASTING", "SUBMITTED", "SUBMISSION_UNKNOWN", "NODE_REJECTED"},
          suspected \in BOOLEAN : MarkSubmission(status, suspected)

WorkerStep(w) ==
    \/ ReadIntent(w)
    \/ ReadAttempts(w)
    \/ Abandon(w)
    \/ \E t \in TxHash :
          \/ SkipCandidate(w, t)
          \/ \E status \in ObservedStatus \ {"COMMITTED"} : UpdateCandidate(w, t, status)
          \/ ConflictCandidate(w, t)
          \/ \E o \in PromotingObservations : PromoteCandidate(w, t, o)
    \/ \E o \in Observations, monitored \in {FALSE, Monitoring} :
          ReconcilePass(w, o, monitored)
    \/ RpcFailurePass(w)

Next == ClientStep \/ \E w \in Worker : WorkerStep(w)

Spec == Init /\ [][Next]_vars

-----------------------------------------------------------------------------
(* Properties *)

\* Types of the tables and of what the workers hold.
TypeOK ==
    /\ exec \in Row
    /\ winning \in TxHash \cup {NoTx}
    /\ announced \in {"NONE", "READY", "REVOKED"}
    /\ version \in Nat
    /\ att \in [TxHash -> Attempt]
    /\ worker \in [Worker -> WorkerState]

\* A worker whose version is still the row's holds an exact copy of what the
\* versioned write is computed from; this is what makes the version guard of
\* applySnapshot and promoteAttemptProjection sufficient.
ReadsCurrent ==
    \A w \in Worker : worker[w].pc \in {"attempts", "pass"} =>
        /\ worker[w].version <= version
        /\ worker[w].version = version =>
              worker[w].row = exec /\ worker[w].winning = winning

\* Chain evidence chooses one winner: once the tracked attempt is confirmed no
\* other attempt is an open candidate or confirmed as well.
WinnerIsExclusive ==
    exec.wf = "CONFIRMED" =>
        \A t \in TxHash \ {exec.tx} : att[t].disp \notin {"ACTIVE", "CONFIRMED"}

\* A settled transaction is not displaced by another hash: replacements are
\* refused once it is committed, and no candidate is left open to promote.
SettlementKept == [][exec.ready /\ ~exec'.ready => exec'.tx = exec.tx]_vars

\* Optimistic concurrency makes every pass look atomic: the row, its winner and
\* its settlement events evolve as in IntentProjection. This is Projection!Spec
\* with the stutter named first: most steps write candidates or read.
Projection == INSTANCE IntentProjection
    WITH exec <- exec, winning <- winning, announced <- announced
AtomicProjection ==
    /\ Projection!Init
    /\ [][UNCHANGED <<exec, winning, announced>> \/ Projection!Next]_<<exec, winning, announced>>
=============================================================================
