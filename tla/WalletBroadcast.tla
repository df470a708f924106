--------------------------- MODULE WalletBroadcast ---------------------------
(***************************************************************************)
(* The wallet side of an intent: prepareTrackedTransaction signs, persists *)
(* the hash and its inputs, and hands out broadcast(), which asks for a    *)
(* preflight, announces the broadcast, sends the transaction to a node and *)
(* reports the outcome (packages/ccc).  Every call but the send is an HTTP *)
(* request to the intent API that may be applied late, applied twice by a  *)
(* transport retry, or given up by the client and applied afterwards; only *)
(* the first request of a handle names the transaction, the others name    *)
(* the intent.                                                             *)
(*                                                                         *)
(* The API's writes are those of ExecutionRow; a reconciliation pass is    *)
(* one step and what it sees is what the node knows, or an UNKNOWN of an   *)
(* endpoint that lags.  The chain does not reorganise here.                *)
(***************************************************************************)
EXTENDS ExecutionRow, FiniteSets

CONSTANTS
    Wallet,        \* processes that sign and broadcast for the intent
    MaxSends,      \* bound: times one hash is sent
    MaxFaults      \* bound: overtaken retries, timeouts, crashes, lagging answers

ASSUME WalletAssumption == MaxSends \in Nat /\ MaxFaults \in Nat

VARIABLES
    exec,          \* the executions row
    att,           \* disposition and submission status of each attempt row
    wallet,        \* the handle each wallet works on and where it is
    net,           \* requests that the API has not applied for the last time
    node,          \* what the network holds of each hash
    sends,         \* times each hash was handed to the network
    faults         \* faults so far

vars == <<exec, att, wallet, net, node, sends, faults>>

Attempt == [disp : Disposition \cup {"ABSENT"}, sub : SubmissionStatus]

\* What sendTransaction ended with, as classifyBroadcastError tells it apart.
Outcome == {"ACCEPTED", "REJECTED", "CONFLICTING", "AMBIGUOUS"}

\* Fault: an ambiguous outcome is reported as a rejection.
FaultyReport == [ACCEPTED |-> "submitted", REJECTED |-> "rejected",
                 CONFLICTING |-> "conflicting", AMBIGUOUS |-> "rejected"]

Report == [ACCEPTED |-> "submitted", REJECTED |-> "rejected",
           CONFLICTING |-> "conflicting", AMBIGUOUS |-> "ambiguous"]

Handle == [pc : {"idle", "preparing", "prepared", "checking", "announcing",
                 "announced", "reporting", "done"},
           tx : TxHash \cup {NoTx}, kind : AttemptKind, outcome : Outcome]

NoHandle == [pc |-> "idle", tx |-> NoTx, kind |-> "INITIAL", outcome |-> "ACCEPTED"]

Marks == [broadcasting |-> "BROADCASTING", submitted |-> "SUBMITTED",
          ambiguous |-> "SUBMISSION_UNKNOWN", rejected |-> "NODE_REJECTED",
          conflicting |-> "NODE_REJECTED"]

Request == [from : Wallet, op : {"prepare"}, tx : TxHash, kind : AttemptKind]
           \cup [from : Wallet, op : {"preflight"} \cup DOMAIN Marks,
                 tx : {NoTx}, kind : {"INITIAL"}]

Init ==
    /\ exec = InitialRow(NoTx)
    /\ att = [t \in TxHash |-> [disp |-> "ABSENT", sub |-> "NOT_SUBMITTED"]]
    /\ wallet = [w \in Wallet |-> NoHandle]
    /\ net = {}
    /\ node = [t \in TxHash |-> "absent"]
    /\ sends = [t \in TxHash |-> 0]
    /\ faults = 0

Fault == faults < MaxFaults /\ faults' = faults + 1

WalletGoesTo(w, pc) == wallet' = [wallet EXCEPT ![w].pc = pc]

-----------------------------------------------------------------------------
(* Requests and replies (CellFlowClient.request) *)

PrepareRequest(w, t, kind) == [from |-> w, op |-> "prepare", tx |-> t, kind |-> kind]

\* Every later request of a handle names the intent and no transaction.
IntentRequest(w, op) == [from |-> w, op |-> op, tx |-> NoTx, kind |-> "INITIAL"]

\* The request a wallet waits for, if it waits for one.
Awaited(w) ==
    LET h == wallet[w] IN
    CASE h.pc = "preparing"  -> {PrepareRequest(w, h.tx, h.kind)}
      [] h.pc = "checking"   -> {IntentRequest(w, "preflight")}
      [] h.pc = "announcing" -> {IntentRequest(w, "broadcasting")}
      [] h.pc = "reporting"  -> {IntentRequest(w, Report[h.outcome])}
      [] OTHER -> {}

\* Where the wallet goes when the awaited call returns, or throws.  A failed
\* report is swallowed; a failed preflight or announcement ends the broadcast,
\* and the handle can be used again.
Returned(w) == [preparing |-> "prepared", checking |-> "announcing",
                announcing |-> "announced", reporting |-> "done"][wallet[w].pc]

\* Fault: the handle is returned although its hash could not be persisted.
FaultyUnpersisted(w) == [preparing |-> "prepared", checking |-> "prepared",
                         announcing |-> "prepared", reporting |-> "done"][wallet[w].pc]

\* Fault: the transaction is sent although its announcement was refused.
FaultyUnannounced(w) == [preparing |-> "idle", checking |-> "prepared",
                         announcing |-> "announced", reporting |-> "done"][wallet[w].pc]

Thrown(w) == [preparing |-> "idle", checking |-> "prepared",
              announcing |-> "prepared", reporting |-> "done"][wallet[w].pc]

\* The announcement follows the preflight without another wait.
FollowUp(w) ==
    IF wallet[w].pc = "checking" THEN {IntentRequest(w, "broadcasting")} ELSE {}

\* The answer to m reaches its wallet; one that nobody waits for is dropped.
\* left: the requests that are still under way.
Deliver(m, ok, left) ==
    IF m \in Awaited(m.from)
    THEN /\ WalletGoesTo(m.from, IF ok THEN Returned(m.from) ELSE Thrown(m.from))
         /\ net' = left \cup (IF ok THEN FollowUp(m.from) ELSE {})
    ELSE /\ net' = left
         /\ UNCHANGED wallet

Answer(m, ok) == Deliver(m, ok, net \ {m}) /\ UNCHANGED faults

\* The reply is lost and the client's transport retry sends m again.
LoseReply == UNCHANGED <<wallet, net, faults>>

\* The retry is answered while the first copy of m is still under way.
AnswerRetry(m, ok) == Fault /\ Deliver(m, ok, net)

Respond(m, ok) == Answer(m, ok) \/ LoseReply \/ AnswerRetry(m, ok)

-----------------------------------------------------------------------------
(* The API *)

\* The attempts after t was attached as PREPARED.
AttemptsAttached(t, kind) ==
    IF att[t].disp # "ABSENT" THEN [att EXCEPT ![t].sub = "PREPARED"]
    ELSE [u \in TxHash |->
            IF u = t THEN [disp |-> "ACTIVE", sub |-> "PREPARED"]
            ELSE IF u = exec.tx /\ kind # "RBF_REPLACEMENT"
            THEN [att[u] EXCEPT !.disp = PriorDisposition(exec)]
            ELSE att[u]]

\* POST prepare: attachTransaction
ServePrepare(m) ==
    /\ m.op = "prepare"
    /\ LET ok == AttachAllowed(exec, m.tx, "PREPARED", m.kind) IN
       /\ exec' = IF ok THEN Attached(exec, m.tx, "PREPARED") ELSE exec
       /\ att' = IF ok THEN AttemptsAttached(m.tx, m.kind) ELSE att
       /\ Respond(m, ok)
    /\ UNCHANGED <<node, sends>>

Rivals(t) == {u \in TxHash : SharesInput(t, u) /\ node[u] # "absent"}

\* POST preflight: the inputs of the tracked attempt, whichever handle asks;
\* there must be some.  They are not live while the tracked transaction itself is
\* in a pool.  An endpoint that lags behind the wallet's node may still find them so.
ServePreflight(m) ==
    /\ m.op = "preflight"
    /\ LET known == exec.tx # NoTx /\ InputsOf[exec.tx] # {}
           live == known /\ Rivals(exec.tx) = {} IN
       \/ Respond(m, live)
       \/ known /\ ~live /\ Fault /\ Deliver(m, TRUE, net \ {m})
    /\ UNCHANGED <<exec, att, node, sends>>

\* POST broadcasting, submitted, ambiguous, rejected: markSubmission
ServeMark(m) ==
    /\ m.op \in DOMAIN Marks
    /\ LET status == Marks[m.op]
           suspected == m.op = "conflicting"
           ok == MarkAllowed(exec, status, suspected) IN
       /\ exec' = IF ok THEN Marked(exec, status, suspected) ELSE exec
       /\ att' = IF ok
                 THEN [att EXCEPT ![exec.tx] =
                         [disp |-> IF status = "NODE_REJECTED" THEN "REJECTED" ELSE "ACTIVE",
                          sub |-> status]]
                 ELSE att
       /\ Respond(m, ok)
    /\ UNCHANGED <<node, sends>>

-----------------------------------------------------------------------------
(* The wallet *)

\* prepareTrackedTransaction; an unused or finished handle may be dropped.
Prepare(w, t, kind) ==
    /\ wallet[w].pc \in {"idle", "prepared", "done"}
    /\ wallet' = [wallet EXCEPT ![w] =
          [NoHandle EXCEPT !.pc = "preparing", !.tx = t, !.kind = kind]]
    /\ net' = net \cup {PrepareRequest(w, t, kind)}
    /\ UNCHANGED <<exec, att, node, sends, faults>>

\* broadcast(); nothing keeps a handle from being used again.
Broadcast(w) ==
    /\ wallet[w].pc \in {"prepared", "done"}
    /\ WalletGoesTo(w, "checking")
    /\ net' = net \cup {IntentRequest(w, "preflight")}
    /\ UNCHANGED <<exec, att, node, sends, faults>>

\* The node takes t into its pool and drops what t replaces.
Accepted(t) ==
    [u \in TxHash |-> IF u = t THEN "pool"
                      ELSE IF SharesInput(t, u) THEN "absent" ELSE node[u]]

Acceptable(t) == node[t] = "absent" /\ \A u \in Rivals(t) : node[u] # "mined"

\* What sendTransaction may end with and leave behind.  A hash the network has
\* already is accepted again, refused as a duplicate or, once mined, refused for
\* its dead inputs; a lost answer says nothing.
Sent(t, outcome, next) ==
    \/ outcome \in {"ACCEPTED", "AMBIGUOUS"} /\ Acceptable(t) /\ next = Accepted(t)
    \/ outcome \in {"REJECTED", "CONFLICTING", "AMBIGUOUS"} /\ node[t] = "absent" /\ next = node
    \/ node[t] # "absent" /\ next = node

Send(w, outcome) ==
    LET t == wallet[w].tx IN
    /\ wallet[w].pc = "announced"
    /\ sends[t] < MaxSends
    /\ sends' = [sends EXCEPT ![t] = @ + 1]
    /\ node' \in {node, Accepted(t)} /\ Sent(t, outcome, node')
    /\ wallet' = [wallet EXCEPT ![w] = [@ EXCEPT !.pc = "reporting", !.outcome = outcome]]
    /\ net' = net \cup {IntentRequest(w, Report[outcome])}
    /\ UNCHANGED <<exec, att, faults>>

\* The request is given up and may still be applied.
Timeout(w) ==
    /\ Awaited(w) # {}
    /\ Fault
    /\ WalletGoesTo(w, Thrown(w))
    /\ UNCHANGED <<exec, att, net, node, sends>>

\* The process dies; what it had sent is still under way.
Crash(w) ==
    /\ wallet[w].pc # "idle"
    /\ Fault
    /\ wallet' = [wallet EXCEPT ![w] = NoHandle]
    /\ UNCHANGED <<exec, att, net, node, sends>>

-----------------------------------------------------------------------------
(* The network and reconciliation *)

Mine(t) ==
    /\ node[t] = "pool"
    /\ node' = [node EXCEPT ![t] = "mined"]
    /\ UNCHANGED <<exec, att, wallet, net, sends, faults>>

Evict(t) ==
    /\ node[t] = "pool"
    /\ node' = [node EXCEPT ![t] = "absent"]
    /\ UNCHANGED <<exec, att, wallet, net, sends, faults>>

\* What an endpoint may say of t: UNKNOWN when it lags, REJECTED only of a hash
\* that some node refused or dropped.
Answers(t) ==
    CASE node[t] = "absent" /\ sends[t] = 0 -> {"UNKNOWN"}
      [] node[t] = "absent" /\ sends[t] > 0 -> {"UNKNOWN", "REJECTED"}
      [] node[t] = "pool" -> {"UNKNOWN", "PENDING"}
      [] node[t] = "mined" -> {"UNKNOWN", "COMMITTED"}

\* A spent input is only reported, and corroborated, when a rival is mined.
Consistent(t, o) ==
    /\ o.status \in Answers(t)
    /\ ~o.displaced /\ ~o.mismatch /\ o.verdict = "PENDING"
    /\ o.status = "UNKNOWN" => o.inspect # "NONE"
    /\ o.inspect = "CANONICALLY_SPENT" => \E u \in Rivals(t) \ {t} : node[u] = "mined"

Competing == {t \in TxHash \ {exec.tx} : att[t].disp = "ACTIVE"}

\* Fault: the workflow status is written as the disposition.
FaultyAttemptsSettled(t, a) == [att EXCEPT ![t] = [disp |-> exec'.wf, sub |-> a.sub]]

\* The attempts after the attempt of t was written; a confirmed one closes the
\* other candidates.
AttemptsSettled(t, a) ==
    [u \in TxHash |->
        IF u = t THEN a
        ELSE IF a.disp = "CONFIRMED" /\ att[u].disp = "ACTIVE"
        THEN [att[u] EXCEPT !.disp = "SUPERSEDED"] ELSE att[u]]

Reconcile(o) ==
    /\ exec.tx # NoTx /\ ~ObservationRefused(exec)
    /\ Consistent(exec.tx, o)
    /\ exec' = Reconciled(exec, o, Competing # {}, FALSE)
    /\ Storable(exec')
    /\ att' = AttemptsSettled(exec.tx, [disp |-> DispositionFor(exec'), sub |-> exec'.sub])
    /\ UNCHANGED <<wallet, net, node, sends, faults>>

\* promoteCommittedCompetingCandidate
PromoteCandidate(t, o) ==
    /\ t \in Competing
    /\ node[t] = "mined"
    /\ exec' = Promoted(t, att[t].sub, NoConflict, o)
    /\ Storable(exec')
    /\ att' = AttemptsSettled(t, [disp |-> DispositionFor(exec'), sub |-> exec'.sub])
    /\ UNCHANGED <<wallet, net, node, sends, faults>>

RejectCandidate(t) ==
    /\ t \in Competing
    /\ "REJECTED" \in Answers(t)
    /\ att' = [att EXCEPT ![t].disp = "REJECTED"]
    /\ UNCHANGED <<exec, wallet, net, node, sends, faults>>

-----------------------------------------------------------------------------
Serve(m) == ServePrepare(m) \/ ServePreflight(m) \/ ServeMark(m)

Next ==
    \/ \E m \in net : Serve(m)
    \/ \E w \in Wallet :
          \/ \E t \in TxHash, kind \in {"REBUILD", "RBF_REPLACEMENT"} : Prepare(w, t, kind)
          \/ Broadcast(w)
          \/ \E outcome \in Outcome : Send(w, outcome)
          \/ Timeout(w)
          \/ Crash(w)
    \/ \E t \in TxHash :
          \/ Mine(t)
          \/ Evict(t)
          \/ \E o \in PromotingObservations : PromoteCandidate(t, o)
          \/ RejectCandidate(t)
    \/ \E o \in Observations : Reconcile(o)

Spec == Init /\ [][Next]_vars

-----------------------------------------------------------------------------
(* Properties *)

\* Types of the row, the attempts, the wallets, the requests and the network.
TypeOK ==
    /\ exec \in Row
    /\ att \in [TxHash -> Attempt]
    /\ wallet \in [Wallet -> Handle]
    /\ net \subseteq Request
    /\ node \in [TxHash -> {"absent", "pool", "mined"}]
    /\ sends \in [TxHash -> 0 .. MaxSends]
    /\ faults \in 0 .. MaxFaults

\* A transaction the network may hold was persisted first, with its inputs
\* (prepareTrackedTransaction), whatever was retried, lost or given up.
KnownBeforeSent == \A t \in TxHash : sends[t] > 0 => att[t].disp # "ABSENT"

\* At most one wallet works for the intent, no two attempts share an input, and
\* no call was given up, overtaken by its own retry or answered by a lagging
\* endpoint.  Replies may be lost and calls applied any number of times.
Undisturbed ==
    /\ \A v, w \in Wallet : v = w
    /\ \A t, u \in TxHash : SharesInput(t, u) => t = u
    /\ faults = 0

Mined == {t \in TxHash : node[t] = "mined"}

\* An undisturbed intent is executed at most once, however often its handles are
\* used and its attempts are rejected, evicted and rebuilt: an attempt is only
\* replaced when it can no longer commit (attachTransaction).
ExecutedOnce == Undisturbed => Cardinality(Mined) <= 1

\* The same for every instance, as the comment of attachTransaction has it:
\* "Rebuild/manual attempts must not silently abandon a transaction that may
\* still commit".
AlwaysExecutedOnce == Cardinality(Mined) <= 1

\* A hash whose outcome is ambiguous, or which was accepted, is not sent again:
\* "it does not automatically rebroadcast" and a second broadcast() is refused.
AmbiguousIsNotResent ==
    [][\A t \in TxHash :
          sends'[t] # sends[t] /\ exec.tx = t /\ Undisturbed
          => exec.sub \notin {"SUBMISSION_UNKNOWN", "SUBMITTED"}]_vars

InFlight(t) == \E w \in Wallet : wallet[w].tx = t /\ wallet[w].pc \in {"announced", "reporting"}

\* The row of a transaction the network holds is scheduled for reconciliation
\* as soon as its handle is done with it, unless the row is terminal.
LiveIsScheduled ==
    /\ Undisturbed
    /\ exec.tx # NoTx /\ node[exec.tx] # "absent"
    /\ ~Terminal(exec) /\ ~InFlight(exec.tx)
    => exec.due

\* The network never holds a transaction the row does not track: replacing an
\* attempt, attaching an old one again and reports that are applied twice leave
\* none behind that could still commit (attachTransaction, markSubmission).
LiveIsTracked == Undisturbed => \A t \in TxHash \ {exec.tx} : node[t] = "absent"
=============================================================================
