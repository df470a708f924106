----------------------- MODULE WalletBroadcast_proofs -----------------------
(***************************************************************************)
(* What holds of the broadcasts of an intent, for every number of wallets, *)
(* attempts, sends and faults, and whatever the inputs of the attempts.    *)
(*                                                                         *)
(* That a sent hash has an attempt row is not inductive: the row must be   *)
(* there from the moment prepareTrackedTransaction returns, and no later   *)
(* write of any handle, wallet or pass may lose it.                        *)
(*                                                                         *)
(* While nothing disturbs the intent, the network holds no hash but the    *)
(* tracked one.  That is kept by the row: it must say that the hash may be *)
(* out, from the send until the report is applied, so the handle that is   *)
(* at work, the request that is under way and the row have to be in step.  *)
(***************************************************************************)
EXTENDS WalletBroadcast, ExecutionRow_proofs, FiniteSetTheorems

Persisted(t) == att[t].disp # "ABSENT"

\* A handle that prepareTrackedTransaction returned names a persisted hash.
HandleIsKnown(w) ==
    wallet[w].pc \notin {"idle", "preparing"} =>
        wallet[w].tx \in TxHash /\ Persisted(wallet[w].tx)

IInv ==
    /\ TypeOK
    /\ SoundRow(exec)
    /\ KnownBeforeSent
    /\ \A w \in Wallet : HandleIsKnown(w)

\* What a write of the API leaves of the attempts.
AttemptsKept ==
    /\ att' \in [TxHash -> Attempt]
    /\ \A t \in TxHash : Persisted(t) => Persisted(t)'

LEMMA InitIInv == Init => IInv
<1> SUFFICES ASSUME Init PROVE IInv
  OBVIOUS
<1>1. exec \in Row /\ SoundRow(exec)
  <2>1. exec = InitialRow(NoTx) /\ SoundRow(exec)
    BY InitialRowFacts DEF Init
  <2>2. Storable(exec)
    BY <2>1 DEF Storable, InitialRow, NoConflict, Conflict, StorableConflict
  <2>3. QED BY <2>1, <2>2, StorableRow DEF SoundRow
<1>2. att \in [TxHash -> Attempt]
  BY DEF Init, Attempt, SubmissionStatus
<1>3. wallet \in [Wallet -> Handle] /\ \A w \in Wallet : HandleIsKnown(w)
  BY DEF Init, Handle, NoHandle, AttemptKind, Outcome, HandleIsKnown
<1>4. sends \in [TxHash -> 0 .. MaxSends] /\ faults \in 0 .. MaxFaults /\ KnownBeforeSent
  BY WalletAssumption DEF Init, KnownBeforeSent
<1>5. QED BY <1>1, <1>2, <1>3, <1>4 DEF Init, IInv, TypeOK

-----------------------------------------------------------------------------
(* Replies *)

\* A wallet that moves on without a new hash keeps its handle's type.
LEMMA MovedHandle ==
    ASSUME TypeOK, NEW w \in Wallet,
           NEW pc \in {"idle", "preparing", "prepared", "checking", "announcing",
                       "announced", "reporting", "done"},
           WalletGoesTo(w, pc)
    PROVE  /\ wallet' \in [Wallet -> Handle]
           /\ wallet'[w].pc = pc /\ wallet'[w].tx = wallet[w].tx
           /\ \A v \in Wallet \ {w} : wallet'[v] = wallet[v]
BY DEF TypeOK, WalletGoesTo, Handle

\* A reply keeps every handle known, if the attempts are kept and an accepted
\* prepare request left its hash persisted.
LEMMA DeliverKeeps ==
    ASSUME IInv, NEW m \in net, NEW ok \in BOOLEAN,
           NEW left \in SUBSET net, Deliver(m, ok, left),
           AttemptsKept,
           m.op = "prepare" /\ ok => m.tx \in TxHash /\ Persisted(m.tx)'
    PROVE  /\ wallet' \in [Wallet -> Handle]
           /\ net' \subseteq Request
           /\ \A w \in Wallet : HandleIsKnown(w)'
<1> DEFINE w == m.from
           pc == IF ok THEN Returned(w) ELSE Thrown(w)
<1>1. m \in Request /\ w \in Wallet
  BY DEF IInv, TypeOK, Request
<1>2. CASE m \notin Awaited(w)
  <2>1. wallet' = wallet /\ net' \subseteq net
    BY <1>2 DEF Deliver
  <2>2. QED BY <2>1 DEF IInv, TypeOK, AttemptsKept, HandleIsKnown, Persisted
<1>3. CASE m \in Awaited(w)
  <2>1. wallet[w].pc \in {"preparing", "checking", "announcing", "reporting"}
    BY <1>1, <1>3 DEF Awaited
  <2>2. /\ pc \in {"idle", "prepared", "announcing", "announced", "done"}
        /\ pc = "idle" <=> wallet[w].pc = "preparing" /\ ~ok
    BY <2>1 DEF Returned, Thrown
  <2>3. WalletGoesTo(w, pc)
    BY <1>3 DEF Deliver
  <2>4. /\ wallet' \in [Wallet -> Handle]
        /\ wallet'[w].pc = pc /\ wallet'[w].tx = wallet[w].tx
        /\ \A v \in Wallet \ {w} : wallet'[v] = wallet[v]
    <3> HIDE DEF pc
    <3> QED BY <1>1, <2>2, <2>3, MovedHandle DEF IInv
  <2>5. wallet[w].pc = "preparing" => m.op = "prepare" /\ m.tx = wallet[w].tx
    BY <1>3 DEF Awaited, PrepareRequest
  <2>6. HandleIsKnown(w)'
    <3>1. CASE wallet[w].pc = "preparing" /\ ok
      BY <1>1, <2>4, <2>5, <3>1 DEF HandleIsKnown
    <3>2. CASE wallet[w].pc = "preparing" /\ ~ok
      BY <1>1, <2>2, <2>4, <3>2 DEF HandleIsKnown
    <3>3. CASE wallet[w].pc # "preparing"
      BY <1>1, <2>1, <2>4, <3>3 DEF HandleIsKnown, IInv, AttemptsKept, Persisted
    <3>4. QED BY <3>1, <3>2, <3>3
  <2>7. \A v \in Wallet \ {w} : HandleIsKnown(v)'
    BY <2>4 DEF HandleIsKnown, IInv, AttemptsKept, Persisted
  <2>8. net' \subseteq Request
    <3>1. FollowUp(w) \subseteq Request
      BY <1>1 DEF FollowUp, IntentRequest, Request, Marks
    <3>2. net' \subseteq left \cup FollowUp(w)
      BY <1>3 DEF Deliver
    <3>3. QED BY <3>1, <3>2 DEF IInv, TypeOK
  <2>9. QED BY <2>4, <2>6, <2>7, <2>8
<1>4. QED BY <1>2, <1>3

\* The same of a reply that may be lost.
LEMMA RespondKeeps ==
    ASSUME IInv, NEW m \in net, NEW ok \in BOOLEAN, Respond(m, ok),
           AttemptsKept,
           m.op = "prepare" /\ ok => m.tx \in TxHash /\ Persisted(m.tx)'
    PROVE  /\ wallet' \in [Wallet -> Handle]
           /\ net' \subseteq Request
           /\ \A w \in Wallet : HandleIsKnown(w)'
           /\ faults' \in 0 .. MaxFaults
<1>1. CASE Answer(m, ok)
  <2>1. net \ {m} \in SUBSET net
    OBVIOUS
  <2>2. QED BY <1>1, <2>1, DeliverKeeps DEF Answer, IInv, TypeOK
<1>2. CASE LoseReply
  BY <1>2 DEF LoseReply, IInv, TypeOK, AttemptsKept, HandleIsKnown, Persisted
<1>3. CASE AnswerRetry(m, ok)
  <2>1. faults' \in 0 .. MaxFaults
    BY <1>3, WalletAssumption DEF AnswerRetry, Fault, IInv, TypeOK
  <2>2. QED BY <1>3, <2>1, DeliverKeeps DEF AnswerRetry
<1>4. QED BY <1>1, <1>2, <1>3 DEF Respond

\* The invariant after a step that keeps the attempts and sends nothing.
LEMMA Reassembled ==
    ASSUME IInv, AttemptsKept, exec' \in Row, SoundRow(exec)',
           wallet' \in [Wallet -> Handle], net' \subseteq Request,
           \A w \in Wallet : HandleIsKnown(w)',
           node' \in [TxHash -> {"absent", "pool", "mined"}],
           sends' = sends, faults' \in 0 .. MaxFaults
    PROVE  IInv'
BY DEF IInv, TypeOK, KnownBeforeSent, AttemptsKept, Persisted

-----------------------------------------------------------------------------
(* The API *)

\* An accepted attachment keeps the attempts and persists its own hash.
LEMMA AttachKeeps ==
    ASSUME IInv, NEW t \in TxHash, NEW kind, AttachAllowed(exec, t, "PREPARED", kind),
           exec' = Attached(exec, t, "PREPARED"), att' = AttemptsAttached(t, kind)
    PROVE  exec' \in Row /\ SoundRow(exec)' /\ AttemptsKept /\ Persisted(t)'
<1>1. exec \in Row /\ SoundRow(exec) /\ att \in [TxHash -> Attempt]
  BY DEF IInv, TypeOK
<1>2. PICK next : next = Attached(exec, t, "PREPARED")
  OBVIOUS
<1>3. /\ SoundRow(next)
      /\ exec.tx = t => next.conflict = exec.conflict
      /\ exec.tx # t => next.conflict = NoConflict
  BY <1>1, <1>2, AttachedFacts
<1>4. next \in Row
  <2>1. Storable(next)
    BY <1>1, <1>3 DEF Row, Storable, NoConflict, Conflict, StorableConflict
  <2>2. QED BY <1>3, <2>1, StorableRow DEF SoundRow
<1>5. PriorDisposition(exec) \in Disposition
  BY DEF PriorDisposition, DispositionFor, Disposition
<1>6. att' \in [TxHash -> Attempt]
  BY <1>1, <1>5 DEF AttemptsAttached, Attempt, Disposition, SubmissionStatus
<1>7. \A u \in TxHash : Persisted(u) => Persisted(u)'
  BY <1>1, <1>5 DEF AttemptsAttached, Persisted, Attempt, Disposition
<1>8. Persisted(t)'
  BY <1>1 DEF AttemptsAttached, Persisted, Attempt
<1>9. QED BY <1>2, <1>3, <1>4, <1>6, <1>7, <1>8 DEF AttemptsKept

LEMMA PrepareServed ==
    ASSUME IInv, NEW m \in net, ServePrepare(m) PROVE IInv'
<1>1. PICK ok \in BOOLEAN : ok = AttachAllowed(exec, m.tx, "PREPARED", m.kind)
  BY DEF AttachAllowed
<1>2. /\ exec' = IF ok THEN Attached(exec, m.tx, "PREPARED") ELSE exec
      /\ att' = IF ok THEN AttemptsAttached(m.tx, m.kind) ELSE att
      /\ Respond(m, ok)
      /\ node' = node /\ sends' = sends
  BY <1>1 DEF ServePrepare
<1>3. m.tx \in TxHash
  BY DEF IInv, TypeOK, Request, ServePrepare, Marks
<1>4. /\ exec' \in Row /\ SoundRow(exec)' /\ AttemptsKept
      /\ ok => Persisted(m.tx)'
  <2>1. CASE ok
    BY <1>1, <1>2, <1>3, <2>1, AttachKeeps
  <2>2. CASE ~ok
    BY <1>2, <2>2 DEF IInv, TypeOK, AttemptsKept, Persisted
  <2>3. QED BY <2>1, <2>2
<1>5. /\ wallet' \in [Wallet -> Handle] /\ net' \subseteq Request
      /\ \A w \in Wallet : HandleIsKnown(w)'
      /\ faults' \in 0 .. MaxFaults
  BY <1>2, <1>3, <1>4, RespondKeeps
<1>6. QED BY <1>2, <1>4, <1>5, Reassembled DEF IInv, TypeOK

LEMMA PreflightServed ==
    ASSUME IInv, NEW m \in net, ServePreflight(m) PROVE IInv'
<1>1. AttemptsKept
  BY DEF ServePreflight, AttemptsKept, IInv, TypeOK, Persisted
<1>2. /\ exec' = exec /\ node' = node /\ sends' = sends /\ m.op # "prepare"
  BY DEF ServePreflight
<1>3. PICK live \in BOOLEAN :
        Respond(m, live) \/ (Fault /\ Deliver(m, TRUE, net \ {m}))
  BY DEF ServePreflight
<1>4. /\ wallet' \in [Wallet -> Handle] /\ net' \subseteq Request
      /\ \A w \in Wallet : HandleIsKnown(w)'
      /\ faults' \in 0 .. MaxFaults
  <2>1. CASE Respond(m, live)
    BY <1>1, <1>2, <2>1, RespondKeeps
  <2>2. CASE Fault /\ Deliver(m, TRUE, net \ {m})
    <3>1. faults' \in 0 .. MaxFaults
      BY <2>2, WalletAssumption DEF Fault, IInv, TypeOK
    <3>2. net \ {m} \in SUBSET net
      OBVIOUS
    <3>3. QED BY <1>1, <1>2, <2>2, <3>1, <3>2, DeliverKeeps
  <2>3. QED BY <1>3, <2>1, <2>2
<1>5. exec' \in Row /\ SoundRow(exec)' /\ node' \in [TxHash -> {"absent", "pool", "mined"}]
  BY <1>2 DEF IInv, TypeOK
<1>6. QED BY <1>1, <1>2, <1>4, <1>5, Reassembled

LEMMA MarkServed ==
    ASSUME IInv, NEW m \in net, ServeMark(m) PROVE IInv'
<1>0. PICK status : status = Marks[m.op]
  OBVIOUS
<1>1. PICK suspected \in BOOLEAN : suspected = (m.op = "conflicting")
  OBVIOUS
<1>2. PICK ok \in BOOLEAN : ok = MarkAllowed(exec, status, suspected)
  BY DEF MarkAllowed
<1>3. /\ exec' = IF ok THEN Marked(exec, status, suspected) ELSE exec
      /\ att' = IF ok
                THEN [att EXCEPT ![exec.tx] =
                        [disp |-> IF status = "NODE_REJECTED" THEN "REJECTED" ELSE "ACTIVE",
                         sub |-> status]]
                ELSE att
      /\ Respond(m, ok)
      /\ node' = node /\ sends' = sends /\ m.op # "prepare"
  BY <1>0, <1>1, <1>2 DEF ServeMark, Marks
<1>4. status \in SubmissionStatus
  BY <1>0 DEF ServeMark, Marks, SubmissionStatus
<1>5. exec \in Row /\ SoundRow(exec) /\ att \in [TxHash -> Attempt]
  BY DEF IInv, TypeOK
<1>6. exec' \in Row /\ SoundRow(exec)'
  <2>1. CASE ok
    <3>1. PICK next : next = Marked(exec, status, suspected)
      OBVIOUS
    <3>2. /\ SoundRow(next)
          /\ next.conflict = Conflict(IF suspected THEN "INPUT_CONFLICT_SUSPECTED"
                                      ELSE exec.conflict.type, NoSpend)
      BY <1>2, <1>4, <1>5, <2>1, <3>1, MarkedFacts
    <3>3. Storable(next)
      BY <1>5, <3>2 DEF Row, Storable, Conflict, StorableConflict
    <3>4. QED BY <1>3, <2>1, <3>1, <3>2, <3>3, StorableRow DEF SoundRow
  <2>2. CASE ~ok
    BY <1>3, <1>5, <2>2
  <2>3. QED BY <2>1, <2>2
<1>7. AttemptsKept
  <2>1. [disp |-> IF status = "NODE_REJECTED" THEN "REJECTED" ELSE "ACTIVE", sub |-> status]
          \in Attempt
    BY <1>4 DEF Attempt, Disposition
  <2>2. QED BY <1>3, <1>5, <2>1 DEF AttemptsKept, Persisted
<1>8. /\ wallet' \in [Wallet -> Handle] /\ net' \subseteq Request
      /\ \A w \in Wallet : HandleIsKnown(w)'
      /\ faults' \in 0 .. MaxFaults
  BY <1>3, <1>7, RespondKeeps
<1>9. QED BY <1>3, <1>6, <1>7, <1>8, Reassembled DEF IInv, TypeOK

-----------------------------------------------------------------------------
(* The wallet *)

LEMMA PrepareKeeps ==
    ASSUME IInv, NEW w \in Wallet, NEW t \in TxHash,
           NEW kind \in {"REBUILD", "RBF_REPLACEMENT"}, Prepare(w, t, kind)
    PROVE  IInv'
<1>1. /\ wallet' \in [Wallet -> Handle]
      /\ \A v \in Wallet : HandleIsKnown(v)'
  BY DEF Prepare, IInv, TypeOK, HandleIsKnown, Persisted, Handle, NoHandle, AttemptKind, Outcome
<1>2. net' \subseteq Request
  BY DEF Prepare, PrepareRequest, Request, AttemptKind, IInv, TypeOK
<1>3. QED BY <1>1, <1>2, Reassembled DEF Prepare, IInv, TypeOK, AttemptsKept, Persisted

LEMMA BroadcastKeeps ==
    ASSUME IInv, NEW w \in Wallet, Broadcast(w) PROVE IInv'
<1>1. /\ wallet' \in [Wallet -> Handle]
      /\ \A v \in Wallet : HandleIsKnown(v)'
  BY MovedHandle DEF Broadcast, IInv, HandleIsKnown, Persisted
<1>2. net' \subseteq Request
  BY DEF Broadcast, IntentRequest, Request, Marks, IInv, TypeOK
<1>3. QED BY <1>1, <1>2, Reassembled DEF Broadcast, IInv, TypeOK, AttemptsKept, Persisted

LEMMA SendKeeps ==
    ASSUME IInv, NEW w \in Wallet, NEW outcome \in Outcome, Send(w, outcome) PROVE IInv'
<1> DEFINE t == wallet[w].tx
<1>1. t \in TxHash /\ Persisted(t)
  BY DEF Send, IInv, HandleIsKnown
<1>2. wallet[w] \in Handle
  BY DEF IInv, TypeOK
<1>3. /\ wallet' \in [Wallet -> Handle]
      /\ \A v \in Wallet : wallet'[v].tx = wallet[v].tx
      /\ \A v \in Wallet \ {w} : wallet'[v] = wallet[v]
  BY <1>2 DEF Send, IInv, TypeOK, Handle
<1>4. \A v \in Wallet : HandleIsKnown(v)'
  BY <1>1, <1>3 DEF Send, IInv, HandleIsKnown, Persisted
<1>5. /\ sends' \in [TxHash -> 0 .. MaxSends]
      /\ \A u \in TxHash : u # t => sends'[u] = sends[u]
  BY <1>1, WalletAssumption DEF Send, IInv, TypeOK
<1>6. KnownBeforeSent'
  BY <1>1, <1>5 DEF Send, IInv, KnownBeforeSent, Persisted
<1>7. node' \in [TxHash -> {"absent", "pool", "mined"}]
  BY DEF Send, Accepted, IInv, TypeOK
<1>8. net' \subseteq Request
  BY DEF Send, IntentRequest, Request, Report, Outcome, Marks, IInv, TypeOK
<1>9. QED BY <1>3, <1>4, <1>5, <1>6, <1>7, <1>8 DEF Send, IInv, TypeOK

LEMMA TimeoutKeeps ==
    ASSUME IInv, NEW w \in Wallet, Timeout(w) PROVE IInv'
<1>1. wallet[w].pc \in {"preparing", "checking", "announcing", "reporting"}
  BY DEF Timeout, Awaited
<1>2. PICK pc : pc = Thrown(w)
  OBVIOUS
<1>3. /\ pc \in {"idle", "prepared", "done"}
      /\ pc = "idle" <=> wallet[w].pc = "preparing"
  BY <1>1, <1>2 DEF Thrown
<1>4. WalletGoesTo(w, pc)
  BY <1>2 DEF Timeout
<1>5. /\ wallet' \in [Wallet -> Handle]
      /\ wallet'[w].pc = pc /\ wallet'[w].tx = wallet[w].tx
      /\ \A v \in Wallet \ {w} : wallet'[v] = wallet[v]
  BY <1>3, <1>4, MovedHandle DEF IInv
<1>6. \A v \in Wallet : HandleIsKnown(v)'
  BY <1>1, <1>3, <1>5 DEF Timeout, IInv, HandleIsKnown, Persisted
<1>7. faults' \in 0 .. MaxFaults
  BY WalletAssumption DEF Timeout, Fault, IInv, TypeOK
<1>8. QED BY <1>5, <1>6, <1>7, Reassembled DEF Timeout, IInv, TypeOK, AttemptsKept, Persisted

LEMMA CrashKeeps ==
    ASSUME IInv, NEW w \in Wallet, Crash(w) PROVE IInv'
<1>1. /\ wallet' \in [Wallet -> Handle]
      /\ \A v \in Wallet : HandleIsKnown(v)'
  BY DEF Crash, IInv, TypeOK, HandleIsKnown, Persisted, Handle, NoHandle, AttemptKind, Outcome
<1>2. faults' \in 0 .. MaxFaults
  BY WalletAssumption DEF Crash, Fault, IInv, TypeOK
<1>3. QED BY <1>1, <1>2, Reassembled DEF Crash, IInv, TypeOK, AttemptsKept, Persisted

-----------------------------------------------------------------------------
(* The network and reconciliation *)

LEMMA NetworkKeeps ==
    ASSUME IInv, NEW t \in TxHash, Mine(t) \/ Evict(t) PROVE IInv'
<1>1. /\ node' \in [TxHash -> {"absent", "pool", "mined"}]
      /\ UNCHANGED <<exec, att, wallet, net, sends, faults>>
  BY DEF Mine, Evict, IInv, TypeOK
<1>2. QED BY <1>1 DEF IInv, TypeOK, KnownBeforeSent, HandleIsKnown, Persisted

\* Settling one attempt keeps the others persisted.
LEMMA SettledKeeps ==
    ASSUME IInv, NEW t, NEW disp \in Disposition, NEW sub \in SubmissionStatus,
           att' = AttemptsSettled(t, [disp |-> disp, sub |-> sub])
    PROVE  AttemptsKept
BY DEF AttemptsKept, AttemptsSettled, IInv, TypeOK, Persisted, Attempt, Disposition

LEMMA SettledDisposition == ASSUME NEW row PROVE DispositionFor(row) \in Disposition
BY DEF DispositionFor, Disposition

LEMMA PassKeeps ==
    ASSUME IInv, NEW o \in Observations, Reconcile(o) PROVE IInv'
<1>1. PICK competing \in BOOLEAN : competing = (Competing # {})
  OBVIOUS
<1>2. exec' = Reconciled(exec, o, competing, FALSE) /\ Storable(exec')
  BY <1>1 DEF Reconcile
<1>3. exec' \in Row /\ SoundRow(exec')
  <2>1. SoundRow(exec')
    BY <1>2, ReconciledFacts DEF IInv
  <2>2. QED BY <1>2, <2>1, StorableRow DEF SoundRow
<1>4. AttemptsKept
  <2>1. exec'.sub \in SubmissionStatus
    BY <1>3 DEF Row
  <2>2. PICK disp \in Disposition : disp = DispositionFor(exec')
    BY SettledDisposition
  <2>3. att' = AttemptsSettled(exec.tx, [disp |-> disp, sub |-> exec'.sub])
    BY <2>2 DEF Reconcile
  <2>4. QED BY <2>1, <2>3, SettledKeeps
<1>5. QED BY <1>3, <1>4, Reassembled
          DEF Reconcile, IInv, TypeOK, AttemptsKept, HandleIsKnown, Persisted

LEMMA PromotionKeeps ==
    ASSUME IInv, NEW t \in TxHash, NEW o \in PromotingObservations, PromoteCandidate(t, o)
    PROVE  IInv'
<1>1. exec' = Promoted(t, att[t].sub, NoConflict, o) /\ Storable(exec')
  BY DEF PromoteCandidate
<1>2. NoConflict \in Conflicts /\ att[t].sub \in SubmissionStatus
  BY PlainConflict DEF NoConflict, ConflictType, IInv, TypeOK, Attempt
<1>3. exec' \in Row /\ SoundRow(exec')
  <2>1. SoundRow(exec')
    BY <1>1, <1>2, PromotedFacts
  <2>2. QED BY <1>1, <2>1, StorableRow DEF SoundRow
<1>4. AttemptsKept
  <2>1. exec'.sub \in SubmissionStatus
    BY <1>3 DEF Row
  <2>2. PICK disp \in Disposition : disp = DispositionFor(exec')
    BY SettledDisposition
  <2>3. att' = AttemptsSettled(t, [disp |-> disp, sub |-> exec'.sub])
    BY <2>2 DEF PromoteCandidate
  <2>4. QED BY <2>1, <2>3, SettledKeeps
<1>5. QED BY <1>3, <1>4, Reassembled
          DEF PromoteCandidate, IInv, TypeOK, AttemptsKept, HandleIsKnown, Persisted

LEMMA RejectionKeeps ==
    ASSUME IInv, NEW t \in TxHash, RejectCandidate(t) PROVE IInv'
<1>1. AttemptsKept
  BY DEF RejectCandidate, AttemptsKept, IInv, TypeOK, Persisted, Attempt, Disposition
<1>2. QED BY <1>1, Reassembled
          DEF RejectCandidate, IInv, TypeOK, AttemptsKept, HandleIsKnown, Persisted

-----------------------------------------------------------------------------
LEMMA StepKeeps == ASSUME IInv, [Next]_vars PROVE IInv'
<1>1. CASE \E m \in net : Serve(m)
  BY <1>1, PrepareServed, PreflightServed, MarkServed DEF Serve
<1>2. CASE \E w \in Wallet :
             \/ \E t \in TxHash, kind \in {"REBUILD", "RBF_REPLACEMENT"} : Prepare(w, t, kind)
             \/ Broadcast(w)
             \/ \E outcome \in Outcome : Send(w, outcome)
             \/ Timeout(w)
             \/ Crash(w)
  BY <1>2, PrepareKeeps, BroadcastKeeps, SendKeeps, TimeoutKeeps, CrashKeeps
<1>3. CASE \E t \in TxHash :
             \/ Mine(t)
             \/ Evict(t)
             \/ \E o \in PromotingObservations : PromoteCandidate(t, o)
             \/ RejectCandidate(t)
  BY <1>3, NetworkKeeps, PromotionKeeps, RejectionKeeps
<1>4. CASE \E o \in Observations : Reconcile(o)
  BY <1>4, PassKeeps
<1>5. CASE UNCHANGED vars
  BY <1>5 DEF vars, IInv, TypeOK, SoundRow, Evidenced, VerdictMatches, SettledRow,
              PolledRow, Terminal, KnownBeforeSent, HandleIsKnown, Persisted
<1>6. QED BY <1>1, <1>2, <1>3, <1>4, <1>5 DEF Next

\* The inductive invariant holds in every reachable state.
THEOREM Invariance == Spec => []IInv
<1>1. QED BY InitIInv, StepKeeps, PTL DEF Spec

\* Rows, handles and requests keep their types.
THEOREM TypeCorrect == Spec => []TypeOK
<1>1. IInv => TypeOK
  BY DEF IInv
<1>2. QED BY <1>1, Invariance, PTL

\* Nothing is sent that is not persisted, whatever is lost, repeated or given up.
THEOREM SentIsKnown == Spec => []KnownBeforeSent
<1>1. IInv => KnownBeforeSent
  BY DEF IInv
<1>2. QED BY <1>1, Invariance, PTL

-----------------------------------------------------------------------------
(* One wallet, undisturbed *)

\* Submission statuses that say a transaction may be in the network.
Outstanding == {"BROADCASTING", "SUBMISSION_UNKNOWN", "SUBMITTED"}

\* What the network holds is the tracked hash, and the row says so.
LiveIsOutstanding ==
    \A t \in TxHash : node[t] # "absent" => t = exec.tx /\ exec.sub \in Outstanding

\* Nothing is under way but the request that the wallet waits for.
OnlyAwaited == \A w \in Wallet : net = Awaited(w)

\* The handle in use is the tracked one.  From a passed preflight to the send the
\* network does not hold the hash, so the outcome that is reported is the first
\* one since, and the row has not advanced beyond it.
HandleInStep(w) ==
    LET h == wallet[w] IN
    /\ h.pc \notin {"idle", "preparing"} => h.tx = exec.tx
    /\ h.pc \in {"announcing", "announced"} => node[exec.tx] = "absent"
    /\ h.pc = "announced" => exec.sub = "BROADCASTING"
    /\ h.pc = "reporting" =>
        CASE h.outcome = "ACCEPTED" -> exec.sub # "NODE_REJECTED"
          [] h.outcome = "AMBIGUOUS" -> exec.sub \in {"BROADCASTING", "SUBMISSION_UNKNOWN"}
          [] OTHER -> node[exec.tx] = "absent"

\* The row is scheduled whenever nobody else will speak for the transaction.
Scheduling ==
    \A t \in TxHash :
        node[t] # "absent" /\ ~Terminal(exec) /\ ~InFlight(t) => exec.due

Calm ==
    /\ LiveIsOutstanding
    /\ OnlyAwaited
    /\ \A w \in Wallet : HandleInStep(w)
    /\ Scheduling

QInv == Undisturbed => Calm

LEMMA InitCalm == Init => Calm
BY WalletAssumption
   DEF Init, Calm, LiveIsOutstanding, OnlyAwaited, HandleInStep, Scheduling, Awaited, NoHandle

\* Disturbances are counted, and counted for good.
LEMMA QuietBefore ==
    ASSUME TypeOK, [Next]_vars, Undisturbed'
    PROVE  Undisturbed /\ faults' = faults
<1>1. faults' = faults \/ faults' = faults + 1
  <2>1. CASE \E m \in net : Serve(m)
    BY <2>1 DEF Serve, ServePrepare, ServePreflight, ServeMark, Respond, Answer, LoseReply,
                AnswerRetry, Fault
  <2>2. CASE \E w \in Wallet :
               \/ \E t \in TxHash, kind \in {"REBUILD", "RBF_REPLACEMENT"} : Prepare(w, t, kind)
               \/ Broadcast(w)
               \/ \E outcome \in Outcome : Send(w, outcome)
               \/ Timeout(w)
               \/ Crash(w)
    BY <2>2 DEF Prepare, Broadcast, Send, Timeout, Crash, Fault
  <2>3. CASE \/ \E t \in TxHash :
                   \/ Mine(t)
                   \/ Evict(t)
                   \/ \E o \in PromotingObservations : PromoteCandidate(t, o)
                   \/ RejectCandidate(t)
             \/ \E o \in Observations : Reconcile(o)
             \/ UNCHANGED vars
    BY <2>3 DEF Mine, Evict, PromoteCandidate, RejectCandidate, Reconcile, vars
  <2>4. QED BY <2>1, <2>2, <2>3 DEF Next
<1>2. faults \in Nat /\ faults' = 0
  BY WalletAssumption DEF TypeOK, Undisturbed
<1>3. QED BY <1>1, <1>2 DEF Undisturbed

\* The request a wallet waits for tells where the wallet is.
LEMMA AwaitedRequest ==
    ASSUME NEW w \in Wallet, wallet[w] \in Handle, NEW m \in Awaited(w)
    PROVE  /\ m.from = w /\ Awaited(w) = {m}
           /\ \/ wallet[w].pc = "preparing" /\ m.op = "prepare" /\ m.tx = wallet[w].tx
                 /\ m = PrepareRequest(w, wallet[w].tx, wallet[w].kind)
              \/ wallet[w].pc = "checking" /\ m.op = "preflight"
              \/ wallet[w].pc = "announcing" /\ m.op = "broadcasting"
              \/ wallet[w].pc = "reporting" /\ m.op = Report[wallet[w].outcome]
BY DEF Awaited, PrepareRequest, IntentRequest, Handle

\* The only request under way is answered, or stays under way.
LEMMA AnsweredCalmly ==
    ASSUME IInv, Undisturbed, Undisturbed', OnlyAwaited,
           NEW m \in net, NEW ok \in BOOLEAN, Respond(m, ok)
    PROVE  /\ m.from \in Wallet /\ \A v \in Wallet : v = m.from
           /\ m \in Awaited(m.from)
           /\ OnlyAwaited'
           /\ \/ wallet' = wallet
              \/ wallet' = [wallet EXCEPT ![m.from].pc =
                              IF ok THEN Returned(m.from) ELSE Thrown(m.from)]
<1> DEFINE w == m.from
<1>1. w \in Wallet /\ \A v \in Wallet : v = w
  BY DEF IInv, TypeOK, Request, Undisturbed
<1>2. m \in Awaited(w) /\ net = Awaited(w) /\ wallet[w] \in Handle
  BY <1>1 DEF OnlyAwaited, IInv, TypeOK
<1>3. net = {m}
  BY <1>1, <1>2, AwaitedRequest
<1>4. ~Fault
  BY WalletAssumption DEF Fault, Undisturbed, IInv, TypeOK
<1>5. CASE LoseReply
  <2>1. wallet' = wallet /\ net' = net
    BY <1>5 DEF LoseReply
  <2>2. OnlyAwaited'
    BY <2>1 DEF OnlyAwaited, Awaited
  <2>3. QED BY <1>1, <1>2, <2>1, <2>2
<1>6. CASE Answer(m, ok)
  <2> DEFINE pc == IF ok THEN Returned(w) ELSE Thrown(w)
  <2>1. /\ wallet' = [wallet EXCEPT ![w].pc = pc]
        /\ net' = (net \ {m}) \cup (IF ok THEN FollowUp(w) ELSE {})
    BY <1>2, <1>6 DEF Answer, Deliver, WalletGoesTo
  <2>2. net' = IF ok /\ wallet[w].pc = "checking"
               THEN {IntentRequest(w, "broadcasting")} ELSE {}
    BY <1>3, <2>1 DEF FollowUp
  <2>3. wallet[w].pc \in {"preparing", "checking", "announcing", "reporting"}
    BY <1>2 DEF Awaited
  <2>4. /\ pc \in {"idle", "prepared", "announcing", "announced", "done"}
        /\ pc = "announcing" <=> ok /\ wallet[w].pc = "checking"
    BY <2>3 DEF Returned, Thrown
  <2>5. wallet'[w].pc = pc
    BY <1>1, <2>1 DEF IInv, TypeOK, Handle
  <2> HIDE DEF pc
  <2>6. Awaited(w)' = IF pc = "announcing" THEN {IntentRequest(w, "broadcasting")} ELSE {}
    BY <2>4, <2>5 DEF Awaited
  <2>7. OnlyAwaited'
    BY <1>1, <2>2, <2>4, <2>6 DEF OnlyAwaited
  <2>8. QED BY <1>1, <1>2, <2>1, <2>7 DEF pc
<1>7. QED BY <1>4, <1>5, <1>6 DEF Respond, AnswerRetry

-----------------------------------------------------------------------------
(* Undisturbed steps of the API *)

\* Only what was never announced may be attached again.
LEMMA ReattachedIsUnsent ==
    ASSUME NEW row, row.sub \in SubmissionStatus, SubmissionAllowed(row, "PREPARED")
    PROVE  row.sub \notin Outstanding
BY DEF SubmissionAllowed, SubmissionRank, SubmissionStatus, Outstanding

\* A transaction the network holds is not replaced: its row counts as potentially
\* live, and a replacement by fee would share its input.
LEMMA AttachedWhenNothingLive ==
    ASSUME IInv, Undisturbed, LiveIsOutstanding, NEW t \in TxHash, NEW kind,
           AttachAllowed(exec, t, "PREPARED", kind)
    PROVE  \A u \in TxHash : node[u] = "absent"
<1> SUFFICES ASSUME NEW u \in TxHash, node[u] # "absent" PROVE FALSE
  OBVIOUS
<1>1. u = exec.tx /\ exec.sub \in Outstanding
  BY DEF LiveIsOutstanding
<1>2. exec.sub \in SubmissionStatus /\ exec.tx # NoTx
  BY <1>1, TxAssumption DEF IInv, TypeOK, Row
<1>3. CASE exec.tx = t
  BY <1>1, <1>2, <1>3, ReattachedIsUnsent DEF AttachAllowed, Replaces
<1>4. CASE exec.tx # t
  <2>1. PotentiallyLive(exec)
    BY <1>1 DEF PotentiallyLive, Outstanding
  <2>2. SharesInput(exec.tx, t)
    BY <1>2, <1>4, <2>1 DEF AttachAllowed, Replaces
  <2>3. QED BY <1>1, <1>4, <2>2 DEF Undisturbed
<1>5. QED BY <1>3, <1>4

LEMMA PrepareServedCalmly ==
    ASSUME IInv, Undisturbed, Undisturbed', Calm, NEW m \in net, ServePrepare(m)
    PROVE  Calm'
<1> DEFINE w == m.from
<1>1. PICK ok \in BOOLEAN : ok = AttachAllowed(exec, m.tx, "PREPARED", m.kind)
  BY DEF AttachAllowed
<1>2. /\ exec' = IF ok THEN Attached(exec, m.tx, "PREPARED") ELSE exec
      /\ Respond(m, ok)
      /\ node' = node
      /\ m.op = "prepare"
  BY <1>1 DEF ServePrepare
<1>3. m.tx \in TxHash
  BY <1>2 DEF IInv, TypeOK, Request, Marks
<1>4. /\ w \in Wallet /\ \A v \in Wallet : v = w
      /\ m \in Awaited(w)
      /\ OnlyAwaited'
      /\ \/ wallet' = wallet
         \/ wallet' = [wallet EXCEPT ![w].pc = IF ok THEN Returned(w) ELSE Thrown(w)]
  BY <1>2, AnsweredCalmly DEF Calm
<1>5. /\ wallet[w] \in Handle
      /\ wallet[w].pc = "preparing" /\ m.tx = wallet[w].tx
  <2>1. wallet[w] \in Handle
    BY <1>4 DEF IInv, TypeOK
  <2>2. Report[wallet[w].outcome] # "prepare"
    BY <2>1 DEF Report, Handle, Outcome
  <2>3. QED BY <1>2, <1>4, <2>1, <2>2, AwaitedRequest
<1>6. /\ wallet'[w].tx = wallet[w].tx
      /\ wallet'[w].pc \in {"preparing", IF ok THEN "prepared" ELSE "idle"}
  <2>1. CASE wallet' = wallet
    BY <1>5, <2>1
  <2>2. CASE wallet' = [wallet EXCEPT ![w].pc = IF ok THEN Returned(w) ELSE Thrown(w)]
    BY <1>4, <1>5, <2>2 DEF Returned, Thrown, IInv, TypeOK, Handle
  <2>3. QED BY <1>4, <2>1, <2>2
<1>7. CASE ok
  <2>1. exec'.tx = m.tx
    BY <1>1, <1>2, <1>3, <1>7, AttachedFacts DEF IInv
  <2>2. \A t \in TxHash : node[t] = "absent"
    BY <1>1, <1>3, <1>7, AttachedWhenNothingLive DEF Calm
  <2>3. \A v \in Wallet : HandleInStep(v)'
    BY <1>4, <1>5, <1>6, <1>7, <2>1 DEF HandleInStep
  <2>4. QED BY <1>2, <1>4, <2>2, <2>3 DEF Calm, LiveIsOutstanding, Scheduling
<1>8. CASE ~ok
  <2>1. exec' = exec
    BY <1>2, <1>8
  <2>2. \A v \in Wallet : HandleInStep(v)'
    BY <1>4, <1>6, <1>8 DEF HandleInStep
  <2>3. LiveIsOutstanding'
    BY <1>2, <2>1 DEF Calm, LiveIsOutstanding
  <2>4. Scheduling'
    BY <1>2, <1>4, <1>5, <2>1 DEF Calm, Scheduling, InFlight, Terminal
  <2>5. QED BY <1>4, <2>2, <2>3, <2>4 DEF Calm
<1>9. QED BY <1>7, <1>8

LEMMA PreflightServedCalmly ==
    ASSUME IInv, Undisturbed, Undisturbed', Calm, NEW m \in net, ServePreflight(m)
    PROVE  Calm'
<1> DEFINE w == m.from
<1>1. PICK live \in BOOLEAN :
        live = (exec.tx # NoTx /\ InputsOf[exec.tx] # {} /\ Rivals(exec.tx) = {})
  OBVIOUS
<1>2. /\ Respond(m, live)
      /\ exec' = exec /\ node' = node
      /\ m.op = "preflight"
  <2>1. ~Fault
    BY WalletAssumption DEF Fault, Undisturbed, IInv, TypeOK
  <2>2. QED BY <1>1, <2>1 DEF ServePreflight
<1>3. /\ w \in Wallet /\ \A v \in Wallet : v = w
      /\ m \in Awaited(w)
      /\ OnlyAwaited'
      /\ \/ wallet' = wallet
         \/ wallet' = [wallet EXCEPT ![w].pc = IF live THEN Returned(w) ELSE Thrown(w)]
  BY <1>2, AnsweredCalmly DEF Calm
<1>4. wallet[w] \in Handle /\ wallet[w].pc = "checking"
  <2>1. wallet[w] \in Handle
    BY <1>3 DEF IInv, TypeOK
  <2>2. Report[wallet[w].outcome] # "preflight"
    BY <2>1 DEF Report, Handle, Outcome
  <2>3. QED BY <1>2, <1>3, <2>1, <2>2, AwaitedRequest
<1>5. /\ wallet'[w].tx = wallet[w].tx
      /\ wallet'[w].pc \in {"checking", IF live THEN "announcing" ELSE "prepared"}
  <2>1. CASE wallet' = wallet
    BY <1>4, <2>1
  <2>2. CASE wallet' = [wallet EXCEPT ![w].pc = IF live THEN Returned(w) ELSE Thrown(w)]
    BY <1>3, <1>4, <2>2 DEF Returned, Thrown, IInv, TypeOK, Handle
  <2>3. QED BY <1>3, <2>1, <2>2
<1>6. live => node[exec.tx] = "absent"
  <2> SUFFICES ASSUME live PROVE node[exec.tx] = "absent"
    OBVIOUS
  <2>1. exec.tx \in TxHash
    BY <1>1 DEF IInv, TypeOK, Row
  <2>2. SharesInput(exec.tx, exec.tx)
    BY <1>1 DEF SharesInput
  <2>3. QED BY <1>1, <2>1, <2>2 DEF Rivals
<1>7. \A v \in Wallet : HandleInStep(v)'
  BY <1>2, <1>3, <1>4, <1>5, <1>6 DEF HandleInStep, Calm
<1>8. LiveIsOutstanding' /\ Scheduling'
  BY <1>2, <1>3, <1>4 DEF Calm, LiveIsOutstanding, Scheduling, InFlight, Terminal
<1>9. QED BY <1>3, <1>7, <1>8 DEF Calm

\* A report that the network may hold the transaction is only refused for a
\* terminal row.
LEMMA ReportIsRecorded ==
    ASSUME exec \in Row, exec.tx # NoTx, ~Terminal(exec), exec.sub # "NODE_REJECTED",
           NEW status \in {"SUBMITTED", "SUBMISSION_UNKNOWN"},
           status = "SUBMISSION_UNKNOWN" => exec.sub \in {"BROADCASTING", "SUBMISSION_UNKNOWN"}
    PROVE  MarkAllowed(exec, status, FALSE)
<1>1. exec.sub \in SubmissionStatus
  BY DEF Row
<1>2. exec.wf \notin {"CONFLICTED", "EXPIRED"} /\ exec.chain # "REJECTED"
  BY DEF Terminal
<1>3. SubmissionRank[exec.sub] <= SubmissionRank[status]
  BY <1>1 DEF SubmissionRank, SubmissionStatus
<1>4. QED BY <1>1, <1>2, <1>3 DEF MarkAllowed, SubmissionAllowed

LEMMA MarkServedCalmly ==
    ASSUME IInv, Undisturbed, Undisturbed', Calm, NEW m \in net, ServeMark(m)
    PROVE  Calm'
<1> DEFINE w == m.from
           outcome == wallet[w].outcome
<1>1. PICK status : status = Marks[m.op]
  OBVIOUS
<1>2. PICK suspected \in BOOLEAN : suspected = (m.op = "conflicting")
  OBVIOUS
<1>3. PICK ok \in BOOLEAN : ok = MarkAllowed(exec, status, suspected)
  BY DEF MarkAllowed
<1>4. /\ exec' = IF ok THEN Marked(exec, status, suspected) ELSE exec
      /\ Respond(m, ok)
      /\ node' = node
      /\ m.op \in DOMAIN Marks
  BY <1>1, <1>2, <1>3 DEF ServeMark
<1>5. /\ w \in Wallet /\ \A v \in Wallet : v = w
      /\ m \in Awaited(w)
      /\ OnlyAwaited'
      /\ \/ wallet' = wallet
         \/ wallet' = [wallet EXCEPT ![w].pc = IF ok THEN Returned(w) ELSE Thrown(w)]
  BY <1>4, AnsweredCalmly DEF Calm
<1>6. wallet[w] \in Handle /\ exec \in Row
  BY <1>5 DEF IInv, TypeOK
<1>7. \/ wallet[w].pc = "announcing" /\ m.op = "broadcasting"
      \/ wallet[w].pc = "reporting" /\ m.op = Report[outcome]
  BY <1>4, <1>5, <1>6, AwaitedRequest DEF Marks
<1>8. wallet[w].tx = exec.tx /\ exec.tx \in TxHash
  BY <1>5, <1>7 DEF Calm, HandleInStep, IInv, HandleIsKnown
<1>9. /\ wallet'[w].tx = wallet[w].tx /\ wallet'[w].outcome = outcome
      /\ wallet[w].pc = "announcing" =>
            wallet'[w].pc \in {"announcing", IF ok THEN "announced" ELSE "prepared"}
      /\ wallet[w].pc = "reporting" => wallet'[w].pc \in {"reporting", "done"}
  <2>1. CASE wallet' = wallet
    BY <1>7, <2>1
  <2>2. CASE wallet' = [wallet EXCEPT ![w].pc = IF ok THEN Returned(w) ELSE Thrown(w)]
    BY <1>5, <1>6, <1>7, <2>2 DEF Returned, Thrown, IInv, TypeOK, Handle
  <2>3. QED BY <1>5, <2>1, <2>2
<1>10. /\ exec'.tx = exec.tx
       /\ ok => /\ exec'.sub = status
                /\ status \in {"SUBMITTED", "SUBMISSION_UNKNOWN"} => exec'.due
  BY <1>4, <1>6 DEF Marked, Row
<1>11. CASE \A t \in TxHash : node[t] = "absent"
  <2>1. LiveIsOutstanding' /\ Scheduling'
    BY <1>4, <1>11 DEF LiveIsOutstanding, Scheduling
  <2>2. HandleInStep(w)'
    <3>1. CASE wallet[w].pc = "announcing"
      <4>1. status = "BROADCASTING"
        BY <1>1, <1>7, <3>1 DEF Marks
      <4>2. QED BY <1>4, <1>8, <1>9, <1>10, <1>11, <3>1, <4>1 DEF HandleInStep
    <3>2. CASE wallet[w].pc = "reporting"
      <4>1. /\ outcome = "ACCEPTED" => status = "SUBMITTED"
            /\ outcome = "AMBIGUOUS" => status = "SUBMISSION_UNKNOWN"
        BY <1>1, <1>7, <3>2 DEF Marks, Report
      <4>2. CASE ok
        BY <1>4, <1>8, <1>9, <1>10, <1>11, <3>2, <4>1, <4>2 DEF HandleInStep
      <4>3. CASE ~ok
        BY <1>4, <1>5, <1>8, <1>9, <1>11, <3>2, <4>3 DEF HandleInStep, Calm
      <4>4. QED BY <4>2, <4>3
    <3>3. QED BY <1>7, <3>1, <3>2
  <2>3. QED BY <1>5, <2>1, <2>2 DEF Calm
<1>12. CASE ~\A t \in TxHash : node[t] = "absent"
  <2>1. node[exec.tx] # "absent" /\ exec.sub \in Outstanding
    BY <1>12 DEF Calm, LiveIsOutstanding
  <2>2. wallet[w].pc = "reporting"
    BY <1>5, <1>7, <2>1 DEF Calm, HandleInStep
  <2>3. /\ outcome \in {"ACCEPTED", "AMBIGUOUS"}
        /\ outcome = "AMBIGUOUS" => exec.sub \in {"BROADCASTING", "SUBMISSION_UNKNOWN"}
    BY <1>5, <2>1, <2>2 DEF Calm, HandleInStep
  <2>4. /\ status = IF outcome = "ACCEPTED" THEN "SUBMITTED" ELSE "SUBMISSION_UNKNOWN"
        /\ suspected = FALSE
    <3>1. m.op = IF outcome = "ACCEPTED" THEN "submitted" ELSE "ambiguous"
      BY <1>7, <2>2, <2>3 DEF Report
    <3>2. m.op # "conflicting"
      BY <3>1
    <3>3. suspected = FALSE
      BY <1>2, <3>2
    <3>4. QED BY <1>1, <3>1, <3>3 DEF Marks
  <2>5. CASE ok
    <3>1. LiveIsOutstanding' /\ Scheduling'
      BY <1>4, <1>10, <2>4, <2>5 DEF Calm, LiveIsOutstanding, Scheduling, Outstanding
    <3>2. HandleInStep(w)'
      BY <1>8, <1>9, <1>10, <2>2, <2>3, <2>4, <2>5 DEF HandleInStep
    <3>3. QED BY <1>5, <3>1, <3>2 DEF Calm
  <2>6. CASE ~ok
    <3>1. exec' = exec
      BY <1>4, <2>6
    <3>2. Terminal(exec)
      <4> SUFFICES ASSUME ~Terminal(exec) PROVE FALSE
        OBVIOUS
      <4>1. exec.sub # "NODE_REJECTED" /\ exec.tx # NoTx
        BY <1>8, <2>1, TxAssumption DEF Outstanding
      <4>2. MarkAllowed(exec, status, FALSE)
        BY <1>6, <2>3, <2>4, <4>1, ReportIsRecorded
      <4>3. QED BY <1>3, <2>4, <2>6, <4>2
    <3>3. LiveIsOutstanding' /\ Scheduling'
      BY <1>4, <3>1, <3>2 DEF Calm, LiveIsOutstanding, Scheduling, Terminal
    <3>4. HandleInStep(w)'
      BY <1>5, <1>8, <1>9, <2>2, <2>3, <3>1 DEF HandleInStep, Calm
    <3>5. QED BY <1>5, <3>3, <3>4 DEF Calm
  <2>7. QED BY <2>5, <2>6
<1>13. QED BY <1>11, <1>12

-----------------------------------------------------------------------------
(* Undisturbed steps of the wallet, the network and reconciliation *)

LEMMA PreparedCalmly ==
    ASSUME IInv, Undisturbed, Calm, NEW w \in Wallet, NEW t \in TxHash,
           NEW kind \in {"REBUILD", "RBF_REPLACEMENT"}, Prepare(w, t, kind)
    PROVE  Calm'
<1>1. \A v \in Wallet : v = w
  BY DEF Undisturbed
<1>2. /\ wallet[w].pc \in {"idle", "prepared", "done"}
      /\ wallet'[w] = [NoHandle EXCEPT !.pc = "preparing", !.tx = t, !.kind = kind]
      /\ net' = net \cup {PrepareRequest(w, t, kind)}
      /\ UNCHANGED <<exec, node>>
  BY DEF Prepare, IInv, TypeOK
<1>3. /\ wallet'[w].pc = "preparing"
      /\ wallet'[w].tx = t /\ wallet'[w].kind = kind
  BY <1>2 DEF NoHandle
<1>4. OnlyAwaited'
  <2>1. net = {}
    BY <1>2 DEF Calm, OnlyAwaited, Awaited
  <2>2. Awaited(w)' = {PrepareRequest(w, t, kind)}
    BY <1>3 DEF Awaited
  <2>3. QED BY <1>1, <1>2, <2>1, <2>2 DEF OnlyAwaited
<1>5. \A v \in Wallet : HandleInStep(v)'
  BY <1>1, <1>3 DEF HandleInStep
<1>6. LiveIsOutstanding' /\ Scheduling'
  <2>1. \A u \in TxHash : ~InFlight(u)
    BY <1>1, <1>2 DEF InFlight
  <2>2. QED BY <1>2, <2>1 DEF Calm, LiveIsOutstanding, Scheduling, Terminal
<1>7. QED BY <1>4, <1>5, <1>6 DEF Calm

LEMMA BroadcastCalmly ==
    ASSUME IInv, Undisturbed, Calm, NEW w \in Wallet, Broadcast(w) PROVE Calm'
<1>1. \A v \in Wallet : v = w
  BY DEF Undisturbed
<1>2. /\ wallet[w].pc \in {"prepared", "done"}
      /\ net' = net \cup {IntentRequest(w, "preflight")}
      /\ UNCHANGED <<exec, node>>
  BY DEF Broadcast
<1>3. wallet'[w].pc = "checking" /\ wallet'[w].tx = wallet[w].tx
  BY MovedHandle DEF Broadcast, IInv
<1>4. OnlyAwaited'
  <2>1. net = {}
    BY <1>2 DEF Calm, OnlyAwaited, Awaited
  <2>2. Awaited(w)' = {IntentRequest(w, "preflight")}
    BY <1>3 DEF Awaited
  <2>3. QED BY <1>1, <1>2, <2>1, <2>2 DEF OnlyAwaited
<1>5. \A v \in Wallet : HandleInStep(v)'
  BY <1>1, <1>2, <1>3 DEF Calm, HandleInStep
<1>6. LiveIsOutstanding' /\ Scheduling'
  <2>1. \A u \in TxHash : ~InFlight(u)
    BY <1>1, <1>2 DEF InFlight
  <2>2. QED BY <1>2, <2>1 DEF Calm, LiveIsOutstanding, Scheduling, Terminal
<1>7. QED BY <1>4, <1>5, <1>6 DEF Calm

\* The transaction is sent from a network that does not hold it, and only a node
\* that did not refuse it holds it afterwards.
LEMMA SentCalmly ==
    ASSUME IInv, Undisturbed, Calm, NEW w \in Wallet, NEW outcome \in Outcome,
           Send(w, outcome)
    PROVE  Calm'
<1> DEFINE t == wallet[w].tx
<1>1. \A v \in Wallet : v = w
  BY DEF Undisturbed
<1>2. /\ wallet[w].pc = "announced"
      /\ node' \in {node, Accepted(t)} /\ Sent(t, outcome, node')
      /\ net' = net \cup {IntentRequest(w, Report[outcome])}
      /\ exec' = exec
  BY DEF Send
<1>3. /\ wallet'[w].pc = "reporting"
      /\ wallet'[w].tx = t /\ wallet'[w].outcome = outcome
  BY DEF Send, IInv, TypeOK, Handle
<1>4. /\ t \in TxHash /\ t = exec.tx /\ exec.sub = "BROADCASTING"
      /\ \A u \in TxHash : node[u] = "absent"
  BY <1>2 DEF Calm, HandleInStep, LiveIsOutstanding, IInv, HandleIsKnown
<1>5. /\ \A u \in TxHash \ {t} : node'[u] = "absent"
      /\ outcome \notin {"ACCEPTED", "AMBIGUOUS"} => node'[t] = "absent"
  <2>1. node' = node \/ (node' = Accepted(t) /\ outcome \in {"ACCEPTED", "AMBIGUOUS"})
    BY <1>2, <1>4 DEF Sent
  <2>2. CASE node' = node
    BY <1>4, <2>2
  <2>3. CASE node' = Accepted(t) /\ outcome \in {"ACCEPTED", "AMBIGUOUS"}
    BY <1>4, <2>3 DEF Accepted
  <2>4. QED BY <2>1, <2>2, <2>3
<1>6. OnlyAwaited'
  <2>1. net = {}
    BY <1>2 DEF Calm, OnlyAwaited, Awaited
  <2>2. Awaited(w)' = {IntentRequest(w, Report[outcome])}
    BY <1>3 DEF Awaited
  <2>3. QED BY <1>1, <1>2, <2>1, <2>2 DEF OnlyAwaited
<1>7. \A v \in Wallet : HandleInStep(v)'
  BY <1>1, <1>2, <1>3, <1>4, <1>5 DEF HandleInStep, Outcome
<1>8. LiveIsOutstanding'
  BY <1>2, <1>4, <1>5 DEF LiveIsOutstanding, Outstanding
<1>9. Scheduling'
  BY <1>1, <1>3, <1>5 DEF Scheduling, InFlight
<1>10. QED BY <1>6, <1>7, <1>8, <1>9 DEF Calm

\* What is mined stays tracked and what is evicted is gone.
LEMMA NetworkCalmly ==
    ASSUME IInv, Calm, NEW t \in TxHash, Mine(t) \/ Evict(t) PROVE Calm'
<1>1. /\ UNCHANGED <<exec, wallet, net>>
      /\ node[t] = "pool"
      /\ \A u \in TxHash : node'[u] # "absent" => node[u] # "absent"
      /\ \A u \in TxHash : node[u] = "absent" => node'[u] = "absent"
  BY DEF Mine, Evict, IInv, TypeOK
<1>2. t = exec.tx
  BY <1>1 DEF Calm, LiveIsOutstanding
<1>3. LiveIsOutstanding' /\ OnlyAwaited' /\ Scheduling'
  BY <1>1 DEF Calm, LiveIsOutstanding, OnlyAwaited, Awaited, Scheduling, InFlight, Terminal
<1>4. \A v \in Wallet : HandleInStep(v)'
  BY <1>1, <1>2 DEF Calm, HandleInStep
<1>5. QED BY <1>3, <1>4 DEF Calm

\* A pass keeps the hash and an outstanding submission, and schedules the next
\* one unless it ends in a terminal row.
LEMMA PassCalmly ==
    ASSUME IInv, Calm, NEW o \in Observations, Reconcile(o) PROVE Calm'
<1>1. PICK competing \in BOOLEAN : competing = (Competing # {})
  OBVIOUS
<1>2. PICK monitored \in BOOLEAN : exec' = Reconciled(exec, o, competing, monitored)
  BY <1>1 DEF Reconcile
<1>3. UNCHANGED <<wallet, net, node>>
  BY DEF Reconcile
<1>4. /\ exec'.tx = exec.tx
      /\ exec'.sub = SupersedeNodeRejection(exec.sub, o.status)
      /\ exec.sub # "NODE_REJECTED" => Terminal(exec') \/ exec'.due
  <2>1. PICK next : next = Reconciled(exec, o, competing, monitored)
    OBVIOUS
  <2>2. /\ next.tx = exec.tx
        /\ next.sub = SupersedeNodeRejection(exec.sub, o.status)
        /\ exec.sub # "NODE_REJECTED" => Terminal(next) \/ next.due
    BY <2>1, ReconciledFacts DEF IInv
  <2>3. QED BY <1>2, <2>1, <2>2 DEF Terminal
<1>5. /\ exec.sub # "NODE_REJECTED" => exec'.sub = exec.sub
      /\ exec'.sub \in {exec.sub, "SUBMITTED"}
  BY <1>4 DEF SupersedeNodeRejection
<1>6. LiveIsOutstanding' /\ OnlyAwaited'
  BY <1>3, <1>4, <1>5 DEF Calm, LiveIsOutstanding, OnlyAwaited, Awaited, Outstanding
<1>7. \A v \in Wallet : HandleInStep(v)'
  BY <1>3, <1>4, <1>5 DEF Calm, HandleInStep
<1>8. Scheduling'
  <2>1. \A t \in TxHash : node[t] # "absent" => Terminal(exec') \/ exec'.due
    BY <1>4 DEF Calm, LiveIsOutstanding, Outstanding
  <2>2. QED BY <1>3, <2>1 DEF Scheduling, Terminal
<1>9. QED BY <1>6, <1>7, <1>8 DEF Calm

\* No competing candidate is ever found committed, and one that is rejected
\* leaves the row as it was.
LEMMA CandidatesCalmly ==
    ASSUME Calm, NEW t \in TxHash,
           RejectCandidate(t) \/ \E o \in PromotingObservations : PromoteCandidate(t, o)
    PROVE  Calm'
<1>1. CASE RejectCandidate(t)
  BY <1>1 DEF RejectCandidate, Calm, LiveIsOutstanding, OnlyAwaited, Awaited, HandleInStep,
              Scheduling, InFlight, Terminal
<1>2. CASE \E o \in PromotingObservations : PromoteCandidate(t, o)
  <2>1. t # exec.tx /\ node[t] = "mined"
    BY <1>2 DEF PromoteCandidate, Competing
  <2>2. QED BY <2>1 DEF Calm, LiveIsOutstanding
<1>3. QED BY <1>1, <1>2

-----------------------------------------------------------------------------
LEMMA CalmStep ==
    ASSUME IInv, Undisturbed, Undisturbed', faults' = faults, Calm, [Next]_vars
    PROVE  Calm'
<1>1. CASE \E m \in net : Serve(m)
  BY <1>1, PrepareServedCalmly, PreflightServedCalmly, MarkServedCalmly DEF Serve
<1>2. CASE \E w \in Wallet :
             \/ \E t \in TxHash, kind \in {"REBUILD", "RBF_REPLACEMENT"} : Prepare(w, t, kind)
             \/ Broadcast(w)
             \/ \E outcome \in Outcome : Send(w, outcome)
             \/ Timeout(w)
             \/ Crash(w)
  <2>1. ~Fault
    BY WalletAssumption DEF Fault, IInv, TypeOK
  <2>2. \A w \in Wallet : ~Timeout(w) /\ ~Crash(w)
    BY <2>1 DEF Timeout, Crash
  <2>3. QED BY <1>2, <2>2, PreparedCalmly, BroadcastCalmly, SentCalmly
<1>3. CASE \E t \in TxHash :
             \/ Mine(t)
             \/ Evict(t)
             \/ \E o \in PromotingObservations : PromoteCandidate(t, o)
             \/ RejectCandidate(t)
  BY <1>3, NetworkCalmly, CandidatesCalmly
<1>4. CASE \E o \in Observations : Reconcile(o)
  BY <1>4, PassCalmly
<1>5. CASE UNCHANGED vars
  BY <1>5 DEF vars, Calm, LiveIsOutstanding, OnlyAwaited, Awaited, HandleInStep,
              Scheduling, InFlight, Terminal
<1>6. QED BY <1>1, <1>2, <1>3, <1>4, <1>5 DEF Next

LEMMA QStep == ASSUME IInv, QInv, [Next]_vars PROVE QInv'
<1> SUFFICES ASSUME Undisturbed' PROVE Calm'
  BY DEF QInv
<1>1. Undisturbed /\ faults' = faults
  BY QuietBefore DEF IInv
<1>2. QED BY <1>1, CalmStep DEF QInv

\* Network, handle, request and row stay in step while nothing disturbs them.
THEOREM Calmness == Spec => []QInv
<1>1. Init => QInv
  BY InitCalm DEF QInv
<1>2. IInv /\ QInv /\ [Next]_vars => QInv'
  BY QStep
<1>3. QED BY <1>1, <1>2, Invariance, PTL DEF Spec

\* While nothing disturbs it the network holds no transaction but the tracked one.
THEOREM TrackedWhenLive == Spec => []LiveIsTracked
<1>1. QInv => LiveIsTracked
  BY DEF QInv, Calm, LiveIsOutstanding, LiveIsTracked
<1>2. QED BY <1>1, Calmness, PTL

\* A transaction the network holds is polled once its handle is done with it.
THEOREM ScheduledWhenLive == Spec => []LiveIsScheduled
<1>1. IInv /\ QInv => LiveIsScheduled
  <2> SUFFICES ASSUME IInv, QInv, Undisturbed, exec.tx # NoTx, node[exec.tx] # "absent",
                      ~Terminal(exec), ~InFlight(exec.tx)
               PROVE  exec.due
    BY DEF LiveIsScheduled
  <2>1. exec.tx \in TxHash
    BY DEF IInv, TypeOK, Row
  <2>2. QED BY <2>1 DEF QInv, Calm, Scheduling
<1>2. QED BY <1>1, Invariance, Calmness, PTL

\* An undisturbed intent is executed at most once.
THEOREM ExecutedAtMostOnce == Spec => []ExecutedOnce
<1>1. QInv => ExecutedOnce
  <2> SUFFICES ASSUME QInv, Undisturbed PROVE Cardinality(Mined) <= 1
    BY DEF ExecutedOnce
  <2>1. Mined \in SUBSET {exec.tx}
    BY DEF QInv, Calm, LiveIsOutstanding, Mined
  <2>2. Cardinality(Mined) <= Cardinality({exec.tx})
    BY <2>1, FS_Singleton, FS_Subset
  <2>3. QED BY <2>2, FS_Singleton
<1>2. QED BY <1>1, Calmness, PTL

\* A second broadcast of a hash that was accepted, or may have been, is refused
\* before it is sent.
THEOREM NoResend == Spec => AmbiguousIsNotResent
<1>1. IInv /\ QInv /\ [Next]_vars =>
        \A t \in TxHash :
          sends'[t] # sends[t] /\ exec.tx = t /\ Undisturbed
          => exec.sub \notin {"SUBMISSION_UNKNOWN", "SUBMITTED"}
  <2> SUFFICES ASSUME IInv, QInv, [Next]_vars, Undisturbed, sends' # sends
               PROVE  exec.sub \notin {"SUBMISSION_UNKNOWN", "SUBMITTED"}
    OBVIOUS
  <2>1. \E w \in Wallet, outcome \in Outcome : Send(w, outcome)
    BY DEF Next, vars, Serve, ServePrepare, ServePreflight, ServeMark, Prepare, Broadcast,
           Timeout, Crash, Mine, Evict, PromoteCandidate, RejectCandidate, Reconcile
  <2>2. QED BY <2>1 DEF QInv, Calm, HandleInStep, Send
<1>2. QED BY <1>1, Invariance, Calmness, PTL DEF Spec, AmbiguousIsNotResent
=============================================================================
