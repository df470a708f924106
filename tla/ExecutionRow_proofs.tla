------------------------- MODULE ExecutionRow_proofs -------------------------
(***************************************************************************)
(* What the operators of ExecutionRow return, for every value of the       *)
(* constants: the facts that the proofs about IntentProjection and         *)
(* IntentTracking rest on.  A row under construction may hold a conflict   *)
(* the table would refuse, so the type of the intermediate rows is wider   *)
(* than Row.                                                               *)
(***************************************************************************)
EXTENDS ExecutionRow, TLAPS

AnyRow == [tx : TxHash \cup {NoTx},
           sub : SubmissionStatus,
           chain : ChainStatus,
           wf : WorkflowStatus,
           count : Nat,
           block : Block \cup {NoBlock},
           conflict : Conflicts,
           assertion : Verdict \cup {"NONE"},
           proof : Block \cup {NoBlock},
           seen : [displaced : BOOLEAN],
           ready : BOOLEAN,
           due : BOOLEAN]

\* What the chain transition needs to know of an observation.
ChainAnswer(o) ==
    /\ o.status \in ObservedStatus
    /\ o.displaced \in BOOLEAN
    /\ o.status = "COMMITTED" => o.block \in Block /\ o.tip \in Nat

\* A row may be stored exactly when its conflict may.
LEMMA StorableRow == ASSUME NEW row \in AnyRow, Storable(row) PROVE row \in Row
BY SMT DEF AnyRow, Row, Storable

LEMMA RowIsAnyRow == Row \subseteq AnyRow
BY SMT DEF AnyRow, Row

\* Replacing one field by a value of its type keeps the row's type.
LEMMA FieldUpdate ==
    ASSUME NEW row \in AnyRow
    PROVE  /\ \A v \in SubmissionStatus : [row EXCEPT !.sub = v] \in AnyRow
           /\ \A v \in ChainStatus : [row EXCEPT !.chain = v] \in AnyRow
           /\ \A v \in WorkflowStatus : [row EXCEPT !.wf = v] \in AnyRow
           /\ \A v \in Nat : [row EXCEPT !.count = v] \in AnyRow
           /\ \A v \in Block \cup {NoBlock} : [row EXCEPT !.block = v] \in AnyRow
           /\ \A v \in Conflicts : [row EXCEPT !.conflict = v] \in AnyRow
           /\ \A v \in Verdict \cup {"NONE"} : [row EXCEPT !.assertion = v] \in AnyRow
           /\ \A v \in Block \cup {NoBlock} : [row EXCEPT !.proof = v] \in AnyRow
           /\ \A v \in [displaced : BOOLEAN] :
                 [row EXCEPT !.seen = v] \in AnyRow
           /\ \A v \in BOOLEAN : [row EXCEPT !.ready = v] \in AnyRow
           /\ \A v \in BOOLEAN : [row EXCEPT !.due = v] \in AnyRow
BY DEF AnyRow

\* The chain axis, the workflow status and the block move together.
Moved(row, chain, count, block, wf) ==
    [row EXCEPT !.chain = chain, !.count = count, !.block = block, !.wf = wf]

LEMMA MovedRow ==
    ASSUME NEW row \in AnyRow, NEW chain \in ChainStatus, NEW count \in Nat,
           NEW block \in Block \cup {NoBlock}, NEW wf \in WorkflowStatus
    PROVE  LET next == Moved(row, chain, count, block, wf) IN
           /\ next \in AnyRow
           /\ next.chain = chain /\ next.count = count
           /\ next.block = block /\ next.wf = wf
           /\ next.tx = row.tx /\ next.sub = row.sub /\ next.conflict = row.conflict
           /\ next.assertion = row.assertion /\ next.proof = row.proof
           /\ next.seen = row.seen /\ next.ready = row.ready /\ next.due = row.due
<1>1. Moved(row, chain, count, block, wf) \in AnyRow
  BY FieldUpdate DEF Moved
<1>2. QED BY <1>1 DEF AnyRow, Moved

\* A pass also updates the submission, the conflict and the raw answer.
Noticed(row, sub, wf, conflict, seen) ==
    [row EXCEPT !.sub = sub, !.wf = wf, !.conflict = conflict, !.seen = seen]

LEMMA NoticedRow ==
    ASSUME NEW row \in AnyRow, NEW sub \in SubmissionStatus, NEW wf \in WorkflowStatus, NEW
           conflict \in Conflicts, NEW seen \in [displaced : BOOLEAN]
    PROVE  LET next == Noticed(row, sub, wf, conflict, seen) IN
           /\ next \in AnyRow
           /\ next.sub = sub /\ next.wf = wf
           /\ next.conflict = conflict /\ next.seen = seen
           /\ next.tx = row.tx /\ next.chain = row.chain
           /\ next.count = row.count /\ next.block = row.block
           /\ next.assertion = row.assertion /\ next.proof = row.proof
           /\ next.ready = row.ready /\ next.due = row.due
<1>1. Noticed(row, sub, wf, conflict, seen) \in AnyRow
  BY FieldUpdate DEF Noticed
<1>2. QED BY <1>1 DEF AnyRow, Noticed

\* A verdict on the expected Cells.
Judged(row, assertion, proof, wf, conflict) ==
    [row EXCEPT !.assertion = assertion, !.proof = proof, !.wf = wf, !.conflict = conflict]

LEMMA JudgedRow ==
    ASSUME NEW row \in AnyRow, NEW assertion \in Verdict \cup {"NONE"}, NEW proof \in Block \cup
           {NoBlock}, NEW wf \in WorkflowStatus, NEW conflict \in Conflicts
    PROVE  LET next == Judged(row, assertion, proof, wf, conflict) IN
           /\ next \in AnyRow
           /\ next.assertion = assertion /\ next.proof = proof
           /\ next.wf = wf /\ next.conflict = conflict
           /\ next.tx = row.tx /\ next.sub = row.sub /\ next.chain = row.chain
           /\ next.count = row.count /\ next.block = row.block
           /\ next.seen = row.seen /\ next.ready = row.ready /\ next.due = row.due
<1>1. Judged(row, assertion, proof, wf, conflict) \in AnyRow
  BY FieldUpdate DEF Judged
<1>2. QED BY <1>1 DEF AnyRow, Judged

\* A verdict withdrawn.
Unjudged(row, assertion, proof) ==
    [row EXCEPT !.assertion = assertion, !.proof = proof]

LEMMA UnjudgedRow ==
    ASSUME NEW row \in AnyRow, NEW assertion \in Verdict \cup {"NONE"}, NEW proof \in Block \cup
           {NoBlock}
    PROVE  LET next == Unjudged(row, assertion, proof) IN
           /\ next \in AnyRow
           /\ next.assertion = assertion /\ next.proof = proof
           /\ next.wf = row.wf /\ next.conflict = row.conflict
           /\ next.tx = row.tx /\ next.sub = row.sub /\ next.chain = row.chain
           /\ next.count = row.count /\ next.block = row.block
           /\ next.seen = row.seen /\ next.ready = row.ready /\ next.due = row.due
<1>1. Unjudged(row, assertion, proof) \in AnyRow
  BY FieldUpdate DEF Unjudged
<1>2. QED BY <1>1 DEF AnyRow, Unjudged

\* The settlement timestamp and the next reconciliation.
Scheduled(row, ready, due) ==
    [row EXCEPT !.ready = ready, !.due = due]

\* A submission outcome.
Submitted(row, sub, conflict, due) ==
    [row EXCEPT !.sub = sub, !.conflict = conflict, !.due = due]

LEMMA SubmittedRow ==
    ASSUME NEW row \in AnyRow, NEW sub \in SubmissionStatus, NEW conflict \in Conflicts, NEW due
           \in BOOLEAN
    PROVE  LET next == Submitted(row, sub, conflict, due) IN
           /\ next \in AnyRow
           /\ next.sub = sub /\ next.conflict = conflict /\ next.due = due
           /\ next.tx = row.tx /\ next.chain = row.chain /\ next.wf = row.wf
           /\ next.count = row.count /\ next.block = row.block
           /\ next.assertion = row.assertion /\ next.proof = row.proof
           /\ next.seen = row.seen /\ next.ready = row.ready
<1>1. Submitted(row, sub, conflict, due) \in AnyRow
  BY FieldUpdate DEF Submitted
<1>2. QED BY <1>1 DEF AnyRow, Submitted

\* The evidence-free conflicts are conflicts, and so is every suspicion.
LEMMA PlainConflict ==
    ASSUME NEW type \in ConflictType PROVE Conflict(type, NoSpend) \in Conflicts
BY DEF Conflicts

LEMMA SuspicionIsConflict ==
    ASSUME NEW e \in ObservedEvidence PROVE Suspected(e) \in Conflicts
BY DEF Conflicts

\* A row's spend evidence is evidence the inspections could have produced.
LEMMA SpendOfConflict ==
    ASSUME NEW c \in Conflicts
    PROVE  /\ c.spend \in ObservedEvidence
           /\ c.type \in ConflictType
           /\ c = Conflict(c.type, c.spend)
           /\ c.spend # NoSpend => c.type = "INPUT_CONFLICT_SUSPECTED"
<1>1. CASE \E type \in ConflictType : c = Conflict(type, NoSpend)
  BY <1>1 DEF Conflict, ObservedEvidence
<1>2. CASE \E e \in ObservedEvidence : c = Suspected(e)
  BY <1>2 DEF Conflict, Suspected, ConflictType
<1>3. QED BY <1>1, <1>2 DEF Conflicts

-----------------------------------------------------------------------------
(* Spend evidence *)

\* The evidence operators stay within what the inspections can produce.
LEMMA NextSpentIsEvidence ==
    ASSUME NEW e \in ObservedEvidence, NEW tip \in Tips
    PROVE  NextSpent(e, tip) \in ObservedEvidence
<1>1. CASE Continues(e)
  <2>1. e # NoSpend /\ e # BrokenSpend
    BY <1>1 DEF Continues, NoSpend, BrokenSpend
  <2>2. e.first \in Tips
    BY <2>1 DEF ObservedEvidence
  <2>3. QED BY <1>1, <2>2 DEF NextSpent, ObservedEvidence
<1>2. CASE ~Continues(e)
  BY <1>2 DEF NextSpent, ObservedEvidence
<1>3. QED BY <1>1, <1>2

LEMMA BrokenIsEvidence ==
    ASSUME NEW e \in ObservedEvidence
    PROVE  /\ BreakContinuity(e) \in ObservedEvidence
           /\ e = NoSpend => BreakContinuity(e) = NoSpend
<1>1. ~NoSpend.seen /\ NoSpend \in ObservedEvidence /\ BrokenSpend \in ObservedEvidence
  BY DEF NoSpend, ObservedEvidence
<1>2. QED BY <1>1 DEF BreakContinuity

\* Evidence that is missing or broken does not continue.
LEMMA BrokenEnds ==
    ASSUME NEW e \in ObservedEvidence
    PROVE  ~Continues(NoSpend) /\ ~Continues(BreakContinuity(e))
<1>1. ~Continues(NoSpend) /\ ~Continues(BrokenSpend)
  BY DEF Continues, NoSpend, BrokenSpend
<1>2. QED BY <1>1 DEF BreakContinuity, Continues

-----------------------------------------------------------------------------
(* Observations *)

\* Every answer of a pass is one the chain transition is defined for.
LEMMA AnswerOfObservation ==
    ASSUME NEW o \in Observations
    PROVE  /\ ChainAnswer(o)
           /\ o.mismatch \in BOOLEAN
           /\ o.verdict \in Verdict
           /\ o.inspect = "CANONICALLY_SPENT" => o.tip \in Tips
           /\ o.status \in Found \/ o.mismatch => o.inspect = "NONE"
<1>1. CASE o \in CommitObservations
  BY <1>1, SettingAssumption
     DEF CommitObservations, ChainAnswer, ObservedStatus, ChainStatus, Verdicts, Verdict
<1>2. CASE o \in PoolObservations
  BY <1>2 DEF PoolObservations, ChainAnswer, ObservedStatus, ChainStatus, Verdicts, Verdict
<1>3. CASE o \in UninspectedObservations
  BY <1>3 DEF UninspectedObservations, ChainAnswer, ObservedStatus, ChainStatus, Found,
              Verdicts, Verdict
<1>4. CASE o \in InspectedObservations
  BY <1>4 DEF InspectedObservations, ChainAnswer, ObservedStatus, ChainStatus, Found, Verdict
<1>5. QED BY <1>1, <1>2, <1>3, <1>4 DEF Observations

LEMMA AnswerOfFailure == ChainAnswer(FailureObservation)
BY DEF ChainAnswer, FailureObservation, ObservedStatus, ChainStatus

LEMMA AnswerOfPromotion ==
    ASSUME NEW o \in PromotingObservations
    PROVE  /\ o \in Observations
           /\ o.status = "COMMITTED" /\ o.displaced = FALSE
BY DEF PromotingObservations, CommitObservations, Observations

-----------------------------------------------------------------------------
(* The chain transition *)

\* The commit a row claims is the commit it recorded.
Evidenced(row) ==
    /\ row.chain = "COMMITTED" => row.block # NoBlock
    /\ row.wf \in {"CONFIRMED", "WAITING_CONFIRMATIONS"} => row.chain = "COMMITTED"
    /\ row.wf = "CONFIRMED" => ConfirmationSatisfied(row.chain, row.count)

LEMMA CountType ==
    ASSUME NEW b \in Block, NEW tip \in Nat PROVE ConfirmationCount(b, tip) \in Nat
BY BlockAssumption DEF ConfirmationCount

\* The chain transition moves only the chain axis and the workflow status,
\* keeps a row evidenced, changes a recorded block only on a detected reorg and
\* gives a commit up only when its block was displaced.
LEMMA ApplyChainFacts ==
    ASSUME NEW row \in AnyRow, NEW o, ChainAnswer(o),
           NEW next, next = ApplyChainObservation(row, o)
    PROVE  /\ next \in AnyRow
           /\ next.tx = row.tx /\ next.sub = row.sub /\ next.conflict = row.conflict
           /\ next.assertion = row.assertion /\ next.proof = row.proof
           /\ next.seen = row.seen /\ next.ready = row.ready /\ next.due = row.due
           /\ Evidenced(row) => Evidenced(next)
           /\ next.block # row.block => ReorgDetected(row, o) \/ row.block = NoBlock
           /\ row.chain = "COMMITTED" /\ next.chain # "COMMITTED"
                 => o.displaced /\ row.block # NoBlock
           /\ next.wf # "CONFLICTED"
<1>1. CASE CommitPreserved(row, o)
  <2> DEFINE to == IF row.wf = "CONFIRMED" THEN row.wf ELSE "RECONCILING"
  <2>1. next = [row EXCEPT !.wf = to]
    BY <1>1 DEF ApplyChainObservation
  <2>2. to \in WorkflowStatus
    BY DEF WorkflowStatus
  <2>3. next \in AnyRow
    BY <2>1, <2>2, FieldUpdate
  <2>4. /\ next.wf = to
        /\ next.chain = row.chain /\ next.count = row.count /\ next.block = row.block
        /\ next.tx = row.tx /\ next.sub = row.sub /\ next.conflict = row.conflict
        /\ next.assertion = row.assertion /\ next.proof = row.proof
        /\ next.seen = row.seen /\ next.ready = row.ready /\ next.due = row.due
    BY <2>1 DEF AnyRow
  <2>5. QED BY <2>3, <2>4 DEF Evidenced
<1>2. CASE ~CommitPreserved(row, o) /\ o.status = "COMMITTED"
  <2> DEFINE depth == ConfirmationCount(o.block, o.tip)
             to == IF ConfirmationSatisfied("COMMITTED", depth)
                   THEN "CONFIRMED" ELSE "WAITING_CONFIRMATIONS"
  <2>1. depth \in Nat /\ o.block \in Block
    BY <1>2, CountType DEF ChainAnswer
  <2>2. next = Moved(row, "COMMITTED", depth, o.block, to)
    BY <1>2 DEF ApplyChainObservation, Moved
  <2>3. /\ to \in WorkflowStatus /\ to # "CONFLICTED"
        /\ to = "CONFIRMED" => ConfirmationSatisfied("COMMITTED", depth)
    BY DEF WorkflowStatus
  <2>4. "COMMITTED" \in ChainStatus
    BY DEF ChainStatus
  <2> HIDE DEF depth, to
  <2>5. o.block \in Block \cup {NoBlock}
    BY <2>1
  <2>6. /\ next \in AnyRow
        /\ next.wf = to
        /\ next.chain = "COMMITTED" /\ next.count = depth /\ next.block = o.block
        /\ next.tx = row.tx /\ next.sub = row.sub /\ next.conflict = row.conflict
        /\ next.assertion = row.assertion /\ next.proof = row.proof
        /\ next.seen = row.seen /\ next.ready = row.ready /\ next.due = row.due
    BY <2>1, <2>2, <2>3, <2>4, <2>5, MovedRow
  <2>7. next.block # row.block => ReorgDetected(row, o) \/ row.block = NoBlock
    BY <1>2, <2>6 DEF ReorgDetected
  <2>8. Evidenced(next)
    BY <2>1, <2>3, <2>6, BlockAssumption DEF Evidenced
  <2>9. QED BY <2>3, <2>6, <2>7, <2>8
<1>3. CASE ~CommitPreserved(row, o) /\ o.status # "COMMITTED"
  <2> DEFINE lost == ReorgDetected(row, o) /\ o.status # "REJECTED"
             block == IF lost THEN NoBlock ELSE row.block
             to == IF o.status = "REJECTED" THEN "IDLE"
                   ELSE IF lost THEN "REORGED" ELSE "RECONCILING"
  <2>1. next = Moved(row, o.status, 0, block, to)
    BY <1>3 DEF ApplyChainObservation, Moved
  <2>2. /\ to \in WorkflowStatus
        /\ to \notin {"CONFIRMED", "WAITING_CONFIRMATIONS", "CONFLICTED"}
        /\ block \in Block \cup {NoBlock}
        /\ block # row.block => ReorgDetected(row, o)
    BY DEF WorkflowStatus, AnyRow
  <2>3. o.status \in ChainStatus /\ 0 \in Nat
    BY DEF ChainAnswer, ObservedStatus
  <2> HIDE DEF block, to
  <2>4. /\ next \in AnyRow
        /\ next.wf = to
        /\ next.chain = o.status /\ next.count = 0 /\ next.block = block
        /\ next.tx = row.tx /\ next.sub = row.sub /\ next.conflict = row.conflict
        /\ next.assertion = row.assertion /\ next.proof = row.proof
        /\ next.seen = row.seen /\ next.ready = row.ready /\ next.due = row.due
    BY <2>1, <2>2, <2>3, MovedRow
  <2>6. Evidenced(next)
    BY <1>3, <2>2, <2>4 DEF Evidenced
  <2>7. row.chain = "COMMITTED" => o.displaced /\ row.block # NoBlock
    BY <1>3 DEF CommitPreserved, ReorgDetected
  <2>8. QED BY <2>2, <2>4, <2>6, <2>7
<1>4. QED BY <1>1, <1>2, <1>3

-----------------------------------------------------------------------------
(* A reconciliation pass, stage by stage *)

LEMMA NotedType ==
    ASSUME NEW row, NEW o, o.status \in ObservedStatus, o.displaced \in BOOLEAN
    PROVE  Noted(row, o) \in [displaced : BOOLEAN]
BY DEF Noted

LEMMA SupersedeType ==
    ASSUME NEW sub \in SubmissionStatus, NEW status
    PROVE  /\ SupersedeNodeRejection(sub, status) \in SubmissionStatus
           /\ status \notin Found => SupersedeNodeRejection(sub, status) = sub
BY DEF SupersedeNodeRejection, SubmissionStatus

\* The conflict of a pass is one the columns can describe: evidence is only
\* kept, extended or broken together with a suspicion.
LEMMA ConflictAfterType ==
    ASSUME NEW row \in AnyRow, NEW o \in Observations
    PROVE  ConflictAfter(row, o) \in Conflicts
<1> DEFINE e == row.conflict.spend
<1>1. row.conflict \in Conflicts
  BY DEF AnyRow
<1>2. e \in ObservedEvidence
  BY <1>1, SpendOfConflict
<1>3. NoSpend \in ObservedEvidence
  BY DEF ObservedEvidence
<1>4. /\ Conflict("SIGNED_PAYLOAD_MISMATCH", NoSpend) \in Conflicts
      /\ Conflict("INPUT_SPENT", NoSpend) \in Conflicts
      /\ NoConflict \in Conflicts
      /\ Suspected(NoSpend) \in Conflicts
      /\ Suspected(BreakContinuity(e)) \in Conflicts
  BY <1>2, <1>3, PlainConflict, SuspicionIsConflict, BrokenIsEvidence DEF ConflictType, NoConflict
<1>5. o.inspect = "CANONICALLY_SPENT" => Suspected(NextSpent(e, o.tip)) \in Conflicts
  BY <1>2, AnswerOfObservation, NextSpentIsEvidence, SuspicionIsConflict
<1> HIDE DEF e
<1>6. QED BY <1>1, <1>4, <1>5 DEF ConflictAfter, e

\* Unbroken evidence after a pass is the old evidence extended by a tip at which
\* the inputs were found spent, or the old evidence after a pass that neither
\* saw the transaction nor inspected its inputs.
LEMMA EvidenceAfterPass ==
    ASSUME NEW row \in AnyRow, NEW o \in Observations,
           Continues(ConflictAfter(row, o).spend)
    PROVE  \/ /\ o.inspect = "CANONICALLY_SPENT"
              /\ ConflictAfter(row, o).spend = NextSpent(row.conflict.spend, o.tip)
           \/ /\ o.inspect = "NONE" /\ o.status \notin Found
              /\ ConflictAfter(row, o).spend = row.conflict.spend
<1> DEFINE e == row.conflict.spend
           c == ConflictAfter(row, o)
<1>1. ~Continues(NoSpend) /\ ~Continues(BreakContinuity(e))
  BY SpendOfConflict, BrokenEnds DEF AnyRow
<1>2. ~o.mismatch
  <2>1. o.mismatch => c = Conflict("SIGNED_PAYLOAD_MISMATCH", NoSpend)
    BY AnswerOfObservation DEF ConflictAfter
  <2>2. QED BY <1>1, <2>1 DEF Conflict
<1>3. o.status \notin Found
  <2>1. o.status \in Found => c = NoConflict
    BY <1>2, AnswerOfObservation DEF ConflictAfter
  <2>2. QED BY <1>1, <2>1 DEF Conflict, NoConflict
<1>4. CASE o.inspect = "CANONICALLY_SPENT"
  <2>1. c = IF SpendProven(row, o) THEN Conflict("INPUT_SPENT", NoSpend)
            ELSE Suspected(NextSpent(e, o.tip))
    BY <1>2, <1>3, <1>4 DEF ConflictAfter
  <2>2. QED BY <1>1, <1>4, <2>1 DEF Conflict, Suspected
<1>5. CASE o.inspect \in {"MEMPOOL_CONTENDED", "ALL_LIVE"}
  <2>1. c \in {Suspected(NoSpend), NoConflict}
    BY <1>2, <1>3, <1>5 DEF ConflictAfter
  <2>2. QED BY <1>1, <2>1 DEF Conflict, Suspected, NoConflict
<1>6. CASE o.inspect = "UNKNOWN"
  <2>1. c = IF e.seen THEN Suspected(BreakContinuity(e)) ELSE row.conflict
    BY <1>2, <1>3, <1>6 DEF ConflictAfter
  <2>2. QED BY <1>1, <2>1 DEF Conflict, Suspected, Continues
<1>7. CASE o.inspect = "NONE"
  <2>1. c = row.conflict
    BY <1>2, <1>3, <1>7 DEF ConflictAfter
  <2>2. QED BY <1>3, <1>7, <2>1
<1>8. o.inspect \in {"NONE", "UNKNOWN", "MEMPOOL_CONTENDED", "ALL_LIVE", "CANONICALLY_SPENT"}
  BY DEF Observations, CommitObservations, PoolObservations, UninspectedObservations,
         InspectedObservations
<1>9. QED BY <1>4, <1>5, <1>6, <1>7, <1>8

LEMMA ChainAppliedFacts ==
    ASSUME NEW row \in AnyRow, Evidenced(row), NEW o \in Observations,
           NEW next, next = ChainApplied(row, o)
    PROVE  /\ next \in AnyRow
           /\ next.tx = row.tx /\ next.assertion = row.assertion /\ next.proof = row.proof
           /\ next.ready = row.ready /\ next.due = row.due
           /\ next.sub = SupersedeNodeRejection(row.sub, o.status)
           /\ next.conflict = ConflictAfter(row, o)
           /\ next.seen = Noted(row, o)
           /\ Evidenced(next)
           /\ next.block # row.block => ReorgDetected(row, o) \/ row.block = NoBlock
           /\ row.chain = "COMMITTED" /\ next.chain # "COMMITTED"
                 => o.displaced /\ row.block # NoBlock
           /\ next.wf = "CONFLICTED" => o.mismatch \/ SpendProven(row, o)
<1>1. PICK moved : moved = ApplyChainObservation(row, o)
  OBVIOUS
<1>2. ChainAnswer(o)
  BY AnswerOfObservation
<1>3. /\ moved \in AnyRow
      /\ moved.tx = row.tx /\ moved.sub = row.sub
      /\ moved.assertion = row.assertion /\ moved.proof = row.proof
      /\ moved.ready = row.ready /\ moved.due = row.due
      /\ Evidenced(moved)
      /\ moved.block # row.block => ReorgDetected(row, o) \/ row.block = NoBlock
      /\ row.chain = "COMMITTED" /\ moved.chain # "COMMITTED"
            => o.displaced /\ row.block # NoBlock
      /\ moved.wf # "CONFLICTED"
  BY <1>1, <1>2, ApplyChainFacts
<1>4. PICK wf : wf = IF o.mismatch \/ SpendProven(row, o) THEN "CONFLICTED" ELSE moved.wf
  OBVIOUS
<1>5. PICK sub : sub = SupersedeNodeRejection(moved.sub, o.status)
  OBVIOUS
<1>6. /\ sub \in SubmissionStatus
      /\ wf \in WorkflowStatus
      /\ ConflictAfter(row, o) \in Conflicts
      /\ Noted(row, o) \in [displaced : BOOLEAN]
  <2>1. moved.sub \in SubmissionStatus /\ moved.wf \in WorkflowStatus
    BY <1>3 DEF AnyRow
  <2>2. wf \in WorkflowStatus
    BY <1>4, <2>1 DEF WorkflowStatus
  <2>3. QED BY <1>2, <1>5, <2>1, <2>2, SupersedeType, ConflictAfterType, NotedType DEF ChainAnswer
<1>7. next = Noticed(moved, sub, wf, ConflictAfter(row, o), Noted(row, o))
  BY <1>1, <1>4, <1>5 DEF ChainApplied, Noticed
<1>8. /\ next \in AnyRow
      /\ next.sub = sub /\ next.wf = wf
      /\ next.conflict = ConflictAfter(row, o) /\ next.seen = Noted(row, o)
      /\ next.tx = moved.tx /\ next.chain = moved.chain
      /\ next.count = moved.count /\ next.block = moved.block
      /\ next.assertion = moved.assertion /\ next.proof = moved.proof
      /\ next.ready = moved.ready /\ next.due = moved.due
  BY <1>3, <1>6, <1>7, NoticedRow
<1>9. Evidenced(next)
  BY <1>3, <1>4, <1>8 DEF Evidenced
<1>10. QED BY <1>3, <1>4, <1>5, <1>8, <1>9

\* A VERIFIED verdict is about the recorded block.
VerdictMatches(row) ==
    row.assertion = "VERIFIED" => row.block # NoBlock /\ row.proof = row.block

LEMMA AssertionsAppliedFacts ==
    ASSUME NEW row \in AnyRow, Evidenced(row), VerdictMatches(row),
           NEW o \in Observations, NEW next, next = AssertionsApplied(row, o)
    PROVE  /\ next \in AnyRow
           /\ next.tx = row.tx /\ next.ready = row.ready /\ next.due = row.due
           /\ next.sub = SupersedeNodeRejection(row.sub, o.status)
           /\ next.seen = Noted(row, o)
           /\ Evidenced(next)
           /\ VerdictMatches(next)
           /\ row.chain = "COMMITTED" /\ next.chain # "COMMITTED"
                 => o.displaced /\ row.block # NoBlock
           /\ next.conflict.spend \in {NoSpend, ConflictAfter(row, o).spend}
           /\ next.wf = "CONFLICTED" /\ next.conflict.type = "INPUT_SPENT"
                 => SpendProven(row, o)
<1>1. PICK applied : applied = ChainApplied(row, o)
  OBVIOUS
<1>2. /\ applied \in AnyRow
      /\ applied.tx = row.tx /\ applied.assertion = row.assertion /\ applied.proof = row.proof
      /\ applied.ready = row.ready /\ applied.due = row.due
      /\ applied.sub = SupersedeNodeRejection(row.sub, o.status)
      /\ applied.seen = Noted(row, o)
      /\ Evidenced(applied)
      /\ applied.block # row.block => ReorgDetected(row, o) \/ row.block = NoBlock
      /\ row.chain = "COMMITTED" /\ applied.chain # "COMMITTED"
            => o.displaced /\ row.block # NoBlock
      /\ applied.conflict = ConflictAfter(row, o)
      /\ applied.wf = "CONFLICTED" => o.mismatch \/ SpendProven(row, o)
  BY <1>1, ChainAppliedFacts
<1>3. /\ applied.wf \in WorkflowStatus /\ applied.conflict \in Conflicts
      /\ applied.block \in Block \cup {NoBlock}
  BY <1>2 DEF AnyRow
<1>8. applied.wf = "CONFLICTED" /\ applied.conflict.type = "INPUT_SPENT"
         => SpendProven(row, o)
  <2>1. o.mismatch => applied.conflict = Conflict("SIGNED_PAYLOAD_MISMATCH", NoSpend)
    BY <1>2, AnswerOfObservation DEF ConflictAfter
  <2>2. o.mismatch => applied.conflict.type # "INPUT_SPENT"
    BY <2>1 DEF Conflict
  <2>3. QED BY <1>2, <2>2
<1>4. CASE applied.wf = "CONFIRMED" /\ Required /\ ShouldReverify(row, applied, o)
  <2>1. PICK wf : wf = IF o.verdict = "FAILED" THEN "CONFLICTED" ELSE applied.wf
    OBVIOUS
  <2>2. PICK conflict : conflict = IF o.verdict = "FAILED"
            THEN Conflict("EXPECTED_CELL_ASSERTION_FAILED", NoSpend) ELSE applied.conflict
    OBVIOUS
  <2>3. wf \in WorkflowStatus
    BY <1>3, <2>1 DEF WorkflowStatus
  <2>4. conflict \in Conflicts
    BY <1>3, <2>2, PlainConflict DEF ConflictType
  <2>5. o.verdict \in Verdict \cup {"NONE"}
    BY AnswerOfObservation
  <2>6. next = Judged(applied, o.verdict, applied.block, wf, conflict)
    BY <1>1, <1>4, <2>1, <2>2 DEF AssertionsApplied, Judged
  <2>7. /\ next \in AnyRow
        /\ next.assertion = o.verdict /\ next.proof = applied.block
        /\ next.wf = wf /\ next.conflict = conflict
        /\ next.tx = applied.tx /\ next.sub = applied.sub /\ next.chain = applied.chain
        /\ next.count = applied.count /\ next.block = applied.block
        /\ next.seen = applied.seen /\ next.ready = applied.ready /\ next.due = applied.due
    <3>1. PICK verdict \in Verdict \cup {"NONE"} : verdict = o.verdict
      BY <2>5
    <3>2. PICK block \in Block \cup {NoBlock} : block = applied.block
      BY <1>3
    <3>3. applied \in AnyRow /\ next = Judged(applied, verdict, block, wf, conflict)
      BY <1>2, <2>6, <3>1, <3>2
    <3>4. /\ next \in AnyRow
          /\ next.assertion = verdict /\ next.proof = block /\ next.wf = wf
          /\ next.tx = applied.tx /\ next.sub = applied.sub /\ next.chain = applied.chain
          /\ next.count = applied.count /\ next.block = applied.block
          /\ next.seen = applied.seen /\ next.ready = applied.ready /\ next.due = applied.due
      BY ONLY <3>3, <2>3, <2>4, JudgedRow
    <3>5. next.conflict = conflict
      BY <3>3 DEF Judged, AnyRow
    <3>6. QED BY <3>1, <3>2, <3>4, <3>5
  <2>8. Evidenced(next) /\ next.block # NoBlock
    BY <1>2, <1>4, <2>1, <2>7 DEF Evidenced
  <2>9. /\ conflict.spend \in {NoSpend, ConflictAfter(row, o).spend}
        /\ ~(wf = "CONFLICTED" /\ conflict.type = "INPUT_SPENT")
    BY <1>2, <1>4, <2>1, <2>2 DEF Conflict
  <2>10. QED BY <1>2, <2>7, <2>8, <2>9 DEF VerdictMatches
<1>5. CASE /\ ~(applied.wf = "CONFIRMED" /\ Required /\ ShouldReverify(row, applied, o))
           /\ AssertionsCleared(row, o)
  <2>1. next = Unjudged(applied, "NONE", NoBlock)
    BY <1>1, <1>5 DEF AssertionsApplied, Unjudged
  <2>2. /\ next \in AnyRow
        /\ next.assertion = "NONE"
        /\ next.wf = applied.wf /\ next.conflict = applied.conflict
        /\ next.tx = applied.tx /\ next.sub = applied.sub /\ next.chain = applied.chain
        /\ next.count = applied.count /\ next.block = applied.block
        /\ next.seen = applied.seen /\ next.ready = applied.ready /\ next.due = applied.due
    BY <1>2, <2>1, UnjudgedRow
  <2>3. QED BY <1>2, <1>8, <2>2 DEF Evidenced, VerdictMatches
<1>6. CASE /\ ~(applied.wf = "CONFIRMED" /\ Required /\ ShouldReverify(row, applied, o))
           /\ ~AssertionsCleared(row, o)
  <2>1. next = applied
    BY <1>1, <1>6 DEF AssertionsApplied
  <2>2. VerdictMatches(next)
    BY <1>2, <1>6, <2>1 DEF VerdictMatches, AssertionsCleared
  <2>3. QED BY <1>2, <1>8, <2>1, <2>2
<1>7. QED BY <1>4, <1>5, <1>6

-----------------------------------------------------------------------------
(* What every write of the row keeps *)

\* A settlement timestamp is only found on a confirmed and verified row.
SettledRow(row) ==
    row.ready => /\ row.wf = "CONFIRMED"
                 /\ row.block # NoBlock
                 /\ Required => row.assertion = "VERIFIED"

\* A transaction that may still commit is scheduled for reconciliation.
PolledRow(row) ==
    row.sub \in {"SUBMITTED", "SUBMISSION_UNKNOWN"} /\ ~Terminal(row) => row.due

SoundRow(row) ==
    /\ row \in AnyRow
    /\ Evidenced(row)
    /\ VerdictMatches(row)
    /\ SettledRow(row)
    /\ PolledRow(row)

LEMMA ReadyIsBoolean == ASSUME NEW row PROVE SettlementReady(row) \in BOOLEAN
BY DEF SettlementReady, IsSettlementReady

\* The settlement predicate implies what a settlement timestamp claims.
LEMMA ReadyRow ==
    ASSUME NEW row, SettlementReady(row)
    PROVE  /\ row.wf = "CONFIRMED" /\ row.block # NoBlock
           /\ Required => row.assertion = "VERIFIED"
BY DEF SettlementReady, IsSettlementReady

LEMMA InitialRowFacts ==
    ASSUME NEW t \in TxHash \cup {NoTx}
    PROVE  SoundRow(InitialRow(t)) /\ InitialRow(t).tx = t
<1>1. NoConflict \in Conflicts
  BY PlainConflict DEF NoConflict, ConflictType
<1>2. InitialRow(t) \in AnyRow
  BY <1>1 DEF InitialRow, AnyRow, SubmissionStatus, ChainStatus, WorkflowStatus, NothingSeen
<1>3. QED
  BY <1>2 DEF SoundRow, InitialRow, Evidenced, VerdictMatches, SettledRow, PolledRow

\* An attached row is the same row in a later submission status, or a new one.
LEMMA AttachedFacts ==
    ASSUME NEW row, SoundRow(row), NEW t \in TxHash,
           NEW status \in {"PREPARED", "SUBMITTED"}, NEW kind,
           AttachAllowed(row, t, status, kind),
           NEW next, next = Attached(row, t, status)
    PROVE  /\ SoundRow(next)
           /\ next.tx = t
           /\ row.tx = t => /\ next.chain = row.chain /\ next.wf = row.wf
                            /\ next.ready = row.ready
                            /\ next.conflict = row.conflict
                            /\ row.wf # "CONFLICTED"
           /\ row.tx # t => /\ ~next.ready /\ next.wf = "IDLE"
                            /\ next.conflict = NoConflict
<1>1. PICK base : base = IF row.tx = t THEN row ELSE InitialRow(t)
  OBVIOUS
<1>2. SoundRow(base) /\ base.tx = t
  BY <1>1, InitialRowFacts
<1>3. base.conflict \in Conflicts
  BY <1>2 DEF SoundRow, AnyRow
<1>4. status \in SubmissionStatus /\ (status = "SUBMITTED") \in BOOLEAN
  BY DEF SubmissionStatus
<1>5. next = [base EXCEPT !.sub = status, !.due = (status = "SUBMITTED")]
  BY <1>1 DEF Attached
<1>6. next \in AnyRow
  <2>1. [base EXCEPT !.sub = status] \in AnyRow
    BY <1>2, <1>4, FieldUpdate DEF SoundRow
  <2>2. QED BY <1>4, <1>5, <2>1, FieldUpdate
<1>7. /\ next.sub = status /\ next.due = (status = "SUBMITTED")
      /\ next.tx = base.tx /\ next.chain = base.chain /\ next.wf = base.wf
      /\ next.count = base.count /\ next.block = base.block
      /\ next.conflict = base.conflict
      /\ next.assertion = base.assertion /\ next.proof = base.proof
      /\ next.ready = base.ready
  BY <1>2, <1>5 DEF SoundRow, AnyRow
<1>8. SoundRow(next)
  BY <1>2, <1>6, <1>7 DEF SoundRow, Evidenced, VerdictMatches, SettledRow, PolledRow
<1>9. row.tx = t => row.wf # "CONFLICTED"
  BY DEF AttachAllowed, Replaces, SubmissionAllowed
<1>10. row.tx # t => base.wf = "IDLE" /\ ~base.ready /\ base.conflict = NoConflict
  BY <1>1 DEF InitialRow
<1>11. QED BY <1>1, <1>2, <1>7, <1>8, <1>9, <1>10

\* A submission report moves the submission axis alone, and is refused once the
\* intent is conflicted.
LEMMA MarkedFacts ==
    ASSUME NEW row, SoundRow(row), NEW status \in SubmissionStatus,
           NEW suspected \in BOOLEAN, MarkAllowed(row, status, suspected),
           NEW next, next = Marked(row, status, suspected)
    PROVE  /\ SoundRow(next)
           /\ next.tx = row.tx /\ next.chain = row.chain /\ next.wf = row.wf
           /\ next.ready = row.ready
           /\ next.conflict = Conflict(IF suspected THEN "INPUT_CONFLICT_SUSPECTED"
                                       ELSE row.conflict.type, NoSpend)
           /\ row.wf # "CONFLICTED"
<1>1. PICK conflict : conflict = Conflict(IF suspected THEN "INPUT_CONFLICT_SUSPECTED"
                                          ELSE row.conflict.type, NoSpend)
  OBVIOUS
<1>2. PICK due : due = (row.due \/ suspected \/ status \in {"SUBMITTED", "SUBMISSION_UNKNOWN"})
  OBVIOUS
<1>3. conflict \in Conflicts
  <2>1. row.conflict \in Conflicts
    BY DEF SoundRow, AnyRow
  <2>2. row.conflict.type \in ConflictType
    BY <2>1, SpendOfConflict
  <2>3. QED BY <1>1, <2>2, PlainConflict DEF ConflictType
<1>4. due \in BOOLEAN
  BY <1>2
<1>5. next = Submitted(row, status, conflict, due)
  BY <1>1, <1>2 DEF Marked, Submitted
<1>6. /\ next \in AnyRow
      /\ next.sub = status /\ next.conflict = conflict /\ next.due = due
      /\ next.tx = row.tx /\ next.chain = row.chain /\ next.wf = row.wf
      /\ next.count = row.count /\ next.block = row.block
      /\ next.assertion = row.assertion /\ next.proof = row.proof
      /\ next.ready = row.ready
  BY <1>3, <1>4, <1>5, SubmittedRow DEF SoundRow
<1>7. SoundRow(next)
  BY <1>2, <1>6 DEF SoundRow, Evidenced, VerdictMatches, SettledRow, PolledRow, Terminal
<1>8. row.wf # "CONFLICTED"
  BY DEF MarkAllowed, SubmissionAllowed
<1>9. QED BY <1>1, <1>6, <1>7, <1>8

\* A pass keeps a row sound, gives a commit up only on proof, and leaves the
\* row unscheduled only when nothing more can come of it.
LEMMA ReconciledFacts ==
    ASSUME NEW row, SoundRow(row), NEW o \in Observations,
           NEW competing \in BOOLEAN, NEW monitored \in BOOLEAN,
           NEW next, next = Reconciled(row, o, competing, monitored)
    PROVE  /\ SoundRow(next)
           /\ next.tx = row.tx
           /\ next.sub = SupersedeNodeRejection(row.sub, o.status)
           /\ row.sub # "NODE_REJECTED" => Terminal(next) \/ next.due
           /\ row.chain = "COMMITTED" /\ next.chain # "COMMITTED" => next.seen.displaced
           /\ next.conflict.spend \in {NoSpend, ConflictAfter(row, o).spend}
           /\ next.wf = "CONFLICTED" /\ next.conflict.type = "INPUT_SPENT"
                 => SpendProven(row, o)
           /\ next.ready = SettlementReady(next)
<1>1. PICK applied : applied = AssertionsApplied(row, o)
  OBVIOUS
<1>2. /\ applied \in AnyRow
      /\ applied.tx = row.tx
      /\ applied.sub = SupersedeNodeRejection(row.sub, o.status)
      /\ applied.seen = Noted(row, o)
      /\ Evidenced(applied)
      /\ VerdictMatches(applied)
      /\ row.chain = "COMMITTED" /\ applied.chain # "COMMITTED"
            => o.displaced /\ row.block # NoBlock
      /\ applied.conflict.spend \in {NoSpend, ConflictAfter(row, o).spend}
      /\ applied.wf = "CONFLICTED" /\ applied.conflict.type = "INPUT_SPENT"
            => SpendProven(row, o)
  BY <1>1, AssertionsAppliedFacts DEF SoundRow
<1>3. PICK ready : ready = SettlementReady(applied)
  OBVIOUS
<1>4. PICK due : due = ~StopsPolling(row, applied, o, competing, monitored)
  OBVIOUS
<1>5. next = Scheduled(applied, ready, due)
  BY <1>1, <1>3, <1>4 DEF Reconciled, Scheduled
<1>6. /\ next \in AnyRow
      /\ next.ready = ready /\ next.due = due
      /\ next.tx = applied.tx /\ next.sub = applied.sub
      /\ next.chain = applied.chain /\ next.wf = applied.wf
      /\ next.count = applied.count /\ next.block = applied.block
      /\ next.assertion = applied.assertion /\ next.proof = applied.proof
      /\ next.seen = applied.seen /\ next.conflict = applied.conflict
  <2>1. ready \in BOOLEAN
    BY <1>3, ReadyIsBoolean
  <2>2. due \in BOOLEAN
    BY <1>4
  <2>3. next \in AnyRow
    <3>1. [applied EXCEPT !.ready = ready] \in AnyRow
      BY <1>2, <2>1, FieldUpdate
    <3>2. QED BY <1>5, <2>2, <3>1, FieldUpdate DEF Scheduled
  <2>4. QED BY <1>2, <1>5, <2>1, <2>2, <2>3 DEF Scheduled, AnyRow
<1>7. SettledRow(next)
  <2>1. ready => /\ applied.wf = "CONFIRMED" /\ applied.block # NoBlock
                 /\ Required => applied.assertion = "VERIFIED"
    BY <1>3, ReadyRow
  <2>2. QED BY <1>6, <2>1 DEF SettledRow
<1>8. PolledRow(next)
  <2>1. o.status = "UNKNOWN" /\ row.sub = "NODE_REJECTED" => applied.sub = "NODE_REJECTED"
    BY <1>2 DEF SupersedeNodeRejection, Found
  <2>2. Terminal(next) = Terminal(applied)
    BY <1>6 DEF Terminal
  <2>3. QED BY <1>4, <1>6, <2>1, <2>2 DEF PolledRow, StopsPolling
<1>9. Evidenced(next) /\ VerdictMatches(next)
  BY <1>2, <1>6 DEF Evidenced, VerdictMatches
<1>10. row.sub # "NODE_REJECTED" => Terminal(next) \/ next.due
  <2>1. Terminal(next) = Terminal(applied)
    BY <1>6 DEF Terminal
  <2>2. QED BY <1>4, <1>6, <2>1 DEF StopsPolling
<1>11. o.displaced /\ row.block # NoBlock => next.seen.displaced
  <2>1. next.seen = Noted(row, o)
    BY <1>2, <1>6
  <2>2. Noted(row, o).displaced = (o.displaced /\ row.block # NoBlock)
    BY DEF Noted
  <2>3. QED BY <2>1, <2>2
<1>12. next.ready = SettlementReady(next)
  BY <1>3, <1>6 DEF SettlementReady, IsSettlementReady
<1>13. QED BY <1>2, <1>6, <1>7, <1>8, <1>9, <1>10, <1>11, <1>12 DEF SoundRow

\* An outage is no proof: a commit survives it and polling goes on.
LEMMA RpcFailedFacts ==
    ASSUME NEW row, SoundRow(row), NEW next, next = RpcFailed(row)
    PROVE  /\ SoundRow(next)
           /\ next.tx = row.tx
           /\ row.chain = "COMMITTED" => next.chain = "COMMITTED"
           /\ next.conflict = Conflict(row.conflict.type,
                                      BreakContinuity(row.conflict.spend))
           /\ next.wf # "CONFLICTED"
           /\ row.wf = "CONFIRMED" => next.wf = "CONFIRMED"
           /\ next.ready = SettlementReady(next)
<1>1. PICK moved : moved = ApplyChainObservation(row, FailureObservation)
  OBVIOUS
<1>2. row \in AnyRow /\ Evidenced(row) /\ VerdictMatches(row)
  BY DEF SoundRow
<1>3. ~ReorgDetected(row, FailureObservation)
  BY DEF ReorgDetected, FailureObservation
<1>4. /\ moved \in AnyRow
      /\ moved.tx = row.tx /\ moved.conflict = row.conflict
      /\ moved.assertion = row.assertion /\ moved.proof = row.proof
      /\ Evidenced(moved)
      /\ moved.block # row.block => row.block = NoBlock
      /\ row.chain = "COMMITTED" => moved.chain = "COMMITTED"
      /\ moved.wf # "CONFLICTED"
  <2>1. FailureObservation.displaced = FALSE
    BY DEF FailureObservation
  <2>2. QED BY <1>1, <1>2, <1>3, <2>1, AnswerOfFailure, ApplyChainFacts
<1>5. VerdictMatches(moved)
  BY <1>2, <1>4 DEF VerdictMatches
<1>6. PICK c : c = row.conflict
  OBVIOUS
<1>7. /\ c \in Conflicts /\ c.type \in ConflictType /\ c.spend \in ObservedEvidence
      /\ c = Conflict(c.type, c.spend)
      /\ c.spend # NoSpend => c.type = "INPUT_CONFLICT_SUSPECTED"
  <2>1. c \in Conflicts
    BY <1>2, <1>6 DEF AnyRow
  <2>2. QED BY <2>1, SpendOfConflict
<1>8. PICK conflict : conflict = Conflict(c.type, BreakContinuity(c.spend))
  OBVIOUS
<1>9. [c EXCEPT !.spend = BreakContinuity(@)] = conflict
  BY <1>7, <1>8 DEF Conflict
<1>10. conflict \in Conflicts /\ conflict.type = c.type
  <2>1. conflict.type = c.type
    BY <1>8 DEF Conflict
  <2>2. CASE c.spend = NoSpend
    <3>1. BreakContinuity(c.spend) = NoSpend
      BY <2>2, <1>7, BrokenIsEvidence
    <3>2. QED BY <1>7, <1>8, <2>1, <3>1, PlainConflict
  <2>3. CASE c.spend # NoSpend
    <3>1. BreakContinuity(c.spend) \in ObservedEvidence
      BY <1>7, BrokenIsEvidence
    <3>2. conflict = Suspected(BreakContinuity(c.spend))
      BY <1>7, <1>8, <2>3 DEF Suspected
    <3>3. QED BY <2>1, <3>1, <3>2, SuspicionIsConflict
  <2>4. QED BY <2>2, <2>3
<1>11. PICK seen : seen = Noted(row, FailureObservation)
  OBVIOUS
<1>12. seen \in [displaced : BOOLEAN]
  BY <1>11, AnswerOfFailure, NotedType DEF ChainAnswer
<1>13. PICK noted : noted = [moved EXCEPT !.conflict = conflict, !.seen = seen]
  OBVIOUS
<1>14. /\ noted \in AnyRow
       /\ noted.conflict = conflict
       /\ noted.tx = moved.tx /\ noted.chain = moved.chain /\ noted.wf = moved.wf
       /\ noted.count = moved.count /\ noted.block = moved.block
       /\ noted.assertion = moved.assertion /\ noted.proof = moved.proof
  <2>1. [moved EXCEPT !.conflict = conflict] \in AnyRow
    BY <1>4, <1>10, FieldUpdate
  <2>2. noted \in AnyRow
    BY <1>12, <1>13, <2>1, FieldUpdate
  <2>3. QED BY <1>4, <1>13, <2>2 DEF AnyRow
<1>15. PICK ready : ready = SettlementReady(noted)
  OBVIOUS
<1>16. next = Scheduled(noted, ready, TRUE)
  <2>1. moved.conflict = c
    BY <1>4, <1>6
  <2>2. noted = [moved EXCEPT !.conflict.spend = BreakContinuity(@), !.seen = seen]
    BY <1>9, <1>13, <2>1, <1>4 DEF AnyRow
  <2>3. QED BY <1>1, <1>11, <1>15, <2>2 DEF RpcFailed, Scheduled
<1>17. /\ next \in AnyRow
       /\ next.ready = ready /\ next.due = TRUE
       /\ next.tx = noted.tx /\ next.chain = noted.chain /\ next.wf = noted.wf
       /\ next.count = noted.count /\ next.block = noted.block
       /\ next.conflict = noted.conflict
       /\ next.assertion = noted.assertion /\ next.proof = noted.proof
  <2>1. ready \in BOOLEAN
    BY <1>15, ReadyIsBoolean
  <2>2. next \in AnyRow
    BY <1>14, <1>16, <2>1, FieldUpdate DEF Scheduled
  <2>3. QED BY <1>14, <1>16, <2>1, <2>2 DEF Scheduled, AnyRow
<1>18. SettledRow(next)
  <2>1. ready => /\ noted.wf = "CONFIRMED" /\ noted.block # NoBlock
                 /\ Required => noted.assertion = "VERIFIED"
    BY <1>15, ReadyRow
  <2>2. QED BY <1>17, <2>1 DEF SettledRow
<1>19. Evidenced(next) /\ VerdictMatches(next) /\ PolledRow(next)
  BY <1>4, <1>5, <1>14, <1>17 DEF Evidenced, VerdictMatches, PolledRow
<1>20. next.ready = SettlementReady(next)
  BY <1>15, <1>17 DEF SettlementReady, IsSettlementReady
<1>21. row.wf = "CONFIRMED" => next.wf = "CONFIRMED"
  <2>1. row.wf = "CONFIRMED" => CommitPreserved(row, FailureObservation)
    BY <1>2, <1>3 DEF Evidenced, CommitPreserved, FailureObservation
  <2>2. row.wf = "CONFIRMED" => moved.wf = "CONFIRMED"
    BY <1>1, <1>2, <2>1 DEF ApplyChainObservation, AnyRow
  <2>3. QED BY <1>14, <1>17, <2>2
<1>22. QED BY <1>4, <1>6, <1>8, <1>14, <1>17, <1>18, <1>19, <1>20, <1>21 DEF SoundRow

\* A promoted candidate takes over the row with the commit it was observed in.
LEMMA PromotedFacts ==
    ASSUME NEW t \in TxHash, NEW sub \in SubmissionStatus, NEW conflict \in Conflicts,
           NEW o \in PromotingObservations,
           NEW next, next = Promoted(t, sub, conflict, o)
    PROVE  /\ SoundRow(next)
           /\ next.tx = t
           /\ next.conflict = conflict
           /\ next.wf # "CONFLICTED"
           /\ next.ready = SettlementReady(next)
<1>1. PICK base : base = [InitialRow(t) EXCEPT !.sub = CandidateSubmission(sub)]
  OBVIOUS
<1>2. SoundRow(InitialRow(t)) /\ InitialRow(t).tx = t
  BY InitialRowFacts
<1>3. CandidateSubmission(sub) \in SubmissionStatus
  BY DEF CandidateSubmission, SubmissionStatus
<1>4. /\ base \in AnyRow
      /\ base.tx = t /\ base.chain = "UNOBSERVED" /\ base.wf = "IDLE"
      /\ base.assertion = "NONE"
  <2>1. base \in AnyRow
    BY <1>1, <1>2, <1>3, FieldUpdate DEF SoundRow
  <2>2. QED BY <1>1, <2>1 DEF InitialRow
<1>5. PICK moved : moved = ApplyChainObservation(base, o)
  OBVIOUS
<1>6. ChainAnswer(o)
  BY AnswerOfPromotion, AnswerOfObservation
<1>7. /\ moved \in AnyRow
      /\ moved.tx = t /\ moved.assertion = "NONE" /\ Evidenced(moved)
      /\ moved.wf # "CONFLICTED"
  <2>1. Evidenced(base)
    BY <1>4 DEF Evidenced
  <2>2. QED BY <1>4, <1>5, <1>6, <2>1, ApplyChainFacts
<1>8. PICK seen : seen = Noted(base, o)
  OBVIOUS
<1>9. seen \in [displaced : BOOLEAN]
  BY <1>6, <1>8, NotedType DEF ChainAnswer
<1>10. PICK noted : noted = [moved EXCEPT !.conflict = conflict, !.seen = seen]
  OBVIOUS
<1>11. /\ noted \in AnyRow
       /\ noted.conflict = conflict
       /\ noted.tx = moved.tx /\ noted.chain = moved.chain /\ noted.wf = moved.wf
       /\ noted.count = moved.count /\ noted.block = moved.block
       /\ noted.assertion = moved.assertion
  <2>1. [moved EXCEPT !.conflict = conflict] \in AnyRow
    BY <1>7, FieldUpdate
  <2>2. noted \in AnyRow
    BY <1>9, <1>10, <2>1, FieldUpdate
  <2>3. QED BY <1>7, <1>10, <2>2 DEF AnyRow
<1>12. PICK ready : ready = SettlementReady(noted)
  OBVIOUS
<1>13. next = Scheduled(noted, ready, TRUE)
  BY <1>1, <1>5, <1>8, <1>10, <1>12 DEF Promoted, Scheduled
<1>14. /\ next \in AnyRow
       /\ next.ready = ready /\ next.due = TRUE
       /\ next.tx = noted.tx /\ next.chain = noted.chain /\ next.wf = noted.wf
       /\ next.count = noted.count /\ next.block = noted.block
       /\ next.conflict = noted.conflict /\ next.assertion = noted.assertion
  <2>1. ready \in BOOLEAN
    BY <1>12, ReadyIsBoolean
  <2>2. next \in AnyRow
    BY <1>11, <1>13, <2>1, FieldUpdate DEF Scheduled
  <2>3. QED BY <1>11, <1>13, <2>1, <2>2 DEF Scheduled, AnyRow
<1>15. SettledRow(next)
  <2>1. ready => /\ noted.wf = "CONFIRMED" /\ noted.block # NoBlock
                 /\ Required => noted.assertion = "VERIFIED"
    BY <1>12, ReadyRow
  <2>2. QED BY <1>14, <2>1 DEF SettledRow
<1>16. Evidenced(next) /\ VerdictMatches(next) /\ PolledRow(next)
  BY <1>7, <1>11, <1>14 DEF Evidenced, VerdictMatches, PolledRow
<1>17. next.ready = SettlementReady(next)
  BY <1>12, <1>14 DEF SettlementReady, IsSettlementReady
<1>18. QED BY <1>7, <1>11, <1>14, <1>15, <1>16, <1>17 DEF SoundRow

-----------------------------------------------------------------------------
(* What a pass may refuse, and what it may give up *)

\* The conflict a pass computes is one the table does not know exactly when the
\* witnesses are foreign.
LEMMA RefusedOnMismatch ==
    ASSUME NEW row \in Row, NEW o \in Observations,
           NEW competing \in BOOLEAN, NEW monitored \in BOOLEAN
    PROVE  Storable(Reconciled(row, o, competing, monitored)) <=> ~o.mismatch
<1> DEFINE applied == ChainApplied(row, o)
           judged == AssertionsApplied(row, o)
           next == Reconciled(row, o, competing, monitored)
           c == ConflictAfter(row, o)
           moved == ApplyChainObservation(row, o)
<1>1. row \in AnyRow /\ row.conflict.type \in StorableConflict /\ ChainAnswer(o)
  BY RowIsAnyRow, AnswerOfObservation DEF Row
<1>2. moved \in AnyRow
  BY <1>1, ApplyChainFacts
<1>3. applied.conflict = c /\ (o.mismatch => applied.wf = "CONFLICTED")
  BY <1>2 DEF ChainApplied, AnyRow
<1>4. o.mismatch => c.type = "SIGNED_PAYLOAD_MISMATCH"
  BY AnswerOfObservation DEF ConflictAfter, Conflict
<1>5. ~o.mismatch => c.type \in StorableConflict
  BY <1>1, AnswerOfObservation DEF ConflictAfter, Conflict, NoConflict, Suspected, StorableConflict
<1>6. judged.conflict = applied.conflict \/ judged.conflict.type = "EXPECTED_CELL_ASSERTION_FAILED"
  BY <1>2 DEF AssertionsApplied, ChainApplied, AnyRow, Conflict
<1>7. applied.wf # "CONFIRMED" => judged.conflict = applied.conflict
  BY <1>2 DEF AssertionsApplied, ChainApplied, AnyRow
<1>8. next.conflict = judged.conflict
  BY <1>2 DEF Reconciled, AssertionsApplied, ChainApplied, AnyRow
<1>9. CASE o.mismatch
  BY <1>3, <1>4, <1>7, <1>8, <1>9 DEF Storable, StorableConflict
<1>10. CASE ~o.mismatch
  BY <1>3, <1>5, <1>6, <1>8, <1>10 DEF Storable, StorableConflict
<1>11. QED BY <1>9, <1>10, AnswerOfObservation

\* Why a pass takes back the confirmation of a row: its block is gone, another
\* one holds the transaction, the same one is not as deep, or the intent is in
\* conflict.
GivesUp(row, next) ==
    \/ next.seen.displaced
    \/ next.block # row.block
    \/ next.count < row.count
    \/ next.conflict.type \in {"INPUT_SPENT", "EXPECTED_CELL_ASSERTION_FAILED"}

LEMMA PolicyBlocks == Policy.blocks \in Nat
<1>1. PICK n : n = Policy.blocks
  OBVIOUS
<1>2. Policy.blocks \in 1 .. 10000
  BY PolicyAssumption
<1>3. n \in 1 .. 10000
  BY ONLY <1>1, <1>2
<1>4. n \in Nat
  BY ONLY <1>3
<1>5. QED BY ONLY <1>1, <1>4

LEMMA ConfirmationGivenUp ==
    ASSUME NEW row, SoundRow(row), row.wf = "CONFIRMED", NEW o \in Observations,
           ~o.mismatch, NEW competing \in BOOLEAN, NEW monitored \in BOOLEAN,
           NEW next, next = Reconciled(row, o, competing, monitored), next.wf # "CONFIRMED"
    PROVE  GivesUp(row, next)
<1> DEFINE applied == ChainApplied(row, o)
           judged == AssertionsApplied(row, o)
           c == ConflictAfter(row, o)
           moved == ApplyChainObservation(row, o)
<1>1. /\ row \in AnyRow /\ ChainAnswer(o) /\ row.chain = "COMMITTED" /\ row.block # NoBlock
      /\ ConfirmationSatisfied("COMMITTED", row.count)
  BY AnswerOfObservation DEF SoundRow, Evidenced
<1>2. moved \in AnyRow
  BY <1>1, ApplyChainFacts
<1>3. /\ applied.conflict = c /\ applied.block = moved.block /\ applied.count = moved.count
      /\ applied.seen = Noted(row, o)
      /\ applied.wf = IF SpendProven(row, o) THEN "CONFLICTED" ELSE moved.wf
  BY <1>2 DEF ChainApplied, AnyRow
<1>4. /\ judged.block = applied.block /\ judged.count = applied.count
      /\ judged.seen = applied.seen
      /\ \/ judged.wf = applied.wf /\ judged.conflict = applied.conflict
         \/ judged.conflict.type = "EXPECTED_CELL_ASSERTION_FAILED"
  BY <1>2 DEF AssertionsApplied, ChainApplied, AnyRow, Conflict
<1>5. /\ next.block = judged.block /\ next.count = judged.count /\ next.seen = judged.seen
      /\ next.wf = judged.wf /\ next.conflict = judged.conflict
  BY <1>2 DEF Reconciled, AssertionsApplied, ChainApplied, AnyRow
<1>6. CASE judged.conflict.type = "EXPECTED_CELL_ASSERTION_FAILED"
  BY <1>5, <1>6 DEF GivesUp
<1>7. CASE SpendProven(row, o) /\ judged.conflict = applied.conflict
  <2>1. c = Conflict("INPUT_SPENT", NoSpend)
    BY <1>7, AnswerOfObservation DEF ConflictAfter, SpendProven
  <2>2. QED BY <1>3, <1>5, <1>7, <2>1 DEF GivesUp, Conflict
<1>8. CASE ~SpendProven(row, o) /\ judged.wf = applied.wf
  <2>1. moved.wf # "CONFIRMED"
    BY <1>3, <1>5, <1>8
  <2>2. ~CommitPreserved(row, o)
    BY <1>1, <2>1 DEF ApplyChainObservation, AnyRow
  <2>3. CASE o.status # "COMMITTED"
    <3>1. o.displaced
      BY <1>1, <2>2, <2>3 DEF CommitPreserved, ReorgDetected
    <3>2. Noted(row, o).displaced
      BY <1>1, <3>1 DEF Noted
    <3>3. next.seen = Noted(row, o)
      BY <1>3, <1>4, <1>5
    <3>4. QED BY <3>2, <3>3 DEF GivesUp
  <2>4. CASE o.status = "COMMITTED"
    <3> DEFINE depth == ConfirmationCount(o.block, o.tip)
    <3>1. depth \in Nat /\ row.count \in Nat
      BY <1>1, <2>4, CountType DEF ChainAnswer, AnyRow
    <3>2. /\ moved.count = depth
          /\ moved.wf = IF ConfirmationSatisfied("COMMITTED", depth)
                        THEN "CONFIRMED" ELSE "WAITING_CONFIRMATIONS"
      BY <1>1, <2>2, <2>4 DEF ApplyChainObservation, AnyRow
    <3>3. ~ConfirmationSatisfied("COMMITTED", depth)
      BY <2>1, <3>2
    <3>4. depth < row.count
      <4> HIDE DEF depth
      <4>1. Policy.mode # "committed" /\ ~(depth >= Policy.blocks) /\ row.count >= Policy.blocks
        BY <1>1, <3>3 DEF ConfirmationSatisfied
      <4>2. QED BY <3>1, <4>1, PolicyBlocks
    <3>5. QED BY <1>3, <1>4, <1>5, <3>2, <3>4 DEF GivesUp
  <2>5. QED BY <2>3, <2>4
<1>9. QED BY <1>4, <1>6, <1>7, <1>8
=============================================================================
