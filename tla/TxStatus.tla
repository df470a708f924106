------------------------------ MODULE TxStatus ------------------------------
(***************************************************************************)
(* The status algebra of packages/core: the three axes of an intent's      *)
(* execution (submission, chain, workflow), the confirmation policy, and   *)
(* the pure transition functions of state-machine.ts.  No state here: the  *)
(* operators are used by every module that keeps an execution row.         *)
(*                                                                         *)
(* A snapshot is any record with the fields sub, chain, wf, count, block.  *)
(* An observation is any record with the fields status, block, tip and     *)
(* displaced; displaced says priorCommitCanonical === false (the values    *)
(* true and undefined are treated alike by the code).                      *)
(***************************************************************************)
EXTENDS Integers

CONSTANTS
    Policy,        \* the confirmation policy fixed when the intent is created
    Block,         \* the blocks a transaction can be committed in
    BlockNumber,   \* the height of each block
    NoBlock        \* "no committed block recorded" (null in the row)

ASSUME PolicyAssumption ==
    Policy \in [mode : {"committed", "depth"}, blocks : 1 .. 10000]

ASSUME BlockAssumption ==
    /\ BlockNumber \in [Block -> Nat]
    /\ NoBlock \notin Block

SubmissionStatus == {"NOT_SUBMITTED", "PREPARED", "BROADCASTING",
                     "SUBMISSION_UNKNOWN", "SUBMITTED", "NODE_REJECTED"}

ChainStatus == {"UNOBSERVED", "UNKNOWN", "PENDING", "PROPOSED",
                "COMMITTED", "REJECTED"}

WorkflowStatus == {"IDLE", "RECONCILING", "WAITING_CONFIRMATIONS", "CONFIRMED",
                   "REORGED", "CONFLICTED", "EXPIRED"}

ObservedStatus == ChainStatus \ {"UNOBSERVED"}

\* The statuses that prove the exact transaction exists.
Found == {"PENDING", "PROPOSED", "COMMITTED"}

-----------------------------------------------------------------------------
(* Confirmation and settlement *)

ConfirmationCount(block, tip) ==
    IF tip < BlockNumber[block] THEN 0 ELSE tip - BlockNumber[block] + 1

ConfirmationSatisfied(chain, count) ==
    /\ chain = "COMMITTED"
    /\ Policy.mode = "committed" \/ count >= Policy.blocks

\* required: the intent lists at least one expected Cell.
IsSettlementReady(s, assertion, required, conflictType) ==
    /\ s.wf = "CONFIRMED"
    /\ s.chain = "COMMITTED"
    /\ s.block # NoBlock
    /\ ConfirmationSatisfied(s.chain, s.count)
    /\ conflictType = "NONE"
    /\ required => assertion = "VERIFIED"

-----------------------------------------------------------------------------
(* Submission axis *)

SubmissionRank == [NOT_SUBMITTED |-> 0, PREPARED |-> 1, BROADCASTING |-> 2,
                   SUBMISSION_UNKNOWN |-> 3, SUBMITTED |-> 4]

\* updateSubmission returns iff this holds, and then only sets the status.
SubmissionAllowed(s, next) ==
    /\ s.wf \notin {"CONFLICTED", "EXPIRED"}
    /\ s.chain # "REJECTED"
    /\ \/ s.sub = "NODE_REJECTED" /\ next = "NODE_REJECTED"
       \/ /\ next = "NODE_REJECTED"
          /\ s.sub \in {"PREPARED", "BROADCASTING", "SUBMISSION_UNKNOWN"}
       \/ /\ s.sub # "NODE_REJECTED" /\ next # "NODE_REJECTED"
          /\ SubmissionRank[s.sub] <= SubmissionRank[next]

\* Direct chain evidence overrides an earlier node rejection.
SupersedeNodeRejection(sub, status) ==
    IF sub = "NODE_REJECTED" /\ status \in Found THEN "SUBMITTED" ELSE sub

-----------------------------------------------------------------------------
(* Chain axis *)

\* Fault: a conflicted intent still takes observations.
FaultyObservationRefused(s) == s.wf = "EXPIRED"

\* applyChainObservation throws on these workflow states.
ObservationRefused(s) == s.wf \in {"CONFLICTED", "EXPIRED"}

\* Fault: any answer that does not repeat the recorded block is a reorg.
FaultyReorgDetected(s, o) == s.block # NoBlock /\ o.block # s.block

ReorgDetected(s, o) ==
    /\ s.block # NoBlock
    /\ \/ o.displaced
       \/ o.status = "COMMITTED" /\ o.block # s.block

\* A non-committed answer does not undo a commit nobody disproved.
CommitPreserved(s, o) ==
    /\ s.chain = "COMMITTED"
    /\ o.status # "COMMITTED"
    /\ ~ReorgDetected(s, o)

\* Fault: a rejection does not reset the workflow status.
FaultyApplyChainObservation(s, o) ==
    IF o.status = "COMMITTED"
    THEN LET depth == ConfirmationCount(o.block, o.tip) IN
         [s EXCEPT !.chain = "COMMITTED", !.count = depth, !.block = o.block,
                   !.wf = IF ConfirmationSatisfied("COMMITTED", depth)
                          THEN "CONFIRMED" ELSE "WAITING_CONFIRMATIONS"]
    ELSE IF CommitPreserved(s, o) THEN s
    ELSE [s EXCEPT !.chain = o.status, !.count = 0]

ApplyChainObservation(s, o) ==
    IF CommitPreserved(s, o)
    THEN [s EXCEPT !.wf = IF @ = "CONFIRMED" THEN @ ELSE "RECONCILING"]
    ELSE IF o.status = "COMMITTED"
    THEN LET depth == ConfirmationCount(o.block, o.tip) IN
         [s EXCEPT !.chain = "COMMITTED",
                   !.count = depth,
                   !.block = o.block,
                   !.wf = IF ConfirmationSatisfied("COMMITTED", depth)
                          THEN "CONFIRMED" ELSE "WAITING_CONFIRMATIONS"]
    ELSE LET uncommitted == ReorgDetected(s, o) /\ o.status # "REJECTED" IN
         [s EXCEPT !.chain = o.status,
                   !.count = 0,
                   !.block = IF uncommitted THEN NoBlock ELSE @,
                   !.wf = IF o.status = "REJECTED" THEN "IDLE"
                          ELSE IF uncommitted THEN "REORGED" ELSE "RECONCILING"]
=============================================================================
