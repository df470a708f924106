--------------------------- MODULE SpendEvidence ---------------------------
(***************************************************************************)
(* The repeated-observation rule of conflict-evidence.ts: an input seen    *)
(* spent is only evidence; it matures when a later inspection, at a higher *)
(* tip and the policy's number of blocks after the first one, still sees   *)
(* it spent and nothing broke the continuity in between.                   *)
(*                                                                         *)
(* The evidence is what conflict_details holds while its classification is *)
(* INPUT_SPENT_OBSERVED; spentObservationCount is left out because the     *)
(* code only asks whether it is at least one, which it always is.          *)
(***************************************************************************)
EXTENDS TxStatus

NoSpend == [seen |-> FALSE, first |-> 0, last |-> 0, broken |-> FALSE]

\* Broken evidence keeps its tips in the code, where nothing asks for them again.
BrokenSpend == [seen |-> TRUE, first |-> 0, last |-> 0, broken |-> TRUE]

\* Blocks that must separate the first and the deciding inspection.
MaturityWindow == IF Policy.mode = "depth" THEN Policy.blocks ELSE 1

Continues(e) == e.seen /\ ~e.broken

\* Fault: a later tip is enough.
FaultyMatured(e, tip) == Continues(e) /\ tip > e.last

Matured(e, tip) ==
    /\ Continues(e)
    /\ tip > e.last
    /\ tip >= e.first + MaturityWindow

NextSpent(e, tip) ==
    [seen |-> TRUE, first |-> IF Continues(e) THEN e.first ELSE tip,
     last |-> tip, broken |-> FALSE]

BreakContinuity(e) == IF e.seen THEN BrokenSpend ELSE e
=============================================================================
