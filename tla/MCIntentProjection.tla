------------------------- MODULE MCIntentProjection -------------------------
(* Two hashes that share an input, two blocks at the same height (so that a  *)
(* reorganisation replaces one by the other), tips 0..2 and depth 2.         *)
EXTENDS SpendHistory, TLC

CONSTANT input

MCPolicy == [mode |-> "depth", blocks |-> 2]
MCBlockNumber == [b \in Block |-> 1]
MCInputsOf == [t \in TxHash |-> {input}]
MCTips == 0 .. 2

\* Of the histories only the tips bear on the property that a later or an earlier
\* one could complete to a window, and of these not whether the earlier tip was
\* interrupted: no step treats the others differently.
Opening == {a \in spent \cup earlier : \E b \in Tips : b >= a + MaturityWindow}
Closing == {b \in spent : \E a \in Tips : b >= a + MaturityWindow}

View == <<exec, winning, announced, Opening, Closing>>

Symmetry == Permutations(TxHash) \cup Permutations(Block)
=============================================================================
