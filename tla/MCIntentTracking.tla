-------------------------- MODULE MCIntentTracking --------------------------
(* Hashes that share an input and one block: the cost goes into the       *)
(* interleavings of the workers and the API instead of the row's values,     *)
(* which MCIntentProjection covers.                                          *)
EXTENDS IntentTracking, TLC

CONSTANT input

MCPolicy == [mode |-> "committed", blocks |-> 1]
MCBlockNumber == [b \in Block |-> 1]
MCInputsOf == [t \in TxHash |-> {input}]
MCTips == {1}

\* Bound: workers race each other while the intent has one hash, and clients
\* and candidates race one worker once it has two.  Two workers and two hashes
\* together are the run two_winners.
OnePassOrOneHash ==
    \/ \A t, u \in TxHash :
          att[t].disp # "ABSENT" /\ att[u].disp # "ABSENT" => t = u
    \/ \A v, w \in Worker :
          worker[v].pc # "idle" /\ worker[w].pc # "idle" => v = w

MCSpec == Init /\ [][Next /\ OnePassOrOneHash']_vars

Symmetry == Permutations(TxHash) \cup Permutations(Worker)
=============================================================================
