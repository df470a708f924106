-------------------------- MODULE MCWalletBroadcast --------------------------
EXTENDS WalletBroadcast, TLC

CONSTANTS t1, t2, t3

MCPolicy == [mode |-> "committed", blocks |-> 1]
MCBlockNumber == [b \in Block |-> 1]
\* Attempts that share no input.
MCInputsOf == [t \in TxHash |-> {t}]

\* The second shares inputs with both others.
MCOverlapping == [t \in TxHash |-> IF t = t2 THEN {t1, t3} ELSE {t}]
MCTips == {1, 2}

\* The two attempts of the run may be exchanged.
Alike == Permutations({t1, t2})

=============================================================================
