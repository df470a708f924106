---------------------------- MODULE SpendHistory ----------------------------
(***************************************************************************)
(* IntentProjection with a history of the evidence: at which tips          *)
(* inspections of the tracked transaction found an input spent since       *)
(* something last spoke against it, or a new report on its submission      *)
(* arrived.  The history is kept from the answers alone; the row keeps     *)
(* only what conflict-evidence.ts writes into conflict_details, and its    *)
(* rule has to be right about the history.                                 *)
(*                                                                         *)
(* An UNKNOWN answer that comes without an inspection interrupts the       *)
(* history, and the code passes over it; what it then still counts on is   *)
(* kept apart.                                                             *)
(***************************************************************************)
EXTENDS IntentProjection

VARIABLES
    spent,       \* the tips of uninterrupted inspections that found a spend
    earlier      \* such tips from before an answer without inspection

historyVars == <<exec, winning, announced, spent, earlier>>

\* The hash is absent or its block could not be verified, and nothing was inspected.
Uninspected(o) == o.status = "UNKNOWN" /\ o.inspect = "NONE"

\* Sights of the transaction, and inspections that do not find a spend, speak
\* against it.
Disproving(o) == o.status \in Found \/ o.inspect \notin {"NONE", "CANONICALLY_SPENT"}

SpentAfter(o) ==
    CASE o.inspect = "CANONICALLY_SPENT" -> spent \cup {o.tip}
      [] Uninspected(o) \/ Disproving(o) -> {}
      [] OTHER -> spent

EarlierAfter(o) ==
    CASE Disproving(o) -> {}
      [] Uninspected(o) -> earlier \cup spent
      [] OTHER -> earlier

\* A promoted candidate brings along the evidence its attempt row was left with.
BroughtAlong(evidence) ==
    IF Continues(evidence) THEN {evidence.first, evidence.last} ELSE {}

Forget == spent' = {} /\ earlier' = {}

HistoryInit == Init /\ spent = {} /\ earlier = {}

HistoryNext ==
    \/ \E t \in TxHash, status \in {"PREPARED", "SUBMITTED"}, kind \in AttemptKind :
          /\ AttachTransaction(t, status, kind)
          /\ IF exec.tx = t THEN UNCHANGED <<spent, earlier>> ELSE Forget
    \/ \E status \in {"BROADCASTING", "SUBMITTED", "SUBMISSION_UNKNOWN", "NODE_REJECTED"},
          suspected \in BOOLEAN : MarkSubmission(status, suspected) /\ Forget
    \/ \E o \in Observations, competing \in BOOLEAN, monitored \in {FALSE, Monitoring} :
          /\ ReconcilePass(o, competing, monitored)
          /\ spent' = SpentAfter(o) /\ earlier' = EarlierAfter(o)
    \/ RpcFailurePass /\ Forget
    \/ \E t \in TxHash, sub \in SubmissionStatus, conflict \in Conflicts,
          o \in PromotingObservations :
          /\ PromoteCandidate(t, sub, conflict, o)
          /\ spent' = BroughtAlong(conflict.spend) /\ earlier' = {}

HistorySpec == HistoryInit /\ [][HistoryNext]_historyVars

-----------------------------------------------------------------------------
SpendConflict == exec.wf = "CONFLICTED" /\ exec.conflict.type = "INPUT_SPENT"

\* An intent is only conflicted over a spent input when an inspection found it
\* spent the policy's blocks after another one that did, and nothing but answers
\* without an inspection came between them: no outage, no live, contended or
\* uncertain input, no sight of the transaction, no new report
\* (conflictObservationMatured).  That those answers do not count is what the
\* code does; SpentIsMature is what README.md says.
SpentIsInspected ==
    SpendConflict => \E a \in spent \cup earlier, b \in spent : b >= a + MaturityWindow

\* README.md:9: conflicts "mature only from repeated uninterrupted chain
\* evidence; RPC uncertainty breaks that continuity".  An UNKNOWN answer is
\* uncertainty, whether or not inputs could be inspected.
SpentIsMature ==
    SpendConflict => \E a, b \in spent : b >= a + MaturityWindow
=============================================================================
