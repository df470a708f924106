--------------------------- MODULE TrackingSchedule ---------------------------
(***************************************************************************)
(* Who reconciles an intent, and when.  A submission report makes the row  *)
(* due and starts a durable workflow run unless the row names one already  *)
(* (startReconciliationWorkflow); the run reconciles in a loop and marks   *)
(* the row completed; a daily sweep reconciles what is due under a lease   *)
(* (reconcileDue); the API reconciles on request.                          *)
(*                                                                         *)
(* A pass is one step here: IntentTracking shows that passes over a        *)
(* versioned row are atomic.  What a pass finds on the chain is open, and  *)
(* a due time that was set is taken to be reached.                         *)
(*                                                                         *)
(* A request is a submission report together with the run it may start; it *)
(* stands for its "starting:" claim before the run id replaces it          *)
(* (named = FALSE) and for the run id after (named = TRUE).                *)
(***************************************************************************)
EXTENDS Integers, FiniteSets

CONSTANTS
    Request,       \* submission reports, each made at most once
    NoRequest,     \* workflow_run_id is null
    Sweep,         \* invocations of the maintenance route that may overlap
    NoSweep,       \* reconcile_lease_id is null
    Horizon,       \* iterations of a run (720 in the code)
    MaxFaults      \* bound: failed calls, dead processes, overruns

ASSUME RequestAssumption == NoRequest \notin Request /\ IsFiniteSet(Request)

ASSUME SweepAssumption == NoSweep \notin Sweep /\ IsFiniteSet(Sweep)

ASSUME BoundAssumption == Horizon \in Nat \ {0} /\ MaxFaults \in Nat

VARIABLES
    row,           \* the scheduling columns of the execution
    call,          \* where each request's handler is
    run,           \* the durable run each request started
    rounds,        \* iterations of each run
    sweep,         \* where each sweep is
    faults         \* faults so far

vars == <<row, call, run, rounds, sweep, faults>>

\* What the statuses say to claimDueExecutions: take the row, or leave it out
\* because it is conflicted, rejected or node-rejected.  A row left out is
\* "contested" while the last pass still found an unresolved replaced candidate.
View == {"open", "contested", "closed"}

\* due: next_reconcile_at is set; claim, named: workflow_run_id; completed:
\* workflow_completed_at is set; aged: workflow_started_at is a day old;
\* lease, live: reconcile_lease_id and reconcile_lease_until > now().
Columns == [due : BOOLEAN, view : View,
            claim : Request \cup {NoRequest}, named : BOOLEAN,
            completed : BOOLEAN, aged : BOOLEAN,
            lease : Sweep \cup {NoSweep}, live : BOOLEAN]

CallStage == {"new", "reported", "claimed", "started", "failed", "returned", "died"}
RunStage == {"none", "active", "ending", "ended", "failed"}
SweepStage == {"idle", "claimed", "working", "done"}

Init ==
    /\ row = [due |-> FALSE, view |-> "open", claim |-> NoRequest, named |-> FALSE,
              completed |-> FALSE, aged |-> FALSE, lease |-> NoSweep, live |-> FALSE]
    /\ call = [c \in Request |-> "new"]
    /\ run = [c \in Request |-> "none"]
    /\ rounds = [c \in Request |-> 0]
    /\ sweep = [w \in Sweep |-> "idle"]
    /\ faults = 0

Fault == faults < MaxFaults /\ faults' = faults + 1

CallGoesTo(c, stage) == call' = [call EXCEPT ![c] = stage]
RunGoesTo(c, stage) == run' = [run EXCEPT ![c] = stage]
SweepGoesTo(w, stage) == sweep' = [sweep EXCEPT ![w] = stage]

\* The row names a claim or a run that has not completed.
Open == row.claim # NoRequest /\ ~row.completed

-----------------------------------------------------------------------------
(* Submission reports: the routes submitted, ambiguous, rejected and track *)

\* markSubmission or attachTransaction with a reconciliation scheduled; the
\* workflow status is kept, a new hash resets it.
Report(c, view) ==
    /\ call[c] = "new"
    /\ view \in {row.view, "open"}
    /\ row' = [row EXCEPT !.due = TRUE, !.view = view]
    /\ CallGoesTo(c, "reported")
    /\ UNCHANGED <<run, rounds, sweep, faults>>

\* markSubmission with BROADCASTING or with a plain NODE_REJECTED keeps the
\* scheduled time and starts nothing.
Mark(view) ==
    /\ view \in {"open", "closed"}
    /\ row' = [row EXCEPT !.view = view]
    /\ UNCHANGED <<call, run, rounds, sweep, faults>>

\* attachTransaction with PREPARED: a new hash, not scheduled yet.
Prepare ==
    /\ row' = [row EXCEPT !.due = FALSE, !.view = "open"]
    /\ UNCHANGED <<call, run, rounds, sweep, faults>>

\* Fault: a claim that no run id has replaced yet is not respected.
FaultyMayStart == row.claim = NoRequest \/ row.completed \/ ~row.named

MayStart == row.claim = NoRequest \/ row.completed \/ row.aged

\* claimWorkflowStart; a refused call returns the id that is already there.
ClaimStart(c) ==
    /\ call[c] = "reported"
    /\ row' = IF MayStart
              THEN [row EXCEPT !.claim = c, !.named = FALSE,
                               !.completed = FALSE, !.aged = FALSE]
              ELSE row
    /\ CallGoesTo(c, IF MayStart THEN "claimed" ELSE "returned")
    /\ UNCHANGED <<run, rounds, sweep, faults>>

\* start(transactionReconciliationWorkflow, ...)
Start(c) ==
    /\ call[c] = "claimed"
    /\ RunGoesTo(c, "active")
    /\ CallGoesTo(c, "started")
    /\ UNCHANGED <<row, rounds, sweep, faults>>

\* start throws, perhaps after the run was created.
StartFails(c) ==
    /\ call[c] = "claimed"
    /\ Fault
    /\ \/ UNCHANGED run
       \/ RunGoesTo(c, "active")
    /\ CallGoesTo(c, "failed")
    /\ UNCHANGED <<row, rounds, sweep>>

HoldsClaim(c) == row.claim = c /\ ~row.named

Named(c) == IF HoldsClaim(c) THEN [row EXCEPT !.named = TRUE] ELSE row

\* replaceWorkflowClaim
Name(c) ==
    /\ call[c] = "started"
    /\ row' = Named(c)
    /\ CallGoesTo(c, "returned")
    /\ UNCHANGED <<run, rounds, sweep, faults>>

\* The replacement throws, perhaps after it was committed.
NameFails(c) ==
    /\ call[c] = "started"
    /\ Fault
    /\ row' \in {row, Named(c)}
    /\ CallGoesTo(c, "failed")
    /\ UNCHANGED <<run, rounds, sweep>>

\* releaseWorkflowClaim keeps workflow_completed_at.
GiveUp(c) ==
    /\ call[c] = "failed"
    /\ row' = IF HoldsClaim(c)
              THEN [row EXCEPT !.claim = NoRequest, !.aged = FALSE]
              ELSE row
    /\ CallGoesTo(c, "returned")
    /\ UNCHANGED <<run, rounds, sweep, faults>>

\* The handler dies, or the swallowed release fails.
CallDies(c) ==
    /\ call[c] \in {"reported", "claimed", "started", "failed"}
    /\ Fault
    /\ CallGoesTo(c, "died")
    /\ UNCHANGED <<row, run, rounds, sweep>>

-----------------------------------------------------------------------------
(* Passes *)

\* What a pass writes: due again, and contested or not; terminal and not due;
\* or not due because a node rejection was resolved.
Result == {r \in [due : BOOLEAN, view : View, terminal : BOOLEAN] :
              /\ r.due => ~r.terminal
              /\ r.view = "contested" => r.due
              /\ ~r.due /\ ~r.terminal => r.view = "closed"}

Written(r) == [row EXCEPT !.due = r.due, !.view = r.view]

\* The reconcile route
Reconcile(r) ==
    /\ row' = Written(r)
    /\ UNCHANGED <<call, run, rounds, sweep, faults>>

\* One iteration of transactionReconciliationWorkflow
Round(c, r) ==
    /\ run[c] = "active"
    /\ row' = Written(r)
    /\ rounds' = [rounds EXCEPT ![c] = @ + 1]
    /\ RunGoesTo(c, IF r.terminal \/ rounds[c] + 1 = Horizon THEN "ending" ELSE "active")
    /\ UNCHANGED <<call, sweep, faults>>

\* Fault: only the run that the row names completes it.
FaultyComplete(c) ==
    /\ run[c] = "ending"
    /\ row' = IF row.claim = c /\ row.named THEN [row EXCEPT !.completed = TRUE] ELSE row
    /\ RunGoesTo(c, "ended")
    /\ UNCHANGED <<call, rounds, sweep, faults>>

\* markWorkflowCompleted names the intent and not the run.
Complete(c) ==
    /\ run[c] = "ending"
    /\ row' = [row EXCEPT !.completed = TRUE]
    /\ RunGoesTo(c, "ended")
    /\ UNCHANGED <<call, rounds, sweep, faults>>

\* A step keeps throwing and the workflow engine gives the run up.
RunFails(c) ==
    /\ run[c] \in {"active", "ending"}
    /\ Fault
    /\ RunGoesTo(c, "failed")
    /\ UNCHANGED <<row, call, rounds, sweep>>

\* The open claim gets a day old.
ClaimAges ==
    /\ Open /\ ~row.aged
    /\ Fault
    /\ row' = [row EXCEPT !.aged = TRUE]
    /\ UNCHANGED <<call, run, rounds, sweep>>

-----------------------------------------------------------------------------
(* The sweep *)

\* Fault: a running lease does not keep others away.
FaultyLeaseIgnored == row.due /\ row.view = "open"

\* Fault: a lease is only taken when it was released.
FaultyExpiredKept == row.due /\ row.view = "open" /\ row.lease = NoSweep

\* claimDueExecutions
Claimable == row.due /\ row.view = "open" /\ ~row.live

SweepClaims(w) ==
    /\ sweep[w] = "idle"
    /\ Claimable
    /\ row' = [row EXCEPT !.lease = w, !.live = TRUE]
    /\ SweepGoesTo(w, "claimed")
    /\ UNCHANGED <<call, run, rounds, faults>>

\* renewReconcileLease does not ask whether the lease still runs.
Renew(w) ==
    /\ sweep[w] = "claimed"
    /\ row' = [row EXCEPT !.live = IF row.lease = w THEN TRUE ELSE @]
    /\ SweepGoesTo(w, IF row.lease = w THEN "working" ELSE "done")
    /\ UNCHANGED <<call, run, rounds, faults>>

\* reconcileIntent writes its result, or throws and writes nothing.
SweepPass(w) ==
    /\ sweep[w] = "working"
    /\ row' \in {row} \cup {Written(r) : r \in Result}
    /\ SweepGoesTo(w, "done")
    /\ UNCHANGED <<call, run, rounds, faults>>

\* Fault: the release leaves the time of the lease.
FaultyRelease(w) ==
    /\ sweep[w] = "done"
    /\ row' = IF row.lease = w THEN [row EXCEPT !.lease = NoSweep] ELSE row
    /\ SweepGoesTo(w, "idle")
    /\ UNCHANGED <<call, run, rounds, faults>>

\* releaseReconcileLease
Release(w) ==
    /\ sweep[w] = "done"
    /\ row' = IF row.lease = w THEN [row EXCEPT !.lease = NoSweep, !.live = FALSE] ELSE row
    /\ SweepGoesTo(w, "idle")
    /\ UNCHANGED <<call, run, rounds, faults>>

\* The process dies, or a database call outside the pass fails.
SweepDies(w) ==
    /\ sweep[w] # "idle"
    /\ Fault
    /\ SweepGoesTo(w, "idle")
    /\ UNCHANGED <<row, call, run, rounds>>

Abandoned == row.lease # NoSweep /\ sweep[row.lease] = "idle"

LeaseExpires ==
    /\ row.live /\ Abandoned
    /\ row' = [row EXCEPT !.live = FALSE]
    /\ UNCHANGED <<call, run, rounds, sweep, faults>>

\* The lease runs out while its holder still works.
LeaseOverrun ==
    /\ row.live /\ ~Abandoned
    /\ Fault
    /\ row' = [row EXCEPT !.live = FALSE]
    /\ UNCHANGED <<call, run, rounds, sweep>>

-----------------------------------------------------------------------------
CallProceeds(c) == ClaimStart(c) \/ Start(c) \/ Name(c) \/ GiveUp(c)

RunProceeds(c) == (\E r \in Result : Round(c, r)) \/ Complete(c)

SweepProceeds(w) == Renew(w) \/ SweepPass(w) \/ Release(w)

Next ==
    \/ \E c \in Request :
          \/ \E view \in View : Report(c, view)
          \/ CallProceeds(c)
          \/ StartFails(c)
          \/ NameFails(c)
          \/ CallDies(c)
          \/ RunProceeds(c)
          \/ RunFails(c)
    \/ \E view \in View : Mark(view)
    \/ Prepare
    \/ \E r \in Result : Reconcile(r)
    \/ ClaimAges
    \/ \E w \in Sweep :
          \/ SweepClaims(w)
          \/ SweepProceeds(w)
          \/ SweepDies(w)
    \/ LeaseExpires
    \/ LeaseOverrun

Spec == Init /\ [][Next]_vars

\* A handler and a run go on unless they fail, the cron keeps sweeping, and
\* the leases of dead sweeps expire.
Fairness ==
    /\ \A c \in Request : WF_vars(CallProceeds(c)) /\ WF_vars(RunProceeds(c))
    /\ WF_vars(\E w \in Sweep : SweepClaims(w))
    /\ \A w \in Sweep : WF_vars(SweepProceeds(w))
    /\ WF_vars(LeaseExpires)

FairSpec == Spec /\ Fairness

-----------------------------------------------------------------------------
(* Properties *)

\* Types of the row, the handlers, the runs and the sweeps; only a leased row
\* has a running lease.
TypeOK ==
    /\ row \in Columns
    /\ row.live => row.lease # NoSweep
    /\ call \in [Request -> CallStage]
    /\ run \in [Request -> RunStage]
    /\ rounds \in [Request -> 0 .. Horizon]
    /\ sweep \in [Sweep -> SweepStage]
    /\ faults \in 0 .. MaxFaults

Running == {c \in Request : run[c] \in {"active", "ending"}}

\* Starts are deduplicated: a second run of the intent is paid for by a call
\* that failed after its run existed or by a claim a day old, although any run
\* completes the row for all of them (claimWorkflowStart, markWorkflowCompleted).
RunsNeedFaults == Cardinality(Running) <= 1 + faults

\* The claim that turns a later start away is not a leftover: its handler or
\* its run goes on, or died (releaseWorkflowClaim, markWorkflowCompleted).
OpenClaimIsHeld ==
    Open => \/ run[row.claim] \in {"active", "ending", "failed"}
            \/ call[row.claim] \in {"claimed", "started", "failed", "died"}

\* Two sweeps reconcile the intent at once only after a fault
\* (claimDueExecutions, renewReconcileLease).
SweepsNeedFaults == Cardinality({w \in Sweep : sweep[w] = "working"}) <= 1 + faults

Served == (\E c \in Request : run[c] = "active") \/ (\E w \in Sweep : sweep[w] = "working")

\* A due row that the sweep may see gets a run or a sweep, unless it stops being
\* such a row, whatever starts, runs and sweeps died before (reconcileDue).
DueIsServed ==
    LET Waiting == row.due /\ row.view = "open" IN Waiting ~> (Served \/ ~Waiting)
=============================================================================
