----------------------- MODULE TrackingSchedule_proofs -----------------------
(***************************************************************************)
(* Theorems about TrackingSchedule for every set of requests and sweeps,   *)
(* every horizon and every number of faults.                               *)
(***************************************************************************)
EXTENDS TrackingSchedule, FiniteSetTheorems, TLAPS

\* A run exists once its handler has started it, and ends at its horizon.
StagesFit ==
    \A c \in Request :
        /\ run[c] \in {"none", "active"} => rounds[c] < Horizon
        /\ call[c] \in {"new", "reported", "claimed"} => run[c] = "none"
        /\ call[c] = "started" => run[c] # "none"

\* The open claim in detail: before it is named its handler has claimed and not
\* returned, after that its run exists; the run has not completed the row.
ClaimHeld ==
    Open => /\ run[row.claim] # "ended"
            /\ row.named => run[row.claim] # "none"
            /\ ~row.named => call[row.claim] \in {"claimed", "started", "failed", "died"}

IInv == TypeOK /\ StagesFit /\ ClaimHeld

SameClaim == /\ row'.claim = row.claim /\ row'.named = row.named
             /\ row'.completed = row.completed /\ row'.aged = row.aged

SameLease == row'.lease = row.lease /\ row'.live = row.live

-----------------------------------------------------------------------------
(* The rows that the steps write *)

\* A pass, a report or a preparation writes the schedule and nothing else.
LEMMA Scheduled ==
    ASSUME row \in Columns, NEW due \in BOOLEAN, NEW view \in View,
           row' = [row EXCEPT !.due = due, !.view = view]
    PROVE  row' \in Columns /\ SameClaim /\ SameLease
BY DEF Columns, SameClaim, SameLease

\* What a pass writes is such a schedule.
LEMMA PassWritten ==
    ASSUME row \in Columns, NEW r \in Result, row' = Written(r)
    PROVE  row' \in Columns /\ SameClaim /\ SameLease
BY Scheduled DEF Result, Written

LEMMA Marked ==
    ASSUME row \in Columns, NEW view \in View, row' = [row EXCEPT !.view = view]
    PROVE  row' \in Columns /\ SameClaim /\ SameLease
BY DEF Columns, SameClaim, SameLease

LEMMA Claimed ==
    ASSUME row \in Columns, NEW c \in Request,
           row' = [row EXCEPT !.claim = c, !.named = FALSE, !.completed = FALSE, !.aged = FALSE]
    PROVE  /\ row' \in Columns /\ SameLease
           /\ row'.claim = c /\ row'.named = FALSE
           /\ row'.completed = FALSE /\ row'.aged = FALSE
BY DEF Columns, SameLease

LEMMA NamedWritten ==
    ASSUME row \in Columns, row' = [row EXCEPT !.named = TRUE]
    PROVE  /\ row' \in Columns /\ SameLease
           /\ row'.named = TRUE /\ row'.claim = row.claim
           /\ row'.completed = row.completed /\ row'.aged = row.aged
BY DEF Columns, SameLease

LEMMA GivenUp ==
    ASSUME row \in Columns, row' = [row EXCEPT !.claim = NoRequest, !.aged = FALSE]
    PROVE  /\ row' \in Columns /\ SameLease
           /\ row'.claim = NoRequest
BY DEF Columns, SameLease

LEMMA CompletedWritten ==
    ASSUME row \in Columns, row' = [row EXCEPT !.completed = TRUE]
    PROVE  row' \in Columns /\ SameLease /\ row'.completed = TRUE
BY DEF Columns, SameLease

LEMMA AgedWritten ==
    ASSUME row \in Columns, row' = [row EXCEPT !.aged = TRUE]
    PROVE  /\ row' \in Columns /\ SameLease
           /\ row'.claim = row.claim /\ row'.named = row.named
           /\ row'.completed = row.completed
BY DEF Columns, SameLease

LEMMA Leased ==
    ASSUME row \in Columns, NEW lease \in Sweep \cup {NoSweep}, NEW live \in BOOLEAN,
           row' = [row EXCEPT !.lease = lease, !.live = live]
    PROVE  row' \in Columns /\ SameClaim /\ row'.lease = lease /\ row'.live = live
BY DEF Columns, SameClaim

LEMMA LiveWritten ==
    ASSUME row \in Columns, NEW live \in BOOLEAN, row' = [row EXCEPT !.live = live]
    PROVE  row' \in Columns /\ SameClaim /\ row'.lease = row.lease /\ row'.live = live
BY DEF Columns, SameClaim

\* Naming and a failed naming leave a row that is open as before.
LEMMA MaybeNamed ==
    ASSUME row \in Columns, NEW c \in Request, row' \in {row, Named(c)}
    PROVE  /\ row' \in Columns /\ SameLease
           /\ row'.claim = row.claim /\ row'.completed = row.completed /\ row'.aged = row.aged
           /\ row'.named = row.named \/ (HoldsClaim(c) /\ row'.named = TRUE)
<1>1. CASE row' = row
  BY <1>1 DEF SameLease
<1>2. CASE row' = [row EXCEPT !.named = TRUE] /\ HoldsClaim(c)
  BY <1>2, NamedWritten
<1> QED BY <1>1, <1>2 DEF Named

LEMMA FaultCounted ==
    ASSUME TypeOK, Fault PROVE faults' \in 0 .. MaxFaults /\ faults' = faults + 1
BY BoundAssumption DEF TypeOK, Fault

-----------------------------------------------------------------------------
(* Initial state *)

LEMMA InitInvariant == Init => IInv
<1> SUFFICES ASSUME Init PROVE IInv
  OBVIOUS
<1>1. row \in Columns /\ ~row.live /\ row.claim = NoRequest
  BY DEF Init, Columns, View
<1>2. TypeOK
  BY <1>1, BoundAssumption DEF Init, TypeOK, CallStage, RunStage, SweepStage
<1> QED BY <1>1, <1>2, BoundAssumption DEF IInv, Init, StagesFit, ClaimHeld, Open

-----------------------------------------------------------------------------
(* The steps that touch neither a handler nor a run *)

Elsewhere ==
    \/ \E view \in View : Mark(view)
    \/ Prepare
    \/ \E r \in Result : Reconcile(r)
    \/ \E w \in Sweep : SweepClaims(w) \/ SweepProceeds(w) \/ SweepDies(w)
    \/ LeaseExpires
    \/ LeaseOverrun

\* They leave the claim alone and write a row of the right type.
LEMMA ElsewhereEffect ==
    ASSUME TypeOK, Elsewhere
    PROVE  /\ SameClaim /\ UNCHANGED <<call, run, rounds>>
           /\ faults' \in {faults, faults + 1} /\ TypeOK'
<1>a. /\ row \in Columns /\ (row.live => row.lease # NoSweep)
      /\ sweep \in [Sweep -> SweepStage] /\ faults \in 0 .. MaxFaults
      /\ call \in [Request -> CallStage] /\ run \in [Request -> RunStage]
      /\ rounds \in [Request -> 0 .. Horizon]
  BY DEF TypeOK
<1> DEFINE Goal == /\ row' \in Columns /\ (row'.live => row'.lease # NoSweep)
                   /\ SameClaim /\ UNCHANGED <<call, run, rounds>>
                   /\ sweep' \in [Sweep -> SweepStage]
                   /\ faults' \in 0 .. MaxFaults /\ faults' \in {faults, faults + 1}
<1>1. ASSUME NEW view \in View, Mark(view) PROVE Goal
  BY <1>1, <1>a, Marked DEF Mark, SameLease
<1>2. ASSUME Prepare PROVE Goal
  <2>1. PICK due \in BOOLEAN, view \in View : row' = [row EXCEPT !.due = due, !.view = view]
    BY <1>2 DEF Prepare, View
  <2>2. row' \in Columns /\ SameClaim /\ SameLease
    BY <1>a, <2>1, Scheduled
  <2> QED BY <1>2, <1>a, <2>2 DEF Prepare, SameLease
<1>3. ASSUME NEW r \in Result, Reconcile(r) PROVE Goal
  BY <1>3, <1>a, PassWritten DEF Reconcile, SameLease
<1>4. ASSUME NEW w \in Sweep, SweepClaims(w) PROVE Goal
  <2>1. row' = [row EXCEPT !.lease = w, !.live = TRUE]
    BY <1>4 DEF SweepClaims
  <2>2. row' \in Columns /\ SameClaim /\ row'.lease = w
    BY <1>a, <2>1, Leased
  <2> QED BY <1>4, <1>a, <2>2, SweepAssumption DEF SweepClaims, SweepGoesTo, SweepStage
<1>5. ASSUME NEW w \in Sweep, Renew(w) PROVE Goal
  <2> DEFINE live == IF row.lease = w THEN TRUE ELSE row.live
  <2>1. live \in BOOLEAN
    BY <1>a DEF Columns
  <2>2. row' = [row EXCEPT !.live = live]
    BY <1>5 DEF Renew
  <2>3. live => row.lease # NoSweep
    BY <1>a, SweepAssumption
  <2> HIDE DEF live
  <2>4. row' \in Columns /\ SameClaim /\ row'.lease = row.lease /\ row'.live = live
    BY <1>a, <2>1, <2>2, LiveWritten
  <2> QED BY <1>5, <1>a, <2>3, <2>4 DEF Renew, SweepGoesTo, SweepStage
<1>6. ASSUME NEW w \in Sweep, SweepPass(w) PROVE Goal
  <2>1. row' \in Columns /\ SameClaim /\ SameLease
    <3>1. CASE row' = row
      BY <3>1, <1>a DEF SameClaim, SameLease
    <3>2. ASSUME NEW r \in Result, row' = Written(r) PROVE row' \in Columns /\ SameClaim /\ SameLease
      BY <3>2, <1>a, PassWritten
    <3> QED BY <1>6, <3>1, <3>2 DEF SweepPass
  <2> QED BY <1>6, <1>a, <2>1 DEF SweepPass, SameLease, SweepGoesTo, SweepStage
<1>7. ASSUME NEW w \in Sweep, Release(w) PROVE Goal
  <2>1. CASE row.lease = w
    <3>1. row' = [row EXCEPT !.lease = NoSweep, !.live = FALSE]
      BY <1>7, <2>1 DEF Release
    <3>2. row' \in Columns /\ SameClaim /\ row'.live = FALSE
      BY <1>a, <3>1, Leased
    <3> QED BY <1>7, <1>a, <3>2 DEF Release, SweepGoesTo, SweepStage
  <2>2. CASE row.lease # w
    BY <1>7, <1>a, <2>2 DEF Release, SameClaim, SweepGoesTo, SweepStage
  <2> QED BY <2>1, <2>2
<1>8. ASSUME NEW w \in Sweep, SweepDies(w) PROVE Goal
  BY <1>8, <1>a, FaultCounted DEF SweepDies, SameClaim, SweepGoesTo, SweepStage
<1>9. ASSUME LeaseExpires \/ LeaseOverrun PROVE Goal
  <2>1. row' = [row EXCEPT !.live = FALSE]
    BY <1>9 DEF LeaseExpires, LeaseOverrun
  <2>2. row' \in Columns /\ SameClaim /\ row'.live = FALSE
    BY <1>a, <2>1, LiveWritten
  <2>3. faults' \in 0 .. MaxFaults /\ faults' \in {faults, faults + 1}
    <3>1. CASE LeaseExpires
      BY <3>1, <1>a DEF LeaseExpires
    <3>2. CASE LeaseOverrun
      BY <3>2, FaultCounted DEF LeaseOverrun
    <3> QED BY <1>9, <3>1, <3>2
  <2>4. UNCHANGED <<call, run, rounds, sweep>>
    BY <1>9 DEF LeaseExpires, LeaseOverrun
  <2> QED BY <1>a, <2>2, <2>3, <2>4
<1> HIDE DEF Goal
<1>10. Goal
  BY <1>1, <1>2, <1>3, <1>4, <1>5, <1>6, <1>7, <1>8, <1>9 DEF Elsewhere, SweepProceeds
<1> QED BY <1>a, <1>10 DEF TypeOK, Goal

-----------------------------------------------------------------------------
(* The invariant *)

\* A handler that moves, alone or with its run.
LEMMA CallMoved ==
    ASSUME TypeOK, NEW c \in Request, NEW stage \in CallStage, CallGoesTo(c, stage)
    PROVE  /\ call' \in [Request -> CallStage] /\ call'[c] = stage
           /\ \A d \in Request \ {c} : call'[d] = call[d]
BY DEF TypeOK, CallGoesTo

LEMMA RunMoved ==
    ASSUME TypeOK, NEW c \in Request, NEW stage \in RunStage, RunGoesTo(c, stage)
    PROVE  /\ run' \in [Request -> RunStage] /\ run'[c] = stage
           /\ \A d \in Request \ {c} : run'[d] = run[d]
BY DEF TypeOK, RunGoesTo

\* The type invariant after a step that leaves the sweeps alone.
LEMMA TypeKept ==
    ASSUME TypeOK, row' \in Columns, SameLease,
           call' \in [Request -> CallStage], run' \in [Request -> RunStage],
           rounds' \in [Request -> 0 .. Horizon], sweep' = sweep,
           faults' \in 0 .. MaxFaults
    PROVE  TypeOK'
BY DEF TypeOK, SameLease

\* A step that takes no claim and names none keeps the claim held, provided its
\* handler and its run do not leave it behind.
LEMMA StillHeld ==
    ASSUME TypeOK, ClaimHeld, SameClaim,
           \A d \in Request : run[d] # "none" => run'[d] # "none",
           \A d \in Request : run'[d] = "ended" => run[d] = "ended",
           \A d \in Request : call[d] \in {"claimed", "started", "failed", "died"} =>
                call'[d] \in {"claimed", "started", "failed", "died"} \/ (row.claim = d => row.named)
    PROVE  ClaimHeld'
<1>1. row.claim # NoRequest => row.claim \in Request
  BY DEF TypeOK, Columns
<1> QED BY <1>1 DEF ClaimHeld, SameClaim, Open

LEMMA StepInvariant == IInv /\ [Next]_vars => IInv'
<1> SUFFICES ASSUME IInv, [Next]_vars PROVE IInv'
  OBVIOUS
<1>a. /\ TypeOK /\ StagesFit /\ ClaimHeld
      /\ row \in Columns /\ faults \in 0 .. MaxFaults
      /\ call \in [Request -> CallStage] /\ run \in [Request -> RunStage]
      /\ rounds \in [Request -> 0 .. Horizon]
      /\ row.claim \in Request \cup {NoRequest}
  BY DEF IInv, TypeOK, Columns
<1>1. ASSUME NEW c \in Request, NEW view \in View, Report(c, view) PROVE IInv'
  <2>1. PICK due \in BOOLEAN : row' = [row EXCEPT !.due = due, !.view = view]
    BY <1>1 DEF Report
  <2>2. row' \in Columns /\ SameClaim /\ SameLease
    BY <1>a, <2>1, Scheduled
  <2>3. /\ call[c] = "new" /\ CallGoesTo(c, "reported")
        /\ UNCHANGED <<run, rounds, sweep, faults>>
    BY <1>1 DEF Report
  <2>4. /\ call' \in [Request -> CallStage] /\ call'[c] = "reported"
        /\ \A d \in Request \ {c} : call'[d] = call[d]
    BY <1>a, <2>3, CallMoved DEF CallStage
  <2>5. TypeOK'
    BY <1>a, <2>2, <2>3, <2>4, TypeKept
  <2>6. StagesFit'
    BY <1>a, <2>3, <2>4 DEF StagesFit
  <2>7. ClaimHeld'
    BY <1>a, <2>2, <2>3, <2>4, StillHeld
  <2> QED BY <2>5, <2>6, <2>7 DEF IInv
<1>2. ASSUME NEW c \in Request, ClaimStart(c) PROVE IInv'
  <2>1. /\ call[c] = "reported" /\ run[c] = "none" /\ UNCHANGED <<run, rounds, sweep, faults>>
    BY <1>2, <1>a DEF ClaimStart, StagesFit
  <2>2. CASE MayStart
    <3>1. row' = [row EXCEPT !.claim = c, !.named = FALSE, !.completed = FALSE, !.aged = FALSE]
          /\ CallGoesTo(c, "claimed")
      BY <1>2, <2>2 DEF ClaimStart
    <3>2. row' \in Columns /\ SameLease /\ row'.claim = c /\ row'.named = FALSE
      BY <1>a, <3>1, Claimed
    <3>3. /\ call' \in [Request -> CallStage] /\ call'[c] = "claimed"
          /\ \A d \in Request \ {c} : call'[d] = call[d]
      BY <1>a, <3>1, CallMoved DEF CallStage
    <3>4. TypeOK'
      BY <1>a, <2>1, <3>2, <3>3, TypeKept
    <3>5. StagesFit'
      BY <1>a, <2>1, <3>3 DEF StagesFit
    <3>6. ClaimHeld'
      BY <2>1, <3>2, <3>3 DEF ClaimHeld
    <3> QED BY <3>4, <3>5, <3>6 DEF IInv
  <2>3. CASE ~MayStart
    <3>1. row' = row /\ CallGoesTo(c, "returned")
      BY <1>2, <2>3 DEF ClaimStart
    <3>2. row' \in Columns /\ SameClaim /\ SameLease
      BY <1>a, <3>1 DEF SameClaim, SameLease
    <3>3. /\ call' \in [Request -> CallStage] /\ call'[c] = "returned"
          /\ \A d \in Request \ {c} : call'[d] = call[d]
      BY <1>a, <3>1, CallMoved DEF CallStage
    <3>4. TypeOK'
      BY <1>a, <2>1, <3>2, <3>3, TypeKept
    <3>5. StagesFit'
      BY <1>a, <2>1, <3>3 DEF StagesFit
    <3>6. ClaimHeld'
      BY <1>a, <2>1, <3>2, <3>3, StillHeld
    <3> QED BY <3>4, <3>5, <3>6 DEF IInv
  <2> QED BY <2>2, <2>3
<1>3. ASSUME NEW c \in Request, Start(c) \/ StartFails(c) PROVE IInv'
  <2>1. /\ call[c] = "claimed" /\ run[c] = "none" /\ UNCHANGED <<row, rounds, sweep>>
        /\ SameClaim /\ SameLease
    BY <1>3, <1>a DEF Start, StartFails, StagesFit, SameClaim, SameLease
  <2>2. PICK stage \in {"started", "failed"} : CallGoesTo(c, stage)
    BY <1>3 DEF Start, StartFails
  <2>3. /\ call' \in [Request -> CallStage] /\ call'[c] = stage
        /\ \A d \in Request \ {c} : call'[d] = call[d]
    BY <1>a, <2>2, CallMoved DEF CallStage
  <2>4. /\ run' \in [Request -> RunStage]
        /\ \A d \in Request \ {c} : run'[d] = run[d]
        /\ run'[c] = "active" \/ (run'[c] = "none" /\ call'[c] = "failed")
    <3>1. CASE RunGoesTo(c, "active")
      BY <1>a, <3>1, RunMoved DEF RunStage
    <3>2. CASE StartFails(c) /\ run' = run
      BY <1>a, <2>1, <3>2, CallMoved DEF StartFails, CallStage
    <3> QED BY <1>3, <3>1, <3>2 DEF Start, StartFails
  <2>5. faults' \in 0 .. MaxFaults
    BY <1>3, <1>a, FaultCounted DEF Start, StartFails
  <2>6. TypeOK'
    BY <1>a, <2>1, <2>3, <2>4, <2>5, TypeKept
  <2>7. StagesFit'
    BY <1>a, <2>1, <2>2, <2>3, <2>4 DEF StagesFit
  <2>8. ClaimHeld'
    BY <1>a, <2>1, <2>2, <2>3, <2>4, StillHeld
  <2> QED BY <2>6, <2>7, <2>8 DEF IInv
<1>4. ASSUME NEW c \in Request, Name(c) \/ NameFails(c) PROVE IInv'
  <2>1. /\ call[c] = "started" /\ run[c] # "none" /\ UNCHANGED <<run, rounds, sweep>>
        /\ row' = Named(c) \/ (row' = row /\ CallGoesTo(c, "failed"))
    BY <1>4, <1>a DEF Name, NameFails, StagesFit
  <2>2. /\ row' \in Columns /\ SameLease
        /\ row'.claim = row.claim /\ row'.completed = row.completed /\ row'.aged = row.aged
        /\ row'.named = row.named \/ (HoldsClaim(c) /\ row'.named = TRUE)
    BY <1>a, <2>1, MaybeNamed
  <2>3. PICK stage \in {"returned", "failed"} : CallGoesTo(c, stage)
    BY <1>4 DEF Name, NameFails
  <2>4. /\ call' \in [Request -> CallStage] /\ call'[c] = stage
        /\ \A d \in Request \ {c} : call'[d] = call[d]
    BY <1>a, <2>3, CallMoved DEF CallStage
  <2>5. faults' \in 0 .. MaxFaults
    BY <1>4, <1>a, FaultCounted DEF Name, NameFails
  <2>6. TypeOK'
    BY <1>a, <2>1, <2>2, <2>4, <2>5, TypeKept
  <2>7. StagesFit'
    BY <1>a, <2>1, <2>3, <2>4 DEF StagesFit
  <2>8. ClaimHeld'
    <3>1. CASE HoldsClaim(c) /\ row'.named = TRUE
      BY <1>a, <2>1, <2>2, <3>1 DEF ClaimHeld, Open, HoldsClaim
    <3>2. CASE ~HoldsClaim(c)
      <4>1. SameClaim /\ (row.claim = c => row.named)
        BY <2>2, <3>2 DEF SameClaim, HoldsClaim
      <4> QED BY <1>a, <2>1, <2>4, <4>1, StillHeld
    <3>3. CASE row' = row /\ CallGoesTo(c, "failed")
      <4>1. SameClaim /\ call'[c] = "failed"
        BY <1>a, <3>3, CallMoved DEF SameClaim, CallStage
      <4> QED BY <1>a, <2>1, <2>4, <4>1, StillHeld
    <3>4. CASE HoldsClaim(c) /\ row' = Named(c)
      <4>1. row'.named = TRUE
        BY <1>a, <3>4, NamedWritten DEF Named
      <4> QED BY <3>1, <3>4, <4>1
    <3> QED BY <2>1, <3>2, <3>3, <3>4
  <2> QED BY <2>6, <2>7, <2>8 DEF IInv
<1>5. ASSUME NEW c \in Request, GiveUp(c) PROVE IInv'
  <2>1. /\ call[c] = "failed" /\ UNCHANGED <<run, rounds, sweep, faults>>
        /\ CallGoesTo(c, "returned")
    BY <1>5 DEF GiveUp
  <2>2. /\ call' \in [Request -> CallStage] /\ call'[c] = "returned"
        /\ \A d \in Request \ {c} : call'[d] = call[d]
    BY <1>a, <2>1, CallMoved DEF CallStage
  <2>3. StagesFit'
    BY <1>a, <2>1, <2>2 DEF StagesFit
  <2>4. CASE HoldsClaim(c)
    <3>1. row' \in Columns /\ SameLease /\ row'.claim = NoRequest
      BY <1>5, <1>a, <2>4, GivenUp DEF GiveUp
    <3>2. TypeOK'
      BY <1>a, <2>1, <2>2, <3>1, TypeKept
    <3> QED BY <2>3, <3>1, <3>2 DEF IInv, ClaimHeld, Open
  <2>5. CASE ~HoldsClaim(c)
    <3>1. row' = row /\ SameClaim /\ SameLease /\ (row.claim = c => row.named)
      BY <1>5, <2>5 DEF GiveUp, SameClaim, SameLease, HoldsClaim
    <3>2. TypeOK'
      BY <1>a, <2>1, <2>2, <3>1, TypeKept
    <3>3. ClaimHeld'
      BY <1>a, <2>1, <2>2, <3>1, StillHeld
    <3> QED BY <2>3, <3>2, <3>3 DEF IInv
  <2> QED BY <2>4, <2>5
<1>6. ASSUME NEW c \in Request, CallDies(c) PROVE IInv'
  <2>1. /\ call[c] \in {"reported", "claimed", "started", "failed"}
        /\ UNCHANGED <<row, run, rounds, sweep>> /\ SameClaim /\ SameLease
        /\ CallGoesTo(c, "died") /\ faults' \in 0 .. MaxFaults
    BY <1>6, <1>a, FaultCounted DEF CallDies, SameClaim, SameLease
  <2>2. /\ call' \in [Request -> CallStage] /\ call'[c] = "died"
        /\ \A d \in Request \ {c} : call'[d] = call[d]
    BY <1>a, <2>1, CallMoved DEF CallStage
  <2>3. TypeOK'
    BY <1>a, <2>1, <2>2, TypeKept
  <2>4. StagesFit'
    BY <1>a, <2>1, <2>2 DEF StagesFit
  <2>5. ClaimHeld'
    BY <1>a, <2>1, <2>2, StillHeld
  <2> QED BY <2>3, <2>4, <2>5 DEF IInv
<1>7. ASSUME NEW c \in Request, NEW r \in Result, Round(c, r) PROVE IInv'
  <2>1. /\ run[c] = "active" /\ row' = Written(r) /\ UNCHANGED <<call, sweep, faults>>
        /\ rounds' = [rounds EXCEPT ![c] = @ + 1]
    BY <1>7 DEF Round
  <2>2. row' \in Columns /\ SameClaim /\ SameLease
    BY <1>a, <2>1, PassWritten
  <2>3. PICK stage \in {"active", "ending"} :
            RunGoesTo(c, stage) /\ (stage = "active" => rounds[c] + 1 # Horizon)
    BY <1>7 DEF Round
  <2>4. /\ run' \in [Request -> RunStage] /\ run'[c] = stage
        /\ \A d \in Request \ {c} : run'[d] = run[d]
    BY <1>a, <2>3, RunMoved DEF RunStage
  <2>5. rounds' \in [Request -> 0 .. Horizon]
    BY <1>a, <2>1, BoundAssumption DEF StagesFit
  <2>6. TypeOK'
    BY <1>a, <2>1, <2>2, <2>4, <2>5, TypeKept
  <2>7. StagesFit'
    <3>1. run'[c] = "active" => rounds'[c] < Horizon
      BY <1>a, <2>1, <2>3, <2>4, BoundAssumption DEF StagesFit
    <3>2. \A d \in Request \ {c} : rounds'[d] = rounds[d]
      BY <1>a, <2>1
    <3> QED BY <1>a, <2>1, <2>3, <2>4, <3>1, <3>2 DEF StagesFit
  <2>8. ClaimHeld'
    BY <1>a, <2>1, <2>2, <2>3, <2>4, StillHeld
  <2> QED BY <2>6, <2>7, <2>8 DEF IInv
<1>8. ASSUME NEW c \in Request, Complete(c) PROVE IInv'
  <2>1. /\ run[c] = "ending" /\ UNCHANGED <<call, rounds, sweep, faults>>
        /\ row' = [row EXCEPT !.completed = TRUE] /\ RunGoesTo(c, "ended")
    BY <1>8 DEF Complete
  <2>2. row' \in Columns /\ SameLease /\ row'.completed = TRUE
    BY <1>a, <2>1, CompletedWritten
  <2>3. /\ run' \in [Request -> RunStage] /\ run'[c] = "ended"
        /\ \A d \in Request \ {c} : run'[d] = run[d]
    BY <1>a, <2>1, RunMoved DEF RunStage
  <2>4. TypeOK'
    BY <1>a, <2>1, <2>2, <2>3, TypeKept
  <2>5. StagesFit'
    BY <1>a, <2>1, <2>3 DEF StagesFit
  <2> QED BY <2>2, <2>4, <2>5 DEF IInv, ClaimHeld, Open
<1>9. ASSUME NEW c \in Request, RunFails(c) PROVE IInv'
  <2>1. /\ run[c] \in {"active", "ending"} /\ UNCHANGED <<row, call, rounds, sweep>>
        /\ SameClaim /\ SameLease /\ RunGoesTo(c, "failed") /\ faults' \in 0 .. MaxFaults
    BY <1>9, <1>a, FaultCounted DEF RunFails, SameClaim, SameLease
  <2>2. /\ run' \in [Request -> RunStage] /\ run'[c] = "failed"
        /\ \A d \in Request \ {c} : run'[d] = run[d]
    BY <1>a, <2>1, RunMoved DEF RunStage
  <2>3. TypeOK'
    BY <1>a, <2>1, <2>2, TypeKept
  <2>4. StagesFit'
    BY <1>a, <2>1, <2>2 DEF StagesFit
  <2>5. ClaimHeld'
    BY <1>a, <2>1, <2>2, StillHeld
  <2> QED BY <2>3, <2>4, <2>5 DEF IInv
<1>10. CASE ClaimAges
  <2>1. /\ UNCHANGED <<call, run, rounds, sweep>> /\ faults' \in 0 .. MaxFaults
        /\ row' = [row EXCEPT !.aged = TRUE]
    BY <1>10, <1>a, FaultCounted DEF ClaimAges
  <2>2. /\ row' \in Columns /\ SameLease
        /\ row'.claim = row.claim /\ row'.named = row.named /\ row'.completed = row.completed
    BY <1>a, <2>1, AgedWritten
  <2>3. TypeOK'
    BY <1>a, <2>1, <2>2, TypeKept
  <2>4. StagesFit' /\ ClaimHeld'
    BY <1>a, <2>1, <2>2 DEF StagesFit, ClaimHeld, Open
  <2> QED BY <2>3, <2>4 DEF IInv
<1>11. CASE Elsewhere
  <2>1. SameClaim /\ UNCHANGED <<call, run, rounds>> /\ TypeOK'
    BY <1>a, <1>11, ElsewhereEffect
  <2>2. StagesFit'
    BY <1>a, <2>1 DEF StagesFit
  <2>3. ClaimHeld'
    BY <1>a, <2>1, StillHeld
  <2> QED BY <2>1, <2>2, <2>3 DEF IInv
<1>12. CASE UNCHANGED vars
  BY <1>12, <1>a DEF vars, IInv, TypeOK, StagesFit, ClaimHeld, Open
<1> QED
  BY <1>1, <1>2, <1>3, <1>4, <1>5, <1>6, <1>7, <1>8, <1>9, <1>10, <1>11, <1>12
  DEF Next, CallProceeds, RunProceeds, Elsewhere

\* The invariant holds for every set of requests and sweeps, every horizon and
\* any number of faults.
THEOREM Invariance == Spec => []IInv
BY InitInvariant, StepInvariant, PTL DEF Spec

\* Type correctness: runs never pass their horizon and only a leased row has a
\* running lease.
THEOREM TypeCorrect == Spec => []TypeOK
BY Invariance, PTL DEF IInv

\* A claim that turns later starts away always belongs to a handler or a run
\* that goes on, or that died by a fault.
THEOREM ClaimsAreHeld == Spec => []OpenClaimIsHeld
<1>1. IInv => OpenClaimIsHeld
  <2> SUFFICES ASSUME IInv, Open PROVE OpenClaimIsHeld
    BY DEF OpenClaimIsHeld
  <2>1. row.claim \in Request /\ run[row.claim] \in RunStage /\ row.named \in BOOLEAN
    BY DEF IInv, TypeOK, Columns, Open
  <2> QED BY <2>1 DEF IInv, ClaimHeld, OpenClaimIsHeld, RunStage
<1> QED BY <1>1, Invariance, PTL

-----------------------------------------------------------------------------
(***************************************************************************)
(* Counting runs.  Besides the runs that exist, a handler that holds a     *)
(* claim and has not started its run will add one.  An aged claim lets one *)
(* more request in, and so does a handler about to give its claim up; both *)
(* have been paid for by a fault.                                          *)
(***************************************************************************)
Driver == {c \in Request : call[c] = "claimed" \/ run[c] \in {"active", "ending"}}

GivingUp == Open /\ ~row.named /\ call[row.claim] = "failed"

Count(b) == IF b THEN 1 ELSE 0

\* The strengthening of RunsNeedFaults that steps preserve.
RunsPaid ==
    Cardinality(Driver) + Count(Open /\ row.aged) + Count(GivingUp) <= faults + Count(Open)

\* Sizes of subsets of a finite set.
LEMMA Sizes ==
    ASSUME NEW P, IsFiniteSet(P), NEW S \in SUBSET P, NEW T \in SUBSET P
    PROVE  /\ IsFiniteSet(S) /\ IsFiniteSet(T)
           /\ Cardinality(S) \in Nat /\ Cardinality(T) \in Nat
           /\ T \subseteq S => Cardinality(T) <= Cardinality(S)
<1>1. IsFiniteSet(S) /\ IsFiniteSet(T)
  BY FS_Subset
<1> QED BY <1>1, FS_CardinalityType, FS_Subset

\* Sizes of subsets that differ in one element.
LEMMA Counting ==
    ASSUME NEW P, IsFiniteSet(P), NEW S \in SUBSET P, NEW T \in SUBSET P, NEW e \in P
    PROVE  /\ T \subseteq S \ {e} /\ e \in S => Cardinality(T) + 1 <= Cardinality(S)
           /\ T \subseteq S \cup {e} => Cardinality(T) <= Cardinality(S) + 1
<1>1. IsFiniteSet(S) /\ Cardinality(S) \in Nat /\ Cardinality(T) \in Nat
  BY Sizes
<1>2. ASSUME T \subseteq S \ {e}, e \in S PROVE Cardinality(T) + 1 <= Cardinality(S)
  <2>1. IsFiniteSet(S \ {e}) /\ Cardinality(S \ {e}) = Cardinality(S) - 1
    BY <1>1, <1>2, FS_RemoveElement
  <2>2. Cardinality(T) <= Cardinality(S \ {e})
    BY <1>2, <2>1, FS_Subset
  <2> QED BY <1>1, <2>1, <2>2
<1>3. ASSUME T \subseteq S \cup {e} PROVE Cardinality(T) <= Cardinality(S) + 1
  <2>1. /\ IsFiniteSet(S \cup {e})
        /\ Cardinality(S \cup {e}) = IF e \in S THEN Cardinality(S) ELSE Cardinality(S) + 1
    BY <1>1, FS_AddElement
  <2>2. Cardinality(T) <= Cardinality(S \cup {e})
    BY <1>3, <2>1, FS_Subset
  <2> QED BY <1>1, <2>1, <2>2
<1> QED BY <1>2, <1>3

LEMMA DriverSizes ==
    ASSUME IInv, IInv'
    PROVE  /\ Driver \in SUBSET Request /\ Driver' \in SUBSET Request
           /\ Cardinality(Driver) \in Nat /\ Cardinality(Driver') \in Nat
           /\ faults \in Nat /\ faults' \in Nat
           /\ Driver' \subseteq Driver => Cardinality(Driver') <= Cardinality(Driver)
<1>1. Driver \in SUBSET Request /\ Driver' \in SUBSET Request
  BY DEF Driver
<1>2. faults \in Nat /\ faults' \in Nat
  BY DEF IInv, TypeOK
<1> QED BY <1>1, <1>2, RequestAssumption, Sizes

\* Steps that start no run and leave the row as open and as old as it was.
LEMMA NoNewDriver ==
    ASSUME IInv, IInv', RunsPaid, Driver' \subseteq Driver,
           Open' <=> Open, row'.aged = row.aged,
           \/ faults' = faults + 1
           \/ faults' \in {faults, faults + 1} /\ (GivingUp' => GivingUp)
    PROVE  RunsPaid'
<1>1. Count(Open' /\ row'.aged) = Count(Open /\ row.aged) /\ Count(Open') = Count(Open)
  BY DEF Count
<1>2. /\ Count(GivingUp) \in {0, 1} /\ Count(GivingUp') \in {0, 1}
      /\ Count(Open /\ row.aged) \in {0, 1} /\ Count(Open) \in {0, 1}
  BY DEF Count
<1>3. faults' = faults + 1 \/ (faults' = faults /\ Count(GivingUp') <= Count(GivingUp))
  BY DEF Count
<1> HIDE DEF Driver
<1>4. RunsPaid' <=> Cardinality(Driver') + Count(Open' /\ row'.aged) + Count(GivingUp')
                       <= faults' + Count(Open')
  BY DEF RunsPaid, Count
<1> HIDE DEF Count
<1> QED BY <1>1, <1>2, <1>3, <1>4, DriverSizes DEF RunsPaid

\* A request that is let in pays with the free row, or with the claim that aged.
LEMMA ClaimPaid ==
    ASSUME IInv, IInv', RunsPaid, NEW c \in Request, ClaimStart(c), MayStart
    PROVE  RunsPaid'
<1>1. /\ CallGoesTo(c, "claimed") /\ UNCHANGED <<run, faults>>
      /\ row' = [row EXCEPT !.claim = c, !.named = FALSE, !.completed = FALSE, !.aged = FALSE]
  BY DEF ClaimStart
<1>2. row'.claim = c /\ row'.completed = FALSE /\ row'.aged = FALSE
  BY <1>1, Claimed DEF IInv, TypeOK
<1>3. call'[c] = "claimed" /\ \A d \in Request \ {c} : call'[d] = call[d]
  BY <1>1, CallMoved DEF IInv, CallStage
<1>4. Count(Open') = 1 /\ Count(Open' /\ row'.aged) = 0 /\ Count(GivingUp') = 0
  BY <1>2, <1>3, RequestAssumption DEF Open, GivingUp, Count
<1>5. Count(Open /\ row.aged) = Count(Open) /\ Count(GivingUp) \in {0, 1} /\ Count(Open) \in {0, 1}
  BY DEF MayStart, Open, Count
<1>6. Cardinality(Driver') <= Cardinality(Driver) + 1
  <2>1. Driver' \subseteq Driver \cup {c}
    BY <1>1, <1>3 DEF Driver
  <2> QED BY <2>1, RequestAssumption, DriverSizes, Counting
<1>7. RunsPaid' <=> Cardinality(Driver') + Count(Open' /\ row'.aged) + Count(GivingUp')
                       <= faults' + Count(Open')
  BY DEF RunsPaid, Count
<1> HIDE DEF Count, Driver
<1> QED BY <1>1, <1>4, <1>5, <1>6, <1>7, DriverSizes DEF RunsPaid

\* A handler that gives up an open claim frees the row for one more request,
\* which its fault has paid for.
LEMMA GiveUpPaid ==
    ASSUME IInv, IInv', RunsPaid, NEW c \in Request, GiveUp(c), HoldsClaim(c)
    PROVE  RunsPaid'
<1>1. /\ call[c] = "failed" /\ CallGoesTo(c, "returned") /\ UNCHANGED <<run, faults>>
      /\ row' = [row EXCEPT !.claim = NoRequest, !.aged = FALSE]
  BY DEF GiveUp
<1>2. row'.claim = NoRequest
  BY <1>1, GivenUp DEF IInv, TypeOK
<1>3. call'[c] = "returned" /\ \A d \in Request \ {c} : call'[d] = call[d]
  BY <1>1, CallMoved DEF IInv, CallStage
<1>4. Count(Open') = 0 /\ Count(Open' /\ row'.aged) = 0 /\ Count(GivingUp') = 0
  BY <1>2 DEF Open, GivingUp, Count
<1>5. Count(GivingUp) = Count(Open) /\ Count(Open) \in {0, 1} /\ Count(Open /\ row.aged) \in {0, 1}
  BY <1>1 DEF GivingUp, HoldsClaim, Count
<1>6. Driver' \subseteq Driver
  BY <1>1, <1>3 DEF Driver
<1>7. RunsPaid' <=> Cardinality(Driver') + Count(Open' /\ row'.aged) + Count(GivingUp')
                       <= faults' + Count(Open')
  BY DEF RunsPaid, Count
<1> HIDE DEF Count, Driver
<1> QED BY <1>1, <1>4, <1>5, <1>6, <1>7, DriverSizes DEF RunsPaid

\* A run that ends frees the row, whoever holds it, and is a run less.
LEMMA CompletePaid ==
    ASSUME IInv, IInv', RunsPaid, NEW c \in Request, Complete(c)
    PROVE  RunsPaid'
<1>1. /\ run[c] = "ending" /\ RunGoesTo(c, "ended") /\ UNCHANGED <<call, faults>>
      /\ row' = [row EXCEPT !.completed = TRUE]
  BY DEF Complete
<1>2. row'.completed = TRUE
  BY <1>1, CompletedWritten DEF IInv, TypeOK
<1>3. run'[c] = "ended" /\ \A d \in Request \ {c} : run'[d] = run[d]
  BY <1>1, RunMoved DEF IInv, RunStage
<1>4. Count(Open') = 0 /\ Count(Open' /\ row'.aged) = 0 /\ Count(GivingUp') = 0
  BY <1>2 DEF Open, GivingUp, Count
<1>5. /\ Count(GivingUp) \in {0, 1} /\ Count(Open) \in {0, 1}
      /\ Count(Open /\ row.aged) \in {0, 1}
  BY DEF Count
<1>6. Cardinality(Driver') + 1 <= Cardinality(Driver)
  <2>1. call[c] # "claimed"
    BY <1>1 DEF IInv, StagesFit
  <2>2. Driver' \subseteq Driver \ {c} /\ c \in Driver
    BY <1>1, <1>3, <2>1 DEF Driver
  <2> QED BY <2>2, RequestAssumption, DriverSizes, Counting
<1>7. RunsPaid' <=> Cardinality(Driver') + Count(Open' /\ row'.aged) + Count(GivingUp')
                       <= faults' + Count(Open')
  BY DEF RunsPaid, Count
<1> HIDE DEF Count, Driver
<1> QED BY <1>1, <1>4, <1>5, <1>6, <1>7, DriverSizes DEF RunsPaid

\* A claim gets old by a fault.
LEMMA AgePaid == ASSUME IInv, IInv', RunsPaid, ClaimAges PROVE RunsPaid'
<1>1. /\ ~row.aged /\ UNCHANGED <<call, run>> /\ faults' = faults + 1
      /\ row' = [row EXCEPT !.aged = TRUE]
  BY DEF ClaimAges, Fault
<1>2. row'.claim = row.claim /\ row'.named = row.named /\ row'.completed = row.completed
  BY <1>1, AgedWritten DEF IInv, TypeOK
<1>3. Count(Open') = Count(Open) /\ Count(GivingUp') = Count(GivingUp)
  BY <1>1, <1>2 DEF Open, GivingUp, Count
<1>4. /\ Count(Open /\ row.aged) = 0 /\ Count(Open' /\ row'.aged) \in {0, 1}
      /\ Count(Open) \in {0, 1} /\ Count(GivingUp) \in {0, 1}
  BY <1>1 DEF Count
<1>5. Driver' = Driver
  BY <1>1 DEF Driver
<1>6. RunsPaid' <=> Cardinality(Driver') + Count(Open' /\ row'.aged) + Count(GivingUp')
                       <= faults' + Count(Open')
  BY DEF RunsPaid, Count
<1> HIDE DEF Count, Driver
<1> QED BY <1>1, <1>3, <1>4, <1>5, <1>6, DriverSizes DEF RunsPaid

LEMMA StepRunsPaid == IInv /\ IInv' /\ RunsPaid /\ [Next]_vars => RunsPaid'
<1> SUFFICES ASSUME IInv, IInv', RunsPaid, [Next]_vars PROVE RunsPaid'
  OBVIOUS
<1>a. /\ TypeOK /\ row \in Columns /\ row.claim \in Request \cup {NoRequest}
  BY DEF IInv, TypeOK, Columns
<1>1. ASSUME NEW c \in Request, NEW view \in View, Report(c, view) PROVE RunsPaid'
  <2>1. PICK due \in BOOLEAN : row' = [row EXCEPT !.due = due, !.view = view]
    BY <1>1 DEF Report
  <2>2. SameClaim
    BY <1>a, <2>1, Scheduled
  <2>3. call[c] = "new" /\ CallGoesTo(c, "reported") /\ UNCHANGED <<run, faults>>
    BY <1>1 DEF Report
  <2>4. call'[c] = "reported" /\ \A d \in Request \ {c} : call'[d] = call[d]
    BY <1>a, <2>3, CallMoved DEF CallStage
  <2>5. Driver' \subseteq Driver
    BY <2>3, <2>4 DEF Driver
  <2>6. (Open' <=> Open) /\ row'.aged = row.aged /\ (GivingUp' => GivingUp)
    BY <1>a, <2>2, <2>4 DEF SameClaim, Open, GivingUp
  <2> QED BY <2>3, <2>5, <2>6, NoNewDriver
<1>2. ASSUME NEW c \in Request, ClaimStart(c) PROVE RunsPaid'
  <2>1. CASE MayStart
    BY <1>2, <2>1, ClaimPaid
  <2>2. CASE ~MayStart
    <3>1. /\ call[c] = "reported" /\ CallGoesTo(c, "returned")
          /\ UNCHANGED <<row, run, faults>>
      BY <1>2, <2>2 DEF ClaimStart
    <3>2. call'[c] = "returned" /\ \A d \in Request \ {c} : call'[d] = call[d]
      BY <1>a, <3>1, CallMoved DEF CallStage
    <3>3. Driver' \subseteq Driver
      BY <3>1, <3>2 DEF Driver
    <3>4. (Open' <=> Open) /\ row'.aged = row.aged /\ (GivingUp' => GivingUp)
      BY <1>a, <3>1, <3>2 DEF Open, GivingUp
    <3> QED BY <3>1, <3>3, <3>4, NoNewDriver
  <2> QED BY <2>1, <2>2
<1>3. ASSUME NEW c \in Request, Start(c) \/ StartFails(c) PROVE RunsPaid'
  <2>1. call[c] = "claimed" /\ row' = row
    BY <1>3 DEF Start, StartFails
  <2>2. PICK stage \in {"started", "failed"} :
           /\ CallGoesTo(c, stage)
           /\ stage = "failed" => faults' = faults + 1
           /\ stage = "started" => faults' = faults
    BY <1>3 DEF Start, StartFails, Fault
  <2>3. call'[c] = stage /\ \A d \in Request \ {c} : call'[d] = call[d]
    BY <1>a, <2>2, CallMoved DEF CallStage
  <2>4. \A d \in Request \ {c} : run'[d] = run[d]
    BY <1>3, <1>a, RunMoved DEF Start, StartFails, RunStage
  <2>5. Driver' \subseteq Driver
    BY <2>1, <2>3, <2>4 DEF Driver
  <2>6. (Open' <=> Open) /\ row'.aged = row.aged /\ (stage = "started" => (GivingUp' => GivingUp))
    BY <1>a, <2>1, <2>3 DEF Open, GivingUp
  <2> QED BY <2>2, <2>5, <2>6, NoNewDriver
<1>4. ASSUME NEW c \in Request, Name(c) \/ NameFails(c) PROVE RunsPaid'
  <2>1. /\ call[c] = "started" /\ run' = run /\ row' \in {row, Named(c)}
        /\ \/ CallGoesTo(c, "returned") /\ faults' = faults
           \/ CallGoesTo(c, "failed") /\ faults' = faults + 1
    BY <1>4 DEF Name, NameFails, Fault
  <2>2. /\ row'.claim = row.claim /\ row'.completed = row.completed /\ row'.aged = row.aged
        /\ row'.named = row.named \/ (HoldsClaim(c) /\ row'.named = TRUE)
    BY <1>a, <2>1, MaybeNamed
  <2>3. PICK stage \in {"returned", "failed"} :
           /\ CallGoesTo(c, stage)
           /\ stage = "failed" => faults' = faults + 1
           /\ stage = "returned" => faults' = faults
    BY <2>1
  <2>4. call'[c] = stage /\ \A d \in Request \ {c} : call'[d] = call[d]
    BY <1>a, <2>3, CallMoved DEF CallStage
  <2>5. Driver' \subseteq Driver
    BY <2>1, <2>4 DEF Driver
  <2>6. (Open' <=> Open) /\ (stage = "returned" => (GivingUp' => GivingUp))
    BY <1>a, <2>2, <2>4 DEF Open, GivingUp
  <2> QED BY <2>2, <2>3, <2>5, <2>6, NoNewDriver
<1>5. ASSUME NEW c \in Request, GiveUp(c) PROVE RunsPaid'
  <2>1. CASE HoldsClaim(c)
    BY <1>5, <2>1, GiveUpPaid
  <2>2. CASE ~HoldsClaim(c)
    <3>1. call[c] = "failed" /\ CallGoesTo(c, "returned") /\ UNCHANGED <<row, run, faults>>
      BY <1>5, <2>2 DEF GiveUp
    <3>2. call'[c] = "returned" /\ \A d \in Request \ {c} : call'[d] = call[d]
      BY <1>a, <3>1, CallMoved DEF CallStage
    <3>3. Driver' \subseteq Driver
      BY <3>1, <3>2 DEF Driver
    <3>4. (Open' <=> Open) /\ row'.aged = row.aged /\ (GivingUp' => GivingUp)
      BY <1>a, <3>1, <3>2 DEF Open, GivingUp
    <3> QED BY <3>1, <3>3, <3>4, NoNewDriver
  <2> QED BY <2>1, <2>2
<1>6. ASSUME NEW c \in Request, CallDies(c) PROVE RunsPaid'
  <2>1. CallGoesTo(c, "died") /\ UNCHANGED <<row, run>> /\ faults' = faults + 1
    BY <1>6 DEF CallDies, Fault
  <2>2. call'[c] = "died" /\ \A d \in Request \ {c} : call'[d] = call[d]
    BY <1>a, <2>1, CallMoved DEF CallStage
  <2>3. Driver' \subseteq Driver /\ (Open' <=> Open)
    BY <2>1, <2>2 DEF Driver, Open
  <2> QED BY <2>1, <2>3, NoNewDriver
<1>7. ASSUME NEW c \in Request, NEW r \in Result, Round(c, r) PROVE RunsPaid'
  <2>1. run[c] = "active" /\ row' = Written(r) /\ UNCHANGED <<call, faults>>
    BY <1>7 DEF Round
  <2>2. SameClaim
    BY <1>a, <2>1, PassWritten
  <2>3. PICK stage \in {"active", "ending"} : RunGoesTo(c, stage)
    BY <1>7 DEF Round
  <2>4. \A d \in Request \ {c} : run'[d] = run[d]
    BY <1>a, <2>3, RunMoved DEF RunStage
  <2>5. Driver' \subseteq Driver
    BY <2>1, <2>4 DEF Driver
  <2>6. (Open' <=> Open) /\ row'.aged = row.aged /\ (GivingUp' => GivingUp)
    BY <2>1, <2>2 DEF SameClaim, Open, GivingUp
  <2> QED BY <2>1, <2>5, <2>6, NoNewDriver
<1>8. ASSUME NEW c \in Request, Complete(c) PROVE RunsPaid'
  BY <1>8, CompletePaid
<1>9. ASSUME NEW c \in Request, RunFails(c) PROVE RunsPaid'
  <2>1. /\ run[c] \in {"active", "ending"} /\ RunGoesTo(c, "failed")
        /\ UNCHANGED <<row, call>> /\ faults' = faults + 1
    BY <1>9 DEF RunFails, Fault
  <2>2. \A d \in Request \ {c} : run'[d] = run[d]
    BY <1>a, <2>1, RunMoved DEF RunStage
  <2>3. Driver' \subseteq Driver /\ (Open' <=> Open)
    BY <2>1, <2>2 DEF Driver, Open
  <2> QED BY <2>1, <2>3, NoNewDriver
<1>10. CASE ClaimAges
  BY <1>10, AgePaid
<1>11. CASE Elsewhere
  <2>1. SameClaim /\ UNCHANGED <<call, run>> /\ faults' \in {faults, faults + 1}
    BY <1>a, <1>11, ElsewhereEffect
  <2>2. Driver' \subseteq Driver /\ (Open' <=> Open) /\ row'.aged = row.aged /\ (GivingUp' => GivingUp)
    BY <2>1 DEF Driver, SameClaim, Open, GivingUp
  <2> QED BY <2>1, <2>2, NoNewDriver
<1>12. CASE UNCHANGED vars
  <2>1. /\ Driver' \subseteq Driver /\ (Open' <=> Open) /\ row'.aged = row.aged
        /\ (GivingUp' => GivingUp) /\ faults' = faults
    BY <1>12 DEF vars, Driver, Open, GivingUp
  <2> QED BY <2>1, NoNewDriver
<1> QED
  BY <1>1, <1>2, <1>3, <1>4, <1>5, <1>6, <1>7, <1>8, <1>9, <1>10, <1>11, <1>12
  DEF Next, CallProceeds, RunProceeds, Elsewhere

\* Starts are deduplicated for any number of submission reports: every run
\* beyond the first is paid for by a failed call or a claim a day old.
THEOREM RunsArePaid == Spec => []RunsNeedFaults
<1>1. Init => RunsPaid
  <2> SUFFICES ASSUME Init PROVE RunsPaid
    OBVIOUS
  <2>1. Driver = {} /\ ~Open /\ faults = 0
    BY DEF Init, Driver, Open
  <2>2. Cardinality(Driver) = 0
    BY <2>1, FS_EmptySet
  <2> QED BY <2>1, <2>2 DEF RunsPaid, GivingUp, Count
<1>2. IInv /\ IInv' /\ RunsPaid /\ [Next]_vars => RunsPaid'
  BY StepRunsPaid
<1>3. IInv /\ RunsPaid => RunsNeedFaults
  <2> SUFFICES ASSUME IInv, RunsPaid PROVE RunsNeedFaults
    OBVIOUS
  <2>1. Driver \in SUBSET Request /\ Running \in SUBSET Driver
    BY DEF Driver, Running
  <2>2. /\ Cardinality(Running) <= Cardinality(Driver)
        /\ Cardinality(Running) \in Nat /\ Cardinality(Driver) \in Nat
    BY <2>1, RequestAssumption, Sizes
  <2>3. /\ Count(GivingUp) \in {0, 1} /\ Count(Open) \in {0, 1}
        /\ Count(Open /\ row.aged) \in {0, 1} /\ faults \in Nat
    BY DEF Count, IInv, TypeOK
  <2> HIDE DEF Count, Driver, Running
  <2> QED BY <2>2, <2>3 DEF RunsPaid, RunsNeedFaults
<1> QED BY <1>1, <1>2, <1>3, Invariance, PTL DEF Spec

-----------------------------------------------------------------------------
(* Counting sweeps: one that works without a running lease of its own has been *)
(* paid for by the overrun that cost it the lease.                             *)

Overdue == {w \in Sweep : sweep[w] = "working" /\ ~(row.lease = w /\ row.live)}

\* The strengthening of SweepsNeedFaults that steps preserve.
SweepsPaid == Cardinality(Overdue) <= faults

\* Handlers, runs, reports and requests leave the leases and the sweeps alone.
LEMMA LeasesKept ==
    ASSUME IInv,
           \/ \E c \in Request :
                 \/ \E view \in View : Report(c, view)
                 \/ CallProceeds(c) \/ StartFails(c) \/ NameFails(c) \/ CallDies(c)
                 \/ RunProceeds(c) \/ RunFails(c)
           \/ \E view \in View : Mark(view)
           \/ Prepare
           \/ \E r \in Result : Reconcile(r)
           \/ ClaimAges
           \/ UNCHANGED vars
    PROVE  SameLease /\ sweep' = sweep /\ faults' \in {faults, faults + 1}
<1> DEFINE Goal == SameLease /\ sweep' = sweep /\ faults' \in {faults, faults + 1}
<1>a. row \in Columns
  BY DEF IInv, TypeOK
<1>1. ASSUME NEW c \in Request, NEW view \in View, Report(c, view) PROVE Goal
  <2>1. PICK due \in BOOLEAN : row' = [row EXCEPT !.due = due, !.view = view]
    BY <1>1 DEF Report
  <2> QED BY <1>1, <1>a, <2>1, Scheduled DEF Report
<1>2. ASSUME NEW c \in Request, ClaimStart(c) PROVE Goal
  <2>1. row' = row \/ row' = [row EXCEPT !.claim = c, !.named = FALSE,
                                         !.completed = FALSE, !.aged = FALSE]
    BY <1>2 DEF ClaimStart
  <2>2. SameLease
    BY <1>a, <2>1, Claimed DEF SameLease
  <2> QED BY <1>2, <2>2 DEF ClaimStart
<1>3. ASSUME NEW c \in Request, Start(c) \/ StartFails(c) \/ CallDies(c) \/ RunFails(c) PROVE Goal
  BY <1>3 DEF Start, StartFails, CallDies, RunFails, Fault, SameLease
<1>4. ASSUME NEW c \in Request, Name(c) \/ NameFails(c) PROVE Goal
  <2>1. row' \in {row, Named(c)}
    BY <1>4 DEF Name, NameFails
  <2>2. SameLease
    BY <1>a, <2>1, MaybeNamed
  <2> QED BY <1>4, <2>2 DEF Name, NameFails, Fault
<1>5. ASSUME NEW c \in Request, GiveUp(c) PROVE Goal
  <2>1. row' = row \/ row' = [row EXCEPT !.claim = NoRequest, !.aged = FALSE]
    BY <1>5 DEF GiveUp
  <2>2. SameLease
    BY <1>a, <2>1, GivenUp DEF SameLease
  <2> QED BY <1>5, <2>2 DEF GiveUp
<1>6. ASSUME NEW c \in Request, NEW r \in Result, Round(c, r) PROVE Goal
  BY <1>6, <1>a, PassWritten DEF Round
<1>7. ASSUME NEW c \in Request, Complete(c) PROVE Goal
  <2>1. SameLease
    BY <1>7, <1>a, CompletedWritten DEF Complete
  <2> QED BY <1>7, <2>1 DEF Complete
<1>8. ASSUME NEW view \in View, Mark(view) PROVE Goal
  BY <1>8, <1>a, Marked DEF Mark
<1>9. ASSUME Prepare PROVE Goal
  <2>1. PICK due \in BOOLEAN, view \in View : row' = [row EXCEPT !.due = due, !.view = view]
    BY <1>9 DEF Prepare, View
  <2>2. SameLease
    BY <1>a, <2>1, Scheduled
  <2> QED BY <1>9, <2>2 DEF Prepare
<1>10. ASSUME NEW r \in Result, Reconcile(r) PROVE Goal
  BY <1>10, <1>a, PassWritten DEF Reconcile
<1>11. ASSUME ClaimAges PROVE Goal
  <2>1. SameLease
    BY <1>11, <1>a, AgedWritten DEF ClaimAges
  <2> QED BY <1>11, <2>1 DEF ClaimAges, Fault
<1>12. ASSUME UNCHANGED vars PROVE Goal
  BY <1>12 DEF vars, SameLease
<1> HIDE DEF Goal
<1>13. Goal
  BY <1>1, <1>2, <1>3, <1>4, <1>5, <1>6, <1>7, <1>8, <1>9, <1>10, <1>11, <1>12
  DEF CallProceeds, RunProceeds
<1> QED BY <1>13 DEF Goal

LEMMA StepSweepsPaid == IInv /\ IInv' /\ SweepsPaid /\ [Next]_vars => SweepsPaid'
<1> SUFFICES ASSUME IInv, IInv', SweepsPaid, [Next]_vars PROVE SweepsPaid'
  OBVIOUS
<1>a. /\ row \in Columns /\ sweep \in [Sweep -> SweepStage]
      /\ (row.live => row.lease # NoSweep) /\ row.lease \in Sweep \cup {NoSweep}
      /\ faults \in Nat /\ faults' \in Nat
  BY DEF IInv, TypeOK, Columns
<1>b. /\ Overdue \in SUBSET Sweep /\ Overdue' \in SUBSET Sweep
      /\ Cardinality(Overdue) \in Nat /\ Cardinality(Overdue') \in Nat
      /\ Overdue' \subseteq Overdue => Cardinality(Overdue') <= Cardinality(Overdue)
  <2>1. Overdue \in SUBSET Sweep /\ Overdue' \in SUBSET Sweep
    BY DEF Overdue
  <2> QED BY <2>1, SweepAssumption, Sizes
<1>c. ASSUME Overdue' \subseteq Overdue, faults' \in {faults, faults + 1} PROVE SweepsPaid'
  <2> HIDE DEF Overdue
  <2> QED BY <1>a, <1>b, <1>c DEF SweepsPaid
<1>1. ASSUME NEW w \in Sweep, SweepClaims(w) PROVE SweepsPaid'
  <2>1. /\ sweep[w] = "idle" /\ ~row.live /\ SweepGoesTo(w, "claimed") /\ faults' = faults
        /\ row' = [row EXCEPT !.lease = w, !.live = TRUE]
    BY <1>1 DEF SweepClaims, Claimable
  <2>2. sweep'[w] = "claimed" /\ \A v \in Sweep \ {w} : sweep'[v] = sweep[v]
    BY <1>a, <2>1 DEF SweepGoesTo
  <2>3. Overdue' \subseteq Overdue
    BY <2>1, <2>2 DEF Overdue
  <2> QED BY <1>c, <2>1, <2>3
<1>2. ASSUME NEW w \in Sweep, Renew(w) PROVE SweepsPaid'
  <2> DEFINE live == IF row.lease = w THEN TRUE ELSE row.live
  <2>1. live \in BOOLEAN
    BY <1>a DEF Columns
  <2>2. /\ row' = [row EXCEPT !.live = live] /\ faults' = faults
        /\ SweepGoesTo(w, IF row.lease = w THEN "working" ELSE "done")
    BY <1>2 DEF Renew
  <2>3. row'.lease = row.lease /\ row'.live = live
    <3> HIDE DEF live
    <3> QED BY <1>a, <2>1, <2>2, LiveWritten
  <2>4. /\ sweep'[w] = IF row.lease = w THEN "working" ELSE "done"
        /\ \A v \in Sweep \ {w} : sweep'[v] = sweep[v]
    BY <1>a, <2>2 DEF SweepGoesTo
  <2>5. Overdue' \subseteq Overdue
    <3>1. CASE row.lease = w
      BY <2>3, <2>4, <3>1 DEF Overdue
    <3>2. CASE row.lease # w
      BY <2>3, <2>4, <3>2 DEF Overdue
    <3> QED BY <3>1, <3>2
  <2> QED BY <1>c, <2>2, <2>5
<1>3. ASSUME NEW w \in Sweep, SweepPass(w) PROVE SweepsPaid'
  <2>1. SameLease
    <3>1. CASE row' = row
      BY <3>1 DEF SameLease
    <3>2. ASSUME NEW r \in Result, row' = Written(r) PROVE SameLease
      BY <3>2, <1>a, PassWritten
    <3> QED BY <1>3, <3>1, <3>2 DEF SweepPass
  <2>2. SweepGoesTo(w, "done") /\ faults' = faults
    BY <1>3 DEF SweepPass
  <2>3. sweep'[w] = "done" /\ \A v \in Sweep \ {w} : sweep'[v] = sweep[v]
    BY <1>a, <2>2 DEF SweepGoesTo
  <2>4. Overdue' \subseteq Overdue
    BY <2>1, <2>3 DEF Overdue, SameLease
  <2> QED BY <1>c, <2>2, <2>4
<1>4. ASSUME NEW w \in Sweep, Release(w) PROVE SweepsPaid'
  <2>1. sweep[w] = "done" /\ SweepGoesTo(w, "idle") /\ faults' = faults
    BY <1>4 DEF Release
  <2>2. sweep'[w] = "idle" /\ \A v \in Sweep \ {w} : sweep'[v] = sweep[v]
    BY <1>a, <2>1 DEF SweepGoesTo
  <2>3. row.lease = w \/ row' = row
    BY <1>4 DEF Release
  <2>4. Overdue' \subseteq Overdue
    BY <2>1, <2>2, <2>3 DEF Overdue
  <2> QED BY <1>c, <2>1, <2>4
<1>5. ASSUME NEW w \in Sweep, SweepDies(w) PROVE SweepsPaid'
  <2>1. SweepGoesTo(w, "idle") /\ row' = row /\ faults' = faults + 1
    BY <1>5 DEF SweepDies, Fault
  <2>2. sweep'[w] = "idle" /\ \A v \in Sweep \ {w} : sweep'[v] = sweep[v]
    BY <1>a, <2>1 DEF SweepGoesTo
  <2>3. Overdue' \subseteq Overdue
    BY <2>1, <2>2 DEF Overdue
  <2> QED BY <1>c, <2>1, <2>3
<1>6. CASE LeaseExpires
  <2>1. sweep[row.lease] = "idle" /\ UNCHANGED <<sweep, faults>> /\ row' = [row EXCEPT !.live = FALSE]
    BY <1>6 DEF LeaseExpires, Abandoned
  <2>2. Overdue' \subseteq Overdue
    BY <2>1 DEF Overdue
  <2> QED BY <1>c, <2>1, <2>2
<1>7. CASE LeaseOverrun
  <2>1. row.live /\ sweep' = sweep /\ faults' = faults + 1 /\ row' = [row EXCEPT !.live = FALSE]
    BY <1>7 DEF LeaseOverrun, Fault
  <2>2. row.lease \in Sweep /\ row'.lease = row.lease
    BY <1>a, <2>1, LiveWritten
  <2>3. Overdue' \subseteq Overdue \cup {row.lease}
    BY <2>1, <2>2 DEF Overdue
  <2>4. Cardinality(Overdue') <= Cardinality(Overdue) + 1
    BY <1>b, <2>2, <2>3, SweepAssumption, Counting
  <2> HIDE DEF Overdue
  <2> QED BY <1>a, <1>b, <2>1, <2>4 DEF SweepsPaid
<1>8. ASSUME SameLease, sweep' = sweep, faults' \in {faults, faults + 1} PROVE SweepsPaid'
  <2>1. Overdue' \subseteq Overdue
    BY <1>8 DEF Overdue, SameLease
  <2> QED BY <1>c, <1>8, <2>1
<1> QED
  BY <1>1, <1>2, <1>3, <1>4, <1>5, <1>6, <1>7, <1>8, LeasesKept DEF Next, SweepProceeds

\* For any number of overlapping sweeps, two reconcile the intent at once only
\* after a fault.
THEOREM SweepsArePaid == Spec => []SweepsNeedFaults
<1>1. Init => SweepsPaid
  <2> SUFFICES ASSUME Init PROVE SweepsPaid
    OBVIOUS
  <2>1. Overdue = {} /\ faults = 0
    BY DEF Init, Overdue
  <2>2. Cardinality(Overdue) = 0
    BY <2>1, FS_EmptySet
  <2> QED BY <2>1, <2>2 DEF SweepsPaid
<1>2. IInv /\ IInv' /\ SweepsPaid /\ [Next]_vars => SweepsPaid'
  BY StepSweepsPaid
<1>3. IInv /\ SweepsPaid => SweepsNeedFaults
  <2> SUFFICES ASSUME IInv, SweepsPaid PROVE SweepsNeedFaults
    OBVIOUS
  <2> DEFINE Working == {w \in Sweep : sweep[w] = "working"}
  <2>1. Working \in SUBSET Sweep /\ Overdue \in SUBSET Sweep
    BY DEF Overdue
  <2>2. /\ Cardinality(Working) \in Nat /\ Cardinality(Overdue) \in Nat /\ faults \in Nat
        /\ Working \subseteq Overdue => Cardinality(Working) <= Cardinality(Overdue)
    BY <2>1, SweepAssumption, Sizes DEF IInv, TypeOK
  <2>3. Working \subseteq Overdue \cup {row.lease}
    BY DEF Overdue
  <2>4. Cardinality(Working) <= Cardinality(Overdue) + 1
    <3>1. CASE row.lease \in Sweep
      <4> HIDE DEF Working, Overdue
      <4> QED BY <2>1, <2>3, <3>1, SweepAssumption, Counting
    <3>2. CASE row.lease \notin Sweep
      <4>1. Working \subseteq Overdue
        BY <2>1, <2>3, <3>2
      <4> HIDE DEF Working, Overdue
      <4> QED BY <2>2, <4>1
    <3> QED BY <3>1, <3>2
  <2>5. SweepsNeedFaults <=> Cardinality(Working) <= 1 + faults
    BY DEF SweepsNeedFaults
  <2> HIDE DEF Working, Overdue
  <2> QED BY <2>2, <2>4, <2>5 DEF SweepsPaid
<1> QED BY <1>1, <1>2, <1>3, Invariance, PTL DEF Spec
=============================================================================
