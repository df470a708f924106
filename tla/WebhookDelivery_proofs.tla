------------------------ MODULE WebhookDelivery_proofs ------------------------
(***************************************************************************)
(* Theorems about WebhookDelivery for every number of processes and every  *)
(* budget.  The invariant adds to the checked properties that an open row  *)
(* has an attempt left.                                                    *)
(***************************************************************************)
EXTENDS WebhookDelivery, FiniteSetTheorems, TLAPS

Ended == {"DELIVERED", "FAILED"}

BudgetLeft ==
    /\ row.attempts <= MaxAttempts + retries
    /\ row.status \notin Ended => row.attempts < MaxAttempts + retries

\* An outcome leaves no backoff running.
EndedIsDue == row.status \in Ended => row.due

IInv == TypeOK /\ HolderIsCurrent /\ BudgetLeft /\ EndedIsDue

-----------------------------------------------------------------------------
\* A row rebuilt from its five columns.
LEMMA RowBuilt ==
    ASSUME NEW status \in Status, NEW attempts \in Nat, NEW owner \in Worker \cup {NoOwner},
           NEW live \in BOOLEAN, NEW due \in BOOLEAN
    PROVE  [status |-> status, attempts |-> attempts, owner |-> owner,
            live |-> live, due |-> due] \in Delivery
BY DEF Delivery

\* The rows that the steps write, column by column.
LEMMA DueWritten ==
    ASSUME NEW r \in Delivery, NEW due \in BOOLEAN
    PROVE  LET s == [r EXCEPT !.due = due] IN
           /\ s \in Delivery
           /\ s.due = due
           /\ s.status = r.status /\ s.attempts = r.attempts /\ s.owner = r.owner /\ s.live = r.live
BY DEF Delivery

\* A lease that starts again or runs out.
LEMMA LiveWritten ==
    ASSUME NEW r \in Delivery, NEW live \in BOOLEAN
    PROVE  LET s == [r EXCEPT !.live = live] IN
           /\ s \in Delivery
           /\ s.live = live
           /\ s.status = r.status /\ s.attempts = r.attempts /\ s.owner = r.owner /\ s.due = r.due
BY DEF Delivery

\* A row that joins the queue.
LEMMA QueuedWritten ==
    ASSUME NEW r \in Delivery, NEW status \in Status, NEW due \in BOOLEAN
    PROVE  LET s == [r EXCEPT !.status = status, !.due = due] IN
           /\ s \in Delivery
           /\ s.status = status /\ s.due = due
           /\ s.attempts = r.attempts /\ s.owner = r.owner /\ s.live = r.live
BY DEF Delivery

\* A row that is claimed.
LEMMA ClaimWritten ==
    ASSUME NEW r \in Delivery, NEW owner \in Worker
    PROVE  LET s == [r EXCEPT !.status = "CLAIMED", !.owner = owner, !.live = TRUE] IN
           /\ s \in Delivery
           /\ s.status = "CLAIMED" /\ s.owner = owner /\ s.live = TRUE
           /\ s.attempts = r.attempts
BY DEF Delivery, Status

\* A row that is released.
LEMMA ReleaseWritten ==
    ASSUME NEW r \in Delivery
    PROVE  LET s == [r EXCEPT !.status = "RETRY", !.owner = NoOwner, !.live = FALSE] IN
           /\ s \in Delivery
           /\ s.status = "RETRY" /\ s.owner = NoOwner /\ s.live = FALSE
           /\ s.attempts = r.attempts
BY DEF Delivery, Status

\* A row that is replayed.
LEMMA ReplayWritten ==
    ASSUME NEW r \in Delivery
    PROVE  LET s == [r EXCEPT !.status = "RETRY", !.due = TRUE, !.owner = NoOwner, !.live = FALSE] IN
           /\ s \in Delivery
           /\ s.status = "RETRY" /\ s.owner = NoOwner /\ s.live = FALSE
           /\ s.attempts = r.attempts
BY DEF Delivery, Status

\* The initial state satisfies the invariant.
LEMMA InitInvariant == Init => IInv
<1> SUFFICES ASSUME Init PROVE IInv
  OBVIOUS
<1> USE OwnerAssumption, BudgetAssumption DEF Init
<1>1. row \in Delivery
  BY DEF Delivery, Status
<1>2. worker \in [Worker -> Process]
  BY DEF Process, Idle, Answer
<1>3. TypeOK
  BY <1>1, <1>2 DEF TypeOK
<1>4. HolderIsCurrent
  BY DEF HolderIsCurrent, Idle
<1>5. BudgetLeft
  BY DEF BudgetLeft, Ended
<1>6. EndedIsDue
  BY DEF EndedIsDue, Ended
<1> QED BY <1>3, <1>4, <1>5, <1>6 DEF IInv

-----------------------------------------------------------------------------
\* A process that moves on keeps what it has read; the others do not notice.
LEMMA Moved ==
    ASSUME TypeOK, NEW w \in Worker, NEW pc, GoTo(w, pc),
           pc \in {"idle", "claimed", "renewed", "enabled", "disabled",
                   "answered", "threw", "escaped"}
    PROVE  /\ worker' \in [Worker -> Process]
           /\ worker'[w].pc = pc /\ worker'[w].attempts = worker[w].attempts
           /\ worker'[w].answer = worker[w].answer
           /\ \A v \in Worker \ {w} : worker'[v] = worker[v]
BY DEF TypeOK, GoTo, Process

\* Recording an outcome ends the ownership of the process that holds the row,
\* counts one attempt and leaves an attempt if the row is still open.
LEMMA CompletedFacts ==
    ASSUME TypeOK, HolderIsCurrent, BudgetLeft, EndedIsDue, NEW w \in Worker, worker[w].pc # "idle"
    PROVE  /\ Completed(w) \in Delivery
           /\ Completed(w).status = "CLAIMED" <=> Completed(w).owner # NoOwner
           /\ Completed(w).live => Completed(w).owner # NoOwner
           /\ row.owner # w => Completed(w) = row
           /\ row.owner = w => /\ Completed(w).owner = NoOwner
                               /\ Completed(w).attempts = row.attempts + 1
           /\ Completed(w).attempts <= MaxAttempts + retries
           /\ Completed(w).status \notin Ended => Completed(w).attempts < MaxAttempts + retries
           /\ Completed(w).status \in Ended => Completed(w).due
<1>1. CASE row.owner # w
  BY <1>1 DEF Completed, TypeOK, BudgetLeft, EndedIsDue
<1>2. CASE row.owner = w
  <2> DEFINE outcome == Outcome(worker[w])
  <2>1. worker[w].attempts = row.attempts /\ row.status = "CLAIMED"
    BY <1>2 DEF HolderIsCurrent
  <2>2. outcome \in {"DELIVERED", "FAILED"} \/ outcome = AfterFailure(row.attempts)
    BY <2>1 DEF Outcome
  <2>3. outcome \in {"DELIVERED", "FAILED", "RETRY"}
    BY <2>2 DEF AfterFailure
  <2>4. outcome = "RETRY" => row.attempts + 1 < MaxAttempts
    BY <2>2, BudgetAssumption DEF AfterFailure, TypeOK, Delivery
  <2>5. row.attempts \in Nat /\ row.attempts < MaxAttempts + retries
    BY <2>1 DEF BudgetLeft, Ended, TypeOK, Delivery
  <2>6. PICK due : due = (outcome # "RETRY")
    OBVIOUS
  <2>7. Completed(w) = [row EXCEPT !.status = outcome, !.attempts = @ + 1,
                          !.owner = NoOwner, !.live = FALSE, !.due = due]
    BY <1>2, <2>6 DEF Completed
  <2>8. outcome \in Status /\ row.attempts + 1 \in Nat /\ due \in BOOLEAN
    BY <2>3, <2>5, <2>6 DEF Status
  <2> HIDE DEF outcome
  <2>9. /\ Completed(w) \in Delivery
        /\ Completed(w).status = outcome /\ Completed(w).attempts = row.attempts + 1
        /\ Completed(w).owner = NoOwner /\ Completed(w).live = FALSE
        /\ Completed(w).due = due
    BY <2>7, <2>8 DEF TypeOK, Delivery
  <2>10. outcome # "RETRY" => Completed(w).due
    BY <2>6, <2>9
  <2> QED
    BY <1>2, <2>3, <2>4, <2>5, <2>9, <2>10, BudgetAssumption DEF TypeOK, Ended
<1> QED BY <1>1, <1>2

\* The invariant after a step that writes a row all of whose parts are in order.
LEMMA RowInOrder ==
    ASSUME NEW r \in Delivery, row' = r,
           r.status = "CLAIMED" <=> r.owner # NoOwner,
           r.live => r.owner # NoOwner,
           enabled' \in BOOLEAN, worker' \in [Worker -> Process],
           posts' \in Nat, unsent' \in Nat, retries' \in 0 .. MaxRetries, faults' \in 0 .. MaxFaults,
           r.attempts <= MaxAttempts + retries',
           r.status \notin Ended => r.attempts < MaxAttempts + retries',
           r.status \in Ended => r.due,
           \A v \in Worker : r.owner = v /\ worker'[v].pc # "idle" =>
               worker'[v].attempts = r.attempts
    PROVE  IInv'
<1>1. r.owner \in Worker => r.status = "CLAIMED"
  BY OwnerAssumption
<1>2. TypeOK'
  BY DEF TypeOK
<1>3. HolderIsCurrent'
  BY <1>1 DEF HolderIsCurrent
<1>4. BudgetLeft'
  BY DEF BudgetLeft
<1>5. EndedIsDue'
  BY DEF EndedIsDue
<1> QED BY <1>2, <1>3, <1>4, <1>5 DEF IInv

\* A fault stays within the explored bound.
LEMMA FaultCounted == ASSUME TypeOK, Fault PROVE faults' \in 0 .. MaxFaults
BY BudgetAssumption DEF TypeOK, Fault

-----------------------------------------------------------------------------
LEMMA StepInvariant == IInv /\ [Next]_vars => IInv'
<1> SUFFICES ASSUME IInv, [Next]_vars PROVE IInv'
  OBVIOUS
<1> USE DEF IInv
<1>a. /\ row \in Delivery /\ row.attempts \in Nat /\ retries \in Nat
      /\ worker \in [Worker -> Process]
      /\ enabled \in BOOLEAN /\ posts \in Nat /\ unsent \in Nat
      /\ retries \in 0 .. MaxRetries /\ faults \in 0 .. MaxFaults
      /\ row.status = "CLAIMED" <=> row.owner # NoOwner
      /\ row.live => row.owner # NoOwner
      /\ row.attempts <= MaxAttempts + retries
      /\ row.status \notin Ended => row.attempts < MaxAttempts + retries
      /\ row.status \in Ended => row.due
      /\ \A v \in Worker : row.owner = v /\ worker[v].pc # "idle" =>
             worker[v].attempts = row.attempts
  BY DEF TypeOK, Delivery, BudgetLeft, HolderIsCurrent, EndedIsDue
<1>1. CASE Enqueue
  <2> DEFINE r == [row EXCEPT !.status = "PENDING", !.due = TRUE]
  <2>1. /\ r \in Delivery /\ r.status = "PENDING" /\ r.owner = row.owner
        /\ r.live = row.live /\ r.attempts = row.attempts
    BY <1>a, QueuedWritten DEF Status
  <2>3. row.status = "ABSENT" /\ row.owner = NoOwner
    BY <1>1, <1>a DEF Enqueue
  <2>4. row' = r /\ worker' = worker /\ enabled' = enabled
        /\ posts' = posts /\ unsent' = unsent /\ retries' = retries /\ faults' = faults
    BY <1>1 DEF Enqueue
  <2> HIDE DEF r
  <2> QED
    BY <1>a, <2>1, <2>3, <2>4, RowInOrder DEF Ended
<1>2. ASSUME NEW value \in BOOLEAN, SetEndpoint(value) PROVE IInv'
  BY <1>2, <1>a, RowInOrder DEF SetEndpoint
<1>3. CASE RetryFailed
  <2> DEFINE r == [row EXCEPT !.status = "RETRY", !.due = TRUE, !.owner = NoOwner, !.live = FALSE]
  <2>1. /\ r \in Delivery /\ r.status = "RETRY" /\ r.owner = NoOwner
        /\ r.live = FALSE /\ r.attempts = row.attempts
    BY <1>a, ReplayWritten
  <2>2. retries' = retries + 1 /\ retries' \in 0 .. MaxRetries
    BY <1>3, <1>a, BudgetAssumption DEF RetryFailed
  <2>3. r.attempts < MaxAttempts + retries'
    BY <1>a, <2>1, <2>2, BudgetAssumption
  <2>4. /\ row' = r
        /\ worker' = worker /\ enabled' = enabled
        /\ posts' = posts /\ unsent' = unsent /\ faults' = faults
    BY <1>3 DEF RetryFailed
  <2>5. r.attempts <= MaxAttempts + retries'
    BY <2>1, <2>2, <2>3, <1>a, BudgetAssumption
  <2> HIDE DEF r
  <2> QED
    BY <1>a, <2>1, <2>2, <2>3, <2>4, <2>5, OwnerAssumption, RowInOrder DEF Ended
<1>4. CASE BackoffElapses
  <2> DEFINE r == [row EXCEPT !.due = TRUE]
  <2>1. /\ r \in Delivery /\ r.status = row.status /\ r.owner = row.owner
        /\ r.live = row.live /\ r.attempts = row.attempts /\ r.due = TRUE
    BY <1>a, DueWritten
  <2>2. row' = r /\ worker' = worker /\ enabled' = enabled
        /\ posts' = posts /\ unsent' = unsent /\ retries' = retries /\ faults' = faults
    BY <1>4 DEF BackoffElapses
  <2> HIDE DEF r
  <2> QED
    BY <1>a, <2>1, <2>2, RowInOrder
<1>5. CASE LeaseExpires \/ LeaseOverrun
  <2> DEFINE r == [row EXCEPT !.live = FALSE]
  <2>1. /\ r \in Delivery /\ r.status = row.status /\ r.owner = row.owner
        /\ r.live = FALSE /\ r.attempts = row.attempts /\ r.due = row.due
    BY <1>a, LiveWritten
  <2>2. faults' \in 0 .. MaxFaults
    BY <1>5, <1>a, FaultCounted DEF LeaseExpires, LeaseOverrun
  <2>3. /\ row' = r
        /\ worker' = worker /\ enabled' = enabled
        /\ posts' = posts /\ unsent' = unsent /\ retries' = retries
    BY <1>5 DEF LeaseExpires, LeaseOverrun
  <2> HIDE DEF r
  <2> QED
    BY <1>a, <2>1, <2>2, <2>3, RowInOrder
<1>6. ASSUME NEW w \in Worker, NEW caught \in BOOLEAN, Claim(w, caught) PROVE IInv'
  <2> DEFINE r == [row EXCEPT !.status = "CLAIMED", !.owner = w, !.live = TRUE]
             p == [Idle EXCEPT !.pc = "claimed", !.attempts = row.attempts, !.caught = caught]
  <2>1. /\ r \in Delivery /\ r.status = "CLAIMED" /\ r.owner = w
        /\ r.live = TRUE /\ r.attempts = row.attempts
    BY <1>a, ClaimWritten
  <2>2. p \in Process /\ p.attempts = row.attempts
    BY <1>a DEF Idle, Process, Answer
  <2>3. worker' = [worker EXCEPT ![w] = p] /\ row' = r
    BY <1>6 DEF Claim
  <2>4. /\ worker' \in [Worker -> Process] /\ worker'[w].attempts = row.attempts
    BY <1>a, <2>2, <2>3
  <2>5. row.status \notin Ended
    BY <1>6 DEF Claim, Due, DueForEvent, Ended
  <2> HIDE DEF r, p
  <2> QED
    BY <1>6, <1>a, <2>1, <2>3, <2>4, <2>5, OwnerAssumption, RowInOrder DEF Claim, Ended
<1>7. ASSUME NEW w \in Worker, Renew(w) PROVE IInv'
  <2> DEFINE live == IF Holds(w) THEN TRUE ELSE row.live
             r == [row EXCEPT !.live = live]
  <2>1. /\ r \in Delivery /\ r.status = row.status /\ r.owner = row.owner
        /\ r.live = live /\ r.attempts = row.attempts /\ r.due = row.due
    <3>1. live \in BOOLEAN
      BY <1>a DEF Delivery
    <3> HIDE DEF live
    <3> QED BY <3>1, <1>a, LiveWritten
  <2>2. GoTo(w, IF Holds(w) THEN "renewed" ELSE "idle") /\ row' = r
    BY <1>7 DEF Renew
  <2>3. /\ worker' \in [Worker -> Process] /\ worker'[w].attempts = worker[w].attempts
        /\ \A v \in Worker \ {w} : worker'[v] = worker[v]
    BY <2>2, Moved
  <2>4. \A v \in Worker : r.owner = v /\ worker'[v].pc # "idle" => worker'[v].attempts = r.attempts
    BY <1>7, <1>a, <2>1, <2>3 DEF Renew
  <2>5. r.live => r.owner # NoOwner
    BY <1>a, <2>1, OwnerAssumption DEF Holds
  <2> HIDE DEF r
  <2> QED
    BY <1>7, <1>a, <2>1, <2>2, <2>3, <2>4, <2>5, RowInOrder DEF Renew
<1>8. ASSUME NEW w \in Worker, ReadEndpoint(w) PROVE IInv'
  <2>1. GoTo(w, IF enabled THEN "enabled" ELSE "disabled")
    BY <1>8 DEF ReadEndpoint
  <2>2. /\ worker' \in [Worker -> Process] /\ worker'[w].attempts = worker[w].attempts
        /\ \A v \in Worker \ {w} : worker'[v] = worker[v]
    BY <2>1, Moved
  <2> QED
    BY <1>8, <1>a, <2>2, RowInOrder DEF ReadEndpoint
<1>9. ASSUME NEW w \in Worker, NEW answer \in Answer, Post(w, answer) PROVE IInv'
  <2>1. worker' = [worker EXCEPT ![w] = [worker[w] EXCEPT !.pc = "answered", !.answer = answer]]
    BY <1>9 DEF Post
  <2>2. /\ worker' \in [Worker -> Process] /\ worker'[w].attempts = worker[w].attempts
        /\ \A v \in Worker \ {w} : worker'[v] = worker[v]
    BY <1>a, <2>1 DEF Process
  <2> QED
    BY <1>9, <1>a, <2>2, RowInOrder DEF Post
<1>9a. ASSUME NEW w \in Worker, FailBeforeRequest(w) PROVE IInv'
  <2>1. GoTo(w, "threw")
    BY <1>9a DEF FailBeforeRequest
  <2>2. /\ worker' \in [Worker -> Process] /\ worker'[w].attempts = worker[w].attempts
        /\ \A v \in Worker \ {w} : worker'[v] = worker[v]
    BY <2>1, Moved
  <2> QED
    BY <1>9a, <1>a, <2>2, RowInOrder DEF FailBeforeRequest
<1>10. ASSUME NEW w \in Worker, Complete(w) PROVE IInv'
  <2>1. GoTo(w, "idle") /\ worker[w].pc # "idle" /\ row' = Completed(w)
    BY <1>10 DEF Complete
  <2>2. /\ worker' \in [Worker -> Process]
        /\ \A v \in Worker \ {w} : worker'[v] = worker[v]
    BY <2>1, Moved
  <2>3. \A v \in Worker : Completed(w).owner = v /\ worker'[v].pc # "idle" =>
           worker'[v].attempts = Completed(w).attempts
    <3>1. CASE row.owner = w
      BY <3>1, <2>1, CompletedFacts, OwnerAssumption
    <3>2. CASE row.owner # w
      BY <3>2, <1>a, <2>1, <2>2, CompletedFacts
    <3> QED BY <3>1, <3>2
  <2> QED
    BY <1>10, <1>a, <2>1, <2>2, <2>3, CompletedFacts, RowInOrder DEF Complete
<1>11. ASSUME NEW w \in Worker, DatabaseFails(w) PROVE IInv'
  <2> DEFINE pc == IF worker[w].pc = "answered" THEN "threw" ELSE Escape(w)
  <2>1. GoTo(w, pc) /\ worker[w].pc # "idle" /\ row' \in {row, Completed(w)}
    BY <1>11 DEF DatabaseFails
  <2>2. pc \in {"threw", "escaped", "idle"}
    BY DEF Escape
  <2>3. /\ worker' \in [Worker -> Process] /\ worker'[w].attempts = worker[w].attempts
        /\ \A v \in Worker \ {w} : worker'[v] = worker[v]
    <3> HIDE DEF pc
    <3> QED BY <2>1, <2>2, Moved
  <2>4. faults' \in 0 .. MaxFaults
    BY <1>11, FaultCounted DEF DatabaseFails
  <2>5. CASE row' = row
    BY <1>11, <1>a, <2>1, <2>3, <2>4, <2>5, RowInOrder DEF DatabaseFails
  <2>6. CASE row' = Completed(w)
    <3>1. \A v \in Worker : Completed(w).owner = v /\ worker'[v].pc # "idle" =>
             worker'[v].attempts = Completed(w).attempts
      <4>1. CASE row.owner = w
        BY <4>1, <2>1, CompletedFacts, OwnerAssumption
      <4>2. CASE row.owner # w
        BY <4>2, <1>a, <2>1, <2>3, CompletedFacts
      <4> QED BY <4>1, <4>2
    <3> QED
      BY <1>11, <1>a, <2>1, <2>3, <2>4, <2>6, <3>1, CompletedFacts, RowInOrder DEF DatabaseFails
  <2> QED BY <2>1, <2>5, <2>6
<1>12. ASSUME NEW w \in Worker, Release(w) PROVE IInv'
  <2>1. GoTo(w, "idle")
    BY <1>12 DEF Release
  <2>2. /\ worker' \in [Worker -> Process] /\ worker'[w].pc = "idle"
        /\ \A v \in Worker \ {w} : worker'[v] = worker[v]
    BY <2>1, Moved
  <2>3. CASE Holds(w)
    <3> DEFINE r == [row EXCEPT !.status = "RETRY", !.owner = NoOwner, !.live = FALSE]
    <3>1. /\ r \in Delivery /\ r.status = "RETRY" /\ r.owner = NoOwner
          /\ r.live = FALSE /\ r.attempts = row.attempts
      BY <1>a, ReleaseWritten
    <3>2. row.status \notin Ended /\ row' = r
      BY <1>12, <2>3 DEF Holds, Ended, Release
    <3> HIDE DEF r
    <3> QED
      BY <1>12, <1>a, <2>2, <3>1, <3>2, OwnerAssumption, RowInOrder DEF Release, Ended
  <2>4. CASE ~Holds(w)
    <3>1. row' = row
      BY <1>12, <2>4 DEF Release
    <3> QED
      BY <1>12, <1>a, <2>2, <3>1, RowInOrder DEF Release
  <2> QED BY <2>3, <2>4
<1>13. ASSUME NEW w \in Worker, Crash(w) PROVE IInv'
  <2>1. GoTo(w, "idle") /\ faults' \in 0 .. MaxFaults
    BY <1>13, FaultCounted DEF Crash
  <2>2. /\ worker' \in [Worker -> Process] /\ worker'[w].pc = "idle"
        /\ \A v \in Worker \ {w} : worker'[v] = worker[v]
    BY <2>1, Moved
  <2> QED
    BY <1>13, <1>a, <2>1, <2>2, RowInOrder DEF Crash
<1>14. CASE UNCHANGED vars
  BY <1>14, <1>a, RowInOrder DEF vars
<1> QED
  BY <1>1, <1>2, <1>3, <1>4, <1>5, <1>6, <1>7, <1>8, <1>9, <1>9a, <1>10, <1>11, <1>12, <1>13, <1>14
  DEF Next, Proceed

-----------------------------------------------------------------------------
\* The delivery row and its owner agree in every reachable state.
THEOREM Invariance == Spec => []IInv
<1>1. Init => IInv
  BY InitInvariant
<1>2. IInv /\ [Next]_vars => IInv'
  BY StepInvariant
<1> QED BY <1>1, <1>2, PTL DEF Spec

\* The row and the processes keep their types, and a row is claimed exactly
\* while it has an owner (the claims, renewals and completions of the
\* repository).
THEOREM TypeCorrect == Spec => []TypeOK
BY Invariance, PTL DEF IInv

\* The owner of the row decides on the row's own attempt count, whatever
\* leases were lost before (claimDueWebhookDeliveries).
THEOREM HolderCounts == Spec => []HolderIsCurrent
BY Invariance, PTL DEF IInv

\* The configured budget bounds the recorded attempts of a delivery for every
\* number of processes and of faults (nextWebhookAttempt).
THEOREM BudgetHolds == Spec => []AttemptsWithinBudget
<1>1. IInv => AttemptsWithinBudget
  BY DEF IInv, BudgetLeft, AttemptsWithinBudget
<1> QED BY <1>1, Invariance, PTL

\* A delivered row never changes again: no process owns it, and only an owner
\* or a claim can write it (completeWebhookDelivery).
THEOREM DeliveredStays == Spec => DeliveredIsFinal
<1>1. ASSUME IInv, [Next]_vars, row.status = "DELIVERED" PROVE row' = row
  <2>1. row.owner = NoOwner /\ ~row.live
    BY <1>1 DEF IInv, TypeOK
  <2>2. ASSUME NEW w \in Worker PROVE Completed(w) = row /\ ~Holds(w)
    BY <2>1, OwnerAssumption DEF Completed, Holds
  <2>3. row.due /\ row.status \notin {"ABSENT", "PENDING", "RETRY", "CLAIMED", "FAILED"}
    BY <1>1 DEF IInv, EndedIsDue, Ended
  <2>4. ASSUME NEW w \in Worker, Renew(w) PROVE row' = row
    <3>1. row' = [row EXCEPT !.live = row.live]
      BY <2>2, <2>4 DEF Renew
    <3>2. row \in Delivery
      BY <1>1 DEF IInv, TypeOK
    <3> QED BY <3>1, <3>2 DEF Delivery
  <2>5. ASSUME NEW w \in Worker, NEW caught \in BOOLEAN PROVE ~Claim(w, caught)
    BY <2>3 DEF Claim, Due, DueForEvent
  <2>6. ASSUME NEW w \in Worker, Complete(w) \/ DatabaseFails(w) \/ Release(w) PROVE row' = row
    BY <2>2, <2>6 DEF Complete, DatabaseFails, Release
  <2>7. ~Enqueue /\ ~RetryFailed /\ ~BackoffElapses /\ ~LeaseExpires /\ ~LeaseOverrun
    BY <2>1, <2>3 DEF Enqueue, RetryFailed, BackoffElapses, LeaseExpires, LeaseOverrun
  <2> QED
    BY <1>1, <2>4, <2>5, <2>6, <2>7
    DEF Next, Proceed, vars, SetEndpoint, ReadEndpoint, Post, FailBeforeRequest, Crash
<1> QED BY <1>1, Invariance, PTL DEF Spec, DeliveredIsFinal

-----------------------------------------------------------------------------
(***************************************************************************)
(* Duplicates.  A process that lost its lease, or may lose it at any       *)
(* moment, and has not posted yet is exposed: the request it may still     *)
(* send is paid for by the overrun that cost it the lease.  An owner that  *)
(* has posted under an expired lease is exposed as well, because whoever   *)
(* takes the row over leaves its request unrecorded.                       *)
(***************************************************************************)
Unposted == {"claimed", "renewed", "enabled"}

Exposed ==
    {w \in Worker :
        \/ worker[w].pc \in Unposted /\ ~(row.owner = w /\ row.live)
        \/ worker[w].pc = "answered" /\ row.owner = w /\ ~row.live}

\* The strengthening of DuplicatesNeedFaults that steps preserve.
Paid == posts + Cardinality(Exposed) <= row.attempts + faults + Unrecorded

\* Sizes of sets of processes.
LEMMA Sizes ==
    ASSUME NEW S \in SUBSET Worker, NEW T \in SUBSET Worker
    PROVE  /\ IsFiniteSet(S) /\ IsFiniteSet(T)
           /\ Cardinality(S) \in Nat /\ Cardinality(T) \in Nat
           /\ T \subseteq S => Cardinality(T) <= Cardinality(S)
<1>1. IsFiniteSet(S) /\ IsFiniteSet(T)
  BY OwnerAssumption, FS_Subset
<1> QED BY <1>1, FS_CardinalityType, FS_Subset

\* Sizes of sets of processes that differ in one process.
LEMMA Counting ==
    ASSUME NEW S \in SUBSET Worker, NEW T \in SUBSET Worker, NEW w \in Worker
    PROVE  /\ T \subseteq S \ {w} /\ w \in S => Cardinality(T) + 1 <= Cardinality(S)
           /\ T \subseteq S \cup {w} => Cardinality(T) <= Cardinality(S) + 1
<1>1. IsFiniteSet(S) /\ Cardinality(S) \in Nat /\ Cardinality(T) \in Nat
  BY Sizes
<1>2. ASSUME T \subseteq S \ {w}, w \in S PROVE Cardinality(T) + 1 <= Cardinality(S)
  <2>1. IsFiniteSet(S \ {w}) /\ Cardinality(S \ {w}) = Cardinality(S) - 1
    BY <1>1, <1>2, FS_RemoveElement
  <2>2. Cardinality(T) <= Cardinality(S \ {w})
    BY <1>2, <2>1, FS_Subset
  <2> QED BY <1>1, <2>1, <2>2
<1>3. ASSUME T \subseteq S \cup {w} PROVE Cardinality(T) <= Cardinality(S) + 1
  <2>1. /\ IsFiniteSet(S \cup {w})
        /\ Cardinality(S \cup {w}) = IF w \in S THEN Cardinality(S) ELSE Cardinality(S) + 1
    BY <1>1, FS_AddElement
  <2>2. Cardinality(T) <= Cardinality(S \cup {w})
    BY <1>3, <2>1, FS_Subset
  <2> QED BY <1>1, <2>1, <2>2
<1> QED BY <1>2, <1>3

LEMMA ExposedProcesses == Exposed \in SUBSET Worker /\ Exposed' \in SUBSET Worker
BY DEF Exposed

\* A step of one process, in which the row changes hands at most from it to
\* nobody, exposes at most that process.
LEMMA OthersKeepExposure ==
    ASSUME NEW w \in Worker, \A v \in Worker \ {w} : worker'[v] = worker[v],
           \/ row'.owner = row.owner /\ (row'.live = row.live \/ row.owner = w)
           \/ row.owner = w /\ row'.owner = NoOwner
    PROVE  Exposed' \subseteq Exposed \cup {w}
BY OwnerAssumption DEF Exposed

\* Steps that neither post, claim nor overrun: a request that stops being
\* under way becomes an attempt or costs a fault.
LEMMA StillPaid ==
    ASSUME IInv, IInv', Paid, posts' = posts, Exposed' \subseteq Exposed,
           \/ row'.attempts = row.attempts /\ faults' = faults /\ Unrecorded <= Unrecorded'
           \/ row'.attempts = row.attempts /\ faults' = faults + 1
           \/ row'.attempts = row.attempts + 1 /\ faults' \in {faults, faults + 1}
    PROVE  Paid'
<1>1. Cardinality(Exposed') <= Cardinality(Exposed)
      /\ Cardinality(Exposed) \in Nat /\ Cardinality(Exposed') \in Nat
  BY ExposedProcesses, Sizes
<1>2. Unrecorded \in {0, 1} /\ Unrecorded' \in {0, 1}
  BY DEF Unrecorded
<1>3. /\ posts \in Nat /\ faults \in Nat /\ row.attempts \in Nat
      /\ faults' \in Nat /\ row'.attempts \in Nat
  BY DEF IInv, TypeOK, Delivery
<1> HIDE DEF Unrecorded, Exposed
<1> QED BY <1>1, <1>2, <1>3 DEF Paid

\* A lease that runs out under its holder is a fault and exposes the holder.
LEMMA OverrunPaid == IInv /\ IInv' /\ Paid /\ LeaseOverrun => Paid'
<1> SUFFICES ASSUME IInv, IInv', Paid, LeaseOverrun PROVE Paid'
  OBVIOUS
<1>1. row.owner \in Worker
  BY DEF IInv, TypeOK, Delivery, LeaseOverrun
<1>2. /\ worker' = worker /\ posts' = posts /\ faults' = faults + 1
      /\ row'.owner = row.owner /\ row'.attempts = row.attempts
  BY DEF LeaseOverrun, Fault, IInv, TypeOK, Delivery
<1>3. Exposed' \subseteq Exposed \cup {row.owner}
  BY <1>2 DEF Exposed
<1>4. /\ Cardinality(Exposed') <= Cardinality(Exposed) + 1
      /\ Cardinality(Exposed) \in Nat /\ Cardinality(Exposed') \in Nat
  BY <1>1, <1>3, ExposedProcesses, Sizes, Counting
<1>5. Unrecorded' = Unrecorded /\ Unrecorded \in {0, 1}
  BY <1>2 DEF Unrecorded
<1>6. posts \in Nat /\ faults \in Nat /\ row.attempts \in Nat
  BY DEF IInv, TypeOK, Delivery
<1> QED BY <1>2, <1>4, <1>5, <1>6 DEF Paid

\* Taking over a row whose owner's request is unrecorded pays with the
\* exposure of that owner.
LEMMA ClaimPaid ==
    ASSUME IInv, IInv', Paid, NEW w \in Worker, NEW caught \in BOOLEAN, Claim(w, caught)
    PROVE  Paid'
<1>1. worker[w].pc = "idle" /\ ~row.live
  BY DEF Claim, Due, DueForEvent
<1>2. /\ \A v \in Worker \ {w} : worker'[v] = worker[v]
      /\ worker'[w].pc = "claimed"
      /\ posts' = posts /\ faults' = faults
      /\ row'.owner = w /\ row'.live = TRUE /\ row'.attempts = row.attempts
  <2>1. /\ row' = [row EXCEPT !.status = "CLAIMED", !.owner = w, !.live = TRUE]
        /\ worker' = [worker EXCEPT ![w] =
             [Idle EXCEPT !.pc = "claimed", !.attempts = row.attempts, !.caught = caught]]
        /\ posts' = posts /\ faults' = faults
    BY DEF Claim
  <2>2. row'.owner = w /\ row'.live = TRUE /\ row'.attempts = row.attempts
    BY <2>1, ClaimWritten DEF IInv, TypeOK
  <2> QED BY <2>1, <2>2 DEF IInv, TypeOK, Idle
<1>3. /\ posts \in Nat /\ faults \in Nat /\ row.attempts \in Nat
      /\ Cardinality(Exposed) \in Nat /\ Cardinality(Exposed') \in Nat
  BY ExposedProcesses, Sizes DEF IInv, TypeOK, Delivery
<1>4. Unrecorded' = 0
  BY <1>2 DEF Unrecorded
<1>5. Exposed' \subseteq Exposed
  BY <1>1, <1>2 DEF Exposed, Unposted
<1>6. CASE Unrecorded = 0
  <2>1. Cardinality(Exposed') <= Cardinality(Exposed)
    BY <1>5, ExposedProcesses, Sizes
  <2> QED BY <1>2, <1>3, <1>4, <1>6, <2>1 DEF Paid
<1>7. CASE Unrecorded = 1
  <2>1. row.owner \in Worker /\ worker[row.owner].pc = "answered"
    BY <1>7 DEF Unrecorded, IInv, TypeOK, Delivery
  <2>2. row.owner \in Exposed /\ row.owner \notin Exposed'
    BY <1>1, <1>2, <2>1 DEF Exposed, Unposted
  <2>3. Cardinality(Exposed') + 1 <= Cardinality(Exposed)
    BY <1>5, <2>1, <2>2, ExposedProcesses, Counting
  <2> QED BY <1>2, <1>3, <1>4, <1>7, <2>3 DEF Paid
<1> QED BY <1>6, <1>7 DEF Unrecorded

\* A request is under way for the owner; anybody else was exposed before.
LEMMA PostPaid ==
    ASSUME IInv, IInv', Paid, NEW w \in Worker, NEW answer \in Answer, Post(w, answer)
    PROVE  Paid'
<1>1. /\ \A v \in Worker \ {w} : worker'[v] = worker[v]
      /\ worker[w].pc = "enabled" /\ worker'[w].pc = "answered"
      /\ posts' = posts + 1 /\ faults' = faults /\ row' = row
  BY DEF Post, IInv, TypeOK, Process
<1>2. /\ posts \in Nat /\ faults \in Nat /\ row.attempts \in Nat
      /\ Cardinality(Exposed) \in Nat /\ Cardinality(Exposed') \in Nat
  BY ExposedProcesses, Sizes DEF IInv, TypeOK, Delivery
<1>3. Exposed' \subseteq Exposed
  BY <1>1 DEF Exposed, Unposted
<1>4. CASE row.owner = w
  <2>1. Unrecorded = 0 /\ Unrecorded' = 1
    BY <1>1, <1>4, OwnerAssumption DEF Unrecorded
  <2>2. Cardinality(Exposed') <= Cardinality(Exposed)
    BY <1>3, ExposedProcesses, Sizes
  <2> QED BY <1>1, <1>2, <2>1, <2>2 DEF Paid
<1>5. CASE row.owner # w
  <2>1. Unrecorded' = Unrecorded /\ Unrecorded \in {0, 1}
    <3>1. row.owner # NoOwner => row.owner \in Worker
      BY DEF IInv, TypeOK, Delivery
    <3> QED BY <1>1, <1>5, <3>1 DEF Unrecorded
  <2>2. w \in Exposed /\ w \notin Exposed'
    BY <1>1, <1>5 DEF Exposed, Unposted
  <2>3. Cardinality(Exposed') + 1 <= Cardinality(Exposed)
    BY <1>3, <2>2, ExposedProcesses, Counting
  <2> QED BY <1>1, <1>2, <2>1, <2>3 DEF Paid
<1> QED BY <1>4, <1>5

LEMMA StepPaid == IInv /\ IInv' /\ Paid /\ [Next]_vars => Paid'
<1> SUFFICES ASSUME IInv, IInv', Paid, [Next]_vars PROVE Paid'
  OBVIOUS
<1>a. /\ row \in Delivery /\ worker \in [Worker -> Process]
      /\ row.status = "CLAIMED" <=> row.owner # NoOwner
      /\ row.live => row.owner # NoOwner
      /\ row.owner \in Worker \cup {NoOwner}
      /\ TypeOK /\ HolderIsCurrent /\ BudgetLeft /\ EndedIsDue
  BY DEF IInv, TypeOK, Delivery
<1>1. CASE Enqueue \/ BackoffElapses \/ RetryFailed
  <2>1. /\ worker' = worker /\ posts' = posts /\ faults' = faults
        /\ row'.attempts = row.attempts /\ row'.owner = row.owner /\ row'.live = row.live
    BY <1>1, <1>a DEF Enqueue, BackoffElapses, RetryFailed, Delivery
  <2>2. Exposed' = Exposed /\ Unrecorded' = Unrecorded
    BY <2>1 DEF Exposed, Unrecorded
  <2>3. Unrecorded <= Unrecorded'
    BY <2>2 DEF Unrecorded
  <2> QED BY <2>1, <2>2, <2>3, StillPaid
<1>2. ASSUME NEW value \in BOOLEAN, SetEndpoint(value) PROVE Paid'
  BY <1>2 DEF SetEndpoint, Paid, Exposed, Unrecorded
<1>3. CASE LeaseExpires
  <2>1. /\ worker' = worker /\ posts' = posts /\ faults' = faults
        /\ row'.attempts = row.attempts /\ row'.owner = row.owner
        /\ worker[row.owner].pc = "idle"
    BY <1>3, <1>a DEF LeaseExpires, Abandoned, Delivery
  <2>2. Exposed' \subseteq Exposed
    BY <2>1 DEF Exposed, Unposted
  <2>3. Unrecorded <= Unrecorded'
    BY <2>1 DEF Unrecorded
  <2> QED BY <2>1, <2>2, <2>3, StillPaid
<1>4. CASE LeaseOverrun
  BY <1>4, OverrunPaid
<1>5. ASSUME NEW w \in Worker, NEW caught \in BOOLEAN, Claim(w, caught) PROVE Paid'
  BY <1>5, ClaimPaid
<1>6. ASSUME NEW w \in Worker, Renew(w) PROVE Paid'
  <2>1. /\ posts' = posts /\ faults' = faults /\ worker[w].pc = "claimed"
        /\ row' = [row EXCEPT !.live = IF Holds(w) THEN TRUE ELSE @]
        /\ GoTo(w, IF Holds(w) THEN "renewed" ELSE "idle")
    BY <1>6 DEF Renew
  <2>2. /\ \A v \in Worker \ {w} : worker'[v] = worker[v]
        /\ worker'[w].pc = IF Holds(w) THEN "renewed" ELSE "idle"
    BY <2>1, <1>a, Moved
  <2>3. CASE Holds(w)
    <3>1. /\ row'.owner = w /\ row'.live = TRUE /\ row'.attempts = row.attempts
          /\ row.owner = w
      BY <1>a, <2>1, <2>3 DEF Holds, Delivery
    <3>2. Exposed' \subseteq Exposed
      BY <2>2, <2>3, <3>1 DEF Exposed, Unposted
    <3>3. Unrecorded <= Unrecorded'
      BY <2>1, <2>2, <2>3, <3>1, OwnerAssumption DEF Unrecorded
    <3> QED BY <2>1, <3>1, <3>2, <3>3, StillPaid
  <2>4. CASE ~Holds(w)
    <3>1. /\ row'.owner = row.owner /\ row'.live = row.live /\ row'.attempts = row.attempts
          /\ row.owner # w
      BY <1>a, <2>1, <2>4, OwnerAssumption DEF Holds, Delivery
    <3>2. Exposed' \subseteq Exposed
      BY <2>2, <2>4, <3>1 DEF Exposed, Unposted
    <3>3. Unrecorded <= Unrecorded'
      BY <1>a, <2>2, <3>1 DEF Unrecorded
    <3> QED BY <2>1, <3>1, <3>2, <3>3, StillPaid
  <2> QED BY <2>3, <2>4
<1>7. ASSUME NEW w \in Worker, ReadEndpoint(w) \/ FailBeforeRequest(w) PROVE Paid'
  <2>1. /\ posts' = posts /\ faults' = faults /\ row' = row
        /\ worker[w].pc \in {"renewed", "enabled"}
    BY <1>7 DEF ReadEndpoint, FailBeforeRequest
  <2>0. PICK pc \in {"enabled", "disabled", "threw"} : GoTo(w, pc)
    BY <1>7 DEF ReadEndpoint, FailBeforeRequest
  <2>2. /\ \A v \in Worker \ {w} : worker'[v] = worker[v]
        /\ worker'[w].pc \in {"enabled", "disabled", "threw"}
    BY <2>0, <1>a, Moved
  <2>3. Exposed' \subseteq Exposed
    BY <2>1, <2>2 DEF Exposed, Unposted
  <2>4. Unrecorded <= Unrecorded'
    BY <1>a, <2>1, <2>2 DEF Unrecorded
  <2> QED BY <2>1, <2>3, <2>4, StillPaid
<1>8. ASSUME NEW w \in Worker, NEW answer \in Answer, Post(w, answer) PROVE Paid'
  BY <1>8, PostPaid
<1>9. ASSUME NEW w \in Worker, Complete(w) \/ DatabaseFails(w) PROVE Paid'
  <2>1. PICK pc \in {"idle", "threw", "escaped"} : GoTo(w, pc)
    BY <1>9 DEF Complete, DatabaseFails, Escape
  <2>2. /\ \A v \in Worker \ {w} : worker'[v] = worker[v]
        /\ worker'[w].pc \in {"idle", "threw", "escaped"}
    BY <2>1, <1>a, Moved
  <2>3. /\ worker[w].pc # "idle" /\ posts' = posts
        /\ \/ row' = Completed(w) /\ faults' \in {faults, faults + 1}
           \/ row' = row /\ faults' = faults + 1
    BY <1>9 DEF Complete, DatabaseFails, Fault
  <2>4. CASE row.owner = w /\ row' = Completed(w)
    <3>1. row'.owner = NoOwner /\ row'.attempts = row.attempts + 1
      BY <1>a, <2>3, <2>4, CompletedFacts
    <3>2. Exposed' \subseteq Exposed
      BY <2>2, <2>4, <3>1, OthersKeepExposure DEF Exposed, Unposted
    <3>3. faults' \in {faults, faults + 1}
      BY <2>3
    <3> QED BY <2>3, <3>1, <3>2, <3>3, StillPaid
  <2>5. CASE (row.owner # w /\ row' = Completed(w)) \/ row' = row
    <3>1. row' = row
      BY <1>a, <2>3, <2>5, CompletedFacts
    <3>2. Exposed' \subseteq Exposed
      BY <2>2, <3>1 DEF Exposed, Unposted
    <3>3. CASE faults' = faults + 1
      BY <2>3, <3>1, <3>2, <3>3, StillPaid
    <3>4. CASE faults' = faults
      <4>1. row.owner # w
        <5>1. row' = Completed(w)
          BY <2>3, <3>4 DEF IInv, TypeOK
        <5>2. row.attempts # row.attempts + 1
          BY <1>a DEF Delivery
        <5> QED BY <1>a, <2>3, <3>1, <5>1, <5>2, CompletedFacts
      <4>2. Unrecorded <= Unrecorded'
        BY <1>a, <2>2, <3>1, <4>1 DEF Unrecorded
      <4> QED BY <2>3, <3>1, <3>2, <3>4, <4>2, StillPaid
    <3> QED BY <2>3, <3>3, <3>4
  <2> QED BY <2>3, <2>4, <2>5
<1>10. ASSUME NEW w \in Worker, Release(w) PROVE Paid'
  <2>1. /\ posts' = posts /\ faults' = faults /\ worker[w].pc = "escaped" /\ GoTo(w, "idle")
    BY <1>10 DEF Release
  <2>2. /\ \A v \in Worker \ {w} : worker'[v] = worker[v]
        /\ worker'[w].pc = "idle"
    BY <2>1, <1>a, Moved
  <2>3. /\ row'.attempts = row.attempts
        /\ \/ row.owner = w /\ row'.owner = NoOwner
           \/ row' = row
    BY <1>10, <1>a, ReleaseWritten DEF Release, Holds
  <2>4. Exposed' \subseteq Exposed
    BY <2>2, <2>3, OthersKeepExposure DEF Exposed, Unposted
  <2>5. Unrecorded <= Unrecorded'
    BY <1>a, <2>1, <2>2, <2>3, OwnerAssumption DEF Unrecorded
  <2> QED BY <2>1, <2>3, <2>4, <2>5, StillPaid
<1>11. ASSUME NEW w \in Worker, Crash(w) PROVE Paid'
  <2>1. posts' = posts /\ faults' = faults + 1 /\ row' = row /\ GoTo(w, "idle")
    BY <1>11 DEF Crash, Fault
  <2>2. /\ \A v \in Worker \ {w} : worker'[v] = worker[v]
        /\ worker'[w].pc = "idle"
    BY <2>1, <1>a, Moved
  <2>3. Exposed' \subseteq Exposed
    BY <2>1, <2>2 DEF Exposed, Unposted
  <2> QED BY <2>1, <2>3, StillPaid
<1>12. CASE UNCHANGED vars
  BY <1>12 DEF vars, Paid, Exposed, Unrecorded
<1> QED
  BY <1>1, <1>2, <1>3, <1>4, <1>5, <1>6, <1>7, <1>8, <1>9, <1>10, <1>11, <1>12
  DEF Next, Proceed

\* For every number of processes and of faults, a consumer sees a request only
\* for a recorded attempt, the one under way, or a fault: without crashes,
\* overruns and failed writes no event is posted twice for one attempt.
THEOREM DuplicatesArePaid == Spec => []DuplicatesNeedFaults
<1>1. Init => Paid
  <2> SUFFICES ASSUME Init PROVE Paid
    OBVIOUS
  <2>1. Exposed = {}
    BY DEF Init, Exposed, Unposted, Idle
  <2>2. Cardinality(Exposed) = 0
    BY <2>1, FS_EmptySet
  <2> QED BY <2>2 DEF Init, Paid, Unrecorded
<1>2. IInv /\ IInv' /\ Paid /\ [Next]_vars => Paid'
  BY StepPaid
<1>3. IInv /\ Paid => DuplicatesNeedFaults
  <2> SUFFICES ASSUME IInv, Paid PROVE DuplicatesNeedFaults
    OBVIOUS
  <2>1. Cardinality(Exposed) \in Nat
    BY ExposedProcesses, Sizes
  <2>2. posts \in Nat /\ faults \in Nat /\ row.attempts \in Nat /\ Unrecorded \in {0, 1}
    BY DEF IInv, TypeOK, Delivery, Unrecorded
  <2> HIDE DEF Unrecorded
  <2> QED BY <2>1, <2>2 DEF Paid, DuplicatesNeedFaults
<1> QED BY <1>1, <1>2, <1>3, Invariance, PTL DEF Spec

-----------------------------------------------------------------------------
(***************************************************************************)
(* The other side of the account.  The budget is spent on tries that came  *)
(* to an end: a request that was sent, or a destination, key or secret     *)
(* that failed before it.  The latter reach no consumer and can use up the *)
(* whole budget; crashes, lost leases and failed writes use up none of it. *)
(* The only record without a try is the end of a delivery whose endpoint   *)
(* was found disabled, and only a replay goes on after that.               *)
(***************************************************************************)

\* The delivery ended without success, for whatever reason.
GivenUp == IF row.status = "FAILED" THEN 1 ELSE 0

\* The owner has the result of a try, recorded or not, that it will still try
\* to record.
Reporting ==
    IF \E w \in Worker : row.owner = w /\ worker[w].pc \in {"answered", "threw"} THEN 1 ELSE 0

\* Every recorded attempt is a try that was made, but for one at each end.
AttemptsWereTried == row.attempts <= posts + unsent + retries + GivenUp

\* The strengthening of AttemptsWereTried that steps preserve.
Earned == row.attempts + Reporting <= posts + unsent + retries + GivenUp

\* The columns and counters of the account are numbers.
LEMMA Numbers ==
    ASSUME IInv
    PROVE  /\ row.attempts \in Nat /\ posts \in Nat /\ unsent \in Nat /\ retries \in Nat
           /\ GivenUp \in {0, 1} /\ Reporting \in {0, 1}
BY DEF IInv, TypeOK, Delivery, GivenUp, Reporting

\* Steps that neither record, try nor replay: the row is not reopened, and
\* nobody gets a result.
LEMMA StillEarned ==
    ASSUME IInv, IInv', Earned, posts' = posts, unsent' = unsent, retries' = retries,
           row'.attempts = row.attempts,
           Reporting' <= Reporting, GivenUp <= GivenUp'
    PROVE  Earned'
<1>1. /\ row.attempts \in Nat /\ posts \in Nat /\ unsent \in Nat /\ retries \in Nat
      /\ GivenUp \in {0, 1} /\ Reporting \in {0, 1}
  BY Numbers
<1>2. GivenUp' \in {0, 1} /\ Reporting' \in {0, 1}
  BY DEF GivenUp, Reporting
<1> HIDE DEF GivenUp, Reporting
<1> QED BY <1>1, <1>2 DEF Earned

\* Steps of one process that leave its answer, if it has one, where it was, and
\* the row with its owner or with nobody.
LEMMA NobodyAnswered ==
    ASSUME NEW w \in Worker, \A v \in Worker \ {w} : worker'[v] = worker[v],
           \/ worker'[w].pc \notin {"answered", "threw"}
           \/ worker[w].pc \in {"answered", "threw"},
           row'.owner \in {row.owner, NoOwner}
    PROVE  Reporting' <= Reporting
<1>1. CASE \E v \in Worker : row'.owner = v /\ worker'[v].pc \in {"answered", "threw"}
  <2>1. PICK v \in Worker : row'.owner = v /\ worker'[v].pc \in {"answered", "threw"}
    BY <1>1
  <2>2. row.owner = v
    BY <2>1, OwnerAssumption
  <2>3. worker[v].pc \in {"answered", "threw"}
    BY <2>1
  <2> QED BY <2>2, <2>3 DEF Reporting
<1>2. CASE ~\E v \in Worker : row'.owner = v /\ worker'[v].pc \in {"answered", "threw"}
  BY <1>2 DEF Reporting
<1> QED BY <1>1, <1>2

\* A row that nobody owns is reported by nobody.
LEMMA NobodyReports == ASSUME row.owner = NoOwner PROVE Reporting = 0
BY OwnerAssumption DEF Reporting

\* An owned row is claimed, so it has not been given up.
LEMMA OwnedIsOpen == ASSUME TypeOK, NEW w \in Worker, row.owner = w
                     PROVE  GivenUp = 0 /\ row.status = "CLAIMED"
BY OwnerAssumption DEF TypeOK, GivenUp

\* What an owner records is the result of its try, or the end over a disabled endpoint.
LEMMA RecordEarned ==
    ASSUME IInv, IInv', Earned, NEW w \in Worker, row.owner = w,
           worker[w].pc \in {"answered", "threw", "disabled"},
           row' = Completed(w), posts' = posts, unsent' = unsent, retries' = retries
    PROVE  Earned'
<1>1. row'.owner = NoOwner /\ row'.attempts = row.attempts + 1
  BY CompletedFacts DEF IInv
<1>2. Reporting' = 0
  BY <1>1, OwnerAssumption DEF Reporting
<1>3. GivenUp = 0
  BY OwnedIsOpen DEF IInv
<1>4. /\ row.attempts \in Nat /\ posts \in Nat /\ unsent \in Nat /\ retries \in Nat
      /\ GivenUp' \in {0, 1}
  BY Numbers DEF GivenUp
<1>5. CASE worker[w].pc \in {"answered", "threw"}
  <2>1. Reporting = 1
    BY <1>5 DEF Reporting
  <2> QED BY <1>1, <1>2, <1>3, <1>4, <2>1 DEF Earned
<1>6. CASE worker[w].pc = "disabled"
  <2>1. row'.status = "FAILED"
    <3>1. row.status = "CLAIMED" /\ row \in Delivery
      BY OwnedIsOpen DEF IInv, TypeOK
    <3>2. Outcome(worker[w]) = "FAILED"
      BY <1>6 DEF Outcome
    <3> QED BY <3>1, <3>2 DEF Completed, Delivery
  <2>2. GivenUp' = 1
    BY <2>1 DEF GivenUp
  <2>3. Reporting = 0
    BY <1>6 DEF Reporting
  <2> QED BY <1>1, <1>2, <1>3, <1>4, <2>2, <2>3 DEF Earned
<1> QED BY <1>5, <1>6

LEMMA StepEarned == IInv /\ IInv' /\ Earned /\ [Next]_vars => Earned'
<1> SUFFICES ASSUME IInv, IInv', Earned, [Next]_vars PROVE Earned'
  OBVIOUS
<1>a. /\ TypeOK /\ row \in Delivery /\ row.owner \in Worker \cup {NoOwner}
      /\ row.status = "CLAIMED" <=> row.owner # NoOwner
  BY DEF IInv, TypeOK, Delivery
<1>b. Reporting \in {0, 1} /\ GivenUp \in {0, 1}
  BY Numbers
<1>1. CASE Enqueue \/ BackoffElapses \/ LeaseExpires \/ LeaseOverrun
  <2>1. /\ worker' = worker /\ posts' = posts /\ unsent' = unsent /\ retries' = retries
        /\ row'.attempts = row.attempts /\ row'.owner = row.owner
        /\ row.status = "FAILED" => row'.status = "FAILED"
    BY <1>1, <1>a DEF Enqueue, BackoffElapses, LeaseExpires, LeaseOverrun, Delivery
  <2>2. Reporting' = Reporting
    BY <2>1 DEF Reporting
  <2>3. GivenUp <= GivenUp'
    BY <2>1 DEF GivenUp
  <2> QED BY <1>b, <2>1, <2>2, <2>3, StillEarned
<1>2. ASSUME NEW value \in BOOLEAN, SetEndpoint(value) PROVE Earned'
  BY <1>2 DEF SetEndpoint, Earned, Reporting, GivenUp
<1>3. CASE RetryFailed
  <2>1. /\ worker' = worker /\ posts' = posts /\ unsent' = unsent /\ retries' = retries + 1
        /\ row.status = "FAILED"
        /\ row' = [row EXCEPT !.status = "RETRY", !.due = TRUE, !.owner = NoOwner, !.live = FALSE]
    BY <1>3 DEF RetryFailed
  <2>2. row'.status = "RETRY" /\ row'.owner = NoOwner /\ row'.attempts = row.attempts
    BY <2>1, <1>a, ReplayWritten
  <2>3. Reporting' = 0 /\ GivenUp' = 0 /\ GivenUp = 1
    BY <2>1, <2>2, OwnerAssumption DEF Reporting, GivenUp
  <2> QED BY <1>b, <2>1, <2>2, <2>3, Numbers DEF Earned
<1>4. ASSUME NEW w \in Worker, NEW caught \in BOOLEAN, Claim(w, caught) PROVE Earned'
  <2>1. /\ posts' = posts /\ unsent' = unsent /\ retries' = retries /\ row.status # "FAILED"
        /\ row' = [row EXCEPT !.status = "CLAIMED", !.owner = w, !.live = TRUE]
        /\ worker' = [worker EXCEPT ![w] =
             [Idle EXCEPT !.pc = "claimed", !.attempts = row.attempts, !.caught = caught]]
    BY <1>4 DEF Claim, Due, DueForEvent
  <2>2. row'.owner = w /\ row'.attempts = row.attempts
    BY <2>1, <1>a, ClaimWritten
  <2>3. worker'[w].pc = "claimed"
    BY <2>1, <1>a DEF TypeOK, Idle
  <2>4. Reporting' <= Reporting
    BY <1>b, <2>2, <2>3 DEF Reporting
  <2>5. GivenUp <= GivenUp'
    BY <2>1 DEF GivenUp
  <2> QED BY <2>1, <2>2, <2>4, <2>5, StillEarned
<1>5. ASSUME NEW w \in Worker, Renew(w) \/ ReadEndpoint(w) \/ Release(w) \/ Crash(w) PROVE Earned'
  <2>1. PICK pc \in {"idle", "renewed", "enabled", "disabled"} : GoTo(w, pc)
    BY <1>5 DEF Renew, ReadEndpoint, Release, Crash
  <2>2. /\ \A v \in Worker \ {w} : worker'[v] = worker[v]
        /\ worker'[w].pc \notin {"answered", "threw"}
    BY <2>1, <1>a, Moved
  <2>3. /\ posts' = posts /\ unsent' = unsent /\ retries' = retries
        /\ row'.attempts = row.attempts /\ row'.owner \in {row.owner, NoOwner}
        /\ row.status = "FAILED" => row' = row
    <3>1. CASE Renew(w)
      <4>1. /\ posts' = posts /\ unsent' = unsent /\ retries' = retries
            /\ row' = [row EXCEPT !.live = IF Holds(w) THEN TRUE ELSE row.live]
        BY <3>1 DEF Renew
      <4>2. row.status = "FAILED" => ~Holds(w)
        BY DEF Holds
      <4> QED BY <1>a, <4>1, <4>2 DEF Delivery
    <3>2. CASE ReadEndpoint(w) \/ Crash(w)
      BY <3>2 DEF ReadEndpoint, Crash
    <3>3. CASE Release(w)
      BY <1>a, <3>3, ReleaseWritten DEF Release, Holds
    <3> QED BY <1>5, <3>1, <3>2, <3>3
  <2>4. Reporting' <= Reporting
    BY <2>2, <2>3, NobodyAnswered
  <2>5. GivenUp <= GivenUp'
    BY <2>3, <1>b DEF GivenUp
  <2> QED BY <2>3, <2>4, <2>5, StillEarned
<1>6. ASSUME NEW w \in Worker, (\E answer \in Answer : Post(w, answer)) \/ FailBeforeRequest(w)
      PROVE  Earned'
  <2>1. /\ \/ posts' = posts + 1 /\ unsent' = unsent
           \/ posts' = posts /\ unsent' = unsent + 1
        /\ retries' = retries /\ row' = row /\ worker[w].pc = "enabled"
    BY <1>6 DEF Post, FailBeforeRequest
  <2>2. Reporting' \in {0, 1} /\ Reporting \in {0, 1} /\ GivenUp' = GivenUp
    BY <2>1 DEF Reporting, GivenUp
  <2>3. CASE row.owner = w
    <3>1. Reporting = 0
      BY <2>1, <2>3 DEF Reporting
    <3> QED BY <2>1, <2>2, <3>1, Numbers DEF Earned
  <2>4. CASE row.owner # w
    <3>1. \A v \in Worker \ {w} : worker'[v] = worker[v]
      BY <1>6, <1>a DEF Post, FailBeforeRequest, GoTo, TypeOK
    <3>2. Reporting' = Reporting
      BY <2>1, <2>4, <3>1 DEF Reporting
    <3> QED BY <2>1, <2>2, <3>2, Numbers DEF Earned
  <2> QED BY <2>3, <2>4
<1>7. ASSUME NEW w \in Worker, Complete(w) \/ DatabaseFails(w) PROVE Earned'
  <2>1. PICK pc \in {"idle", "threw", "escaped"} :
            GoTo(w, pc) /\ (pc = "threw" => worker[w].pc = "answered")
    BY <1>7 DEF Complete, DatabaseFails, Escape
  <2>2. /\ \A v \in Worker \ {w} : worker'[v] = worker[v]
        /\ \/ worker'[w].pc \notin {"answered", "threw"}
           \/ worker[w].pc \in {"answered", "threw"}
    BY <2>1, <1>a, Moved
  <2>3. /\ posts' = posts /\ unsent' = unsent /\ retries' = retries /\ worker[w].pc # "idle"
        /\ \/ row' = row
           \/ row' = Completed(w) /\ worker[w].pc \in {"answered", "threw", "disabled"}
    BY <1>7 DEF Complete, DatabaseFails
  <2>4. CASE row' = row
    <3>1. Reporting' <= Reporting
      BY <2>2, <2>4, NobodyAnswered
    <3>2. GivenUp <= GivenUp'
      BY <1>b, <2>4 DEF GivenUp
    <3> QED BY <2>3, <2>4, <3>1, <3>2, StillEarned
  <2>5. CASE row.owner = w /\ row' # row
    BY <2>3, <2>5, RecordEarned
  <2>6. CASE row.owner # w
    <3>1. row' = row
      BY <2>3, <2>6 DEF Completed
    <3> QED BY <3>1, <2>4
  <2> QED BY <2>4, <2>5, <2>6
<1>8. CASE UNCHANGED vars
  BY <1>8 DEF vars, Earned, Reporting, GivenUp
<1> QED
  BY <1>1, <1>2, <1>3, <1>4, <1>5, <1>6, <1>7, <1>8 DEF Next, Proceed

\* A delivery's budget is spent on tries that ended, with a request or with a
\* failure before it (deliverWebhook's try block): whatever crashes, overruns
\* and failed writes come between, it records no attempt without one, but for
\* the end over a disabled endpoint and one such end per replay
\* (completeWebhookDelivery, releaseWebhookDeliveryLease).
THEOREM BudgetIsEarned == Spec => []AttemptsWereTried
<1>1. Init => Earned
  BY OwnerAssumption DEF Init, Earned, Reporting, GivenUp
<1>2. IInv /\ IInv' /\ Earned /\ [Next]_vars => Earned'
  BY StepEarned
<1>3. IInv /\ Earned => AttemptsWereTried
  BY Numbers DEF Earned, AttemptsWereTried
<1> QED BY <1>1, <1>2, <1>3, Invariance, PTL DEF Spec
=============================================================================
