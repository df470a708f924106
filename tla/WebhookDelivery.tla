--------------------------- MODULE WebhookDelivery ---------------------------
(***************************************************************************)
(* One row of webhook_deliveries, from the outbox insert that accompanies  *)
(* a state event to its last outcome, and the processes that deliver it:   *)
(* the cron sweep (deliverDueWebhooks) and the immediate delivery of a     *)
(* test event (deliverWebhookEvent).  Each process owns the row by a lease *)
(* under a fresh UUID; here the process itself stands for that UUID, which *)
(* it replaces whenever it claims again.                                   *)
(*                                                                         *)
(* Rows do not interact, so one is enough.  Time is two flags: the backoff *)
(* has elapsed (due) and the lease has not (live).                         *)
(***************************************************************************)
EXTENDS Integers, FiniteSets

CONSTANTS
    Worker,        \* processes that may deliver at once
    NoOwner,       \* lease_owner is null
    MaxAttempts,   \* CELLFLOW_WEBHOOK_MAX_ATTEMPTS
    MaxRetries,    \* bound: manual replays of the failed delivery
    MaxFaults      \* bound: crashes, lease overruns and failed writes

ASSUME OwnerAssumption == NoOwner \notin Worker /\ IsFiniteSet(Worker)

ASSUME BudgetAssumption ==
    MaxAttempts \in Nat \ {0} /\ MaxRetries \in Nat /\ MaxFaults \in Nat

VARIABLES
    row,           \* the delivery row
    enabled,       \* webhook_endpoints.enabled
    worker,        \* what each process has read and where it is
    posts,         \* requests sent to the consumer
    unsent,        \* tries that failed before their request was sent
    retries,       \* manual replays so far
    faults         \* faults so far

vars == <<row, enabled, worker, posts, unsent, retries, faults>>

Status == {"ABSENT", "PENDING", "CLAIMED", "RETRY", "DELIVERED", "FAILED"}

\* The delivery still has to reach an outcome.
Open == {"PENDING", "CLAIMED", "RETRY"}

\* due: coalesce(next_attempt_at, now()) <= now(); live: lease_until > now().
Delivery == [status : Status, attempts : Nat, owner : Worker \cup {NoOwner},
             live : BOOLEAN, due : BOOLEAN]

\* What the consumer's answer means to the deliverer: 2xx, a response worth
\* retrying (408, 425, 429, 5xx) or no response, any other response.
Answer == {"ACCEPTED", "RETRYABLE", "REFUSED"}

\* attempts is the copy of attempt_count in the claimed record; caught says
\* that the process is inside deliverDueWebhooks, which handles exceptions.
Process == [pc : {"idle", "claimed", "renewed", "enabled", "disabled",
                  "answered", "threw", "escaped"},
            attempts : Nat, caught : BOOLEAN, answer : Answer]

Idle == [pc |-> "idle", attempts |-> 0, caught |-> TRUE, answer |-> "REFUSED"]

Init ==
    /\ row = [status |-> "ABSENT", attempts |-> 0, owner |-> NoOwner,
              live |-> FALSE, due |-> FALSE]
    /\ enabled = TRUE
    /\ worker = [w \in Worker |-> Idle]
    /\ posts = 0 /\ unsent = 0 /\ retries = 0 /\ faults = 0

Fault == faults < MaxFaults /\ faults' = faults + 1

GoTo(w, pc) == worker' = [worker EXCEPT ![w] = [@ EXCEPT !.pc = pc]]

-----------------------------------------------------------------------------
(* The outbox and the administrator *)

\* insertEventAndOutbox, enqueueWebhookDeliveries: at most one row per
\* endpoint and event, none for a disabled endpoint.
Enqueue ==
    /\ row.status = "ABSENT" /\ enabled
    /\ row' = [row EXCEPT !.status = "PENDING", !.due = TRUE]
    /\ UNCHANGED <<enabled, worker, posts, unsent, retries, faults>>

\* disableWebhookEndpoint, createWebhookEndpoint on the same URL
SetEndpoint(value) ==
    /\ enabled' = value
    /\ UNCHANGED <<row, worker, posts, unsent, retries, faults>>

\* The replayed row keeps its attempt count.
RetryFailed ==
    /\ row.status = "FAILED"
    /\ retries < MaxRetries
    /\ row' = [row EXCEPT !.status = "RETRY", !.due = TRUE, !.owner = NoOwner, !.live = FALSE]
    /\ retries' = retries + 1
    /\ UNCHANGED <<enabled, worker, posts, unsent, faults>>

-----------------------------------------------------------------------------
(* Time *)

BackoffElapses ==
    /\ ~row.due
    /\ row' = [row EXCEPT !.due = TRUE]
    /\ UNCHANGED <<enabled, worker, posts, unsent, retries, faults>>

Abandoned == row.owner # NoOwner /\ worker[row.owner].pc = "idle"

LeaseExpires ==
    /\ row.live /\ Abandoned
    /\ row' = [row EXCEPT !.live = FALSE]
    /\ UNCHANGED <<enabled, worker, posts, unsent, retries, faults>>

\* The lease runs out while its holder still works.
LeaseOverrun ==
    /\ row.live /\ ~Abandoned
    /\ Fault
    /\ row' = [row EXCEPT !.live = FALSE]
    /\ UNCHANGED <<enabled, worker, posts, unsent, retries>>

-----------------------------------------------------------------------------
(* Claiming *)

\* Fault: an expired claim is not taken up again.
FaultyDue == row.status \in {"PENDING", "RETRY"} /\ row.due /\ ~row.live

\* Fault: a claimed row is due even while its lease runs.
FaultyLeaseIgnored == row.status \in {"PENDING", "RETRY", "CLAIMED"} /\ row.due

\* claimDueWebhookDeliveries
Due ==
    /\ row.status \in {"PENDING", "RETRY", "CLAIMED"}
    /\ row.due
    /\ ~row.live

\* claimWebhookDeliveriesForEvent leaves expired claims to the sweep.
DueForEvent == row.status \in {"PENDING", "RETRY"} /\ row.due /\ ~row.live

Claim(w, caught) ==
    /\ worker[w].pc = "idle"
    /\ IF caught THEN Due ELSE DueForEvent
    /\ row' = [row EXCEPT !.status = "CLAIMED", !.owner = w, !.live = TRUE]
    /\ worker' = [worker EXCEPT ![w] =
          [Idle EXCEPT !.pc = "claimed", !.attempts = row.attempts, !.caught = caught]]
    /\ UNCHANGED <<enabled, posts, unsent, retries, faults>>

Holds(w) == row.owner = w /\ row.status = "CLAIMED"

\* The batch may have waited: a lost lease is left alone, a late one renewed.
Renew(w) ==
    /\ worker[w].pc = "claimed"
    /\ row' = [row EXCEPT !.live = IF Holds(w) THEN TRUE ELSE @]
    /\ GoTo(w, IF Holds(w) THEN "renewed" ELSE "idle")
    /\ UNCHANGED <<enabled, posts, unsent, retries, faults>>

-----------------------------------------------------------------------------
(* deliverWebhook *)

ReadEndpoint(w) ==
    /\ worker[w].pc = "renewed"
    /\ GoTo(w, IF enabled THEN "enabled" ELSE "disabled")
    /\ UNCHANGED <<row, enabled, posts, unsent, retries, faults>>

Post(w, answer) ==
    /\ worker[w].pc = "enabled"
    /\ posts' = posts + 1
    /\ worker' = [worker EXCEPT ![w] = [@ EXCEPT !.pc = "answered", !.answer = answer]]
    /\ UNCHANGED <<row, enabled, unsent, retries, faults>>

\* The destination does not resolve or is not allowed, the encryption key is
\* missing or the signing secret does not decrypt: nothing is sent, and the
\* catch block records the try like any other failure.
FailBeforeRequest(w) ==
    /\ worker[w].pc = "enabled"
    /\ unsent' = unsent + 1
    /\ GoTo(w, "threw")
    /\ UNCHANGED <<row, enabled, posts, retries, faults>>

\* Fault: the running attempt is not counted against the budget.
FaultyAfterFailure(attempts) == IF attempts >= MaxAttempts THEN "FAILED" ELSE "RETRY"

\* nextWebhookAttempt
AfterFailure(attempts) == IF attempts + 1 >= MaxAttempts THEN "FAILED" ELSE "RETRY"

\* What the process is about to record: the outcome of the answer, the
\* exception before the request or of the first completion, or the disabled
\* endpoint.
Outcome(p) ==
    CASE p.pc = "answered" /\ p.answer = "ACCEPTED" -> "DELIVERED"
      [] p.pc = "answered" /\ p.answer = "REFUSED" -> "FAILED"
      [] p.pc = "disabled" -> "FAILED"
      [] OTHER -> AfterFailure(p.attempts)

\* Fault: the outcome is recorded whoever owns the row.
FaultyCompleted(w) ==
    [row EXCEPT !.status = Outcome(worker[w]), !.attempts = @ + 1,
                !.owner = NoOwner, !.live = FALSE,
                !.due = Outcome(worker[w]) # "RETRY"]

\* Fault: the lease is not cleared with its owner.
FaultyLeaseKept(w) ==
    IF row.owner # w THEN row
    ELSE [row EXCEPT !.status = Outcome(worker[w]), !.attempts = @ + 1,
                     !.owner = NoOwner, !.due = Outcome(worker[w]) # "RETRY"]

\* Fault: the owner is not cleared with the outcome.
FaultyOwnerKept(w) ==
    IF row.owner # w THEN row
    ELSE [row EXCEPT !.status = Outcome(worker[w]), !.attempts = @ + 1,
                     !.live = FALSE, !.due = Outcome(worker[w]) # "RETRY"]

\* completeWebhookDelivery with a lease owner
Completed(w) ==
    IF row.owner # w THEN row
    ELSE [row EXCEPT !.status = Outcome(worker[w]), !.attempts = @ + 1,
                     !.owner = NoOwner, !.live = FALSE,
                     !.due = Outcome(worker[w]) # "RETRY"]

Complete(w) ==
    /\ worker[w].pc \in {"answered", "threw", "disabled"}
    /\ row' = Completed(w)
    /\ GoTo(w, "idle")
    /\ UNCHANGED <<enabled, posts, unsent, retries, faults>>

\* Outside the try block only the sweep handles what is thrown.
Escape(w) == IF worker[w].caught THEN "escaped" ELSE "idle"

\* The database call fails, possibly after it was committed.  The catch block
\* around the request also handles the failed completion of its answer.
DatabaseFails(w) ==
    /\ worker[w].pc \in {"renewed", "answered", "threw", "disabled"}
    /\ Fault
    /\ row' \in {row} \cup (IF worker[w].pc = "renewed" THEN {} ELSE {Completed(w)})
    /\ GoTo(w, IF worker[w].pc = "answered" THEN "threw" ELSE Escape(w))
    /\ UNCHANGED <<enabled, posts, unsent, retries>>

\* releaseWebhookDeliveryLease
Release(w) ==
    /\ worker[w].pc = "escaped"
    /\ row' = IF Holds(w)
              THEN [row EXCEPT !.status = "RETRY", !.owner = NoOwner, !.live = FALSE]
              ELSE row
    /\ GoTo(w, "idle")
    /\ UNCHANGED <<enabled, posts, unsent, retries, faults>>

\* The process dies, or an error leaves its loop.
Crash(w) ==
    /\ worker[w].pc # "idle"
    /\ Fault
    /\ GoTo(w, "idle")
    /\ UNCHANGED <<row, enabled, posts, unsent, retries>>

-----------------------------------------------------------------------------
Proceed(w) ==
    \/ Renew(w)
    \/ ReadEndpoint(w)
    \/ \E answer \in Answer : Post(w, answer)
    \/ FailBeforeRequest(w)
    \/ Complete(w)
    \/ Release(w)

Next ==
    \/ Enqueue
    \/ \E value \in BOOLEAN : SetEndpoint(value)
    \/ RetryFailed
    \/ BackoffElapses
    \/ LeaseExpires
    \/ LeaseOverrun
    \/ \E w \in Worker :
          \/ \E caught \in BOOLEAN : Claim(w, caught)
          \/ Proceed(w)
          \/ DatabaseFails(w)
          \/ Crash(w)

Spec == Init /\ [][Next]_vars

\* Time passes, the cron keeps sweeping and a process that does not fail goes
\* on: every request ends, since the socket times out.
Fairness ==
    /\ WF_vars(BackoffElapses)
    /\ WF_vars(LeaseExpires)
    /\ WF_vars(\E w \in Worker : Claim(w, TRUE))
    /\ \A w \in Worker : WF_vars(Proceed(w))

FairSpec == Spec /\ Fairness

-----------------------------------------------------------------------------
(* Properties *)

\* Types of the row and of the processes; a row is claimed exactly while it has
\* an owner, and only an owned row has a running lease.
TypeOK ==
    /\ row \in Delivery
    /\ row.status = "CLAIMED" <=> row.owner # NoOwner
    /\ row.live => row.owner # NoOwner
    /\ enabled \in BOOLEAN
    /\ worker \in [Worker -> Process]
    /\ posts \in Nat /\ unsent \in Nat /\ retries \in 0 .. MaxRetries /\ faults \in 0 .. MaxFaults

\* The process that owns the row decides the next attempt from an attempt
\* count that is still the row's, however many leases were lost before
\* (claimDueWebhookDeliveries, completeWebhookDelivery).
HolderIsCurrent ==
    \A w \in Worker : row.owner = w /\ worker[w].pc # "idle" =>
        row.status = "CLAIMED" /\ worker[w].attempts = row.attempts

\* No delivery records more attempts than its budget and one per manual
\* replay (nextWebhookAttempt).
AttemptsWithinBudget == row.attempts <= MaxAttempts + retries

\* The owner has sent its request and not recorded the answer.
Unrecorded ==
    IF row.owner # NoOwner /\ worker[row.owner].pc = "answered" THEN 1 ELSE 0

\* At-least-once, and no worse: every request to the consumer is a recorded
\* attempt, the one under way, or paid for by a crash, an overrun or a failed
\* write.  Without faults no event is posted twice for one attempt.
DuplicatesNeedFaults == posts <= row.attempts + faults + Unrecorded

\* Nothing that arrives late, neither a stale outcome nor a replay, changes a
\* delivered row.
DeliveredIsFinal == [][row.status = "DELIVERED" => row' = row]_vars

\* With finitely many faults every delivery reaches an outcome: leases of dead
\* processes are taken over and the budget ends the retries.
DeliveryEnds == row.status \in Open ~> row.status \in {"DELIVERED", "FAILED"}
=============================================================================
