----------------------------- MODULE ServiceAccess -----------------------------
(***************************************************************************)
(* How a deployment gets its project, and how the project keeps an         *)
(* administrator.  Every server process migrates the schema and creates    *)
(* the first project once per process (ensureAutomaticBootstrap), racing   *)
(* with the others and with POST /api/setup.  Keys are then created,       *)
(* expire, and are revoked under a lock on the project row (createApiKey,  *)
(* revokeApiKey).                                                          *)
(*                                                                         *)
(* A migration is one transaction under an advisory lock and one step      *)
(* here.  Locks are the transaction's: a transaction that fails or whose   *)
(* process dies gives them back.  Inside a transaction PostgreSQL's now()  *)
(* is the time the transaction began, which is before it had the lock.     *)
(***************************************************************************)
EXTENDS Integers, FiniteSets

CONSTANTS
    Server,        \* server processes with CELLFLOW_AUTO_BOOTSTRAP=true
    Setup,         \* requests to /api/setup
    Migrations,    \* the migrations each of them was built with
    Key,           \* API keys, by id
    InitialKey,    \* the key that is created with the project
    Revocation,    \* requests to revoke a key
    Free,          \* a lock nobody holds
    Never,         \* no expiry; not revoked
    Skew,          \* bound: how far the clocks of server and database differ
    MaxTime,       \* bound: the database's clock
    MaxFaults      \* bound: failed statements, dead processes

Boot == Server \cup Setup

ASSUME ActorAssumption ==
    /\ Server \cap Setup = {}
    /\ Free \notin Boot /\ Free \notin Revocation

ASSUME KeyAssumption == InitialKey \in Key /\ Never \notin 0..MaxTime

ASSUME BoundAssumption == Skew \in Nat /\ MaxTime \in Nat /\ MaxFaults \in Nat

VARIABLES
    applied,       \* schema_migrations
    projects,      \* rows of projects
    stage,         \* where each bootstrap is; "idle" is a promise that is null
    saw,           \* whether a project existed when the transaction looked
    bootLock,      \* holder of the advisory lock of createInitialProject
    key,           \* rows of api_keys
    now,           \* the database's clock
    request,       \* where each revocation is
    target,        \* the key it is to revoke
    since,         \* when its transaction began
    granted,       \* whether it may revoke
    keyLock,       \* holder of the lock on the project row
    faults         \* faults so far

boots == <<applied, projects, stage, saw, bootLock>>
revocations == <<request, target, since, granted, keyLock>>
vars == <<boots, key, now, revocations, faults>>

Version == UNION {Migrations[p] : p \in Boot}

Stage == {"idle", "migrating", "checking", "creating", "locked", "ready", "failed"}

RequestStage == {"new", "waiting", "decided", "ended"}

Moment == 0..MaxTime

Row == [made : BOOLEAN, admin : BOOLEAN,
        expires : Moment \cup {Never}, revoked : Moment \cup {Never}]

Unmade == [made |-> FALSE, admin |-> FALSE, expires |-> Never, revoked |-> Never]

\* Fault: the two times are written to each other's columns.
FaultyNewKey(admin, expires) ==
    [made |-> TRUE, admin |-> admin, expires |-> Never, revoked |-> expires]

NewKey(admin, expires) ==
    [made |-> TRUE, admin |-> admin, expires |-> expires, revoked |-> Never]

Init ==
    /\ applied = {}
    /\ projects = 0
    /\ stage = [p \in Boot |-> "idle"]
    /\ saw = [p \in Boot |-> FALSE]
    /\ bootLock = Free
    /\ key = [k \in Key |-> Unmade]
    /\ now = 0
    /\ request = [r \in Revocation |-> "new"]
    /\ target = [r \in Revocation |-> InitialKey]
    /\ since = [r \in Revocation |-> 0]
    /\ granted = [r \in Revocation |-> FALSE]
    /\ keyLock = Free
    /\ faults = 0

Fault == faults < MaxFaults /\ faults' = faults + 1

GoesTo(p, where) == stage' = [stage EXCEPT ![p] = where]

-----------------------------------------------------------------------------
(* Bootstrap: ensureAutomaticBootstrap and POST /api/setup *)

Pending == {"migrating", "checking", "creating", "locked"}

\* A request finds no promise and starts one; later ones wait for it.  Each
\* setup request is made once.
Ensure(p) ==
    /\ stage[p] = "idle"
    /\ GoesTo(p, "migrating")
    /\ UNCHANGED <<applied, projects, saw, bootLock, key, now, revocations, faults>>

\* migrateDatabase
Migrate(p) ==
    /\ stage[p] = "migrating"
    /\ applied' = applied \cup Migrations[p]
    /\ GoesTo(p, IF p \in Server THEN "checking" ELSE "creating")
    /\ UNCHANGED <<projects, saw, bootLock, key, now, revocations, faults>>

\* hasAnyProject; an error there reads as "no".
Check(p) ==
    /\ stage[p] = "checking"
    /\ \/ GoesTo(p, IF projects > 0 THEN "ready" ELSE "creating") /\ UNCHANGED faults
       \/ GoesTo(p, "creating") /\ Fault
    /\ UNCHANGED <<applied, projects, saw, bootLock, key, now, revocations>>

\* Fault: the lock is not waited for.
FaultyMayLock == bootLock \in Boot \cup {Free}

MayLock == bootLock = Free

\* createInitialProject takes the lock and looks for a project.
Lock(p) ==
    /\ stage[p] = "creating"
    /\ MayLock
    /\ bootLock' = p
    /\ saw' = [saw EXCEPT ![p] = projects > 0]
    /\ GoesTo(p, "locked")
    /\ UNCHANGED <<applied, projects, key, now, revocations, faults>>

\* Its commit: the project with its first key, or nothing.
Committed(p) ==
    IF saw[p]
    THEN UNCHANGED <<projects, key>>
    ELSE /\ projects' = projects + 1
         /\ key' = [key EXCEPT ![InitialKey] = NewKey(TRUE, Never)]

\* SETUP_ALREADY_COMPLETE fails a setup request and ends the promise well.
Create(p) ==
    /\ stage[p] = "locked"
    /\ Committed(p)
    /\ bootLock' = Free
    /\ GoesTo(p, IF saw[p] /\ p \in Setup THEN "failed" ELSE "ready")
    /\ UNCHANGED <<applied, saw, now, revocations, faults>>

\* The promise is dropped, so that the next request tries again.
GivesUp(p) == GoesTo(p, IF p \in Server THEN "idle" ELSE "failed")

\* Fault: the lock belongs to the connection and survives the transaction.
FaultyReleasedBy(p) == UNCHANGED bootLock

ReleasedBy(p) == bootLock' = IF bootLock = p THEN Free ELSE bootLock

\* A statement fails, or the process dies and a fresh one takes its place.
BootFails(p) ==
    /\ stage[p] \in Pending \/ (stage[p] = "ready" /\ p \in Server)
    /\ Fault
    /\ GivesUp(p)
    /\ ReleasedBy(p)
    /\ UNCHANGED <<applied, projects, saw, key, now, revocations>>

\* The commit is made but its answer is lost.
CreateUnanswered(p) ==
    /\ stage[p] = "locked"
    /\ Fault
    /\ Committed(p)
    /\ bootLock' = Free
    /\ GivesUp(p)
    /\ UNCHANGED <<applied, saw, now, revocations>>

-----------------------------------------------------------------------------
(* API keys *)

Expired(k, t) == key[k].expires # Never /\ key[k].expires <= t

\* findAuthByApiKeyHash and the query of revokeApiKey, with now() = t.
Active(t) == {k \in Key : key[k].made /\ key[k].revoked = Never /\ ~Expired(k, t)}

Admins == {k \in Key : key[k].admin}

\* Someone can call the key routes, which require the admin scope.
Administered == Active(now) \cap Admins # {}

\* createApiKey; the expiry is in the future.
CreateKey(k, admin, expires) ==
    /\ Administered
    /\ keyLock = Free
    /\ ~key[k].made
    /\ k # InitialKey
    /\ expires \in (now + 1)..MaxTime \cup {Never}
    /\ key' = [key EXCEPT ![k] = NewKey(admin, expires)]
    /\ UNCHANGED <<boots, now, revocations, faults>>

\* The transaction of a revocation begins, before it has the lock.
Revoke(r, k) ==
    /\ request[r] = "new"
    /\ Administered
    /\ request' = [request EXCEPT ![r] = "waiting"]
    /\ target' = [target EXCEPT ![r] = k]
    /\ since' = [since EXCEPT ![r] = now]
    /\ UNCHANGED <<boots, key, now, granted, keyLock, faults>>

\* An active key stays if it is the last one, or the last administrator.
MayRevoke(k, t) ==
    /\ Cardinality(Active(t)) > 1
    /\ k \in Admins => Cardinality(Active(t) \cap Admins) > 1

\* Fault: only the row of the key to revoke is locked.
FaultyMayDecide(r) == \A q \in Revocation \ {r} :
    request[q] = "decided" => target[q] # target[r]

MayDecide(r) == keyLock = Free

\* The lock is taken and the rows are read: an unknown or revoked key is left
\* alone, the target's expiry is compared with the server's clock, that of the
\* active keys with now().
Decide(r) ==
    /\ request[r] = "waiting"
    /\ MayDecide(r)
    /\ keyLock' = r
    /\ \E t \in (now - Skew)..(now + Skew) :
          granted' = [granted EXCEPT ![r] =
              /\ key[target[r]].made /\ key[target[r]].revoked = Never
              /\ Expired(target[r], t) \/ MayRevoke(target[r], since[r])]
    /\ request' = [request EXCEPT ![r] = "decided"]
    /\ UNCHANGED <<boots, key, now, target, since, faults>>

\* The commit.  "revoked" is the time of it.
Finish(r) ==
    /\ request[r] = "decided"
    /\ key' = IF granted[r] THEN [key EXCEPT ![target[r]].revoked = now] ELSE key
    /\ keyLock' = Free
    /\ request' = [request EXCEPT ![r] = "ended"]
    /\ UNCHANGED <<boots, now, target, since, granted, faults>>

\* A statement fails or the process dies; the transaction is rolled back.
RevokeFails(r) ==
    /\ request[r] \in {"waiting", "decided"}
    /\ Fault
    /\ keyLock' = IF keyLock = r THEN Free ELSE keyLock
    /\ request' = [request EXCEPT ![r] = "ended"]
    /\ UNCHANGED <<boots, key, now, target, since, granted>>

Tick ==
    /\ now < MaxTime
    /\ now' = now + 1
    /\ UNCHANGED <<boots, key, revocations, faults>>

-----------------------------------------------------------------------------
Next ==
    \/ \E p \in Boot : \/ Ensure(p) \/ Migrate(p) \/ Check(p) \/ Lock(p) \/ Create(p)
                       \/ BootFails(p) \/ CreateUnanswered(p)
    \/ \E k \in Key, admin \in BOOLEAN, expires \in Moment \cup {Never} :
          CreateKey(k, admin, expires)
    \/ \E r \in Revocation : \/ \E k \in Key : Revoke(r, k)
                             \/ Decide(r) \/ Finish(r) \/ RevokeFails(r)
    \/ Tick

Spec == Init /\ [][Next]_vars

-----------------------------------------------------------------------------
(* Properties *)

\* The type invariant; no row is revoked before it is made, or in the future.
TypeOK ==
    /\ applied \subseteq Version
    /\ projects \in Nat
    /\ stage \in [Boot -> Stage]
    /\ saw \in [Boot -> BOOLEAN]
    /\ bootLock \in Boot \cup {Free}
    /\ key \in [Key -> Row]
    /\ now \in Moment
    /\ request \in [Revocation -> RequestStage]
    /\ target \in [Revocation -> Key]
    /\ since \in [Revocation -> Moment]
    /\ granted \in [Revocation -> BOOLEAN]
    /\ keyLock \in Revocation \cup {Free}
    /\ faults \in 0..MaxFaults
    /\ \A k \in Key : key[k].made \/ key[k] = Unmade
    /\ \A k \in Key : key[k].revoked # Never => key[k].revoked <= now

\* However many processes and setup requests race, fail and retry, there is one
\* first project and one key made with it, also after every key has gone; and a
\* bootstrap that ended well left the project and the schema it was built for.
BootstrappedOnce ==
    /\ projects <= 1
    /\ projects = 1 <=> key[InitialKey].made
    /\ \A p \in Boot : stage[p] = "ready" => projects = 1 /\ Migrations[p] \subseteq applied

\* The key was no longer valid when it was revoked, up to the clocks' difference.
LapsedFirst(k) ==
    key[k].expires # Never /\ key[k].revoked # Never /\ key[k].expires <= key[k].revoked + Skew

\* The project loses its last administrator through expiry only: an admin key
\* is unrevoked, or one was revoked after it had expired.  Revocations that run
\* together, each seeing the other's key, do not lock everybody out.
AdministratorKept ==
    projects > 0 =>
        \E k \in Admins : key[k].made /\ (key[k].revoked = Never \/ LapsedFirst(k))

\* A lock is held by a transaction that is under way, by one at a time: whoever
\* failed or died with it does not keep the others waiting.
LocksAreHeld ==
    /\ \A p \in Boot : stage[p] = "locked" <=> bootLock = p
    /\ \A r \in Revocation : request[r] = "decided" <=> keyLock = r

=============================================================================
