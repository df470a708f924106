-------------------------- MODULE ServiceAccess_proofs --------------------------
(***************************************************************************)
(* One bootstrap and a kept administrator, for any number of processes,    *)
(* requests, keys and faults.  The two locks carry the argument: what a    *)
(* transaction read under its lock is still so when it commits.            *)
(***************************************************************************)
EXTENDS ServiceAccess, FiniteSetTheorems, TLAPS

Shape ==
    /\ applied \subseteq Version
    /\ projects \in Nat
    /\ stage \in [Boot -> Stage]
    /\ saw \in [Boot -> BOOLEAN]
    /\ bootLock \in Boot \cup {Free}
    /\ now \in Moment
    /\ request \in [Revocation -> RequestStage]
    /\ target \in [Revocation -> Key]
    /\ since \in [Revocation -> Moment]
    /\ granted \in [Revocation -> BOOLEAN]
    /\ keyLock \in Revocation \cup {Free}
    /\ faults \in 0..MaxFaults

KeysOK ==
    /\ key \in [Key -> Row]
    /\ \A k \in Key : key[k].made \/ key[k] = Unmade
    /\ \A k \in Key : key[k].revoked # Never => key[k].revoked <= now

\* Keys belong to the one project; the holder of the lock knows whether it is
\* there; who has migrated finds its schema.
BootOK ==
    /\ projects <= 1
    /\ projects = 1 <=> key[InitialKey].made
    /\ \A k \in Key : key[k].made => projects = 1
    /\ \A p \in Boot : stage[p] = "locked" => (saw[p] <=> projects = 1)
    /\ \A p \in Boot : stage[p] = "ready" => projects = 1
    /\ \A p \in Boot : stage[p] \in {"checking", "creating", "locked", "ready"} =>
                          Migrations[p] \subseteq applied

\* A revocation that may go ahead leaves another admin key, or revokes one that
\* has expired, or one that is not an admin key.
GrantOK(r) ==
    /\ key[target[r]].made
    /\ \/ target[r] \notin Admins
       \/ key[target[r]].expires # Never /\ key[target[r]].expires <= now + Skew
       \/ \E k \in Admins \ {target[r]} : key[k].made /\ key[k].revoked = Never

GrantsOK == \A r \in Revocation : request[r] = "decided" /\ granted[r] => GrantOK(r)

IInv == Shape /\ KeysOK /\ BootOK /\ LocksAreHeld /\ AdministratorKept /\ GrantsOK

-----------------------------------------------------------------------------
(* Facts about the rows *)

LEMMA NewKeyIsRow ==
    ASSUME NEW admin \in BOOLEAN, NEW expires \in Moment \cup {Never}
    PROVE  /\ NewKey(admin, expires) \in Row
           /\ NewKey(admin, expires).made
           /\ NewKey(admin, expires).admin = admin
           /\ NewKey(admin, expires).revoked = Never
BY DEF NewKey, Row

LEMMA UnmadeIsRow ==
    Unmade \in Row /\ ~Unmade.made /\ Unmade.revoked = Never
BY DEF Unmade, Row

\* A revocation writes one column of one row.
LEMMA RevokedRow ==
    ASSUME key \in [Key -> Row], NEW x \in Key, NEW t \in Moment,
           key' = [key EXCEPT ![x].revoked = t]
    PROVE  /\ key' \in [Key -> Row]
           /\ key'[x].revoked = t
           /\ \A k \in Key : /\ key'[k].made = key[k].made
                             /\ key'[k].admin = key[k].admin
                             /\ key'[k].expires = key[k].expires
           /\ \A k \in Key : k # x => key'[k] = key[k]
BY DEF Row

\* More than one administrator means another one.
LEMMA AnotherOne ==
    ASSUME NEW S, NEW x, Cardinality(S) > 1
    PROVE  \E y \in S : y # x
<1>1. ASSUME \A y \in S : y = x
      PROVE  FALSE
  <2>1. S \subseteq {x}
    BY <1>1
  <2>2. IsFiniteSet({x}) /\ Cardinality({x}) = 1
    BY FS_Singleton
  <2>3. IsFiniteSet(S) /\ Cardinality(S) <= Cardinality({x})
    BY <2>1, <2>2, FS_Subset
  <2>4. Cardinality(S) \in Nat
    BY <2>3, FS_CardinalityType
  <2>5. QED
    BY <2>2, <2>3, <2>4
<1>2. QED
  BY <1>1

LEMMA FaultIsBounded ==
    ASSUME faults \in 0..MaxFaults, Fault
    PROVE  faults' \in 0..MaxFaults
BY BoundAssumption DEF Fault

\* The keys and what revocations know of them, when neither is written.
LEMMA KeysUntouched ==
    ASSUME IInv, UNCHANGED <<key, now, revocations>>
    PROVE  /\ KeysOK' /\ GrantsOK'
           /\ \A r \in Revocation : request'[r] = "decided" <=> keyLock' = r
<1>1. Admins' = Admins
  BY DEF Admins
<1>2. \A r \in Revocation : GrantOK(r) => GrantOK(r)'
  BY <1>1 DEF GrantOK, revocations
<1>3. GrantsOK'
  BY <1>2 DEF IInv, GrantsOK, revocations
<1>4. KeysOK'
  BY DEF IInv, KeysOK
<1>5. QED
  BY <1>3, <1>4 DEF IInv, LocksAreHeld, revocations

LEMMA BootUntouched ==
    ASSUME IInv, UNCHANGED boots, key'[InitialKey].made = key[InitialKey].made,
           \A k \in Key : key'[k].made => key[k].made \/ projects = 1
    PROVE  /\ BootOK'
           /\ \A p \in Boot : stage'[p] = "locked" <=> bootLock' = p
BY DEF IInv, BootOK, LocksAreHeld, boots

LEMMA AdministratorUntouched ==
    ASSUME AdministratorKept, UNCHANGED <<key, projects>>
    PROVE  AdministratorKept'
BY DEF AdministratorKept, Admins, LapsedFirst

-----------------------------------------------------------------------------
(* Bootstrap *)

\* A bootstrap that moves without the lock and without a commit.
LEMMA MoveKeeps ==
    ASSUME IInv, Shape', NEW p \in Boot, NEW where \in Stage,
           stage' = [stage EXCEPT ![p] = where],
           stage[p] # "locked", where # "locked",
           UNCHANGED <<projects, saw, bootLock, key, now, revocations>>,
           applied \subseteq applied',
           where = "ready" => projects = 1,
           where \in {"checking", "creating", "ready"} => Migrations[p] \subseteq applied'
    PROVE  IInv'
<1>1. BootOK'
  <2>1. \A q \in Boot : stage'[q] = IF q = p THEN where ELSE stage[q]
    BY DEF IInv, Shape
  <2>2. \A q \in Boot : stage'[q] \in {"checking", "creating", "locked", "ready"} =>
                          Migrations[q] \subseteq applied'
    BY <2>1 DEF IInv, BootOK
  <2>3. QED
    BY <2>1, <2>2 DEF IInv, BootOK
<1>2. \A q \in Boot : stage'[q] = "locked" <=> bootLock' = q
  BY DEF IInv, Shape, LocksAreHeld
<1>3. AdministratorKept'
  BY AdministratorUntouched DEF IInv
<1>4. QED
  BY <1>1, <1>2, <1>3, KeysUntouched DEF IInv, LocksAreHeld

LEMMA EnsureKeeps ==
    ASSUME IInv, NEW p \in Boot, Ensure(p)
    PROVE  IInv'
<1>1. Shape'
  BY DEF IInv, Shape, Ensure, GoesTo, Stage, revocations
<1>2. "migrating" \in Stage
  BY DEF Stage
<1>3. QED
  BY <1>1, <1>2, MoveKeeps DEF Ensure, GoesTo

LEMMA MigrateKeeps ==
    ASSUME IInv, NEW p \in Boot, Migrate(p)
    PROVE  IInv'
<1>1. PICK where \in {"checking", "creating"} : stage' = [stage EXCEPT ![p] = where]
  BY DEF Migrate, GoesTo
<1>2. applied' \subseteq Version
  BY DEF Migrate, IInv, Shape, Version
<1>3. where \in Stage
  BY DEF Stage
<1>4. Shape'
  BY <1>1, <1>2, <1>3 DEF IInv, Shape, Migrate, revocations
<1>5. QED
  BY <1>1, <1>3, <1>4, MoveKeeps DEF Migrate

LEMMA CheckKeeps ==
    ASSUME IInv, NEW p \in Boot, Check(p)
    PROVE  IInv'
<1>1. PICK where \in {"ready", "creating"} :
          /\ stage' = [stage EXCEPT ![p] = where]
          /\ where = "ready" => projects > 0
  BY DEF Check, GoesTo
<1>2. where \in Stage
  BY DEF Stage
<1>3. Shape'
  <2>1. faults' \in 0..MaxFaults
    BY FaultIsBounded DEF Check, IInv, Shape
  <2>2. QED
    BY <1>1, <1>2, <2>1 DEF IInv, Shape, Check, revocations
<1>4. projects > 0 => projects = 1
  BY DEF IInv, Shape, BootOK
<1>5. Migrations[p] \subseteq applied
  BY DEF Check, IInv, BootOK
<1>6. QED
  BY <1>1, <1>2, <1>3, <1>4, <1>5, MoveKeeps DEF Check

LEMMA LockKeeps ==
    ASSUME IInv, NEW p \in Boot, Lock(p)
    PROVE  IInv'
<1>1. Shape'
  BY DEF IInv, Shape, Lock, GoesTo, Stage, revocations
<1>2. stage' = [stage EXCEPT ![p] = "locked"] /\ saw' = [saw EXCEPT ![p] = projects > 0]
  BY DEF Lock, GoesTo
<1>3. bootLock = Free /\ bootLock' = p /\ stage[p] = "creating"
  BY DEF Lock, MayLock
<1>4. projects > 0 <=> projects = 1
  BY DEF IInv, Shape, BootOK
<1>5. \A q \in Boot : stage[q] # "locked"
  BY <1>3, ActorAssumption DEF IInv, LocksAreHeld
<1>6. \A q \in Boot : stage'[q] = "locked" <=> bootLock' = q
  BY <1>2, <1>3, <1>5 DEF IInv, Shape
<1>7. BootOK'
  <2>1. saw'[p] <=> projects = 1
    BY <1>2, <1>4 DEF IInv, Shape
  <2>2. \A q \in Boot : q # p => stage'[q] = stage[q]
    BY <1>2 DEF IInv, Shape
  <2>3. stage'[p] = "locked"
    BY <1>2 DEF IInv, Shape
  <2>4. UNCHANGED <<projects, key, applied>>
    BY DEF Lock
  <2>5. QED
    BY <1>3, <1>5, <2>1, <2>2, <2>3, <2>4 DEF IInv, BootOK
<1>8. AdministratorKept'
  BY AdministratorUntouched DEF IInv, Lock
<1>9. QED
  BY <1>1, <1>6, <1>7, <1>8, KeysUntouched DEF IInv, LocksAreHeld, Lock

\* What a commit of createInitialProject does to the project and the keys.
LEMMA CommittedIsSound ==
    ASSUME IInv, NEW p \in Boot, stage[p] = "locked", Committed(p),
           UNCHANGED <<now, revocations>>
    PROVE  /\ projects' = 1
           /\ KeysOK' /\ GrantsOK' /\ AdministratorKept'
           /\ key'[InitialKey].made
           /\ \A r \in Revocation : request'[r] = "decided" <=> keyLock' = r
<1>1. CASE saw[p]
  <2>1. projects = 1 /\ UNCHANGED <<projects, key>>
    BY <1>1 DEF Committed, IInv, BootOK
  <2>2. QED
    BY <2>1, KeysUntouched, AdministratorUntouched DEF IInv, BootOK
<1>2. CASE ~saw[p]
  <2>1. projects = 0 /\ projects' = 1
    BY <1>2 DEF Committed, IInv, Shape, BootOK
  <2>2. key' = [key EXCEPT ![InitialKey] = NewKey(TRUE, Never)]
    BY <1>2 DEF Committed
  <2>3. \A k \in Key : key[k] = Unmade /\ ~key[k].made
    BY <2>1 DEF IInv, BootOK, KeysOK
  <2>4. /\ NewKey(TRUE, Never) \in Row /\ NewKey(TRUE, Never).made
        /\ NewKey(TRUE, Never).admin /\ NewKey(TRUE, Never).revoked = Never
    BY NewKeyIsRow
  <2>5. key'[InitialKey] = NewKey(TRUE, Never) /\ InitialKey \in Key
    BY <2>2, KeyAssumption DEF IInv, KeysOK
  <2>6. \A k \in Key : k # InitialKey => key'[k] = Unmade
    BY <2>2, <2>3 DEF IInv, KeysOK
  <2>7. KeysOK'
    <3>1. key' \in [Key -> Row]
      BY <2>2, <2>4 DEF IInv, KeysOK
    <3>2. \A k \in Key : key'[k].revoked = Never
      BY <2>4, <2>5, <2>6, UnmadeIsRow
    <3>3. QED
      BY <2>4, <2>5, <2>6, <3>1, <3>2 DEF KeysOK
  <2>8. AdministratorKept'
    BY <2>4, <2>5 DEF AdministratorKept, Admins
  <2>9. GrantsOK'
    BY <2>3 DEF IInv, GrantsOK, GrantOK, revocations, Shape
  <2>10. QED
    BY <2>1, <2>4, <2>5, <2>7, <2>8, <2>9 DEF IInv, LocksAreHeld, revocations
<1>3. QED
  BY <1>1, <1>2

\* Create and CreateUnanswered: the commit, and the lock given back.
LEMMA CommitKeeps ==
    ASSUME IInv, NEW p \in Boot, NEW where \in {"ready", "failed", "idle"},
           stage[p] = "locked", Committed(p), bootLock' = Free,
           stage' = [stage EXCEPT ![p] = where],
           faults' \in 0..MaxFaults,
           UNCHANGED <<applied, saw, now, revocations>>
    PROVE  IInv'
<1>1. /\ projects' = 1 /\ KeysOK' /\ GrantsOK' /\ AdministratorKept' /\ key'[InitialKey].made
      /\ \A r \in Revocation : request'[r] = "decided" <=> keyLock' = r
  BY CommittedIsSound
<1>2. Shape'
  BY <1>1 DEF IInv, Shape, Stage, revocations
<1>3. bootLock = p
  BY DEF IInv, LocksAreHeld
<1>4. \A q \in Boot : stage'[q] # "locked" /\ bootLock' # q
  BY <1>3, ActorAssumption DEF IInv, Shape, LocksAreHeld
<1>5. BootOK'
  <2>1. \A q \in Boot : stage'[q] \in {"checking", "creating", "locked", "ready"} =>
                          Migrations[q] \subseteq applied'
    BY DEF IInv, Shape, BootOK
  <2>2. QED
    BY <1>1, <1>4, <2>1 DEF BootOK
<1>6. QED
  BY <1>1, <1>2, <1>4, <1>5 DEF IInv, LocksAreHeld

LEMMA CreateKeeps ==
    ASSUME IInv, NEW p \in Boot, Create(p)
    PROVE  IInv'
<1>1. PICK where \in {"ready", "failed"} : stage' = [stage EXCEPT ![p] = where]
  BY DEF Create, GoesTo
<1>2. faults' \in 0..MaxFaults
  BY DEF Create, IInv, Shape
<1>3. QED
  BY <1>1, <1>2, CommitKeeps DEF Create

LEMMA CreateUnansweredKeeps ==
    ASSUME IInv, NEW p \in Boot, CreateUnanswered(p)
    PROVE  IInv'
<1>1. PICK where \in {"idle", "failed"} : stage' = [stage EXCEPT ![p] = where]
  BY DEF CreateUnanswered, GivesUp, GoesTo
<1>2. faults' \in 0..MaxFaults
  BY FaultIsBounded DEF CreateUnanswered, IInv, Shape
<1>3. QED
  BY <1>1, <1>2, CommitKeeps DEF CreateUnanswered

LEMMA BootFailsKeeps ==
    ASSUME IInv, NEW p \in Boot, BootFails(p)
    PROVE  IInv'
<1>1. PICK where \in {"idle", "failed"} : stage' = [stage EXCEPT ![p] = where]
  BY DEF BootFails, GivesUp, GoesTo
<1>2. faults' \in 0..MaxFaults
  BY FaultIsBounded DEF BootFails, IInv, Shape
<1>3. bootLock' \in Boot \cup {Free}
  BY DEF BootFails, ReleasedBy, IInv, Shape
<1>4. Shape'
  BY <1>1, <1>2, <1>3 DEF IInv, Shape, Stage, BootFails, revocations
<1>5. \A q \in Boot : stage'[q] = IF q = p THEN where ELSE stage[q]
  BY <1>1 DEF IInv, Shape
<1>6. \A q \in Boot : stage'[q] = "locked" <=> bootLock' = q
  BY <1>5, ActorAssumption DEF IInv, LocksAreHeld, BootFails, ReleasedBy
<1>7. BootOK'
  BY <1>5 DEF IInv, BootOK, BootFails
<1>8. AdministratorKept'
  BY AdministratorUntouched DEF IInv, BootFails
<1>9. QED
  BY <1>4, <1>6, <1>7, <1>8, KeysUntouched DEF IInv, LocksAreHeld, BootFails

-----------------------------------------------------------------------------
(* Keys *)

LEMMA CreateKeyKeeps ==
    ASSUME IInv, NEW k \in Key, NEW admin \in BOOLEAN,
           NEW expires \in Moment \cup {Never}, CreateKey(k, admin, expires)
    PROVE  IInv'
<1>1. key' = [key EXCEPT ![k] = NewKey(admin, expires)] /\ ~key[k].made /\ k # InitialKey
  BY DEF CreateKey
<1>2. /\ NewKey(admin, expires) \in Row /\ NewKey(admin, expires).made
      /\ NewKey(admin, expires).revoked = Never
  BY NewKeyIsRow
<1>3. projects = 1
  BY DEF CreateKey, Administered, Active, IInv, BootOK
<1>4. key'[k] = NewKey(admin, expires) /\ \A j \in Key : j # k => key'[j] = key[j]
  BY <1>1 DEF IInv, KeysOK
<1>5. Shape'
  BY DEF CreateKey, IInv, Shape, boots, revocations
<1>6. KeysOK'
  <2>1. key' \in [Key -> Row]
    BY <1>1, <1>2 DEF IInv, KeysOK
  <2>2. UNCHANGED now
    BY DEF CreateKey
  <2>3. QED
    BY <1>2, <1>4, <2>1, <2>2 DEF IInv, KeysOK
<1>7. BootOK' /\ \A p \in Boot : stage'[p] = "locked" <=> bootLock' = p
  BY <1>1, <1>3, <1>4, KeyAssumption, BootUntouched DEF CreateKey
<1>8. AdministratorKept'
  <2>1. PICK j \in Admins : key[j].made /\ (key[j].revoked = Never \/ LapsedFirst(j))
    BY <1>3 DEF IInv, AdministratorKept
  <2>2. j \in Key /\ j # k
    BY <1>1, <2>1 DEF Admins
  <2>3. key'[j] = key[j] /\ j \in Admins'
    BY <1>4, <2>1, <2>2 DEF Admins
  <2>4. QED
    BY <2>1, <2>3 DEF AdministratorKept, LapsedFirst
<1>9. GrantsOK' /\ \A r \in Revocation : request'[r] = "decided" <=> keyLock' = r
  BY ActorAssumption DEF CreateKey, IInv, LocksAreHeld, GrantsOK, revocations
<1>10. QED
  BY <1>5, <1>6, <1>7, <1>8, <1>9 DEF IInv, LocksAreHeld

LEMMA RevokeKeeps ==
    ASSUME IInv, NEW r \in Revocation, NEW k \in Key, Revoke(r, k)
    PROVE  IInv'
<1>1. Shape'
  BY DEF Revoke, IInv, Shape, RequestStage, boots
<1>2. KeysOK'
  BY DEF Revoke, IInv, KeysOK
<1>3. BootOK' /\ \A p \in Boot : stage'[p] = "locked" <=> bootLock' = p
  BY BootUntouched DEF Revoke
<1>4. AdministratorKept'
  BY AdministratorUntouched DEF Revoke, IInv, boots
<1>5. \A q \in Revocation : /\ q # r => request'[q] = request[q] /\ target'[q] = target[q]
                            /\ request[r] # "decided" /\ request'[r] # "decided"
  BY DEF Revoke, IInv, Shape
<1>6. \A q \in Revocation : request'[q] = "decided" <=> keyLock' = q
  BY <1>5 DEF Revoke, IInv, LocksAreHeld
<1>7. GrantsOK'
  <2>1. UNCHANGED <<key, now, granted>>
    BY DEF Revoke
  <2>2. QED
    BY <1>5, <2>1 DEF IInv, GrantsOK, GrantOK, Admins
<1>8. QED
  BY <1>1, <1>2, <1>3, <1>4, <1>6, <1>7 DEF IInv, LocksAreHeld

LEMMA DecideKeeps ==
    ASSUME IInv, NEW r \in Revocation, Decide(r)
    PROVE  IInv'
<1>1. PICK t \in (now - Skew)..(now + Skew), ok \in BOOLEAN :
          /\ granted' = [granted EXCEPT ![r] = ok]
          /\ ok <=> /\ key[target[r]].made /\ key[target[r]].revoked = Never
                    /\ Expired(target[r], t) \/ MayRevoke(target[r], since[r])
  BY DEF Decide
<1>2. target[r] \in Key /\ since[r] \in Moment /\ now \in Int /\ Skew \in Int
  BY BoundAssumption DEF IInv, Shape, Moment
<1>3. keyLock = Free /\ keyLock' = r /\ request' = [request EXCEPT ![r] = "decided"]
  BY DEF Decide, MayDecide
<1>4. UNCHANGED <<boots, key, now, target, since, faults>>
  BY DEF Decide
<1>5. Shape'
  BY <1>1, <1>3, <1>4 DEF IInv, Shape, RequestStage, boots
<1>6. KeysOK'
  BY <1>4 DEF IInv, KeysOK
<1>7. BootOK' /\ \A p \in Boot : stage'[p] = "locked" <=> bootLock' = p
  BY <1>4, BootUntouched
<1>8. AdministratorKept'
  BY <1>4, AdministratorUntouched DEF IInv, boots
<1>9. \A q \in Revocation : request[q] # "decided"
  BY <1>3, ActorAssumption DEF IInv, LocksAreHeld
<1>10. \A q \in Revocation : request'[q] = "decided" <=> q = r
  BY <1>3, <1>9 DEF IInv, Shape
<1>11. ASSUME ok
       PROVE  key[target[r]].made /\ key[target[r]].revoked = Never
  BY <1>1, <1>11
<1>12. ASSUME ok, target[r] \in Admins
       PROVE  \/ key[target[r]].expires # Never /\ key[target[r]].expires <= now + Skew
              \/ \E k \in Admins \ {target[r]} : key[k].made /\ key[k].revoked = Never
  <2>1. CASE Expired(target[r], t)
    <3>1. key[target[r]].expires # Never /\ key[target[r]].expires <= t
      BY <2>1 DEF Expired
    <3>2. key[target[r]].expires \in Int
      BY <1>2, <3>1 DEF IInv, KeysOK, Row, Moment
    <3>3. t \in Int /\ t <= now + Skew
      BY <1>2
    <3>4. QED
      BY <1>2, <3>1, <3>2, <3>3
  <2>2. CASE MayRevoke(target[r], since[r])
    <3>1. Cardinality(Active(since[r]) \cap Admins) > 1
      BY <1>12, <2>2 DEF MayRevoke
    <3>2. \E k \in Active(since[r]) \cap Admins : k # target[r]
      <4> DEFINE S == Active(since[r]) \cap Admins
                 x == target[r]
      <4>1. Cardinality(S) > 1
        BY <3>1
      <4>2. \E k \in S : k # x
        <5> HIDE DEF S, x
        <5> QED
          BY <4>1, AnotherOne
      <4>3. QED
        BY <4>2
    <3>3. QED
      BY <3>2 DEF Active
  <2>3. QED
    BY <1>1, <1>12, <2>1, <2>2
<1>13. GrantsOK'
  <2>1. granted'[r] = ok
    BY <1>1 DEF IInv, Shape
  <2>2. ok => GrantOK(r)'
    BY <1>4, <1>11, <1>12 DEF GrantOK, Admins
  <2>3. QED
    BY <1>10, <2>1, <2>2 DEF GrantsOK
<1>14. QED
  BY <1>3, <1>5, <1>6, <1>7, <1>8, <1>10, <1>13 DEF IInv, LocksAreHeld

\* The end of the transaction that holds the lock: no decision is left open.
LEMMA UnlockedIsOK ==
    ASSUME IInv, NEW r \in Revocation, keyLock = r, keyLock' = Free,
           request' = [request EXCEPT ![r] = "ended"]
    PROVE  GrantsOK' /\ \A q \in Revocation : request'[q] = "decided" <=> keyLock' = q
<1>1. \A q \in Revocation : request'[q] # "decided"
  BY DEF IInv, Shape, LocksAreHeld
<1>2. QED
  BY <1>1, ActorAssumption DEF GrantsOK

LEMMA FinishKeeps ==
    ASSUME IInv, NEW r \in Revocation, Finish(r)
    PROVE  IInv'
<1>1. keyLock = r /\ target[r] \in Key /\ now \in Moment
  BY DEF Finish, IInv, LocksAreHeld, Shape
<1>2. UNCHANGED <<boots, now, target, since, granted, faults>> /\ keyLock' = Free
      /\ request' = [request EXCEPT ![r] = "ended"]
  BY DEF Finish
<1>3. Shape'
  BY <1>2 DEF IInv, Shape, RequestStage, boots
<1>4. GrantsOK' /\ \A q \in Revocation : request'[q] = "decided" <=> keyLock' = q
  BY <1>1, <1>2, UnlockedIsOK
<1>5. CASE ~granted[r]
  <2>1. UNCHANGED key
    BY <1>5 DEF Finish
  <2>2. KeysOK'
    BY <1>2, <2>1 DEF IInv, KeysOK
  <2>3. BootOK' /\ \A p \in Boot : stage'[p] = "locked" <=> bootLock' = p
    BY <1>2, <2>1, BootUntouched
  <2>4. AdministratorKept'
    BY <1>2, <2>1, AdministratorUntouched DEF IInv, boots
  <2>5. QED
    BY <1>3, <1>4, <2>2, <2>3, <2>4 DEF IInv, LocksAreHeld
<1>6. CASE granted[r]
  <2> DEFINE x == target[r]
  <2>1. key' = [key EXCEPT ![x].revoked = now]
    BY <1>6 DEF Finish
  <2>2. GrantOK(r)
    BY <1>6 DEF IInv, GrantsOK, Finish
  <2>3. /\ key' \in [Key -> Row]
        /\ key'[x].revoked = now
        /\ \A k \in Key : /\ key'[k].made = key[k].made
                          /\ key'[k].admin = key[k].admin
                          /\ key'[k].expires = key[k].expires
        /\ \A k \in Key : k # x => key'[k] = key[k]
    <3>1. key \in [Key -> Row] /\ x \in Key /\ now \in Moment
      BY <1>1 DEF IInv, KeysOK
    <3> HIDE DEF x
    <3>2. QED
      BY <2>1, <3>1, RevokedRow
  <2>4. KeysOK'
    <3>1. \A k \in Key : key'[k].made \/ key'[k] = Unmade
      BY <2>2, <2>3 DEF GrantOK, IInv, KeysOK
    <3>2. \A k \in Key : key'[k].revoked # Never => key'[k].revoked <= now'
      <4>1. now <= now /\ now' = now
        BY <1>1, <1>2, BoundAssumption DEF Moment
      <4>2. QED
        BY <2>3, <4>1 DEF IInv, KeysOK
    <3>3. QED
      BY <2>3, <3>1, <3>2 DEF KeysOK
  <2>5. BootOK' /\ \A p \in Boot : stage'[p] = "locked" <=> bootLock' = p
    BY <1>2, <2>3, KeyAssumption, BootUntouched
  <2>6. Admins' = Admins
    BY <2>3 DEF Admins
  <2>7. AdministratorKept'
    <3>1. CASE x \notin Admins
      <4>1. ASSUME projects > 0
            PROVE  \E k \in Admins : key'[k].made /\ (key'[k].revoked = Never \/ LapsedFirst(k)')
        <5>1. PICK k \in Admins : key[k].made /\ (key[k].revoked = Never \/ LapsedFirst(k))
          BY <4>1 DEF IInv, AdministratorKept
        <5>2. key'[k] = key[k]
          BY <2>3, <3>1, <5>1 DEF Admins
        <5>3. QED
          BY <5>1, <5>2 DEF LapsedFirst
      <4>2. QED
        BY <1>2, <2>6, <4>1 DEF AdministratorKept, boots
    <3>2. CASE x \in Admins /\ key[x].expires # Never /\ key[x].expires <= now + Skew
      <4>1. key'[x].revoked = now /\ key'[x].expires = key[x].expires /\ key'[x].made
        BY <1>1, <2>2, <2>3 DEF GrantOK
      <4>2. now # Never
        BY <1>1, KeyAssumption DEF Moment
      <4>3. LapsedFirst(x)'
        BY <1>2, <3>2, <4>1, <4>2 DEF LapsedFirst
      <4>4. QED
        BY <1>2, <2>6, <3>2, <4>1, <4>3 DEF AdministratorKept
    <3>3. CASE \E k \in Admins \ {x} : key[k].made /\ key[k].revoked = Never
      <4>1. PICK k \in Admins \ {x} : key[k].made /\ key[k].revoked = Never
        BY <3>3
      <4>2. key'[k] = key[k]
        BY <2>3, <4>1 DEF Admins
      <4>3. QED
        BY <2>6, <4>1, <4>2 DEF AdministratorKept
    <3>4. QED
      BY <2>2, <3>1, <3>2, <3>3 DEF GrantOK
  <2>8. QED
    BY <1>3, <1>4, <2>4, <2>5, <2>7 DEF IInv, LocksAreHeld
<1>7. QED
  BY <1>5, <1>6

LEMMA RevokeFailsKeeps ==
    ASSUME IInv, NEW r \in Revocation, RevokeFails(r)
    PROVE  IInv'
<1>1. UNCHANGED <<boots, key, now, target, since, granted>>
      /\ request' = [request EXCEPT ![r] = "ended"]
  BY DEF RevokeFails
<1>2. Shape'
  BY <1>1, FaultIsBounded DEF RevokeFails, IInv, Shape, RequestStage, boots
<1>3. KeysOK'
  BY <1>1 DEF IInv, KeysOK
<1>4. BootOK' /\ \A p \in Boot : stage'[p] = "locked" <=> bootLock' = p
  BY <1>1, BootUntouched
<1>5. AdministratorKept'
  BY <1>1, AdministratorUntouched DEF IInv, boots
<1>6. GrantsOK' /\ \A q \in Revocation : request'[q] = "decided" <=> keyLock' = q
  <2>1. CASE keyLock = r
    <3>1. keyLock' = Free
      BY <2>1 DEF RevokeFails
    <3>2. QED
      BY <1>1, <2>1, <3>1, UnlockedIsOK
  <2>2. CASE keyLock # r
    <3>1. UNCHANGED keyLock
      BY <2>2 DEF RevokeFails
    <3>2. \A q \in Revocation : request'[q] = "decided" <=> request[q] = "decided"
      BY <1>1, <2>2 DEF IInv, Shape, LocksAreHeld
    <3>3. \A q \in Revocation : GrantOK(q) => GrantOK(q)'
      BY <1>1 DEF GrantOK, Admins
    <3>4. QED
      BY <1>1, <3>1, <3>2, <3>3 DEF IInv, LocksAreHeld, GrantsOK
  <2>3. QED
    BY <2>1, <2>2
<1>7. QED
  BY <1>2, <1>3, <1>4, <1>5, <1>6 DEF IInv, LocksAreHeld

LEMMA TickKeeps ==
    ASSUME IInv, Tick
    PROVE  IInv'
<1>1. UNCHANGED <<boots, key, revocations, faults>> /\ now' = now + 1 /\ now < MaxTime
  BY DEF Tick
<1>2. now \in Int /\ now' \in Moment /\ Skew \in Int
  BY <1>1, BoundAssumption DEF IInv, Shape, Moment
<1>3. Shape'
  BY <1>1, <1>2 DEF IInv, Shape, boots, revocations
<1>4. KeysOK'
  <2>1. \A k \in Key : key[k].revoked # Never => key[k].revoked \in Int
    BY DEF IInv, KeysOK, Row, Moment
  <2>2. \A k \in Key : key'[k].revoked # Never => key'[k].revoked <= now'
    BY <1>1, <1>2, <2>1 DEF IInv, KeysOK
  <2>3. QED
    BY <1>1, <2>2 DEF IInv, KeysOK
<1>5. BootOK' /\ \A p \in Boot : stage'[p] = "locked" <=> bootLock' = p
  BY <1>1, BootUntouched
<1>6. AdministratorKept'
  BY <1>1, AdministratorUntouched DEF IInv, boots
<1>7. GrantsOK'
  <2>1. ASSUME NEW r \in Revocation, GrantOK(r)
        PROVE  GrantOK(r)'
    <3>1. target[r] \in Key
      BY DEF IInv, Shape
    <3>2. key[target[r]].expires # Never => key[target[r]].expires \in Int
      BY <3>1 DEF IInv, KeysOK, Row, Moment
    <3>3. key[target[r]].expires # Never /\ key[target[r]].expires <= now + Skew =>
              key[target[r]].expires <= now' + Skew
      BY <1>1, <1>2, <3>2
    <3>4. QED
      BY <1>1, <2>1, <3>3 DEF GrantOK, Admins, revocations
  <2>2. QED
    BY <1>1, <2>1 DEF IInv, GrantsOK, revocations
<1>8. QED
  BY <1>1, <1>3, <1>4, <1>5, <1>6, <1>7 DEF IInv, LocksAreHeld, revocations

LEMMA StutterKeeps ==
    ASSUME IInv, UNCHANGED vars
    PROVE  IInv'
<1>1. UNCHANGED <<boots, key, now, revocations, faults>>
  BY DEF vars
<1>2. Shape'
  BY <1>1 DEF IInv, Shape, boots, revocations
<1>3. BootOK' /\ \A p \in Boot : stage'[p] = "locked" <=> bootLock' = p
  BY <1>1, BootUntouched
<1>4. AdministratorKept'
  BY <1>1, AdministratorUntouched DEF IInv, boots
<1>5. QED
  BY <1>1, <1>2, <1>3, <1>4, KeysUntouched DEF IInv, LocksAreHeld

-----------------------------------------------------------------------------
(* Theorems *)

\* IInv is inductive.
THEOREM Invariance == Spec => []IInv
<1>1. Init => IInv
  <2> SUFFICES ASSUME Init
               PROVE  IInv
    OBVIOUS
  <2>1. Shape
    BY BoundAssumption, KeyAssumption DEF Init, Shape, Stage, RequestStage, Moment
  <2>2. KeysOK
    BY UnmadeIsRow DEF Init, KeysOK
  <2>3. BootOK
    BY UnmadeIsRow, KeyAssumption DEF Init, BootOK
  <2>4. LocksAreHeld
    BY ActorAssumption DEF Init, LocksAreHeld
  <2>5. AdministratorKept
    BY DEF Init, AdministratorKept
  <2>6. GrantsOK
    BY DEF Init, GrantsOK
  <2>7. QED
    BY <2>1, <2>2, <2>3, <2>4, <2>5, <2>6 DEF IInv
<1>2. IInv /\ [Next]_vars => IInv'
  BY EnsureKeeps, MigrateKeeps, CheckKeeps, LockKeeps, CreateKeeps,
     CreateUnansweredKeeps, BootFailsKeeps, CreateKeyKeeps, RevokeKeeps,
     DecideKeeps, FinishKeeps, RevokeFailsKeeps, TickKeeps, StutterKeeps
     DEF Next
<1>3. QED
  BY <1>1, <1>2, PTL DEF Spec

\* The type invariant, for any actors, keys, clocks and faults.
THEOREM TypeCorrect == Spec => []TypeOK
<1>1. IInv => TypeOK
  BY DEF IInv, Shape, KeysOK, TypeOK
<1>2. QED
  BY <1>1, Invariance, PTL

\* The advisory lock makes the look and the insert of createInitialProject one
\* step: any number of races, failures and retries leaves one project.
THEOREM BootstrapIsUnique == Spec => []BootstrappedOnce
<1>1. IInv => BootstrappedOnce
  BY DEF IInv, BootOK, BootstrappedOnce
<1>2. QED
  BY <1>1, Invariance, PTL

\* The lock on the project row makes the look and the update of revokeApiKey one
\* step: any number of revocations leaves an administrator, up to expiry.
THEOREM AdministratorIsKept == Spec => []AdministratorKept
<1>1. IInv => AdministratorKept
  BY DEF IInv
<1>2. QED
  BY <1>1, Invariance, PTL

\* No lock outlives its transaction.
THEOREM LocksEnd == Spec => []LocksAreHeld
<1>1. IInv => LocksAreHeld
  BY DEF IInv
<1>2. QED
  BY <1>1, Invariance, PTL

=============================================================================
