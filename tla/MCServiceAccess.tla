---------------------------- MODULE MCServiceAccess ----------------------------
(***************************************************************************)
(* Two servers of different releases, one setup request, the initial key   *)
(* and one more.                                                           *)
(***************************************************************************)
EXTENDS ServiceAccess, TLC

CONSTANTS s1, s2, u1, r1, r2

MCMigrations == (s1 :> {1, 2}) @@ (s2 :> {1}) @@ (u1 :> {1, 2})

\* Revocations are alike, and no liveness is checked.
Alike == Permutations({r1, r2})

=============================================================================
