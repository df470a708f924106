SPECIFICATION Spec
CONSTANTS
    s1 = s1
    s2 = s2
    u1 = u1
    r1 = r1
    r2 = r2
    Server = {s1, s2}
    Setup = {u1}
    Migrations <- MCMigrations
    Key = {k0, k1}
    InitialKey = k0
    Revocation = {r1, r2}
    Free = Free
    Never = Never
    Skew = 1
    MaxTime = 2
    MaxFaults = 1
SYMMETRY Alike
INVARIANTS
    TypeOK
    BootstrappedOnce
    AdministratorKept
    LocksAreHeld
CHECK_DEADLOCK FALSE
