------------------------------ MODULE RpcFailover ------------------------------
(***************************************************************************)
(* How the calls of one process reach a CKB node (CkbRpcClient).  A call   *)
(* asks its configured endpoints in order until one answers (withSession), *)
(* after checking that the endpoint serves the expected chain              *)
(* (assertIdentity).  A circuit breaker, one per endpoint and shared by    *)
(* every project of the process, leaves out an endpoint that failed        *)
(* repeatedly until a cooldown has passed (healthyFirst).  A matured       *)
(* conflict is then corroborated by a second endpoint                      *)
(* (corroborateCanonicalSpend), which neither consults the breaker nor     *)
(* reports to it.                                                          *)
(*                                                                         *)
(* The endpoints are external: an endpoint goes down and comes up, and     *)
(* nodes of one chain may disagree on what is spent.                       *)
(***************************************************************************)
EXTENDS Integers, FiniteSets, Sequences

CONSTANTS
    Caller,        \* passes and preflights of the process that may overlap
    Endpoint,      \* normalized RPC URLs
    NoEndpoint,    \* a call that no endpoint has answered
    Urls,          \* the endpoints of each caller, in configured order
    Chain,         \* CKB networks
    NoChain,       \* neither a chain nor a genesis hash is expected
    ChainOf,       \* the network each endpoint serves
    Expected,      \* the network each caller's project expects
    Threshold,     \* CKB_RPC_CIRCUIT_FAILURES
    Cooldown,      \* ticks in CKB_RPC_CIRCUIT_COOLDOWN_MS
    MaxFaults      \* bound: outages, lost answers, restarts of the process

\* endpointsFor and parseRpcUrls: at least one URL, none of them twice.
ASSUME UrlAssumption ==
    /\ NoEndpoint \notin Endpoint
    /\ Urls \in [Caller -> Seq(Endpoint)]
    /\ \A c \in Caller :
        /\ Len(Urls[c]) > 0
        /\ \A i, j \in 1..Len(Urls[c]) : Urls[c][i] = Urls[c][j] => i = j

ASSUME ChainAssumption ==
    /\ NoChain \notin Chain
    /\ ChainOf \in [Endpoint -> Chain]
    /\ Expected \in [Caller -> Chain \cup {NoChain}]

\* rpcCircuitThreshold and rpcCircuitCooldownMs clamp both to at least one.
ASSUME BoundAssumption ==
    Threshold \in Nat \ {0} /\ Cooldown \in Nat \ {0} /\ MaxFaults \in Nat

VARIABLES
    failures,      \* failures in a row, counted up to the threshold
    cooling,       \* ticks until the endpoint is available again
    up,            \* which endpoints answer
    stage,         \* where each call is
    plan,          \* positions in Urls that a call has still to ask
    source,        \* the endpoint that answered
    asked,         \* endpoints asked in this call
    spenders,      \* endpoints that answered in this call that an input is spent
    faults         \* faults so far

vars == <<failures, cooling, up, stage, plan, source, asked, spenders, faults>>

breaker == <<failures, cooling>>

Stage == {"idle", "identity", "reading", "second", "answered", "conflicted", "failed"}

Position(c) == 1..Len(Urls[c])

Configured(c) == {Urls[c][i] : i \in Position(c)}

Init ==
    /\ failures = [e \in Endpoint |-> 0]
    /\ cooling = [e \in Endpoint |-> 0]
    /\ up \in [Endpoint -> BOOLEAN]
    /\ stage = [c \in Caller |-> "idle"]
    /\ plan = [c \in Caller |-> {}]
    /\ source = [c \in Caller |-> NoEndpoint]
    /\ asked = [c \in Caller |-> {}]
    /\ spenders = [c \in Caller |-> {}]
    /\ faults = 0

Fault == faults < MaxFaults /\ faults' = faults + 1

GoesTo(c, where) == stage' = [stage EXCEPT ![c] = where]

-----------------------------------------------------------------------------
(* The circuit breaker *)

Available(c) == {i \in Position(c) : cooling[Urls[c][i]] = 0}

\* Of endpoints that all cool down, those nearest to recovery.
Soonest(c) ==
    {i \in Position(c) : \A j \in Position(c) : cooling[Urls[c][i]] <= cooling[Urls[c][j]]}

First(S) == CHOOSE i \in S : \A j \in S : i <= j

\* Fault: nothing is tried while every endpoint cools down.
FaultyHealthyFirst(c) == Available(c)

HealthyFirst(c) == IF Available(c) # {} THEN Available(c) ELSE {First(Soonest(c))}

\* Fault: an answer clears the count and leaves the cooldown running.
FaultyNoteSuccess(e) ==
    /\ failures' = [failures EXCEPT ![e] = 0]
    /\ UNCHANGED cooling

NoteSuccess(e) ==
    /\ failures' = [failures EXCEPT ![e] = 0]
    /\ cooling' = [cooling EXCEPT ![e] = 0]

\* The count survives the cooldown: one more failure starts the next one.
NoteFailure(e) ==
    /\ failures' = [failures EXCEPT ![e] = IF @ < Threshold THEN @ + 1 ELSE @]
    /\ cooling' = [cooling EXCEPT ![e] = IF failures[e] + 1 >= Threshold
                                         THEN Cooldown ELSE 0]

-----------------------------------------------------------------------------
(* A call: observe or inspectInputOutPoints *)

\* One JSON-RPC request: the destination resolves to an allowed address, and the
\* reply arrives in time, within the size limit, and holds a result.
Answers(e) == up[e]

Current(c) == Urls[c][First(plan[c])]

Rest(c) == plan[c] \ {First(plan[c])}

Identified(c, e) == Expected[c] = NoChain \/ ChainOf[e] = Expected[c]

\* withSession computes the list once; the breaker may change under it.
Begin(c) ==
    /\ stage[c] = "idle"
    /\ plan' = [plan EXCEPT ![c] = HealthyFirst(c)]
    /\ GoesTo(c, IF HealthyFirst(c) = {} THEN "failed" ELSE "identity")
    /\ source' = [source EXCEPT ![c] = NoEndpoint]
    /\ asked' = [asked EXCEPT ![c] = {}]
    /\ spenders' = [spenders EXCEPT ![c] = {}]
    /\ UNCHANGED <<breaker, up, faults>>

\* assertIdentity succeeds.
Identify(c) ==
    /\ stage[c] = "identity"
    /\ Answers(Current(c))
    /\ Identified(c, Current(c))
    /\ GoesTo(c, "reading")
    /\ asked' = [asked EXCEPT ![c] = @ \cup {Current(c)}]
    /\ UNCHANGED <<breaker, up, plan, source, spenders, faults>>

\* Fault: the call is not continued at the next endpoint.
FaultyFailover(c) ==
    /\ plan' = [plan EXCEPT ![c] = {}]
    /\ GoesTo(c, "failed")

Failover(c) ==
    /\ plan' = [plan EXCEPT ![c] = Rest(c)]
    /\ GoesTo(c, IF Rest(c) = {} THEN "failed" ELSE "identity")

\* The endpoint is down, serves another chain, or its answer is lost or an
\* error: each counts as a failure of the endpoint.
Refuse(c) ==
    /\ stage[c] \in {"identity", "reading"}
    /\ \/ ~Answers(Current(c)) /\ UNCHANGED faults
       \/ stage[c] = "identity" /\ ~Identified(c, Current(c)) /\ UNCHANGED faults
       \/ Fault
    /\ NoteFailure(Current(c))
    /\ Failover(c)
    /\ asked' = [asked EXCEPT ![c] = @ \cup {Current(c)}]
    /\ UNCHANGED <<up, source, spenders>>

\* Fault: the endpoint that answered is asked again as the second one.
FaultyOthers(c, e) == Position(c)

Others(c, e) == {i \in Position(c) : Urls[c][i] # e}

\* The observation, taken in full from one endpoint.  A spend that is matured
\* needs a second endpoint, if there is one.
Read(c) ==
    /\ stage[c] = "reading"
    /\ Answers(Current(c))
    /\ NoteSuccess(Current(c))
    /\ source' = [source EXCEPT ![c] = Current(c)]
    /\ \/ /\ GoesTo(c, "answered")
          /\ plan' = [plan EXCEPT ![c] = {}]
          /\ UNCHANGED spenders
       \/ /\ plan' = [plan EXCEPT ![c] = Others(c, Current(c))]
          /\ GoesTo(c, IF Others(c, Current(c)) = {} THEN "conflicted" ELSE "second")
          /\ spenders' = [spenders EXCEPT ![c] = {Current(c)}]
    /\ UNCHANGED <<up, asked, faults>>

-----------------------------------------------------------------------------
(* Corroboration: inspectInputOutPointsAt, endpoint by endpoint *)

\* A second endpoint of the same chain says the same.
Corroborate(c) ==
    /\ stage[c] = "second"
    /\ Answers(Current(c))
    /\ Identified(c, Current(c))
    /\ spenders' = [spenders EXCEPT ![c] = @ \cup {Current(c)}]
    /\ plan' = [plan EXCEPT ![c] = {}]
    /\ GoesTo(c, "conflicted")
    /\ UNCHANGED <<breaker, up, source, asked, faults>>

\* It says otherwise, cannot be reached or serves another chain; after the last
\* one the conflict is only suspected.
Contradict(c) ==
    /\ stage[c] = "second"
    /\ plan' = [plan EXCEPT ![c] = Rest(c)]
    /\ GoesTo(c, IF Rest(c) = {} THEN "answered" ELSE "second")
    /\ UNCHANGED <<breaker, up, source, asked, spenders, faults>>

\* The caller takes the result and may come again.
Return(c) ==
    /\ stage[c] \in {"answered", "conflicted", "failed"}
    /\ GoesTo(c, "idle")
    /\ UNCHANGED <<breaker, up, plan, source, asked, spenders, faults>>

-----------------------------------------------------------------------------
(* The readiness and health probes, the endpoints and the process *)

\* A client with one URL and no expected chain, as the readiness route makes:
\* it asks even an endpoint that cools down, and reports to the breaker.
Probe(e) ==
    /\ IF Answers(e) THEN NoteSuccess(e) ELSE NoteFailure(e)
    /\ UNCHANGED <<up, stage, plan, source, asked, spenders, faults>>

GoDown(e) ==
    /\ up[e]
    /\ Fault
    /\ up' = [up EXCEPT ![e] = FALSE]
    /\ UNCHANGED <<breaker, stage, plan, source, asked, spenders>>

Recover(e) ==
    /\ ~up[e]
    /\ up' = [up EXCEPT ![e] = TRUE]
    /\ UNCHANGED <<breaker, stage, plan, source, asked, spenders, faults>>

Tick ==
    /\ \E e \in Endpoint : cooling[e] > 0
    /\ cooling' = [e \in Endpoint |-> IF cooling[e] > 0 THEN cooling[e] - 1 ELSE 0]
    /\ UNCHANGED <<failures, up, stage, plan, source, asked, spenders, faults>>

\* endpointFailures lives in the process.
Restart ==
    /\ Fault
    /\ failures' = [e \in Endpoint |-> 0]
    /\ cooling' = [e \in Endpoint |-> 0]
    /\ stage' = [c \in Caller |-> "idle"]
    /\ plan' = [c \in Caller |-> {}]
    /\ source' = [c \in Caller |-> NoEndpoint]
    /\ asked' = [c \in Caller |-> {}]
    /\ spenders' = [c \in Caller |-> {}]
    /\ UNCHANGED up

-----------------------------------------------------------------------------
Advance(c) ==
    \/ Identify(c) \/ Refuse(c) \/ Read(c)
    \/ Corroborate(c) \/ Contradict(c) \/ Return(c)

Next ==
    \/ \E c \in Caller : Begin(c) \/ Advance(c)
    \/ \E e \in Endpoint : Probe(e) \/ GoDown(e) \/ Recover(e)
    \/ Tick
    \/ Restart

Spec == Init /\ [][Next]_vars

\* Every request ends, by its answer or its timeout, and time passes.  Nobody
\* promises that a call is begun, a probe made or an outage ended.
Fairness ==
    /\ \A c \in Caller : WF_vars(Advance(c))
    /\ WF_vars(Tick)

FairSpec == Spec /\ Fairness

-----------------------------------------------------------------------------
(* Properties *)

\* The type invariant: a call that is under way has an endpoint to ask, and only
\* an endpoint at the threshold cools down.
TypeOK ==
    /\ failures \in [Endpoint -> 0..Threshold]
    /\ cooling \in [Endpoint -> 0..Cooldown]
    /\ up \in [Endpoint -> BOOLEAN]
    /\ stage \in [Caller -> Stage]
    /\ plan \in [Caller -> SUBSET Nat]
    /\ source \in [Caller -> Endpoint \cup {NoEndpoint}]
    /\ asked \in [Caller -> SUBSET Endpoint]
    /\ spenders \in [Caller -> SUBSET Endpoint]
    /\ faults \in 0..MaxFaults
    /\ \A c \in Caller : plan[c] \subseteq Position(c)
    /\ \A c \in Caller : stage[c] \in {"identity", "reading", "second"} => plan[c] # {}
    /\ \A e \in Endpoint : cooling[e] > 0 => failures[e] = Threshold

Serves(e, c) == Expected[c] \in {NoChain, ChainOf[e]}

\* A call that reports a failure did ask an endpoint: the breaker alone never
\* fails it, whatever the other callers and the probes did to the breaker.
FailsOnlyIfAsked ==
    \A c \in Caller : stage[c] = "failed" => asked[c] # {}

\* A conflict is confirmed only by different configured endpoints of the
\* expected chain, by two of them when two are configured
\* (corroborateCanonicalSpend); every other observation comes from one of them.
EvidenceIsIndependent ==
    \A c \in Caller :
        /\ stage[c] = "conflicted" =>
            \/ Cardinality(spenders[c]) >= 2
            \/ Len(Urls[c]) = 1 /\ spenders[c] # {}
        /\ stage[c] \in {"answered", "conflicted"} => source[c] # NoEndpoint
        /\ \A e \in spenders[c] \cup ({source[c]} \ {NoEndpoint}) :
              e \in Configured(c) /\ Serves(e, c)

\* An endpoint of the caller that none of the callers sharing it refuses for
\* its chain.
Agreed(e, c) ==
    e \in Configured(c) /\ \A d \in Caller : e \in Configured(d) => Serves(e, d)

\* Failover heals: once such an endpoint stays up, the calls stop failing, even
\* if the others stay down and cool down forever (withSession, healthyFirst).
FailoverRecovers ==
    \A c \in Caller : \A e \in Endpoint :
        Agreed(e, c) /\ <>[]up[e] => <>[](stage[c] # "failed")

=============================================================================
