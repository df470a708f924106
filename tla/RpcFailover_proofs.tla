-------------------------- MODULE RpcFailover_proofs --------------------------
(***************************************************************************)
(* Type correctness and the safety of failover: a call fails only after    *)
(* asking, and evidence comes from configured endpoints of the expected    *)
(* chain, a confirmed conflict from two of them when two are configured.   *)
(* The proof does not depend on what the breaker or the endpoints do.      *)
(***************************************************************************)
EXTENDS RpcFailover, FiniteSetTheorems, WellFoundedInduction, TLAPS

\* The identity of the endpoint that is being read has been checked, and the
\* endpoints still to be asked for corroboration are not the first one.
CallOK(c) ==
    /\ plan[c] \subseteq Position(c)
    /\ stage[c] \in {"identity", "reading", "second"} => plan[c] # {}
    /\ stage[c] = "failed" => asked[c] # {}
    /\ stage[c] = "reading" => Serves(Current(c), c)
    /\ stage[c] = "second" =>
        /\ source[c] # NoEndpoint
        /\ spenders[c] = {source[c]}
        /\ \A i \in plan[c] : Urls[c][i] # source[c]
    /\ stage[c] = "conflicted" =>
        \/ Cardinality(spenders[c]) >= 2
        \/ Len(Urls[c]) = 1 /\ spenders[c] # {}
    /\ stage[c] \in {"answered", "conflicted"} => source[c] # NoEndpoint
    /\ \A e \in spenders[c] \cup ({source[c]} \ {NoEndpoint}) :
          e \in Configured(c) /\ Serves(e, c)

BreakerOK ==
    /\ failures \in [Endpoint -> 0..Threshold]
    /\ cooling \in [Endpoint -> 0..Cooldown]
    /\ \A e \in Endpoint : cooling[e] > 0 => failures[e] = Threshold

Shape ==
    /\ up \in [Endpoint -> BOOLEAN]
    /\ stage \in [Caller -> Stage]
    /\ plan \in [Caller -> SUBSET Nat]
    /\ source \in [Caller -> Endpoint \cup {NoEndpoint}]
    /\ asked \in [Caller -> SUBSET Endpoint]
    /\ spenders \in [Caller -> SUBSET Endpoint]
    /\ faults \in 0..MaxFaults

IInv == BreakerOK /\ Shape /\ \A c \in Caller : CallOK(c)

-----------------------------------------------------------------------------
(* Positions *)

\* A set of natural numbers has a least element.
LEMMA FirstIsMember ==
    ASSUME NEW S \in SUBSET Nat, S # {}
    PROVE  First(S) \in S /\ \A j \in S : First(S) <= j
<1>1. \E x \in S : \A y \in S : ~(<<y, x>> \in OpToRel(<, Nat))
  BY NatLessThanWellFounded, WFMin
<1>2. PICK x \in S : \A y \in S : ~(<<y, x>> \in OpToRel(<, Nat))
  BY <1>1
<1>3. \A y \in S : x <= y
  <2>1. TAKE y \in S
  <2>2. ~(y < x)
    BY <1>2 DEF OpToRel
  <2>3. QED
    BY <2>2
<1>4. QED
  BY <1>3 DEF First

LEMMA PositionsAreUrls ==
    ASSUME NEW c \in Caller
    PROVE  /\ Position(c) \subseteq Nat
           /\ 1 \in Position(c)
           /\ Len(Urls[c]) \in Nat /\ Len(Urls[c]) > 0
           /\ \A i \in Position(c) : Urls[c][i] \in Endpoint
           /\ \A i, j \in Position(c) : Urls[c][i] = Urls[c][j] => i = j
<1>1. Urls[c] \in Seq(Endpoint) /\ Len(Urls[c]) > 0
  BY UrlAssumption
<1>2. QED
  BY <1>1, UrlAssumption DEF Position

\* While every endpoint cools down one of them is nearest to recovery.
LEMMA SoonestExists ==
    ASSUME BreakerOK, NEW c \in Caller
    PROVE  Soonest(c) # {}
<1> DEFINE Rests == {cooling[Urls[c][i]] : i \in Position(c)}
<1>1. Rests \in SUBSET Nat /\ Rests # {}
  <2>1. \A i \in Position(c) : cooling[Urls[c][i]] \in Nat
    BY PositionsAreUrls, BoundAssumption DEF BreakerOK
  <2>2. QED
    BY <2>1, PositionsAreUrls
<1>2. First(Rests) \in Rests /\ \A r \in Rests : First(Rests) <= r
  <2> HIDE DEF Rests
  <2> QED
    BY <1>1, FirstIsMember
<1>3. PICK i \in Position(c) : cooling[Urls[c][i]] = First(Rests)
  BY <1>2
<1>4. \A j \in Position(c) : cooling[Urls[c][i]] <= cooling[Urls[c][j]]
  BY <1>2, <1>3
<1>5. QED
  BY <1>4 DEF Soonest

\* The breaker always leaves something to ask.
LEMMA HealthyFirstAsks ==
    ASSUME BreakerOK, NEW c \in Caller
    PROVE  HealthyFirst(c) \subseteq Position(c) /\ HealthyFirst(c) # {}
<1>1. Available(c) \subseteq Position(c)
  BY DEF Available
<1>2. Soonest(c) \in SUBSET Nat /\ Soonest(c) \subseteq Position(c)
  BY PositionsAreUrls DEF Soonest
<1>3. First(Soonest(c)) \in Position(c)
  BY <1>2, SoonestExists, FirstIsMember
<1>4. QED
  BY <1>1, <1>3 DEF HealthyFirst

LEMMA CurrentIsPlanned ==
    ASSUME NEW c \in Caller, CallOK(c), plan[c] # {}
    PROVE  /\ First(plan[c]) \in plan[c]
           /\ First(plan[c]) \in Position(c)
           /\ Current(c) \in Endpoint
           /\ Current(c) \in Configured(c)
<1>1. plan[c] \in SUBSET Nat /\ plan[c] \subseteq Position(c)
  BY PositionsAreUrls DEF CallOK
<1>2. First(plan[c]) \in plan[c]
  BY <1>1, FirstIsMember
<1>3. QED
  BY <1>1, <1>2, PositionsAreUrls DEF Current, Configured

-----------------------------------------------------------------------------
(* Steps *)

\* What Begin, Advance and the others do to the calls: only the columns of one.
Moves(c) ==
    \A d \in Caller : d # c =>
        /\ stage'[d] = stage[d] /\ plan'[d] = plan[d] /\ source'[d] = source[d]
        /\ asked'[d] = asked[d] /\ spenders'[d] = spenders[d]

LEMMA OthersKeepCallOK ==
    ASSUME NEW d \in Caller, CallOK(d),
           stage'[d] = stage[d], plan'[d] = plan[d], source'[d] = source[d],
           asked'[d] = asked[d], spenders'[d] = spenders[d]
    PROVE  CallOK(d)'
BY DEF CallOK, Current, Serves, Configured, Position

LEMMA Reassembled ==
    ASSUME IInv, BreakerOK', Shape', NEW c \in Caller, Moves(c), CallOK(c)'
    PROVE  IInv'
<1>1. \A d \in Caller : CallOK(d)'
  <2>1. TAKE d \in Caller
  <2>2. CASE d = c
    BY <2>2
  <2>3. CASE d # c
    BY <2>3, OthersKeepCallOK DEF IInv, Moves
  <2>4. QED
    BY <2>2, <2>3
<1>2. QED
  BY <1>1 DEF IInv

LEMMA SuccessKeepsBreaker ==
    ASSUME BreakerOK, NEW e \in Endpoint, NoteSuccess(e)
    PROVE  BreakerOK'
BY BoundAssumption DEF BreakerOK, NoteSuccess

LEMMA FailureKeepsBreaker ==
    ASSUME BreakerOK, NEW e \in Endpoint, NoteFailure(e)
    PROVE  BreakerOK'
<1>1. failures[e] \in 0..Threshold /\ cooling[e] \in 0..Cooldown
  BY DEF BreakerOK
<1>2. failures' \in [Endpoint -> 0..Threshold]
  <2>1. (IF failures[e] < Threshold THEN failures[e] + 1 ELSE failures[e]) \in 0..Threshold
    BY <1>1, BoundAssumption
  <2>2. QED
    BY <2>1 DEF BreakerOK, NoteFailure
<1>3. cooling' \in [Endpoint -> 0..Cooldown]
  BY BoundAssumption DEF BreakerOK, NoteFailure
<1>4. ASSUME NEW d \in Endpoint, cooling'[d] > 0
      PROVE  failures'[d] = Threshold
  <2>1. CASE d = e
    <3>1. failures[e] + 1 >= Threshold
      BY <1>4, <2>1 DEF BreakerOK, NoteFailure
    <3>2. QED
      BY <3>1, <2>1, <1>1, BoundAssumption DEF BreakerOK, NoteFailure
  <2>2. CASE d # e
    BY <1>4, <2>2 DEF BreakerOK, NoteFailure
  <2>3. QED
    BY <2>1, <2>2
<1>5. QED
  BY <1>2, <1>3, <1>4 DEF BreakerOK

LEMMA FaultIsBounded ==
    ASSUME faults \in 0..MaxFaults, Fault
    PROVE  faults' \in 0..MaxFaults
BY BoundAssumption DEF Fault

LEMMA BeginKeeps ==
    ASSUME IInv, NEW c \in Caller, Begin(c)
    PROVE  IInv'
<1>1. HealthyFirst(c) \subseteq Position(c) /\ HealthyFirst(c) # {}
  BY HealthyFirstAsks DEF IInv
<1>2. HealthyFirst(c) \in SUBSET Nat
  BY <1>1, PositionsAreUrls
<1>3. stage' = [stage EXCEPT ![c] = "identity"]
  BY <1>1 DEF Begin, GoesTo
<1>4. Shape'
  BY <1>2, <1>3 DEF IInv, Shape, Stage, Begin
<1>5. BreakerOK'
  BY DEF IInv, BreakerOK, Begin, breaker
<1>6. Moves(c)
  BY <1>3 DEF Moves, Begin, IInv, Shape
<1>7. CallOK(c)'
  <2>1. /\ stage'[c] = "identity" /\ plan'[c] = HealthyFirst(c)
        /\ source'[c] = NoEndpoint /\ spenders'[c] = {}
    BY <1>3 DEF Begin, IInv, Shape
  <2>2. QED
    BY <1>1, <2>1 DEF CallOK, Position, Configured
<1>8. QED
  BY <1>4, <1>5, <1>6, <1>7, Reassembled

LEMMA IdentifyKeeps ==
    ASSUME IInv, NEW c \in Caller, Identify(c)
    PROVE  IInv'
<1>0. stage[c] = "identity" /\ CallOK(c) /\ plan[c] # {}
  BY DEF IInv, Identify, CallOK
<1>1. Current(c) \in Endpoint
  BY <1>0, CurrentIsPlanned
<1>2. Shape'
  BY <1>1 DEF IInv, Shape, Stage, Identify, GoesTo
<1>3. BreakerOK'
  BY DEF IInv, BreakerOK, Identify, breaker
<1>4. Moves(c)
  BY DEF Moves, Identify, GoesTo, IInv, Shape
<1>5. Serves(Current(c), c)
  BY DEF Identify, Identified, Serves
<1>6. CallOK(c)'
  <2>1. /\ stage'[c] = "reading" /\ plan'[c] = plan[c]
        /\ source'[c] = source[c] /\ spenders'[c] = spenders[c]
    BY DEF Identify, GoesTo, IInv, Shape
  <2>2. QED
    BY <1>0, <1>5, <2>1 DEF CallOK, Current, Serves, Position, Configured
<1>7. QED
  BY <1>2, <1>3, <1>4, <1>6, Reassembled

LEMMA RefuseKeeps ==
    ASSUME IInv, NEW c \in Caller, Refuse(c)
    PROVE  IInv'
<1>0. stage[c] \in {"identity", "reading"} /\ CallOK(c) /\ plan[c] # {}
  BY DEF IInv, Refuse, CallOK
<1>1. Current(c) \in Endpoint
  BY <1>0, CurrentIsPlanned
<1>2. faults' \in 0..MaxFaults
  BY FaultIsBounded DEF Refuse, IInv, Shape
<1>3. PICK where \in {"failed", "identity"} :
          /\ stage' = [stage EXCEPT ![c] = where]
          /\ where = "identity" => Rest(c) # {}
  BY DEF Refuse, Failover, GoesTo
<1>4. plan' = [plan EXCEPT ![c] = Rest(c)] /\ Rest(c) \subseteq plan[c]
  BY DEF Refuse, Failover, Rest
<1>5. Shape'
  BY <1>1, <1>2, <1>3, <1>4 DEF IInv, Shape, Stage, Refuse
<1>6. BreakerOK'
  BY <1>1, FailureKeepsBreaker DEF IInv, Refuse
<1>7. Moves(c)
  BY <1>3, <1>4 DEF Moves, Refuse, IInv, Shape
<1>8. CallOK(c)'
  <2>1. /\ stage'[c] = where /\ plan'[c] = Rest(c) /\ Current(c) \in asked'[c]
        /\ source'[c] = source[c] /\ spenders'[c] = spenders[c]
    BY <1>3, <1>4 DEF Refuse, IInv, Shape
  <2>2. QED
    BY <1>0, <1>3, <1>4, <2>1 DEF CallOK, Serves, Position, Configured
<1>9. QED
  BY <1>5, <1>6, <1>7, <1>8, Reassembled

\* With one endpoint there is no other to ask, and with two there is.
LEMMA OthersAreOthers ==
    ASSUME NEW c \in Caller, NEW e
    PROVE  /\ Others(c, e) \subseteq Position(c)
           /\ \A i \in Others(c, e) : Urls[c][i] # e
           /\ Others(c, e) = {} => Len(Urls[c]) = 1
<1>1. ASSUME Others(c, e) = {}, Len(Urls[c]) # 1
      PROVE  FALSE
  <2>1. 1 \in Position(c) /\ 2 \in Position(c)
    <3> DEFINE n == Len(Urls[c])
    <3>1. n \in Nat /\ n > 0 /\ n # 1
      BY <1>1, PositionsAreUrls
    <3>2. 1 \in 1..n /\ 2 \in 1..n
      <4> HIDE DEF n
      <4> QED
        BY <3>1
    <3>3. QED
      BY <3>2 DEF Position
  <2>2. Urls[c][1] = e /\ Urls[c][2] = e
    BY <1>1, <2>1 DEF Others
  <2>3. QED
    BY <2>1, <2>2, PositionsAreUrls
<1>2. QED
  BY <1>1 DEF Others

LEMMA ReadKeeps ==
    ASSUME IInv, NEW c \in Caller, Read(c)
    PROVE  IInv'
<1>0. stage[c] = "reading" /\ CallOK(c) /\ plan[c] # {} /\ Serves(Current(c), c)
  BY DEF IInv, Read, CallOK
<1>1. Current(c) \in Endpoint /\ Current(c) \in Configured(c) /\ Current(c) # NoEndpoint
  BY <1>0, CurrentIsPlanned, UrlAssumption
<1>2. Others(c, Current(c)) \in SUBSET Nat
  BY OthersAreOthers, PositionsAreUrls
<1>3. PICK where \in Stage, left \in SUBSET Nat, said \in SUBSET Endpoint :
          /\ stage' = [stage EXCEPT ![c] = where]
          /\ plan' = [plan EXCEPT ![c] = left]
          /\ spenders' = [spenders EXCEPT ![c] = said]
          /\ \/ where = "answered" /\ left = {} /\ said = spenders[c]
             \/ /\ left = Others(c, Current(c)) /\ said = {Current(c)}
                /\ \/ where = "conflicted" /\ left = {}
                   \/ where = "second" /\ left # {}
  <2>1. CASE GoesTo(c, "answered") /\ plan' = [plan EXCEPT ![c] = {}] /\ UNCHANGED spenders
    <3>1. spenders[c] \in SUBSET Endpoint /\ spenders' = [spenders EXCEPT ![c] = spenders[c]]
      BY <2>1 DEF IInv, Shape
    <3>2. "answered" \in Stage /\ {} \in SUBSET Nat
      BY DEF Stage
    <3>3. QED
      BY <2>1, <3>1, <3>2 DEF GoesTo
  <2>2. CASE /\ plan' = [plan EXCEPT ![c] = Others(c, Current(c))]
             /\ GoesTo(c, IF Others(c, Current(c)) = {} THEN "conflicted" ELSE "second")
             /\ spenders' = [spenders EXCEPT ![c] = {Current(c)}]
    <3>1. "conflicted" \in Stage /\ "second" \in Stage /\ {Current(c)} \in SUBSET Endpoint
      BY <1>1 DEF Stage
    <3>2. CASE Others(c, Current(c)) = {}
      BY <2>2, <3>1, <3>2, <1>2 DEF GoesTo
    <3>3. CASE Others(c, Current(c)) # {}
      BY <2>2, <3>1, <3>3, <1>2 DEF GoesTo
    <3>4. QED
      BY <3>2, <3>3
  <2>3. QED
    BY <2>1, <2>2 DEF Read
<1>4. source' = [source EXCEPT ![c] = Current(c)]
  BY DEF Read
<1>5. Shape'
  BY <1>1, <1>3, <1>4 DEF IInv, Shape, Read
<1>6. BreakerOK'
  BY <1>1, SuccessKeepsBreaker DEF IInv, Read
<1>7. Moves(c)
  BY <1>3, <1>4 DEF Moves, Read, IInv, Shape
<1>8. CallOK(c)'
  <2>1. /\ stage'[c] = where /\ plan'[c] = left /\ spenders'[c] = said
        /\ source'[c] = Current(c)
    BY <1>3, <1>4 DEF IInv, Shape
  <2>2. \A e \in said : e \in Configured(c) /\ Serves(e, c)
    BY <1>0, <1>1, <1>3 DEF CallOK
  <2>3. where = "conflicted" => Len(Urls[c]) = 1 /\ said # {}
    BY <1>3, OthersAreOthers
  <2>4. where # "reading" /\ where # "failed" /\ where # "identity"
    BY <1>3
  <2>5. left \subseteq Position(c) /\ (where = "second" => left # {} /\ said = {Current(c)})
    BY <1>3, OthersAreOthers
  <2>6. where = "second" => \A i \in left : Urls[c][i] # Current(c)
    BY <1>3, OthersAreOthers
  <2>7. QED
    BY <1>0, <1>1, <2>1, <2>2, <2>3, <2>4, <2>5, <2>6
       DEF CallOK, Serves, Position, Configured
<1>9. QED
  BY <1>5, <1>6, <1>7, <1>8, Reassembled

LEMMA CorroborateKeeps ==
    ASSUME IInv, NEW c \in Caller, Corroborate(c)
    PROVE  IInv'
<1>0. stage[c] = "second" /\ CallOK(c) /\ plan[c] # {}
  BY DEF IInv, Corroborate, CallOK
<1>1. Current(c) \in Endpoint /\ Current(c) \in Configured(c) /\ First(plan[c]) \in plan[c]
  BY <1>0, CurrentIsPlanned
<1>2. Shape'
  BY <1>1 DEF IInv, Shape, Stage, Corroborate, GoesTo
<1>3. BreakerOK'
  BY DEF IInv, BreakerOK, Corroborate, breaker
<1>4. Moves(c)
  BY DEF Moves, Corroborate, GoesTo, IInv, Shape
<1>5. Serves(Current(c), c)
  BY DEF Corroborate, Identified, Serves
<1>6. source[c] # NoEndpoint /\ spenders[c] = {source[c]} /\ Current(c) # source[c]
  BY <1>0, <1>1 DEF CallOK, Current
<1>7. Cardinality({source[c]} \cup {Current(c)}) = 2
  <2>1. IsFiniteSet({source[c]}) /\ Cardinality({source[c]}) = 1
    BY FS_Singleton
  <2>2. Current(c) \notin {source[c]}
    BY <1>6
  <2>3. Cardinality({source[c]} \cup {Current(c)}) = Cardinality({source[c]}) + 1
    BY ONLY <2>1, <2>2, FS_AddElement
  <2>4. QED
    BY <2>1, <2>3
<1>8. CallOK(c)'
  <2>1. /\ stage'[c] = "conflicted" /\ plan'[c] = {} /\ source'[c] = source[c]
        /\ spenders'[c] = {source[c]} \cup {Current(c)}
    BY <1>6 DEF Corroborate, GoesTo, IInv, Shape
  <2>2. \A e \in {source[c]} \cup {Current(c)} : e \in Configured(c) /\ Serves(e, c)
    BY <1>0, <1>1, <1>5, <1>6 DEF CallOK
  <2>3. Cardinality(spenders'[c]) >= 2
    BY <1>7, <2>1
  <2>4. QED
    BY <1>6, <2>1, <2>2, <2>3 DEF CallOK, Serves, Position, Configured
<1>9. QED
  BY <1>2, <1>3, <1>4, <1>8, Reassembled

LEMMA ContradictKeeps ==
    ASSUME IInv, NEW c \in Caller, Contradict(c)
    PROVE  IInv'
<1>0. stage[c] = "second" /\ CallOK(c)
  BY DEF IInv, Contradict
<1>1. PICK where \in {"answered", "second"} :
          /\ stage' = [stage EXCEPT ![c] = where]
          /\ where = "second" => Rest(c) # {}
  BY DEF Contradict, GoesTo
<1>2. plan' = [plan EXCEPT ![c] = Rest(c)] /\ Rest(c) \subseteq plan[c]
  BY DEF Contradict, Rest
<1>3. Shape'
  BY <1>1, <1>2 DEF IInv, Shape, Stage, Contradict
<1>4. BreakerOK'
  BY DEF IInv, BreakerOK, Contradict, breaker
<1>5. Moves(c)
  BY <1>1, <1>2 DEF Moves, Contradict, IInv, Shape
<1>6. CallOK(c)'
  <2>1. /\ stage'[c] = where /\ plan'[c] = Rest(c)
        /\ source'[c] = source[c] /\ spenders'[c] = spenders[c]
    BY <1>1, <1>2 DEF Contradict, IInv, Shape
  <2>2. QED
    BY <1>0, <1>1, <1>2, <2>1 DEF CallOK, Serves, Position, Configured
<1>7. QED
  BY <1>3, <1>4, <1>5, <1>6, Reassembled

LEMMA ReturnKeeps ==
    ASSUME IInv, NEW c \in Caller, Return(c)
    PROVE  IInv'
<1>0. CallOK(c)
  BY DEF IInv
<1>1. Shape'
  BY DEF IInv, Shape, Stage, Return, GoesTo
<1>2. BreakerOK'
  BY DEF IInv, BreakerOK, Return, breaker
<1>3. Moves(c)
  BY DEF Moves, Return, GoesTo, IInv, Shape
<1>4. CallOK(c)'
  <2>1. /\ stage'[c] = "idle" /\ plan'[c] = plan[c]
        /\ source'[c] = source[c] /\ spenders'[c] = spenders[c]
    BY DEF Return, GoesTo, IInv, Shape
  <2>2. QED
    BY <1>0, <2>1 DEF CallOK, Serves, Position, Configured
<1>5. QED
  BY <1>1, <1>2, <1>3, <1>4, Reassembled

\* Steps of the probes, the endpoints, time and the process.
LEMMA EnvironmentKeeps ==
    ASSUME IInv,
           \/ \E e \in Endpoint : Probe(e) \/ GoDown(e) \/ Recover(e)
           \/ Tick
           \/ UNCHANGED vars
    PROVE  IInv'
<1>1. BreakerOK'
  <2>1. ASSUME NEW e \in Endpoint, Probe(e)
        PROVE  BreakerOK'
    BY <2>1, SuccessKeepsBreaker, FailureKeepsBreaker DEF IInv, Probe
  <2>2. ASSUME Tick
        PROVE  BreakerOK'
    <3>1. \A e \in Endpoint : cooling[e] \in 0..Cooldown
      BY DEF IInv, BreakerOK
    <3>2. cooling' \in [Endpoint -> 0..Cooldown]
      BY <2>2, <3>1, BoundAssumption DEF Tick
    <3>3. \A e \in Endpoint : cooling'[e] > 0 => cooling[e] > 0
      BY <2>2, <3>1 DEF Tick
    <3>4. QED
      BY <2>2, <3>2, <3>3 DEF IInv, BreakerOK, Tick
  <2>3. ASSUME UNCHANGED breaker
        PROVE  BreakerOK'
    BY <2>3 DEF IInv, BreakerOK, breaker
  <2>4. QED
    BY <2>1, <2>2, <2>3 DEF GoDown, Recover, vars, breaker
<1>2. Shape'
  BY FaultIsBounded DEF IInv, Shape, Probe, GoDown, Recover, Tick, vars
<1>3. UNCHANGED <<stage, plan, source, asked, spenders>>
  BY DEF Probe, GoDown, Recover, Tick, vars
<1>4. \A d \in Caller : CallOK(d)'
  BY <1>3, OthersKeepCallOK DEF IInv
<1>5. QED
  BY <1>1, <1>2, <1>4 DEF IInv

\* A process that starts, first or again, has no calls and no breaker entries.
LEMMA FreshIsOK ==
    ASSUME NEW c \in Caller, stage[c] = "idle", plan[c] = {},
           source[c] = NoEndpoint, spenders[c] = {}
    PROVE  CallOK(c)
BY DEF CallOK

LEMMA RestartKeeps ==
    ASSUME IInv, Restart
    PROVE  IInv'
<1>1. BreakerOK'
  BY BoundAssumption DEF BreakerOK, Restart
<1>2. Shape'
  BY FaultIsBounded DEF IInv, Shape, Stage, Restart
<1>3. \A c \in Caller : CallOK(c)'
  BY DEF Restart, CallOK
<1>4. QED
  BY <1>1, <1>2, <1>3 DEF IInv

\* IInv is inductive.
THEOREM Invariance == Spec => []IInv
<1>1. Init => IInv
  <2> SUFFICES ASSUME Init
               PROVE  IInv
    OBVIOUS
  <2>2. BreakerOK
    BY BoundAssumption DEF Init, BreakerOK
  <2>3. Shape
    BY BoundAssumption DEF Init, Shape, Stage
  <2>4. \A c \in Caller : CallOK(c)
    BY FreshIsOK DEF Init
  <2>5. QED
    BY <2>2, <2>3, <2>4 DEF IInv
<1>2. IInv /\ [Next]_vars => IInv'
  BY BeginKeeps, IdentifyKeeps, RefuseKeeps, ReadKeeps, CorroborateKeeps,
     ContradictKeeps, ReturnKeeps, EnvironmentKeeps, RestartKeeps
     DEF Next, Advance
<1>3. QED
  BY <1>1, <1>2, PTL DEF Spec

\* The type invariant, for any callers, endpoints, thresholds and cooldowns.
THEOREM TypeCorrect == Spec => []TypeOK
<1>1. IInv => TypeOK
  BY DEF IInv, BreakerOK, Shape, CallOK, TypeOK
<1>2. QED
  BY <1>1, Invariance, PTL

\* The breaker alone never fails a call (healthyFirst, withSession).
THEOREM NeverFailsUnasked == Spec => []FailsOnlyIfAsked
<1>1. IInv => FailsOnlyIfAsked
  BY DEF IInv, CallOK, FailsOnlyIfAsked
<1>2. QED
  BY <1>1, Invariance, PTL

\* Evidence is of the expected chain, and a confirmed conflict is told by two
\* endpoints whenever two are configured (assertIdentity,
\* corroborateCanonicalSpend).
THEOREM IndependentEvidence == Spec => []EvidenceIsIndependent
<1>1. IInv => EvidenceIsIndependent
  BY DEF IInv, CallOK, EvidenceIsIndependent
<1>2. QED
  BY <1>1, Invariance, PTL

=============================================================================
