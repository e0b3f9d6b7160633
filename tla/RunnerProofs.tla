---------------------------- MODULE RunnerProofs ----------------------------
(***************************************************************************)
(* The runner executes exactly the eligible nodes of every opening:        *)
(* RunnerInv is inductive, for all nodes, edges, outputs and retry limits. *)
(* What observers are told agrees with the report, and a replay of the     *)
(* report matches iff it reproduced the run.                               *)
(***************************************************************************)
EXTENDS Replay, FiniteSetTheorems, TLAPS

\* Inbound edges of t that are not resolved yet: remaining counts them.
Unresolved(t) == {i \in In(t) : state[edges[i].from] # "Succeeded"}

FullInv == TypeOK /\ RunnerInv

LEMMA EdgeFacts ==
    ASSUME edges \in Openings
    PROVE  /\ IsFiniteSet(DOMAIN edges)
           /\ \A i \in DOMAIN edges : i \in Nat /\ edges[i] \in EdgeType
                                       /\ edges[i].from \in Nodes /\ edges[i].to \in Nodes
<1>1. edges \in Seq(EdgeType)
  BY RunnerAssumption
<1>2. PICK k \in Nat : DOMAIN edges = 1..k
  BY <1>1
<1>3. IsFiniteSet(DOMAIN edges)
  BY <1>2, FS_Interval
<1>4. \A i \in DOMAIN edges : i \in Nat /\ edges[i] \in EdgeType
  BY <1>1, <1>2
<1>5. \A e \in EdgeType : e.from \in Nodes /\ e.to \in Nodes
  BY DEF EdgeType
<1>6. QED
  BY <1>3, <1>4, <1>5

LEMMA FiniteEdges ==
    ASSUME edges \in Openings
    PROVE  \A t : IsFiniteSet(In(t)) /\ IsFiniteSet(Unresolved(t))
<1>1. \A T \in SUBSET DOMAIN edges : IsFiniteSet(T)
  BY EdgeFacts, FS_Subset
<1>2. QED
  BY <1>1 DEF In, Unresolved

\* The counters are zero exactly when no inbound edge is unresolved.
LEMMA Counting ==
    ASSUME edges \in Openings, CountersExact, NEW t \in Nodes
    PROVE  /\ remaining[t] = Cardinality(Unresolved(t))
           /\ remaining[t] \in Nat
           /\ remaining[t] = 0 <=> Unresolved(t) = {}
<1>1. remaining[t] = Cardinality(Unresolved(t))
  BY DEF CountersExact, Unresolved
<1>2. QED
  BY <1>1, FiniteEdges, FS_CardinalityType, FS_EmptySet

\* Eligibility in terms of the three sets the runner keeps track of.
LEMMA EligibleSets ==
    \A t : Eligible(t) <=> /\ Unresolved(t) = {} /\ Refused(t) = {}
                           /\ In(t) # {} => Carried(t) # {}
  BY DEF Eligible, Unresolved, Refused, Carried

\* A step after which the same nodes have succeeded with the same outputs.
Quiet ==
    /\ edges' = edges
    /\ \A n \in Nodes : /\ state'[n] = "Succeeded" <=> state[n] = "Succeeded"
                        /\ state[n] = "Succeeded" => result'[n] = result[n]

LEMMA QuietStep ==
    ASSUME edges \in Openings, Quiet, NEW t \in Nodes
    PROVE  /\ In(t)' = In(t) /\ Unresolved(t)' = Unresolved(t)
           /\ Refused(t)' = Refused(t) /\ Carried(t)' = Carried(t)
           /\ Eligible(t)' <=> Eligible(t)
<1>1. In(t)' = In(t) /\ \A i \in In(t) : edges[i].from \in Nodes
  BY EdgeFacts DEF Quiet, In
<1>2. Unresolved(t)' = Unresolved(t)
  BY <1>1 DEF Unresolved, Quiet
<1>3. Refused(t)' = Refused(t) /\ Carried(t)' = Carried(t)
  BY <1>1 DEF Refused, Carried, Quiet
<1>4. Eligible(t)' <=> Eligible(t)
  BY <1>1 DEF Eligible, Quiet
<1>5. QED
  BY <1>1, <1>2, <1>3, <1>4

\* Every queued node is a node.
LEMMA QueueNodes ==
    ASSUME TypeOK
    PROVE  /\ \A k \in DOMAIN queue : queue[k] \in Nodes
           /\ queue # <<>> => /\ Head(queue) = queue[1] /\ 1 \in DOMAIN queue
                              /\ Tail(queue) \in Seq(Nodes)
                              /\ \A k \in DOMAIN Tail(queue) :
                                    k + 1 \in DOMAIN queue /\ Tail(queue)[k] = queue[k + 1]
  BY DEF TypeOK

LEMMA Limits == \A n \in Nodes : AttemptLimit(n) \in Nat \ {0} /\ TimeoutOf(n) \in Nat
  BY RunnerAssumption DEF AttemptLimit, TimeoutOf

-----------------------------------------------------------------------------
LEMMA InitFullInv == Init => FullInv
<1> SUFFICES ASSUME Init
             PROVE  FullInv
  OBVIOUS
<1>1. edges \in Openings /\ NodeOrder[1] \in Nodes
  BY RunnerAssumption DEF Init
<1>2. \A t \in Nodes : /\ Unresolved(t) = In(t) /\ Refused(t) = {} /\ Carried(t) = {}
                       /\ In(t) = {} <=> Cardinality(In(t)) = 0
                       /\ Cardinality(In(t)) \in Nat
  <2>1. \A t \in Nodes : \A i \in In(t) : edges[i].from \in Nodes
    BY <1>1, EdgeFacts DEF In
  <2>2. \A t \in Nodes : Unresolved(t) = In(t) /\ Refused(t) = {} /\ Carried(t) = {}
    BY <2>1 DEF Init, Unresolved, Refused, Carried
  <2>3. QED
    BY <1>1, <2>2, FiniteEdges, FS_CardinalityType, FS_EmptySet
<1>3. \A n \in Nodes : In(n) = {} <=> Eligible(n)
  BY <1>2, EligibleSets
<1>q. queue \in Listings({n \in Nodes : In(n) = {}}, Precedes)
  BY DEF Init
<1>4. /\ queue \in Seq(Nodes)
      /\ \A k \in DOMAIN queue : queue[k] \in Nodes /\ In(queue[k]) = {}
      /\ \A t \in Nodes : In(t) = {} => \E k \in DOMAIN queue : queue[k] = t
      /\ \A k, l \in DOMAIN queue : queue[k] = queue[l] => k = l
  <2> DEFINE S == {n \in Nodes : In(n) = {}}
  <2>1. /\ queue \in [1..Cardinality(S) -> S] /\ ToSet(queue) = S
        /\ \A i, j \in DOMAIN queue : i < j => Precedes(queue[i], queue[j])
    BY <1>q DEF Listings
  <2>2. Cardinality(S) \in Nat
    <3>1. IsFiniteSet(Nodes)
      <4>1. PICK k \in Nat : NodeOrder \in [1..k -> Nodes]
        BY RunnerAssumption
      <4>2. IsFiniteSet(1..k)
        BY FS_Interval
      <4>3. Nodes = {NodeOrder[i] : i \in 1..k}
        BY <4>1 DEF Nodes, ToSet
      <4>4. NodeOrder \in Surjection(1..k, Nodes)
        BY <4>1, <4>3 DEF Surjection
      <4>5. QED
        BY <4>2, <4>4, FS_Surjection
    <3>2. QED
      BY <3>1, FS_Subset, FS_CardinalityType
  <2>3. \A n \in Nodes : ~Precedes(n, n)
    BY RunnerAssumption DEF Precedes
  <2>4. \A k, l \in DOMAIN queue : queue[k] = queue[l] => k = l
    <3>1. SUFFICES ASSUME NEW k \in DOMAIN queue, NEW l \in DOMAIN queue,
                          queue[k] = queue[l], k # l
                   PROVE  FALSE
      OBVIOUS
    <3>2. k \in Int /\ l \in Int /\ queue[k] \in Nodes
      BY <2>1
    <3>3. k < l \/ l < k
      BY <3>1, <3>2
    <3>4. QED
      BY <2>1, <2>3, <3>1, <3>2, <3>3
  <2>5. queue \in Seq(Nodes)
    BY <2>1, <2>2
  <2>6. \A t \in S : \E k \in DOMAIN queue : queue[k] = t
    BY <2>1 DEF ToSet
  <2>7. QED
    BY <2>1, <2>4, <2>5, <2>6
<1>5. TypeOK
  <2>1. NotRun \in ResultType
    BY DEF NotRun, NoOutputs, ResultType, OutputType
  <2>2. result \in [Nodes -> ResultType]
    BY <2>1 DEF Init
  <2>3. remaining \in [Nodes -> Nat]
    BY <1>2 DEF Init
  <2>4. elapsed \in 0..MaxTime
    BY RunnerAssumption DEF Init
  <2>5. QED
    BY <1>1, <1>4, <2>2, <2>3, <2>4 DEF Init, TypeOK, NodeStates
<1>6. CountersExact
  BY <1>2 DEF Init, CountersExact, Unresolved
<1>7. UnresolvedWaits
  BY <1>2 DEF Init, UnresolvedWaits
<1>8. QueueIsReady
  BY <1>2, <1>3, <1>4 DEF Init, QueueIsReady
<1>9. ResolvedIsSettled
  BY <1>2, <1>4 DEF Init, ResolvedIsSettled
<1>10. /\ CurrentRuns /\ StartedIsEligible /\ DataflowSemantics /\ FailFast
       /\ AttemptsBounded
  BY Limits
     DEF Init, CurrentRuns, StartedIsEligible, DataflowSemantics, FailFast, AttemptsBounded
<1>11. QED
  BY <1>5, <1>6, <1>7, <1>8, <1>9, <1>10 DEF FullInv, RunnerInv

LEMMA QuietCounters ==
    ASSUME edges \in Openings, Quiet, CountersExact, remaining' = remaining
    PROVE  CountersExact'
<1>1. \A t \in Nodes : {i \in In(t) : state[edges[i].from] # "Succeeded"}'
                          = {i \in In(t) : state[edges[i].from] # "Succeeded"}
  BY QuietStep DEF Unresolved
<1>2. QED
  BY <1>1 DEF CountersExact

-----------------------------------------------------------------------------
LEMMA StartNodeKeeps ==
    ASSUME FullInv, StartNode
    PROVE  FullInv'
<1> DEFINE h == Head(queue)
<1>1. /\ TypeOK /\ edges \in Openings /\ CountersExact /\ UnresolvedWaits /\ QueueIsReady
      /\ ResolvedIsSettled /\ CurrentRuns /\ StartedIsEligible /\ FailFast /\ AttemptsBounded
  BY DEF FullInv, RunnerInv, TypeOK
<1>2. /\ phase = "loop" /\ ~failed /\ queue # <<>> /\ cur' = h /\ queue' = Tail(queue)
      /\ state' = [state EXCEPT ![h] = "Running"] /\ buffer' = [buffer EXCEPT ![h] = {}]
      /\ phase' = "attempt" /\ tries' = [tries EXCEPT ![h] = @ + 1]
      /\ event' = [event EXCEPT ![h] = "Running"]
      /\ UNCHANGED <<edges, result, remaining, blocked, failed, success, elapsed>>
  BY DEF StartNode, BeginAttempt
<1>3. /\ h \in Nodes /\ h = queue[1] /\ 1 \in DOMAIN queue /\ Tail(queue) \in Seq(Nodes)
      /\ \A k \in DOMAIN Tail(queue) :
            k + 1 \in DOMAIN queue /\ Tail(queue)[k] = queue[k + 1] /\ queue[k + 1] \in Nodes
  BY <1>1, <1>2, QueueNodes
<1>4. /\ remaining[h] = 0 /\ tries[h] = 0 /\ state[h] = "Pending" /\ Eligible(h)
      /\ \A k \in DOMAIN Tail(queue) : queue[k + 1] # h
  <2>1. remaining[h] = 0 /\ tries[h] = 0 /\ state[h] = "Pending" /\ Eligible(h)
    BY <1>1, <1>2, <1>3 DEF QueueIsReady
  <2>2. \A k \in DOMAIN Tail(queue) : k \in Nat /\ k + 1 # 1
    BY <1>3
  <2>3. QED
    BY <1>1, <1>3, <2>1, <2>2 DEF QueueIsReady
<1>5. TypeOK'
  <2>1. state' \in [Nodes -> NodeStates] /\ event' \in [Nodes -> NodeStates \cup {"none"}]
    BY <1>1, <1>2 DEF TypeOK, NodeStates
  <2>2. tries' \in [Nodes -> Nat] /\ buffer' \in [Nodes -> SUBSET Nat]
    BY <1>1, <1>2, <1>3 DEF TypeOK
  <2>3. QED
    BY <1>1, <1>2, <1>3, <2>1, <2>2 DEF TypeOK
<1>6. \A t \in Nodes : /\ state'[t] = IF t = h THEN "Running" ELSE state[t]
                       /\ tries'[t] = IF t = h THEN 1 ELSE tries[t]
                       /\ buffer'[t] = IF t = h THEN {} ELSE buffer[t]
  BY <1>1, <1>2, <1>3, <1>4 DEF TypeOK
<1>7. Quiet
  BY <1>2, <1>4, <1>6 DEF Quiet
<1>8. \A t \in Nodes : /\ Refused(t)' = Refused(t) /\ Carried(t)' = Carried(t)
                       /\ Eligible(t)' <=> Eligible(t)
  BY <1>1, <1>7, QuietStep
<1>9. CountersExact'
  BY <1>1, <1>2, <1>7, QuietCounters
<1>10. UnresolvedWaits'
  BY <1>1, <1>2, <1>4, <1>6, <1>8 DEF UnresolvedWaits
<1>11. QueueIsReady'
  <2>1. \A k \in DOMAIN queue' :
            /\ remaining'[queue'[k]] = 0 /\ tries'[queue'[k]] = 0
            /\ state'[queue'[k]] = "Pending" /\ queue'[k] \in Nodes /\ Eligible(queue'[k])
    BY <1>1, <1>2, <1>3, <1>4, <1>6 DEF QueueIsReady
  <2>2. \A k \in DOMAIN queue' : Eligible(queue[k])'
    BY <1>8, <2>1
  <2>3. \A k, l \in DOMAIN queue' : queue'[k] = queue'[l] => k = l
    <3>1. \A k \in DOMAIN Tail(queue) : k \in Nat
      BY <1>3
    <3>2. QED
      BY <1>1, <1>2, <1>3, <3>1 DEF QueueIsReady
  <2>4. QED
    BY <2>1, <2>2, <2>3 DEF QueueIsReady
<1>12. ResolvedIsSettled'
  <2>1. ASSUME NEW t \in Nodes, remaining[t] = 0, state'[t] = "Pending"
        PROVE  \E k \in DOMAIN queue' : queue'[k] = t
    <3>1. state[t] = "Pending" /\ t # h
      BY <1>6, <2>1
    <3>2. PICK k \in DOMAIN queue : queue[k] = t
      BY <1>1, <1>2, <2>1, <3>1 DEF ResolvedIsSettled
    <3>3. k # 1 /\ queue \in Seq(Nodes)
      BY <1>1, <1>3, <3>1, <3>2 DEF TypeOK
    <3>4. k - 1 \in DOMAIN Tail(queue) /\ Tail(queue)[k - 1] = queue[k]
      BY <1>2, <3>2, <3>3
    <3>5. QED
      BY <1>2, <3>2, <3>4
  <2>2. \A t \in Nodes : state'[t] = "Skipped" => ~Eligible(t)'
    BY <1>1, <1>2, <1>6, <1>8 DEF ResolvedIsSettled
  <2>3. QED
    BY <1>2, <2>1, <2>2 DEF ResolvedIsSettled
<1>13. CurrentRuns'
  BY <1>1, <1>2, <1>3, <1>6 DEF CurrentRuns
<1>14. StartedIsEligible' /\ DataflowSemantics'
  BY <1>1, <1>2, <1>4, <1>6, <1>8 DEF StartedIsEligible, DataflowSemantics
<1>15. FailFast'
  BY <1>1, <1>2, <1>4, <1>6 DEF FailFast, AttemptLimit
<1>16. AttemptsBounded'
  BY <1>1, <1>2, <1>3, <1>6, Limits DEF AttemptsBounded, AttemptLimit
<1>17. QED
  BY <1>5, <1>9, <1>10, <1>11, <1>12, <1>13, <1>14, <1>15, <1>16 DEF FullInv, RunnerInv

-----------------------------------------------------------------------------
(* Attempts that do not complete *)

LEMMA FaultResult ==
    ASSUME TypeOK, NEW kind \in Faults, NEW d \in 0..TimeoutOf(cur), Fault(kind, d)
    PROVE  /\ result' \in [Nodes -> ResultType]
           /\ \A n \in Nodes : result'[n] = IF n = cur THEN [kind |-> kind, out |-> NoOutputs]
                                            ELSE result[n]
           /\ elapsed' \in 0..MaxTime
<1>1. [kind |-> kind, out |-> NoOutputs] \in ResultType
  BY DEF NoOutputs, ResultType, OutputType
<1>2. result' = [result EXCEPT ![cur] = [kind |-> kind, out |-> NoOutputs]]
  BY DEF Fault, EndsWith
<1>3. elapsed' \in 0..MaxTime
  BY RunnerAssumption, Limits DEF Fault, Spend, TypeOK
<1>4. QED
  BY <1>1, <1>2, <1>3 DEF TypeOK

\* The node that was being attempted has no unresolved inbound edge.
LEMMA CurIsResolved ==
    ASSUME FullInv, phase \in {"attempt", "backoff"}
    PROVE  /\ cur \in Nodes /\ state[cur] = "Running" /\ remaining[cur] = 0 /\ tries[cur] > 0
           /\ ~failed
<1>1. cur \in Nodes /\ state[cur] = "Running" /\ tries[cur] > 0 /\ tries[cur] \in Nat /\ ~failed
  BY DEF FullInv, RunnerInv, CurrentRuns, TypeOK
<1>2. remaining[cur] \in Nat
  BY <1>1 DEF FullInv, TypeOK
<1>3. QED
  BY <1>1, <1>2 DEF FullInv, RunnerInv, UnresolvedWaits

LEMMA RetryLaterKeeps ==
    ASSUME FullInv, NEW kind \in Faults, NEW d \in 0..TimeoutOf(cur), RetryLater(kind, d)
    PROVE  FullInv'
<1>1. /\ TypeOK /\ edges \in Openings /\ CountersExact /\ UnresolvedWaits /\ QueueIsReady
      /\ ResolvedIsSettled /\ CurrentRuns /\ StartedIsEligible /\ FailFast /\ AttemptsBounded
  BY DEF FullInv, RunnerInv, TypeOK
<1>2. /\ phase = "attempt" /\ phase' = "backoff" /\ Fault(kind, d)
      /\ tries[cur] < AttemptLimit(cur)
      /\ UNCHANGED <<edges, state, tries, event, remaining, blocked, buffer, queue, cur,
                     failed, success>>
  BY DEF RetryLater, Fault, MayRetry, graphVars
<1>3. cur \in Nodes /\ state[cur] = "Running" /\ tries[cur] > 0 /\ ~failed
  BY <1>2, CurIsResolved
<1>4. /\ result' \in [Nodes -> ResultType] /\ elapsed' \in 0..MaxTime
      /\ \A n \in Nodes : n # cur => result'[n] = result[n]
  BY <1>1, <1>2, FaultResult
<1>5. TypeOK'
  BY <1>1, <1>2, <1>4 DEF TypeOK
<1>6. Quiet
  BY <1>2, <1>3, <1>4 DEF Quiet
<1>7. \A t \in Nodes : /\ Refused(t)' = Refused(t) /\ Carried(t)' = Carried(t)
                       /\ Eligible(t)' <=> Eligible(t)
  BY <1>1, <1>6, QuietStep
<1>8. CountersExact'
  BY <1>1, <1>2, <1>6, QuietCounters
<1>9. UnresolvedWaits'
  BY <1>1, <1>2, <1>7 DEF UnresolvedWaits
<1>10. QueueIsReady'
  <2>1. \A k \in DOMAIN queue : queue[k] \in Nodes /\ Eligible(queue[k])
    BY <1>1, QueueNodes DEF QueueIsReady
  <2>2. \A k \in DOMAIN queue : Eligible(queue[k])'
    BY <1>2, <1>7, <2>1
  <2>3. QED
    BY <1>1, <1>2, <2>2 DEF QueueIsReady
<1>11. ResolvedIsSettled'
  BY <1>1, <1>2, <1>7 DEF ResolvedIsSettled
<1>12. CurrentRuns'
  BY <1>1, <1>2, <1>3 DEF CurrentRuns, AttemptLimit
<1>13. StartedIsEligible' /\ DataflowSemantics'
  BY <1>1, <1>2, <1>7 DEF StartedIsEligible, DataflowSemantics
<1>14. FailFast'
  BY <1>1, <1>2, <1>3, <1>4 DEF FailFast, AttemptLimit
<1>15. AttemptsBounded'
  BY <1>1, <1>2 DEF AttemptsBounded, AttemptLimit
<1>16. QED
  BY <1>5, <1>8, <1>9, <1>10, <1>11, <1>12, <1>13, <1>14, <1>15 DEF FullInv, RunnerInv

LEMMA GiveUpKeeps ==
    ASSUME FullInv, NEW kind \in Faults, NEW d \in 0..TimeoutOf(cur), GiveUp(kind, d)
    PROVE  FullInv'
<1>1. /\ TypeOK /\ edges \in Openings /\ CountersExact /\ UnresolvedWaits /\ QueueIsReady
      /\ ResolvedIsSettled /\ CurrentRuns /\ StartedIsEligible /\ FailFast /\ AttemptsBounded
  BY DEF FullInv, RunnerInv, TypeOK
<1>2. /\ phase = "attempt" /\ phase' = "loop" /\ Fault(kind, d)
      /\ kind \in {"retryable", "timeout"} => ~(tries[cur] < AttemptLimit(cur))
      /\ failed' = TRUE
      /\ state' = [state EXCEPT ![cur] = "Failed"] /\ event' = [event EXCEPT ![cur] = "Failed"]
      /\ UNCHANGED <<edges, tries, remaining, blocked, buffer, queue, cur, success>>
  BY DEF GiveUp, Fault, MayRetry, graphVars
<1>3. cur \in Nodes /\ state[cur] = "Running" /\ remaining[cur] = 0 /\ tries[cur] > 0 /\ ~failed
  BY <1>2, CurIsResolved
<1>4. /\ result' \in [Nodes -> ResultType] /\ elapsed' \in 0..MaxTime
      /\ \A n \in Nodes : n # cur => result'[n] = result[n]
      /\ result'[cur].kind = kind
  <2>1. \A n \in Nodes : result'[n] = IF n = cur THEN [kind |-> kind, out |-> NoOutputs]
                                      ELSE result[n]
    BY <1>1, <1>2, FaultResult
  <2>2. result'[cur].kind = kind
    BY <1>3, <2>1
  <2>3. QED
    BY <1>1, <1>2, <2>1, <2>2, FaultResult
<1>5. \A n \in Nodes : state'[n] = IF n = cur THEN "Failed" ELSE state[n]
  BY <1>1, <1>2, <1>3 DEF TypeOK
<1>6. TypeOK'
  <2>1. state' \in [Nodes -> NodeStates] /\ event' \in [Nodes -> NodeStates \cup {"none"}]
    BY <1>1, <1>2 DEF TypeOK, NodeStates
  <2>2. QED
    BY <1>1, <1>2, <1>4, <2>1 DEF TypeOK
<1>7. Quiet
  BY <1>2, <1>3, <1>4, <1>5 DEF Quiet
<1>8. \A t \in Nodes : /\ Refused(t)' = Refused(t) /\ Carried(t)' = Carried(t)
                       /\ Eligible(t)' <=> Eligible(t)
  BY <1>1, <1>7, QuietStep
<1>9. CountersExact'
  BY <1>1, <1>2, <1>7, QuietCounters
<1>10. UnresolvedWaits'
  BY <1>1, <1>2, <1>3, <1>5, <1>8 DEF UnresolvedWaits
<1>11. QueueIsReady'
  <2>1. \A k \in DOMAIN queue : Eligible(queue[k])' /\ queue[k] \in Nodes /\ queue[k] # cur
    BY <1>1, <1>2, <1>3, <1>8, QueueNodes DEF QueueIsReady
  <2>2. QED
    BY <1>1, <1>2, <1>5, <2>1 DEF QueueIsReady
<1>12. ResolvedIsSettled'
  BY <1>1, <1>2, <1>5, <1>8 DEF ResolvedIsSettled
<1>13. CurrentRuns'
  BY <1>1, <1>2, <1>3, <1>5 DEF CurrentRuns
<1>14. StartedIsEligible' /\ DataflowSemantics'
  BY <1>1, <1>2, <1>8 DEF StartedIsEligible, DataflowSemantics
<1>15. FailFast'
  <2>1. \A n \in Nodes : state[n] # "Failed"
    BY <1>1, <1>3 DEF FailFast
  <2>2. \A n \in Nodes : state'[n] = "Failed" <=> n = cur
    BY <1>5, <2>1
  <2>3. kind \in {"retryable", "timeout"} => tries'[cur] = AttemptLimit(cur)'
    <3>1. tries[cur] <= AttemptLimit(cur) /\ tries[cur] \in Nat /\ AttemptLimit(cur) \in Nat
      BY <1>1, <1>3, Limits DEF AttemptsBounded, TypeOK
    <3>2. QED
      BY <1>2, <3>1 DEF AttemptLimit
  <2>4. ~success'
    BY <1>1, <1>2 DEF FailFast
  <2>5. QED
    BY <1>2, <1>3, <1>4, <2>2, <2>3, <2>4 DEF FailFast
<1>16. AttemptsBounded'
  BY <1>1, <1>2, <1>3, <1>5 DEF AttemptsBounded, AttemptLimit
<1>17. QED
  BY <1>6, <1>9, <1>10, <1>11, <1>12, <1>13, <1>14, <1>15, <1>16 DEF FullInv, RunnerInv

LEMMA RetryKeeps ==
    ASSUME FullInv, NEW d \in 0..TimeoutOf(cur), Retry(d)
    PROVE  FullInv'
<1>1. /\ TypeOK /\ edges \in Openings /\ CountersExact /\ UnresolvedWaits /\ QueueIsReady
      /\ ResolvedIsSettled /\ CurrentRuns /\ StartedIsEligible /\ FailFast /\ AttemptsBounded
  BY DEF FullInv, RunnerInv, TypeOK
<1>2. /\ phase = "backoff" /\ phase' = "attempt"
      /\ tries' = [tries EXCEPT ![cur] = @ + 1] /\ event' = [event EXCEPT ![cur] = "Running"]
      /\ Spend(d)
      /\ UNCHANGED <<edges, state, result, remaining, blocked, buffer, queue, cur, failed, success>>
  BY DEF Retry, BeginAttempt, graphVars
<1>3. /\ cur \in Nodes /\ state[cur] = "Running" /\ remaining[cur] = 0 /\ tries[cur] > 0 /\ ~failed
      /\ tries[cur] \in Nat /\ tries[cur] < AttemptLimit(cur) /\ AttemptLimit(cur) \in Nat
  BY <1>1, <1>2, CurIsResolved, Limits DEF CurrentRuns, TypeOK
<1>4. \A n \in Nodes : tries'[n] = IF n = cur THEN tries[cur] + 1 ELSE tries[n]
  BY <1>1, <1>2, <1>3 DEF TypeOK
<1>5. TypeOK'
  <2>1. elapsed' \in 0..MaxTime
    BY <1>1, <1>2, RunnerAssumption, Limits DEF Spend, TypeOK
  <2>2. tries' \in [Nodes -> Nat] /\ event' \in [Nodes -> NodeStates \cup {"none"}]
    BY <1>1, <1>2, <1>3 DEF TypeOK, NodeStates
  <2>3. QED
    BY <1>1, <1>2, <2>1, <2>2 DEF TypeOK
<1>6. Quiet
  BY <1>2 DEF Quiet
<1>7. \A t \in Nodes : /\ Refused(t)' = Refused(t) /\ Carried(t)' = Carried(t)
                       /\ Eligible(t)' <=> Eligible(t)
  BY <1>1, <1>6, QuietStep
<1>8. CountersExact'
  BY <1>1, <1>2, <1>6, QuietCounters
<1>9. UnresolvedWaits'
  BY <1>1, <1>2, <1>3, <1>4, <1>7 DEF UnresolvedWaits
<1>10. QueueIsReady'
  <2>1. \A k \in DOMAIN queue : queue[k] \in Nodes /\ Eligible(queue[k]) /\ queue[k] # cur
    BY <1>1, <1>3, QueueNodes DEF QueueIsReady
  <2>2. \A k \in DOMAIN queue : Eligible(queue[k])'
    BY <1>2, <1>7, <2>1
  <2>3. QED
    BY <1>1, <1>2, <1>4, <2>1, <2>2 DEF QueueIsReady
<1>11. ResolvedIsSettled'
  BY <1>1, <1>2, <1>7 DEF ResolvedIsSettled
<1>12. CurrentRuns'
  BY <1>1, <1>2, <1>3, <1>4 DEF CurrentRuns
<1>13. StartedIsEligible' /\ DataflowSemantics'
  BY <1>1, <1>2, <1>3, <1>4, <1>7 DEF StartedIsEligible, DataflowSemantics
<1>14. FailFast'
  BY <1>1, <1>2, <1>3, <1>4 DEF FailFast, AttemptLimit
<1>15. AttemptsBounded'
  <2>1. \A n \in Nodes : tries'[n] <= AttemptLimit(n)' /\ (tries'[n] = 0 <=> tries[n] = 0)
    BY <1>1, <1>3, <1>4 DEF AttemptsBounded, AttemptLimit
  <2>2. QED
    BY <1>1, <1>2, <2>1 DEF AttemptsBounded
<1>16. QED
  BY <1>5, <1>8, <1>9, <1>10, <1>11, <1>12, <1>13, <1>14, <1>15 DEF FullInv, RunnerInv

-----------------------------------------------------------------------------
(* The end of the run *)

LEMMA FinishKeeps ==
    ASSUME FullInv, Finish
    PROVE  FullInv'
<1>1. /\ TypeOK /\ edges \in Openings /\ CountersExact /\ UnresolvedWaits /\ QueueIsReady
      /\ ResolvedIsSettled /\ CurrentRuns /\ StartedIsEligible /\ FailFast /\ AttemptsBounded
  BY DEF FullInv, RunnerInv, TypeOK
<1> DEFINE rest == {n \in Nodes : state[n] \notin {"Succeeded", "Failed"}}
<1>2. /\ phase = "loop" /\ phase' = "done" /\ (failed \/ queue = <<>>)
      /\ state' = [n \in Nodes |-> IF n \in rest THEN "Skipped" ELSE state[n]]
      /\ event' = [n \in Nodes |-> IF n \in rest THEN "Skipped" ELSE event[n]]
      /\ success' = (~failed /\ EvaluateSuccess)
      /\ UNCHANGED <<edges, tries, result, remaining, blocked, buffer, queue, cur, failed, elapsed>>
  BY DEF Finish, graphVars
<1>3. \A n \in Nodes : state'[n] = IF state[n] \in {"Succeeded", "Failed"} THEN state[n]
                                   ELSE "Skipped"
  BY <1>2
<1>4. TypeOK'
  <2>1. state' \in [Nodes -> NodeStates] /\ event' \in [Nodes -> NodeStates \cup {"none"}]
    BY <1>1, <1>2 DEF TypeOK, NodeStates
  <2>2. success' \in BOOLEAN
    BY <1>2
  <2>3. QED
    BY <1>1, <1>2, <2>1, <2>2 DEF TypeOK
<1>5. Quiet
  BY <1>2, <1>3 DEF Quiet
<1>6. \A t \in Nodes : /\ Refused(t)' = Refused(t) /\ Carried(t)' = Carried(t)
                       /\ Eligible(t)' <=> Eligible(t)
  BY <1>1, <1>5, QuietStep
<1>7. CountersExact'
  BY <1>1, <1>2, <1>5, QuietCounters
<1>8. UnresolvedWaits'
  BY <1>1, <1>2, <1>6 DEF UnresolvedWaits
<1>9. QueueIsReady'
  <2>1. \A k \in DOMAIN queue : queue[k] \in Nodes /\ Eligible(queue[k])
    BY <1>1, QueueNodes DEF QueueIsReady
  <2>2. \A k \in DOMAIN queue : Eligible(queue[k])'
    BY <1>2, <1>6, <2>1
  <2>3. QED
    BY <1>1, <1>2, <2>2 DEF QueueIsReady
<1>10. ResolvedIsSettled' /\ CurrentRuns'
  BY <1>2, <1>3 DEF ResolvedIsSettled, CurrentRuns
<1>11. StartedIsEligible'
  BY <1>1, <1>2, <1>6 DEF StartedIsEligible
<1>12. DataflowSemantics'
  <2>1. SUFFICES ASSUME ~failed, NEW n \in Nodes
                 PROVE  state[n] = "Succeeded" <=> Eligible(n)
    BY <1>2, <1>3, <1>6 DEF DataflowSemantics
  <2>2. ASSUME state[n] = "Succeeded"
        PROVE  Eligible(n)
    <3>1. tries[n] \in Nat /\ tries[n] # 0
      BY <1>1, <2>2 DEF AttemptsBounded, TypeOK
    <3>2. QED
      BY <1>1, <3>1 DEF StartedIsEligible
  <2>3. ASSUME Eligible(n)
        PROVE  state[n] = "Succeeded"
    <3>1. remaining[n] = 0
      BY <1>1, <2>3, EligibleSets, Counting
    <3>2. state[n] # "Pending" /\ state[n] # "Skipped"
      BY <1>1, <1>2, <2>1, <2>3, <3>1 DEF ResolvedIsSettled
    <3>3. state[n] # "Running" /\ state[n] # "Failed" /\ state[n] \in NodeStates
      BY <1>1, <1>2, <2>1 DEF CurrentRuns, FailFast, TypeOK
    <3>4. QED
      BY <3>2, <3>3 DEF NodeStates
  <2>4. QED
    BY <2>2, <2>3
<1>13. FailFast'
  <2>1. \A n \in Nodes : state'[n] = "Failed" <=> state[n] = "Failed"
    BY <1>3
  <2>2. \A n \in Nodes : state'[n] \in {"Succeeded", "Failed", "Skipped"}
    BY <1>3
  <2>3. success' => ~failed'
    BY <1>2
  <2>4. QED
    BY <1>1, <1>2, <2>1, <2>2, <2>3 DEF FailFast, AttemptLimit
<1>14. AttemptsBounded'
  <2>1. \A n \in Nodes : state[n] # "Running" /\ state[n] \in NodeStates
    BY <1>1, <1>2 DEF CurrentRuns, TypeOK
  <2>2. \A n \in Nodes : state'[n] \in {"Pending", "Skipped"} <=> state[n] \in {"Pending", "Skipped"}
    BY <1>3, <2>1 DEF NodeStates
  <2>3. QED
    BY <1>1, <1>2, <2>2 DEF AttemptsBounded, AttemptLimit
<1>15. QED
  BY <1>4, <1>7, <1>8, <1>9, <1>10, <1>11, <1>12, <1>13, <1>14 DEF FullInv, RunnerInv

-----------------------------------------------------------------------------
(* A node completes *)

\* What the step does, with the set names used below.
Block(o) == blocked \cup {edges[i].to : i \in {j \in Out(cur) : ~Passes(edges[j], o)}}
Filled(o) ==
    [t \in Nodes |-> buffer[t] \cup {i \in Out(cur) \cap In(t) : Delivers(edges[i], o)}]
Ready(o) == {t \in Resolved(Left(cur)) : t \notin Block(o) /\ Filled(o)[t] # {}}
Earlier(t, u) ==
    \E i \in Out(cur) \cap In(u) : \A j \in Out(cur) \cap In(t) : j < i

LEMMA CompleteSteps ==
    ASSUME NEW o, NEW d, Complete(o, d)
    PROVE  /\ phase = "attempt" /\ phase' = "loop"
           /\ result' = [result EXCEPT ![cur] = [kind |-> "completed", out |-> o]]
           /\ remaining' = Left(cur)
           /\ blocked' = Block(o) \ Resolved(Left(cur))
           /\ buffer' = Filled(o)
           /\ \E q \in Listings(Ready(o), Earlier) : queue' = queue \o q
           /\ state' = [t \in Nodes |-> IF t = cur THEN "Succeeded"
                                        ELSE IF t \in Resolved(Left(cur)) \ Ready(o) THEN "Skipped"
                                        ELSE state[t]]
           /\ event' = [event EXCEPT ![cur] = "Succeeded"]
           /\ Spend(d)
           /\ UNCHANGED <<edges, tries, cur, failed, success>>
  BY DEF Complete, EndsWith, Block, Filled, Ready, Earlier, Listings

\* The edges of the completed node were all unresolved; now they are resolved.
LEMMA CompleteSets ==
    ASSUME FullInv, NEW o \in OutputChoices, NEW d, Complete(o, d), NEW t \in Nodes
    PROVE  /\ In(t)' = In(t)
           /\ Out(cur) \cap In(t) \subseteq Unresolved(t)
           /\ Unresolved(t)' = Unresolved(t) \ (Out(cur) \cap In(t))
           /\ Refused(t)' = Refused(t) \cup {i \in Out(cur) \cap In(t) : ~Passes(edges[i], o)}
           /\ Carried(t)' = Carried(t) \cup {i \in Out(cur) \cap In(t) : Delivers(edges[i], o)}
           /\ Left(cur)[t] = Cardinality(Unresolved(t)')
           /\ Left(cur)[t] \in Nat
           /\ Left(cur)[t] = 0 <=> Unresolved(t)' = {}
<1>1. /\ edges \in Openings /\ CountersExact /\ UnresolvedWaits /\ TypeOK
  BY DEF FullInv, RunnerInv, TypeOK
<1>2. /\ phase = "attempt" /\ edges' = edges
      /\ result' = [result EXCEPT ![cur] = [kind |-> "completed", out |-> o]]
      /\ state' = [n \in Nodes |-> IF n = cur THEN "Succeeded"
                                   ELSE IF n \in Resolved(Left(cur)) \ Ready(o) THEN "Skipped"
                                   ELSE state[n]]
  BY CompleteSteps
<1>3. cur \in Nodes /\ state[cur] = "Running"
  BY <1>2, CurIsResolved
<1>4. \A n \in Nodes : state'[n] = "Succeeded" <=> n = cur \/ state[n] = "Succeeded"
  <2>1. \A n \in Resolved(Left(cur)) : state[n] # "Succeeded"
    BY <1>1, <1>2 DEF Resolved, UnresolvedWaits
  <2>2. QED
    BY <1>2, <2>1
<1>5. \A n \in Nodes : result'[n].out = IF n = cur THEN o ELSE result[n].out
  BY <1>1, <1>2 DEF TypeOK
<1>6. In(t)' = In(t) /\ \A i \in In(t) : edges[i].from \in Nodes
  BY <1>1, <1>2, EdgeFacts DEF In
<1>7. Out(cur) \cap In(t) = {i \in In(t) : edges[i].from = cur}
  BY DEF Out, In
<1>8. Out(cur) \cap In(t) \subseteq Unresolved(t)
  BY <1>3, <1>7 DEF Unresolved
<1>9. Unresolved(t)' = Unresolved(t) \ (Out(cur) \cap In(t))
  BY <1>2, <1>4, <1>6, <1>7 DEF Unresolved
<1>10. Refused(t)' = Refused(t) \cup {i \in Out(cur) \cap In(t) : ~Passes(edges[i], o)}
  <2>1. \A i \in In(t) :
            (state'[edges[i].from] = "Succeeded" /\ ~Passes(edges[i], result'[edges[i].from].out))
            <=> \/ state[edges[i].from] = "Succeeded" /\ ~Passes(edges[i], result[edges[i].from].out)
                \/ edges[i].from = cur /\ ~Passes(edges[i], o)
    BY <1>3, <1>4, <1>5, <1>6
  <2>2. Refused(t)' = {i \in In(t) : /\ state'[edges[i].from] = "Succeeded"
                                     /\ ~Passes(edges[i], result'[edges[i].from].out)}
    BY <1>2, <1>6 DEF Refused
  <2>3. QED
    BY <1>7, <2>1, <2>2 DEF Refused
<1>11. Carried(t)' = Carried(t) \cup {i \in Out(cur) \cap In(t) : Delivers(edges[i], o)}
  <2>1. \A i \in In(t) :
            (state'[edges[i].from] = "Succeeded" /\ Delivers(edges[i], result'[edges[i].from].out))
            <=> \/ state[edges[i].from] = "Succeeded" /\ Delivers(edges[i], result[edges[i].from].out)
                \/ edges[i].from = cur /\ Delivers(edges[i], o)
    BY <1>3, <1>4, <1>5, <1>6
  <2>2. Carried(t)' = {i \in In(t) : /\ state'[edges[i].from] = "Succeeded"
                                     /\ Delivers(edges[i], result'[edges[i].from].out)}
    BY <1>2, <1>6 DEF Carried
  <2>3. QED
    BY <1>7, <2>1, <2>2 DEF Carried
<1>12. /\ Left(cur)[t] = Cardinality(Unresolved(t)') /\ Left(cur)[t] \in Nat
       /\ Left(cur)[t] = 0 <=> Unresolved(t)' = {}
  <2>1. IsFiniteSet(Unresolved(t))
    BY <1>1, FiniteEdges
  <2>2. IsFiniteSet(Unresolved(t)')
    BY <1>9, <2>1, FS_Subset
  <2>3. Cardinality(Unresolved(t)')
          = Cardinality(Unresolved(t)) - Cardinality(Out(cur) \cap In(t))
    <3>1. Unresolved(t) \cap (Out(cur) \cap In(t)) = Out(cur) \cap In(t)
      BY <1>8
    <3>2. Cardinality(Unresolved(t) \ (Out(cur) \cap In(t)))
            = Cardinality(Unresolved(t)) - Cardinality(Unresolved(t) \cap (Out(cur) \cap In(t)))
      BY <2>1, FS_Difference
    <3>3. QED
      BY <1>9, <3>1, <3>2
  <2>4. Left(cur)[t] = Cardinality(Unresolved(t)')
    <3>1. Left(cur)[t] = remaining[t] - Cardinality(Out(cur) \cap In(t))
      BY DEF Left
    <3>2. remaining[t] = Cardinality(Unresolved(t))
      BY <1>1, Counting
    <3>3. QED
      BY <2>3, <3>1, <3>2
  <2>5. QED
    BY <2>2, <2>4, FS_CardinalityType, FS_EmptySet
<1>13. QED
  BY <1>6, <1>8, <1>9, <1>10, <1>11, <1>12

\* Every node that becomes ready is queued once, after the nodes queued before.
LEMMA ReadyListed ==
    ASSUME edges \in Openings, NEW o, NEW q \in Listings(Ready(o), Earlier)
    PROVE  /\ q \in Seq(Nodes)
           /\ \A k \in DOMAIN q : q[k] \in Ready(o)
           /\ \A t \in Ready(o) : \E k \in DOMAIN q : q[k] = t
           /\ \A k, l \in DOMAIN q : q[k] = q[l] => k = l
<1>1. /\ q \in [1..Cardinality(Ready(o)) -> Ready(o)] /\ ToSet(q) = Ready(o)
      /\ \A i, j \in DOMAIN q : i < j => Earlier(q[i], q[j])
  BY DEF Listings
<1>2. Cardinality(Ready(o)) \in Nat
  <2>1. IsFiniteSet(Nodes)
    <3>1. PICK k \in Nat : NodeOrder \in [1..k -> Nodes]
      BY RunnerAssumption
    <3>2. NodeOrder \in Surjection(1..k, Nodes)
      BY <3>1 DEF Nodes, ToSet, Surjection
    <3>3. QED
      BY <3>2, FS_Interval, FS_Surjection
  <2>2. Ready(o) \subseteq Nodes
    BY DEF Ready, Resolved
  <2>3. QED
    BY <2>1, <2>2, FS_Subset, FS_CardinalityType
<1>3. \A t : ~Earlier(t, t)
  <2>1. \A i \in DOMAIN edges : i \in Nat
    BY EdgeFacts
  <2>2. ASSUME NEW t, Earlier(t, t)
        PROVE  FALSE
    <3>1. PICK i \in Out(cur) \cap In(t) : \A j \in Out(cur) \cap In(t) : j < i
      BY <2>2 DEF Earlier
    <3>2. i \in Nat /\ i < i
      BY <2>1, <3>1 DEF Out
    <3>3. QED
      BY <3>2
  <2>3. QED
    BY <2>2
<1>4. \A k, l \in DOMAIN q : q[k] = q[l] => k = l
  <2>1. \A k \in DOMAIN q : k \in Int
    BY <1>1
  <2>2. \A k, l \in DOMAIN q : k < l => q[k] # q[l]
    BY <1>1, <1>3
  <2>3. QED
    BY <2>1, <2>2
<1>5. Ready(o) \subseteq Nodes
  BY DEF Ready, Resolved
<1>6. QED
  BY <1>1, <1>2, <1>4, <1>5 DEF ToSet

LEMMA CompleteKeeps ==
    ASSUME FullInv, NEW o \in OutputChoices, NEW d \in 0..TimeoutOf(cur), Complete(o, d)
    PROVE  FullInv'
<1> DEFINE resolved == Resolved(Left(cur))
<1>1. /\ TypeOK /\ edges \in Openings /\ CountersExact /\ UnresolvedWaits /\ QueueIsReady
      /\ ResolvedIsSettled /\ CurrentRuns /\ StartedIsEligible /\ FailFast /\ AttemptsBounded
  BY DEF FullInv, RunnerInv, TypeOK
<1>2. /\ phase = "attempt" /\ phase' = "loop"
      /\ result' = [result EXCEPT ![cur] = [kind |-> "completed", out |-> o]]
      /\ remaining' = Left(cur)
      /\ blocked' = Block(o) \ resolved
      /\ buffer' = Filled(o)
      /\ \E q \in Listings(Ready(o), Earlier) : queue' = queue \o q
      /\ state' = [t \in Nodes |-> IF t = cur THEN "Succeeded"
                                   ELSE IF t \in resolved \ Ready(o) THEN "Skipped"
                                   ELSE state[t]]
      /\ event' = [event EXCEPT ![cur] = "Succeeded"]
      /\ Spend(d)
      /\ UNCHANGED <<edges, tries, cur, failed, success>>
  BY CompleteSteps
<1>3. cur \in Nodes /\ state[cur] = "Running" /\ remaining[cur] = 0 /\ tries[cur] > 0 /\ ~failed
  BY <1>2, CurIsResolved
<1>4. PICK q \in Listings(Ready(o), Earlier) : queue' = queue \o q
  BY <1>2
<1>5. /\ q \in Seq(Nodes)
      /\ \A k \in DOMAIN q : q[k] \in Ready(o)
      /\ \A t \in Ready(o) : \E k \in DOMAIN q : q[k] = t
      /\ \A k, l \in DOMAIN q : q[k] = q[l] => k = l
  BY <1>1, ReadyListed
<1>6. \A t \in Nodes : /\ remaining[t] \in Nat /\ (remaining[t] = 0 <=> Unresolved(t) = {})
                       /\ remaining'[t] \in Nat /\ remaining'[t] = Left(cur)[t]
                       /\ (remaining'[t] = 0 <=> Unresolved(t)' = {})
                       /\ (remaining[t] = 0 => remaining'[t] = 0)
                       /\ t \in resolved <=> remaining[t] > 0 /\ remaining'[t] = 0
  BY <1>1, <1>2, Counting, CompleteSets DEF Resolved
<1>7. \A t \in resolved : state[t] = "Pending" /\ tries[t] = 0 /\ t # cur /\ t \in Nodes
  BY <1>1, <1>2, <1>3 DEF UnresolvedWaits, Resolved
<1>8. \A t \in Nodes : /\ t = cur => state'[t] = "Succeeded"
                       /\ t \in resolved \ Ready(o) => state'[t] = "Skipped"
                       /\ t # cur /\ t \notin resolved \ Ready(o) => state'[t] = state[t]
  BY <1>2, <1>7
\* Blocked nodes and buffers still mirror what the resolved edges said.
<1>9. \A t \in Nodes : remaining[t] > 0 => /\ (t \in Block(o) <=> Refused(t)' # {})
                                           /\ Filled(o)[t] = Carried(t)'
  <2>1. SUFFICES ASSUME NEW t \in Nodes, remaining[t] > 0
                 PROVE  (t \in Block(o) <=> Refused(t)' # {}) /\ Filled(o)[t] = Carried(t)'
    OBVIOUS
  <2>2. (t \in blocked <=> Refused(t) # {}) /\ buffer[t] = Carried(t)
    BY <1>1, <2>1 DEF UnresolvedWaits
  <2>3. t \in Block(o) <=> t \in blocked \/ {i \in Out(cur) \cap In(t) : ~Passes(edges[i], o)} # {}
    BY DEF Block, Out, In
  <2>4. QED
    BY <2>2, <2>3, CompleteSets DEF Filled
\* Eligibility of the nodes resolved before the step is what it was, and the
\* nodes it resolves are eligible iff they are ready.
<1>10. \A t \in Nodes : remaining[t] = 0 => (Eligible(t)' <=> Eligible(t))
  <2>1. SUFFICES ASSUME NEW t \in Nodes, remaining[t] = 0
                 PROVE  Eligible(t)' <=> Eligible(t)
    OBVIOUS
  <2>2. Unresolved(t) = {} /\ Out(cur) \cap In(t) = {}
    BY <1>6, <2>1, CompleteSets
  <2>3. Unresolved(t)' = {} /\ Refused(t)' = Refused(t) /\ Carried(t)' = Carried(t) /\ In(t)' = In(t)
    BY <2>2, CompleteSets
  <2>4. Eligible(t)' <=> /\ Unresolved(t)' = {} /\ Refused(t)' = {}
                         /\ In(t)' # {} => Carried(t)' # {}
    BY DEF Eligible, Unresolved, Refused, Carried
  <2>5. QED
    BY <2>2, <2>3, <2>4, EligibleSets
<1>11. \A t \in resolved : Eligible(t)' <=> t \in Ready(o)
  <2>1. SUFFICES ASSUME NEW t \in resolved
                 PROVE  Eligible(t)' <=> t \in Ready(o)
    OBVIOUS
  <2>2. t \in Nodes /\ remaining[t] > 0 /\ Unresolved(t)' = {} /\ In(t)' # {}
    <3>1. t \in Nodes /\ remaining[t] > 0 /\ Unresolved(t)' = {}
      BY <1>6, <1>7
    <3>2. Unresolved(t) # {} /\ Unresolved(t) \subseteq In(t)
      BY <1>6, <3>1 DEF Unresolved
    <3>3. QED
      BY <3>1, <3>2, CompleteSets
  <2>3. Eligible(t)' <=> /\ Unresolved(t)' = {} /\ Refused(t)' = {}
                         /\ In(t)' # {} => Carried(t)' # {}
    BY DEF Eligible, Unresolved, Refused, Carried
  <2>4. t \in Ready(o) <=> t \notin Block(o) /\ Filled(o)[t] # {}
    BY DEF Ready
  <2>5. QED
    BY <1>9, <2>2, <2>3, <2>4
<1>12. \A t \in Nodes : Eligible(t) => Eligible(t)'
  BY <1>6, <1>10, EligibleSets
<1>13. TypeOK'
  <2>1. state' \in [Nodes -> NodeStates] /\ event' \in [Nodes -> NodeStates \cup {"none"}]
    BY <1>1, <1>2 DEF TypeOK, NodeStates
  <2>2. result' \in [Nodes -> ResultType]
    <3>1. [kind |-> "completed", out |-> o] \in ResultType
      BY RunnerAssumption DEF ResultType
    <3>2. QED
      BY <1>1, <1>2, <3>1 DEF TypeOK
  <2>3. remaining' \in [Nodes -> Nat]
    BY <1>2, <1>6 DEF Left
  <2>4. blocked' \subseteq Nodes
    <3>1. \A i \in Out(cur) : edges[i].to \in Nodes
      BY <1>1, EdgeFacts DEF Out
    <3>2. QED
      BY <1>1, <1>2, <3>1 DEF TypeOK, Block
  <2>5. buffer' \in [Nodes -> SUBSET Nat]
    <3>1. \A t : Out(cur) \cap In(t) \subseteq Nat
      BY <1>1, EdgeFacts DEF Out
    <3>2. \A t \in Nodes : Filled(o)[t] \subseteq Nat
      BY <1>1, <3>1 DEF TypeOK, Filled
    <3>3. QED
      BY <1>2, <3>2 DEF Filled
  <2>6. queue' \in Seq(Nodes)
    BY <1>1, <1>4, <1>5 DEF TypeOK
  <2>7. elapsed' \in 0..MaxTime
    BY <1>1, <1>2, RunnerAssumption, Limits DEF Spend, TypeOK
  <2>8. QED
    BY <1>1, <1>2, <2>1, <2>2, <2>3, <2>4, <2>5, <2>6, <2>7 DEF TypeOK
<1>14. CountersExact'
  <2>1. \A t \in Nodes : Left(cur)[t] = Cardinality(Unresolved(t)')
    BY CompleteSets
  <2>2. remaining' = [t \in Nodes |-> Cardinality(Unresolved(t)')]
    BY <1>2, <2>1 DEF Left
  <2>3. QED
    BY <2>2 DEF CountersExact, Unresolved
<1>15. UnresolvedWaits'
  <2>1. SUFFICES ASSUME NEW t \in Nodes, remaining'[t] > 0
                 PROVE  /\ tries'[t] = 0 /\ state'[t] = "Pending"
                        /\ (t \in blocked' <=> Refused(t)' # {}) /\ buffer'[t] = Carried(t)'
    BY DEF UnresolvedWaits
  <2>2. remaining[t] > 0 /\ t \notin resolved /\ t # cur
    BY <1>3, <1>6, <2>1
  <2>3. tries[t] = 0 /\ state[t] = "Pending"
    BY <1>1, <1>2, <2>2 DEF UnresolvedWaits
  <2>4. QED
    BY <1>2, <1>8, <1>9, <2>2, <2>3
<1>16. QueueIsReady'
  <2>a. /\ queue \in Seq(Nodes) /\ q \in Seq(Nodes) /\ queue' = queue \o q
        /\ \A k \in DOMAIN queue : queue[k] \in Nodes
    BY <1>1, <1>4, <1>5, QueueNodes DEF TypeOK
  \* An element of the new queue is an old one or a node that is ready.
  <2>b. \A k \in DOMAIN queue' :
            \/ k \in DOMAIN queue /\ queue'[k] = queue[k]
            \/ k \notin DOMAIN queue /\ k - Len(queue) \in DOMAIN q /\ queue'[k] = q[k - Len(queue)]
    BY <2>a
  <2>1. \A k \in DOMAIN queue : /\ remaining[queue[k]] = 0 /\ tries[queue[k]] = 0
                                /\ state[queue[k]] = "Pending" /\ Eligible(queue[k])
    BY <1>1, <1>2 DEF QueueIsReady
  <2>2. \A t \in Nodes : remaining[t] = 0 /\ tries[t] = 0 /\ state[t] = "Pending" /\ Eligible(t)
            => remaining'[t] = 0 /\ tries'[t] = 0 /\ state'[t] = "Pending" /\ Eligible(t)'
    BY <1>2, <1>3, <1>6, <1>8, <1>12
  <2>3. \A t \in Ready(o) : /\ t \in Nodes /\ remaining[t] # 0
                            /\ remaining'[t] = 0 /\ tries'[t] = 0
                            /\ state'[t] = "Pending" /\ Eligible(t)'
    <3>1. \A t \in Ready(o) : t \in resolved
      BY DEF Ready
    <3>2. QED
      BY <1>2, <1>6, <1>7, <1>8, <1>11, <3>1
  <2>4. ASSUME NEW k \in DOMAIN queue'
        PROVE  /\ remaining'[queue'[k]] = 0 /\ tries'[queue'[k]] = 0
               /\ state'[queue'[k]] = "Pending" /\ Eligible(queue[k])'
    <3>1. PICK t \in Nodes : /\ t = queue'[k] /\ remaining'[t] = 0 /\ tries'[t] = 0
                             /\ state'[t] = "Pending" /\ Eligible(t)'
      BY <1>5, <2>a, <2>b, <2>1, <2>2, <2>3, <2>4
    <3>2. QED
      BY <3>1
  <2>5. \A k, l \in DOMAIN queue' : queue'[k] = queue'[l] => k = l
    <3>1. \A k, l \in DOMAIN queue : queue[k] = queue[l] => k = l
      BY <1>1 DEF QueueIsReady
    <3>2. \A k \in DOMAIN queue, l \in DOMAIN q : queue[k] # q[l]
      BY <1>5, <2>1, <2>3
    <3>3. \A k \in DOMAIN queue' : k \in Int
      BY <2>a
    <3>4. Len(queue) \in Int
      BY <2>a
    <3>5. QED
      BY <1>5, <2>b, <3>1, <3>2, <3>3, <3>4
  <2>6. QED
    BY <2>4, <2>5 DEF QueueIsReady
<1>17. ResolvedIsSettled'
  <2>1. ASSUME NEW t \in Nodes, remaining'[t] = 0, state'[t] = "Pending"
        PROVE  \E k \in DOMAIN queue' : queue'[k] = t
    <3>1. t # cur /\ t \notin resolved \ Ready(o) /\ state[t] = "Pending"
      BY <1>8, <2>1
    <3>2. CASE remaining[t] = 0
      <4>1. PICK k \in DOMAIN queue : queue[k] = t
        BY <1>1, <1>2, <3>1, <3>2 DEF ResolvedIsSettled
      <4>2. k \in DOMAIN (queue \o q) /\ (queue \o q)[k] = queue[k]
        BY <1>1, <1>5, <4>1 DEF TypeOK
      <4>3. QED
        BY <1>4, <4>1, <4>2
    <3>3. CASE remaining[t] # 0
      <4>1. t \in Ready(o)
        BY <1>6, <2>1, <3>1, <3>3
      <4>2. PICK k \in DOMAIN q : q[k] = t
        BY <1>5, <4>1
      <4>3. Len(queue) + k \in DOMAIN (queue \o q) /\ (queue \o q)[Len(queue) + k] = q[k]
        BY <1>1, <1>5, <4>2 DEF TypeOK
      <4>4. QED
        BY <1>4, <4>2, <4>3
    <3>4. QED
      BY <3>2, <3>3
  <2>2. ASSUME NEW t \in Nodes, state'[t] = "Skipped"
        PROVE  ~Eligible(t)'
    <3>1. CASE t \in resolved
      BY <1>7, <1>8, <1>11, <2>2, <3>1
    <3>2. CASE t \notin resolved
      <4>1. state[t] = "Skipped" /\ t # cur
        BY <1>8, <2>2, <3>2
      <4>2. remaining[t] = 0
        BY <1>1, <1>2, <1>6, <4>1 DEF UnresolvedWaits
      <4>3. QED
        BY <1>1, <1>2, <1>10, <4>1, <4>2 DEF ResolvedIsSettled
    <3>3. QED
      BY <3>1, <3>2
  <2>3. QED
    BY <2>1, <2>2 DEF ResolvedIsSettled
<1>18. CurrentRuns'
  BY <1>1, <1>2, <1>8 DEF CurrentRuns
<1>19. StartedIsEligible' /\ DataflowSemantics'
  BY <1>1, <1>2, <1>12 DEF StartedIsEligible, DataflowSemantics
<1>20. FailFast'
  <2>1. \A n \in Nodes : state[n] # "Failed"
    BY <1>1, <1>3 DEF FailFast
  <2>2. \A n \in Nodes : state'[n] # "Failed"
    BY <1>8, <2>1
  <2>3. QED
    BY <1>1, <1>2, <1>3, <2>2 DEF FailFast
<1>21. AttemptsBounded'
  <2>1. \A n \in Nodes : state'[n] \in {"Pending", "Skipped"} <=> state[n] \in {"Pending", "Skipped"}
    <3>1. \A n \in resolved : state'[n] \in {"Pending", "Skipped"}
      BY <1>7, <1>8
    <3>2. QED
      BY <1>3, <1>7, <1>8, <3>1
  <2>2. QED
    BY <1>1, <1>2, <2>1 DEF AttemptsBounded, AttemptLimit
<1>22. QED
  BY <1>13, <1>14, <1>15, <1>16, <1>17, <1>18, <1>19, <1>20, <1>21 DEF FullInv, RunnerInv

-----------------------------------------------------------------------------
LEMMA NextFullInv == FullInv /\ [Next]_vars => FullInv'
<1> SUFFICES ASSUME FullInv, [Next]_vars
             PROVE  FullInv'
  OBVIOUS
<1>1. CASE UNCHANGED vars
  <2>1. UNCHANGED <<edges, state, tries, result, event, remaining, blocked, buffer, queue,
                    phase, cur, failed, success, elapsed>>
    BY <1>1 DEF vars, nodeVars, graphVars
  <2>2. TypeOK'
    BY <2>1 DEF FullInv, TypeOK
  <2>3. CountersExact' /\ UnresolvedWaits' /\ QueueIsReady' /\ ResolvedIsSettled' /\ CurrentRuns'
    <3>1. CountersExact' /\ UnresolvedWaits'
      BY <2>1 DEF FullInv, RunnerInv, CountersExact, UnresolvedWaits, In, Refused, Carried
    <3>2. QueueIsReady'
      BY <2>1 DEF FullInv, RunnerInv, QueueIsReady, In, Eligible
    <3>3. ResolvedIsSettled' /\ CurrentRuns'
      BY <2>1 DEF FullInv, RunnerInv, ResolvedIsSettled, CurrentRuns, In, Eligible, AttemptLimit
    <3>4. QED
      BY <3>1, <3>2, <3>3
  <2>4. StartedIsEligible' /\ DataflowSemantics' /\ FailFast' /\ AttemptsBounded'
    BY <2>1 DEF FullInv, RunnerInv, StartedIsEligible, DataflowSemantics, FailFast,
                AttemptsBounded, Eligible, In, AttemptLimit
  <2>5. QED
    BY <2>2, <2>3, <2>4 DEF FullInv, RunnerInv
<1>2. CASE Next
  BY <1>2, StartNodeKeeps, FinishKeeps, CompleteKeeps, RetryLaterKeeps, GiveUpKeeps, RetryKeeps
     DEF Next
<1>3. QED
  BY <1>1, <1>2

\* The bookkeeping of the runner mirrors the edges at all times.
THEOREM RunnerCorrect == Spec => [](TypeOK /\ RunnerInv)
  BY InitFullInv, NextFullInv, PTL DEF Spec, FullInv

\* The counters, the buffers and the blocked set never let a node start whose
\* inbound dependencies are not all there, for every opening.
THEOREM OnlyEligibleStart == Spec => []StartedIsEligible
  BY RunnerCorrect, PTL DEF RunnerInv

\* A run without a failure executes exactly the nodes the edges make eligible.
THEOREM RunsExactlyTheEligible == Spec => []DataflowSemantics
  BY RunnerCorrect, PTL DEF RunnerInv

\* One failed node ends the run, which is then no success.
THEOREM FailureEndsTheRun == Spec => []FailFast
  BY RunnerCorrect, PTL DEF RunnerInv

\* No node is attempted more often than its retry policy allows.
THEOREM RetriesAreBounded == Spec => []AttemptsBounded
  BY RunnerCorrect, PTL DEF RunnerInv

-----------------------------------------------------------------------------
(* Events and outcomes *)

\* The last event of a node that is running or has ended is its state, and what
\* succeeded completed.
Told ==
    /\ phase # "done" =>
          \A n \in Nodes : state[n] \in {"Running", "Succeeded", "Failed"} => event[n] = state[n]
    /\ EventsAgree
    /\ \A n \in Nodes : state[n] = "Succeeded" => result[n].kind = "completed"

LEMMA NextTold ==
    ASSUME FullInv, Told, [Next]_vars
    PROVE  Told'
<1>0. /\ state \in [Nodes -> NodeStates] /\ event \in [Nodes -> NodeStates \cup {"none"}]
      /\ result \in [Nodes -> ResultType] /\ cur \in Nodes
  BY DEF FullInv, TypeOK
<1>1. CASE UNCHANGED vars
  BY <1>1 DEF vars, nodeVars, Told, EventsAgree
<1>2. CASE StartNode
  <2>1. /\ queue # <<>> /\ phase = "loop" /\ phase' = "attempt" /\ result' = result
        /\ state' = [state EXCEPT ![Head(queue)] = "Running"]
        /\ event' = [event EXCEPT ![Head(queue)] = "Running"]
    BY <1>2 DEF StartNode, BeginAttempt
  <2> QED
    BY <1>0, <2>1 DEF Told, EventsAgree
<1>3. CASE Finish
  <2> DEFINE rest == {n \in Nodes : state[n] \notin {"Succeeded", "Failed"}}
  <2>1. /\ phase = "loop" /\ phase' = "done" /\ result' = result
        /\ state' = [n \in Nodes |-> IF n \in rest THEN "Skipped" ELSE state[n]]
        /\ event' = [n \in Nodes |-> IF n \in rest THEN "Skipped" ELSE event[n]]
    BY <1>3 DEF Finish
  <2>2. \A n \in Nodes : n \notin rest => event[n] = state[n] /\ state[n] \in {"Succeeded", "Failed"}
    BY <2>1 DEF Told
  <2>3. event' = state'
    BY <2>1, <2>2
  <2> QED
    BY <2>1, <2>2, <2>3 DEF Told, EventsAgree
<1>4. ASSUME NEW o \in OutputChoices, NEW d \in 0..TimeoutOf(cur), Complete(o, d)
      PROVE  Told'
  <2>1. /\ phase = "attempt" /\ phase' = "loop"
        /\ result' = [result EXCEPT ![cur] = [kind |-> "completed", out |-> o]]
        /\ event' = [event EXCEPT ![cur] = "Succeeded"]
    BY <1>4 DEF Complete, EndsWith
  <2>2. \A t \in Nodes : /\ t = cur => state'[t] = "Succeeded"
                         /\ t # cur => state'[t] \in {"Skipped", state[t]}
    BY <1>4, CompleteSteps
  <2> QED
    BY <1>0, <2>1, <2>2 DEF Told, EventsAgree
<1>5. ASSUME NEW kind \in Faults, NEW d \in 0..TimeoutOf(cur), RetryLater(kind, d) \/ GiveUp(kind, d)
      PROVE  Told'
  <2>1. phase = "attempt" /\ Fault(kind, d)
    BY <1>5 DEF RetryLater, GiveUp, Fault
  <2>2. /\ \A n \in Nodes : n # cur => result'[n] = result[n]
        /\ state[cur] = "Running" /\ event[cur] = "Running"
    BY <2>1, CurIsResolved, FaultResult DEF FullInv, Told
  <2>3. CASE RetryLater(kind, d)
    BY <1>0, <2>2, <2>3 DEF RetryLater, Told, EventsAgree
  <2>4. CASE GiveUp(kind, d)
    <3>1. /\ state' = [state EXCEPT ![cur] = "Failed"] /\ event' = [event EXCEPT ![cur] = "Failed"]
          /\ phase' = "loop"
      BY <2>4 DEF GiveUp
    <3> QED
      BY <1>0, <2>1, <2>2, <3>1 DEF Told, EventsAgree
  <2> QED
    BY <1>5, <2>3, <2>4
<1>6. ASSUME NEW d \in 0..TimeoutOf(cur), Retry(d)
      PROVE  Told'
  <2>1. /\ phase = "backoff" /\ phase' = "attempt" /\ UNCHANGED <<state, result>>
        /\ event' = [event EXCEPT ![cur] = "Running"]
    BY <1>6 DEF Retry, BeginAttempt
  <2>2. state[cur] = "Running"
    BY <2>1, CurIsResolved
  <2> QED
    BY <1>0, <2>1, <2>2 DEF Told, EventsAgree
<1> QED
  BY <1>1, <1>2, <1>3, <1>4, <1>5, <1>6 DEF Next

LEMMA InitTold == Init => Told
  BY DEF Init, Told, EventsAgree

LEMMA ToldInvariant == Spec => [](FullInv /\ Told)
<1>1. Init => FullInv /\ Told
  BY InitFullInv, InitTold
<1>2. FullInv /\ Told /\ [Next]_vars => (FullInv /\ Told)'
  BY NextFullInv, NextTold
<1> QED
  BY <1>1, <1>2, PTL DEF Spec

\* The last event sent about each node (event_tx) is the state the report gives it,
\* through retries, failures and the skipping of what was never run.
THEOREM EventsTellTheReport == Spec => []EventsAgree
<1>1. Told => EventsAgree
  BY DEF Told
<1> QED
  BY <1>1, ToldInvariant, PTL

-----------------------------------------------------------------------------
(* Replay *)

Items == {Item(r) : r \in ResultType}

\* What replay's hasher was given is what the run's hasher was given for the
\* attempted nodes before position at.
Reproduced ==
    /\ Len(fed) = Rank(at - 1)
    /\ \A k \in 1..Len(fed) :
          \E i \in Attempted : i < at /\ Rank(i) = k /\ fed[k] = Item(result[NodeOrder[i]])

ReplayInv ==
    /\ at \in 1..Len(NodeOrder) + 1
    /\ phase # "done" => at = 1
    /\ fed \in Seq(Items)
    /\ mismatches = {} => Reproduced
    /\ FaithfulMatches

LEMMA AttemptedFinite == \A i \in Nat : IsFiniteSet(Attempted \cap 1..i)
<1> SUFFICES ASSUME NEW i \in Nat PROVE IsFiniteSet(Attempted \cap 1..i)
  OBVIOUS
<1>1. IsFiniteSet(1..i)
  BY FS_Interval
<1> QED
  BY <1>1, FS_Intersection

\* Ranks number the attempted nodes in the order of the trace.
LEMMA RankFacts ==
    ASSUME NEW n \in Nat
    PROVE  /\ Rank(n) \in Nat
           /\ Rank(0) = 0
           /\ Rank(n + 1) = IF n + 1 \in Attempted THEN Rank(n) + 1 ELSE Rank(n)
<1> DEFINE S(i) == Attempted \cap 1..i
<1>1. \A i \in Nat : IsFiniteSet(S(i))
  BY AttemptedFinite
<1>2. \A i \in Nat : Rank(i) = Cardinality(S(i)) /\ Rank(i) \in Nat
  BY <1>1, FS_CardinalityType DEF Rank
<1>3. Rank(0) = 0
  <2>1. S(0) = {}
    OBVIOUS
  <2> QED
    BY <1>2, <2>1, FS_EmptySet
<1>4. CASE n + 1 \in Attempted
  <2>1. S(n + 1) = S(n) \cup {n + 1} /\ n + 1 \notin S(n)
    BY <1>4
  <2> HIDE DEF S
  <2>2. Cardinality(S(n + 1)) = Cardinality(S(n)) + 1
    BY <1>1, <2>1, FS_AddElement
  <2> QED
    BY <1>2, <1>3, <1>4, <2>2
<1>5. CASE n + 1 \notin Attempted
  <2>1. S(n + 1) = S(n)
    BY <1>5
  <2> HIDE DEF S
  <2> QED
    BY <1>2, <1>3, <1>5, <2>1
<1> QED
  BY <1>4, <1>5

LEMMA RankGrows ==
    ASSUME NEW i \in Attempted, NEW j \in Attempted, Rank(i) = Rank(j)
    PROVE  i = j
<1>0. \A x \in Attempted : x \in Nat \ {0}
  <2>1. DOMAIN NodeOrder = 1..Len(NodeOrder)
    BY RunnerAssumption
  <2> QED
    BY <2>1 DEF Attempted
<1>1. ASSUME NEW x \in Attempted, NEW y \in Attempted, x < y
      PROVE  Rank(x) < Rank(y)
  <2>1. x \in Nat /\ y \in Nat /\ y - 1 \in Nat /\ (y - 1) + 1 = y
    BY <1>0
  <2>2. Rank(y) = Rank(y - 1) + 1 /\ Rank(x) \in Nat /\ Rank(y - 1) \in Nat
    BY <2>1, RankFacts
  <2>3. Rank(x) <= Rank(y - 1)
    <3>1. Attempted \cap 1..x \subseteq Attempted \cap 1..(y - 1)
      BY <1>1, <2>1
    <3>2. IsFiniteSet(Attempted \cap 1..(y - 1))
      BY <2>1, AttemptedFinite
    <3> QED
      BY <3>1, <3>2, FS_Subset DEF Rank
  <2> QED
    BY <2>2, <2>3
<1>2. Rank(i) \in Nat /\ Rank(j) \in Nat /\ i \in Nat /\ j \in Nat
  BY <1>0, RankFacts
<1> QED
  BY <1>1, <1>2

\* While its run goes on, replay has not begun.
LEMMA RunningKeepsReplay ==
    ASSUME ReplayInv, Next, UNCHANGED replayVars
    PROVE  ReplayInv'
<1>1. phase # "done"
  BY DEF Next, StartNode, Finish, Complete, RetryLater, GiveUp, Fault, Retry
<1>2. at = 1 /\ UNCHANGED <<missing, at, mismatches, fed, aborted, faithful>>
  BY <1>1 DEF ReplayInv, replayVars
<1>3. mismatches = {} => Len(fed) = 0
  BY <1>2, RankFacts DEF ReplayInv, Reproduced
<1>4. Rank(0)' = 0
  <2>1. (Attempted \cap 1..0)' = {}
    OBVIOUS
  <2> QED
    BY <2>1, FS_EmptySet DEF Rank
<1>5. mismatches' = {} => Reproduced'
  <2>1. Rank(at - 1)' = 0
    BY <1>2, <1>4
  <2> QED
    BY <1>2, <1>3, <2>1 DEF Reproduced
<1> QED
  BY <1>2, <1>5 DEF ReplayInv, FaithfulMatches

\* One position of the trace: nothing is fed where there was no attempt, and what
\* is fed where there was one is the item of the recorded attempt.
LEMMA AdvanceReproduces ==
    ASSUME ReplayInv, UNCHANGED vars, at \in 1..Len(NodeOrder), at' = at + 1, Reproduced,
           IF at \in Attempted THEN fed' = Append(fed, Item(result[NodeOrder[at]])) ELSE fed' = fed
    PROVE  Reproduced'
<1>0. /\ at \in Nat /\ at - 1 \in Nat /\ (at - 1) + 1 = at /\ fed \in Seq(Items)
      /\ Len(fed) = Rank(at - 1) /\ Len(fed) \in Nat
  BY DEF ReplayInv, Reproduced
<1>1. Rank(at) = IF at \in Attempted THEN Rank(at - 1) + 1 ELSE Rank(at - 1)
  BY <1>0, RankFacts
<1>2. Attempted' = Attempted /\ \A i : Rank(i)' = Rank(i)
  BY DEF vars, nodeVars, Attempted, Rank
<1>3. result' = result /\ \A r : Item(r)' = Item(r)
  BY DEF vars, nodeVars, Item, Reason
<1>4. Rank(at - 1)' = Rank(at)
  <2>1. at' - 1 = at
    BY <1>0
  <2> QED
    BY <1>2, <2>1 DEF Rank
<1>5. ASSUME NEW k \in 1..Len(fed')
      PROVE  \E i \in Attempted : i < at' /\ Rank(i) = k /\ fed'[k] = Item(result[NodeOrder[i]])
  <2>1. CASE k \in 1..Len(fed)
    <3>1. fed'[k] = fed[k]
      BY <1>0, <2>1
    <3>2. PICK i \in Attempted : i < at /\ Rank(i) = k /\ fed[k] = Item(result[NodeOrder[i]])
      BY <2>1 DEF Reproduced
    <3>3. i \in Nat
      BY RunnerAssumption DEF Attempted
    <3> QED
      BY <1>0, <3>1, <3>2, <3>3
  <2>2. CASE k \notin 1..Len(fed)
    <3>1. at \in Attempted /\ k = Len(fed) + 1 /\ fed'[k] = Item(result[NodeOrder[at]])
      BY <1>0, <1>5, <2>2
    <3> QED
      BY <1>0, <1>1, <3>1
  <2> QED
    BY <2>1, <2>2
<1>6. Len(fed') = Rank(at)
  BY <1>0, <1>1
<1> QED
  BY <1>2, <1>3, <1>4, <1>5, <1>6 DEF Reproduced

\* What the report says of the node replay is about to execute.
LEMMA RecordedOutcome ==
    ASSUME FullInv, Told, phase = "done", at \in 1..Len(NodeOrder), tries[Node] > 0
    PROVE  /\ Node \in Nodes /\ result[Node] \in ResultType
           /\ \/ state[Node] = "Succeeded" /\ result[Node].kind = "completed"
              \/ state[Node] = "Failed" /\ result[Node].kind \in Faults
<1>1. Node \in Nodes
  BY RunnerAssumption DEF Node
<1>2. state[Node] \in {"Succeeded", "Failed"}
  BY <1>1 DEF FullInv, RunnerInv, FailFast, AttemptsBounded, TypeOK
<1> QED
  BY <1>1, <1>2 DEF FullInv, RunnerInv, FailFast, Told, TypeOK

LEMMA ReplayNodeKeeps ==
    ASSUME FullInv, Told, ReplayInv, NEW answer \in Answers, ReplayNode(answer)
    PROVE  ReplayInv'
<1>1. /\ phase = "done" /\ at \in 1..Len(NodeOrder) /\ at \in Nat /\ tries[Node] > 0 /\ at' = at + 1
      /\ UNCHANGED <<vars, missing, aborted>>
  BY DEF ReplayNode, Replaying, ReplayInv
<1>2. /\ Node \in Nodes /\ result[Node] \in ResultType
      /\ \/ state[Node] = "Succeeded" /\ result[Node].kind = "completed"
         \/ state[Node] = "Failed" /\ result[Node].kind \in Faults
  BY <1>1, RecordedOutcome
<1>3. answer \in ResultType /\ answer.kind \in {"completed", "retryable", "fatal"}
  <2>1. NoOutputs \in OutputType /\ \A o \in OutputChoices : o \in OutputType
    BY RunnerAssumption DEF NoOutputs, OutputType
  <2>2. PICK k \in {"completed", "retryable", "fatal"}, o \in OutputType :
            answer = [kind |-> k, out |-> o]
    BY <2>1 DEF Answers
  <2> QED
    BY <2>2 DEF ResultType, Faults
<1>4. Item(answer) \in Items /\ Item(result[Node]) \in Items
  BY <1>2, <1>3 DEF Items
<1>5. fed' \in Seq(Items)
  <2>1. fed' \in {fed, Append(fed, Item(answer)), Append(fed, Item(result[Node]))}
    BY DEF ReplayNode, Feed
  <2> QED
    BY <1>4, <2>1 DEF ReplayInv
<1>6. Same(answer) => fed' = Append(fed, Item(result[Node]))
  <2>1. ASSUME Same(answer), answer.kind = "completed" PROVE Item(answer) = Item(result[Node])
    BY <1>2, <2>1 DEF Same, Item, Reason
  <2> QED
    BY <2>1 DEF ReplayNode, Feed, Same
<1>7. answer.out = result[Node].out /\ Reason(answer) = Reason(result[Node]) => Same(answer)
  BY <1>2, <1>3 DEF Same, Reason, Faults
<1>8. at \in Attempted
  BY <1>1, RunnerAssumption DEF Attempted, Node
<1>9. mismatches' = {} => mismatches = {} /\ Same(answer)
  BY DEF ReplayNode
<1>10. mismatches' = {} => Reproduced'
  BY <1>1, <1>6, <1>8, <1>9, AdvanceReproduces DEF ReplayInv, Node
<1>11. FaithfulMatches'
  BY <1>7 DEF ReplayInv, FaithfulMatches, ReplayNode
<1>12. at' \in 1..Len(NodeOrder) + 1
  BY <1>1
<1> QED
  BY <1>1, <1>5, <1>10, <1>11, <1>12 DEF ReplayInv, vars

LEMMA ReplaySkipKeeps ==
    ASSUME FullInv, ReplayInv, ReplaySkip
    PROVE  ReplayInv'
<1>1. /\ phase = "done" /\ at \in 1..Len(NodeOrder) /\ at \in Nat /\ at' = at + 1
      /\ UNCHANGED <<vars, missing, fed, aborted, faithful>>
      /\ Node \in missing \/ tries[Node] = 0
      /\ mismatches' = IF Node \in missing THEN mismatches \cup {Node} ELSE mismatches
  BY DEF ReplaySkip, Replaying, ReplayInv
<1>2. mismatches' = {} => mismatches = {} /\ at \notin Attempted
  BY <1>1 DEF Attempted, Node
<1>3. mismatches' = {} => Reproduced'
  BY <1>1, <1>2, AdvanceReproduces DEF ReplayInv
<1>4. FaithfulMatches'
  BY <1>1 DEF ReplayInv, FaithfulMatches
<1>5. at' \in 1..Len(NodeOrder) + 1
  BY <1>1
<1> QED
  BY <1>1, <1>3, <1>4, <1>5 DEF ReplayInv, vars

LEMMA ReplayKeeps ==
    FullInv /\ Told /\ ReplayInv /\ [ReplayNext]_<<vars, replayVars>> => ReplayInv'
<1> SUFFICES ASSUME FullInv, Told, ReplayInv, [ReplayNext]_<<vars, replayVars>>
             PROVE  ReplayInv'
  OBVIOUS
<1>1. ASSUME UNCHANGED <<vars, missing, at, mismatches, fed, faithful>> PROVE ReplayInv'
  <2>1. Attempted' = Attempted /\ result' = result /\ \A r : Item(r)' = Item(r)
    BY <1>1 DEF vars, nodeVars, Attempted, Item, Reason
  <2>2. Rank(at - 1)' = Rank(at - 1) /\ \A i : Rank(i)' = Rank(i)
    BY <1>1, <2>1 DEF Rank
  <2>3. Reproduced => Reproduced'
    BY <1>1, <2>1, <2>2 DEF Reproduced
  <2> QED
    BY <1>1, <2>3 DEF ReplayInv, FaithfulMatches, vars
<1>2. CASE UNCHANGED <<vars, replayVars>> \/ ReplayAbort
  BY <1>1, <1>2 DEF ReplayAbort, replayVars
<1> QED
  BY <1>2, RunningKeepsReplay, ReplayNodeKeeps, ReplaySkipKeeps DEF ReplayNext

LEMMA ReplayVerdictHolds == FullInv /\ ReplayInv => ReplayVerdict
<1> SUFFICES ASSUME FullInv, ReplayInv, ReplayDone, mismatches = {}
             PROVE  fed = FinalHash
  BY DEF ReplayInv, ReplayVerdict, MatchReproduces
<1>1. Len(NodeOrder) \in Nat /\ at = Len(NodeOrder) + 1 /\ at - 1 = Len(NodeOrder) /\ Reproduced
  BY RunnerAssumption DEF ReplayInv, ReplayDone
<1>2. Rank(Len(NodeOrder)) = Cardinality(Attempted)
  <2>1. Attempted \cap 1..Len(NodeOrder) = Attempted
    BY RunnerAssumption DEF Attempted
  <2> QED
    BY <2>1 DEF Rank
<1>3. Len(fed) = Cardinality(Attempted) /\ fed \in Seq(Items)
  BY <1>1, <1>2 DEF Reproduced, ReplayInv
<1>4. ASSUME NEW k \in 1..Len(fed)
      PROVE  fed[k] = Item(result[NodeOrder[CHOOSE i \in Attempted : Rank(i) = k]])
  <2>1. PICK i \in Attempted : Rank(i) = k /\ fed[k] = Item(result[NodeOrder[i]])
    BY <1>1 DEF Reproduced
  <2>2. i = CHOOSE j \in Attempted : Rank(j) = k
    BY <2>1, RankGrows
  <2> QED
    BY <2>1, <2>2
<1>5. fed = [k \in 1..Len(fed) |-> fed[k]]
  BY <1>3
<1> QED
  BY <1>3, <1>4, <1>5 DEF FinalHash

\* replay() reports no mismatch only if it fed its hasher what the run fed its own (hashes
\* of outputs, not the outputs), and never one if every answer was the recorded one and the
\* opening has lost no node, for every trace and executor.
THEOREM ReplayMatchesTheHash == ReplaySpec => []ReplayVerdict
<1>1. ReplayInit => Init
  BY DEF ReplayInit
<1>2. [ReplayNext]_<<vars, replayVars>> => [Next]_vars
  BY DEF ReplayNext, ReplaySkip, ReplayAbort, ReplayNode
<1>3. ReplayInit => ReplayInv
  <2> SUFFICES ASSUME ReplayInit PROVE ReplayInv
    OBVIOUS
  <2>1. Len(NodeOrder) \in Nat /\ at = 1 /\ fed = <<>> /\ mismatches = {} /\ phase = "loop"
    BY RunnerAssumption DEF ReplayInit, Init
  <2>2. Rank(at - 1) = 0
    BY <2>1, RankFacts
  <2> QED
    BY <2>1, <2>2 DEF ReplayInv, Reproduced, FaithfulMatches
<1>4. ReplaySpec => [](FullInv /\ Told)
  BY <1>1, <1>2, ToldInvariant, PTL DEF ReplaySpec, Spec
<1>5. ReplaySpec => []ReplayInv
  BY <1>3, <1>4, ReplayKeeps, PTL DEF ReplaySpec
<1> QED
  BY <1>4, <1>5, ReplayVerdictHolds, PTL
=============================================================================
