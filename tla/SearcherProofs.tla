----------------------------- MODULE SearcherProofs -----------------------------
(***************************************************************************)
(* What the search keeps, settles and hands on, proved of Searcher for any *)
(* rewrites, any outcomes of their tests and any number of iterations.     *)
(***************************************************************************)
EXTENDS Searcher, Induction, SequenceTheorems

(* A proposal is pending exactly between its edit and its test; the cost,  *)
(* the kept rewrite and its results belong together; and what passed at    *)
(* cost zero, or is the best so far, is among the rewrites that passed.    *)
SearchInv ==
    /\ rewrite \in Rewrite
    /\ saved \in Rewrite
    /\ phase \in {"synthesize", "start", "optimize", "done", "exited"}
    /\ at \in {"propose", "test"}
    /\ pending = (at = "test")
    /\ phase \in {"start", "done"} => at = "propose"
    /\ CostIsCurrent
    /\ CrashNeverKept
    /\ phase = "synthesize" => cost # 0
    /\ SynthesizedIsCorrect
    /\ BestCostAchieved

(* The cost of a vector of responses is a sum, which is 0 only if every     *)
(* term is, and no less than any of them.                                  *)
LEMMA TotalCostFacts ==
    ASSUME NEW results \in Seq(Response)
    PROVE  /\ TotalCost(results) \in Nat
           /\ TotalCost(results) = 0 => \A i \in DOMAIN results : TestCost(results[i]) = 0
           /\ \A i \in DOMAIN results : TestCost(results[i]) <= TotalCost(results)
<1> DEFINE D == DOMAIN results
           g == [i \in D |-> TestCost(results[i])]
           eqn1(h) == [s \in SUBSET D |->
                         IF s = {} THEN 0
                         ELSE TestCost(results[Chosen(s)]) + h[s \ {Chosen(s)}]]
           eqn2(h) == [s \in SUBSET D |->
                         IF s = {} THEN 0 ELSE g[Chosen(s)] + h[s \ {Chosen(s)}]]
<1>1. TotalCost(results) = (CHOOSE h : h = eqn1(h))[D]
  BY DEF TotalCost, MapThenSumSet, MapThenFoldSet, Chosen
<1>2. \A h : eqn1(h) = eqn2(h)
  <2>1. \A s \in SUBSET D : s # {} => Chosen(s) \in D
    BY DEF Chosen
  <2>2. \A i \in D : g[i] = TestCost(results[i])
    OBVIOUS
  <2> HIDE DEF g, D
  <2> QED  BY <2>1, <2>2
<1>3. SumOver(D, g) = (CHOOSE h : h = eqn2(h))[D]
  BY DEF SumOver
<1>4. TotalCost(results) = SumOver(D, g)
  <2> HIDE DEF eqn1, eqn2
  <2> QED  BY <1>1, <1>2, <1>3
<1>5. IsFiniteSet(D)
  <2>1. Len(results) \in Nat /\ D = 1 .. Len(results)
    OBVIOUS
  <2>2. 1 \in Int /\ Len(results) \in Int
    BY <2>1
  <2> QED  BY <2>1, <2>2, FS_Interval
<1>6. g \in [D -> Nat]
  <2>1. \A i \in D : results[i] \in Response
    OBVIOUS
  <2>2. \A i \in D : TestCost(results[i]) \in Nat
    BY <2>1, SearcherAssumption DEF TestCost, Response
  <2> QED  BY <2>2
<1>7. /\ SumOver(D, g) \in Nat
      /\ SumOver(D, g) = 0 <=> \A i \in D : g[i] = 0
      /\ \A i \in D : g[i] <= SumOver(D, g)
  <2> HIDE DEF D, g
  <2> QED  BY <1>5, <1>6, SumZero, SumBounds
<1>8. \A i \in D : g[i] = TestCost(results[i])
  OBVIOUS
<1> HIDE DEF g
<1> QED  BY <1>4, <1>7, <1>8

(* A tested rewrite is kept only below the penalty, and a cost of zero     *)
(* means that its test found it equal.                                     *)
LEMMA OutcomeFacts ==
    ASSUME NEW w \in Rewrite, NEW results \in Outcomes[w]
    PROVE  /\ calculateCost(results) \in Nat
           /\ calculateCost(results) = 0 => Equal(results)
           /\ calculateCost(results) < Signal_penalty => ~Crashed(results)
<1>1. results \in Seq(Response)
  BY SearcherAssumption
<1>2. \A i \in DOMAIN results : results[i] \in Response
  BY <1>1
<1>3. Signal_penalty \in Nat \ {0} /\ UINT \in Nat \ {0}
  BY SearcherAssumption
<1>4. calculateCost(results) = TotalCost(results) /\ TotalCost(results) \in Nat
  <2>1. TotalCost(results) \in Nat /\ TotalCost(results) < UINT
    BY <1>1, TotalCostFacts, CostAssumption
  <2> QED  BY <1>3, <2>1 DEF calculateCost
<1>5. ASSUME calculateCost(results) = 0 PROVE Equal(results)
  <2>1. \A i \in DOMAIN results : TestCost(results[i]) = 0
    BY <1>1, <1>4, <1>5, TotalCostFacts
  <2> QED  BY <1>2, <1>3, <2>1 DEF Equal, TestCost, Response
<1>6. ASSUME calculateCost(results) < Signal_penalty PROVE ~Crashed(results)
  <2>1. \A i \in DOMAIN results : TestCost(results[i]) <= TotalCost(results)
    BY <1>1, TotalCostFacts
  <2>2. \A i \in DOMAIN results : results[i].signal # 0 => Signal_penalty <= TotalCost(results)
    BY <2>1 DEF TestCost
  <2> QED  BY <1>3, <1>4, <1>6, <2>2 DEF Crashed
<1> QED  BY <1>4, <1>5, <1>6

(* No latency comes near the end of the unsigned range. *)
LEMMA LatencyFits ==
    ASSUME NEW w \in Rewrite
    PROVE  Latency[w] \in Nat /\ (0 + Latency[w]) % UINT = Latency[w]
  BY SearcherAssumption

LEMMA SearchInitInv == SearchInit => SearchInv
<1> SUFFICES ASSUME SearchInit
             PROVE  SearchInv
    OBVIOUS
<1>1. /\ rewrite \in Rewrite /\ saved \in Rewrite /\ ~pending
      /\ phase = "synthesize" /\ at = "propose" /\ cost # 0
      BY SearcherAssumption DEF SearchInit, Init
<1>2. kept.rewrite = Nothing /\ kept.results = << >>
      BY DEF SearchInit
<1>3. CrashNeverKept
      BY <1>2 DEF CrashNeverKept, Crashed
<1>4. CostIsCurrent
      BY <1>2 DEF CostIsCurrent
<1>5. SynthesizedIsCorrect /\ BestCostAchieved
      BY <1>1 DEF SynthesizedIsCorrect, BestCostAchieved
<1>6. pending = (at = "test")
  <2>1. pending = FALSE
    BY DEF SearchInit, Init
  <2>2. (at = "test") = FALSE
    BY <1>1
  <2> QED  BY <2>1, <2>2
<1> QED
  BY <1>1, <1>3, <1>4, <1>5, <1>6 DEF SearchInv

LEMMA ProposeInv ==
    ASSUME SearchInv, synthesizePropose \/ optimizePropose
    PROVE  SearchInv'
  BY DEF SearchInv, synthesizePropose, optimizePropose, transformRewrite,
     CostIsCurrent, CrashNeverKept, Crashed, SynthesizedIsCorrect, BestCostAchieved

LEMMA SynthesizeTestInv ==
    ASSUME SearchInv, synthesizeTest
    PROVE  SearchInv'
<1>1. PICK results \in Outcomes[rewrite] :
          LET newCost == calculateCost(results) IN
          /\ tested(results)
          /\ \/ newCost < Signal_penalty /\ keep(results, newCost)
             \/ (newCost >= Signal_penalty \/ newCost > cost) /\ reject
      BY DEF synthesizeTest
<1>2. /\ calculateCost(results) = 0 => Equal(results)
      /\ calculateCost(results) < Signal_penalty => ~Crashed(results)
      BY OutcomeFacts DEF SearchInv
<1>3. /\ phase = "synthesize" /\ at = "test" /\ at' = "propose" /\ pending
      /\ phase' = IF cost' = 0 THEN "start" ELSE phase
      /\ UNCHANGED <<bestCorrect, bestCorrectCost>>
      /\ passed' = IF Equal(results) THEN passed \union {rewrite} ELSE passed
      BY <1>1 DEF synthesizeTest, tested, SearchInv
<1>4. CASE keep(results, calculateCost(results)) /\ calculateCost(results) < Signal_penalty
      BY <1>2, <1>3, <1>4, SearcherAssumption
      DEF keep, Accept, SearchInv, CostIsCurrent, CrashNeverKept, Crashed,
          SynthesizedIsCorrect, BestCostAchieved
<1>5. CASE reject
      BY <1>3, <1>5, SearcherAssumption
      DEF reject, Undo, SearchInv, CostIsCurrent, CrashNeverKept, Crashed,
          SynthesizedIsCorrect, BestCostAchieved
<1> QED
  BY <1>1, <1>4, <1>5

LEMMA StartInv ==
    ASSUME SearchInv, startOptimize
    PROVE  SearchInv'
  BY DEF SearchInv, startOptimize, vars, CostIsCurrent, CrashNeverKept, Crashed,
     SynthesizedIsCorrect, BestCostAchieved

LEMMA OptimizeTestInv ==
    ASSUME SearchInv, optimizeTest
    PROVE  SearchInv'
<1>1. PICK maxCost \in maxCosts(cost) : rejectUntested(maxCost) \/ optimizeTested(maxCost)
      BY DEF optimizeTest
<1>2. phase = "optimize" /\ phase' = "optimize"
      BY DEF optimizeTest
<1>3. CASE rejectUntested(maxCost)
      BY <1>2, <1>3 DEF rejectUntested, reject, Undo, SearchInv, CostIsCurrent,
         CrashNeverKept, Crashed, SynthesizedIsCorrect, BestCostAchieved
<1>4. CASE optimizeTested(maxCost)
  <2> DEFINE dist(results) == calculateCost(results)
             newCost(results) == (dist(results) + Latency[rewrite]) % UINT
  <2>1. PICK results \in Outcomes[rewrite] :
            /\ tested(results)
            /\ IF dist(results) < Signal_penalty
                    /\ (newCost(results) <= cost \/ newCost(results) < maxCost)
               THEN keep(results, newCost(results))
               ELSE reject
            /\ IF dist(results) = 0 /\ newCost(results) < bestCorrectCost
               THEN bestCorrectCost' = newCost(results) /\ bestCorrect' = rewrite'
               ELSE UNCHANGED <<bestCorrect, bestCorrectCost>>
        BY <1>4 DEF optimizeTested
  <2>2. /\ dist(results) = 0 => Equal(results)
        /\ dist(results) < Signal_penalty => ~Crashed(results)
        BY OutcomeFacts DEF SearchInv
  <2>3. /\ at = "test" /\ at' = "propose" /\ pending
        /\ passed' = IF Equal(results) THEN passed \union {rewrite} ELSE passed
        BY <2>1 DEF tested, SearchInv
  <2>4. BestCostAchieved'
    <3>1. CASE dist(results) = 0 /\ newCost(results) < bestCorrectCost
      <4>1. bestCorrectCost' = Latency[rewrite]
            BY <2>1, <3>1, SearcherAssumption, LatencyFits DEF SearchInv
      <4>2. rewrite \in passed'
            BY <2>2, <2>3, <3>1
      <4> QED
        BY <4>1, <4>2 DEF BestCostAchieved
    <3>2. CASE UNCHANGED <<bestCorrect, bestCorrectCost>>
          BY <1>2, <2>3, <3>2 DEF SearchInv, BestCostAchieved
    <3> QED
      BY <2>1, <3>1, <3>2
  <2>5. CASE /\ dist(results) < Signal_penalty
             /\ keep(results, newCost(results))
        BY <1>2, <2>2, <2>3, <2>4, <2>5, SearcherAssumption
        DEF keep, Accept, SearchInv, CostIsCurrent, CrashNeverKept, Crashed,
            SynthesizedIsCorrect
  <2>6. CASE reject
        BY <1>2, <2>3, <2>4, <2>6
        DEF reject, Undo, SearchInv, CostIsCurrent, CrashNeverKept, Crashed,
            SynthesizedIsCorrect
  <2> QED
    BY <2>1, <2>5, <2>6
<1> QED
  BY <1>1, <1>3, <1>4

LEMMA StopInv ==
    ASSUME SearchInv, optimizeEnd \/ exit \/ UNCHANGED searchVars
    PROVE  SearchInv'
  BY DEF SearchInv, optimizeEnd, exit, searchVars, search, vars, CostIsCurrent,
     CrashNeverKept, Crashed, SynthesizedIsCorrect, BestCostAchieved

(* The invariant holds throughout the search. *)
THEOREM SearchInvariance == SearchSpec => []SearchInv
<1>1. SearchInv /\ [SearchNext]_searchVars => SearchInv'
      BY ProposeInv, SynthesizeTestInv, StartInv, OptimizeTestInv, StopInv DEF SearchNext
<1> QED
  BY <1>1, SearchInitInv, PTL DEF SearchSpec

(* The search stands on the rewrite whose test set its cost. *)
THEOREM CostAlwaysCurrent == SearchSpec => []CostIsCurrent
<1>1. SearchInv => CostIsCurrent
      BY DEF SearchInv
<1> QED
  BY <1>1, SearchInvariance, PTL

(* No rewrite that crashed a test is ever kept. *)
THEOREM CrashIsNeverKept == SearchSpec => []CrashNeverKept
<1>1. SearchInv => CrashNeverKept
      BY DEF SearchInv
<1> QED
  BY <1>1, SearchInvariance, PTL

(* synthesize hands on nothing but a rewrite that passed every test. *)
THEOREM SynthesizedAlwaysCorrect == SearchSpec => []SynthesizedIsCorrect
<1>1. SearchInv => SynthesizedIsCorrect
      BY DEF SearchInv
<1> QED
  BY <1>1, SearchInvariance, PTL

(* The best cost is always that of a rewrite that passed every test. *)
THEOREM BestCostAlwaysAchieved == SearchSpec => []BestCostAchieved
<1>1. SearchInv => BestCostAchieved
      BY DEF SearchInv
<1> QED
  BY <1>1, SearchInvariance, PTL

LEMMA SearchTypeInit == SearchInit => SearchTypeOK
<1>1. SearchInit => cost = 10000 /\ cost \in Nat /\ Itr = 0 /\ 0 \in 0 .. MaxItrs
  BY SearcherAssumption DEF SearchInit
<1>2. SearchInit => rewrite \in Rewrite /\ saved \in Rewrite /\ pending \in BOOLEAN
  <2>1. SearchInit => rewrite \in Rewrite /\ saved \in Rewrite
    BY SearchInitInv DEF SearchInv
  <2>2. SearchInit => pending = FALSE
    BY DEF SearchInit, Init
  <2>3. FALSE \in BOOLEAN
    OBVIOUS
  <2> QED  BY <2>1, <2>2, <2>3, Zenon
<1> QED  BY <1>1, <1>2 DEF SearchInit, SearchTypeOK

LEMMA SearchTypeStep ==
    ASSUME SearchInv, SearchTypeOK, [SearchNext]_searchVars
    PROVE  SearchTypeOK'
<1> USE SearcherAssumption DEF SearchTypeOK
<1>1. CASE synthesizePropose
  BY <1>1 DEF synthesizePropose, transformRewrite
<1>2. CASE optimizePropose
  <2>1. Itr' \in 0 .. MaxItrs
    <3>1. Itr \in 0 .. MaxItrs /\ Itr < MaxItrs /\ Itr' = Itr + 1
      BY <1>2 DEF optimizePropose
    <3> QED  BY <3>1
  <2> QED  BY <1>2, <2>1 DEF optimizePropose, transformRewrite
<1>3. CASE synthesizeTest
  <2>1. PICK results \in Outcomes[rewrite] :
           /\ tested(results)
           /\ keep(results, calculateCost(results)) \/ reject
           /\ phase' = IF cost' = 0 THEN "start" ELSE phase
           /\ UNCHANGED <<Itr, bestCorrect, bestCorrectCost>>
    BY <1>3 DEF synthesizeTest
  <2>2. calculateCost(results) \in Nat
    BY OutcomeFacts
  <2>3. CASE keep(results, calculateCost(results))
    BY <2>1, <2>2, <2>3 DEF keep, tested, Accept
  <2>4. CASE reject
    BY <2>1, <2>4 DEF reject, tested, Undo
  <2> QED  BY <2>1, <2>3, <2>4
<1>4. CASE startOptimize
  BY <1>4 DEF startOptimize, vars
<1>5. CASE optimizeTest
  <2>1. PICK maxCost \in maxCosts(cost) : rejectUntested(maxCost) \/ optimizeTested(maxCost)
    BY <1>5 DEF optimizeTest
  <2>2. phase' = phase /\ Itr' = Itr
    BY <1>5 DEF optimizeTest
  <2>3. CASE rejectUntested(maxCost)
    BY <2>2, <2>3 DEF rejectUntested, reject, Undo
  <2>4. CASE optimizeTested(maxCost)
    <3> DEFINE newCost(results) == (calculateCost(results) + Latency[rewrite]) % UINT
    <3>1. PICK results \in Outcomes[rewrite] :
             /\ tested(results)
             /\ keep(results, newCost(results)) \/ reject
             /\ \/ bestCorrectCost' = newCost(results) /\ bestCorrect' = rewrite'
                \/ UNCHANGED <<bestCorrect, bestCorrectCost>>
      BY <2>4 DEF optimizeTested
    <3>2. newCost(results) \in Nat
      BY OutcomeFacts
    <3> HIDE DEF newCost
    <3>3. CASE keep(results, newCost(results))
      BY <2>2, <3>1, <3>2, <3>3 DEF keep, tested, Accept
    <3>4. CASE reject
      BY <2>2, <3>1, <3>2, <3>4 DEF reject, tested, Undo
    <3> QED  BY <3>1, <3>3, <3>4
  <2> QED  BY <2>1, <2>3, <2>4
<1>6. CASE optimizeEnd \/ exit \/ UNCHANGED searchVars
  BY <1>6 DEF optimizeEnd, exit, searchVars, search, vars
<1> QED  BY <1>1, <1>2, <1>3, <1>4, <1>5, <1>6 DEF SearchNext

(* Costs and iterations stay numbers, and what is kept, remembered and     *)
(* recorded as passed are rewrites.                                        *)
THEOREM SearchTypeCorrect == SearchSpec => []SearchTypeOK
BY SearchTypeInit, SearchTypeStep, SearchInvariance, PTL DEF SearchSpec

(* The search drives its Transformation as the contract requires. *)
THEOREM TransformationUsed == SearchSpec => UsesTransformation
<1>1. SearchInit => Init
      BY DEF SearchInit
<1>2. ASSUME SearchInv, [SearchNext]_searchVars
      PROVE  [Next]_vars
  <2>1. CASE synthesizePropose \/ optimizePropose
        BY <1>2, <2>1 DEF SearchInv, Next, Propose, synthesizePropose,
           optimizePropose, transformRewrite
  <2>2. CASE synthesizeTest
        BY <2>2 DEF Next, synthesizeTest, keep, reject
  <2>3. CASE optimizeTest
        BY <2>3 DEF Next, optimizeTest, rejectUntested, optimizeTested, keep, reject
  <2>4. CASE startOptimize \/ optimizeEnd \/ exit \/ UNCHANGED searchVars
        BY <2>4 DEF startOptimize, optimizeEnd, exit, searchVars
  <2> QED
    BY <1>2, <2>1, <2>2, <2>3, <2>4 DEF SearchNext
<1> QED
  BY <1>1, <1>2, SearchInvariance, PTL DEF SearchSpec, UsesTransformation, Spec
===============================================================================
