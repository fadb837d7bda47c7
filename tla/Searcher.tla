-------------------------------- MODULE Searcher --------------------------------
(***************************************************************************)
(* class Searcher (search.h, search.cpp) and the main function that drives *)
(* it (ug.cpp): synthesize looks for a rewrite that every test finds equal *)
(* to the target, optimize for a shorter one.                              *)
(*                                                                         *)
(* The rewrite is held by a Transformation, used here through its contract *)
(* (AbstractTransformation, which Transformation is shown to implement); a *)
(* test of a rewrite is one of the vectors of responses that the replay    *)
(* client may return for it.                                               *)
(***************************************************************************)
EXTENDS AbstractTransformation, Integers, Sequences, FiniteSetsExt

CONSTANTS
    Outcomes,           \* rewrite -> the response vectors its tests may give
    Latency,            \* rewrite -> calculateLatency: five times its size
    Signal_penalty,     \* 1000000: what a crashing test adds to the cost
    UINT,               \* 2^32: costs are unsigned
    MaxItrs,            \* 2000: the iterations of optimize
    Empty,              \* the rewrite of an empty block, which main starts from
    Nothing             \* no rewrite

Response == [success : BOOLEAN, signal : {0, 1}, dist : Nat]

ASSUME SearcherAssumption ==
    /\ Outcomes \in [Rewrite -> SUBSET Seq(Response)]
    /\ Latency \in [Rewrite -> 0 .. UINT - 1]
    /\ Signal_penalty \in Nat \ {0} /\ UINT \in Nat \ {0} /\ MaxItrs \in Nat
    /\ Empty \in Rewrite
    /\ Nothing \notin Rewrite

VARIABLES
    phase,              \* where main is
    at,                 \* within an iteration: before the proposal or before its test
    cost,               \* of the rewrite that the search stands on
    Itr,                \* the iterations of optimize begun
    bestCorrect, bestCorrectCost,
    kept,               \* the last accepted rewrite, and what its test said (history)
    passed              \* the rewrites that every test found equal (history)

search == <<phase, at, cost, Itr, bestCorrect, bestCorrectCost, kept, passed>>
searchVars == <<vars, search>>

-------------------------------------------------------------------------------
(* The client exits when a response is an error; otherwise distances are   *)
(* added up, a crash counting as the penalty.                              *)
Failed(results) == \E i \in DOMAIN results : ~results[i].success

TestCost(result) == IF result.signal # 0 THEN Signal_penalty ELSE result.dist

TotalCost(results) == MapThenSumSet(LAMBDA i : TestCost(results[i]), DOMAIN results)

calculateCost(results) == TotalCost(results) % UINT

Equal(results) ==
    \A i \in DOMAIN results : results[i].signal = 0 /\ results[i].dist = 0

Crashed(results) == \E i \in DOMAIN results : results[i].signal # 0

(* No sum wraps: no test compares more than some 100000 bytes.             *)
ASSUME CostAssumption ==
    \A w \in Rewrite : \A results \in Outcomes[w] : TotalCost(results) < UINT

(* The values of cost - log(r) / beta: beta is 4 and the smallest draw     *)
(* above 0 is 2^-31, so the draw adds 5 at most.  Drawing 0 converts an    *)
(* infinity to unsigned, which gives an end of the range.                  *)
maxCosts(c) == {c + slack : slack \in 0 .. 5} \union {0, UINT - 1}

-------------------------------------------------------------------------------
SearchInit ==
    /\ Init
    /\ rewrite = Empty
    /\ phase = "synthesize"
    /\ at = "propose"
    /\ cost = 10000
    /\ Itr = 0
    /\ bestCorrect = Nothing
    /\ bestCorrectCost = 0
    /\ kept = [rewrite |-> Nothing, results |-> <<>>]
    /\ passed = {}

(* transformRewrite, whichever edit it draws. *)
transformRewrite ==
    /\ at = "propose"
    /\ at' = "test"
    /\ rewrite' \in Rewrite
    /\ saved' = rewrite
    /\ pending' = TRUE
    /\ UNCHANGED <<phase, cost, bestCorrect, bestCorrectCost, kept, passed>>

(* testRewrite and calculateCost, on the way to a decision. *)
tested(results) ==
    /\ at = "test"
    /\ at' = "propose"
    /\ results \in Outcomes[rewrite]
    /\ ~Failed(results)
    /\ passed' = IF Equal(results) THEN passed \union {rewrite} ELSE passed

(* Mutant: Undo where Accept is meant. *)
keepUndoes(results, newCost) ==
    /\ Undo
    /\ cost' = newCost
    /\ kept' = [rewrite |-> rewrite, results |-> results]

keep(results, newCost) ==
    /\ Accept
    /\ cost' = newCost
    /\ kept' = [rewrite |-> rewrite, results |-> results]

(* Mutant: Accept where Undo is meant. *)
rejectAccepts == Accept /\ UNCHANGED <<cost, kept>>

reject == Undo /\ UNCHANGED <<cost, kept>>

(* A response that is an error: exit(1), whatever the search stands on. *)
exit ==
    /\ phase \in {"synthesize", "optimize"}
    /\ at = "test"
    /\ \E results \in Outcomes[rewrite] : Failed(results)
    /\ phase' = "exited"
    /\ UNCHANGED <<vars, at, cost, Itr, bestCorrect, bestCorrectCost, kept, passed>>

-------------------------------------------------------------------------------
synthesizePropose ==
    /\ phase = "synthesize"
    /\ transformRewrite
    /\ UNCHANGED Itr

(* Mutant: a crash is but a high cost. *)
synthesizeTestCrashes ==
    /\ phase = "synthesize"
    /\ \E results \in Outcomes[rewrite] :
          LET newCost == calculateCost(results) IN
          /\ tested(results)
          /\ \/ keep(results, newCost)
             \/ newCost > cost /\ reject
    /\ phase' = IF cost' = 0 THEN "start" ELSE phase
    /\ UNCHANGED <<Itr, bestCorrect, bestCorrectCost>>

(* A worse rewrite is accepted with a probability that is never certain    *)
(* and, but for ratios above 186, never zero; both outcomes are allowed.   *)
(* A cost of zero ends the loop, and main goes on to optimize.             *)
synthesizeTest ==
    /\ phase = "synthesize"
    /\ \E results \in Outcomes[rewrite] :
          LET newCost == calculateCost(results) IN
          /\ tested(results)
          /\ \/ newCost < Signal_penalty /\ keep(results, newCost)
             \/ (newCost >= Signal_penalty \/ newCost > cost) /\ reject
    /\ phase' = IF cost' = 0 THEN "start" ELSE phase
    /\ UNCHANGED <<Itr, bestCorrect, bestCorrectCost>>

(* optimize's first statements take the rewrite it starts from for the best. *)
startOptimize ==
    /\ phase = "start"
    /\ phase' = "optimize"
    /\ cost' = 100000
    /\ bestCorrect' = rewrite
    /\ bestCorrectCost' = Latency[rewrite]
    /\ UNCHANGED <<vars, at, Itr, kept, passed>>

-------------------------------------------------------------------------------
(* Mutant: an iteration too many. *)
optimizeProposeOnce ==
    /\ phase = "optimize"
    /\ Itr <= MaxItrs
    /\ transformRewrite
    /\ Itr' = Itr + 1

(* Mutant: iterations are not counted. *)
optimizeProposeUncounted ==
    /\ phase = "optimize"
    /\ Itr < MaxItrs
    /\ transformRewrite
    /\ UNCHANGED Itr

optimizePropose ==
    /\ phase = "optimize"
    /\ Itr < MaxItrs
    /\ transformRewrite
    /\ Itr' = Itr + 1

(* Mutant: `continue` without the Undo. *)
rejectUntestedKeeps(maxCost) ==
    /\ at = "test"
    /\ maxCost < Latency[rewrite]
    /\ at' = "propose"
    /\ UNCHANGED <<vars, cost, kept, bestCorrect, bestCorrectCost, passed>>

(* Too long to be accepted at any distance: undone without a test. *)
rejectUntested(maxCost) ==
    /\ at = "test"
    /\ maxCost < Latency[rewrite]
    /\ at' = "propose"
    /\ reject
    /\ UNCHANGED <<bestCorrect, bestCorrectCost, passed>>

(* Mutant: the best cost does not ask for a distance of zero. *)
optimizeTestedAnyDistance(maxCost) ==
    /\ maxCost >= Latency[rewrite]
    /\ \E results \in Outcomes[rewrite] :
          LET dist == calculateCost(results)
              newCost == (dist + Latency[rewrite]) % UINT
          IN
          /\ tested(results)
          /\ IF dist < Signal_penalty /\ (newCost <= cost \/ newCost < maxCost)
             THEN keep(results, newCost)
             ELSE reject
          /\ IF newCost < bestCorrectCost
             THEN bestCorrectCost' = newCost /\ bestCorrect' = rewrite'
             ELSE UNCHANGED <<bestCorrect, bestCorrectCost>>

(* The decision comes first, so that the rewrite that may become the best  *)
(* one is the rewrite that an Undo has left in place.                      *)
optimizeTested(maxCost) ==
    /\ maxCost >= Latency[rewrite]
    /\ \E results \in Outcomes[rewrite] :
          LET dist == calculateCost(results)
              newCost == (dist + Latency[rewrite]) % UINT
          IN
          /\ tested(results)
          /\ IF dist < Signal_penalty /\ (newCost <= cost \/ newCost < maxCost)
             THEN keep(results, newCost)
             ELSE reject
          /\ IF dist = 0 /\ newCost < bestCorrectCost
             THEN bestCorrectCost' = newCost /\ bestCorrect' = rewrite'
             ELSE UNCHANGED <<bestCorrect, bestCorrectCost>>

optimizeTest ==
    /\ phase = "optimize"
    /\ \E maxCost \in maxCosts(cost) :
          rejectUntested(maxCost) \/ optimizeTested(maxCost)
    /\ UNCHANGED <<phase, Itr>>

optimizeEnd ==
    /\ phase = "optimize"
    /\ at = "propose"
    /\ Itr = MaxItrs
    /\ phase' = "done"
    /\ UNCHANGED <<vars, at, cost, Itr, bestCorrect, bestCorrectCost, kept, passed>>

SearchNext ==
    \/ synthesizePropose \/ synthesizeTest \/ startOptimize
    \/ optimizePropose \/ optimizeTest \/ optimizeEnd
    \/ exit

(* One thread, none of whose steps waits for another. *)
SearchSpec == SearchInit /\ [][SearchNext]_searchVars /\ WF_searchVars(SearchNext)

-------------------------------------------------------------------------------
SearchTypeOK ==
    /\ rewrite \in Rewrite /\ saved \in Rewrite /\ pending \in BOOLEAN
    /\ phase \in {"synthesize", "start", "optimize", "done", "exited"}
    /\ at \in {"propose", "test"}
    /\ cost \in Nat
    /\ Itr \in 0 .. MaxItrs
    /\ bestCorrect \in Rewrite \union {Nothing}
    /\ bestCorrectCost \in Nat
    /\ kept.rewrite \in Rewrite \union {Nothing}
    /\ passed \subseteq Rewrite

(* The search settles every proposal before the next one, in both loops    *)
(* and on the path that rejects without a test: the order Transformation   *)
(* relies on, which has the undo state of one proposal only.               *)
UsesTransformation == Spec

(* The rewrite the search stands on, or goes back to if the proposal is    *)
(* undone, is the one whose test set the cost that the next rewrites are   *)
(* compared with.                                                          *)
CostIsCurrent ==
    kept.rewrite # Nothing =>
        /\ kept.rewrite = IF pending THEN saved ELSE rewrite
        /\ phase = "synthesize" => cost = calculateCost(kept.results)

(* A rewrite that crashed in any test is never kept, whatever the random   *)
(* draws: a crash costs more than any distance is worth.                   *)
CrashNeverKept == ~Crashed(kept.results)

(* What synthesize hands to optimize, which assumes it (search.h: "with    *)
(* the assumption that the function starts being correct"), is a rewrite   *)
(* that every test found equal to the target.                              *)
SynthesizedIsCorrect == phase = "start" => rewrite \in passed

(* The best cost, which decides whether a correct rewrite is kept for the  *)
(* end, is the latency of a rewrite that every test found equal.           *)
BestCostAchieved ==
    phase \in {"optimize", "done"} =>
        \E found \in passed : bestCorrectCost = Latency[found]

(* What main prints as the final rewrite was found equal by every test.    *)
BestCorrectIsCorrect == phase = "done" => bestCorrect \in passed

(* optimize comes to an end, however its proposals fare. *)
OptimizeEnds == phase = "optimize" ~> phase \in {"done", "exited"}
===============================================================================
