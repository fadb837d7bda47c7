--------------------------------- MODULE Replay ---------------------------------
(***************************************************************************)
(* The server and the replay client together, from the start of the server *)
(* to the end of the search (ug.cpp).                                      *)
(***************************************************************************)
EXTENDS Server, ReplayClient

vars == <<wire, server, clientVars>>

Init == WireInit /\ ServerInit /\ ClientInit

(* main sleeps a second for the server to get ready ("FIXME synchronize"), *)
(* which may be too short: then the client wakes at any time.              *)
Wake ==
    /\ \/ "early" \in Faults
       \/ /\ parent = "testcase" /\ invo = MaxCalls
          /\ \A w \in Worker : worker[w] # "sem"
    /\ wake

ClientNext == Wake \/ awake

Next ==
    \/ ServerNext /\ UNCHANGED clientVars
    \/ ClientNext /\ UNCHANGED server

(* Rewrites have no loops and the client's compiler ends, so every process *)
(* that can take a step takes one.  Only main's return is left open: the   *)
(* search may go on for as long as there are tests.                        *)
Fairness == ServerFairness /\ WF_vars(ClientNext /\ UNCHANGED server)

Spec == Init /\ [][Next]_vars /\ Fairness

-------------------------------------------------------------------------------
TypeOK == WireTypeOK /\ ServerTypeOK /\ ClientTypeOK

(* No child compares a rewrite's state with the target's before the parent *)
(* has copied the target's, and none is left when its worker has ended.    *)
ReferencePublished ==
    \A w \in Worker :
        child[w] # "none" => w \in posted /\ worker[w] = "waiting"

(* The sockets are streams, without message boundaries: a read returns one *)
(* path, and a recv one response, because each way no second one is ever   *)
(* sent before the first is consumed.                                      *)
MessageBoundaries ==
    \A w \in Worker : Len(toWorker[w]) <= 1 /\ Len(toClient[w]) <= 1

(* The library that a child is about to load or runs is that of the        *)
(* current test, and the client has not removed it yet.                    *)
LibraryKept ==
    \A w \in Worker :
        /\ child[w] \in {"load", "run"} => client \in {"sending", "receiving"} /\ msg[w] = test
        /\ child[w] = "run" => msg[w] \in libs

(* At a kill message no child of the worker is still running a test, so    *)
(* that nobody is left behind.                                             *)
NoOrphans ==
    client \in {"idle", "killing", "killed"} =>
        \A w \in Worker : child[w] \notin {"load", "run"}

(* What the search gets from testRewrite is, in the order of the workers,  *)
(* what the rewrite of that very test did in each of them.                 *)
Promise == INSTANCE AbstractReplay WITH
    Verdict <- [c \in Worker \X Test |-> IF c \in Crashes THEN "crash" ELSE "report"],
    status <- IF client \in {"sending", "receiving"} THEN "testing"
              ELSE IF Ended THEN "ended" ELSE "idle",
    workers <- Workers,
    results <- IF client \in {"idle", "killing", "killed"} THEN TestResults ELSE <<>>

KeepsPromise == Promise!Spec

(* Every test that the client begins is answered, or ends the program. *)
TestAnswered == client = "sending" ~> client \notin {"sending", "receiving"}

(* Every worker the client was connected to ends once the client has, in   *)
(* whichever way: by the kill message or by the end of the stream.         *)
ConnectedWorkersEnd ==
    \A w \in Worker :
        Ended /\ sock[w] = "closed" ~> worker[w] = "exited"

(* The client "is responsible for establishing connection with the server" *)
(* (replay_cli.h).                                                         *)
Connects == client # "cannot connect"

(* The client's destructor kills "all the workers" (replay_cli.cpp). *)
AllWorkersKilled ==
    client = "returned" ~> \A w \in Worker : worker[w] \in {"none", "exited"}
===============================================================================
