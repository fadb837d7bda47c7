------------------------------ MODULE ReplayClient ------------------------------
(***************************************************************************)
(* class ReplayClient (replay_cli.h, replay_cli.cpp) in the ug process:    *)
(* connect to the workers, test rewrites one at a time on all of them, and *)
(* tell the workers to end.                                                *)
(***************************************************************************)
EXTENDS Wire

VARIABLES
    client,             \* where the client is
    Workers,            \* the workers it is connected to
    next,               \* the line, or the element of Workers, it is at
    test,               \* the tests begun
    TestResults         \* the responses of the current test so far

clientVars == <<client, Workers, next, test, TestResults>>

ClientInit ==
    /\ client = "sleeping"
    /\ Workers = <<>>
    /\ next = 1
    /\ test = 0
    /\ TestResults = <<>>

-------------------------------------------------------------------------------
(* The process ends, whether by exit, by a crash or by return from main:   *)
(* its ends of the sockets are closed.                                     *)
leave(how) ==
    /\ client' = how
    /\ sock' = [w \in Worker |-> IF sock[w] = "connected" THEN "closed" ELSE sock[w]]

wake ==
    /\ client = "sleeping"
    /\ client' = "connecting"
    /\ UNCHANGED <<wire, Workers, next, test, TestResults>>

(* A line of the worker file: connect to its socket, or exit. *)
connectToAddr ==
    /\ client = "connecting"
    /\ next <= Len(workerFile)
    /\ LET w == workerFile[next] IN
       \/ /\ sock[w] = "listening"
          /\ sock' = [sock EXCEPT ![w] = "connected"]
          /\ Workers' = Append(Workers, w)
          /\ next' = next + 1
          /\ UNCHANGED client
       \/ /\ sock[w] # "listening"
          /\ leave("cannot connect")
          /\ UNCHANGED <<Workers, next>>
    /\ UNCHANGED <<workerFile, toWorker, toClient, libs, test, TestResults>>

(* No line left, for now: the file is not read again. *)
connected ==
    /\ client = "connecting"
    /\ next > Len(workerFile)
    /\ client' = "idle"
    /\ UNCHANGED <<wire, Workers, next, test, TestResults>>

-------------------------------------------------------------------------------
(* testRewrite up to runAllTests.  instrument takes Workers[0], which may  *)
(* not exist; the exit status of cc, which may not leave a library, is not *)
(* looked at.                                                              *)
compile ==
    /\ client = "idle"
    /\ test < MaxTests
    /\ \/ /\ Workers = <<>>
          /\ leave("crashed")
          /\ UNCHANGED <<libs, next, test, TestResults>>
       \/ /\ Workers # <<>>
          /\ client' = "sending"
          /\ test' = test + 1
          /\ \/ libs' = libs \union {test'}
             \/ "compile" \in Faults /\ UNCHANGED libs
          /\ next' = 1
          /\ TestResults' = <<>>
          /\ UNCHANGED sock
    /\ UNCHANGED <<workerFile, toWorker, toClient, Workers>>

(* send to Workers[next]; after the last, the client goes on to `then`. *)
send(m, then) ==
    /\ toWorker' = [toWorker EXCEPT ![Workers[next]] = Append(@, m)]
    /\ IF next < Len(Workers)
       THEN next' = next + 1 /\ UNCHANGED client
       ELSE next' = 1 /\ client' = then
    /\ UNCHANGED <<workerFile, sock, toClient, libs, Workers, test, TestResults>>

runTest == client = "sending" /\ send(test, "receiving")

(* Mutant: the wait for a response gives up. *)
waitTestTimesOut ==
    /\ client = "receiving"
    /\ next <= Len(Workers)
    /\ TestResults' = Append(TestResults, [test |-> test, what |-> "crash"])
    /\ next' = next + 1
    /\ UNCHANGED <<wire, client, Workers, test>>

waitTest ==
    /\ client = "receiving"
    /\ next <= Len(Workers)
    /\ LET w == Workers[next] IN
       /\ toClient[w] # <<>>
       /\ TestResults' = Append(TestResults, Head(toClient[w]))
       /\ toClient' = [toClient EXCEPT ![w] = Tail(@)]
    /\ next' = next + 1
    /\ UNCHANGED <<workerFile, sock, toWorker, libs, client, Workers, test>>

(* Mutant: the last response is not waited for. *)
finishEarly ==
    /\ client = "receiving"
    /\ next >= Len(Workers)
    /\ libs' = libs \ {test}
    /\ \/ /\ \A i \in DOMAIN TestResults : TestResults[i].what # "error"
          /\ client' = "idle"
          /\ UNCHANGED sock
       \/ /\ \E i \in DOMAIN TestResults : TestResults[i].what = "error"
          /\ leave("failed")
    /\ UNCHANGED <<workerFile, toWorker, toClient, Workers, next, test, TestResults>>

(* All responses are in: remove the library and return them to the search, *)
(* which exits if one is an error.                                         *)
finish ==
    /\ client = "receiving"
    /\ next > Len(Workers)
    /\ libs' = libs \ {test}
    /\ \/ /\ \A i \in DOMAIN TestResults : TestResults[i].what # "error"
          /\ client' = "idle"
          /\ UNCHANGED sock
       \/ /\ \E i \in DOMAIN TestResults : TestResults[i].what = "error"
          /\ leave("failed")
    /\ UNCHANGED <<workerFile, toWorker, toClient, Workers, next, test, TestResults>>

-------------------------------------------------------------------------------
(* main returns after some test: the destructor runs. *)
destroy ==
    /\ client = "idle"
    /\ test > 0
    /\ client' = "killing"
    /\ next' = 1
    /\ UNCHANGED <<wire, Workers, test, TestResults>>

killAllWorkers == client = "killing" /\ send(KILL, "killed")

return ==
    /\ client = "killed"
    /\ leave("returned")
    /\ UNCHANGED <<workerFile, toWorker, toClient, libs, Workers, next, test, TestResults>>

Ended == client \in {"cannot connect", "crashed", "failed", "returned"}

awake ==
    \/ connectToAddr \/ connected \/ compile \/ runTest \/ waitTest \/ finish
    \/ destroy \/ killAllWorkers \/ return

ClientTypeOK ==
    /\ client \in {"sleeping", "connecting", "idle", "sending", "receiving", "killing",
                   "killed", "cannot connect", "crashed", "failed", "returned"}
    /\ Workers \in Seq(Worker)
    /\ next \in Nat
    /\ test \in 0 .. MaxTests
    /\ TestResults \in Seq(Response)
===============================================================================
