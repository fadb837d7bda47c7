---------------------------------- MODULE Wire ----------------------------------
(***************************************************************************)
(* What the replay client (replay_cli.cpp) and the server (server.c) share:*)
(* the file of worker addresses, one stream socket per worker, and the     *)
(* libraries that the client compiles rewrites to.                         *)
(*                                                                         *)
(* A worker is named by the invocation of the target that it was forked    *)
(* for, a library by the number of the test it was compiled for.           *)
(***************************************************************************)
EXTENDS Naturals, Sequences, SequencesExt

CONSTANTS
    MAX_WORKER,         \* 32
    MaxTests,           \* bound: the tests that the search asks for
    Crashes,            \* <<w, t>>: the rewrite of test t crashes in worker w
    Faults              \* what may go wrong: "early", "socket", "compile", "fork"

Worker == 1 .. MAX_WORKER
Test == 1 .. MaxTests
KILL == 0               \* the one-byte message; no test has this number

ASSUME WireAssumption ==
    /\ MAX_WORKER \in Nat \ {0}
    /\ MaxTests \in Nat \ {0}
    /\ Crashes \subseteq Worker \X Test
    /\ Faults \subseteq {"early", "socket", "compile", "fork"}

(* struct response: "report" has the distances, "crash" is a report with   *)
(* the signal set, "error" is not a success.                               *)
Response == [test : Test, what : {"report", "crash", "error"}]

VARIABLES
    workerFile,         \* worker-data.txt: the workers, in the order of their lines
    sock,               \* of each worker's socket, whether it listens, and the client's end
    toWorker, toClient, \* what is in each stream
    libs                \* the libraries on disk

wire == <<workerFile, sock, toWorker, toClient, libs>>

WireInit ==
    /\ workerFile = <<>>
    /\ sock = [w \in Worker |-> "none"]
    /\ toWorker = [w \in Worker |-> <<>>]
    /\ toClient = [w \in Worker |-> <<>>]
    /\ libs = {}

WireTypeOK ==
    /\ workerFile \in Seq(Worker)
    /\ sock \in [Worker -> {"none", "listening", "connected", "closed"}]
    /\ toWorker \in [Worker -> Seq(Test \union {KILL})]
    /\ toClient \in [Worker -> Seq(Response)]
    /\ libs \subseteq Test
===============================================================================
