--------------------------------- MODULE Server ---------------------------------
(***************************************************************************)
(* server.c: the testcase, linked with spawn_impl in front of its target,  *)
(* forks a worker per invocation; a worker tests rewrites on the state     *)
(* that its invocation started in, each in a child of its own.             *)
(***************************************************************************)
EXTENDS Wire

CONSTANT MaxCalls       \* bound: the invocations that the testcase makes

ASSUME MaxCallsAssumption == MaxCalls \in Nat

VARIABLES
    invo,               \* spawn_impl's count of invocations
    parent,             \* where the testcase's process is
    posted,             \* the workers whose semaphore is up: the target's output is copied
    worker,             \* where each worker is
    child,              \* where each worker's child is
    msg                 \* the library each worker read the path of

server == <<invo, parent, posted, worker, child, msg>>

ServerInit ==
    /\ invo = 0
    /\ parent = "testcase"
    /\ posted = {}
    /\ worker = [w \in Worker |-> "none"]
    /\ child = [w \in Worker |-> "none"]
    /\ msg = [w \in Worker |-> KILL]

-------------------------------------------------------------------------------
(* An invocation of the target up to the fork.  A fork that fails takes    *)
(* the branch of the parent, like one that succeeds.                       *)
spawn ==
    /\ parent = "testcase"
    /\ invo < MaxCalls
    /\ invo' = invo + 1
    /\ \/ /\ invo' <= MAX_WORKER
          /\ parent' = "spawned"
          /\ \/ worker' = [worker EXCEPT ![invo'] = "sem"]
             \/ "fork" \in Faults /\ UNCHANGED worker
       \/ /\ invo' > MAX_WORKER
          /\ parent' = "target"
          /\ UNCHANGED worker
    /\ UNCHANGED <<wire, posted, child, msg>>

dump_worker_data ==
    /\ parent = "spawned"
    /\ parent' = "target"
    /\ workerFile' = Append(workerFile, invo)
    /\ UNCHANGED <<sock, toWorker, toClient, libs, invo, posted, worker, child, msg>>

(* The target's own run, the copies of the state it left, and sem_post on  *)
(* the semaphore of this invocation, which may have no worker.             *)
target ==
    /\ parent = "target"
    /\ parent' = "testcase"
    /\ posted' = posted \union ({invo} \intersect Worker)
    /\ UNCHANGED <<wire, invo, worker, child, msg>>

-------------------------------------------------------------------------------
moveWorker(w, from, to) ==
    /\ worker[w] = from
    /\ worker' = [worker EXCEPT ![w] = to]

(* Mutant: the semaphore starts at one. *)
listenAtOnce(w) ==
    /\ \/ /\ moveWorker(w, "sem", "listening")
          /\ sock' = [sock EXCEPT ![w] = "listening"]
       \/ /\ "socket" \in Faults
          /\ moveWorker(w, "sem", "exited")
          /\ UNCHANGED sock
    /\ UNCHANGED <<workerFile, toWorker, toClient, libs, invo, parent, posted, child, msg>>

(* sem_wait, then socket, bind and listen, any of which may fail. *)
listen(w) ==
    /\ w \in posted
    /\ \/ /\ moveWorker(w, "sem", "listening")
          /\ sock' = [sock EXCEPT ![w] = "listening"]
       \/ /\ "socket" \in Faults
          /\ moveWorker(w, "sem", "exited")
          /\ UNCHANGED sock
    /\ UNCHANGED <<workerFile, toWorker, toClient, libs, invo, parent, posted, child, msg>>

(* A connection that the client has closed meanwhile is accepted too. *)
accept(w) ==
    /\ sock[w] \in {"connected", "closed"}
    /\ moveWorker(w, "listening", "reading")
    /\ UNCHANGED <<wire, invo, parent, posted, child, msg>>

(* Mutant: only a read of nothing ends the worker. *)
readPathAny(w) ==
    /\ toWorker[w] # <<>>
    /\ moveWorker(w, "reading", "waiting")
    /\ msg' = [msg EXCEPT ![w] = Head(toWorker[w])]
    /\ toWorker' = [toWorker EXCEPT ![w] = Tail(@)]
    /\ \/ child' = [child EXCEPT ![w] = "load"]
       \/ "fork" \in Faults /\ child' = [child EXCEPT ![w] = "unforked"]
    /\ UNCHANGED <<workerFile, sock, toClient, libs, invo, parent, posted>>

(* The read of a path and the fork of the child that is to load it. *)
readPath(w) ==
    /\ toWorker[w] # <<>> /\ Head(toWorker[w]) # KILL
    /\ moveWorker(w, "reading", "waiting")
    /\ msg' = [msg EXCEPT ![w] = Head(toWorker[w])]
    /\ toWorker' = [toWorker EXCEPT ![w] = Tail(@)]
    /\ \/ child' = [child EXCEPT ![w] = "load"]
       \/ "fork" \in Faults /\ child' = [child EXCEPT ![w] = "unforked"]
    /\ UNCHANGED <<workerFile, sock, toClient, libs, invo, parent, posted>>

(* Mutant: the end of the stream does not end the worker. *)
readKillOnly(w) ==
    /\ moveWorker(w, "reading", "exited")
    /\ toWorker[w] # <<>> /\ Head(toWorker[w]) = KILL
    /\ toWorker' = [toWorker EXCEPT ![w] = Tail(@)]
    /\ UNCHANGED <<workerFile, sock, toClient, libs, invo, parent, posted, child, msg>>

(* A read of one byte, or of none when the client is gone: the worker ends. *)
readKill(w) ==
    /\ moveWorker(w, "reading", "exited")
    /\ \/ /\ toWorker[w] # <<>> /\ Head(toWorker[w]) = KILL
          /\ toWorker' = [toWorker EXCEPT ![w] = Tail(@)]
       \/ /\ toWorker[w] = <<>> /\ sock[w] = "closed"
          /\ UNCHANGED toWorker
    /\ UNCHANGED <<workerFile, sock, toClient, libs, invo, parent, posted, child, msg>>

-------------------------------------------------------------------------------
respond(w, what) ==
    toClient' = [toClient EXCEPT ![w] = Append(@, [test |-> msg[w], what |-> what])]

(* dlopen and dlsym; without the library the child answers and exits 0. *)
load(w) ==
    /\ child[w] = "load"
    /\ \/ /\ msg[w] \in libs
          /\ child' = [child EXCEPT ![w] = "run"]
          /\ UNCHANGED toClient
       \/ /\ msg[w] \notin libs
          /\ child' = [child EXCEPT ![w] = "exit 0"]
          /\ respond(w, "error")
    /\ UNCHANGED <<workerFile, sock, toWorker, libs, invo, parent, posted, worker, msg>>

(* The rewrite ends in the child's sigsetjmp, the comparison with the      *)
(* target's output and a report, or in a signal, handled or not.           *)
run(w) ==
    /\ child[w] = "run"
    /\ \/ /\ <<w, msg[w]>> \notin Crashes
          /\ child' = [child EXCEPT ![w] = "exit 0"]
          /\ respond(w, "report")
       \/ /\ <<w, msg[w]>> \in Crashes
          /\ child' = [child EXCEPT ![w] = "exit 1"]
          /\ UNCHANGED toClient
    /\ UNCHANGED <<workerFile, sock, toWorker, libs, invo, parent, posted, worker, msg>>

(* Mutant: the worker answers for every child. *)
reapTwice(w) ==
    /\ child[w] \in {"exit 0", "exit 1", "unforked"}
    /\ moveWorker(w, "waiting", "reading")
    /\ child' = [child EXCEPT ![w] = "none"]
    /\ respond(w, "crash")
    /\ UNCHANGED <<workerFile, sock, toWorker, libs, invo, parent, posted, msg>>

(* Mutant: the worker answers for no child. *)
reapSilently(w) ==
    /\ child[w] \in {"exit 0", "exit 1", "unforked"}
    /\ moveWorker(w, "waiting", "reading")
    /\ child' = [child EXCEPT ![w] = "none"]
    /\ UNCHANGED <<wire, invo, parent, posted, msg>>

(* waitpid: the worker answers for a child that did not exit 0.  Without a *)
(* child it leaves retval uninitialised.                                   *)
reap(w) ==
    /\ child[w] \in {"exit 0", "exit 1", "unforked"}
    /\ moveWorker(w, "waiting", "reading")
    /\ child' = [child EXCEPT ![w] = "none"]
    /\ \/ child[w] # "exit 0" /\ respond(w, "crash")
       \/ child[w] # "exit 1" /\ UNCHANGED toClient
    /\ UNCHANGED <<workerFile, sock, toWorker, libs, invo, parent, posted, msg>>

-------------------------------------------------------------------------------
parentNext == spawn \/ dump_worker_data \/ target

workerNext(w) == listen(w) \/ accept(w) \/ readPath(w) \/ readKill(w) \/ reap(w)

childNext(w) == load(w) \/ run(w)

ServerNext == parentNext \/ \E w \in Worker : workerNext(w) \/ childNext(w)

(* Every process is scheduled, and every blocking call returns once it can. *)
ServerFairness ==
    /\ WF_<<wire, server>>(parentNext)
    /\ \A w \in Worker :
          WF_<<wire, server>>(workerNext(w)) /\ WF_<<wire, server>>(childNext(w))

ServerTypeOK ==
    /\ invo \in 0 .. MaxCalls
    /\ parent \in {"testcase", "spawned", "target"}
    /\ posted \subseteq Worker
    /\ worker \in [Worker -> {"none", "sem", "listening", "reading", "waiting", "exited"}]
    /\ child \in [Worker -> {"none", "load", "run", "exit 0", "exit 1", "unforked"}]
    /\ msg \in [Worker -> Test \union {KILL}]
===============================================================================
