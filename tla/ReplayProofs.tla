------------------------------ MODULE ReplayProofs ------------------------------
(***************************************************************************)
(* The order in which the client and the processes of the server work on a *)
(* test, proved of Replay for any number of workers, invocations and tests *)
(* and with all faults.  Neither the requests nor the responses carry a    *)
(* number or an end: what orders them is that a test has one token per     *)
(* worker, which is in the stream to the worker, in its child, or in the   *)
(* stream back, and that the client starts no test before it has all back. *)
(***************************************************************************)
EXTENDS Replay, SequenceTheorems, TLAPS

(* The client waits, or will wait, for w's response to the current test.   *)
Outstanding(w) ==
    \E i \in DOMAIN Workers :
        /\ Workers[i] = w
        /\ \/ client = "sending" /\ i < next
           \/ client = "receiving" /\ i >= next

(* The child of w may still cause a response.                              *)
Testing(w) == child[w] \in {"load", "run", "exit 1", "unforked"}

Quiet(w) == toWorker[w] = <<>> /\ toClient[w] = <<>> /\ ~Testing(w)

(* Where the token of a test is.                                           *)
Requested(w) == toWorker[w] = <<test>> /\ toClient[w] = <<>> /\ ~Testing(w)
InTest(w) == toWorker[w] = <<>> /\ toClient[w] = <<>> /\ Testing(w) /\ msg[w] = test
Answered(w) == toWorker[w] = <<>> /\ Len(toClient[w]) = 1 /\ ~Testing(w)

Killed(w) ==
    /\ toWorker[w] = <<KILL>> /\ toClient[w] = <<>> /\ ~Testing(w)
    /\ \/ client \in {"killed", "returned"}
       \/ client = "killing" /\ \E i \in DOMAIN Workers : Workers[i] = w /\ i < next

Token(w) ==
    \/ Quiet(w)
    \/ Outstanding(w) /\ (Requested(w) \/ InTest(w) \/ Answered(w))
    \/ Killed(w)

(* A worker's progress, and that of the testcase's process.                *)
ServerInv ==
    /\ parent = "spawned" => invo \in Worker
    /\ \A w \in Worker :
          /\ w > invo => worker[w] = "none"
          /\ worker[w] \in {"none", "sem"} => sock[w] = "none"
          /\ worker[w] \in {"listening", "reading", "waiting"} => w \in posted
          /\ child[w] # "none" => worker[w] = "waiting"
          /\ child[w] = "run" => msg[w] \in libs

(* The client has one connection to each of its workers, and a place in    *)
(* its loop over them.                                                     *)
ClientInv ==
    /\ next >= 1
    /\ \A i \in DOMAIN Workers : sock[Workers[i]] \in {"connected", "closed"}
    /\ \A i, j \in DOMAIN Workers : Workers[i] = Workers[j] => i = j
    /\ client \in {"sending", "killing"} => next <= Len(Workers)
    /\ client = "receiving" => next <= Len(Workers) + 1
    /\ client \in {"idle", "sending", "receiving"} /\ test > 0 => Len(Workers) > 0
    /\ client \in {"sending", "receiving"} => test > 0
    /\ client \in {"sleeping", "connecting"} => test = 0

ReplayInv ==
    /\ TypeOK
    /\ ServerInv
    /\ ClientInv
    /\ \A w \in Worker : Token(w)

-------------------------------------------------------------------------------
(* Taking from one of the streams and adding to one.                       *)
LEMMA Taken ==
    ASSUME NEW S, NEW q \in [Worker -> Seq(S)], NEW w \in Worker, q[w] # <<>>
    PROVE  /\ Head(q[w]) \in S
           /\ [q EXCEPT ![w] = Tail(@)] \in [Worker -> Seq(S)]
           /\ Len(q[w]) = 1 => Tail(q[w]) = <<>>
<1>1. Head(q[w]) \in S /\ Tail(q[w]) \in Seq(S)
  OBVIOUS
<1>2. Len(q[w]) = 1 => Tail(q[w]) = <<>>
  <2>1. Tail(q[w]) \in Seq(S) /\ Len(Tail(q[w])) = Len(q[w]) - 1
    OBVIOUS
  <2>2. Len(q[w]) = 1 => Len(Tail(q[w])) = 0
    BY <2>1
  <2> QED  BY <2>1, <2>2, EmptySeq
<1> QED  BY <1>1, <1>2

LEMMA Added ==
    ASSUME NEW S, NEW q \in [Worker -> Seq(S)], NEW w \in Worker, NEW e \in S
    PROVE  /\ [q EXCEPT ![w] = Append(@, e)] \in [Worker -> Seq(S)]
           /\ q[w] = <<>> => Append(q[w], e) = <<e>> /\ Len(Append(q[w], e)) = 1
<1>1. Append(q[w], e) \in Seq(S)
  OBVIOUS
<1>2. q[w] = <<>> => Append(q[w], e) = <<e>> /\ Len(Append(q[w], e)) = 1
  OBVIOUS
<1> QED  BY <1>1, <1>2

LEMMA WorkerOf ==
    ASSUME NEW s \in Seq(Worker), NEW i \in DOMAIN s
    PROVE  s[i] \in Worker /\ i \in Nat /\ 1 <= i /\ i <= Len(s)
OBVIOUS

LEMMA ClientPlace ==
    ASSUME ReplayInv
    PROVE  /\ Workers \in Seq(Worker) /\ Len(Workers) \in Nat
           /\ Workers # <<>> => Len(Workers) > 0
           /\ next \in Nat /\ 1 <= next
<1>1. Workers \in Seq(Worker) /\ next \in Nat /\ 1 <= next
  BY DEF ReplayInv, TypeOK, ClientTypeOK, ClientInv
<1> QED  BY <1>1, EmptySeq

(* A token stays where it is if nothing is said or done in its place and   *)
(* the client does not move on.                                            *)
LEMMA TokenStays ==
    ASSUME NEW v \in Worker, Token(v),
           toWorker'[v] = toWorker[v], toClient'[v] = toClient[v],
           child'[v] = child[v], msg'[v] = msg[v],
           Outstanding(v) => Outstanding(v)' /\ test' = test,
           Killed(v) => Killed(v)'
    PROVE  Token(v)'
BY DEF Token, Quiet, Requested, InTest, Answered, Testing

LEMMA ClientStays ==
    ASSUME UNCHANGED clientVars, NEW v \in Worker, Token(v),
           toWorker'[v] = toWorker[v], toClient'[v] = toClient[v],
           child'[v] = child[v], msg'[v] = msg[v]
    PROVE  Token(v)'
BY DEF clientVars, Token, Quiet, Requested, InTest, Answered, Testing, Outstanding, Killed

-------------------------------------------------------------------------------
LEMMA InitInv == Init => ReplayInv
BY WireAssumption, MaxCallsAssumption
   DEF Init, WireInit, ServerInit, ClientInit, ReplayInv, TypeOK, WireTypeOK,
       ServerTypeOK, ClientTypeOK, ServerInv, ClientInv, Token, Quiet, Testing,
       Worker, Test, Response

LEMMA SpawnInv ==
    ASSUME ReplayInv, spawn, UNCHANGED clientVars
    PROVE  ReplayInv'
<1>1. TypeOK'
  <2>1. WireTypeOK' /\ ClientTypeOK'
    BY DEF ReplayInv, TypeOK, WireTypeOK, ClientTypeOK, spawn, wire, clientVars
  <2>2. invo' \in 0 .. MaxCalls
    <3>1. invo \in 0 .. MaxCalls
      BY DEF ReplayInv, TypeOK, ServerTypeOK
    <3>2. invo < MaxCalls /\ invo' = invo + 1
      BY DEF spawn
    <3> QED  BY <3>1, <3>2, MaxCallsAssumption
  <2>3. worker' \in [Worker -> {"none", "sem", "listening", "reading", "waiting", "exited"}]
    BY DEF ReplayInv, TypeOK, ServerTypeOK, spawn
  <2> QED  BY <2>1, <2>2, <2>3 DEF ReplayInv, TypeOK, ServerTypeOK, spawn
<1>2. ServerInv'
  <2>1. invo \in Nat /\ invo' = invo + 1 /\ Worker \subseteq Nat
    <3>1. invo \in 0 .. MaxCalls /\ invo' = invo + 1
      BY DEF ReplayInv, TypeOK, ServerTypeOK, spawn
    <3> QED  BY <3>1, MaxCallsAssumption DEF Worker
  <2>2. \A w \in Worker : w # invo' => worker'[w] = worker[w]
    BY DEF ReplayInv, TypeOK, ServerTypeOK, spawn
  <2>3. invo' \in Worker => worker'[invo'] \in {"sem", worker[invo']} /\ worker[invo'] = "none"
    <3>1. invo' \in Worker => worker[invo'] = "none"
      BY <2>1 DEF ReplayInv, ServerInv
    <3> QED  BY <3>1 DEF ReplayInv, TypeOK, ServerTypeOK, spawn
  <2>4. parent' = "spawned" => invo' \in Worker
    BY <2>1 DEF spawn, Worker
  <2> QED  BY <2>1, <2>2, <2>3, <2>4 DEF ReplayInv, ServerInv, spawn, wire
<1>3. ClientInv'
  BY DEF ReplayInv, ClientInv, spawn, wire, clientVars
<1>4. ASSUME NEW v \in Worker PROVE Token(v)'
  BY ClientStays DEF ReplayInv, spawn, wire
<1> QED  BY <1>1, <1>2, <1>3, <1>4 DEF ReplayInv

LEMMA DumpInv ==
    ASSUME ReplayInv, dump_worker_data, UNCHANGED clientVars
    PROVE  ReplayInv'
<1>1. TypeOK'
  <2>1. invo \in Worker
    BY DEF ReplayInv, ServerInv, dump_worker_data
  <2>2. workerFile' \in Seq(Worker)
    BY <2>1 DEF ReplayInv, TypeOK, WireTypeOK, dump_worker_data
  <2> QED  BY <2>2 DEF ReplayInv, TypeOK, WireTypeOK, ServerTypeOK, ClientTypeOK,
                       dump_worker_data, clientVars
<1>2. ServerInv'
  BY DEF ReplayInv, ServerInv, dump_worker_data
<1>3. ClientInv'
  BY DEF ReplayInv, ClientInv, dump_worker_data, clientVars
<1>4. ASSUME NEW v \in Worker PROVE Token(v)'
  BY ClientStays DEF ReplayInv, dump_worker_data
<1> QED  BY <1>1, <1>2, <1>3, <1>4 DEF ReplayInv

LEMMA TargetInv ==
    ASSUME ReplayInv, target, UNCHANGED clientVars
    PROVE  ReplayInv'
<1>1. TypeOK'
  BY DEF ReplayInv, TypeOK, WireTypeOK, ServerTypeOK, ClientTypeOK, target, wire, clientVars
<1>2. ServerInv'
  BY DEF ReplayInv, ServerInv, target, wire
<1>3. ClientInv'
  BY DEF ReplayInv, ClientInv, target, wire, clientVars
<1>4. ASSUME NEW v \in Worker PROVE Token(v)'
  BY ClientStays DEF ReplayInv, target, wire
<1> QED  BY <1>1, <1>2, <1>3, <1>4 DEF ReplayInv

LEMMA ListenInv ==
    ASSUME ReplayInv, NEW w \in Worker, listen(w), UNCHANGED clientVars
    PROVE  ReplayInv'
<1>1. TypeOK'
  BY DEF ReplayInv, TypeOK, WireTypeOK, ServerTypeOK, ClientTypeOK, listen, moveWorker,
         clientVars
<1>2. ServerInv'
  BY DEF ReplayInv, TypeOK, WireTypeOK, ServerTypeOK, ServerInv, listen, moveWorker
<1>3. ClientInv'
  <2>1. \A v \in Worker : sock[v] \in {"connected", "closed"} => sock'[v] = sock[v]
    BY DEF ReplayInv, TypeOK, WireTypeOK, ServerInv, listen, moveWorker
  <2>2. \A i \in DOMAIN Workers : Workers[i] \in Worker
    BY WorkerOf DEF ReplayInv, TypeOK, ClientTypeOK
  <2> QED  BY <2>1, <2>2 DEF ReplayInv, ClientInv, clientVars
<1>4. ASSUME NEW v \in Worker PROVE Token(v)'
  BY ClientStays DEF ReplayInv, listen
<1> QED  BY <1>1, <1>2, <1>3, <1>4 DEF ReplayInv

LEMMA AcceptInv ==
    ASSUME ReplayInv, NEW w \in Worker, accept(w), UNCHANGED clientVars
    PROVE  ReplayInv'
<1>1. TypeOK'
  BY DEF ReplayInv, TypeOK, WireTypeOK, ServerTypeOK, ClientTypeOK, accept, moveWorker, wire,
         clientVars
<1>2. ServerInv'
  BY DEF ReplayInv, TypeOK, ServerTypeOK, ServerInv, accept, moveWorker, wire
<1>3. ClientInv'
  BY DEF ReplayInv, ClientInv, accept, wire, clientVars
<1>4. ASSUME NEW v \in Worker PROVE Token(v)'
  BY ClientStays DEF ReplayInv, accept, wire
<1> QED  BY <1>1, <1>2, <1>3, <1>4 DEF ReplayInv

LEMMA ReadPathInv ==
    ASSUME ReplayInv, NEW w \in Worker, readPath(w), UNCHANGED clientVars
    PROVE  ReplayInv'
<1>1. TypeOK'
  <2>1. /\ toWorker' \in [Worker -> Seq(Test \union {KILL})]
        /\ Head(toWorker[w]) \in Test \union {KILL}
    BY Taken DEF ReplayInv, TypeOK, WireTypeOK, readPath
  <2>2. ServerTypeOK'
    BY <2>1 DEF ReplayInv, TypeOK, ServerTypeOK, readPath, moveWorker
  <2> QED  BY <2>1, <2>2 DEF ReplayInv, TypeOK, WireTypeOK, ClientTypeOK, readPath, clientVars
<1>2. ServerInv'
  BY DEF ReplayInv, TypeOK, ServerTypeOK, ServerInv, readPath, moveWorker
<1>3. ClientInv'
  BY DEF ReplayInv, ClientInv, readPath, clientVars
<1>4. ASSUME NEW v \in Worker PROVE Token(v)'
  <2>1. CASE v # w
    BY <2>1, ClientStays DEF ReplayInv, TypeOK, WireTypeOK, ServerTypeOK, readPath
  <2>2. CASE v = w
    <3>1. ~Testing(w)
      BY DEF ReplayInv, ServerInv, readPath, moveWorker, Testing
    <3>2. Outstanding(w) /\ Requested(w)
      BY <3>1 DEF ReplayInv, Token, Quiet, InTest, Answered, Killed, readPath
    <3>3. toWorker'[w] = <<>> /\ msg'[w] = test
      <4>1. toWorker[w] # <<>> /\ Len(toWorker[w]) = 1 /\ Head(toWorker[w]) = test
        BY <3>2 DEF Requested
      <4>2. Tail(toWorker[w]) = <<>>
        BY <4>1, Taken DEF ReplayInv, TypeOK, WireTypeOK
      <4> QED  BY <4>1, <4>2 DEF ReplayInv, TypeOK, WireTypeOK, ServerTypeOK, readPath
    <3>4. InTest(w)'
      BY <3>2, <3>3 DEF ReplayInv, TypeOK, ServerTypeOK, readPath, Requested, InTest, Testing,
                        clientVars
    <3> QED  BY <2>2, <3>2, <3>4 DEF Token, Outstanding, clientVars
  <2> QED  BY <2>1, <2>2
<1> QED  BY <1>1, <1>2, <1>3, <1>4 DEF ReplayInv

LEMMA ReadKillInv ==
    ASSUME ReplayInv, NEW w \in Worker, readKill(w), UNCHANGED clientVars
    PROVE  ReplayInv'
<1>1. TypeOK'
  <2>1. toWorker' \in [Worker -> Seq(Test \union {KILL})]
    <3>1. toWorker \in [Worker -> Seq(Test \union {KILL})]
      BY DEF ReplayInv, TypeOK, WireTypeOK
    <3>2. toWorker[w] # <<>> =>
             [toWorker EXCEPT ![w] = Tail(@)] \in [Worker -> Seq(Test \union {KILL})]
      BY <3>1, Taken
    <3> QED  BY <3>1, <3>2 DEF readKill
  <2>2. ServerTypeOK'
    BY DEF ReplayInv, TypeOK, ServerTypeOK, readKill, moveWorker
  <2> QED  BY <2>1, <2>2 DEF ReplayInv, TypeOK, WireTypeOK, ClientTypeOK, readKill, clientVars
<1>2. ServerInv'
  BY DEF ReplayInv, TypeOK, ServerTypeOK, ServerInv, readKill, moveWorker
<1>3. ClientInv'
  BY DEF ReplayInv, ClientInv, readKill, clientVars
<1>4. ASSUME NEW v \in Worker PROVE Token(v)'
  <2>1. CASE v # w \/ toWorker' = toWorker
    BY <2>1, ClientStays DEF ReplayInv, TypeOK, WireTypeOK, readKill
  <2>2. CASE v = w /\ toWorker[w] # <<>> /\ Head(toWorker[w]) = KILL
                   /\ toWorker' = [toWorker EXCEPT ![w] = Tail(@)]
    <3>1. ~Testing(w)
      BY DEF ReplayInv, ServerInv, readKill, moveWorker, Testing
    <3>2. test # KILL \/ ~Outstanding(w)
      BY DEF ReplayInv, ClientInv, Outstanding, KILL
    <3>3. Killed(w)
      BY <2>2, <3>1, <3>2 DEF ReplayInv, Token, Quiet, Requested, InTest, Answered
    <3>4. toWorker'[w] = <<>>
      BY <2>2, <3>3, Taken DEF ReplayInv, TypeOK, WireTypeOK, Killed
    <3>5. Quiet(w)'
      BY <3>3, <3>4 DEF readKill, Killed, Quiet, Testing
    <3> QED  BY <2>2, <3>5 DEF Token
  <2> QED  BY <2>1, <2>2 DEF readKill
<1> QED  BY <1>1, <1>2, <1>3, <1>4 DEF ReplayInv

(* The one response of a test: what is in the stream back.                 *)
LEMMA Responded ==
    ASSUME ReplayInv, NEW w \in Worker, NEW what \in {"report", "crash", "error"},
           Testing(w), respond(w, what)
    PROVE  /\ toClient' \in [Worker -> Seq(Response)]
           /\ Len(toClient'[w]) = 1
           /\ \A v \in Worker \ {w} : toClient'[v] = toClient[v]
           /\ Outstanding(w) /\ toWorker[w] = <<>>
<1>1. Outstanding(w) /\ InTest(w)
  BY DEF ReplayInv, Token, Quiet, Requested, Answered, Killed
<1>2. test \in Test
  <2>1. test \in 0 .. MaxTests /\ test > 0
    BY <1>1 DEF ReplayInv, TypeOK, ClientTypeOK, ClientInv, Outstanding
  <2> QED  BY <2>1, WireAssumption DEF Test
<1>3. [test |-> msg[w], what |-> what] \in Response
  BY <1>1, <1>2 DEF InTest, Response
<1>4. toClient[w] = <<>>
  BY <1>1 DEF InTest
<1>5. toClient \in [Worker -> Seq(Response)]
  BY DEF ReplayInv, TypeOK, WireTypeOK
<1>6. toClient' = [toClient EXCEPT ![w] = Append(@, [test |-> msg[w], what |-> what])]
  BY DEF respond
<1> HIDE DEF Response
<1>7. toClient' \in [Worker -> Seq(Response)]
  BY <1>3, <1>5, <1>6, Added
<1>8. Len(toClient'[w]) = 1
  BY <1>3, <1>4, <1>5, <1>6, Added
<1> QED  BY <1>1, <1>5, <1>6, <1>7, <1>8 DEF InTest

LEMMA ReapInv ==
    ASSUME ReplayInv, NEW w \in Worker, reap(w), UNCHANGED clientVars
    PROVE  ReplayInv'
<1>1. CASE child[w] # "exit 0" /\ respond(w, "crash")
  <2>1. Testing(w)
    BY <1>1 DEF reap, Testing
  <2>2. TypeOK'
    BY <1>1, <2>1, Responded DEF ReplayInv, TypeOK, WireTypeOK, ServerTypeOK, ClientTypeOK,
                                 reap, moveWorker, clientVars
  <2>3. ASSUME NEW v \in Worker PROVE Token(v)'
    <3>1. CASE v # w
      BY <1>1, <2>1, <3>1, ClientStays, Responded DEF ReplayInv, TypeOK, ServerTypeOK, reap
    <3>2. CASE v = w
      <4>1. Answered(w)'
        BY <1>1, <2>1, Responded DEF ReplayInv, TypeOK, ServerTypeOK, reap, Answered, Testing
      <4>2. Outstanding(w)'
        BY <1>1, <2>1, Responded DEF Outstanding, clientVars
      <4> QED  BY <3>2, <4>1, <4>2 DEF Token
    <3> QED  BY <3>1, <3>2
  <2>4. ServerInv' /\ ClientInv'
    BY DEF ReplayInv, TypeOK, ServerTypeOK, ServerInv, ClientInv, reap, moveWorker, clientVars
  <2> QED  BY <2>2, <2>3, <2>4 DEF ReplayInv
<1>2. CASE child[w] # "exit 1" /\ UNCHANGED toClient
  <2>1. TypeOK'
    BY <1>2 DEF ReplayInv, TypeOK, WireTypeOK, ServerTypeOK, ClientTypeOK,
                reap, moveWorker, clientVars
  <2>2. ASSUME NEW v \in Worker PROVE Token(v)'
    <3>1. CASE v # w
      BY <1>2, <3>1, ClientStays DEF ReplayInv, TypeOK, ServerTypeOK, reap
    <3>2. CASE v = w
      <4>1. ~Testing(w)'
        BY DEF ReplayInv, TypeOK, ServerTypeOK, reap, Testing
      <4>2. CASE Testing(w)
        <5>1. toWorker[w] = <<>> /\ toClient[w] = <<>>
          BY <4>2 DEF ReplayInv, Token, Quiet, Requested, InTest, Answered, Killed
        <5> QED  BY <1>2, <3>2, <4>1, <5>1 DEF reap, Token, Quiet
      <4>3. CASE ~Testing(w)
        BY <1>2, <3>2, <4>1, <4>3 DEF ReplayInv, reap, clientVars, Token, Quiet, Requested,
               InTest, Answered, Killed, Outstanding
      <4> QED  BY <4>2, <4>3
    <3> QED  BY <3>1, <3>2
  <2>3. ServerInv' /\ ClientInv'
    BY DEF ReplayInv, TypeOK, ServerTypeOK, ServerInv, ClientInv, reap, moveWorker, clientVars
  <2> QED  BY <2>1, <2>2, <2>3 DEF ReplayInv
<1> QED  BY <1>1, <1>2 DEF reap

(* A child's step: it answers and ends, or it answers nothing and still    *)
(* may.                                                                    *)
LEMMA ChildInv ==
    ASSUME ReplayInv, NEW w \in Worker, load(w) \/ run(w), UNCHANGED clientVars
    PROVE  ReplayInv'
<1>1. Testing(w)
  BY DEF load, run, Testing
<1>2. UNCHANGED <<workerFile, sock, toWorker, libs, invo, parent, posted, worker, msg>>
  BY DEF load, run
<1>3. child' \in [Worker -> {"none", "load", "run", "exit 0", "exit 1", "unforked"}]
      /\ \A v \in Worker \ {w} : child'[v] = child[v]
  BY DEF ReplayInv, TypeOK, ServerTypeOK, load, run
<1>4. ServerInv'
  BY ZenonT(30) DEF ReplayInv, TypeOK, ServerTypeOK, ServerInv, load, run
<1>5. ClientInv'
  BY <1>2 DEF ReplayInv, ClientInv, clientVars
<1>6. CASE Testing(w)' /\ UNCHANGED toClient
  <2>1. TypeOK'
    BY <1>2, <1>3, <1>6 DEF ReplayInv, TypeOK, WireTypeOK, ServerTypeOK, ClientTypeOK, clientVars
  <2>2. ASSUME NEW v \in Worker PROVE Token(v)'
    <3>1. CASE v # w
      BY <1>2, <1>3, <1>6, <3>1, ClientStays DEF ReplayInv
    <3>2. CASE v = w
      BY <1>1, <1>2, <1>6, <3>2 DEF ReplayInv, clientVars, Token, Quiet, Requested, InTest,
             Answered, Killed, Outstanding
    <3> QED  BY <3>1, <3>2
  <2> QED  BY <1>4, <1>5, <2>1, <2>2 DEF ReplayInv
<1>7. ASSUME NEW what \in {"report", "error"}, child'[w] = "exit 0", respond(w, what)
      PROVE  ReplayInv'
  <2>1. TypeOK'
    BY <1>1, <1>2, <1>3, <1>7, Responded
       DEF ReplayInv, TypeOK, WireTypeOK, ServerTypeOK, ClientTypeOK, clientVars
  <2>2. ASSUME NEW v \in Worker PROVE Token(v)'
    <3>1. CASE v # w
      BY <1>1, <1>2, <1>3, <1>7, <3>1, ClientStays, Responded DEF ReplayInv
    <3>2. CASE v = w
      <4>1. Answered(w)'
        BY <1>1, <1>2, <1>7, Responded DEF Answered, Testing
      <4>2. Outstanding(w)'
        BY <1>1, <1>7, Responded DEF Outstanding, clientVars
      <4> QED  BY <3>2, <4>1, <4>2 DEF Token
    <3> QED  BY <3>1, <3>2
  <2> QED  BY <1>4, <1>5, <2>1, <2>2 DEF ReplayInv
<1>8. \/ Testing(w)' /\ UNCHANGED toClient
      \/ child'[w] = "exit 0" /\ \E what \in {"report", "error"} : respond(w, what)
  BY DEF ReplayInv, TypeOK, ServerTypeOK, load, run, Testing
<1> QED  BY <1>6, <1>7, <1>8

-------------------------------------------------------------------------------
(* What the client's steps leave alone.                                    *)
LEMMA ServerKept ==
    ASSUME ReplayInv, UNCHANGED server,
           sock' \in [Worker -> {"none", "listening", "connected", "closed"}],
           \A v \in Worker : sock[v] \in {"none", "closed"} => sock'[v] = sock[v],
           \A v \in Worker : child[v] = "run" /\ msg[v] \in libs => msg[v] \in libs'
    PROVE  ServerInv'
BY DEF ReplayInv, ServerInv, server

LEMMA WakeInv ==
    ASSUME ReplayInv, wake, UNCHANGED server
    PROVE  ReplayInv'
<1>1. TypeOK'
  BY DEF ReplayInv, TypeOK, WireTypeOK, ServerTypeOK, ClientTypeOK, wake, wire, server
<1>2. ServerInv'
  BY DEF ReplayInv, ServerInv, wake, wire, server
<1>3. ClientInv'
  BY DEF ReplayInv, ClientInv, wake, wire
<1>4. ASSUME NEW v \in Worker PROVE Token(v)'
  BY TokenStays DEF ReplayInv, wake, wire, server, Outstanding, Killed
<1> QED  BY <1>1, <1>2, <1>3, <1>4 DEF ReplayInv

LEMMA LeaveFacts ==
    ASSUME ReplayInv, NEW how \in {"cannot connect", "crashed", "failed", "returned"}, leave(how)
    PROVE  /\ sock' \in [Worker -> {"none", "listening", "connected", "closed"}]
           /\ \A v \in Worker : sock[v] \in {"none", "closed"} => sock'[v] = sock[v]
           /\ \A v \in Worker : sock[v] = "connected" => sock'[v] = "closed"
           /\ client' = how
BY DEF ReplayInv, TypeOK, WireTypeOK, leave

LEMMA ConnectInv ==
    ASSUME ReplayInv, connectToAddr, UNCHANGED server
    PROVE  ReplayInv'
<1> DEFINE w == workerFile[next]
<1>1. w \in Worker /\ next \in Nat
  <2>1. workerFile \in Seq(Worker) /\ next \in Nat
    BY DEF ReplayInv, TypeOK, WireTypeOK, ClientTypeOK
  <2>2. 1 <= next /\ next <= Len(workerFile)
    BY <2>1 DEF ReplayInv, ClientInv, connectToAddr
  <2> QED  BY <2>1, <2>2, WorkerOf
<1>2. ASSUME NEW v \in Worker PROVE Token(v)'
  BY TokenStays DEF ReplayInv, connectToAddr, leave, server, Outstanding, Killed
<1>3. CASE /\ sock[w] = "listening"
           /\ sock' = [sock EXCEPT ![w] = "connected"]
           /\ Workers' = Append(Workers, w)
           /\ next' = next + 1
           /\ UNCHANGED client
  <2> HIDE DEF w
  <2>1. TypeOK'
    <3>1. WireTypeOK'
      BY <1>1, <1>3 DEF ReplayInv, TypeOK, WireTypeOK, connectToAddr
    <3>2. Workers' \in Seq(Worker)
      <4>1. Workers \in Seq(Worker)
        BY DEF ReplayInv, TypeOK, ClientTypeOK
      <4> QED  BY <1>1, <1>3, <4>1
    <3>3. next' \in Nat
      BY <1>1, <1>3
    <3>4. ClientTypeOK'
      BY <1>3, <3>2, <3>3 DEF ReplayInv, TypeOK, ClientTypeOK, connectToAddr
    <3> QED  BY <3>1, <3>4 DEF ReplayInv, TypeOK, ServerTypeOK, server
  <2>2. ServerInv'
    BY <1>1, <1>3, <2>1, ServerKept DEF ReplayInv, TypeOK, WireTypeOK, connectToAddr
  <2>3. ClientInv'
    <3>1. Workers \in Seq(Worker)
      BY DEF ReplayInv, TypeOK, ClientTypeOK
    <3>2. /\ Len(Workers') = Len(Workers) + 1
          /\ DOMAIN Workers' = 1 .. Len(Workers')
          /\ \A i \in DOMAIN Workers : Workers'[i] = Workers[i]
          /\ Workers'[Len(Workers')] = w
      BY <1>1, <1>3, <3>1
    <3>3. \A i \in DOMAIN Workers' : i \in DOMAIN Workers \/ i = Len(Workers')
      BY <3>1, <3>2
    <3>4. \A i \in DOMAIN Workers : Workers[i] \in Worker /\ Workers[i] # w
      BY <1>3, <3>1, WorkerOf DEF ReplayInv, ClientInv
    <3>5. \A i \in DOMAIN Workers' : sock'[Workers'[i]] \in {"connected", "closed"}
      BY <1>1, <1>3, <3>2, <3>3, <3>4 DEF ReplayInv, TypeOK, WireTypeOK, ClientInv
    <3>6. \A i, j \in DOMAIN Workers' : Workers'[i] = Workers'[j] => i = j
      BY <3>2, <3>3, <3>4 DEF ReplayInv, ClientInv
    <3>7. client = "connecting" /\ test' = test
      BY DEF connectToAddr
    <3> QED  BY <1>1, <1>3, <3>5, <3>6, <3>7 DEF ReplayInv, ClientInv
  <2> QED  BY <1>2, <2>1, <2>2, <2>3 DEF ReplayInv
<1>4. CASE leave("cannot connect") /\ UNCHANGED <<Workers, next>>
  <2>1. TypeOK'
    BY <1>4, LeaveFacts DEF ReplayInv, TypeOK, WireTypeOK, ServerTypeOK, ClientTypeOK,
                            connectToAddr, server
  <2>2. ServerInv'
    BY <1>4, LeaveFacts, ServerKept DEF connectToAddr
  <2>3. ClientInv'
    BY <1>4, LeaveFacts, WorkerOf DEF ReplayInv, TypeOK, ClientTypeOK, ClientInv, connectToAddr
  <2> QED  BY <1>2, <2>1, <2>2, <2>3 DEF ReplayInv
<1> QED  BY <1>3, <1>4 DEF connectToAddr

LEMMA ConnectedInv ==
    ASSUME ReplayInv, connected, UNCHANGED server
    PROVE  ReplayInv'
<1>1. TypeOK'
  BY DEF ReplayInv, TypeOK, WireTypeOK, ServerTypeOK, ClientTypeOK, connected, wire, server
<1>2. ServerInv'
  BY DEF ReplayInv, ServerInv, connected, wire, server
<1>3. ClientInv'
  BY DEF ReplayInv, ClientInv, connected, wire
<1>4. ASSUME NEW v \in Worker PROVE Token(v)'
  BY TokenStays DEF ReplayInv, connected, wire, server, Outstanding, Killed
<1> QED  BY <1>1, <1>2, <1>3, <1>4 DEF ReplayInv

LEMMA CompileInv ==
    ASSUME ReplayInv, compile, UNCHANGED server
    PROVE  ReplayInv'
<1>1. CASE Workers = <<>> /\ leave("crashed") /\ UNCHANGED <<libs, next, test, TestResults>>
  <2>1. TypeOK'
    BY <1>1, LeaveFacts DEF ReplayInv, TypeOK, WireTypeOK, ServerTypeOK, ClientTypeOK, compile,
                            server
  <2>2. ServerInv'
    BY <1>1, LeaveFacts, ServerKept
  <2>3. ClientInv'
    BY <1>1, LeaveFacts, WorkerOf DEF ReplayInv, TypeOK, ClientTypeOK, ClientInv, compile
  <2>4. ASSUME NEW v \in Worker PROVE Token(v)'
    BY <1>1, LeaveFacts, TokenStays DEF ReplayInv, compile, server, Outstanding, Killed
  <2> QED  BY <2>1, <2>2, <2>3, <2>4 DEF ReplayInv
<1>2. CASE /\ Workers # <<>>
           /\ client' = "sending"
           /\ test' = test + 1
           /\ libs' = libs \union {test'} \/ UNCHANGED libs
           /\ next' = 1
           /\ TestResults' = <<>>
           /\ UNCHANGED sock
  <2>1. test' \in 0 .. MaxTests /\ test' \in Test /\ test' > 0
    <3>1. test \in 0 .. MaxTests /\ test < MaxTests /\ test' = test + 1
      BY <1>2 DEF ReplayInv, TypeOK, ClientTypeOK, compile
    <3> QED  BY <3>1, WireAssumption DEF Test
  <2>2. Len(Workers) > 0 /\ Len(Workers) \in Nat
    BY <1>2, ClientPlace
  <2>3. TypeOK'
    <3>1. WireTypeOK'
      BY <1>2, <2>1 DEF ReplayInv, TypeOK, WireTypeOK, compile
    <3>2. ClientTypeOK'
      BY <1>2, <2>1 DEF ReplayInv, TypeOK, ClientTypeOK, compile
    <3> QED  BY <3>1, <3>2 DEF ReplayInv, TypeOK, ServerTypeOK, server
  <2>4. ServerInv'
    BY <1>2 DEF ReplayInv, ServerInv, compile, server
  <2>5. ClientInv'
    BY <1>2, <2>1, <2>2 DEF ReplayInv, ClientInv, compile
  <2>6. ASSUME NEW v \in Worker PROVE Token(v)'
    BY <1>2 DEF ReplayInv, compile, server, Token, Outstanding, Killed, Quiet, Testing
  <2> QED  BY <2>3, <2>4, <2>5, <2>6 DEF ReplayInv
<1> QED  BY <1>1, <1>2 DEF compile

-------------------------------------------------------------------------------
(* A message to one worker of the loop, to whom none was sent before.      *)
LEMMA SendFacts ==
    ASSUME ReplayInv, client \in {"sending", "killing"}, NEW m \in Test \union {KILL},
           NEW then, send(m, then)
    PROVE  /\ next \in DOMAIN Workers /\ Workers[next] \in Worker
           /\ toWorker' \in [Worker -> Seq(Test \union {KILL})]
           /\ \A v \in Worker \ {Workers[next]} : toWorker'[v] = toWorker[v]
           /\ \A i \in DOMAIN Workers : Workers[i] = Workers[next] => i = next
           /\ Quiet(Workers[next])
           /\ toWorker'[Workers[next]] = <<m>>
           /\ \/ next < Len(Workers) /\ next' = next + 1 /\ client' = client
              \/ next = Len(Workers) /\ next' = 1 /\ client' = then
<1> DEFINE w == Workers[next]
<1>1. Workers \in Seq(Worker) /\ next \in Nat /\ 1 <= next /\ next <= Len(Workers)
  BY DEF ReplayInv, TypeOK, ClientTypeOK, ClientInv
<1>2. next \in DOMAIN Workers /\ w \in Worker
  BY <1>1
<1>3. \A i \in DOMAIN Workers : Workers[i] = w => i = next
  BY <1>2 DEF ReplayInv, ClientInv
<1>4. Quiet(w)
  <2>1. ~Outstanding(w)
    BY <1>1, <1>3 DEF Outstanding
  <2>2. ~Killed(w)
    BY <1>1, <1>3 DEF Killed
  <2> QED  BY <1>2, <2>1, <2>2 DEF ReplayInv, Token
<1>5. toWorker \in [Worker -> Seq(Test \union {KILL})]
  BY DEF ReplayInv, TypeOK, WireTypeOK
<1>6. toWorker' = [toWorker EXCEPT ![w] = Append(@, m)]
  BY DEF send
<1> HIDE DEF w
<1>7. /\ toWorker' \in [Worker -> Seq(Test \union {KILL})]
      /\ \A v \in Worker \ {w} : toWorker'[v] = toWorker[v]
      /\ toWorker'[w] = <<m>>
  BY <1>2, <1>4, <1>5, <1>6, Added DEF Quiet
<1>8. \/ next < Len(Workers) /\ next' = next + 1 /\ client' = client
      \/ next = Len(Workers) /\ next' = 1 /\ client' = then
  BY <1>1 DEF send
<1> QED  BY <1>2, <1>3, <1>4, <1>7, <1>8 DEF w

LEMMA RunTestInv ==
    ASSUME ReplayInv, runTest, UNCHANGED server
    PROVE  ReplayInv'
<1>1. /\ client = "sending" /\ send(test, "receiving")
      /\ UNCHANGED <<workerFile, sock, toClient, libs, Workers, test, TestResults>>
  BY DEF runTest, send
<1>2. test \in Test /\ test > 0
  <2>1. test \in 0 .. MaxTests /\ test > 0
    BY <1>1 DEF ReplayInv, TypeOK, ClientTypeOK, ClientInv
  <2> QED  BY <2>1, WireAssumption DEF Test
<1>3. /\ next \in DOMAIN Workers /\ Workers[next] \in Worker
      /\ toWorker' \in [Worker -> Seq(Test \union {KILL})]
      /\ \A v \in Worker \ {Workers[next]} : toWorker'[v] = toWorker[v]
      /\ \A i \in DOMAIN Workers : Workers[i] = Workers[next] => i = next
      /\ Quiet(Workers[next])
      /\ toWorker'[Workers[next]] = <<test>>
      /\ \/ next < Len(Workers) /\ next' = next + 1 /\ client' = client
         \/ next = Len(Workers) /\ next' = 1 /\ client' = "receiving"
  BY <1>1, <1>2, SendFacts
<1>4. Workers \in Seq(Worker) /\ Len(Workers) \in Nat /\ next \in Nat
  BY ClientPlace
<1>5. TypeOK'
  <2>1. WireTypeOK'
    BY <1>1, <1>3 DEF ReplayInv, TypeOK, WireTypeOK
  <2>2. next' \in Nat
    BY <1>3, <1>4
  <2>3. ClientTypeOK'
    BY <1>1, <1>3, <2>2 DEF ReplayInv, TypeOK, ClientTypeOK
  <2> QED  BY <2>1, <2>3 DEF ReplayInv, TypeOK, ServerTypeOK, server
<1>6. ServerInv'
  BY <1>1 DEF ReplayInv, ServerInv, server
<1>7. ClientInv'
  BY <1>1, <1>2, <1>3, <1>4 DEF ReplayInv, ClientInv
<1>8. ASSUME NEW v \in Worker PROVE Token(v)'
  <2>1. CASE v # Workers[next]
    <3>1. Outstanding(v) => Outstanding(v)'
      BY <1>1, <1>3, <1>4, <2>1 DEF Outstanding
    <3>2. ~Killed(v)
      BY <1>1 DEF Killed
    <3> QED  BY <1>1, <1>3, <2>1, <3>1, <3>2, TokenStays DEF ReplayInv, server
  <2>2. CASE v = Workers[next]
    <3>1. Outstanding(v)'
      BY <1>1, <1>3, <1>4, <2>2 DEF Outstanding
    <3>2. Requested(v)'
      BY <1>1, <1>3, <2>2 DEF Quiet, Requested, Testing, server
    <3> QED  BY <3>1, <3>2 DEF Token
  <2> QED  BY <2>1, <2>2
<1> QED  BY <1>5, <1>6, <1>7, <1>8 DEF ReplayInv

LEMMA KillAllWorkersInv ==
    ASSUME ReplayInv, killAllWorkers, UNCHANGED server
    PROVE  ReplayInv'
<1>1. /\ client = "killing" /\ send(KILL, "killed")
      /\ UNCHANGED <<workerFile, sock, toClient, libs, Workers, test, TestResults>>
  BY DEF killAllWorkers, send
<1>2. /\ next \in DOMAIN Workers /\ Workers[next] \in Worker
      /\ toWorker' \in [Worker -> Seq(Test \union {KILL})]
      /\ \A v \in Worker \ {Workers[next]} : toWorker'[v] = toWorker[v]
      /\ Quiet(Workers[next])
      /\ toWorker'[Workers[next]] = <<KILL>>
      /\ \/ next < Len(Workers) /\ next' = next + 1 /\ client' = client
         \/ next = Len(Workers) /\ next' = 1 /\ client' = "killed"
  BY <1>1, SendFacts
<1>3. Workers \in Seq(Worker) /\ Len(Workers) \in Nat /\ next \in Nat
  BY ClientPlace
<1>4. TypeOK'
  <2>1. WireTypeOK'
    BY <1>1, <1>2 DEF ReplayInv, TypeOK, WireTypeOK
  <2>2. next' \in Nat
    BY <1>2, <1>3
  <2>3. ClientTypeOK'
    BY <1>1, <1>2, <2>2 DEF ReplayInv, TypeOK, ClientTypeOK
  <2> QED  BY <2>1, <2>3 DEF ReplayInv, TypeOK, ServerTypeOK, server
<1>5. ServerInv'
  BY <1>1 DEF ReplayInv, ServerInv, server
<1>6. ClientInv'
  BY <1>1, <1>2, <1>3 DEF ReplayInv, ClientInv
<1>7. ASSUME NEW v \in Worker PROVE Token(v)'
  <2>1. CASE v # Workers[next]
    <3>1. ~Outstanding(v)
      BY <1>1 DEF Outstanding
    <3>2. Killed(v) => Killed(v)'
      <4>1. \A i \in DOMAIN Workers : i < next => client' = "killed" \/ i < next'
        BY <1>2, <1>3
      <4> QED  BY <1>1, <1>2, <2>1, <4>1 DEF Killed, Testing, server
    <3> QED  BY <1>1, <1>2, <2>1, <3>1, <3>2, TokenStays DEF ReplayInv, server
  <2>2. CASE v = Workers[next]
    <3>1. Killed(v)'
      <4>1. client' = "killed" \/ next < next'
        BY <1>2, <1>3
      <4> QED  BY <1>1, <1>2, <2>2, <4>1 DEF Quiet, Killed, Testing, server
    <3> QED  BY <3>1 DEF Token
  <2> QED  BY <2>1, <2>2
<1> QED  BY <1>4, <1>5, <1>6, <1>7 DEF ReplayInv

LEMMA WaitTestInv ==
    ASSUME ReplayInv, waitTest, UNCHANGED server
    PROVE  ReplayInv'
<1> DEFINE w == Workers[next]
<1>1. /\ client = "receiving" /\ next <= Len(Workers) /\ next' = next + 1
      /\ toClient[w] # <<>>
      /\ toClient' = [toClient EXCEPT ![w] = Tail(@)]
      /\ TestResults' = Append(TestResults, Head(toClient[w]))
      /\ UNCHANGED <<workerFile, sock, toWorker, libs, client, Workers, test>>
  BY DEF waitTest
<1>2. Workers \in Seq(Worker) /\ Len(Workers) \in Nat /\ next \in Nat /\ 1 <= next
  BY ClientPlace
<1>3. next \in DOMAIN Workers /\ w \in Worker
  BY <1>1, <1>2
<1> HIDE DEF w
<1>4. toClient \in [Worker -> Seq(Response)] /\ TestResults \in Seq(Response)
  BY DEF ReplayInv, TypeOK, WireTypeOK, ClientTypeOK
<1>5. /\ Head(toClient[w]) \in Response
      /\ toClient' \in [Worker -> Seq(Response)]
      /\ Len(toClient[w]) = 1 => Tail(toClient[w]) = <<>>
  BY <1>1, <1>3, <1>4, Taken
<1>6. TestResults' \in Seq(Response)
  BY <1>1, <1>4, <1>5
<1>7. TypeOK'
  <2>1. WireTypeOK'
    BY <1>1, <1>5 DEF ReplayInv, TypeOK, WireTypeOK
  <2>2. next' \in Nat
    BY <1>1, <1>2
  <2>3. ClientTypeOK'
    BY <1>1, <1>6, <2>2 DEF ReplayInv, TypeOK, ClientTypeOK
  <2> QED  BY <2>1, <2>3 DEF ReplayInv, TypeOK, ServerTypeOK, server
<1>8. ServerInv'
  BY <1>1 DEF ReplayInv, ServerInv, server
<1>9. ClientInv'
  BY <1>1, <1>2 DEF ReplayInv, ClientInv
<1>10. ASSUME NEW v \in Worker PROVE Token(v)'
  <2>1. CASE v # w
    <3>1. Outstanding(v) => Outstanding(v)'
      BY <1>1, <1>2, <2>1 DEF Outstanding, w
    <3>2. ~Killed(v)
      BY <1>1 DEF Killed
    <3> QED  BY <1>1, <1>4, <2>1, <3>1, <3>2, TokenStays DEF ReplayInv, server
  <2>2. CASE v = w
    <3>1. Answered(w)
      BY <1>1, <1>3 DEF ReplayInv, Token, Quiet, Requested, InTest, Killed
    <3>2. toClient'[v] = <<>>
      BY <1>1, <1>4, <1>5, <2>2, <3>1 DEF Answered
    <3>3. Quiet(v)'
      BY <1>1, <2>2, <3>1, <3>2 DEF Answered, Quiet, Testing, server
    <3> QED  BY <3>3 DEF Token
  <2> QED  BY <2>1, <2>2
<1> QED  BY <1>7, <1>8, <1>9, <1>10 DEF ReplayInv

(* When all responses are in, no child still causes one.                   *)
LEMMA AllAnswered ==
    ASSUME ReplayInv, client = "receiving" => next > Len(Workers),
           client # "sending", NEW v \in Worker
    PROVE  ~Outstanding(v) /\ ~Testing(v)
<1>1. ~Outstanding(v)
  <2>1. \A i \in DOMAIN Workers : i \in Nat /\ i <= Len(Workers)
    BY ClientPlace, WorkerOf
  <2> QED  BY <2>1, ClientPlace DEF Outstanding
<1> QED  BY <1>1 DEF ReplayInv, Token, Quiet, Killed

LEMMA FinishInv ==
    ASSUME ReplayInv, finish, UNCHANGED server
    PROVE  ReplayInv'
<1>1. /\ client = "receiving" /\ next > Len(Workers) /\ libs' = libs \ {test}
      /\ (client' = "idle" /\ sock' = sock) \/ leave("failed")
      /\ UNCHANGED <<workerFile, toWorker, toClient, Workers, next, test, TestResults>>
  BY DEF finish
<1>2. \A v \in Worker : ~Outstanding(v) /\ ~Testing(v)
  BY <1>1, AllAnswered
<1>3. /\ sock' \in [Worker -> {"none", "listening", "connected", "closed"}]
      /\ \A v \in Worker : sock[v] \in {"none", "closed"} => sock'[v] = sock[v]
      /\ \A v \in Worker : sock[v] = "connected" => sock'[v] \in {"connected", "closed"}
      /\ client' \in {"idle", "failed"}
  BY <1>1, LeaveFacts DEF ReplayInv, TypeOK, WireTypeOK
<1>4. TypeOK'
  BY <1>1, <1>3 DEF ReplayInv, TypeOK, WireTypeOK, ServerTypeOK, ClientTypeOK, server
<1>5. ServerInv'
  BY <1>2, <1>3, ServerKept DEF Testing
<1>6. ClientInv'
  <2>1. Len(Workers) > 0 /\ \A i \in DOMAIN Workers : Workers[i] \in Worker
    BY <1>1, ClientPlace, WorkerOf DEF ReplayInv, ClientInv
  <2> QED  BY <1>1, <1>3, <2>1 DEF ReplayInv, ClientInv
<1>7. ASSUME NEW v \in Worker PROVE Token(v)'
  <2>1. ~Killed(v)
    BY <1>1 DEF Killed
  <2> QED  BY <1>1, <1>2, <2>1, TokenStays DEF ReplayInv, server
<1> QED  BY <1>4, <1>5, <1>6, <1>7 DEF ReplayInv

LEMMA DestroyInv ==
    ASSUME ReplayInv, destroy, UNCHANGED server
    PROVE  ReplayInv'
<1>1. TypeOK'
  BY DEF ReplayInv, TypeOK, WireTypeOK, ServerTypeOK, ClientTypeOK, destroy, wire, server
<1>2. ServerInv'
  BY DEF ReplayInv, ServerInv, destroy, wire, server
<1>3. ClientInv'
  BY ClientPlace DEF ReplayInv, ClientInv, destroy, wire
<1>4. ASSUME NEW v \in Worker PROVE Token(v)'
  BY TokenStays DEF ReplayInv, destroy, wire, server, Outstanding, Killed
<1> QED  BY <1>1, <1>2, <1>3, <1>4 DEF ReplayInv

LEMMA ReturnInv ==
    ASSUME ReplayInv, return, UNCHANGED server
    PROVE  ReplayInv'
<1>1. TypeOK'
  BY LeaveFacts DEF ReplayInv, TypeOK, WireTypeOK, ServerTypeOK, ClientTypeOK, return, server
<1>2. ServerInv'
  BY LeaveFacts, ServerKept DEF return
<1>3. ClientInv'
  <2>1. \A i \in DOMAIN Workers : Workers[i] \in Worker
    BY ClientPlace, WorkerOf
  <2> QED  BY <2>1, LeaveFacts DEF ReplayInv, ClientInv, return
<1>4. ASSUME NEW v \in Worker PROVE Token(v)'
  <2>1. client = "killed" /\ client' = "returned"
    BY LeaveFacts DEF return
  <2> QED  BY <2>1, TokenStays DEF ReplayInv, return, server, Outstanding, Killed, Testing
<1> QED  BY <1>1, <1>2, <1>3, <1>4 DEF ReplayInv

-------------------------------------------------------------------------------
LEMMA StepInv == ReplayInv /\ [Next]_vars => ReplayInv'
<1> SUFFICES ASSUME ReplayInv, [Next]_vars PROVE ReplayInv'
  OBVIOUS
<1>1. CASE ServerNext /\ UNCHANGED clientVars
  BY <1>1, SpawnInv, DumpInv, TargetInv, ListenInv, AcceptInv, ReadPathInv, ReadKillInv,
     ReapInv, ChildInv
     DEF ServerNext, parentNext, workerNext, childNext
<1>2. CASE ClientNext /\ UNCHANGED server
  BY <1>2, WakeInv, ConnectInv, ConnectedInv, CompileInv, RunTestInv, WaitTestInv, FinishInv,
     DestroyInv, KillAllWorkersInv, ReturnInv
     DEF ClientNext, Wake, awake
<1>3. CASE UNCHANGED vars
  BY <1>3 DEF vars, wire, server, clientVars, ReplayInv, TypeOK, WireTypeOK, ServerTypeOK,
              ClientTypeOK, ServerInv, ClientInv, Token, Quiet, Requested, InTest, Answered,
              Killed, Testing, Outstanding
<1> QED  BY <1>1, <1>2, <1>3 DEF Next

LEMMA ReplayInvariance == Spec => []ReplayInv
BY InitInv, StepInv, PTL DEF Spec

-------------------------------------------------------------------------------
(* Whatever the server and the client do, and whichever of the modelled    *)
(* faults happen, their state stays of its type.                           *)
THEOREM ReplayTypeCorrect == Spec => []TypeOK
<1>1. ReplayInv => TypeOK
  BY DEF ReplayInv
<1> QED  BY <1>1, ReplayInvariance, PTL

(* The parent's sem_post orders its copy of the target's output before     *)
(* every child that compares with it, however the processes are scheduled. *)
THEOREM ReferenceAlwaysPublished == Spec => []ReferencePublished
<1>1. ReplayInv => ReferencePublished
  BY DEF ReplayInv, ServerInv, ReferencePublished
<1> QED  BY <1>1, ReplayInvariance, PTL

(* No stream ever holds two messages, so that one read returns one path    *)
(* and one recv one response, for any number of workers and tests.         *)
THEOREM MessagesNeverRunTogether == Spec => []MessageBoundaries
<1> DEFINE Short(n) == n <= 1
<1>1. Short(Len(<<>>)) /\ Short(1) /\ \A e : Short(Len(<<e>>))
  OBVIOUS
<1> HIDE DEF Short
<1>2. ASSUME ReplayInv, NEW w \in Worker
      PROVE  Short(Len(toWorker[w])) /\ Short(Len(toClient[w]))
  <2>1. toWorker[w] = <<>> \/ \E e : toWorker[w] = <<e>>
    BY <1>2 DEF ReplayInv, Token, Quiet, Requested, InTest, Answered, Killed
  <2>2. toClient[w] = <<>> \/ Len(toClient[w]) = 1
    BY <1>2 DEF ReplayInv, Token, Quiet, Requested, InTest, Answered, Killed
  <2> QED  BY <1>1, <2>1, <2>2, Zenon
<1>3. ReplayInv => MessageBoundaries
  BY <1>2 DEF Short, MessageBoundaries
<1> QED  BY <1>3, ReplayInvariance, PTL

(* testRewrite removes a library only when no child can still load it.     *)
THEOREM LibraryAlwaysKept == Spec => []LibraryKept
<1>1. ReplayInv => LibraryKept
  BY DEF ReplayInv, ServerInv, LibraryKept, Token, Quiet, Requested, InTest, Answered, Killed,
         Testing, Outstanding
<1> QED  BY <1>1, ReplayInvariance, PTL

(* The destructor's kill messages find no child at work.                   *)
THEOREM NobodyOrphaned == Spec => []NoOrphans
<1>1. ReplayInv => NoOrphans
  BY AllAnswered DEF NoOrphans, Testing
<1> QED  BY <1>1, ReplayInvariance, PTL

-------------------------------------------------------------------------------
(***************************************************************************)
(* That the replay client keeps its promise, proved for any number of      *)
(* workers and tests and with all faults but failing forks.  ReplayProofs  *)
(* says where the token of a test is; here, what it says.                  *)
(***************************************************************************)
Verdict(w, t) == IF <<w, t>> \in Crashes THEN "crash" ELSE "report"

(* A response to the current test that says what it did in w, or that it   *)
(* could not be run.                                                       *)
Faithful(w, r) == r.test = test /\ r.what \in {"error", Verdict(w, test)}

(* Every child exists, and one that exits 1 crashed. *)
ChildrenHonest ==
    \A w \in Worker :
        /\ child[w] # "unforked"
        /\ child[w] = "exit 1" => <<w, msg[w]>> \in Crashes

AnswersHonest ==
    \A w \in Worker : toClient[w] # <<>> => Faithful(w, Head(toClient[w]))

ResultsHonest ==
    /\ client \in {"sleeping", "connecting", "sending"} => TestResults = <<>>
    /\ client = "receiving" =>
          /\ Len(TestResults) = next - 1
          /\ next <= Len(Workers) + 1
          /\ \A i \in 1 .. next - 1 : Faithful(Workers[i], TestResults[i])

PromiseInv == ReplayInv /\ ChildrenHonest /\ AnswersHonest /\ ResultsHonest

-------------------------------------------------------------------------------
LEMMA PromiseInitInv == Init => PromiseInv
BY InitInv DEF Init, WireInit, ServerInit, ClientInit, PromiseInv, ChildrenHonest,
               AnswersHonest, ResultsHonest

LEMMA ChildrenStep ==
    ASSUME "fork" \notin Faults, ReplayInv, ChildrenHonest, Next
    PROVE  ChildrenHonest'
<1>1. CASE parentNext
  BY <1>1 DEF parentNext, spawn, dump_worker_data, target, ChildrenHonest
<1>2. ASSUME NEW w \in Worker, workerNext(w) PROVE ChildrenHonest'
  <2>1. child[w] = "none" \/ worker[w] = "waiting"
    BY DEF ReplayInv, ServerInv
  <2> QED
    BY <1>2, <2>1 DEF workerNext, listen, accept, readPath, readKill, reap, moveWorker,
       ReplayInv, TypeOK, ServerTypeOK, ChildrenHonest
<1>3. ASSUME NEW w \in Worker, childNext(w) PROVE ChildrenHonest'
  BY <1>3 DEF childNext, load, run, ReplayInv, TypeOK, ServerTypeOK, ChildrenHonest
<1>4. CASE UNCHANGED server
  BY <1>4 DEF server, ChildrenHonest
<1> QED  BY <1>1, <1>2, <1>3, <1>4 DEF Next, ServerNext

(* A response is written for a test that is under way.                     *)
LEMMA RespondHonest ==
    ASSUME ReplayInv, AnswersHonest, NEW w \in Worker, Testing(w), UNCHANGED clientVars,
           NEW what \in {"error", Verdict(w, msg[w])}, respond(w, what)
    PROVE  AnswersHonest'
<1> DEFINE r == [test |-> msg[w], what |-> what]
<1>1. toWorker[w] = <<>> /\ toClient[w] = <<>> /\ msg[w] = test
  BY DEF ReplayInv, Token, Quiet, Requested, InTest, Answered, Killed
<1>2. toClient' = [toClient EXCEPT ![w] = Append(@, r)] /\ toClient \in [Worker -> Seq(Response)]
  BY DEF respond, ReplayInv, TypeOK, WireTypeOK
<1>3. Faithful(w, r)
  BY <1>1 DEF Faithful
<1>4. Head(Append(<<>>, r)) = r
  OBVIOUS
<1>5. toClient'[w] = Append(<<>>, r) /\ \A v \in Worker \ {w} : toClient'[v] = toClient[v]
  BY <1>1, <1>2
<1> QED  BY <1>3, <1>4, <1>5 DEF AnswersHonest, Faithful, clientVars, Verdict

LEMMA AnswersStep ==
    ASSUME PromiseInv, Next
    PROVE  AnswersHonest'
<1> USE DEF PromiseInv
<1>1. ASSUME UNCHANGED toClient, test' = test \/ \A w \in Worker : toClient[w] = <<>>
      PROVE  AnswersHonest'
  BY <1>1 DEF AnswersHonest, Faithful, Verdict
<1>2. CASE ServerNext /\ UNCHANGED clientVars
  <2>1. test' = test
    BY <1>2 DEF clientVars
  <2>2. CASE parentNext
    BY <1>1, <2>1, <2>2 DEF parentNext, spawn, dump_worker_data, target, wire
  <2>3. ASSUME NEW w \in Worker, listen(w) \/ accept(w) \/ readPath(w) \/ readKill(w)
        PROVE  AnswersHonest'
    BY <1>1, <2>1, <2>3 DEF listen, accept, readPath, readKill, wire
  <2>4. ASSUME NEW w \in Worker, reap(w) PROVE AnswersHonest'
    <3>1. CASE UNCHANGED toClient
      BY <1>1, <2>1, <3>1
    <3>2. CASE child[w] # "exit 0" /\ respond(w, "crash")
      <4>1. Testing(w) /\ Verdict(w, msg[w]) = "crash"
        BY <2>4, <3>2 DEF reap, Testing, ChildrenHonest, Verdict
      <4> QED  BY <1>2, <3>2, <4>1, RespondHonest
    <3> QED  BY <2>4, <3>1, <3>2 DEF reap
  <2>5. ASSUME NEW w \in Worker, load(w) PROVE AnswersHonest'
    <3>1. Testing(w)
      BY <2>5 DEF load, Testing
    <3>2. UNCHANGED toClient \/ respond(w, "error")
      BY <2>5 DEF load
    <3> QED  BY <1>1, <1>2, <2>1, <3>1, <3>2, RespondHonest
  <2>6. ASSUME NEW w \in Worker, run(w) PROVE AnswersHonest'
    <3>1. Testing(w)
      BY <2>6 DEF run, Testing
    <3>2. \/ UNCHANGED toClient
          \/ respond(w, "report") /\ Verdict(w, msg[w]) = "report"
      <4>1. CASE <<w, msg[w]>> \in Crashes
        BY <2>6, <4>1 DEF run
      <4>2. CASE <<w, msg[w]>> \notin Crashes
        BY <2>6, <4>2 DEF run, Verdict
      <4> QED  BY <4>1, <4>2
    <3> QED  BY <1>1, <1>2, <2>1, <3>1, <3>2, RespondHonest
  <2> QED  BY <1>2, <2>2, <2>3, <2>4, <2>5, <2>6 DEF ServerNext, workerNext, childNext
<1>3. CASE ClientNext /\ UNCHANGED server
  <2>1. CASE Wake \/ connectToAddr \/ connected \/ runTest \/ finish \/ destroy
             \/ killAllWorkers \/ return
    <3>1. UNCHANGED toClient /\ test' = test
      BY <2>1 DEF Wake, wake, connectToAddr, connected, runTest, finish, destroy,
                  killAllWorkers, return, send, wire
    <3> QED  BY <1>1, <3>1
  <2>2. CASE compile
    <3>1. UNCHANGED toClient
      BY <2>2 DEF compile
    <3>2. \A w \in Worker : toClient[w] = <<>>
      BY <2>2 DEF compile, ReplayInv, Token, Quiet, Killed, Outstanding
    <3> QED  BY <1>1, <3>1, <3>2
  <2>3. CASE waitTest
    <3> DEFINE w == Workers[next]
    <3>1. /\ client = "receiving" /\ next <= Len(Workers) /\ toClient[w] # <<>>
          /\ toClient' = [toClient EXCEPT ![w] = Tail(@)] /\ test' = test
      BY <2>3 DEF waitTest
    <3>2. Workers \in Seq(Worker) /\ Len(Workers) \in Nat /\ next \in Nat /\ 1 <= next
      BY ClientPlace
    <3>3. w \in Worker
      BY <3>1, <3>2
    <3> HIDE DEF w
    <3>4. toClient \in [Worker -> Seq(Response)]
      BY DEF ReplayInv, TypeOK, WireTypeOK
    <3>5. Len(toClient[w]) = 1
      BY <3>1, <3>3 DEF ReplayInv, Token, Quiet, Requested, InTest, Answered, Killed
    <3>6. \A v \in Worker : toClient'[v] = <<>> \/ toClient'[v] = toClient[v]
      BY <3>1, <3>3, <3>4, <3>5, Taken
    <3> QED  BY <3>1, <3>6 DEF AnswersHonest, Faithful, Verdict
  <2> QED  BY <1>3, <2>1, <2>2, <2>3 DEF ClientNext, awake
<1> QED  BY <1>2, <1>3 DEF Next

LEMMA ResultsStep ==
    ASSUME PromiseInv, Next
    PROVE  ResultsHonest'
<1> USE DEF PromiseInv
<1>1. /\ Workers \in Seq(Worker) /\ Len(Workers) \in Nat /\ next \in Nat /\ 1 <= next
      /\ TestResults \in Seq(Response) /\ Len(TestResults) \in Nat
  <2>1. TestResults \in Seq(Response)
    BY DEF ReplayInv, TypeOK, ClientTypeOK
  <2> QED  BY <2>1, ClientPlace
<1>2. CASE UNCHANGED clientVars
  BY <1>2 DEF clientVars, ResultsHonest, Faithful, Verdict
<1>3. CASE client' \notin {"sleeping", "connecting", "sending", "receiving"}
  BY <1>3 DEF ResultsHonest
<1>4. CASE Wake \/ connectToAddr
  BY <1>3, <1>4, LeaveFacts DEF Wake, wake, connectToAddr, leave, ResultsHonest
<1>5. CASE connected \/ finish \/ destroy \/ return \/ killAllWorkers
  <2>1. client' \in {"idle", "failed", "killing", "killed", "returned"}
    BY <1>5 DEF connected, finish, destroy, return, leave, killAllWorkers, send
  <2> QED  BY <1>3, <2>1
<1>6. CASE compile
  BY <1>3, <1>6 DEF compile, leave, ResultsHonest
<1>7. CASE runTest
  <2>1. client = "sending" /\ TestResults = <<>> /\ TestResults' = TestResults
        /\ Workers' = Workers
    BY <1>7 DEF runTest, send, ResultsHonest
  <2>2. \/ client' = "sending"
        \/ client' = "receiving" /\ next' = 1
    BY <1>7 DEF runTest, send
  <2>3. Len(TestResults) = 0
    BY <2>1
  <2>4. 1 .. 1 - 1 = {}
    OBVIOUS
  <2> QED  BY <1>1, <2>1, <2>2, <2>3, <2>4 DEF ResultsHonest
<1>8. CASE waitTest
  <2> DEFINE r == Head(toClient[Workers[next]])
  <2>1. /\ client = "receiving" /\ client' = client /\ next <= Len(Workers) /\ next' = next + 1
        /\ toClient[Workers[next]] # <<>> /\ TestResults' = Append(TestResults, r)
        /\ UNCHANGED <<Workers, test>>
    BY <1>8 DEF waitTest
  <2>2. Workers[next] \in Worker
    BY <1>1, <2>1
  <2>3. Faithful(Workers[next], r)
    BY <2>1, <2>2 DEF AnswersHonest
  <2>4. r \in Response
    BY <2>1, <2>2, Taken DEF ReplayInv, TypeOK, WireTypeOK
  <2> HIDE DEF r
  <2>5. Len(TestResults) = next - 1
        /\ \A i \in 1 .. next - 1 : Faithful(Workers[i], TestResults[i])
    BY <2>1 DEF ResultsHonest
  <2>6. /\ Len(TestResults') = next
        /\ TestResults'[next] = r
        /\ \A i \in 1 .. next - 1 : TestResults'[i] = TestResults[i]
    BY <1>1, <2>1, <2>4, <2>5
  <2>7. \A i \in 1 .. next : Faithful(Workers[i], TestResults'[i])
    <3> TAKE i \in 1 .. next
    <3>1. CASE i = next
      BY <2>3, <2>6, <3>1
    <3>2. CASE i # next
      <4>1. i \in 1 .. next - 1
        BY <1>1, <3>2
      <4> QED  BY <2>5, <2>6, <4>1
    <3> QED  BY <3>1, <3>2
  <2>8. next' - 1 = next /\ next' <= Len(Workers) + 1
    BY <1>1, <2>1
  <2>9. \A i \in 1 .. next' - 1 : Faithful(Workers[i], TestResults[i])'
    BY <2>1, <2>7, <2>8 DEF Faithful, Verdict
  <2> QED  BY <2>1, <2>6, <2>8, <2>9 DEF ResultsHonest
<1> QED  BY <1>2, <1>4, <1>5, <1>6, <1>7, <1>8 DEF Next, ClientNext, awake

LEMMA PromiseInvariance ==
    ASSUME "fork" \notin Faults
    PROVE  Spec => []PromiseInv
<1>1. PromiseInv /\ [Next]_vars => PromiseInv'
  <2> SUFFICES ASSUME PromiseInv, [Next]_vars PROVE PromiseInv'
    OBVIOUS
  <2>1. ReplayInv'
    BY StepInv DEF PromiseInv
  <2>2. CASE Next
    BY <2>1, <2>2, ChildrenStep, AnswersStep, ResultsStep DEF PromiseInv
  <2>3. CASE UNCHANGED vars
    BY <2>1, <2>3 DEF vars, wire, server, clientVars, PromiseInv, ChildrenHonest,
           AnswersHonest, ResultsHonest, Faithful, Verdict
  <2> QED  BY <2>2, <2>3
<1> QED  BY <1>1, PromiseInitInv, PTL DEF Spec

-------------------------------------------------------------------------------
(* The responses of a test in which no error is: one per worker, in the    *)
(* order of the workers, and what the rewrite did in it.                   *)
LEMMA AllResults ==
    ASSUME PromiseInv, finish, \A i \in DOMAIN TestResults : TestResults[i].what # "error"
    PROVE  TestResults = [i \in DOMAIN Workers |->
                             [test |-> test, what |-> Verdict(Workers[i], test)]]
<1>1. client = "receiving" /\ next > Len(Workers)
  BY DEF finish
<1>2. /\ Workers \in Seq(Worker) /\ Len(Workers) \in Nat /\ next \in Nat
      /\ TestResults \in Seq(Response)
  BY ClientPlace DEF PromiseInv, ReplayInv, TypeOK, ClientTypeOK
<1>3. /\ Len(TestResults) = next - 1 /\ next <= Len(Workers) + 1
      /\ \A i \in 1 .. next - 1 : Faithful(Workers[i], TestResults[i])
  BY <1>1 DEF PromiseInv, ResultsHonest
<1>4. next - 1 = Len(Workers)
  BY <1>1, <1>2, <1>3
<1>5. DOMAIN TestResults = DOMAIN Workers /\ DOMAIN Workers = 1 .. next - 1
  BY <1>2, <1>3, <1>4
<1>6. ASSUME NEW i \in DOMAIN Workers
      PROVE  TestResults[i] = [test |-> test, what |-> Verdict(Workers[i], test)]
  <2>1. TestResults[i].test = test /\ TestResults[i].what = Verdict(Workers[i], test)
    BY <1>3, <1>5 DEF Faithful
  <2>2. TestResults[i] \in Response
    BY <1>2, <1>5
  <2> QED  BY <2>1, <2>2 DEF Response
<1>7. TestResults = [i \in DOMAIN TestResults |-> TestResults[i]]
  BY <1>2
<1> QED  BY <1>5, <1>6, <1>7

(* What the search gets from testRewrite is what the rewrite of that test  *)
(* did in each worker, whatever the processes' interleaving; a test ends   *)
(* in this way or ends the program.                                        *)
THEOREM PromiseKept ==
    ASSUME "fork" \notin Faults
    PROVE  Spec => KeepsPromise
<1>1. Init => Promise!Init
  BY DEF Init, WireInit, ServerInit, ClientInit, Promise!Init, Ended
<1>2. PromiseInv /\ [Next]_vars => [Promise!Next]_(Promise!vars)
  <2> SUFFICES ASSUME PromiseInv, [Next]_vars PROVE [Promise!Next]_(Promise!vars)
    OBVIOUS
  <2>1. CASE UNCHANGED clientVars
    BY <2>1 DEF clientVars, Promise!vars, Ended
  <2>2. CASE Wake \/ connected \/ runTest \/ waitTest \/ destroy \/ killAllWorkers
    <3>1. client \in {"sleeping", "connecting"} => TestResults = <<>>
      BY DEF PromiseInv, ResultsHonest
    <3> QED  BY <2>2, <3>1 DEF Wake, wake, connected, runTest, waitTest, destroy,
                 killAllWorkers, send, wire, Promise!vars, Ended
  <2>3. ASSUME NEW how \in {"cannot connect", "crashed", "failed", "returned"}, leave(how),
               UNCHANGED <<Workers, test>>
        PROVE  Promise!Next
    BY <2>3 DEF leave, Promise!Next, Promise!End, Ended
  <2>4. CASE connectToAddr
    <3>1. CASE leave("cannot connect") /\ UNCHANGED <<Workers, next>>
      BY <2>3, <2>4, <3>1 DEF connectToAddr
    <3>2. CASE client' = client /\ Workers' = Append(Workers, workerFile[next])
      <4>1. workerFile[next] \in Worker
        <5>1. workerFile \in Seq(Worker) /\ next \in Nat /\ 1 <= next /\ next <= Len(workerFile)
          BY <2>4, ClientPlace DEF connectToAddr, PromiseInv, ReplayInv, TypeOK, WireTypeOK
        <5> QED  BY <5>1, WorkerOf
      <4>2. client = "connecting" /\ test = 0 /\ test' = 0
        BY <2>4 DEF connectToAddr, PromiseInv, ReplayInv, ClientInv
      <4> QED  BY <3>2, <4>1, <4>2 DEF Promise!Next, Promise!Connect, Ended
    <3> QED  BY <2>4, <3>1, <3>2 DEF connectToAddr
  <2>5. CASE compile
    <3>1. CASE leave("crashed") /\ UNCHANGED <<libs, next, test, TestResults>>
      BY <2>3, <2>5, <3>1 DEF compile
    <3>2. CASE client' = "sending" /\ test' = test + 1
      <4>1. test + 1 \in Test
        <5>1. test \in 0 .. MaxTests /\ test < MaxTests
          BY <2>5 DEF compile, PromiseInv, ReplayInv, TypeOK, ClientTypeOK
        <5> QED  BY <5>1, WireAssumption DEF Test
      <4> QED  BY <2>5, <3>2, <4>1 DEF compile, Promise!Next, Promise!Begin, Ended
    <3> QED  BY <2>5, <3>1, <3>2 DEF compile
  <2>6. CASE finish
    <3>1. CASE leave("failed")
      BY <2>3, <2>6, <3>1 DEF finish
    <3>2. CASE client' = "idle" /\ \A i \in DOMAIN TestResults : TestResults[i].what # "error"
      <4>1. /\ client = "receiving" /\ UNCHANGED <<Workers, test, TestResults>>
        BY <2>6 DEF finish
      <4>2. TestResults = [i \in DOMAIN Workers |->
                              [test |-> test, what |-> Verdict(Workers[i], test)]]
        BY <2>6, <3>2, AllResults
      <4>3. test \in Test
        <5>1. test \in 0 .. MaxTests /\ test > 0
          BY <4>1 DEF PromiseInv, ReplayInv, TypeOK, ClientTypeOK, ClientInv
        <5> QED  BY <5>1, WireAssumption DEF Test
      <4>4. \A i \in DOMAIN Workers : Workers[i] \in Worker
        BY ClientPlace, WorkerOf DEF PromiseInv
      <4> DEFINE V == [c \in Worker \X Test |-> IF c \in Crashes THEN "crash" ELSE "report"]
      <4>5. \A w \in Worker : V[<<w, test>>] = Verdict(w, test)
        BY <4>3 DEF Verdict
      <4> HIDE DEF V
      <4>6. TestResults = [i \in DOMAIN Workers |-> [test |-> test, what |-> V[<<Workers[i], test>>]]]
        BY <4>2, <4>4, <4>5
      <4>7. Promise!Answer
        BY <3>2, <4>1, <4>6 DEF Promise!Answer, V, Ended
      <4> QED  BY <4>7 DEF Promise!Next
    <3> QED  BY <2>6, <3>1, <3>2 DEF finish
  <2>7. CASE return
    BY <2>3, <2>7 DEF return
  <2> QED  BY <2>1, <2>2, <2>4, <2>5, <2>6, <2>7 DEF Next, ClientNext, awake, vars
<1> QED  BY <1>1, <1>2, PromiseInvariance, PTL DEF Spec, KeepsPromise, Promise!Spec
===============================================================================
