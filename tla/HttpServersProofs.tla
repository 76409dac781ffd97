-------------------------- MODULE HttpServersProofs --------------------------
(***************************************************************************)
(* Proofs about HttpServers for any number of runs and any clients.        *)
(*                                                                         *)
(* That a sink has one user at a time rests on no two handlers reading it  *)
(* (OneReader), and on every open connection belonging to a run            *)
(* (Connected).  The servers of a run that is over only close: a rank of   *)
(* their states falls.                                                     *)
(***************************************************************************)
EXTENDS HttpServers, TLAPS

\* A connection is some run's exactly while it is open.
Connected == \A c \in Clients : stage[c] # "off" <=> conn[c] # 0

\* At most one handler is in a sink.
OneReader ==
  \A c, d \in Clients :
    stage[c] = "reading" /\ stage[d] = "reading" /\ conn[c] = conn[d] => c = d

IInv == TypeOK /\ Connected /\ OneReader
-----------------------------------------------------------------------------
LEMMA InitIInv == Init => IInv
<1> SUFFICES ASSUME Init PROVE IInv
  OBVIOUS
<1> USE HttpAssumption DEF Init, Runs
<1>1. PICK st \in {"none", "bound"} :
        server = [r \in Runs |->
                   [s \in Services |-> IF r = 1 /\ s = "sd" THEN st ELSE "none"]]
  OBVIOUS
<1>2. server \in [Runs -> [Services -> ServerStates]]
  BY <1>1 DEF Services, ServerStates, Open
<1>3. \A r \in Runs, s \in Services : r > run => server[r][s] = "none"
  BY <1>1 DEF Services
<1>4. stop \in BOOLEAN
  BY Zenon
<1>5. stage \in [Clients -> Stages] /\ conn \in [Clients -> 0..run] /\ run \in Runs
  BY DEF Stages
<1>6. /\ mutex \in [Runs -> {"free", "collector", "handler"}]
      /\ \A r \in Runs : mutex[r] = "collector" <=> (r = run /\ collector = "writing")
  OBVIOUS
<1>7. TypeOK
  BY <1>2, <1>3, <1>4, <1>5, <1>6 DEF TypeOK
<1> QED
  BY <1>7 DEF IInv, Connected, OneReader

\* Steps of main and of the collector that leave servers and connections alone.
LEMMA LoopIInv ==
  IInv /\ (Reload \/ Terminate \/ Exit \/ BeginWrite \/ EndWrite \/ Return) => IInv'
<1> SUFFICES ASSUME IInv, Reload \/ Terminate \/ Exit \/ BeginWrite \/ EndWrite \/ Return
             PROVE  IInv'
  OBVIOUS
<1> USE DEF IInv, TypeOK, mainVars, clientVars
<1>1. server' = server /\ stage' = stage /\ conn' = conn /\ run' = run
  BY DEF Reload, Terminate, Exit, BeginWrite, EndWrite, Return
<1>2. Connected' /\ OneReader'
  BY <1>1 DEF Connected, OneReader
<1>3. main' \in {"running", "draining", "exited"}
  BY DEF Reload, Terminate, Exit, BeginWrite, EndWrite, Return
<1>4. stop' \in BOOLEAN
  <2>1. CASE Terminate
    BY <2>1, Zenon DEF Terminate
  <2>2. CASE Reload \/ Exit \/ BeginWrite \/ EndWrite \/ Return
    <3>1. stop' = stop
      BY <2>2 DEF Reload, Exit, BeginWrite, EndWrite, Return
    <3> QED
      BY <3>1
  <2> QED
    BY <2>1, <2>2
<1>5. /\ collector' \in {"starting", "looping", "writing", "returned"}
      /\ mutex' \in [Runs -> {"free", "collector", "handler"}]
      /\ \A r \in Runs : mutex'[r] = "collector" <=> (r = run /\ collector' = "writing")
      /\ \A c \in Clients : stage[c] = "reading" => mutex'[conn[c]] = "handler"
  <2>1. CASE Reload \/ Terminate \/ Exit
    BY <2>1 DEF Reload, Terminate, Exit
  <2>2. CASE BeginWrite
    BY <2>2 DEF BeginWrite
  <2>3. CASE EndWrite
    BY <2>3 DEF EndWrite
  <2>4. CASE Return
    BY <2>4 DEF Return
  <2> QED
    BY <2>1, <2>2, <2>3, <2>4
<1>6. TypeOK'
  BY <1>1, <1>3, <1>4, <1>5
<1> QED
  BY <1>2, <1>6

\* A step that makes a server of the current run, or of the next, listen.
LEMMA ListenIInv == IInv /\ (NextRun \/ Start) => IInv'
<1> SUFFICES ASSUME IInv, NextRun \/ Start PROVE IInv'
  OBVIOUS
<1> USE HttpAssumption DEF IInv, TypeOK, mainVars, clientVars, Runs
<1>1. CASE NextRun
  <2>1. PICK st \in {"none", "bound"} : server' = [server EXCEPT ![run']["sd"] = st]
    BY <1>1 DEF NextRun
  <2>2. /\ run' = run + 1 /\ run' \in Runs /\ stop' = stop /\ main' = "running"
        /\ collector = "returned" /\ collector' = "starting"
        /\ mutex' = mutex /\ stage' = stage /\ conn' = conn
    BY <1>1 DEF NextRun, Drained
  <2>3. server' \in [Runs -> [Services -> ServerStates]]
    BY <2>1, <2>2 DEF Services, ServerStates, Open
  <2>4. \A r \in Runs, s \in Services : r # run' => server'[r][s] = server[r][s]
    BY <2>1, <2>2
  <2>5. TypeOK'
    BY <2>2, <2>3, <2>4
  <2> QED
    BY <2>2, <2>5 DEF Connected, OneReader
<1>2. CASE Start
  <2>1. /\ collector' \in {"returned", "looping"} /\ collector = "starting"
        /\ run' = run /\ stop' = stop /\ main' = main
        /\ mutex' = mutex /\ stage' = stage /\ conn' = conn
    BY <1>2 DEF Start
  <2>2. /\ server' \in [Runs -> [Services -> ServerStates]]
        /\ \A r \in Runs, s \in Services :
             server'[r][s] = server[r][s] \/ (r = run /\ server'[r][s] = "bound")
    <3>1. CASE server' = server
      BY <3>1
    <3>2. CASE server' = [server EXCEPT ![run]["metrics"] = "bound"]
      <4>1. "metrics" \in Services /\ "bound" \in ServerStates
        BY DEF Services, ServerStates, Open
      <4> QED
        BY <3>2, <4>1
    <3> QED
      BY <1>2, <3>1, <3>2 DEF Start
  <2>3. TypeOK'
    BY <2>1, <2>2
  <2> QED
    BY <2>1, <2>3 DEF Connected, OneReader
<1> QED
  BY <1>1, <1>2
-----------------------------------------------------------------------------
(* The servers.                                                            *)

\* Closing a listener takes the connections along that nobody handles.
LEMMA CloseIInv ==
  ASSUME IInv, NEW r \in Runs, NEW s \in Services, server[r][s] \in Open, Close(r, s),
         UNCHANGED <<mainVars, collector, mutex>>
  PROVE  IInv'
<1> DEFINE closed == {c \in Clients : At(c, r, s) /\ stage[c] \notin InHandler}
<1> USE DEF IInv, TypeOK, mainVars
<1>1. /\ server' = [server EXCEPT ![r][s] = "shut"]
      /\ stage' = [c \in Clients |-> IF c \in closed THEN "off" ELSE stage[c]]
      /\ conn' = [c \in Clients |-> IF c \in closed THEN 0 ELSE conn[c]]
  BY DEF Close
<1>2. server' \in [Runs -> [Services -> ServerStates]]
  BY <1>1 DEF ServerStates
<1>3. stage' \in [Clients -> Stages] /\ conn' \in [Clients -> 0..run]
  BY <1>1, HttpAssumption DEF Stages, Runs
<1>4. \A c \in Clients : stage'[c] \in InHandler
        => stage'[c] = stage[c] /\ conn'[c] = conn[c]
  BY <1>1 DEF InHandler
<1>5. \A q \in Runs, t \in Services : q > run => server'[q][t] = "none"
  BY <1>1 DEF Open
<1>6. TypeOK'
  BY <1>2, <1>3, <1>4, <1>5 DEF InHandler
<1>7. Connected'
  BY <1>1 DEF Connected
<1>8. OneReader'
  BY <1>4 DEF OneReader, InHandler
<1> QED
  BY <1>6, <1>7, <1>8

\* A listener that stays open, in another state.
LEMMA StaysOpenIInv ==
  ASSUME IInv, NEW r \in Runs, NEW s \in Services, NEW st \in Open,
         server[r][s] \in Open, server' = [server EXCEPT ![r][s] = st],
         UNCHANGED <<mainVars, collector, mutex, clientVars>>
  PROVE  IInv'
<1> USE DEF IInv, TypeOK, mainVars, clientVars
<1>1. server' \in [Runs -> [Services -> ServerStates]]
  BY DEF ServerStates
<1>2. \A q \in Runs, t \in Services :
        server'[q][t] = server[q][t] \/ (q = r /\ t = s /\ server'[q][t] = st)
  OBVIOUS
<1>3. TypeOK'
  BY <1>1, <1>2 DEF Open
<1> QED
  BY <1>3 DEF Connected, OneReader

LEMMA ServerIInv ==
  IInv /\ (\E r \in Runs, s \in Services : ServerStep(r, s)) => IInv'
<1> SUFFICES ASSUME IInv, NEW r \in Runs, NEW s \in Services, ServerStep(r, s)
             PROVE  IInv'
  OBVIOUS
<1>1. CASE Serve(r, s)
  <2>1. CASE server[r][s] = "doomed" /\ Close(r, s)
    BY <1>1, <2>1, CloseIInv DEF Serve, Open
  <2>2. CASE ~(server[r][s] = "doomed" /\ Close(r, s))
    <3>1. PICK st \in {"serving", "orphan"} : server' = [server EXCEPT ![r][s] = st]
      BY <1>1, <2>2 DEF Serve
    <3> QED
      BY <1>1, <2>2, <3>1, StaysOpenIInv DEF Serve, Open
  <2> QED
    BY <2>1, <2>2
<1>2. CASE Shutdown(r, s)
  <2>1. CASE server[r][s] = "bound"
    BY <1>2, <2>1, StaysOpenIInv DEF Shutdown, Open
  <2>2. CASE server[r][s] # "bound"
    BY <1>2, <2>2, CloseIInv DEF Shutdown, Open
  <2> QED
    BY <2>1, <2>2
<1>3. CASE Finalize(r, s)
  BY <1>3, CloseIInv DEF Finalize, Open
<1> QED
  BY <1>1, <1>2, <1>3 DEF ServerStep
-----------------------------------------------------------------------------
(* The requests.                                                           *)

LEMMA ClientIInv ==
  IInv /\ (\E c \in Clients : Dial(c) \/ Ask(c) \/ Lock(c) \/ Respond(c)) => IInv'
<1> SUFFICES ASSUME IInv, NEW c \in Clients, Dial(c) \/ Ask(c) \/ Lock(c) \/ Respond(c)
             PROVE  IInv'
  OBVIOUS
<1> USE HttpAssumption DEF IInv, TypeOK, mainVars, Runs
<1>1. /\ main' = main /\ stop' = stop /\ run' = run /\ collector' = collector
      /\ server' = server
  BY DEF Dial, Ask, Lock, Respond
<1>2. CASE Dial(c)
  <2>1. PICK r \in Runs : Listening(r, ServiceOf[c]) /\ conn' = [conn EXCEPT ![c] = r]
    BY <1>2 DEF Dial
  <2>2. stage' = [stage EXCEPT ![c] = "queued"] /\ mutex' = mutex /\ stage[c] = "off"
    BY <1>2 DEF Dial
  <2>3. r <= run
    BY <2>1 DEF Listening, Open
  <2>4. TypeOK'
    BY <1>1, <2>1, <2>2, <2>3 DEF Stages
  <2>5. Connected'
    BY <2>1, <2>2 DEF Connected
  <2>6. OneReader'
    BY <2>1, <2>2 DEF OneReader
  <2> QED
    BY <2>4, <2>5, <2>6
<1>3. CASE Ask(c)
  <2>1. /\ stage' = [stage EXCEPT ![c] = "asked"] /\ mutex' = mutex /\ conn' = conn
        /\ stage[c] \in {"queued", "kept"}
    BY <1>3 DEF Ask
  <2>2. TypeOK'
    BY <1>1, <2>1 DEF Stages, InHandler
  <2> QED
    BY <1>1, <2>1, <2>2 DEF Connected, OneReader
<1>4. CASE Lock(c)
  <2>1. /\ stage' = [stage EXCEPT ![c] = "reading"] /\ conn' = conn
        /\ mutex' = [mutex EXCEPT ![conn[c]] = "handler"]
        /\ stage[c] = "asked" /\ mutex[conn[c]] = "free"
    BY <1>4 DEF Lock
  <2>2. conn[c] \in Runs
    BY <2>1 DEF Connected
  <2>3. \A d \in Clients : stage[d] = "reading" => conn[d] # conn[c]
    BY <2>1
  <2>4. TypeOK'
    BY <1>1, <2>1, <2>2, <2>3 DEF Stages, InHandler
  <2>5. OneReader'
    BY <2>1, <2>3 DEF OneReader
  <2> QED
    BY <1>1, <2>1, <2>4, <2>5 DEF Connected
<1>5. CASE Respond(c)
  <2>1. stage[c] \in {"reading", "asked"} /\ conn[c] \in Runs
    BY <1>5 DEF Respond, Connected
  <2>2. /\ mutex' \in [Runs -> {"free", "collector", "handler"}]
        /\ \A r \in Runs : mutex'[r] = "collector" <=> mutex[r] = "collector"
        /\ \A d \in Clients : d # c /\ stage[d] = "reading" => mutex'[conn[d]] = "handler"
    <3>1. CASE stage[c] = "reading" /\ mutex' = [mutex EXCEPT ![conn[c]] = "free"]
      <4>1. \A d \in Clients : d # c /\ stage[d] = "reading" => conn[d] # conn[c]
        BY <3>1 DEF OneReader
      <4>2. mutex[conn[c]] = "handler"
        BY <3>1
      <4> QED
        BY <2>1, <3>1, <4>1, <4>2
    <3>2. CASE mutex' = mutex
      BY <3>2
    <3> QED
      BY <1>5, <3>1, <3>2 DEF Respond
  <2>3. CASE server[conn[c]][ServiceOf[c]] = "serving"
    <3>1. stage' = [stage EXCEPT ![c] = "kept"] /\ conn' = conn
      BY <1>5, <2>3 DEF Respond
    <3>2. TypeOK'
      BY <1>1, <2>2, <3>1 DEF Stages
    <3>3. Connected' /\ OneReader'
      BY <2>1, <3>1 DEF Connected, OneReader
    <3> QED
      BY <3>2, <3>3
  <2>4. CASE server[conn[c]][ServiceOf[c]] # "serving"
    <3>1. stage' = [stage EXCEPT ![c] = "off"] /\ conn' = [conn EXCEPT ![c] = 0]
      BY <1>5, <2>4 DEF Respond
    <3>2. TypeOK'
      BY <1>1, <2>2, <3>1 DEF Stages
    <3>3. Connected' /\ OneReader'
      BY <3>1 DEF Connected, OneReader
    <3> QED
      BY <3>2, <3>3
  <2> QED
    BY <2>3, <2>4
<1> QED
  BY <1>2, <1>3, <1>4, <1>5

LEMMA NextIInv == IInv /\ [Next]_httpVars => IInv'
<1>1. IInv /\ UNCHANGED httpVars => IInv'
  BY DEF IInv, TypeOK, Connected, OneReader, httpVars, mainVars, clientVars
<1> QED
  BY <1>1, LoopIInv, ListenIInv, ServerIInv, ClientIInv
     DEF Next, MainStep, CollectorStep

\* The inductive invariant holds in every reachable state of the servers.
THEOREM Invariance == Spec => []IInv
BY InitIInv, NextIInv, PTL DEF Spec
-----------------------------------------------------------------------------
\* Every variable keeps to its range, and a sink's mutex says who works in it.
THEOREM TypeCorrect == Spec => []TypeOK
BY Invariance, PTL DEF IInv

-----------------------------------------------------------------------------
(* The mutex of a sink.                                                    *)

\* A mutex that a handler holds is held by one that will give it back: no
\* connection is closed, and no server shut down, over a handler that is in the
\* sink (prometheus.go:449-450).
HeldByReader ==
  \A r \in Runs : mutex[r] = "handler" =>
    \E c \in Clients : stage[c] = "reading" /\ conn[c] = r

LEMMA NextHeldByReader == IInv /\ HeldByReader /\ [Next]_httpVars => HeldByReader'
<1> SUFFICES ASSUME IInv, HeldByReader, [Next]_httpVars PROVE HeldByReader'
  OBVIOUS
<1> USE DEF HeldByReader, mainVars, clientVars
<1>1. ASSUME \A r \in Runs : mutex'[r] = "handler" => mutex[r] = "handler",
             \A c \in Clients : stage[c] = "reading"
               => stage'[c] = "reading" /\ conn'[c] = conn[c]
      PROVE  HeldByReader'
  BY <1>1
<1>2. CASE Reload \/ Terminate \/ Exit \/ Return \/ NextRun \/ Start \/ UNCHANGED httpVars
  <2>1. UNCHANGED <<mutex, stage, conn>>
    BY <1>2 DEF Reload, Terminate, Exit, Return, NextRun, Start, httpVars
  <2> QED
    BY <2>1
<1>3. CASE BeginWrite \/ EndWrite
  <2>1. PICK st \in {"collector", "free"} : mutex' = [mutex EXCEPT ![run] = st]
    BY <1>3 DEF BeginWrite, EndWrite
  <2>2. UNCHANGED <<stage, conn>>
    BY <1>3 DEF BeginWrite, EndWrite
  <2> QED
    BY <2>1, <2>2 DEF IInv, TypeOK
<1>4. ASSUME NEW r \in Runs, NEW s \in Services, ServerStep(r, s) PROVE HeldByReader'
  <2>1. UNCHANGED mutex /\ (UNCHANGED <<stage, conn>> \/ Close(r, s))
    BY <1>4 DEF ServerStep, Serve, Shutdown, Finalize
  <2>2. CASE Close(r, s)
    BY <1>1, <2>1, <2>2 DEF Close, InHandler
  <2> QED
    BY <2>1, <2>2
<1>5. ASSUME NEW c \in Clients, Dial(c) \/ Ask(c) PROVE HeldByReader'
  BY <1>1, <1>5 DEF Dial, Ask, IInv, TypeOK
<1>6. ASSUME NEW c \in Clients, Lock(c) PROVE HeldByReader'
  BY <1>6 DEF Lock, IInv, TypeOK
<1>7. ASSUME NEW c \in Clients, Respond(c) PROVE HeldByReader'
  <2>1. CASE stage[c] = "reading"
    <3>1. conn[c] \in Runs /\ mutex' = [mutex EXCEPT ![conn[c]] = "free"]
      BY <1>7, <2>1, HttpAssumption DEF Respond, IInv, TypeOK, Connected, Runs
    <3>2. \A d \in Clients : d # c => stage'[d] = stage[d] /\ conn'[d] = conn[d]
      <4>1. CASE server[conn[c]][ServiceOf[c]] = "serving"
        BY <1>7, <4>1 DEF Respond, IInv, TypeOK
      <4>2. CASE server[conn[c]][ServiceOf[c]] # "serving"
        BY <1>7, <4>2 DEF Respond, IInv, TypeOK
      <4> QED
        BY <4>1, <4>2
    <3> QED
      BY <2>1, <3>1, <3>2 DEF IInv, TypeOK
  <2>2. CASE stage[c] # "reading"
    BY <1>1, <1>7, <2>2 DEF Respond, IInv, TypeOK
  <2> QED
    BY <2>1, <2>2
<1> QED
  BY <1>2, <1>3, <1>4, <1>5, <1>6, <1>7 DEF Next, MainStep, CollectorStep

\* No sink is left locked: whoever waits for it waits for a handler that is in it,
\* for its collector's write, or for nobody.
THEOREM NoLockLost == Spec => []HeldByReader
<1>1. Init => HeldByReader
  <2>1. Init => \A r \in Runs : mutex[r] = "free"
    BY Zenon DEF Init
  <2> QED
    BY <2>1 DEF HeldByReader
<1> QED
  BY <1>1, NextHeldByReader, Invariance, PTL DEF Spec
-----------------------------------------------------------------------------
(* How the servers of a run that is over go.                               *)

\* The steps that are left to the goroutines of a listener.
ToShut(st) ==
  CASE st = "bound"                 -> 3
    [] st = "doomed"                -> 2
    [] st \in {"serving", "orphan"} -> 1
    [] OTHER                        -> 0

\* The servers of a run that is over only ever get nearer to being shut: none of
\* them comes to listen again, and each of their steps leaves fewer of them
\* (prometheus.go:233-242, 287-296).
OldServersGo ==
  [][\A r \in Runs, s \in Services :
       /\ r < run => ToShut(server'[r][s]) <= ToShut(server[r][s])
       /\ ServerStep(r, s) => ToShut(server'[r][s]) < ToShut(server[r][s])]_httpVars

LEMMA ToShutAt ==
  /\ ToShut("bound") = 3 /\ ToShut("doomed") = 2
  /\ ToShut("serving") = 1 /\ ToShut("orphan") = 1
  /\ ToShut("none") = 0 /\ ToShut("shut") = 0
BY DEF ToShut

LEMMA ServerStepGoes ==
  ASSUME IInv, NEW r \in Runs, NEW s \in Services, ServerStep(r, s)
  PROVE  \E from \in Open, to \in Open \cup {"shut"} :
           /\ server[r][s] = from
           /\ server' = [server EXCEPT ![r][s] = to]
           /\ ToShut(to) < ToShut(from)
<1> USE ToShutAt DEF Open, Close
<1>1. CASE Serve(r, s)
  BY <1>1 DEF Serve
<1>2. CASE Shutdown(r, s)
  BY <1>2 DEF Shutdown
<1>3. CASE Finalize(r, s)
  BY <1>3 DEF Finalize
<1> QED
  BY <1>1, <1>2, <1>3 DEF ServerStep

\* OldRunsLeave but for the fairness: a listener of a run that is over is at most
\* three steps of its goroutines from being shut.
THEOREM OldServersOnlyGo == Spec => OldServersGo
<1> DEFINE Goes == \A r \in Runs, s \in Services :
                     /\ r < run => ToShut(server'[r][s]) <= ToShut(server[r][s])
                     /\ ServerStep(r, s)
                          => ToShut(server'[r][s]) < ToShut(server[r][s])
<1>1. ASSUME IInv, [Next]_httpVars, NEW r \in Runs, NEW s \in Services, r < run
      PROVE  ToShut(server'[r][s]) <= ToShut(server[r][s])
  <2>1. ToShut(server[r][s]) \in Nat
    BY DEF ToShut
  <2>2. CASE server'[r][s] = server[r][s]
    BY <2>1, <2>2
  <2>3. ASSUME NEW q \in Runs, NEW t \in Services, ServerStep(q, t)
        PROVE  ToShut(server'[r][s]) <= ToShut(server[r][s])
    <3>1. PICK to : /\ server' = [server EXCEPT ![q][t] = to]
                    /\ ToShut(to) < ToShut(server[q][t])
                    /\ ToShut(to) \in Nat
      BY <2>3, <1>1, ServerStepGoes, ToShutAt DEF Open
    <3>2. CASE r = q /\ s = t
      BY <1>1, <2>1, <3>1, <3>2 DEF IInv, TypeOK
    <3>3. CASE ~(r = q /\ s = t)
      BY <1>1, <2>2, <3>1, <3>3 DEF IInv, TypeOK
    <3> QED
      BY <3>2, <3>3
  <2>4. CASE NextRun \/ Start
    <3>1. run \in Nat /\ run' \in Nat /\ (NextRun => run' = run + 1)
      BY <1>1, <2>4 DEF NextRun, Start, mainVars, IInv, TypeOK, Runs
    <3>2. r # run /\ (NextRun => r # run')
      BY <1>1, <3>1 DEF Runs
    <3>3. ASSUME NextRun PROVE server'[r][s] = server[r][s]
      <4>1. PICK st \in {"none", "bound"} : server' = [server EXCEPT ![run']["sd"] = st]
        BY <3>3 DEF NextRun
      <4> QED
        BY <1>1, <3>1, <3>2, <3>3, <4>1 DEF IInv, TypeOK
    <3>4. ASSUME Start PROVE server'[r][s] = server[r][s]
      <4>1. \/ UNCHANGED server
            \/ server' = [server EXCEPT ![run]["metrics"] = "bound"]
        BY <3>4 DEF Start
      <4> QED
        BY <1>1, <3>2, <4>1 DEF IInv, TypeOK
    <3> QED
      BY <2>2, <2>4, <3>3, <3>4
  <2>5. CASE Reload \/ Terminate \/ Exit \/ BeginWrite \/ EndWrite \/ Return
             \/ UNCHANGED httpVars \/ \E c \in Clients : Dial(c) \/ Ask(c) \/ Lock(c) \/ Respond(c)
    <3>1. UNCHANGED server
      BY <2>5
         DEF Reload, Terminate, Exit, BeginWrite, EndWrite, Return, httpVars, Dial, Ask,
             Lock, Respond
    <3> QED
      BY <2>2, <3>1
  <2> QED
    BY <1>1, <2>3, <2>4, <2>5 DEF Next, MainStep, CollectorStep
<1>2. ASSUME IInv, NEW r \in Runs, NEW s \in Services, ServerStep(r, s)
      PROVE  ToShut(server'[r][s]) < ToShut(server[r][s])
  BY <1>2, ServerStepGoes DEF IInv, TypeOK
<1>3. IInv /\ [Next]_httpVars => [Goes]_httpVars
  BY <1>1, <1>2
<1>4. OldServersGo <=> [][Goes]_httpVars
  BY DEF OldServersGo
<1> QED
  BY <1>3, <1>4, Invariance, PTL DEF Spec
=============================================================================
