---------------------------- MODULE PodRpc_proofs ----------------------------
(***************************************************************************)
(* What PodRpc promises for every number of calls and processes: the types *)
(* and the fact that a call only ever learns of its own process.           *)
(*                                                                         *)
(* The types are not inductive alone (a reply must name a process for the  *)
(* waiter to be entered under), and ReplyIsOwn and ExitIsOwn are about the *)
(* end of a chain: the process, vpinit's message, the reply or the waiter, *)
(* the call. Inv says of each link that it is about the same call.         *)
(***************************************************************************)
EXTENDS PodRpc, SequenceTheorems, TLAPS

\* A request that has forked, and not yet answered, has a process.
Forked ==
    \A id \in Ids : worker = id \/ task[id] \in {"forked", "tracked"} =>
        \E pid \in Pids : proc[pid].of = id

\* A pid is of a call once it is in use, and only such a pid is reaped.
Processes ==
    \A pid \in Pids :
        /\ proc[pid].state = "none" <=> proc[pid].of = None
        /\ reaping = pid => proc[pid].of # None

\* A message names a process of the call it is about, or says there is none.
Honest(m) == IF m.op = "err" THEN m.pid = None
           ELSE m.pid \in Pids /\ proc[m.pid].of = m.id

Truthful == \A i \in DOMAIN toDaemon : Honest(toDaemon[i])

\* A reply is handed to the call it answers, which is then not pending.
Answered ==
    \A id \in Ids : replies[id] # None =>
        /\ Honest(replies[id]) /\ replies[id].id = id /\ replies[id].op # "exited"
        /\ id \notin pending

\* What a call has learned fits the step it is at.
Learned ==
    \A id \in Ids :
        /\ call[id].step \in {"none", "asked"} => call[id].pid = None
        /\ call[id].step \in {"spawned", "waiting"} => call[id].pid # None
        /\ call[id].step = "none" => replies[id] = None
        /\ exits[id] # None => exits[id] = id

\* A waiter is entered under the pid its call has learned.
Waiters == \A pid \in Pids, id \in Ids : waits[pid] = id => call[id].pid = pid

Inv == /\ TypeOK /\ Forked /\ Processes /\ Truthful /\ Answered /\ Learned
       /\ Waiters /\ ReplyIsOwn /\ ExitIsOwn

-----------------------------------------------------------------------------
\* A call that moves to another step keeps all it has learned.
LEMMA Stepped ==
    ASSUME call \in [Ids -> Call], NEW id \in Ids, NEW st \in Steps, Step(id, st)
    PROVE  /\ call' \in [Ids -> Call]
           /\ call'[id].step = st /\ call'[id].pid = call[id].pid
           /\ call'[id].code = call[id].code
           /\ \A j \in Ids \ {id} : call'[j] = call[j]
<1> DEFINE c == [call[id] EXCEPT !.step = st]
<1>1. c \in Call /\ c.step = st /\ c.pid = call[id].pid /\ c.code = call[id].code
    BY DEF Call
<1>2. call' = [call EXCEPT ![id] = c]
    BY DEF Step
<1> QED
    BY <1>1, <1>2

\* In the initial state nothing is known of any call.
LEMMA InvInit == Init => Inv
<1> SUFFICES ASSUME Init PROVE Inv
    OBVIOUS
<1>1. TypeOK
  <2>1. call \in [Ids -> Call]
      BY DEF Init, Call, Steps
  <2>2. toInit \in Seq(Ids) /\ toDaemon \in Seq(Message)
      BY DEF Init
  <2>3. pending = {} /\ sessions = {}
      BY DEF Init
  <2> QED
      BY <2>1, <2>2, <2>3 DEF Init, TypeOK
<1>2. Forked /\ Processes
    BY RpcAssumption DEF Init, Forked, Processes, Ids, Pids
<1>3. Truthful /\ Answered /\ Learned
    BY DEF Init, Truthful, Answered, Learned
<1>4. Waiters /\ ReplyIsOwn /\ ExitIsOwn
    BY RpcAssumption DEF Init, Waiters, ReplyIsOwn, ExitIsOwn
<1> QED
    BY <1>1, <1>2, <1>3, <1>4 DEF Inv

\* The number a call takes has no reply, no exit and no process yet.
LEMMA InvAsk == ASSUME Inv, NEW id \in Ids, NEW s \in Sessions, Ask(id, s) PROVE Inv'
<1> USE DEF Inv
<1>1. call \in [Ids -> Call] /\ call[id] \in Call /\ call[id].pid = None
    BY DEF TypeOK, Learned, Ask
<1>2. PICK c \in Call : /\ call' = [call EXCEPT ![id] = c]
                        /\ c.step \in {"asked", "failed"} /\ c.pid = None
                        /\ up => c.step = "asked"
  <2> DEFINE c == IF up THEN [call[id] EXCEPT !.step = "asked", !.session = s]
                  ELSE [call[id] EXCEPT !.step = "failed"]
  <2>1. c \in Call /\ c.step = (IF up THEN "asked" ELSE "failed") /\ c.pid = None
      BY <1>1 DEF Call, Steps
  <2>2. call' = [call EXCEPT ![id] = c]
      BY <1>1 DEF Ask, Step
  <2> QED
      BY <2>1, <2>2
<1>3. call' \in [Ids -> Call] /\ call'[id] = c
      /\ \A j \in Ids \ {id} : call'[j] = call[j]
    BY <1>1, <1>2
<1>4. TypeOK'
  <2>1. (pending \subseteq {j \in Ids : call[j].step = "asked"})'
      BY <1>2, <1>3 DEF Ask, TypeOK
  <2>2. toInit' \in Seq(Ids)
    <3>1. toInit' = toInit \/ toInit' = Append(toInit, id)
        BY DEF Ask
    <3>2. toInit \in Seq(Ids)
        BY DEF TypeOK
    <3>3. Append(toInit, id) \in Seq(Ids)
        BY <3>2
    <3> QED
        BY <3>1, <3>2, <3>3
  <2> QED
      BY <1>3, <2>1, <2>2 DEF Ask, TypeOK, daemon, vpinit
<1>5. Answered' /\ Learned'
    BY <1>2, <1>3 DEF Ask, Answered, Learned, Honest, vpinit
<1>6. Forked' /\ Processes' /\ Truthful'
    BY DEF Ask, Forked, Processes, Truthful, Honest, vpinit
<1>7. Waiters' /\ ReplyIsOwn' /\ ExitIsOwn'
    BY <1>1, <1>2, <1>3, RpcAssumption DEF Ask, Waiters, ReplyIsOwn, ExitIsOwn, vpinit, Ids, Pids
<1> QED
    BY <1>4, <1>5, <1>6, <1>7

\* What a call learns from its reply is its own process.
LEMMA InvReply == ASSUME Inv, NEW id \in Ids, Reply(id) PROVE Inv'
<1> USE DEF Inv
<1> DEFINE st == IF replies[id].op = "err" THEN "failed" ELSE "spawned"
           c  == [call[id] EXCEPT !.pid = replies[id].pid, !.step = st]
<1>1. call \in [Ids -> Call] /\ call[id] \in Call /\ call[id].pid = None
    BY DEF TypeOK, Learned, Reply
<1>2. replies[id].pid \in Pids \cup {None} /\ Honest(replies[id]) /\ replies[id].id = id
      /\ id \notin pending
    BY DEF TypeOK, Reply, Answered, Message
<1>3. c \in Call /\ c.pid = replies[id].pid /\ c.step = st
    BY <1>1, <1>2 DEF Call, Steps
<1>4. call' = [call EXCEPT ![id] = c]
    BY DEF Reply
<1>5. call' \in [Ids -> Call] /\ call'[id] = c
      /\ \A j \in Ids \ {id} : call'[j] = call[j]
    BY <1>1, <1>3, <1>4
<1> HIDE DEF c
<1>6. TypeOK'
    BY <1>2, <1>5 DEF Reply, TypeOK, vpinit
<1>7. Answered' /\ Learned'
    BY <1>2, <1>3, <1>5, RpcAssumption
       DEF Reply, TypeOK, Answered, Learned, Honest, vpinit, Ids, Pids
<1>8. Forked' /\ Processes' /\ Truthful'
    BY DEF Reply, Forked, Processes, Truthful, Honest, vpinit
<1>9. Waiters' /\ ReplyIsOwn' /\ ExitIsOwn'
    BY <1>1, <1>2, <1>3, <1>5, RpcAssumption
       DEF Reply, Waiters, ReplyIsOwn, ExitIsOwn, Honest, vpinit, Ids, Pids
<1> QED
    BY <1>6, <1>7, <1>8, <1>9

\* A call that gives up is no longer pending, whatever its channel holds.
LEMMA InvTimeOut == ASSUME Inv, NEW id \in Ids, TimeOut(id) PROVE Inv'
<1> USE DEF Inv
<1>1. /\ call' \in [Ids -> Call]
      /\ call'[id].step = "failed" /\ call'[id].pid = call[id].pid
      /\ \A j \in Ids \ {id} : call'[j] = call[j]
    BY Stepped DEF TypeOK, TimeOut, Steps
<1>2. TypeOK'
    BY <1>1 DEF TimeOut, TypeOK, vpinit
<1>3. Answered' /\ Learned'
    BY <1>1 DEF TimeOut, Answered, Learned, Honest, vpinit
<1>4. Forked' /\ Processes' /\ Truthful'
    BY DEF TimeOut, Forked, Processes, Truthful, Honest, vpinit
<1>5. Waiters' /\ ReplyIsOwn' /\ ExitIsOwn'
    BY <1>1 DEF TimeOut, Waiters, ReplyIsOwn, ExitIsOwn, vpinit
<1> QED
    BY <1>2, <1>3, <1>4, <1>5

\* The waiter is entered under the pid the call has learned.
LEMMA InvRegister == ASSUME Inv, NEW id \in Ids, Register(id) PROVE Inv'
<1> USE DEF Inv
<1>1. /\ call' \in [Ids -> Call]
      /\ call'[id].step = "waiting" /\ call'[id].pid = call[id].pid
      /\ \A j \in Ids \ {id} : call'[j] = call[j]
    BY Stepped DEF TypeOK, Register, Steps
<1>2. call[id].pid \in Pids /\ id \notin pending
    BY DEF Register, TypeOK, Learned, Call
<1>3. waits' \in [Pids -> Ids \cup {None}] /\ waits'[call[id].pid] = id
      /\ \A p \in Pids \ {call[id].pid} : waits'[p] = waits[p]
    BY <1>2 DEF Register, TypeOK
<1>4. TypeOK'
    BY <1>1, <1>2, <1>3 DEF Register, TypeOK, vpinit
<1>5. Answered' /\ Learned'
    BY <1>1, <1>2 DEF Register, Answered, Learned, Honest, vpinit
<1>6. Forked' /\ Processes' /\ Truthful'
    BY DEF Register, Forked, Processes, Truthful, Honest, vpinit
<1>7. Waiters' /\ ReplyIsOwn' /\ ExitIsOwn'
    BY <1>1, <1>2, <1>3 DEF Register, Waiters, ReplyIsOwn, ExitIsOwn, vpinit
<1> QED
    BY <1>4, <1>5, <1>6, <1>7

\* The code a call returns is the one its channel held.
LEMMA InvDone == ASSUME Inv, NEW id \in Ids, Done(id) PROVE Inv'
<1> USE DEF Inv
<1> DEFINE c == [call[id] EXCEPT !.step = "done", !.code = exits[id]]
<1>1. call \in [Ids -> Call] /\ call[id] \in Call /\ exits[id] = id /\ id \notin pending
    BY DEF TypeOK, Learned, Done
<1>2. c \in Call /\ c.pid = call[id].pid /\ c.step = "done" /\ c.code = id
    BY <1>1 DEF Call, Steps
<1>3. call' = [call EXCEPT ![id] = c]
    BY <1>1 DEF Done
<1>4. call' \in [Ids -> Call] /\ call'[id] = c
      /\ \A j \in Ids \ {id} : call'[j] = call[j]
    BY <1>1, <1>2, <1>3
<1> HIDE DEF c
<1>5. TypeOK'
    BY <1>1, <1>4 DEF Done, TypeOK, vpinit
<1>6. Answered' /\ Learned'
    BY <1>1, <1>2, <1>4 DEF Done, TypeOK, Answered, Learned, Honest, vpinit
<1>7. Forked' /\ Processes' /\ Truthful'
    BY DEF Done, Forked, Processes, Truthful, Honest, vpinit
<1>8. Waiters' /\ ReplyIsOwn' /\ ExitIsOwn'
    BY <1>1, <1>2, <1>4 DEF Done, Waiters, ReplyIsOwn, ExitIsOwn, vpinit
<1> QED
    BY <1>5, <1>6, <1>7, <1>8

\* A call that is let go takes its waiter with it.
LEMMA InvGiveUp == ASSUME Inv, NEW id \in Ids, GiveUp(id) PROVE Inv'
<1> USE DEF Inv
<1>1. /\ call' \in [Ids -> Call]
      /\ call'[id].step = "failed" /\ call'[id].pid = call[id].pid
      /\ \A j \in Ids \ {id} : call'[j] = call[j]
    BY Stepped DEF TypeOK, GiveUp, Steps
<1>2. id \notin pending
    BY DEF GiveUp, TypeOK
<1>3. waits' \in [Pids -> Ids \cup {None}]
      /\ \A p \in Pids : waits'[p] \in {waits[p], None}
    BY DEF GiveUp, TypeOK
<1>4. TypeOK'
    BY <1>1, <1>2, <1>3 DEF GiveUp, TypeOK, vpinit
<1>5. Answered' /\ Learned'
    BY <1>1, <1>2 DEF GiveUp, Answered, Learned, Honest, vpinit
<1>6. Forked' /\ Processes' /\ Truthful'
    BY DEF GiveUp, Forked, Processes, Truthful, Honest, vpinit
<1>7. Waiters' /\ ReplyIsOwn' /\ ExitIsOwn'
    BY <1>1, <1>3, RpcAssumption DEF GiveUp, Waiters, ReplyIsOwn, ExitIsOwn, vpinit, Ids, Pids
<1> QED
    BY <1>4, <1>5, <1>6, <1>7

-----------------------------------------------------------------------------
\* The message at the head is honest, and so are those behind it.
LEMMA Received1 ==
    ASSUME TypeOK, Truthful, Received
    PROVE  /\ Head(toDaemon) \in Message /\ Honest(Head(toDaemon))
           /\ toDaemon' \in Seq(Message)
           /\ \A i \in DOMAIN toDaemon' : Honest(toDaemon'[i])
<1>1. toDaemon \in Seq(Message) /\ toDaemon # <<>> /\ toDaemon' = Tail(toDaemon)
    BY DEF TypeOK, Received
<1>2. Head(toDaemon) \in Message /\ Head(toDaemon) = toDaemon[1] /\ 1 \in DOMAIN toDaemon
    BY <1>1
<1>3. \A i \in DOMAIN toDaemon' : i + 1 \in DOMAIN toDaemon /\ toDaemon'[i] = toDaemon[i + 1]
    BY <1>1
<1> QED
    BY <1>1, <1>2, <1>3 DEF Truthful

\* A reply goes to the call it names, and to no other.
LEMMA InvReadReply == ASSUME Inv, ReadReply PROVE Inv'
<1> USE DEF Inv
<1> DEFINE m == Head(toDaemon)
<1>1. m \in Message /\ Honest(m) /\ m.id \in Ids /\ m.op # "exited"
      /\ toDaemon' \in Seq(Message) /\ \A i \in DOMAIN toDaemon' : Honest(toDaemon'[i])
    BY Received1 DEF ReadReply, Message
<1>2. /\ pending' = pending \ {m.id}
      /\ \A j \in Ids \ {m.id} : replies'[j] = replies[j]
      /\ replies'[m.id] = (IF m.id \in pending THEN m ELSE replies[m.id])
      /\ replies' \in [Ids -> Message \cup {None}]
    BY <1>1 DEF ReadReply, TypeOK
<1> HIDE DEF m
<1>3. TypeOK'
    BY <1>1, <1>2 DEF ReadReply, TypeOK, vpinit
<1>4. Answered'
    BY <1>1, <1>2 DEF ReadReply, Answered, Honest, vpinit
<1>5. Learned'
    BY <1>1, <1>2 DEF ReadReply, TypeOK, Learned, vpinit
<1>6. Forked' /\ Processes' /\ Truthful'
    BY <1>1 DEF ReadReply, Forked, Processes, Truthful, Honest, vpinit
<1>7. Waiters' /\ ReplyIsOwn' /\ ExitIsOwn'
    BY DEF ReadReply, Waiters, ReplyIsOwn, ExitIsOwn, vpinit
<1> QED
    BY <1>3, <1>4, <1>5, <1>6, <1>7

\* An exit goes to the call that waits under its pid, which is the call whose
\* process it is.
LEMMA InvReadExit == ASSUME Inv, ReadExit PROVE Inv'
<1> USE DEF Inv
<1> DEFINE m == Head(toDaemon)
<1>1. m \in Message /\ Honest(m) /\ m.id \in Ids /\ m.op = "exited"
      /\ toDaemon' \in Seq(Message) /\ \A i \in DOMAIN toDaemon' : Honest(toDaemon'[i])
    BY Received1 DEF ReadExit, Message
<1>2. m.pid \in Pids /\ proc[m.pid].of = m.id
    BY <1>1 DEF Honest
<1>3. \A id \in WaiterOf(m) : id \in Ids /\ id = m.id
  <2>1. m.pid \in Pids /\ waits \in [Pids -> Ids \cup {None}]
    BY <1>2 DEF TypeOK
  <2>2. \A id \in WaiterOf(m) : id = waits[m.pid] /\ id # None
    BY DEF WaiterOf
  <2>3. \A id \in WaiterOf(m) : id \in Ids /\ waits[m.pid] = id
    BY <2>1, <2>2
  <2> QED
    <3> SUFFICES ASSUME NEW id \in WaiterOf(m) PROVE id \in Ids /\ id = m.id
        OBVIOUS
    <3>1. id \in Ids /\ call[id].pid = m.pid
        BY <2>1, <2>3 DEF Waiters, Inv
    <3>2. call[id].pid # None
        BY <2>1, <3>1, RpcAssumption DEF Pids, Ids
    <3>3. proc[call[id].pid].of = id
        BY <3>1, <3>2 DEF ReplyIsOwn
    <3> QED
        BY <1>2, <3>1, <3>3
<1>4. /\ waits' \in [Pids -> Ids \cup {None}]
      /\ \A p \in Pids : waits'[p] \in {waits[p], None}
    BY <1>2 DEF ReadExit, TypeOK
<1>5. /\ exits' \in [Ids -> Ids \cup {None}]
      /\ \A id \in Ids : exits'[id] = exits[id] \/ exits'[id] = id
    BY <1>1, <1>3 DEF ReadExit, TypeOK
<1> HIDE DEF m
<1>6. TypeOK'
    BY <1>1, <1>4, <1>5 DEF ReadExit, TypeOK, vpinit
<1>7. Answered' /\ Learned'
    BY <1>5 DEF ReadExit, Answered, Learned, Honest, vpinit
<1>8. Forked' /\ Processes' /\ Truthful'
    BY <1>1 DEF ReadExit, Forked, Processes, Truthful, Honest, vpinit
<1>9. Waiters' /\ ReplyIsOwn' /\ ExitIsOwn'
    BY <1>4, RpcAssumption DEF ReadExit, Waiters, ReplyIsOwn, ExitIsOwn, vpinit, Ids, Pids
<1> QED
    BY <1>6, <1>7, <1>8, <1>9

\* The steps of the daemon that touch neither calls, messages nor processes.
LEMMA InvLink == ASSUME Inv, LinkClosed \/ Down PROVE Inv'
<1> USE DEF Inv
<1>1. TypeOK'
    BY DEF LinkClosed, Down, TypeOK, vpinit
<1>2. Answered' /\ Learned' /\ Forked' /\ Processes' /\ Truthful'
    BY DEF LinkClosed, Down, Answered, Learned, Forked, Processes, Truthful, Honest, vpinit
<1>3. Waiters' /\ ReplyIsOwn' /\ ExitIsOwn'
    BY DEF LinkClosed, Down, Waiters, ReplyIsOwn, ExitIsOwn, vpinit
<1> QED
    BY <1>1, <1>2, <1>3

-----------------------------------------------------------------------------
\* vpinit's steps leave everything the daemon knows alone.
LEMMA DaemonApart ==
    ASSUME Inv, UNCHANGED daemon,
           \A pid \in Pids : proc[pid].of # None => proc'[pid].of = proc[pid].of
    PROVE  /\ Answered' /\ Learned' /\ Waiters' /\ ReplyIsOwn' /\ ExitIsOwn'
           /\ toDaemon' = toDaemon => Truthful'
<1> USE DEF Inv, daemon
<1>1. \A m : (m.id \in Ids /\ Honest(m)) => Honest(m)'
    BY RpcAssumption DEF Honest
<1>2. Answered'
    BY <1>1 DEF Answered
<1>3. ReplyIsOwn'
    BY RpcAssumption DEF ReplyIsOwn, TypeOK, Call
<1>4. toDaemon' = toDaemon => Truthful'
  <2> SUFFICES ASSUME toDaemon' = toDaemon, NEW i \in DOMAIN toDaemon
               PROVE  Honest(toDaemon[i])'
      BY DEF Truthful
  <2>1. toDaemon[i] \in Message /\ Honest(toDaemon[i])
      BY DEF TypeOK, Truthful
  <2>2. toDaemon[i].id \in Ids
      BY <2>1 DEF Message
  <2> QED
      BY <1>1, <2>1, <2>2 DEF Honest
<1>5. Learned' /\ Waiters' /\ ExitIsOwn'
    BY DEF Learned, Waiters, ExitIsOwn
<1> QED
    BY <1>2, <1>3, <1>4, <1>5

\* A request is read and given to a goroutine.
LEMMA InvServe == ASSUME Inv, Serve PROVE Inv'
<1> USE DEF Inv
<1>1. Head(toInit) \in Ids /\ Tail(toInit) \in Seq(Ids)
    BY DEF Serve, TypeOK
<1>2. TypeOK'
    BY <1>1 DEF Serve, TypeOK, daemon
<1>3. Forked' /\ Processes'
    BY <1>1 DEF Serve, TypeOK, Forked, Processes
<1> QED
    BY <1>2, <1>3, DaemonApart DEF Serve

\* A process is started under a pid not in use before.
LEMMA InvFork == ASSUME Inv, NEW id \in Ids, Fork(id) PROVE Inv'
<1> USE DEF Inv
<1>1. CASE proc' = proc
  <2>1. \A pid \in Pids : proc[pid].state = "none" =>
            proc' # [proc EXCEPT ![pid] = [state |-> "running", of |-> id]]
      BY <1>1 DEF TypeOK
  <2>2. task' = [task EXCEPT ![id] = "refused"] /\ UNCHANGED worker
      BY <2>1 DEF Fork
  <2>3. TypeOK'
      BY <1>1, <2>2 DEF Fork, TypeOK, daemon
  <2>4. Forked' /\ Processes'
      BY <1>1, <2>2 DEF Fork, TypeOK, Forked, Processes
  <2> QED
      BY <1>1, <2>3, <2>4, DaemonApart DEF Fork
<1>2. CASE proc' # proc
  <2>1. PICK pid \in Pids : /\ proc[pid].state = "none"
                           /\ proc' = [proc EXCEPT ![pid] = [state |-> "running", of |-> id]]
                           /\ task' = [task EXCEPT ![id] = "forked"] /\ worker' = id
      BY <1>2 DEF Fork
  <2>2. /\ \A p \in Pids \ {pid} : proc'[p] = proc[p]
        /\ proc'[pid] = [state |-> "running", of |-> id] /\ proc[pid].of = None
      BY <2>1 DEF TypeOK, Processes
  <2>3. TypeOK'
      BY <2>1 DEF Fork, TypeOK, daemon
  <2>4. Forked' /\ Processes'
      BY <2>1, <2>2, RpcAssumption DEF Fork, TypeOK, Forked, Processes
  <2> QED
      BY <2>2, <2>3, <2>4, DaemonApart DEF Fork
<1> QED
    BY <1>1, <1>2

\* The process of a request that has one.
LEMMA PidOfForked ==
    ASSUME Forked, NEW id \in Ids, worker = id \/ task[id] \in {"forked", "tracked"}
    PROVE  PidOf(id) \in Pids /\ proc[PidOf(id)].of = id
BY DEF Forked, PidOf

\* The pid becomes one whose exit is reported.
LEMMA InvTrack == ASSUME Inv, NEW id \in Ids, Track(id) PROVE Inv'
<1> USE DEF Inv
<1>1. PidOf(id) \in Pids /\ proc[PidOf(id)].of = id
    BY PidOfForked DEF Track
<1>2. TypeOK'
    BY <1>1 DEF Track, TypeOK, daemon
<1>3. Forked' /\ Processes'
    BY <1>1, RpcAssumption DEF Track, TypeOK, Forked, Processes
<1> QED
    BY <1>2, <1>3, DaemonApart DEF Track

\* Messages of vpinit are honest, so the socket stays so.
LEMMA Sent ==
    ASSUME TypeOK, Truthful, NEW m \in Message, Honest(m), toDaemon' = Append(toDaemon, m)
    PROVE  toDaemon' \in Seq(Message) /\ \A i \in DOMAIN toDaemon' : Honest(toDaemon'[i])
<1>1. toDaemon \in Seq(Message)
    BY DEF TypeOK
<1>2. toDaemon' \in Seq(Message) /\ DOMAIN toDaemon' = 1..(Len(toDaemon) + 1)
    BY <1>1
<1>3. \A i \in DOMAIN toDaemon' :
        toDaemon'[i] = IF i \in DOMAIN toDaemon THEN toDaemon[i] ELSE m
    BY <1>1
<1> QED
    BY <1>2, <1>3 DEF Truthful

\* The answer names the process of the request.
LEMMA InvAnswer == ASSUME Inv, NEW id \in Ids, Answer(id) PROVE Inv'
<1> USE DEF Inv
<1> DEFINE m == IF task[id] = "refused" THEN Refused(id) ELSE Spawned(id, PidOf(id))
<1>1. m \in Message /\ Honest(m)
    BY PidOfForked DEF Answer, Refused, Spawned, Message, Honest
<1> HIDE DEF m
<1>2. toDaemon' = Append(toDaemon, m)
    BY DEF Answer, m
<1>3. toDaemon' \in Seq(Message) /\ \A i \in DOMAIN toDaemon' : Honest(toDaemon'[i])
    BY <1>1, <1>2, Sent
<1>4. TypeOK'
    BY <1>3 DEF Answer, TypeOK, daemon
<1>5. Truthful' /\ Forked' /\ Processes'
    BY <1>3 DEF Answer, TypeOK, Truthful, Honest, Forked, Processes
<1> QED
    BY <1>4, <1>5, DaemonApart DEF Answer

\* A process ends, and is collected, under its own pid.
LEMMA InvEndReap == ASSUME Inv, NEW pid \in Pids, End(pid) \/ Reap(pid) PROVE Inv'
<1> USE DEF Inv
<1>1. PICK st \in {"zombie", "gone"} :
        /\ proc' = [proc EXCEPT ![pid].state = st] /\ proc[pid].state # "none"
        /\ reaping' \in {reaping, pid}
    BY DEF End, Reap
<1>2. /\ \A p \in Pids : proc'[p].of = proc[p].of
      /\ \A p \in Pids : proc'[p].state = "none" <=> proc[p].state = "none"
      /\ proc' \in [Pids -> [state : {"none", "running", "zombie", "gone"},
                             of : Ids \cup {None}]]
    BY <1>1 DEF TypeOK
<1>3. TypeOK'
    BY <1>1, <1>2 DEF End, Reap, TypeOK, daemon
<1>4. Forked' /\ Processes'
    BY <1>1, <1>2, RpcAssumption DEF End, Reap, Forked, Processes, Ids, Pids
<1> QED
    BY <1>2, <1>3, <1>4, DaemonApart DEF End, Reap

\* The exit that is reported names the call of the process collected.
LEMMA InvReport == ASSUME Inv, Report PROVE Inv'
<1> USE DEF Inv
<1>1. CASE reaping \in sessions
  <2> DEFINE m == Exited(reaping, proc[reaping].of)
  <2>1. reaping \in Pids /\ proc[reaping].of \in Ids
      BY DEF Report, TypeOK, Processes
  <2>2. m \in Message /\ Honest(m)
      BY <2>1 DEF Exited, Message, Honest
  <2> HIDE DEF m
  <2>3. toDaemon' = Append(toDaemon, m)
      BY <1>1 DEF Report, m
  <2>4. toDaemon' \in Seq(Message) /\ \A i \in DOMAIN toDaemon' : Honest(toDaemon'[i])
      BY <2>2, <2>3, Sent
  <2>5. TypeOK'
      BY <2>4 DEF Report, TypeOK, daemon
  <2>6. Truthful' /\ Forked' /\ Processes'
      BY <2>4, RpcAssumption DEF Report, TypeOK, Truthful, Honest, Forked, Processes, Ids, Pids
  <2> QED
      BY <2>5, <2>6, DaemonApart DEF Report
<1>2. CASE reaping \notin sessions
  <2>1. TypeOK'
      BY <1>2 DEF Report, TypeOK, daemon
  <2>2. Forked' /\ Processes'
      BY <1>2, RpcAssumption DEF Report, Forked, Processes, Ids, Pids
  <2> QED
      BY <1>2, <2>1, <2>2, DaemonApart DEF Report
<1> QED
    BY <1>1, <1>2

\* Processes die with vpinit; whose they were does not change.
LEMMA InvDie == ASSUME Inv, Die PROVE Inv'
<1> USE DEF Inv
<1>1. /\ \A p \in Pids : proc'[p].of = proc[p].of
      /\ \A p \in Pids : proc'[p].state = "none" <=> proc[p].state = "none"
      /\ proc' \in [Pids -> [state : {"none", "running", "zombie", "gone"},
                             of : Ids \cup {None}]]
  <2>1. proc \in [Pids -> [state : {"none", "running", "zombie", "gone"},
                           of : Ids \cup {None}]]
    BY DEF TypeOK
  <2> QED
    BY <2>1 DEF Die
<1>2. TypeOK'
  <2>1. toInit' \in Seq(Ids)
      BY DEF Die
  <2> QED
      BY <1>1, <2>1 DEF Die, TypeOK, daemon
<1>3. Forked' /\ Processes'
    BY <1>1 DEF Die, Forked, Processes
<1> QED
    BY <1>1, <1>2, <1>3, DaemonApart DEF Die

\* A step of nobody changes nothing.
LEMMA InvStutter == ASSUME Inv, UNCHANGED vars PROVE Inv'
<1> USE DEF Inv
<1>1. TypeOK' /\ Forked' /\ Processes'
    BY DEF vars, daemon, vpinit, TypeOK, Forked, Processes
<1> QED
    BY <1>1, DaemonApart DEF vars, vpinit

-----------------------------------------------------------------------------
\* Every step of the daemon, of vpinit and of the pod's processes keeps the chain.
LEMMA InvNext == Inv /\ [Next]_vars => Inv'
<1> SUFFICES ASSUME Inv, [Next]_vars PROVE Inv'
    OBVIOUS
<1>1. ASSUME NEW id \in Ids, (\E s \in Sessions : Ask(id, s)) \/ Caller(id) PROVE Inv'
    BY <1>1, InvAsk, InvReply, InvTimeOut, InvRegister, InvDone, InvGiveUp DEF Caller
<1>2. ASSUME ReadLoop PROVE Inv'
    BY <1>2, InvReadReply, InvReadExit, InvLink DEF ReadLoop
<1>3. ASSUME Vpinit PROVE Inv'
    BY <1>3, InvServe, InvReport, InvFork, InvTrack, InvAnswer, InvEndReap DEF Vpinit
<1>4. ASSUME NEW pid \in Pids, End(pid) PROVE Inv'
    BY <1>4, InvEndReap
<1>5. ASSUME Down \/ Die PROVE Inv'
    BY <1>5, InvLink, InvDie
<1> QED
    BY <1>1, <1>2, <1>3, <1>4, <1>5, InvStutter DEF Next

\* Whatever the order of replies, exits, time limits and the pod's end, the state
\* has its types and only calls that still ask are pending.
THEOREM RpcTypeCorrect == Spec => []TypeOK
<1>1. Inv => TypeOK
    BY DEF Inv
<1> QED
    BY InvInit, InvNext, <1>1, PTL DEF Spec

\* callFD answers by number: a call goes on with the pid of its own process.
THEOREM RepliesAreOwn == Spec => []ReplyIsOwn
<1>1. Inv => ReplyIsOwn
    BY DEF Inv
<1> QED
    BY InvInit, InvNext, <1>1, PTL DEF Spec

\* readLoop hands out exits by pid: a call returns the code of its own process,
\* however many processes its session holds.
THEOREM ExitsAreOwn == Spec => []ExitIsOwn
<1>1. Inv => ExitIsOwn
    BY DEF Inv
<1> QED
    BY InvInit, InvNext, <1>1, PTL DEF Spec

-----------------------------------------------------------------------------
(* PodRpc implements Calls. The mapping reads a call's process off `proc`, *)
(* so it must be one, and a message or a code that ends a call must come   *)
(* from a process that is over.                                            *)

\* A request is on the socket once, before any handler of it, and only when its
\* call was made.
Requests ==
    /\ \A i, j \in DOMAIN toInit : toInit[i] = toInit[j] => i = j
    /\ \A i \in DOMAIN toInit : task[toInit[i]] = "none"
                               /\ call[toInit[i]].step # "none"
    /\ \A id \in Ids : call[id].step = "none" => task[id] = "none"

\* One process is started for a request, by its handler.
OneProcess ==
    /\ \A p, q \in Pids : proc[p].of # None /\ proc[p].of = proc[q].of => p = q
    /\ \A p \in Pids : proc[p].of # None => task[proc[p].of] \notin {"none", "queued"}

\* What is reported as ended has ended.
Over ==
    /\ reaping # None => proc[reaping].state = "gone"
    /\ \A i \in DOMAIN toDaemon :
          toDaemon[i].op = "exited" => proc[toDaemon[i].pid].state = "gone"
    /\ \A id \in Ids : exits[id] # None =>
          \E p \in Pids : proc[p].of = id /\ proc[p].state = "gone"

MapInv == Inv /\ Requests /\ OneProcess /\ Over

\* A handler's steps beyond the queue, and the daemon's beyond the request.
LEMMA RequestsKept ==
    ASSUME TypeOK, Requests, UNCHANGED toInit,
           \A id \in Ids : task[id] = "none" <=> task'[id] = "none",
           \A id \in Ids : call[id].step = "none" <=> call'[id].step = "none"
    PROVE  Requests'
<1>1. \A i \in DOMAIN toInit : toInit[i] \in Ids
    BY DEF TypeOK
<1> QED
    BY <1>1 DEF Requests

\* Processes that end are those of the same calls.
LEMMA OneProcessKept ==
    ASSUME TypeOK, OneProcess, \A p \in Pids : proc'[p].of = proc[p].of,
           \A id \in Ids : task[id] \notin {"none", "queued"} =>
                               task'[id] \notin {"none", "queued"}
    PROVE  OneProcess'
BY DEF OneProcess, TypeOK

\* Nothing that has ended runs again.
LEMMA OverKept ==
    ASSUME Inv, Over, reaping' \in {reaping, None},
           \A p \in Pids : /\ proc[p].state = "gone" => proc'[p].state = "gone"
                           /\ proc[p].of # None => proc'[p].of = proc[p].of,
           \A i \in DOMAIN toDaemon' : toDaemon'[i].op = "exited" =>
              /\ toDaemon'[i].pid \in Pids
              /\ proc[toDaemon'[i].pid].state = "gone",
           \A id \in Ids : exits'[id] \in {exits[id], None}
    PROVE  Over'
<1>1. reaping' # None => proc'[reaping'].state = "gone"
    BY DEF Over, Inv, TypeOK
<1>2. \A id \in Ids : exits'[id] # None =>
          \E p \in Pids : proc'[p].of = id /\ proc'[p].state = "gone"
    BY RpcAssumption DEF Over
<1> QED
    BY <1>1, <1>2 DEF Over

\* The exits on the socket are of processes that are gone.
LEMMA ExitsOnSocket ==
    ASSUME Inv, Over
    PROVE  \A i \in DOMAIN toDaemon : toDaemon[i].op = "exited" =>
              /\ toDaemon[i].pid \in Pids
              /\ proc[toDaemon[i].pid].state = "gone"
BY DEF Inv, Over, Truthful, Honest

\* How far a call gets in a step of its own, and that it takes nobody along.
LEMMA CallerSteps ==
    ASSUME TypeOK, NEW id \in Ids, Caller(id)
    PROVE  /\ \A j \in Ids \ {id} : call'[j] = call[j]
           /\ \/ call[id].step = "asked" /\ call'[id].step \in {"spawned", "failed"}
              \/ call[id].step = "spawned" /\ call'[id].step = "waiting"
              \/ call[id].step = "waiting" /\ call'[id].step = "failed"
              \/ call[id].step = "waiting" /\ call'[id].step = "done" /\ exits[id] # None
           /\ \A j \in Ids : exits'[j] \in {exits[j], None}
           /\ UNCHANGED <<up, toInit, toDaemon, vpinit>>
<1>1. call \in [Ids -> Call] /\ call[id] \in Call /\ exits \in [Ids -> Ids \cup {None}]
    BY DEF TypeOK
<1>2. CASE Reply(id)
  <2> DEFINE c == [call[id] EXCEPT !.pid = replies[id].pid,
                      !.step = IF replies[id].op = "err" THEN "failed" ELSE "spawned"]
  <2>1. c.step \in {"spawned", "failed"}
      BY <1>1 DEF Call
  <2>2. call' = [call EXCEPT ![id] = c]
      BY <1>2 DEF Reply
  <2>3. call'[id] = c /\ \A j \in Ids \ {id} : call'[j] = call[j]
      BY <1>1, <2>2
  <2> HIDE DEF c
  <2> QED
      BY <1>2, <2>1, <2>3 DEF Reply
<1>3. CASE TimeOut(id)
    BY <1>1, <1>3, Stepped DEF TimeOut, Steps
<1>4. CASE Register(id)
    BY <1>1, <1>4, Stepped DEF Register, Steps
<1>5. CASE Done(id)
  <2> DEFINE c == [call[id] EXCEPT !.step = "done", !.code = exits[id]]
  <2>1. c.step = "done"
      BY <1>1 DEF Call
  <2>2. call' = [call EXCEPT ![id] = c]
      BY <1>5 DEF Done
  <2>3. call'[id] = c /\ \A j \in Ids \ {id} : call'[j] = call[j]
      BY <1>1, <2>2
  <2> HIDE DEF c
  <2>4. \A j \in Ids : exits'[j] \in {exits[j], None}
      BY <1>1, <1>5 DEF Done
  <2> QED
      BY <1>5, <2>1, <2>3, <2>4 DEF Done
<1>6. CASE GiveUp(id)
    BY <1>1, <1>6, Stepped DEF GiveUp, Steps
<1> QED
    BY <1>2, <1>3, <1>4, <1>5, <1>6 DEF Caller

\* A call that is made is on its way, or has failed.
LEMMA AskSteps ==
    ASSUME TypeOK, NEW id \in Ids, NEW s \in Sessions, Ask(id, s)
    PROVE  /\ \A j \in Ids \ {id} : call'[j] = call[j]
           /\ call[id].step = "none" /\ call'[id].step \in {"asked", "failed"}
           /\ toInit' \in {toInit, Append(toInit, id)}
           /\ UNCHANGED <<exits, toDaemon, vpinit>>
<1> DEFINE c == IF up THEN [call[id] EXCEPT !.step = "asked", !.session = s]
                ELSE [call[id] EXCEPT !.step = "failed"]
<1>1. call \in [Ids -> Call] /\ call[id] \in Call
    BY DEF TypeOK
<1>2. c.step = IF up THEN "asked" ELSE "failed"
    BY <1>1 DEF Call
<1>3. call' = [call EXCEPT ![id] = c]
    BY DEF Ask, Step
<1>4. call'[id] = c /\ \A j \in Ids \ {id} : call'[j] = call[j]
    BY <1>1, <1>3
<1> HIDE DEF c
<1> QED
    BY <1>2, <1>4 DEF Ask

\* What a sequence holds after one more is put at its end.
LEMMA AppendIs ==
    ASSUME NEW S, NEW q \in Seq(S), NEW m
    PROVE  \A i \in DOMAIN Append(q, m) :
               Append(q, m)[i] = IF i \in DOMAIN q THEN q[i] ELSE m
OBVIOUS

\* In the initial state there are no requests and no processes.
LEMMA MapInit == Init => MapInv
BY InvInit, RpcAssumption DEF Init, MapInv, Requests, OneProcess, Over, Ids, Pids

\* Every step of the daemon and of vpinit keeps a call to one process, and what
\* is told of its end to what has ended.
LEMMA MapNext == MapInv /\ [Next]_vars => MapInv'
<1> SUFFICES ASSUME MapInv, [Next]_vars PROVE MapInv'
    OBVIOUS
<1> USE DEF MapInv
<1>inv. Inv' /\ TypeOK /\ TypeOK'
    BY InvNext DEF Inv
<1>soc. \A i \in DOMAIN toDaemon : toDaemon[i].op = "exited" =>
            toDaemon[i].pid \in Pids /\ proc[toDaemon[i].pid].state = "gone"
    BY ExitsOnSocket
<1>1. ASSUME NEW id \in Ids, NEW s \in Sessions, Ask(id, s) PROVE MapInv'
  <2>1. \A j \in Ids : (j # id => call'[j] = call[j]) /\ call'[id].step # "none"
      BY <1>1, <1>inv, AskSteps
  <2>2. Requests'
    <3>1. task[id] = "none" /\ task' = task
        BY <1>1 DEF Ask, vpinit, Requests
    <3>2. \A i \in DOMAIN toInit : toInit[i] \in Ids /\ toInit[i] # id
        BY <1>1, <1>inv DEF Ask, Requests, TypeOK
    <3>3. CASE toInit' = toInit
        BY <2>1, <3>1, <3>2, <3>3 DEF Requests
    <3>4. CASE toInit' = Append(toInit, id)
      <4>1. /\ DOMAIN toInit' = 1..(Len(toInit) + 1)
            /\ \A i \in DOMAIN toInit' :
                  toInit'[i] = IF i \in DOMAIN toInit THEN toInit[i] ELSE id
            /\ \A i \in DOMAIN toInit' : i \notin DOMAIN toInit => i = Len(toInit) + 1
          BY <3>4, <1>inv DEF TypeOK
      <4> QED
          BY <2>1, <3>1, <3>2, <4>1 DEF Requests
    <3> QED
        BY <1>1, <3>3, <3>4 DEF Ask
  <2>3. OneProcess'
      BY <1>1, <1>inv, OneProcessKept DEF Ask, vpinit
  <2>4. Over'
      BY <1>1, <1>soc, OverKept DEF Ask, vpinit
  <2> QED
      BY <1>inv, <2>2, <2>3, <2>4
<1>2. ASSUME NEW id \in Ids, Caller(id) PROVE MapInv'
  <2>1. /\ \A j \in Ids : call[j].step = "none" <=> call'[j].step = "none"
        /\ \A j \in Ids : exits'[j] \in {exits[j], None}
        /\ UNCHANGED <<toInit, toDaemon, vpinit>>
    <3>1. \A j \in Ids : j # id => call[j] = call'[j]
        BY <1>2, <1>inv, CallerSteps
    <3> QED
        BY <1>2, <1>inv, <3>1, CallerSteps
  <2>2. Requests'
      BY <1>inv, <2>1, RequestsKept DEF vpinit
  <2>3. OneProcess'
      BY <1>inv, <2>1, OneProcessKept DEF vpinit
  <2>4. Over'
      BY <1>soc, <2>1, OverKept DEF vpinit
  <2> QED
      BY <1>inv, <2>2, <2>3, <2>4
<1>3. ASSUME ReadReply \/ ReadExit PROVE MapInv'
  <2>1. /\ UNCHANGED <<call, toInit, vpinit>>
        /\ toDaemon \in Seq(Message) /\ toDaemon # <<>> /\ toDaemon' = Tail(toDaemon)
      BY <1>3, <1>inv DEF ReadReply, ReadExit, Received, TypeOK
  <2>2. \A i \in DOMAIN toDaemon' :
            i + 1 \in DOMAIN toDaemon /\ toDaemon'[i] = toDaemon[i + 1]
      BY <2>1
  <2>3. \A i \in DOMAIN toDaemon' : toDaemon'[i].op = "exited" =>
            toDaemon'[i].pid \in Pids /\ proc[toDaemon'[i].pid].state = "gone"
      BY <1>soc, <2>2
  <2>4. Requests' /\ OneProcess'
      BY <1>inv, <2>1, RequestsKept, OneProcessKept DEF vpinit
  <2>5. CASE exits' = exits
      BY <1>inv, <2>1, <2>3, <2>4, <2>5, OverKept DEF vpinit
  <2>6. CASE ReadExit
    <3> DEFINE m == Head(toDaemon)
    <3>1. m = toDaemon[1] /\ 1 \in DOMAIN toDaemon /\ m.op = "exited" /\ Honest(m)
        BY <2>1, <2>6 DEF ReadExit, Inv, Truthful
    <3>2. m.pid \in Pids /\ proc[m.pid].of = m.id /\ proc[m.pid].state = "gone"
        BY <1>soc, <3>1 DEF Honest
    <3>3. \A id \in Ids : exits'[id] # None =>
              exits[id] # None \/ (exits'[id] = m.id /\ exits'[id] = id)
        BY <1>inv, <2>6, InvNext DEF ReadExit, Inv, Learned
    <3>4. \A id \in Ids : exits'[id] # None =>
              \E p \in Pids : proc[p].of = id /\ proc[p].state = "gone"
        BY <3>2, <3>3 DEF Over
    <3> HIDE DEF m
    <3> QED
        BY <1>inv, <2>1, <2>3, <2>4, <3>4 DEF Over, vpinit
  <2> QED
      BY <1>3, <2>5, <2>6 DEF ReadReply
<1>4. ASSUME LinkClosed \/ Down \/ UNCHANGED vars PROVE MapInv'
  <2>1. UNCHANGED <<call, exits, toInit, toDaemon, vpinit>>
      BY <1>4 DEF LinkClosed, Down, vars, daemon
  <2>2. Requests' /\ OneProcess' /\ Over'
      BY <1>inv, <1>soc, <2>1, RequestsKept, OneProcessKept, OverKept DEF vpinit
  <2> QED
      BY <1>inv, <2>2
<1>5. ASSUME Serve PROVE MapInv'
  <2>1. /\ toInit \in Seq(Ids) /\ toInit # <<>> /\ toInit' = Tail(toInit)
        /\ task' = [task EXCEPT ![Head(toInit)] = "queued"]
        /\ UNCHANGED <<daemon, toDaemon, proc, reaping>>
      BY <1>5, <1>inv DEF Serve, TypeOK
  <2>2. /\ Head(toInit) = toInit[1] /\ 1 \in DOMAIN toInit /\ Head(toInit) \in Ids
        /\ \A i \in DOMAIN toInit' : /\ i \in Nat /\ i # 0 /\ i + 1 \in DOMAIN toInit
                                     /\ toInit'[i] = toInit[i + 1]
      BY <2>1
  <2>3. task[Head(toInit)] = "none" /\ call[Head(toInit)].step # "none"
      BY <2>2 DEF Requests
  <2>4. \A id \in Ids : task'[id] = IF id = Head(toInit) THEN "queued" ELSE task[id]
      BY <1>inv, <2>1 DEF TypeOK
  <2>5. \A i, j \in DOMAIN toInit' : toInit'[i] = toInit'[j] => i = j
      BY <2>2 DEF Requests
  <2>6. \A i \in DOMAIN toInit' : toInit'[i] # Head(toInit) /\ toInit'[i] \in Ids
      BY <1>inv, <2>2 DEF Requests, TypeOK
  <2>7. \A i \in DOMAIN toInit' : task'[toInit'[i]] = "none" /\ call[toInit'[i]].step # "none"
      BY <2>2, <2>4, <2>6 DEF Requests
  <2>8. Requests'
      BY <2>1, <2>3, <2>4, <2>5, <2>7 DEF Requests, daemon
  <2>9. OneProcess'
      BY <1>inv, <2>1, <2>3, <2>4, OneProcessKept
  <2>10. Over'
      BY <1>soc, <2>1, OverKept DEF daemon
  <2> QED
      BY <1>inv, <2>8, <2>9, <2>10
<1>6. ASSUME NEW id \in Ids, Fork(id) PROVE MapInv'
  <2>1. /\ \A j \in Ids : task'[j] = IF j = id THEN task'[id] ELSE task[j]
        /\ task[id] = "queued" /\ task'[id] \notin {"none", "queued"}
        /\ UNCHANGED <<daemon, toInit, toDaemon, reaping>>
      BY <1>6, <1>inv DEF Fork, TypeOK
  <2>2. Requests'
      BY <1>inv, <2>1, RequestsKept DEF daemon
  <2>3. \A p \in Pids : proc[p].of # None => proc[p].of \in Ids /\ proc[p].of # id
      BY <1>inv, <2>1 DEF OneProcess, TypeOK
  <2>4. CASE proc' = proc
    <3>1. OneProcess'
        BY <1>inv, <2>1, <2>4, OneProcessKept
    <3> QED
        BY <1>inv, <1>soc, <2>1, <2>2, <2>4, <3>1, OverKept DEF daemon
  <2>5. CASE proc' # proc
    <3>1. PICK pid \in Pids :
             proc[pid].state = "none" /\ proc[pid].of = None
             /\ proc' = [proc EXCEPT ![pid] = [state |-> "running", of |-> id]]
        BY <1>6, <2>5 DEF Fork, Inv, Processes
    <3>2. /\ \A p \in Pids \ {pid} : proc'[p] = proc[p]
          /\ proc'[pid].of = id /\ proc[pid].of = None /\ proc[pid].state # "gone"
        BY <1>inv, <3>1 DEF TypeOK
    <3>3. OneProcess'
        BY <2>1, <2>3, <3>2 DEF OneProcess
    <3>4. Over'
        BY <1>soc, <2>1, <3>2, OverKept DEF daemon
    <3> QED
        BY <1>inv, <2>2, <3>3, <3>4
  <2> QED
      BY <2>4, <2>5
<1>7. ASSUME NEW id \in Ids, Track(id) \/ Answer(id) PROVE MapInv'
  <2>1. /\ task[id] \notin {"none", "queued"}
        /\ \A j \in Ids : task'[j] = IF j = id THEN task'[id] ELSE task[j]
        /\ task'[id] \notin {"none", "queued"}
        /\ UNCHANGED <<daemon, toInit, proc, reaping>>
    <3>1. worker = id => \E pid \in Pids : proc[pid].of = id
        BY DEF Inv, Forked
    <3>2. worker = id => task[id] \notin {"none", "queued"}
        BY <3>1, RpcAssumption DEF OneProcess, Ids
    <3> QED
        BY <1>7, <1>inv, <3>2 DEF Track, Answer, TypeOK
  <2>2. Requests' /\ OneProcess'
      BY <1>inv, <2>1, RequestsKept, OneProcessKept DEF daemon
  <2>3. CASE toDaemon' = toDaemon
      BY <1>inv, <1>soc, <2>1, <2>2, <2>3, OverKept DEF daemon
  <2>4. CASE Answer(id)
    <3> DEFINE m == IF task[id] = "refused" THEN Refused(id) ELSE Spawned(id, PidOf(id))
    <3>1. m.op # "exited"
        BY DEF Refused, Spawned
    <3> HIDE DEF m
    <3>2. toDaemon \in Seq(Message) /\ toDaemon' = Append(toDaemon, m)
        BY <2>4, <1>inv DEF Answer, TypeOK, m
    <3>3. \A i \in DOMAIN toDaemon' :
              toDaemon'[i] = IF i \in DOMAIN toDaemon THEN toDaemon[i] ELSE m
        BY <1>inv, <3>2, AppendIs DEF TypeOK
    <3>4. Over'
        BY <1>soc, <2>1, <3>1, <3>3, OverKept DEF daemon
    <3> QED
        BY <1>inv, <2>2, <3>4
  <2> QED
      BY <1>7, <2>3, <2>4 DEF Track
<1>8. ASSUME NEW pid \in Pids, End(pid) \/ Reap(pid) PROVE MapInv'
  <2>1. /\ \A p \in Pids : proc'[p].of = proc[p].of
        /\ \A p \in Pids : proc[p].state = "gone" => proc'[p].state = "gone"
        /\ UNCHANGED <<daemon, toInit, toDaemon, task>>
        /\ reaping' = reaping \/ (reaping' = pid /\ proc'[pid].state = "gone")
    <3>1. PICK st \in {"zombie", "gone"} :
             /\ proc' = [proc EXCEPT ![pid].state = st] /\ proc[pid].state # "gone"
             /\ reaping' = reaping \/ (reaping' = pid /\ st = "gone")
        BY <1>8 DEF End, Reap
    <3>2. /\ \A p \in Pids : proc'[p].of = proc[p].of
          /\ \A p \in Pids \ {pid} : proc'[p] = proc[p]
          /\ proc'[pid].state = st
        BY <1>inv, <3>1 DEF TypeOK
    <3> QED
        BY <1>8, <3>1, <3>2 DEF End, Reap
  <2>2. Requests' /\ OneProcess'
      BY <1>inv, <2>1, RequestsKept, OneProcessKept DEF daemon
  <2>3. reaping' # None => proc'[reaping'].state = "gone"
      BY <1>inv, <2>1 DEF Over, TypeOK
  <2>4. Over'
      BY <1>soc, <2>1, <2>3 DEF Over, daemon
  <2> QED
      BY <1>inv, <2>2, <2>4
<1>9. ASSUME Report PROVE MapInv'
  <2>1. /\ reaping \in Pids /\ proc[reaping].state = "gone" /\ reaping' = None
        /\ UNCHANGED <<daemon, toInit, task, proc>>
      BY <1>9, <1>inv DEF Report, TypeOK, Over
  <2>2. Requests' /\ OneProcess'
      BY <1>inv, <2>1, RequestsKept, OneProcessKept DEF daemon
  <2>3. CASE toDaemon' = toDaemon
      BY <1>inv, <1>soc, <2>1, <2>2, <2>3, OverKept DEF daemon
  <2>4. CASE toDaemon' = Append(toDaemon, Exited(reaping, proc[reaping].of))
    <3> DEFINE m == Exited(reaping, proc[reaping].of)
    <3>1. m.pid = reaping
        BY DEF Exited
    <3> HIDE DEF m
    <3>2. \A i \in DOMAIN toDaemon' :
              toDaemon'[i] = IF i \in DOMAIN toDaemon THEN toDaemon[i] ELSE m
        BY <1>inv, <2>4, AppendIs DEF TypeOK, m
    <3>3. Over'
        BY <1>soc, <2>1, <3>1, <3>2, OverKept DEF daemon
    <3> QED
        BY <1>inv, <2>2, <3>3
  <2> QED
      BY <1>9, <2>3, <2>4 DEF Report
<1>10. ASSUME Die PROVE MapInv'
  <2>1. /\ \A p \in Pids : proc'[p].of = proc[p].of
        /\ \A p \in Pids : proc[p].state = "gone" => proc'[p].state = "gone"
        /\ toInit' = <<>>
        /\ UNCHANGED <<daemon, toDaemon, task, reaping>>
    <3>1. proc \in [Pids -> [state : {"none", "running", "zombie", "gone"},
                             of : Ids \cup {None}]]
        BY <1>inv DEF TypeOK
    <3> QED
        BY <1>10, <3>1 DEF Die
  <2>2. Requests'
      BY <2>1 DEF Requests, daemon
  <2>3. OneProcess' /\ Over'
      BY <1>inv, <1>soc, <2>1, OneProcessKept, OverKept DEF daemon
  <2> QED
      BY <1>inv, <2>2, <2>3
<1> QED
    BY <1>1, <1>2, <1>3, <1>4, <1>5, <1>6, <1>7, <1>8, <1>9, <1>10
       DEF Next, ReadLoop, Vpinit

\* What the mapping makes of the calls and their processes.
AskedBar == [id \in Ids |-> Seen(id)]
ProcessBar == [id \in Ids |-> Became(id)]

\* With one process for a call at most, the mapping says what became of that one.
LEMMA BecameIts ==
    ASSUME Processes, OneProcess, NEW id \in Ids
    PROVE  /\ \A p \in Pids : proc[p].of = id =>
                 Became(id) = IF proc[p].state = "running" THEN "running" ELSE "ended"
           /\ (\A p \in Pids : proc[p].of # id) => Became(id) = "none"
<1>1. ASSUME NEW p \in Pids, proc[p].of = id
      PROVE  OwnStates(id) = {proc[p].state}
    BY <1>1, RpcAssumption DEF OwnStates, OneProcess, Ids
<1> QED
    BY <1>1 DEF Became, OwnStates

\* The same after a step.
LEMMA BecameItsNext ==
    ASSUME Processes', OneProcess', NEW id \in Ids
    PROVE  /\ \A p \in Pids : proc'[p].of = id =>
                 Became(id)' = IF proc'[p].state = "running" THEN "running" ELSE "ended"
           /\ (\A p \in Pids : proc'[p].of # id) => Became(id)' = "none"
<1>1. ASSUME NEW p \in Pids, proc'[p].of = id
      PROVE  OwnStates(id)' = {proc'[p].state}
    BY <1>1, RpcAssumption DEF OwnStates, OneProcess, Ids
<1> QED
    BY <1>1 DEF Became, OwnStates

\* A step of one call maps to a step of it.
LEMMA AskedStep ==
    ASSUME NEW id \in Ids, \A j \in Ids \ {id} : call'[j] = call[j]
    PROVE  AskedBar' = [AskedBar EXCEPT ![id] = Seen(id)']
BY DEF AskedBar, Seen

\* Processes that are left alone stay what they are.
LEMMA ProcessStays == ASSUME UNCHANGED proc PROVE UNCHANGED ProcessBar
BY DEF ProcessBar, Became, OwnStates

\* Nothing that a caller could see happens.
LEMMA NothingSeen == ASSUME UNCHANGED <<call, proc>> PROVE UNCHANGED Promised!calls
<1>1. AskedBar' = AskedBar
    BY DEF AskedBar, Seen
<1> QED
    BY <1>1, ProcessStays DEF Promised!calls, AskedBar, ProcessBar

\* The initial states are those of Calls.
LEMMA CallsInit == Init => Promised!Init
BY RpcAssumption DEF Init, Promised!Init, Seen, Became, OwnStates, Ids, Pids

\* Every step is one that Calls allows, or none that a caller sees.
LEMMA CallsNext == MapInv /\ MapInv' /\ [Next]_vars => [Promised!Next]_(Promised!calls)
<1> SUFFICES ASSUME MapInv, MapInv', [Next]_vars
             PROVE  Promised!Next \/ UNCHANGED Promised!calls
    OBVIOUS
<1>inv. TypeOK /\ Processes /\ OneProcess /\ (Processes /\ OneProcess)'
    BY DEF MapInv, Inv
<1>1. ASSUME NEW id \in Ids, NEW s \in Sessions, Ask(id, s) PROVE Promised!Next
  <2>1. AskedBar' = [AskedBar EXCEPT ![id] = Seen(id)'] /\ AskedBar[id] = "no"
        /\ Seen(id)' \in {"waiting", "failed"}
      BY <1>1, <1>inv, AskSteps, AskedStep DEF AskedBar, Seen
  <2>2. UNCHANGED ProcessBar
      BY <1>1, ProcessStays DEF Ask, vpinit
  <2>3. Promised!Ask(id) \/ Promised!Fail(id)
      BY <2>1, <2>2 DEF Promised!Ask, Promised!Fail, AskedBar, ProcessBar
  <2> QED
      BY <2>3 DEF Promised!Next
<1>2. ASSUME NEW id \in Ids, Caller(id) PROVE Promised!Next \/ UNCHANGED Promised!calls
  <2>1. AskedBar' = [AskedBar EXCEPT ![id] = Seen(id)'] /\ AskedBar[id] = "waiting"
        /\ UNCHANGED ProcessBar
      BY <1>2, <1>inv, CallerSteps, AskedStep, ProcessStays DEF AskedBar, Seen, vpinit
  <2>2. CASE call'[id].step = "done"
    <3>1. exits[id] # None
        BY <1>2, <1>inv, <2>2, CallerSteps
    <3>2. ProcessBar[id] = "ended"
        BY <1>inv, <3>1, BecameIts DEF MapInv, Over, ProcessBar
    <3>3. Promised!Return(id)
        BY <2>1, <2>2, <3>2 DEF Promised!Return, AskedBar, ProcessBar, Seen
    <3> QED
        BY <3>3 DEF Promised!Next
  <2>3. CASE call'[id].step = "failed"
    <3>1. Promised!Fail(id)
        BY <2>1, <2>3 DEF Promised!Fail, AskedBar, ProcessBar, Seen
    <3> QED
        BY <3>1 DEF Promised!Next
  <2>4. CASE call'[id].step \in {"spawned", "waiting"}
    <3>1. AskedBar' = AskedBar
        BY <2>1, <2>4 DEF AskedBar, Seen
    <3> QED
        BY <2>1, <3>1 DEF Promised!calls, AskedBar, ProcessBar
  <2> QED
      BY <1>2, <1>inv, <2>2, <2>3, <2>4, CallerSteps
<1>3. ASSUME NEW id \in Ids, Fork(id), proc' # proc PROVE Promised!Next
  <2>1. PICK pid \in Pids : proc' = [proc EXCEPT ![pid] = [state |-> "running", of |-> id]]
                            /\ proc[pid].state = "none"
      BY <1>3 DEF Fork
  <2>2. /\ \A p \in Pids \ {pid} : proc'[p] = proc[p]
        /\ proc'[pid].of = id /\ proc'[pid].state = "running" /\ proc[pid].of = None
      BY <1>inv, <2>1 DEF TypeOK, Processes
  <2>3. task[id] = "queued" /\ UNCHANGED call
      BY <1>3 DEF Fork, daemon
  <2>4. \A p \in Pids : proc[p].of # id
      BY <2>3, RpcAssumption DEF MapInv, OneProcess, Ids
  <2>5. ProcessBar[id] = "none" /\ Became(id)' = "running"
      BY <1>inv, <2>2, <2>4, BecameIts, BecameItsNext DEF ProcessBar
  <2>6. \A j \in Ids \ {id} : Became(j)' = Became(j)
    <3> SUFFICES ASSUME NEW j \in Ids \ {id} PROVE OwnStates(j)' = OwnStates(j)
        BY DEF Became
    <3> QED
        BY <2>2, RpcAssumption DEF OwnStates, Ids
  <2>7. ProcessBar' = [ProcessBar EXCEPT ![id] = "running"]
      BY <2>5, <2>6 DEF ProcessBar
  <2>8. AskedBar[id] # "no" /\ UNCHANGED AskedBar
      BY <1>inv, <2>3 DEF MapInv, Requests, AskedBar, Seen, TypeOK
  <2>9. Promised!Start(id)
      BY <2>5, <2>7, <2>8 DEF Promised!Start, AskedBar, ProcessBar
  <2> QED
      BY <2>9 DEF Promised!Next
<1>4. ASSUME NEW pid \in Pids, End(pid) PROVE Promised!Next
  <2>0. PICK id \in Ids : id = proc[pid].of
      BY <1>4, <1>inv DEF End, TypeOK, Processes
  <2>1. /\ proc[pid].state = "running" /\ proc' = [proc EXCEPT ![pid].state = "zombie"]
        /\ UNCHANGED call
      BY <1>4 DEF End, daemon
  <2>2. /\ \A p \in Pids : proc'[p].of = proc[p].of
        /\ \A p \in Pids \ {pid} : proc'[p] = proc[p]
        /\ proc'[pid].state = "zombie"
      BY <1>inv, <2>1 DEF TypeOK
  <2>3. Became(id) = "running" /\ Became(id)' = "ended"
      BY <1>inv, <2>0, <2>1, <2>2, BecameIts, BecameItsNext
  <2>4. \A j \in Ids \ {id} : Became(j)' = Became(j)
    <3> SUFFICES ASSUME NEW j \in Ids \ {id} PROVE OwnStates(j)' = OwnStates(j)
        BY DEF Became
    <3> QED
        BY <2>0, <2>2 DEF OwnStates
  <2>5. ProcessBar' = [j \in Ids |-> IF j \in {id} THEN "ended" ELSE ProcessBar[j]]
      BY <2>1, <2>3, <2>4 DEF ProcessBar
  <2>6. UNCHANGED AskedBar
      BY <2>1 DEF AskedBar, Seen
  <2>7. Promised!End({id})
      BY <2>1, <2>3, <2>5, <2>6 DEF Promised!End, AskedBar, ProcessBar
  <2> QED
      BY <2>7 DEF Promised!Next
<1>5. ASSUME NEW pid \in Pids, Reap(pid) PROVE UNCHANGED Promised!calls
  <2>1. /\ proc[pid].state = "zombie" /\ proc' = [proc EXCEPT ![pid].state = "gone"]
        /\ UNCHANGED call
      BY <1>5 DEF Reap, daemon
  <2>2. /\ \A p \in Pids : proc'[p].of = proc[p].of
        /\ \A p \in Pids : proc'[p].state = "running" <=> proc[p].state = "running"
      BY <1>inv, <2>1 DEF TypeOK
  <2>3. \A j \in Ids : Became(j)' = Became(j)
      BY <1>inv, <2>2, BecameIts, BecameItsNext
  <2>4. UNCHANGED <<AskedBar, ProcessBar>>
      BY <2>1, <2>3 DEF AskedBar, ProcessBar, Seen
  <2> QED
      BY <2>4 DEF Promised!calls, AskedBar, ProcessBar
<1>6. ASSUME Die PROVE Promised!Next \/ UNCHANGED Promised!calls
  <2> DEFINE S == {j \in Ids : Became(j) = "running"}
  <2>1. /\ \A p \in Pids : proc'[p].of = proc[p].of /\ proc'[p].state # "running"
        /\ UNCHANGED call
    <3>1. proc \in [Pids -> [state : {"none", "running", "zombie", "gone"},
                             of : Ids \cup {None}]]
        BY <1>inv DEF TypeOK
    <3> QED
        BY <1>6, <3>1 DEF Die, daemon
  <2>2. \A j \in Ids : Became(j)' = IF j \in S THEN "ended" ELSE Became(j)
    <3> SUFFICES ASSUME NEW j \in Ids
                 PROVE  Became(j)' = IF j \in S THEN "ended" ELSE Became(j)
        OBVIOUS
    <3>1. CASE \A p \in Pids : proc[p].of # j
        BY <1>inv, <2>1, <3>1, BecameIts, BecameItsNext
    <3>2. ASSUME NEW p \in Pids, proc[p].of = j
          PROVE  Became(j)' = IF j \in S THEN "ended" ELSE Became(j)
        BY <1>inv, <2>1, <3>2, BecameIts, BecameItsNext
    <3> QED
        BY <3>1, <3>2
  <2>3. UNCHANGED AskedBar
      BY <2>1 DEF AskedBar, Seen
  <2>4. CASE S = {}
    <3>1. UNCHANGED ProcessBar
        BY <2>2, <2>4 DEF ProcessBar
    <3> QED
        BY <2>3, <3>1 DEF Promised!calls, AskedBar, ProcessBar
  <2>5. CASE S # {}
    <3>1. S \subseteq Ids /\ \A j \in S : ProcessBar[j] = "running"
        BY DEF ProcessBar
    <3>2. S = {j \in Ids : ProcessBar[j] = "running"}
        BY DEF ProcessBar
    <3>3. ProcessBar' = [j \in Ids |-> IF j \in S THEN "ended" ELSE ProcessBar[j]]
        BY <2>2 DEF ProcessBar
    <3> HIDE DEF S
    <3>4. Promised!End(S)
        BY <2>3, <2>5, <3>1, <3>3 DEF Promised!End, AskedBar, ProcessBar
    <3> QED
        BY <3>1, <3>2, <3>4 DEF Promised!Next, ProcessBar
  <2> QED
      BY <2>4, <2>5
<1>7. CASE UNCHANGED <<call, proc>>
    BY <1>7, NothingSeen
<1>8. ASSUME \/ ReadLoop \/ Serve \/ Report \/ Down \/ UNCHANGED vars
             \/ \E id \in Ids : Track(id) \/ Answer(id) \/ (Fork(id) /\ proc' = proc)
      PROVE  UNCHANGED <<call, proc>>
    BY <1>8 DEF ReadLoop, ReadReply, ReadExit, LinkClosed, Serve, Report, Down, Track,
                Answer, Fork, vars, daemon, vpinit
<1> QED
    BY <1>1, <1>2, <1>3, <1>4, <1>5, <1>6, <1>7, <1>8 DEF Next, Vpinit

\* However replies, exits, time limits and the pod's end are ordered, a call is
\* what runToCompletion promises its caller: one process at most is started for it,
\* and it comes back once, with an exit code only when that process has ended.
THEOREM PodRpcImplementsCalls == Spec => ImplementsCalls
<1> QED
    BY MapInit, MapNext, CallsInit, CallsNext, PTL DEF Spec, ImplementsCalls, Promised!Spec
=============================================================================
