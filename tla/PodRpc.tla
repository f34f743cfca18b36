-------------------------------- MODULE PodRpc --------------------------------
(***************************************************************************)
(* One pod's control channel: the daemon's calls to vpinit and what comes  *)
(* back (internal/daemon/pod.go: callFD, spawnInPod, runToCompletion,      *)
(* readLoop; internal/pod/init.go: serve, handleSpawn, spawnWorker, reap). *)
(*                                                                         *)
(* A call is one goroutine of the daemon that starts a process in the pod  *)
(* and waits for its exit code. Two answers come back for it on one        *)
(* ordered socket and from two goroutines of vpinit: the reply, which      *)
(* names the pid, and the exit, which names only the pid.                  *)
(***************************************************************************)
EXTENDS Integers, Sequences

CONSTANTS
    MaxCalls,   \* bound on calls made, and so on processes started
    Sessions,   \* sessions the calls belong to
    FaultKinds, \* kinds of failure met in this instance
    None        \* absent: no reply yet, no waiter, no process

Ids  == 1..MaxCalls
Pids == 1..MaxCalls

ASSUME RpcAssumption == /\ MaxCalls \in Nat
                        /\ None \notin Ids \cup Sessions

VARIABLES
    call,     \* the daemon's calls: where each is, and what it has learned
    pending,  \* podState.pending: the calls readLoop would answer
    replies,  \* the channel of each call, with room for one reply
    waits,    \* podState.waits: which call hears of a pid's exit
    exits,    \* the exit channel of each call, with room for one code
    reading,  \* is readLoop running
    stopped,  \* podState.stopped is closed
    up,       \* vpinit runs, and with it the socket
    toInit,   \* the socket, towards vpinit
    toDaemon, \* the socket, towards the daemon
    task,     \* vpinit's handler goroutine of each call
    worker,   \* the call the spawn worker is busy with
    proc,     \* the pod's processes, by pid
    sessions, \* initServer.sessions: the pids whose exit is reported
    reaping   \* the pid Wait4 has returned and reap has not looked up yet

daemon == <<call, pending, replies, waits, exits, reading, stopped>>
vpinit == <<task, worker, proc, sessions, reaping>>
vars   == <<daemon, up, toInit, toDaemon, vpinit>>

Spawned(id, pid) == [op |-> "spawned", id |-> id, pid |-> pid]
Refused(id)      == [op |-> "err", id |-> id, pid |-> None]
\* The exit code stands for the process it is of: it is the call's own number.
Exited(pid, code) == [op |-> "exited", id |-> code, pid |-> pid]

-----------------------------------------------------------------------------
(* The daemon's calls.                                                     *)

Step(id, step) == call' = [call EXCEPT ![id].step = step]

\* callFD: the next number, the reply channel, the request. A socket that is
\* closed fails the call at once.
Ask(id, s) ==
    /\ call[id].step = "none" /\ \A j \in Ids : j < id => call[j].step # "none"
    /\ IF up
       THEN /\ call' = [call EXCEPT ![id].step = "asked", ![id].session = s]
            /\ pending' = pending \cup {id}
            /\ toInit' = Append(toInit, id)
       ELSE Step(id, "failed") /\ UNCHANGED <<pending, toInit>>
    /\ UNCHANGED <<replies, waits, exits, reading, stopped, up, toDaemon, vpinit>>

\* The reply arrived: the pid, or why there is none.
Reply(id) ==
    /\ call[id].step = "asked" /\ replies[id] # None
    /\ call' = [call EXCEPT ![id].pid  = replies[id].pid,
                            ![id].step = IF replies[id].op = "err" THEN "failed"
                                                                   ELSE "spawned"]
    /\ replies' = [replies EXCEPT ![id] = None]
    /\ UNCHANGED <<pending, waits, exits, reading, stopped, up, toInit, toDaemon,
                   vpinit>>

\* Mutant: a call that has given up is still pending.
TimeOutKeeps(id) ==
    /\ call[id].step = "asked" /\ ("slow" \in FaultKinds \/ ~up)
    /\ Step(id, "failed")
    /\ UNCHANGED <<pending, replies, waits, exits, reading, stopped, up, toInit,
                   toDaemon, vpinit>>

\* Ten seconds passed. Whether a reply arrived meanwhile is not looked at.
TimeOut(id) ==
    /\ call[id].step = "asked" /\ ("slow" \in FaultKinds \/ ~up)
    /\ pending' = pending \ {id}
    /\ Step(id, "failed")
    /\ UNCHANGED <<replies, waits, exits, reading, stopped, up, toInit, toDaemon,
                   vpinit>>

\* spawnInPod registers the waiter once it has the pid.
Register(id) ==
    /\ call[id].step = "spawned"
    /\ waits' = [waits EXCEPT ![call[id].pid] = id]
    /\ Step(id, "waiting")
    /\ UNCHANGED <<pending, replies, exits, reading, stopped, up, toInit, toDaemon,
                   vpinit>>

\* runToCompletion: the code, or the pod went down.
Done(id) ==
    /\ call[id].step = "waiting" /\ exits[id] # None
    /\ call' = [call EXCEPT ![id].step = "done", ![id].code = exits[id]]
    /\ exits' = [exits EXCEPT ![id] = None]
    /\ UNCHANGED <<pending, replies, waits, reading, stopped, up, toInit, toDaemon,
                   vpinit>>

GiveUp(id) ==
    /\ call[id].step = "waiting" /\ stopped
    /\ waits' = [waits EXCEPT ![call[id].pid] = None]
    /\ Step(id, "failed")
    /\ UNCHANGED <<pending, replies, exits, reading, stopped, up, toInit, toDaemon,
                   vpinit>>

-----------------------------------------------------------------------------
(* The daemon's readLoop.                                                  *)

Received == /\ reading /\ toDaemon # <<>>
            /\ toDaemon' = Tail(toDaemon)

\* Mutant: the reply answers the oldest call, not the one it names.
ReadReplyInOrder ==
    /\ Received /\ Head(toDaemon).op # "exited"
    /\ LET m == Head(toDaemon)
           id == CHOOSE i \in pending \cup {m.id} :
                    \A j \in pending : i <= j
       IN  /\ pending' = pending \ {id}
           /\ replies' = IF id \in pending THEN [replies EXCEPT ![id] = m]
                                           ELSE replies
    /\ UNCHANGED <<call, waits, exits, reading, stopped, up, toInit, vpinit>>

\* A reply nobody waits for is dropped, and its descriptors are closed.
ReadReply ==
    /\ Received /\ Head(toDaemon).op # "exited"
    /\ LET m == Head(toDaemon)
       IN  /\ pending' = pending \ {m.id}
           /\ replies' = IF m.id \in pending THEN [replies EXCEPT ![m.id] = m]
                                             ELSE replies
    /\ UNCHANGED <<call, waits, exits, reading, stopped, up, toInit, vpinit>>

\* Mutant: the exit goes to a waiter of the session, not to that of the pid.
WaiterOfSession(m) ==
    {id \in Ids : /\ \E p \in Pids : waits[p] = id
                  /\ call[id].session = call[m.id].session}

\* Mutant: the waiter is forgotten before it has been told.
WaiterForgotten(m) == {}

\* The waiter registered for the pid, if any.
WaiterOf(m) == {waits[m.pid]} \ {None}

\* An exit nobody waits for is dropped.
ReadExit ==
    /\ Received /\ Head(toDaemon).op = "exited"
    /\ LET m == Head(toDaemon)
       IN  /\ waits' = [waits EXCEPT ![m.pid] = None]
           /\ exits' = [id \in Ids |-> IF id \in WaiterOf(m) /\ exits[id] = None
                                       THEN m.id ELSE exits[id]]
    /\ UNCHANGED <<call, pending, replies, reading, stopped, up, toInit, vpinit>>

\* Mutant: the loop ends and tells nobody.
LinkLost ==
    /\ reading /\ ~up /\ (toDaemon = <<>> \/ stopped)
    /\ reading' = FALSE
    /\ UNCHANGED <<call, pending, replies, waits, exits, stopped, up, toInit,
                   toDaemon, vpinit>>

\* The socket is closed, by Kill even before it is empty: removePod, whose
\* close() closes stopped.
LinkClosed ==
    /\ reading /\ ~up /\ (toDaemon = <<>> \/ stopped)
    /\ reading' = FALSE
    /\ stopped' = TRUE
    /\ UNCHANGED <<call, pending, replies, waits, exits, up, toInit, toDaemon,
                   vpinit>>

-----------------------------------------------------------------------------
(* vpinit.                                                                 *)

\* serve: one goroutine per request; it never waits for them.
Serve ==
    /\ up /\ toInit # <<>>
    /\ task' = [task EXCEPT ![Head(toInit)] = "queued"]
    /\ toInit' = Tail(toInit)
    /\ UNCHANGED <<daemon, up, toDaemon, worker, proc, sessions, reaping>>

\* spawnWorker takes one request at a time. The program may not be found.
Fork(id) ==
    /\ up /\ task[id] = "queued" /\ worker = None
    /\ \/ \E pid \in Pids :
            /\ proc[pid].state = "none"
            /\ \A p \in Pids : p < pid => proc[p].state # "none"
            /\ proc' = [proc EXCEPT ![pid] = [state |-> "running", of |-> id]]
            /\ task' = [task EXCEPT ![id] = "forked"]
            /\ worker' = id
       \/ /\ "refuse" \in FaultKinds
          /\ task' = [task EXCEPT ![id] = "refused"]
          /\ UNCHANGED <<worker, proc>>
    /\ UNCHANGED <<daemon, up, toInit, toDaemon, sessions, reaping>>

PidOf(id) == CHOOSE pid \in Pids : proc[pid].of = id

\* After the fork, the pid is entered among those whose exit is reported.
Track(id) ==
    /\ up /\ worker = id
    /\ sessions' = sessions \cup {PidOf(id)}
    /\ task' = [task EXCEPT ![id] = "tracked"]
    /\ worker' = None
    /\ UNCHANGED <<daemon, up, toInit, toDaemon, proc, reaping>>

\* handleSpawn answers.
Answer(id) ==
    /\ up /\ task[id] \in {"tracked", "refused"}
    /\ toDaemon' = Append(toDaemon, IF task[id] = "refused" THEN Refused(id)
                                    ELSE Spawned(id, PidOf(id)))
    /\ task' = [task EXCEPT ![id] = "answered"]
    /\ UNCHANGED <<daemon, up, toInit, worker, proc, sessions, reaping>>

\* A process ends, when it will.
End(pid) ==
    /\ up /\ proc[pid].state = "running"
    /\ proc' = [proc EXCEPT ![pid].state = "zombie"]
    /\ UNCHANGED <<daemon, up, toInit, toDaemon, task, worker, sessions, reaping>>

\* reap: Wait4, then under the lock the session, then the message.
Reap(pid) ==
    /\ up /\ reaping = None /\ proc[pid].state = "zombie"
    /\ proc' = [proc EXCEPT ![pid].state = "gone"]
    /\ reaping' = pid
    /\ UNCHANGED <<daemon, up, toInit, toDaemon, task, worker, sessions>>

Report ==
    /\ up /\ reaping # None
    /\ IF reaping \in sessions
       THEN /\ toDaemon' = Append(toDaemon, Exited(reaping, proc[reaping].of))
            /\ sessions' = sessions \ {reaping}
       ELSE UNCHANGED <<toDaemon, sessions>>
    /\ reaping' = None
    /\ UNCHANGED <<daemon, up, toInit, task, worker, proc>>

-----------------------------------------------------------------------------
(* The end of the pod.                                                     *)

\* close(): stopped first; the rest of it ends with Kill.
Down ==
    /\ ~stopped
    /\ stopped' = TRUE
    /\ UNCHANGED <<call, pending, replies, waits, exits, reading, up, toInit,
                   toDaemon, vpinit>>

\* vpinit dies, killed by close() or of its own accord, and everything in the
\* pod with it. What it had sent can still be read.
Die ==
    /\ up /\ (stopped \/ "crash" \in FaultKinds)
    /\ up' = FALSE
    /\ toInit' = <<>>
    /\ proc' = [pid \in Pids |-> IF proc[pid].state = "none" THEN proc[pid]
                                 ELSE [proc[pid] EXCEPT !.state = "gone"]]
    /\ UNCHANGED <<daemon, toDaemon, task, worker, sessions, reaping>>

-----------------------------------------------------------------------------
Init ==
    /\ call = [id \in Ids |-> [step |-> "none", session |-> None, pid |-> None,
                               code |-> None]]
    /\ pending = {} /\ stopped = FALSE
    /\ replies = [id \in Ids |-> None] /\ exits = [id \in Ids |-> None]
    /\ waits = [pid \in Pids |-> None]
    /\ reading = TRUE /\ up = TRUE
    /\ toInit = <<>> /\ toDaemon = <<>>
    /\ task = [id \in Ids |-> "none"] /\ worker = None
    /\ proc = [pid \in Pids |-> [state |-> "none", of |-> None]]
    /\ sessions = {} /\ reaping = None

ReadLoop == ReadReply \/ ReadExit \/ LinkClosed

Caller(id) == Reply(id) \/ TimeOut(id) \/ Register(id) \/ Done(id) \/ GiveUp(id)

Vpinit == \/ Serve \/ Report
          \/ \E id \in Ids : Fork(id) \/ Track(id) \/ Answer(id)
          \/ \E pid \in Pids : Reap(pid)

Next ==
    \/ \E id \in Ids : (\E s \in Sessions : Ask(id, s)) \/ Caller(id)
    \/ ReadLoop \/ Vpinit
    \/ \E pid \in Pids : End(pid)
    \/ Down \/ Die

Spec == Init /\ [][Next]_vars

\* Goroutines and vpinit run on, and time passes; close() gets to its Kill.
\* Nothing is assumed of the processes, or of who asks.
Fairness == /\ \A id \in Ids : WF_vars(Caller(id))
            /\ WF_vars(ReadLoop) /\ WF_vars(Vpinit)
            /\ WF_vars(stopped /\ Die)

FairSpec == Spec /\ Fairness

-----------------------------------------------------------------------------
Steps == {"none", "asked", "spawned", "waiting", "done", "failed"}

\* What comes back on the socket.
Message == [op : {"spawned", "err", "exited"}, id : Ids, pid : Pids \cup {None}]

Call == [step : Steps, session : Sessions \cup {None}, pid : Pids \cup {None},
         code : Ids \cup {None}]

\* The types; and what the daemon is waiting for is what somebody waits for.
TypeOK ==
    /\ call \in [Ids -> Call]
    /\ pending \subseteq {id \in Ids : call[id].step = "asked"}
    /\ replies \in [Ids -> Message \cup {None}]
    /\ exits \in [Ids -> Ids \cup {None}]
    /\ waits \in [Pids -> Ids \cup {None}]
    /\ reading \in BOOLEAN /\ stopped \in BOOLEAN /\ up \in BOOLEAN
    /\ toInit \in Seq(Ids) /\ toDaemon \in Seq(Message)
    /\ task \in [Ids -> {"none", "queued", "forked", "tracked", "refused", "answered"}]
    /\ worker \in Ids \cup {None} /\ reaping \in Pids \cup {None}
    /\ proc \in [Pids -> [state : {"none", "running", "zombie", "gone"},
                          of : Ids \cup {None}]]
    /\ sessions \subseteq Pids

Waiting(id) == call[id].step = "waiting"

\* "Requests carry an id; anything without one is an event" (pod.go:132): a call
\* goes on with the pid of the process it asked for, however replies and time
\* limits are ordered.
ReplyIsOwn ==
    \A id \in Ids : call[id].pid # None => proc[call[id].pid].of = id

\* "the pid is the only key that identifies one" (pod.go:95): a call returns
\* the exit code of its own process, also in a session that holds several.
ExitIsOwn == \A id \in Ids : call[id].step = "done" => call[id].code = id

\* What a caller sees of all this, and what becomes of the process it asked for.
Seen(id) == CASE call[id].step = "none" -> "no"
              [] call[id].step \in {"done", "failed"} -> call[id].step
              [] OTHER -> "waiting"
OwnStates(id) == {proc[pid].state : pid \in {p \in Pids : proc[p].of = id}}
Became(id) == IF OwnStates(id) = {} THEN "none"
              ELSE IF "running" \in OwnStates(id) THEN "running" ELSE "ended"
Promised == INSTANCE Calls WITH
    asked   <- [id \in Ids |-> Seen(id)],
    process <- [id \in Ids |-> Became(id)]

\* However replies, exits, time limits and the pod's end are ordered, a call is
\* what runToCompletion promises: one process is started for it at most, and it
\* comes back once, with an exit code only when that process has ended
\* (pod.go's callFD, readLoop, spawnInPod and runToCompletion).
ImplementsCalls == Promised!Spec

\* A call that waits while its process is running hears of its end.
EndIsHeard ==
    \A id \in Ids, pid \in Pids :
        [](/\ Waiting(id) /\ call[id].pid = pid /\ proc[pid].state = "running"
           /\ <>(proc[pid].state = "gone")
           => <>~Waiting(id))

\* "pod %s went down while %v was running" (pod.go:256): nobody waits for ever
\* on a pod that is gone.
FreedWhenPodDies ==
    ~up ~> \A id \in Ids : call[id].step \in {"none", "done", "failed"}

\* "a short-lived process can finish before the reply to the spawn has been
\* read" (pod.go:217), and is heard all the same: the exit of the process a
\* call waits for has not been missed.
NoExitMissed ==
    \A id \in Ids : Waiting(id) /\ up /\ ~stopped =>
        LET pid == call[id].pid
        IN  \/ proc[pid].state \in {"running", "zombie"} \/ reaping = pid
            \/ \E i \in DOMAIN toDaemon : toDaemon[i].op = "exited" /\ toDaemon[i].pid = pid
            \/ exits[id] # None
=============================================================================
