------------------------------ MODULE NodeServer ------------------------------
(***************************************************************************)
(* vpnode, the process that keeps a pod on a node (internal/node/node.go): *)
(* building the pod, requests that add and remove mounts side by side, the *)
(* lease and its watcher, the three ways to stop, and `nodedown`, which    *)
(* runs beside it. Its FUSE mounts are internal/fs; the pod's binds are    *)
(* vpinit's, where a path bound twice shows the newer of the two.          *)
(*                                                                         *)
(* A mount is the number its mountpoint has; the node's own directories    *)
(* are bound without one. Unmounting a mount with unwritten data discards  *)
(* the data.                                                               *)
(***************************************************************************)
EXTENDS Integers, Sequences, FiniteSets, SequencesExt

CONSTANTS
    Paths,      \* where mounts go
    Own,        \* the paths of the spec that are the node's own directories
    Specs,      \* the other paths a spec may have, in order
    ReadOnly,   \* paths this machine is not the writer of
    Handlers,   \* requests made of one server, and so a bound on their number
    Builder,    \* serve itself, while it builds the pod
    MaxMounts,  \* bound on mountpoints made by one server
    MaxStarts,  \* bound on servers started
    FaultKinds, \* kinds of failure met in this instance
    None

Mounts  == 1..MaxMounts
Native  == 0
Workers == Handlers \cup {Builder}

VARIABLES
    server,   \* where serve is
    todo,     \* the spec's mounts that are still to be built
    seq,      \* server.seq: names the next mountpoint
    held,     \* server.held, in the order added
    fsm,      \* fs.Manager's mounts, in the order added
    job,      \* what each request is doing
    stopping, \* mounts the end of serve still has to flush
    expired,  \* server.expired
    lease,    \* has the lease run out
    watch,    \* leaseWatch: asleep, or flushing what is in "flushing"
    flushing,
    bound,    \* the binds of the pod's namespace, by path, newest last
    mounted,  \* the FUSE mounts below the run directory
    dir,      \* the run directory exists
    dirty,    \* mounts with data that is nowhere else
    said,     \* mounts whose failed flush was reported
    lost,     \* the steps that discarded data without saying so
    down,     \* where `nodedown` is
    starts,   \* servers started so far
    crossed,  \* paths two requests were about at once
    late      \* mounts of requests not finished as the server began to stop

memory == <<todo, seq, held, fsm, job, stopping, expired, lease, watch, flushing>>
kernel == <<bound, mounted, dir>>
data   == <<dirty, said, lost>>
history == <<starts, late, crossed>>
vars   == <<server, memory, kernel, data, down, history>>

\* What requests are making at this moment.
Making == {"enter", "bind", "undo", "remember"}
InFlight == {job[w].m : w \in {x \in Workers : job[x].step \in Making}}

Idle == [op |-> "none", at |-> None, m |-> None, step |-> "idle"]
Done == [Idle EXCEPT !.step = "done"]

Listening == server \in {"building", "serving"}

Unbound == [p \in Paths |-> <<>>]

\* vpinit and the processes of the pod are there.
Alive == server \in {"building", "serving", "closing"}

\* fusermount -u: the mounts go, and what they had not written with them.
Unmounting(ms, by) ==
    /\ mounted' = mounted \ ms
    /\ dirty' = dirty \ ms
    /\ lost' = IF ms \cap dirty \subseteq said THEN lost ELSE lost \cup {by}

\* Flush ends: everything was written, or it cannot be asked or takes too long.
Flushed(m) == m \in mounted \ dirty
FlushFails(m) == m \notin mounted \/ m \in dirty

Writable(ms) == {x \in Range(ms) : x.at \notin ReadOnly}
IdsOf(xs) == {x.m : x \in xs}

\* The first of these entries leaves the list, if there is any.
WithoutFirst(s, is) ==
    IF is = {} THEN s ELSE RemoveAt(s, CHOOSE i \in is : \A j \in is : i <= j)

-----------------------------------------------------------------------------
(* The pod and the machine the data belongs to.                            *)

\* A process of the pod writes to what it sees at a path.
Write(p) ==
    /\ Alive /\ bound[p] # <<>> /\ p \notin ReadOnly
    /\ Last(bound[p]) \in mounted
    /\ dirty' = dirty \cup {Last(bound[p])}
    /\ UNCHANGED <<server, memory, kernel, said, lost, down, history>>

Upload(m) ==
    /\ m \in dirty
    /\ dirty' = dirty \ {m}
    /\ UNCHANGED <<server, memory, kernel, said, lost, down, history>>

-----------------------------------------------------------------------------
(* One request. Nothing is held between its steps.                         *)

Go(w, step) == job' = [job EXCEPT ![w].step = step]
Answer(w)   == job' = [job EXCEPT ![w] = IF w = Builder THEN Idle ELSE Done]

\* What a request does next; serve's own mounts use the same code.
Ask(h, op, p) ==
    /\ server = "serving" /\ job[h] = Idle
    /\ job' = [job EXCEPT ![h] = [op |-> op, at |-> p, m |-> None,
                                  step |-> IF op = "add" THEN "fuse" ELSE "find"]]
    /\ crossed' = IF \E w \in Handlers : job[w].at = p THEN crossed \cup {p} ELSE crossed
    /\ UNCHANGED <<server, todo, seq, held, fsm, stopping, expired, lease, watch,
                   flushing, kernel, data, down, starts, late>>

\* addMount: the next mountpoint, and the backend's mount on it, which may fail.
MountFuse(w) ==
    /\ job[w].step = "fuse" /\ seq < MaxMounts
    /\ seq' = seq + 1
    /\ \/ /\ mounted' = mounted \cup {seq + 1}
          /\ job' = [job EXCEPT ![w].m = seq + 1, ![w].step = "enter"]
          /\ late' = IF Listening THEN late ELSE late \cup {seq + 1}
       \/ /\ "add" \in FaultKinds
          /\ Go(w, "failed")
          /\ UNCHANGED <<mounted, late>>
    /\ UNCHANGED <<server, todo, held, fsm, stopping, expired, lease, watch,
                   flushing, bound, dir, data, down, starts, crossed>>

\* Manager.Add, once the mount is there.
Enter(w) ==
    /\ job[w].step = "enter"
    /\ fsm' = Append(fsm, [at |-> job[w].at, m |-> job[w].m])
    /\ Go(w, "bind")
    /\ UNCHANGED <<server, todo, seq, held, stopping, expired, lease, watch,
                   flushing, kernel, data, down, history>>

\* OpBind, answered by vpinit, or by nobody once the pod is killed.
Bind(w) ==
    /\ job[w].step = "bind"
    /\ IF Alive
       THEN /\ bound' = [bound EXCEPT ![job[w].at] = Append(@, job[w].m)]
            /\ Go(w, "remember")
       ELSE Go(w, "undo") /\ UNCHANGED bound
    /\ UNCHANGED <<server, todo, seq, held, fsm, stopping, expired, lease, watch,
                   flushing, mounted, dir, data, down, history>>

Undo(w) ==
    /\ job[w].step = "undo"
    /\ fsm' = WithoutFirst(fsm, {i \in DOMAIN fsm : fsm[i].m = job[w].m})
    /\ Unmounting({job[w].m}, "undo")
    /\ Go(w, "failed")
    /\ UNCHANGED <<server, todo, seq, held, stopping, expired, lease, watch,
                   flushing, bound, dir, said, down, history>>

Remember(w) ==
    /\ job[w].step = "remember"
    /\ held' = Append(held, [at |-> job[w].at, m |-> job[w].m])
    /\ Answer(w)
    /\ UNCHANGED <<server, todo, seq, fsm, stopping, expired, lease, watch,
                   flushing, kernel, data, down, history>>

\* A request that failed is answered with the error. The pod of a server that
\* was building is killed, and its mounts stay.
Fail(w) ==
    /\ job[w].step = "failed"
    /\ IF w = Builder
       THEN /\ server' = "gone" /\ bound' = Unbound
            /\ job' = [x \in Workers |-> Idle]
       ELSE Answer(w) /\ UNCHANGED <<server, bound>>
    /\ UNCHANGED <<todo, seq, held, fsm, stopping, expired, lease, watch, flushing,
                   mounted, dir, data, down, history>>

\* removeMount: what is held there, and the last mount made for it, if any.
Find(h) ==
    /\ job[h].step = "find"
    /\ LET is == {i \in DOMAIN fsm : fsm[i].at = job[h].at}
           m  == IF is = {} THEN Native
                 ELSE fsm[CHOOSE i \in is : \A j \in is : j <= i].m
       IN  job' = [job EXCEPT
             ![h].m = m,
             ![h].step = IF \A i \in DOMAIN held : held[i].at # job[h].at THEN "failed"
                         ELSE IF m = Native \/ job[h].at \in ReadOnly THEN "unbind"
                         ELSE "flush"]
    /\ UNCHANGED <<server, todo, seq, held, fsm, stopping, expired, lease, watch,
                   flushing, kernel, data, down, history>>

\* Half a minute, and refuse if it cannot be flushed.
Flush(h) ==
    /\ job[h].step = "flush"
    /\ \/ Flushed(job[h].m) /\ Go(h, "unbind")
       \/ FlushFails(job[h].m) /\ Go(h, "failed")
    /\ UNCHANGED <<server, todo, seq, held, fsm, stopping, expired, lease, watch,
                   flushing, kernel, data, down, history>>

\* OpUnbind: the kernel takes the newest bind of the path.
Unbind(h) ==
    /\ job[h].step = "unbind"
    /\ LET p == job[h].at
       IN  IF Alive /\ bound[p] # <<>>
           THEN bound' = [bound EXCEPT ![p] = Front(@)] /\ Go(h, "remove")
           ELSE Go(h, "failed") /\ UNCHANGED bound
    /\ UNCHANGED <<server, todo, seq, held, fsm, stopping, expired, lease, watch,
                   flushing, mounted, dir, data, down, history>>

Release(h) ==
    /\ job[h].step = "remove"
    /\ fsm' = WithoutFirst(fsm, {i \in DOMAIN fsm : fsm[i].m = job[h].m})
    /\ Unmounting({job[h].m}, "remove")
    /\ Go(h, "forget")
    /\ UNCHANGED <<server, todo, seq, held, stopping, expired, lease, watch,
                   flushing, bound, dir, said, down, history>>

\* Mutant: everything held at the path is forgotten.
ForgetAll(h) ==
    /\ job[h].step = "forget"
    /\ held' = SelectSeq(held, LAMBDA x : x.at # job[h].at)
    /\ Answer(h)
    /\ UNCHANGED <<server, todo, seq, fsm, stopping, expired, lease, watch,
                   flushing, kernel, data, down, history>>

\* The first entry of the path is forgotten.
Forget(h) ==
    /\ job[h].step = "forget"
    /\ held' = WithoutFirst(held, {i \in DOMAIN held : held[i].at = job[h].at})
    /\ Answer(h)
    /\ UNCHANGED <<server, todo, seq, fsm, stopping, expired, lease, watch,
                   flushing, kernel, data, down, history>>

-----------------------------------------------------------------------------
(* Starting.                                                               *)

\* serve: nothing answers on the socket, so what a previous server left goes:
\* its processes, its mounts, its directories. The node's own directories are
\* bound as the pod is made.
Start ==
    /\ starts < MaxStarts /\ starts' = starts + 1
    /\ ~Listening /\ (down \in {"idle", "over"} \/ "overtake" \in FaultKinds)
    /\ server' = "building"
    /\ Unmounting(mounted, "sweep")
    /\ bound' = [p \in Paths |-> IF p \in Own THEN <<Native>> ELSE <<>>]
    /\ held' = SetToSeq({[at |-> p, m |-> Native] : p \in Own})
    /\ dir' = TRUE /\ todo' \in Specs
    /\ seq' = 0 /\ fsm' = <<>> /\ job' = [w \in Workers |-> Idle]
    /\ stopping' = {} /\ expired' = FALSE
    /\ lease' = "fresh" /\ watch' = "asleep" /\ flushing' = {}
    /\ said' = {} /\ late' = {} /\ crossed' = {}
    /\ UNCHANGED down

\* mountRemote takes the spec's mounts one after the other.
Build ==
    /\ server = "building" /\ todo # <<>> /\ job[Builder] = Idle
    /\ job' = [job EXCEPT ![Builder] = [op |-> "add", at |-> Head(todo), m |-> None,
                                        step |-> "fuse"]]
    /\ todo' = Tail(todo)
    /\ UNCHANGED <<server, seq, held, fsm, stopping, expired, lease, watch,
                   flushing, kernel, data, down, history>>

Listen ==
    /\ server = "building" /\ todo = <<>> /\ job[Builder] = Idle
    /\ server' = "serving" /\ lease' = "fresh"
    /\ UNCHANGED <<todo, seq, held, fsm, job, stopping, expired, watch, flushing,
                   kernel, data, down, history>>

-----------------------------------------------------------------------------
(* The lease.                                                              *)

Renew ==
    /\ server = "serving"
    /\ lease' = "fresh"
    /\ UNCHANGED <<server, todo, seq, held, fsm, job, stopping, expired, watch,
                   flushing, kernel, data, down, history>>

RunOut ==
    /\ server = "serving"
    /\ lease' = "out"
    /\ UNCHANGED <<server, todo, seq, held, fsm, job, stopping, expired, watch,
                   flushing, kernel, data, down, history>>

\* leaseWatch reads the lease, and from there on does not look at it again.
Notice ==
    /\ server \in {"serving", "closing", "killed", "unmounted"}
    /\ watch = "asleep" /\ lease = "out"
    /\ watch' = "flushing" /\ flushing' = IdsOf(Writable(fsm))
    /\ UNCHANGED <<server, todo, seq, held, fsm, job, stopping, expired, lease,
                   kernel, data, down, history>>

\* Two minutes each; what failed is only logged.
WatchFlush(m) ==
    /\ watch = "flushing" /\ m \in flushing
    /\ Flushed(m) \/ FlushFails(m)
    /\ flushing' = flushing \ {m}
    /\ UNCHANGED <<server, todo, seq, held, fsm, job, stopping, expired, lease,
                   watch, kernel, data, down, history>>

\* Mutant: the watcher marks the lease expired and leaves stopping to nodedown.
ExpireOnly ==
    /\ watch = "flushing" /\ flushing = {}
    /\ expired' = TRUE /\ watch' = "over"
    /\ UNCHANGED <<server, todo, seq, held, fsm, job, stopping, lease, flushing,
                   kernel, data, down, history>>

\* stop: the listener is closed, if it is not already.
Close == IF server = "serving"
         THEN server' = "closing" /\ late' = late \cup InFlight
         ELSE UNCHANGED <<server, late>>

\* Mutant: the server stops before the lease is marked expired.
ExpireUnmarked ==
    /\ watch = "flushing" /\ flushing = {}
    /\ watch' = "over"
    /\ Close
    /\ UNCHANGED <<todo, seq, held, fsm, job, stopping, expired, lease, flushing,
                   kernel, data, down, starts, crossed>>

Expire ==
    /\ watch = "flushing" /\ flushing = {}
    /\ expired' = TRUE /\ watch' = "over"
    /\ Close
    /\ UNCHANGED <<todo, seq, held, fsm, job, stopping, lease, flushing,
                   kernel, data, down, starts, crossed>>

-----------------------------------------------------------------------------
(* The end of serve, once its listener is closed.                          *)

\* The processes go first, so nothing is still writing.
Kill ==
    /\ server = "closing"
    /\ server' = "killed"
    /\ bound' = Unbound
    /\ stopping' = IdsOf(Writable(fsm))
    /\ UNCHANGED <<todo, seq, held, fsm, job, expired, lease, watch, flushing,
                   mounted, dir, data, down, history>>

\* Five minutes each; a flush that fails is said in the log.
StopFlush(m) ==
    /\ server = "killed" /\ m \in stopping
    /\ \/ Flushed(m) /\ UNCHANGED said
       \/ FlushFails(m) /\ said' = said \cup {m}
    /\ stopping' = stopping \ {m}
    /\ UNCHANGED <<server, todo, seq, held, fsm, job, expired, lease, watch,
                   flushing, kernel, dirty, lost, down, history>>

\* Manager.Unmount: every mount it knows by then.
Unmount ==
    /\ server = "killed" /\ stopping = {}
    /\ server' = "unmounted"
    /\ fsm' = <<>>
    /\ Unmounting(IdsOf(Range(fsm)), "stop")
    /\ UNCHANGED <<todo, seq, held, job, stopping, expired, lease, watch, flushing,
                   bound, dir, said, down, history>>

\* After an expiry nobody else will clear the directory.
Sweep ==
    /\ server = "unmounted" /\ expired
    /\ server' = "swept"
    /\ Unmounting(mounted, "sweep")
    /\ UNCHANGED <<memory, bound, dir, said, down, history>>

Erase ==
    /\ server = "swept"
    /\ server' = "erased"
    /\ dir' = FALSE
    /\ UNCHANGED <<memory, bound, mounted, data, down, history>>

\* serve returns; the requests still at work end with the process.
Exit ==
    /\ server = "erased" \/ (server = "unmounted" /\ ~expired)
    /\ server' = "gone"
    /\ job' = [w \in Workers |-> Idle]
    /\ UNCHANGED <<todo, seq, held, fsm, stopping, expired, lease, watch, flushing,
                   kernel, data, down, history>>

\* The process is killed, and vpinit with it.
Crash ==
    /\ "crash" \in FaultKinds /\ server \notin {"none", "gone"}
    /\ server' = "gone"
    /\ bound' = Unbound
    /\ job' = [w \in Workers |-> Idle]
    /\ late' = late \cup InFlight
    /\ UNCHANGED <<todo, seq, held, fsm, stopping, expired, lease, watch, flushing,
                   mounted, dir, data, down, starts, crossed>>

-----------------------------------------------------------------------------
(* `vibepod nodedown`, a process of its own.                               *)

\* Somebody answers, and is asked to stop; or nobody does.
Dial ==
    /\ down = "idle" /\ server \notin {"none", "building"}
    /\ down' = IF server = "serving" THEN "waiting" ELSE "clear"
    /\ Close
    /\ UNCHANGED <<memory, kernel, data, starts, crossed>>

\* Two seconds at most for the server to go.
Wait ==
    /\ down = "waiting" /\ (server = "gone" \/ "slow" \in FaultKinds)
    /\ down' = "clear"
    /\ UNCHANGED <<server, memory, kernel, data, history>>

\* Mutant: the directory goes without its mounts having been released.
ClearNothing ==
    /\ down = "clear"
    /\ down' = "erase"
    /\ UNCHANGED <<server, memory, kernel, data, history>>

Clear ==
    /\ down = "clear"
    /\ Unmounting(mounted, "nodedown")
    /\ down' = "erase"
    /\ UNCHANGED <<server, memory, bound, dir, said, history>>

EraseDown ==
    /\ down = "erase"
    /\ dir' = FALSE
    /\ down' = "over"
    /\ UNCHANGED <<server, memory, bound, mounted, data, history>>

-----------------------------------------------------------------------------
Init ==
    /\ server = "none" /\ starts = 0 /\ down = "idle"
    /\ todo = <<>> /\ seq = 0 /\ held = <<>> /\ fsm = <<>>
    /\ job = [w \in Workers |-> Idle]
    /\ stopping = {} /\ expired = FALSE
    /\ lease = "fresh" /\ watch = "asleep" /\ flushing = {}
    /\ bound = Unbound /\ mounted = {} /\ dir = FALSE
    /\ dirty = {} /\ said = {} /\ lost = {} /\ late = {} /\ crossed = {}

Request(w) ==
    \/ MountFuse(w) \/ Enter(w) \/ Bind(w) \/ Undo(w) \/ Remember(w) \/ Fail(w)
    \/ Find(w) \/ Flush(w) \/ Unbind(w) \/ Release(w) \/ Forget(w)

Serve == \/ Build \/ Listen \/ Kill \/ Unmount \/ Sweep \/ Erase \/ Exit
         \/ \E m \in Mounts : StopFlush(m)

LeaseWatch == Notice \/ Expire \/ \E m \in Mounts : WatchFlush(m)

Down == Dial \/ Wait \/ Clear \/ EraseDown

Next ==
    \/ Start \/ Crash \/ Renew \/ RunOut
    \/ Serve \/ LeaseWatch \/ Down
    \/ \E p \in Paths : Write(p)
    \/ \E m \in Mounts : Upload(m)
    \/ \E w \in Workers : Request(w)
    \/ \E h \in Handlers, p \in Paths, op \in {"add", "remove"} : Ask(h, op, p)

Spec == Init /\ [][Next]_vars

\* The server's goroutines run on and time passes. Nothing is assumed of the
\* daemon's requests, nor of what the pod's processes do.
Fairness == /\ WF_vars(Serve) /\ WF_vars(LeaseWatch) /\ WF_vars(RunOut)
            /\ \A w \in Workers : WF_vars(Request(w))

-----------------------------------------------------------------------------
Steps == {"idle", "done", "fuse", "enter", "bind", "undo", "remember", "failed", "find",
          "flush", "unbind", "remove", "forget"}

Entry == [at : Paths, m : Mounts \cup {Native}]

TypeOK ==
    /\ server \in {"none", "building", "serving", "closing", "killed", "unmounted",
                   "swept", "erased", "gone"}
    /\ seq \in 0..MaxMounts /\ todo \in Seq(Paths)
    /\ held \in Seq(Entry) /\ fsm \in Seq(Entry)
    /\ job \in [Workers -> [op : {"none", "add", "remove"}, at : Paths \cup {None},
                            m : Mounts \cup {Native, None}, step : Steps]]
    /\ stopping \subseteq Mounts /\ flushing \subseteq Mounts
    /\ expired \in BOOLEAN /\ dir \in BOOLEAN
    /\ lease \in {"fresh", "out"} /\ watch \in {"asleep", "flushing", "over"}
    /\ bound \in [Paths -> Seq(Mounts \cup {Native})]
    /\ mounted \subseteq Mounts /\ dirty \subseteq mounted /\ said \subseteq Mounts
    /\ lost \subseteq {"undo", "remove", "stop", "sweep", "nodedown"}
    /\ down \in {"idle", "waiting", "clear", "erase", "over"}
    /\ starts \in 0..MaxStarts /\ late \subseteq Mounts
    /\ crossed \subseteq Paths

\* A request between its bind and its entry has one bind that held lacks; one
\* between its unbind and its end has one entry that the pod lacks.
Extra(p) == {w \in Workers : job[w].at = p /\ job[w].step = "remember"}
Short(p) == {w \in Workers : job[w].at = p /\ job[w].step \in {"remove", "forget"}}

\* What a node reports is all the daemon knows of it (node.go:70): as many
\* mounts at each path as the pod has there, unless two requests were about it
\* at once.
HeldIsBound ==
    \A p \in Paths \ crossed : server = "serving" =>
        Len(bound[p]) + Cardinality(Short(p)) =
            Cardinality({i \in DOMAIN held : held[i].at = p}) + Cardinality(Extra(p))

\* "Unmounting first would discard a checkpoint that exists nowhere else"
\* (node.go:332): serve's own end discards nothing it has not logged, also
\* with requests under way as the pod goes.
StopDiscardsNothing == "stop" \notin lost

\* The run directory is removed with all there is in it. A mount that is still
\* below it would have its own files removed: there is none, but for one a
\* request is making at that moment.
EraseSparesMounts == [][dir /\ ~dir' => mounted \subseteq InFlight \cup late]_vars

\* "Nothing is left on a machine vibepod has stopped talking to" (node.go:346):
\* a server whose watcher has run out leaves nothing that was finished, also when
\* nodedown or a request comes between.
ExpiryLeavesNothing ==
    [][Exit /\ watch = "over" => ~dir' /\ mounted' \subseteq late']_vars

\* "living forever leaves caches and a namespace on a machine other people
\* share" (node.go:660): a server that is not renewed again and again ends.
AbandonedEnds == []<>(lease = "fresh" \/ server = "none") \/ <>[](server = "gone")

\* "Silently discarding a checkpoint would be the worst bug this system could
\* have" (DESIGN.md:740).
NothingLostSilently == lost = {}
=============================================================================
