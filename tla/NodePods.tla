------------------------------- MODULE NodePods -------------------------------
(***************************************************************************)
(* The control plane of one pod (internal/daemon: reconcile.go, nodepod.go,*)
(* the mount handlers of mount.go and daemon.go, the guard of backend.go): *)
(* the daemon holds the mount list that every machine's node pod should    *)
(* hold, pushes each change to them, and refuses a command whose directory *)
(* a node does not have.                                                   *)
(*                                                                         *)
(* Handlers run as threads (one goroutine per request, one lease loop).    *)
(* A step of a thread is what the code does between two points where       *)
(* another goroutine or another machine can act: one locked section, or    *)
(* one request to a node.                                                  *)
(***************************************************************************)
EXTENDS Integers, Sequences, SequencesExt

CONSTANTS
    Hosts,        \* machines that can hold a node pod
    Paths,        \* where in the tree something can be mounted (At)
    Origins,      \* what can be mounted there (Owner, RemotePath)
    Local,        \* the origins that are this machine's own directories
    ExposeTo,     \* for each local origin, the machines it is exposed to
    ReadOnly,     \* the origins mounted read-only by their own request
    ManyWriters,  \* the origins whose mount says `writers: many`
    OwnerOf,      \* the machine that owns an origin, for `unmount @machine`
    Threads,      \* goroutines of the daemon
    Handlers,     \* the threads that serve requests
    LeaseLoop,    \* the thread that runs leaseLoop
    None,         \* absent: no mount, no pod, no writer
    InitialTrees, \* the mount lists `up` may have built
    Jobs,         \* kinds of request made in this instance
    FaultKinds,   \* kinds of failure met in this instance
    MaxGen,       \* bound on changes to the mount list
    MaxPods,      \* bound on node pod records in use at once
    MaxFaults     \* bound on failures

PodIds == 1..MaxPods
Entry  == [from : Origins, ro : BOOLEAN]
Tree   == [Paths -> Seq(Entry)]
NoTree == [p \in Paths |-> <<>>]
NoWant == [p \in Paths |-> None]

ASSUME ConstantsAssumption ==
    /\ Local \subseteq Origins /\ ReadOnly \subseteq Origins
    /\ ManyWriters \subseteq Origins
    /\ Handlers \subseteq Threads /\ LeaseLoop \in Threads
    /\ ExposeTo \in [Local -> SUBSET Hosts]
    /\ InitialTrees \subseteq [Paths -> Origins \cup {None}]
    /\ MaxGen \in Nat /\ MaxPods \in Nat /\ MaxFaults \in Nat
    /\ None \notin Hosts \cup Origins \cup Threads \cup PodIds
    /\ None \notin Entry

VARIABLES
    mounts,      \* podState.mounts: what is mounted at each path
    routes,      \* podState.tbl: the owners the last rebuildRoutes published
    gen,         \* podState.gen
    manyWriters, \* podState.manyWriters
    writers,     \* podState.writers
    pods,        \* podState.nodePods: each machine's current record
    view,        \* the nodePod records themselves: what the daemon believes
    building,    \* podState.nodeBuild: who builds each machine's pod
    forget,      \* records with an invalidation sent and not yet answered
    node,        \* the node pods: is one up on the machine, what it reports
    link,        \* can the machine be reached
    faults,      \* failures so far
    pc, job,     \* where each thread is, and what it works on
    stopped      \* history: machines whose pod stopNodePod was ever called on

daemon == <<mounts, routes, gen, manyWriters, writers, pods, building, forget>>
vars   == <<daemon, view, node, link, faults, pc, job, stopped>>

NoJob == [ret |-> "none", host |-> None, np |-> None, at |-> None,
          from |-> None, cur |-> None, todo |-> {}, hits |-> {},
          want |-> NoWant, snap |-> NoTree]

-----------------------------------------------------------------------------
(* Reading the state.                                                      *)

\* desired: the paths whose mount is sent to this machine.
Sent(h) == {p \in Paths : /\ mounts[p] # None
                          /\ mounts[p] \in Local => h \in ExposeTo[mounts[p]]}

\* isWriter claims an unclaimed writable mount for whoever asks first.
Claims(h) == {p \in Sent(h) : mounts[p] \notin ReadOnly /\ p \notin manyWriters}

\* Mutant: the last machine to ask takes the claim, not the first.
ClaimLast(h) == [p \in Paths |-> IF p \in Claims(h) THEN h ELSE writers[p]]

ClaimFor(h) ==
    [p \in Paths |-> IF p \in Claims(h) /\ writers[p] = None THEN h ELSE writers[p]]

\* desired: the tree this machine should hold, with the claims just made.
Desired(h) ==
    [p \in Paths |->
        IF p \notin Sent(h) THEN None
        ELSE [from |-> mounts[p],
              ro   |-> \/ mounts[p] \in ReadOnly
                       \/ p \in Claims(h) /\ ClaimFor(h)[p] # h]]

Registered == {pods[h] : h \in Hosts} \ {None}

\* holds: the daemon's record of the node has something at the path.
Holds(np, p) == view[np].held[p] # <<>>

Idle(t) == pc[t] = "idle"

\* A failure that this instance allows and has not used up.
Fault(kind) == kind \in FaultKinds /\ faults < MaxFaults /\ faults' = faults + 1

Answers(h) == link[h] /\ node[h].up

\* nodeRequest: the node answers; or it cannot be reached; or the link drops
\* before or after the node acted; or the node refuses the change.
Request(h, ok, held) ==
    LET acted == [node EXCEPT ![h].held = held]
    IN  \/ ok /\ Answers(h) /\ node' = acted /\ UNCHANGED faults
        \/ ~ok /\ ~Answers(h) /\ UNCHANGED <<node, faults>>
        \/ ~ok /\ Answers(h) /\ Fault("midway") /\ node' \in {node, acted}
        \/ ~ok /\ Answers(h) /\ held # node[h].held /\ Fault("refuse")
           /\ UNCHANGED node

\* Only a successful nodeRequest marks the record reachable; of the failures,
\* only the callers that say so mark it unreachable.
Reached(np) == view' = [view EXCEPT ![np].reachable = TRUE]

Goto(t, label) == pc' = [pc EXCEPT ![t] = label]
\* A reconcile returns: its locals are gone.
Return(t, result) ==
    /\ Goto(t, result)
    /\ job' = [job EXCEPT ![t].want = NoWant, ![t].snap = NoTree, ![t].cur = None]

\* A handler has answered its request.
Finish(t) == Goto(t, "idle") /\ job' = [job EXCEPT ![t] = NoJob]

-----------------------------------------------------------------------------
(* Mount: Daemon.mount, addMount, bindMount.                               *)

\* addMount: checkNewMount, then the generation, then the list.
Mount(t, p, o) ==
    /\ "mount" \in Jobs /\ Idle(t) /\ gen < MaxGen
    /\ o \notin Local
    /\ mounts[p] = None /\ \A q \in Paths : mounts[q] # o
    /\ mounts' = [mounts EXCEPT ![p] = o]
    /\ gen' = gen + 1
    /\ manyWriters' = IF o \in ManyWriters THEN manyWriters \cup {p}
                                           ELSE manyWriters
    /\ Goto(t, "bind")
    /\ job' = [job EXCEPT ![t].at = p, ![t].from = o]
    /\ UNCHANGED <<routes, writers, pods, building, forget, view, node, link,
                   faults, stopped>>

\* The bind took: routes, then reconcileAll.
Bound(t) ==
    /\ pc[t] = "bind"
    /\ routes' = mounts
    /\ Goto(t, "ok")
    /\ job' = [job EXCEPT ![t].ret = "all", ![t].todo = Registered]
    /\ UNCHANGED <<mounts, gen, manyWriters, writers, pods, building, forget,
                   view, node, link, faults, stopped>>

\* The bind failed: dropMount, and the handler returns.
BindFails(t) ==
    /\ pc[t] = "bind" /\ Fault("bind")
    /\ LET p == job[t].at
       IN  mounts' = IF mounts[p] = job[t].from THEN [mounts EXCEPT ![p] = None]
                                                ELSE mounts
    /\ Finish(t)
    /\ UNCHANGED <<routes, gen, manyWriters, writers, pods, building, forget,
                   view, node, link, stopped>>

-----------------------------------------------------------------------------
(* Unmount: removeMount, by path or by the machine the mounts came from.   *)

Unmount(t, hits) ==
    /\ "unmount" \in Jobs /\ Idle(t) /\ gen < MaxGen
    /\ hits # {} /\ \A p \in hits : mounts[p] # None
    /\ \/ \E p \in Paths : hits = {p}
       \/ \E p \in hits : hits = {q \in Paths : /\ mounts[q] # None
                                                /\ OwnerOf[mounts[q]] = OwnerOf[mounts[p]]}
    /\ Goto(t, "unbind")
    /\ job' = [job EXCEPT ![t].hits = hits]
    /\ UNCHANGED <<daemon, view, node, link, faults, stopped>>

Unbind(t, p) ==
    /\ pc[t] = "unbind" /\ p \in job[t].hits /\ mounts[p] # None
    /\ mounts' = [mounts EXCEPT ![p] = None]
    /\ job' = [job EXCEPT ![t].hits = @ \ {p}]
    /\ UNCHANGED <<routes, gen, manyWriters, writers, pods, building, forget,
                   view, node, link, faults, pc, stopped>>

\* vpinit could not unbind one of them, or another handler unmounted it first:
\* the handler returns at once.
UnbindFails(t) ==
    /\ pc[t] = "unbind"
    /\ \/ job[t].hits # {} /\ Fault("unbind")
       \/ (\E p \in job[t].hits : mounts[p] = None) /\ UNCHANGED faults
    /\ Finish(t)
    /\ UNCHANGED <<daemon, view, node, link, stopped>>

Unmounted(t) ==
    /\ pc[t] = "unbind" /\ job[t].hits = {}
    /\ routes' = mounts
    /\ gen' = gen + 1
    /\ Goto(t, "ok")
    /\ job' = [job EXCEPT ![t].ret = "all", ![t].todo = Registered]
    /\ UNCHANGED <<mounts, manyWriters, writers, pods, building, forget, view,
                   node, link, faults, stopped>>

-----------------------------------------------------------------------------
(* reconcile: bring one node pod to the desired tree. It ends at "ok" or   *)
(* "err"; job.ret says whose call it was.                                  *)

Reconcile(t, np, ret) ==
    /\ Goto(t, "want")
    /\ job' = [job EXCEPT ![t].np = np, ![t].host = view[np].host, ![t].ret = ret]

Want(t) ==
    /\ pc[t] = "want"
    /\ LET h == job[t].host
       IN  /\ job' = [job EXCEPT ![t].want = Desired(h)]
           /\ writers' = ClaimFor(h)
    /\ Goto(t, "held")
    /\ UNCHANGED <<mounts, routes, gen, manyWriters, pods, building, forget,
                   view, node, link, faults, stopped>>

\* nodeHeld, before and after: a node that does not answer is marked so.
AskHeld(t) ==
    /\ pc[t] = "held"
    /\ LET h == job[t].host  np == job[t].np
       IN  \/ /\ Request(h, TRUE, node[h].held)
              /\ Reached(np)
              /\ job' = [job EXCEPT ![t].snap = node[h].held]
              /\ Goto(t, "apply")
           \/ /\ Request(h, FALSE, node[h].held)
              /\ view' = [view EXCEPT ![np].reachable = FALSE]
              /\ Return(t, "err")
    /\ UNCHANGED <<daemon, link, stopped>>

\* Mutant: only the path is compared.
MistakenByPathOnly(t) == {}

\* The paths the daemon has still to bring, and those it has still to replace.
Missing(t)  == {p \in Paths : job[t].want[p] # None /\ job[t].snap[p] = <<>>}
Mistaken(t) == {p \in Paths : /\ job[t].want[p] # None /\ job[t].snap[p] # <<>>
                              /\ Last(job[t].snap[p]) # job[t].want[p]}
Stray(t)    == {p \in Paths : job[t].want[p] = None /\ job[t].snap[p] # <<>>}

\* A request that ends the reconcile when it fails. Failing does not mark the
\* node unreachable. `cur` is the path released and not yet taken again.
Change(t, p, held, snap, next) ==
    \/ /\ Request(job[t].host, TRUE, held)
       /\ Reached(job[t].np)
       /\ job' = [job EXCEPT ![t].snap = snap,
                             ![t].cur = IF next = "mount" THEN p ELSE None]
       /\ Goto(t, next)
    \/ /\ Request(job[t].host, FALSE, held)
       /\ Return(t, "err") /\ UNCHANGED view

\* OpMount appends an entry to what the node reports.
Take(t, p) ==
    LET e == job[t].want[p]
    IN  Change(t, p, [node[job[t].host].held EXCEPT ![p] = Append(@, e)],
               [job[t].snap EXCEPT ![p] = <<e>>], "apply")

\* OpUnmount removes the first entry with that path; a node that has none
\* answers with an error.
Release(t, p, left, next) ==
    LET held == node[job[t].host].held
    IN  \/ /\ held[p] # <<>>
           /\ Change(t, p, [held EXCEPT ![p] = Tail(@)],
                     [job[t].snap EXCEPT ![p] = left], next)
        \/ /\ held[p] = <<>>
           /\ Return(t, "err") /\ UNCHANGED <<view, node, faults>>

\* For each wanted path: release what is there under another identity, then
\* mount.
ReleaseOld(t, p) ==
    /\ pc[t] = "apply" /\ p \in Mistaken(t)
    /\ Release(t, p, <<>>, "mount")
    /\ UNCHANGED <<daemon, link, stopped>>

TakeMount(t, p) ==
    /\ \/ pc[t] = "apply" /\ p \in Missing(t)
       \/ pc[t] = "mount" /\ p = job[t].cur
    /\ Take(t, p)
    /\ UNCHANGED <<daemon, link, stopped>>

\* After the wanted paths, what the list no longer names, entry by entry.
ReleaseStray(t, p) ==
    /\ pc[t] = "apply" /\ Missing(t) \cup Mistaken(t) = {} /\ p \in Stray(t)
    /\ Release(t, p, Tail(job[t].snap[p]), "apply")
    /\ UNCHANGED <<daemon, link, stopped>>

AskFinal(t) ==
    /\ pc[t] = "apply" /\ Missing(t) \cup Mistaken(t) \cup Stray(t) = {}
    /\ LET h == job[t].host  np == job[t].np
       IN  \/ /\ Request(h, TRUE, node[h].held)
              /\ Reached(np)
              /\ job' = [job EXCEPT ![t].snap = node[h].held]
              /\ Goto(t, "record")
           \/ /\ Request(h, FALSE, node[h].held)
              /\ view' = [view EXCEPT ![np].reachable = FALSE]
              /\ Return(t, "err")
    /\ UNCHANGED <<daemon, link, stopped>>

\* setHeld: the generation is the one of now, not the one `want` was made at.
Record(t) ==
    /\ pc[t] = "record"
    /\ view' = [view EXCEPT ![job[t].np].held = job[t].snap,
                            ![job[t].np].gen = gen,
                            ![job[t].np].reachable = TRUE]
    /\ Return(t, "ok")
    /\ UNCHANGED <<daemon, node, link, faults, stopped>>

-----------------------------------------------------------------------------
(* The callers of reconcile that walk a list of node pods.                 *)

\* Mutant: the record is taken from the list and the machine is not.
NextPodSameHost(t, np) ==
    /\ pc[t] \in {"ok", "err"} /\ job[t].ret = "all" /\ np \in job[t].todo
    /\ Goto(t, "want")
    /\ job' = [job EXCEPT ![t].np = np, ![t].todo = @ \ {np}]
    /\ UNCHANGED <<daemon, view, node, link, faults, stopped>>

\* Mutant: a node that fails is tried again before any other.
NextPodRetries(t, np) ==
    /\ pc[t] \in {"ok", "err"} /\ job[t].ret = "all"
    /\ np \in (IF pc[t] = "err" THEN {job[t].np} ELSE job[t].todo)
    /\ Goto(t, "want")
    /\ job' = [job EXCEPT ![t].np = np, ![t].host = view[np].host,
                          ![t].todo = @ \ {np}]
    /\ UNCHANGED <<daemon, view, node, link, faults, stopped>>

\* reconcileAll: a node that fails is left behind, and the next one is tried.
NextPod(t, np) ==
    /\ pc[t] \in {"ok", "err"} /\ job[t].ret = "all" /\ np \in job[t].todo
    /\ Goto(t, "want")
    /\ job' = [job EXCEPT ![t].np = np, ![t].host = view[np].host,
                          ![t].todo = @ \ {np}]
    /\ UNCHANGED <<daemon, view, node, link, faults, stopped>>

\* A handler whose list is exhausted has answered.
Answered(t) ==
    /\ pc[t] \in {"ok", "err"} /\ job[t].ret \in {"all", "lease", "views"}
    /\ job[t].todo = {}
    /\ Finish(t)
    /\ UNCHANGED <<daemon, view, node, link, faults, stopped>>

\* leaseLoop: the ticker, then one renewal per node pod. Only a node that was
\* last seen unreachable and now answers is reconciled.
LeaseTick(t) ==
    /\ "lease" \in Jobs /\ t = LeaseLoop /\ Idle(t) /\ Registered # {}
    /\ Goto(t, "ok")
    /\ job' = [job EXCEPT ![t].ret = "lease", ![t].todo = Registered]
    /\ UNCHANGED <<daemon, view, node, link, faults, stopped>>

\* Mutant: a node that is back is renewed and not reconciled.
RenewOnly(t, np) ==
    /\ pc[t] \in {"ok", "err"} /\ job[t].ret = "lease" /\ np \in job[t].todo
    /\ LET h == view[np].host
       IN  \/ Request(h, TRUE, node[h].held) /\ Reached(np) /\ Goto(t, "ok")
           \/ /\ Request(h, FALSE, node[h].held)
              /\ view' = [view EXCEPT ![np].reachable = FALSE]
              /\ Goto(t, "err")
    /\ job' = [job EXCEPT ![t].np = np, ![t].host = view[np].host,
                          ![t].todo = @ \ {np}]
    /\ UNCHANGED <<daemon, link, stopped>>

Renew(t, np) ==
    /\ pc[t] \in {"ok", "err"} /\ job[t].ret = "lease" /\ np \in job[t].todo
    /\ LET h == view[np].host
       IN  \/ /\ Request(h, TRUE, node[h].held)
              /\ Reached(np)
              /\ Goto(t, IF view[np].reachable THEN "ok" ELSE "want")
           \/ /\ Request(h, FALSE, node[h].held)
              /\ view' = [view EXCEPT ![np].reachable = FALSE]
              /\ Goto(t, "err")
    /\ job' = [job EXCEPT ![t].np = np, ![t].host = view[np].host,
                          ![t].todo = @ \ {np}]
    /\ UNCHANGED <<daemon, link, stopped>>

\* staleness: a view of who is behind asks what each machine should hold, and
\* asking makes the claim.
Look(t) ==
    /\ "views" \in Jobs /\ Idle(t) /\ Registered # {}
    /\ Goto(t, "ok")
    /\ job' = [job EXCEPT ![t].ret = "views", ![t].todo = Registered]
    /\ UNCHANGED <<daemon, view, node, link, faults, stopped>>

LookAt(t, np) ==
    /\ pc[t] = "ok" /\ job[t].ret = "views" /\ np \in job[t].todo
    /\ writers' = ClaimFor(view[np].host)
    /\ job' = [job EXCEPT ![t].todo = @ \ {np}]
    /\ UNCHANGED <<mounts, routes, gen, manyWriters, pods, building, forget,
                   view, node, link, faults, pc, stopped>>

-----------------------------------------------------------------------------
(* startNodePod: adopt the pod already running there, or build one.        *)

\* The record a machine's pod gets: no tree, generation 0, reachable.
NewRecord(h) == [host |-> h, held |-> NoTree, gen |-> 0, reachable |-> TRUE]

\* Records something still points at.
Live == Registered \cup forget
        \cup UNION {job[t].todo \cup {job[t].np} : t \in Threads}

\* nodePods.put of a new record; reconcile follows at once.
Put(t, h, ret) ==
    \E i \in PodIds \ Live :
        /\ \A j \in PodIds \ Live : i <= j
        /\ pods' = [pods EXCEPT ![h] = i]
        /\ view' = [view EXCEPT ![i] = NewRecord(h)]
        /\ job' = [job EXCEPT ![t].np = i, ![t].ret = ret, ![t].want = NoWant]
        /\ Goto(t, "want")

\* nodeAdd does not take the lock nodePodFor takes.
Add(t, h) ==
    /\ "add" \in Jobs /\ Idle(t)
    /\ Goto(t, "start")
    /\ job' = [job EXCEPT ![t].host = h]
    /\ UNCHANGED <<daemon, view, node, link, faults, stopped>>

\* nodePodFor: what a command needs; it builds under the machine's lock.
LockBuild(t) ==
    /\ pc[t] = "lock" /\ building[job[t].host] = None
    /\ building' = [building EXCEPT ![job[t].host] = t]
    /\ Goto(t, "start")
    /\ UNCHANGED <<mounts, routes, gen, manyWriters, writers, pods, forget, view,
                   node, link, faults, job, stopped>>

\* The pod exists already, or the machine is probed; Probe may refuse it.
Start(t) ==
    /\ pc[t] = "start"
    /\ LET h == job[t].host
       IN  \/ pods[h] # None /\ Goto(t, "started") /\ UNCHANGED faults
           \/ /\ pods[h] = None
              /\ \/ link[h] /\ Goto(t, "adopt") /\ UNCHANGED faults
                 \/ ~link[h] /\ Goto(t, "failed") /\ UNCHANGED faults
                 \/ Fault("refuse") /\ Goto(t, "failed")
    /\ UNCHANGED <<daemon, view, node, link, job, stopped>>

\* A pod that answers OpHeld is adopted.
Adopt(t) ==
    /\ pc[t] = "adopt"
    /\ LET h == job[t].host
       IN  \/ Request(h, TRUE, node[h].held) /\ Put(t, h, "adopted")
           \/ Request(h, FALSE, node[h].held) /\ Goto(t, "spec")
              /\ UNCHANGED <<pods, view, job>>
    /\ UNCHANGED <<mounts, routes, gen, manyWriters, writers, building, forget,
                   link, stopped>>

\* nodeSpecFor: the tree to build with, writer election included.
PodSpec(t) ==
    /\ pc[t] = "spec"
    /\ LET h == job[t].host
       IN  job' = [job EXCEPT ![t].want = Desired(h)] /\ writers' = ClaimFor(h)
    /\ Goto(t, "build")
    /\ UNCHANGED <<mounts, routes, gen, manyWriters, pods, building, forget,
                   view, node, link, faults, stopped>>

\* The tree vpnode starts with is the spec's, taken whole or not at all.
Built(want) == [p \in Paths |-> IF want[p] = None THEN <<>> ELSE <<want[p]>>]

\* vpnode: a machine that already runs this pod refuses, and so may one that
\* cannot make a mount; an answer may be lost after the pod is up.
Build(t) ==
    /\ pc[t] = "build"
    /\ LET h == job[t].host
           up == [node EXCEPT ![h] = [up |-> TRUE, held |-> Built(job[t].want)]]
       IN  \/ /\ link[h] /\ ~node[h].up
              /\ node' = up
              /\ Put(t, h, "built")
              /\ UNCHANGED faults
           \/ /\ \/ (~link[h] \/ node[h].up) /\ UNCHANGED <<node, faults>>
                 \/ link[h] /\ ~node[h].up /\ Fault("midway") /\ node' = up
                 \/ link[h] /\ ~node[h].up /\ Fault("refuse") /\ UNCHANGED node
              /\ Goto(t, "failed")
              /\ UNCHANGED <<pods, view, job>>
    /\ UNCHANGED <<mounts, routes, gen, manyWriters, writers, building, forget,
                   link, stopped>>

\* The reconcile of an adopted pod failed: it is forgotten, by name.
AdoptFails(t) ==
    /\ pc[t] = "err" /\ job[t].ret = "adopted"
    /\ pods' = [pods EXCEPT ![job[t].host] = None]
    /\ Goto(t, "failed")
    /\ UNCHANGED <<mounts, routes, gen, manyWriters, writers, building, forget,
                   view, node, link, faults, job, stopped>>

\* The reconcile of a new pod failed: stopNodePod.
BuildFails(t) ==
    /\ pc[t] = "err" /\ job[t].ret = "built"
    /\ Goto(t, "stop")
    /\ UNCHANGED <<daemon, view, node, link, faults, job, stopped>>

Reconciled(t) ==
    /\ pc[t] = "ok" /\ job[t].ret \in {"adopted", "built"}
    /\ Goto(t, "started")
    /\ UNCHANGED <<daemon, view, node, link, faults, job, stopped>>

Unlocked(t) ==
    [h \in Hosts |-> IF building[h] = t THEN None ELSE building[h]]

\* Back in nodePodFor or nodeAdd. A command goes on with the record the
\* machine has now, if it has one.
Started(t) ==
    /\ pc[t] = "started"
    /\ LET np == pods[job[t].host]
       IN  IF job[t].at # None /\ np # None
           THEN /\ job' = [job EXCEPT ![t].np = np]
                /\ Goto(t, "holds")
           ELSE Finish(t)
    /\ building' = Unlocked(t)
    /\ UNCHANGED <<mounts, routes, gen, manyWriters, writers, pods, forget, view,
                   node, link, faults, stopped>>

StartFails(t) ==
    /\ pc[t] = "failed"
    /\ Finish(t)
    /\ building' = Unlocked(t)
    /\ UNCHANGED <<mounts, routes, gen, manyWriters, writers, pods, forget, view,
                   node, link, faults, stopped>>

-----------------------------------------------------------------------------
(* stopNodePod: forget the record, release its claims, tell the machine.   *)

Drop(t, h) ==
    /\ "drop" \in Jobs /\ Idle(t) /\ pods[h] # None
    /\ Goto(t, "stop")
    /\ job' = [job EXCEPT ![t].host = h, ![t].ret = "drop"]
    /\ UNCHANGED <<daemon, view, node, link, faults, stopped>>

AfterStop(t) == Goto(t, "failed")

Stop(t) ==
    /\ pc[t] = "stop"
    /\ LET h == job[t].host
       IN  IF pods[h] = None
           THEN AfterStop(t) /\ UNCHANGED <<pods, stopped>>
           ELSE /\ pods' = [pods EXCEPT ![h] = None]
                /\ stopped' = stopped \cup {h}
                /\ Goto(t, "disown")
    /\ UNCHANGED <<mounts, routes, gen, manyWriters, writers, building, forget,
                   view, node, link, faults, job>>

\* Mutant: stopNodePod forgets to release the machine's claims.
KeepClaims(t) ==
    /\ pc[t] = "disown" /\ Goto(t, "nodedown")
    /\ UNCHANGED <<daemon, view, node, link, faults, job, stopped>>

\* releaseWriter
Disown(t) ==
    /\ pc[t] = "disown"
    /\ writers' = [p \in Paths |-> IF writers[p] = job[t].host THEN None
                                                               ELSE writers[p]]
    /\ Goto(t, "nodedown")
    /\ UNCHANGED <<mounts, routes, gen, manyWriters, pods, building, forget,
                   view, node, link, faults, job, stopped>>

\* nodedown: best effort.
NodeDown(t) ==
    /\ pc[t] = "nodedown"
    /\ LET h == job[t].host
           gone == [node EXCEPT ![h] = [up |-> FALSE, held |-> NoTree]]
       IN  \/ link[h] /\ node' = gone /\ UNCHANGED faults
           \/ ~link[h] /\ UNCHANGED <<node, faults>>
           \/ link[h] /\ Fault("midway") /\ UNCHANGED node
    /\ AfterStop(t)
    /\ UNCHANGED <<daemon, view, link, job, stopped>>

-----------------------------------------------------------------------------
(* dispatch: one command, in the directory mounted at a path.              *)

Dispatch(t, h, p) ==
    /\ "dispatch" \in Jobs /\ Idle(t)
    /\ job' = [job EXCEPT ![t].host = h, ![t].at = p, ![t].np = pods[h]]
    /\ Goto(t, IF pods[h] # None THEN "holds" ELSE "lock")
    /\ UNCHANGED <<daemon, view, node, link, faults, stopped>>

\* Held: run there. One of this machine's own directories, or none of any
\* mount: run in the node's home, which is no concern here. Otherwise the node
\* is behind on this mount, and gets one chance to catch up.
Guard(t) ==
    /\ pc[t] = "holds"
    /\ LET np == job[t].np  p == job[t].at
       IN  \/ Holds(np, p) /\ Goto(t, "run") /\ UNCHANGED job
           \/ ~Holds(np, p) /\ routes[p] \in Local \cup {None} /\ Finish(t)
           \/ ~Holds(np, p) /\ routes[p] \notin Local \cup {None}
              /\ Reconcile(t, np, "recheck")
    /\ UNCHANGED <<daemon, view, node, link, faults, stopped>>

Recheck(t) ==
    /\ pc[t] \in {"ok", "err"} /\ job[t].ret = "recheck"
    /\ IF pc[t] = "ok" /\ Holds(job[t].np, job[t].at)
       THEN Goto(t, "run") /\ UNCHANGED job
       ELSE Finish(t)
    /\ UNCHANGED <<daemon, view, node, link, faults, stopped>>

\* The command runs. Then every other node holding that mount is told to
\* forget what it cached, each by a goroutine nobody waits for.
Run(t) ==
    /\ pc[t] = "run"
    /\ LET p == job[t].at
       IN  forget' = IF routes[p] \in Local \cup {None} THEN forget
                     ELSE forget \cup {np \in Registered :
                                view[np].host # job[t].host /\ Holds(np, p)}
    /\ Finish(t)
    /\ UNCHANGED <<mounts, routes, gen, manyWriters, writers, pods, building,
                   view, node, link, faults, stopped>>

Invalidated(np) ==
    /\ np \in forget
    /\ forget' = forget \ {np}
    /\ LET h == view[np].host
       IN  \/ Request(h, TRUE, node[h].held) /\ Reached(np)
           \/ Request(h, FALSE, node[h].held) /\ UNCHANGED view
    /\ UNCHANGED <<mounts, routes, gen, manyWriters, writers, pods, building,
                   link, pc, job, stopped>>

-----------------------------------------------------------------------------
(* The machines and the links to them.                                     *)

Talking(h) == \E t \in Threads : job[t].host = h /\ ~Idle(t)

\* Without "midway" among the failures, no link drops during a handler.
LinkDown(h) ==
    /\ link[h] /\ Fault("link")
    /\ "midway" \notin FaultKinds => ~Talking(h)
    /\ link' = [link EXCEPT ![h] = FALSE]
    /\ UNCHANGED <<daemon, view, node, pc, job, stopped>>

LinkUp(h) ==
    /\ ~link[h]
    /\ link' = [link EXCEPT ![h] = TRUE]
    /\ UNCHANGED <<daemon, view, node, faults, pc, job, stopped>>

\* leaseWatch: a node not renewed for its lease flushes and goes. It is not
\* renewed while its link is down, or once the daemon has forgotten it.
LeaseExpires(h) ==
    /\ node[h].up /\ (~link[h] \/ pods[h] = None) /\ Fault("expire")
    /\ node' = [node EXCEPT ![h] = [up |-> FALSE, held |-> NoTree]]
    /\ UNCHANGED <<daemon, view, link, pc, job, stopped>>

-----------------------------------------------------------------------------
Init ==
    /\ \E tree \in InitialTrees : mounts = tree /\ routes = tree
    /\ gen = 0
    /\ manyWriters = {p \in Paths : mounts[p] \in ManyWriters}
    /\ writers = [p \in Paths |-> None]
    /\ pods = [h \in Hosts |-> None]
    /\ view = [i \in PodIds |-> NewRecord(None)]
    /\ building = [h \in Hosts |-> None]
    /\ forget = {}
    /\ node = [h \in Hosts |-> [up |-> FALSE, held |-> NoTree]]
    /\ link = [h \in Hosts |-> TRUE]
    /\ faults = 0
    /\ pc = [t \in Threads |-> "idle"]
    /\ job = [t \in Threads |-> NoJob]
    /\ stopped = {}

\* What a handler that has begun does next.
Continue(t) ==
    \/ Bound(t) \/ BindFails(t)
    \/ (\E p \in Paths : Unbind(t, p)) \/ UnbindFails(t) \/ Unmounted(t)
    \/ Want(t) \/ AskHeld(t) \/ AskFinal(t) \/ Record(t)
    \/ \E p \in Paths : ReleaseOld(t, p) \/ TakeMount(t, p) \/ ReleaseStray(t, p)
    \/ \E np \in PodIds : NextPod(t, np) \/ Renew(t, np) \/ LookAt(t, np)
    \/ Answered(t)
    \/ LockBuild(t) \/ Start(t) \/ Adopt(t) \/ PodSpec(t) \/ Build(t)
    \/ AdoptFails(t) \/ BuildFails(t) \/ Reconciled(t) \/ Started(t) \/ StartFails(t)
    \/ Stop(t) \/ Disown(t) \/ NodeDown(t)
    \/ Guard(t) \/ Recheck(t) \/ Run(t)

\* Requests that arrive.
Begin(t) ==
    \/ \E p \in Paths, o \in Origins : Mount(t, p, o)
    \/ \E hits \in SUBSET Paths : Unmount(t, hits)
    \/ \E h \in Hosts : Add(t, h) \/ Drop(t, h)
    \/ \E h \in Hosts, p \in Paths : Dispatch(t, h, p)
    \/ Look(t)

Environment ==
    \/ \E h \in Hosts : LinkDown(h) \/ LinkUp(h) \/ LeaseExpires(h)
    \/ \E np \in PodIds : Invalidated(np)

Next ==
    \/ \E t \in Handlers : Begin(t)
    \/ \E t \in Threads : Continue(t) \/ LeaseTick(t)
    \/ Environment

Spec == Init /\ [][Next]_vars

\* Goroutines run on, requests time out, the lease ticker ticks: strongly, so
\* that where one thread stands for all of them the loop still gets its turn.
\* Nothing is assumed of who asks for what, or of the links.
Fairness == /\ \A t \in Threads : WF_vars(Continue(t))
            /\ SF_vars(LeaseTick(LeaseLoop))
            /\ \A np \in PodIds : WF_vars(Invalidated(np))

FairSpec == Spec /\ Fairness

-----------------------------------------------------------------------------
Labels == {"idle", "bind", "unbind", "want", "held", "apply", "mount", "record",
           "ok", "err", "lock", "start", "adopt", "spec", "build", "started",
           "failed", "stop", "disown", "nodedown", "holds", "run"}
Returns == {"none", "all", "lease", "views", "recheck", "adopted", "built", "drop"}

Job == [ret : Returns, host : Hosts \cup {None}, np : PodIds \cup {None},
        at : Paths \cup {None}, from : Origins \cup {None},
        cur : Paths \cup {None}, todo : SUBSET PodIds, hits : SUBSET Paths,
        want : [Paths -> Entry \cup {None}], snap : Tree]

PodRecord == [host : Hosts \cup {None}, held : Tree, gen : Nat, reachable : BOOLEAN]

Types ==
    /\ mounts \in [Paths -> Origins \cup {None}]
    /\ routes \in [Paths -> Origins \cup {None}]
    /\ gen \in Nat /\ faults \in Nat
    /\ manyWriters \in SUBSET Paths
    /\ writers \in [Paths -> Hosts \cup {None}]
    /\ pods \in [Hosts -> PodIds \cup {None}]
    /\ view \in [PodIds -> PodRecord]
    /\ building \in [Hosts -> Threads \cup {None}]
    /\ forget \in SUBSET PodIds
    /\ node \in [Hosts -> [up : BOOLEAN, held : Tree]]
    /\ link \in [Hosts -> BOOLEAN]
    /\ pc \in [Threads -> Labels]
    /\ job \in [Threads -> Job]
    /\ stopped \in SUBSET Hosts

InReconcile == {"want", "held", "apply", "mount", "record"}
InStartStop == {"lock", "start", "adopt", "spec", "build", "started", "failed",
                "stop", "disown", "nodedown"}

\* A record that something points at is a node pod's, and a machine's current
\* record is its own.
RecordsInUse ==
    /\ \A h \in Hosts : pods[h] # None => view[pods[h]].host = h
    /\ \A i \in forget : view[i].host \in Hosts
    /\ \A t \in Threads : /\ \A i \in job[t].todo : view[i].host \in Hosts
                          /\ job[t].np # None => view[job[t].np].host \in Hosts

\* A thread inside a handler knows its machine and its record.
Knows(label, j) ==
    /\ label \in InReconcile => j.np \in PodIds /\ view[j.np].host = j.host
    /\ label \in InStartStop \/ j.ret \in {"adopted", "built"} => j.host \in Hosts
    /\ label \in {"holds", "run"} \/ j.ret = "recheck" =>
          j.np \in PodIds /\ j.at \in Paths
    /\ label = "mount" => j.cur \in Paths /\ j.want[j.cur] # None

HandlersKnow == \A t \in Threads : Knows(pc[t], job[t])

\* The state has its types, and no handler works on a record or a machine that
\* is not there.
TypeOK == Types /\ RecordsInUse /\ HandlersKnow

\* A cache that can write: the node mounted the path and not read-only.
HoldsRW(h, p) == \E i \in DOMAIN node[h].held[p] : ~node[h].held[p][i].ro

\* The same, of a mount whose request did not say `writers: many`.
HoldsOwnRW(h, p) ==
    \E i \in DOMAIN node[h].held[p] :
        ~node[h].held[p][i].ro /\ node[h].held[p][i].from \notin ManyWriters

\* "One write-back cache per mount, and this is where that is decided"
\* (reconcile.go:100): no two machines ever hold a mount writable, unless its
\* request said `writers: many`.
OneWriter ==
    \A h, g \in Hosts, p \in Paths :
        h # g => ~(HoldsOwnRW(h, p) /\ HoldsOwnRW(g, p))

\* Whatever interleaves and whatever fails, the election splits only over a
\* machine whose pod this daemon has at some time stopped.
SplitOnlyByStop ==
    \A h, g \in Hosts, p \in Paths :
        h # g /\ HoldsRW(h, p) /\ HoldsRW(g, p) =>
            p \in manyWriters \/ h \in stopped \/ g \in stopped

\* A claim on writing belongs to a machine that has a node pod, or is just
\* getting or losing one (reconcile.go:104 "the first node pod to take a
\* writable mount keeps it", reconcile.go:126 "Called when a node pod goes away").
ClaimHasPod ==
    \A p \in Paths : writers[p] # None =>
        \/ pods[writers[p]] # None
        \/ \E t \in Threads : job[t].host = writers[p]

\* No handler is between a change and its recording.
Settled == \A t \in Threads : pc[t] \in {"idle", "holds", "run"}

SameTree(h) ==
    \A p \in Paths :
        IF p \in Sent(h) THEN /\ node[h].held[p] # <<>>
                              /\ Last(node[h].held[p]).from = mounts[p]
                         ELSE node[h].held[p] = <<>>

\* A node pod whose recorded generation is the pod's own holds the pod's tree:
\* "gen is the generation it has converged to. Behind the pod's own means there
\* is a difference waiting to be applied" (nodepod.go:43).
GenerationMeansTree ==
    Settled => \A h \in Hosts :
        pods[h] # None /\ view[pods[h]].gen = gen /\ node[h].up => SameTree(h)

\* "a stale node costs a visible refusal, never a wrong path" (backend.go:214):
\* where a command is about to run, the machine has the mount's own bytes.
NeverAWrongPath ==
    \A t \in Threads :
        LET h == job[t].host  p == job[t].at
        IN  pc[t] = "run" /\ mounts[p] # None /\ Answers(h) =>
                node[h].held[p] # <<>> /\ Last(node[h].held[p]).from = mounts[p]

\* "each node pod converges on its own; one that was unreachable applies the
\* difference when it comes back" (reconcile.go:25): a node pod that stays
\* registered, up and reachable gets the tree, once changes stop.
CatchesUp ==
    \A h \in Hosts :
        <>[](pods[h] # None /\ node[h].up /\ link[h]) => []<>SameTree(h)

\* "one unreachable node would block every mount change" is what this shape is
\* to avoid (reconcile.go:30): every request is answered, whatever the nodes do.
EveryRequestAnswered == \A t \in Threads : []<>Idle(t)
=============================================================================
