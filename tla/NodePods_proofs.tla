---------------------------- MODULE NodePods_proofs ----------------------------
(***************************************************************************)
(* Theorems about NodePods, for every number of machines, paths, origins,  *)
(* threads and failures.                                                   *)
(***************************************************************************)
EXTENDS NodePods, TLAPS

(* The types of what the operators return.                                 *)

\* Asking what a machine should hold gives a tree of entries, and claims held
\* by machines.
LEMMA DesiredType ==
    ASSUME Types, NEW h \in Hosts
    PROVE  /\ Desired(h) \in [Paths -> Entry \cup {None}]
           /\ ClaimFor(h) \in [Paths -> Hosts \cup {None}]
  BY DEF Types, Desired, ClaimFor, Claims, Sent, Entry

\* The tree a node pod is built with is a tree.
LEMMA BuiltType ==
    ASSUME NEW want \in [Paths -> Entry \cup {None}]
    PROVE  Built(want) \in Tree
  BY DEF Built, Tree

\* A request, answered or not, leaves the node pods with their types.
LEMMA RequestType ==
    ASSUME Types, NEW h \in Hosts, NEW held \in Tree,
           Request(h, TRUE, held) \/ Request(h, FALSE, held)
    PROVE  /\ node' \in [Hosts -> [up : BOOLEAN, held : Tree]]
           /\ faults' \in Nat
<1> DEFINE acted == [node EXCEPT ![h].held = held]
<1>1. acted \in [Hosts -> [up : BOOLEAN, held : Tree]]
  BY DEF Types
<1>2. node' \in {node, acted} /\ (faults' = faults \/ faults' = faults + 1)
  BY DEF Request, Fault
<1> QED
  BY <1>1, <1>2 DEF Types

\* The empty tree and the empty list of mounts to bring.
LEMMA NoTreeType == NoTree \in Tree /\ NoWant \in [Paths -> Entry \cup {None}]
  BY DEF NoTree, NoWant, Tree

\* No handler: every field is at rest.
LEMMA NoJobType == NoJob \in Job
  BY NoTreeType DEF NoJob, Job, Returns

\* `up` starts every part of the state with its type.
THEOREM InitTypes == Init => Types
<1> SUFFICES ASSUME Init PROVE Types
  OBVIOUS
<1>1. mounts \in [Paths -> Origins \cup {None}] /\ routes \in [Paths -> Origins \cup {None}]
  BY ConstantsAssumption DEF Init
<1>2. view \in [PodIds -> PodRecord] /\ node \in [Hosts -> [up : BOOLEAN, held : Tree]]
  BY NoTreeType DEF Init, NewRecord, PodRecord
<1>3. pc \in [Threads -> Labels] /\ job \in [Threads -> Job]
  BY NoJobType DEF Init, Labels
<1> QED
  BY <1>1, <1>2, <1>3 DEF Init, Types

\* In a reconcile the machine and the record are there.
LEMMA InReconcileKnows ==
    ASSUME TypeOK, NEW t \in Threads, pc[t] \in InReconcile
    PROVE  /\ job[t].np \in PodIds /\ job[t].host \in Hosts
           /\ node[job[t].host].held \in Tree
<1>1. job[t].np \in PodIds /\ view[job[t].np].host = job[t].host
  BY DEF TypeOK, HandlersKnow, Knows
<1>2. job[t].host \in Hosts
  BY <1>1, ConstantsAssumption DEF TypeOK, RecordsInUse
<1> QED
  BY <1>1, <1>2 DEF TypeOK, Types

\* A record of the daemon's view that is marked, one way or the other.
LEMMA MarkType ==
    ASSUME Types, NEW np \in PodIds, NEW b \in BOOLEAN,
           view' = [view EXCEPT ![np].reachable = b]
    PROVE  view' \in [PodIds -> PodRecord]
<1>1. view[np] \in PodRecord /\ view \in [PodIds -> PodRecord]
  BY DEF Types
<1>2. [view[np] EXCEPT !.reachable = b] \in PodRecord
  BY <1>1 DEF PodRecord
<1> QED
  BY <1>1, <1>2

\* A thread's place is one of the labels.
LEMMA GotoType ==
    ASSUME Types, NEW t \in Threads, NEW label \in Labels, Goto(t, label)
    PROVE  pc' \in [Threads -> Labels]
  BY DEF Goto, Types

\* A handler that has answered leaves a thread at rest.
LEMMA FinishType ==
    ASSUME Types, NEW t \in Threads, Finish(t)
    PROVE  pc' \in [Threads -> Labels] /\ job' \in [Threads -> Job]
  BY NoJobType DEF Finish, Goto, Types, Labels

\* The registered records are records.
LEMMA RegisteredType ==
    ASSUME Types PROVE Registered \in SUBSET PodIds
  BY DEF Types, Registered

\* What handlers write in their thread's job.
LEMMA JobFields ==
    ASSUME NEW j \in Job
    PROVE  /\ \A p \in Paths, o \in Origins : [j EXCEPT !.at = p, !.from = o] \in Job
           /\ \A ret \in Returns, todo \in SUBSET PodIds :
                 [j EXCEPT !.ret = ret, !.todo = todo] \in Job
           /\ \A hits \in SUBSET Paths : [j EXCEPT !.hits = hits] \in Job
           /\ \A np \in PodIds, h \in Hosts, todo \in SUBSET PodIds :
                 [j EXCEPT !.np = np, !.host = h, !.todo = todo] \in Job
           /\ \A todo \in SUBSET PodIds : [j EXCEPT !.todo = todo] \in Job
           /\ \A h \in Hosts : [j EXCEPT !.host = h] \in Job
           /\ \A h \in Hosts, ret \in Returns :
                 [j EXCEPT !.host = h, !.ret = ret] \in Job
           /\ \A np \in PodIds \cup {None}, h \in Hosts, p \in Paths :
                 [j EXCEPT !.host = h, !.at = p, !.np = np] \in Job
           /\ \A np \in PodIds, h \in Hosts \cup {None}, ret \in Returns :
                 [j EXCEPT !.np = np, !.host = h, !.ret = ret] \in Job
           /\ \A np \in PodIds : [j EXCEPT !.np = np] \in Job
           /\ \A want \in [Paths -> Entry \cup {None}] :
                 [j EXCEPT !.want = want] \in Job
<1>1. \A p \in Paths, o \in Origins :
       [j EXCEPT !.at = p, !.from = o] \in Job
  BY DEF Job
<1>2. \A ret \in Returns, todo \in SUBSET PodIds :
       [j EXCEPT !.ret = ret, !.todo = todo] \in Job
  BY DEF Job
<1>3. \A hits \in SUBSET Paths :
       [j EXCEPT !.hits = hits] \in Job
  BY DEF Job
<1>4. \A np \in PodIds, h \in Hosts, todo \in SUBSET PodIds :
       [j EXCEPT !.np = np, !.host = h, !.todo = todo] \in Job
  BY DEF Job
<1>5. \A todo \in SUBSET PodIds :
       [j EXCEPT !.todo = todo] \in Job
  BY DEF Job
<1>6. \A h \in Hosts :
       [j EXCEPT !.host = h] \in Job
  BY DEF Job
<1>7. \A h \in Hosts, ret \in Returns :
       [j EXCEPT !.host = h, !.ret = ret] \in Job
  BY DEF Job
<1>8. \A np \in PodIds \cup {None}, h \in Hosts, p \in Paths :
       [j EXCEPT !.host = h, !.at = p, !.np = np] \in Job
  BY DEF Job
<1>9. \A np \in PodIds, h \in Hosts \cup {None}, ret \in Returns :
       [j EXCEPT !.np = np, !.host = h, !.ret = ret] \in Job
  BY DEF Job
<1>10. \A np \in PodIds :
       [j EXCEPT !.np = np] \in Job
  BY DEF Job
<1>11. \A want \in [Paths -> Entry \cup {None}] :
       [j EXCEPT !.want = want] \in Job
  BY DEF Job
<1> QED
  BY <1>1, <1>2, <1>3, <1>4, <1>5, <1>6, <1>7, <1>8, <1>9, <1>10, <1>11

\* What a reconcile writes in its thread's job.
LEMMA JobInReconcile ==
    ASSUME NEW j \in Job, NEW tree \in Tree, NEW cur \in Paths \cup {None},
           NEW want \in [Paths -> Entry \cup {None}]
    PROVE  /\ [j EXCEPT !.want = want, !.snap = tree, !.cur = cur] \in Job
           /\ [j EXCEPT !.snap = tree, !.cur = cur] \in Job
           /\ [j EXCEPT !.snap = tree] \in Job
           /\ [j EXCEPT !.want = want] \in Job
  BY DEF Job

\* A reconcile that returns, and a handler that answers, leave typed threads.
LEMMA ReturnType ==
    ASSUME Types, NEW t \in Threads, NEW result \in {"ok", "err"}, Return(t, result)
    PROVE  pc' \in [Threads -> Labels] /\ job' \in [Threads -> Job]
<1>1. pc' \in [Threads -> Labels]
  BY DEF Types, Return, Goto, Labels
<1>2. job' = [job EXCEPT ![t] = [job[t] EXCEPT !.want = NoWant, !.snap = NoTree,
                                               !.cur = None]]
  BY DEF Return, Types
<1>3. [job[t] EXCEPT !.want = NoWant, !.snap = NoTree, !.cur = None] \in Job
  BY NoTreeType, JobInReconcile DEF Types
<1> QED
  BY <1>1, <1>2, <1>3 DEF Types

\* What the steps of a reconcile change, with its types.
ReconcileTypes ==
    /\ node' \in [Hosts -> [up : BOOLEAN, held : Tree]]
    /\ faults' \in Nat
    /\ view' \in [PodIds -> PodRecord]
    /\ pc' \in [Threads -> Labels]
    /\ job' \in [Threads -> Job]

\* A request that changes the node pod, or ends the reconcile.
LEMMA ChangeType ==
    ASSUME TypeOK, NEW t \in Threads, pc[t] \in InReconcile, NEW p \in Paths,
           NEW held \in Tree, NEW snap \in Tree, NEW next \in {"apply", "mount"},
           Change(t, p, held, snap, next)
    PROVE  ReconcileTypes
<1> DEFINE h == job[t].host
<1>1. job[t].np \in PodIds /\ h \in Hosts
  BY InReconcileKnows
<1>2. Request(h, TRUE, held) \/ Request(h, FALSE, held)
  BY DEF Change
<1>3. node' \in [Hosts -> [up : BOOLEAN, held : Tree]] /\ faults' \in Nat
  BY <1>1, <1>2, RequestType DEF TypeOK
<1>4. CASE /\ Reached(job[t].np)
           /\ job' = [job EXCEPT ![t].snap = snap,
                                ![t].cur = IF next = "mount" THEN p ELSE None]
           /\ Goto(t, next)
  <2>1. view' = [view EXCEPT ![job[t].np].reachable = TRUE]
    BY <1>4 DEF Reached
  <2>2. view' \in [PodIds -> PodRecord]
    BY <1>1, <2>1, MarkType DEF TypeOK
  <2>3. pc' \in [Threads -> Labels]
    BY <1>4 DEF Goto, TypeOK, Types, Labels
  <2>4. PICK cur \in Paths \cup {None} :
            job' = [job EXCEPT ![t] = [job[t] EXCEPT !.snap = snap, !.cur = cur]]
    BY <1>4 DEF TypeOK, Types
  <2>5. [job[t] EXCEPT !.snap = snap, !.cur = cur] \in Job
    BY NoTreeType, JobInReconcile DEF TypeOK, Types
  <2>6. job' \in [Threads -> Job]
    BY <2>4, <2>5 DEF TypeOK, Types
  <2> QED
    BY <1>3, <2>2, <2>3, <2>6 DEF ReconcileTypes
<1>5. CASE Return(t, "err") /\ UNCHANGED view
  BY <1>3, <1>5, ReturnType DEF ReconcileTypes, TypeOK, Types
<1> QED
  BY <1>4, <1>5 DEF Change

\* Releasing a mount: the request, or the node's own error.
LEMMA ReleaseType ==
    ASSUME TypeOK, NEW t \in Threads, pc[t] \in InReconcile, NEW p \in Paths,
           NEW left \in Seq(Entry), NEW next \in {"apply", "mount"},
           Release(t, p, left, next)
    PROVE  ReconcileTypes
<1> DEFINE held == node[job[t].host].held
<1>1. held \in Tree /\ job[t].snap \in Tree
  BY InReconcileKnows DEF TypeOK, Types, Job
<1>2. CASE held[p] # <<>>
  <2>1. Tail(held[p]) \in Seq(Entry)
    BY <1>1, <1>2 DEF Tree
  <2>2. /\ [held EXCEPT ![p] = Tail(@)] \in Tree
        /\ [job[t].snap EXCEPT ![p] = left] \in Tree
    BY <1>1, <2>1 DEF Tree
  <2> QED
    BY <1>2, <2>2, ChangeType DEF Release
<1>3. CASE held[p] = <<>>
  BY <1>3, ReturnType DEF Release, TypeOK, Types, ReconcileTypes
<1> QED
  BY <1>2, <1>3

\* A new record, and the thread that made it.
LEMMA PutType ==
    ASSUME Types, NEW t \in Threads, NEW h \in Hosts, NEW ret \in Returns,
           Put(t, h, ret)
    PROVE  /\ pods' \in [Hosts -> PodIds \cup {None}]
           /\ view' \in [PodIds -> PodRecord]
           /\ pc' \in [Threads -> Labels] /\ job' \in [Threads -> Job]
<1>1. NewRecord(h) \in PodRecord
  BY NoTreeType DEF NewRecord, PodRecord
<1>2. PICK i \in PodIds :
        /\ pods' = [pods EXCEPT ![h] = i]
        /\ view' = [view EXCEPT ![i] = NewRecord(h)]
        /\ job' = [job EXCEPT ![t].np = i, ![t].ret = ret, ![t].want = NoWant]
        /\ Goto(t, "want")
  BY DEF Put
<1>3. job' \in [Threads -> Job]
  <2>1. \A j \in Job : [j EXCEPT !.np = i, !.ret = ret, !.want = NoWant] \in Job
    BY NoTreeType DEF Job
  <2> QED
    BY <1>2, <2>1 DEF Types
<1> QED
  BY <1>1, <1>2, <1>3 DEF Goto, Types, Labels

\* Every step keeps the types.
LEMMA TypesStep ==
    ASSUME TypeOK, [Next]_vars
    PROVE  Types'
<1> USE DEF TypeOK
<1>1. ASSUME NEW t \in Threads, NEW p \in Paths, NEW o \in Origins, Mount(t, p, o)
      PROVE  Types'
  <2>1. pc' \in [Threads -> Labels]
    BY <1>1, GotoType DEF Mount, Labels
  <2>2. job' \in [Threads -> Job]
    BY <1>1, JobFields DEF Mount, Types
  <2> QED
    BY <1>1, <2>1, <2>2 DEF Mount, Types
<1>2. ASSUME NEW t \in Threads, Bound(t)
      PROVE  Types'
  <2>1. pc' \in [Threads -> Labels]
    BY <1>2, GotoType DEF Bound, Labels
  <2>2. job' \in [Threads -> Job]
    BY <1>2, RegisteredType, JobFields DEF Bound, Types, Returns
  <2> QED
    BY <1>2, <2>1, <2>2 DEF Bound, Types
<1>3. ASSUME NEW t \in Threads, BindFails(t)
      PROVE  Types'
  <2>1. pc' \in [Threads -> Labels] /\ job' \in [Threads -> Job]
    BY <1>3, FinishType DEF BindFails
  <2>2. mounts' \in [Paths -> Origins \cup {None}]
    BY <1>3 DEF BindFails, Types
  <2>3. faults' \in Nat
    BY <1>3 DEF BindFails, Fault, Types
  <2> QED
    BY <1>3, <2>1, <2>2, <2>3 DEF BindFails, Types
<1>4. ASSUME NEW t \in Threads, NEW hits \in SUBSET Paths, Unmount(t, hits)
      PROVE  Types'
  <2>1. pc' \in [Threads -> Labels]
    BY <1>4, GotoType DEF Unmount, Labels
  <2>2. job' \in [Threads -> Job]
    BY <1>4, JobFields DEF Unmount, Types
  <2> QED
    BY <1>4, <2>1, <2>2 DEF Unmount, Types, daemon
<1>5. ASSUME NEW t \in Threads, NEW p \in Paths, Unbind(t, p)
      PROVE  Types'
  <2>1. job[t].hits \ {p} \in SUBSET Paths
    BY DEF Types, Job
  <2>2. job' \in [Threads -> Job]
    BY <1>5, <2>1, JobFields DEF Unbind, Types
  <2> QED
    BY <1>5, <2>2 DEF Unbind, Types
<1>6. ASSUME NEW t \in Threads, UnbindFails(t)
      PROVE  Types'
  <2>1. pc' \in [Threads -> Labels] /\ job' \in [Threads -> Job]
    BY <1>6, FinishType DEF UnbindFails
  <2> QED
    BY <1>6, <2>1 DEF UnbindFails, Types, daemon, Fault
<1>7. ASSUME NEW t \in Threads, Unmounted(t)
      PROVE  Types'
  <2>1. pc' \in [Threads -> Labels]
    BY <1>7, GotoType DEF Unmounted, Labels
  <2>2. job' \in [Threads -> Job]
    BY <1>7, RegisteredType, JobFields DEF Unmounted, Types, Returns
  <2> QED
    BY <1>7, <2>1, <2>2 DEF Unmounted, Types
<1>8. ASSUME NEW t \in Threads, Want(t)
      PROVE  Types'
  <2>1. job[t].host \in Hosts
    BY <1>8, InReconcileKnows DEF Want, InReconcile
  <2>2. /\ Desired(job[t].host) \in [Paths -> Entry \cup {None}]
        /\ writers' \in [Paths -> Hosts \cup {None}]
    BY <1>8, <2>1, DesiredType DEF Want
  <2>3. pc' \in [Threads -> Labels]
    BY <1>8, GotoType DEF Want, Labels
  <2>4. job' \in [Threads -> Job]
    BY <1>8, <2>2, JobFields DEF Want, Types
  <2> QED
    BY <1>8, <2>2, <2>3, <2>4 DEF Want, Types
<1>9. ASSUME NEW t \in Threads, AskHeld(t)
      PROVE  Types'
  <2>1. /\ job[t].np \in PodIds /\ job[t].host \in Hosts
        /\ node[job[t].host].held \in Tree
    BY <1>9, InReconcileKnows DEF AskHeld, InReconcile
  <2>2. ReconcileTypes
    <3>1. \/ Request(job[t].host, TRUE, node[job[t].host].held)
          \/ Request(job[t].host, FALSE, node[job[t].host].held)
      BY <1>9 DEF AskHeld
    <3>2. node' \in [Hosts -> [up : BOOLEAN, held : Tree]] /\ faults' \in Nat
      BY <2>1, <3>1, RequestType
    <3>3. view' \in [PodIds -> PodRecord]
      BY <1>9, <2>1, MarkType DEF AskHeld, Reached
    <3>4. CASE /\ job' = [job EXCEPT ![t].snap = node[job[t].host].held]
               /\ Goto(t, "apply")
      <4>1. [job[t] EXCEPT !.snap = node[job[t].host].held] \in Job
        BY <2>1, NoTreeType, JobInReconcile DEF Types
      <4>2. job' \in [Threads -> Job]
        BY <3>4, <4>1 DEF Types
      <4> QED
        BY <3>2, <3>3, <3>4, <4>2, GotoType DEF Labels, ReconcileTypes
    <3>5. CASE Return(t, "err")
      BY <3>2, <3>3, <3>5, ReturnType DEF ReconcileTypes
    <3> QED
      BY <1>9, <3>4, <3>5 DEF AskHeld
  <2> QED
    BY <1>9, <2>2 DEF AskHeld, daemon, Types, ReconcileTypes
<1>10. ASSUME NEW t \in Threads, NEW p \in Paths, ReleaseOld(t, p)
      PROVE  Types'
  <2>1. Release(t, p, <<>>, "mount") /\ pc[t] \in InReconcile
    BY <1>10 DEF ReleaseOld, InReconcile
  <2>2. <<>> \in Seq(Entry)
    OBVIOUS
  <2>3. ReconcileTypes
    BY <2>1, <2>2, ReleaseType
  <2> QED
    BY <1>10, <2>3 DEF ReleaseOld, daemon, Types, ReconcileTypes
<1>11. ASSUME NEW t \in Threads, NEW p \in Paths, TakeMount(t, p)
      PROVE  Types'
  <2> DEFINE e == job[t].want[p]
             held == node[job[t].host].held
  <2>1. e \in Entry
    BY <1>11 DEF TakeMount, Missing, HandlersKnow, Knows, Types, Job
  <2>2. held \in Tree /\ job[t].snap \in Tree
    BY <1>11, InReconcileKnows DEF TakeMount, InReconcile, Types, Job
  <2>3. /\ [held EXCEPT ![p] = Append(@, e)] \in Tree
        /\ [job[t].snap EXCEPT ![p] = <<e>>] \in Tree
    BY <2>1, <2>2 DEF Tree
  <2>4. ReconcileTypes
    BY <1>11, <2>3, ChangeType DEF TakeMount, Take, InReconcile
  <2> QED
    BY <1>11, <2>4 DEF TakeMount, daemon, Types, ReconcileTypes
<1>12. ASSUME NEW t \in Threads, NEW p \in Paths, ReleaseStray(t, p)
      PROVE  Types'
  <2>1. Tail(job[t].snap[p]) \in Seq(Entry)
    BY <1>12 DEF ReleaseStray, Stray, Types, Job, Tree
  <2>2. ReconcileTypes
    BY <1>12, <2>1, ReleaseType DEF ReleaseStray, InReconcile
  <2> QED
    BY <1>12, <2>2 DEF ReleaseStray, daemon, Types, ReconcileTypes
<1>13. ASSUME NEW t \in Threads, AskFinal(t)
      PROVE  Types'
  <2>1. /\ job[t].np \in PodIds /\ job[t].host \in Hosts
        /\ node[job[t].host].held \in Tree
    BY <1>13, InReconcileKnows DEF AskFinal, InReconcile
  <2>2. ReconcileTypes
    <3>1. \/ Request(job[t].host, TRUE, node[job[t].host].held)
          \/ Request(job[t].host, FALSE, node[job[t].host].held)
      BY <1>13 DEF AskFinal
    <3>2. node' \in [Hosts -> [up : BOOLEAN, held : Tree]] /\ faults' \in Nat
      BY <2>1, <3>1, RequestType
    <3>3. view' \in [PodIds -> PodRecord]
      BY <1>13, <2>1, MarkType DEF AskFinal, Reached
    <3>4. CASE /\ job' = [job EXCEPT ![t].snap = node[job[t].host].held]
               /\ Goto(t, "record")
      <4>1. [job[t] EXCEPT !.snap = node[job[t].host].held] \in Job
        BY <2>1, NoTreeType, JobInReconcile DEF Types
      <4>2. job' \in [Threads -> Job]
        BY <3>4, <4>1 DEF Types
      <4> QED
        BY <3>2, <3>3, <3>4, <4>2, GotoType DEF Labels, ReconcileTypes
    <3>5. CASE Return(t, "err")
      BY <3>2, <3>3, <3>5, ReturnType DEF ReconcileTypes
    <3> QED
      BY <1>13, <3>4, <3>5 DEF AskFinal
  <2> QED
    BY <1>13, <2>2 DEF AskFinal, daemon, Types, ReconcileTypes
<1>14. ASSUME NEW t \in Threads, Record(t)
      PROVE  Types'
  <2>1. job[t].np \in PodIds
    BY <1>14, InReconcileKnows DEF Record, InReconcile
  <2>2. view' \in [PodIds -> PodRecord]
    <3>1. [view[job[t].np] EXCEPT !.held = job[t].snap, !.gen = gen,
                                  !.reachable = TRUE] \in PodRecord
      <4>1. /\ view[job[t].np] \in PodRecord
            /\ job[t].snap \in Tree /\ gen \in Nat
        BY <2>1 DEF Types, Job
      <4>2. \A v \in PodRecord, tree \in Tree, g \in Nat :
              [v EXCEPT !.held = tree, !.gen = g, !.reachable = TRUE] \in PodRecord
        BY DEF PodRecord
      <4> QED
        BY <4>1, <4>2
    <3> QED
      BY <1>14, <2>1, <3>1 DEF Record, Types
  <2>3. pc' \in [Threads -> Labels] /\ job' \in [Threads -> Job]
    BY <1>14, ReturnType DEF Record
  <2> QED
    BY <1>14, <2>2, <2>3 DEF Record, daemon, Types
<1>15. ASSUME NEW t \in Threads, NEW np \in PodIds, NextPod(t, np)
      PROVE  Types'
  <2>0. job[t].todo \ {np} \in SUBSET PodIds /\ view[np].host \in Hosts
    BY <1>15 DEF NextPod, RecordsInUse, Types, Job
  <2>1. pc' \in [Threads -> Labels]
    BY <1>15, GotoType DEF NextPod, Labels
  <2>2. job' \in [Threads -> Job]
    BY <1>15, <2>0, JobFields DEF NextPod, Types
  <2> QED
    BY <1>15, <2>1, <2>2 DEF NextPod, Types, daemon
<1>16. ASSUME NEW t \in Threads, Answered(t)
      PROVE  Types'
  <2>1. pc' \in [Threads -> Labels] /\ job' \in [Threads -> Job]
    BY <1>16, FinishType DEF Answered
  <2> QED
    BY <1>16, <2>1 DEF Answered, Types, daemon
<1>17. ASSUME NEW t \in Threads, LeaseTick(t)
      PROVE  Types'
  <2>1. pc' \in [Threads -> Labels]
    BY <1>17, GotoType DEF LeaseTick, Labels
  <2>2. job' \in [Threads -> Job]
    BY <1>17, RegisteredType, JobFields DEF LeaseTick, Types, Returns
  <2> QED
    BY <1>17, <2>1, <2>2 DEF LeaseTick, Types, daemon
<1>18. ASSUME NEW t \in Threads, NEW np \in PodIds, Renew(t, np)
      PROVE  Types'
  <2> DEFINE h == view[np].host
  <2>1. h \in Hosts /\ job[t].todo \ {np} \in SUBSET PodIds
    BY <1>18 DEF Renew, RecordsInUse, Types, Job
  <2>2. node[h].held \in Tree
    BY <2>1 DEF Types
  <2>3. node' \in [Hosts -> [up : BOOLEAN, held : Tree]] /\ faults' \in Nat
    <3>1. Request(h, TRUE, node[h].held) \/ Request(h, FALSE, node[h].held)
      BY <1>18 DEF Renew
    <3> QED
      BY <2>1, <2>2, <3>1, RequestType
  <2>4. view' \in [PodIds -> PodRecord]
    BY <1>18, MarkType DEF Renew, Reached
  <2>5. pc' \in [Threads -> Labels]
    BY <1>18, GotoType DEF Renew, Labels
  <2>6. job' \in [Threads -> Job]
    BY <1>18, <2>1, JobFields DEF Renew, Types
  <2> QED
    BY <1>18, <2>3, <2>4, <2>5, <2>6 DEF Renew, daemon, Types
<1>19. ASSUME NEW t \in Threads, Look(t)
      PROVE  Types'
  <2>1. pc' \in [Threads -> Labels]
    BY <1>19, GotoType DEF Look, Labels
  <2>2. job' \in [Threads -> Job]
    BY <1>19, RegisteredType, JobFields DEF Look, Types, Returns
  <2> QED
    BY <1>19, <2>1, <2>2 DEF Look, Types, daemon
<1>20. ASSUME NEW t \in Threads, NEW np \in PodIds, LookAt(t, np)
      PROVE  Types'
  <2>1. job[t].todo \ {np} \in SUBSET PodIds /\ view[np].host \in Hosts
    BY <1>20 DEF LookAt, RecordsInUse, Types, Job
  <2>2. writers' \in [Paths -> Hosts \cup {None}]
    BY <1>20, <2>1, DesiredType DEF LookAt
  <2>3. job' \in [Threads -> Job]
    BY <1>20, <2>1, JobFields DEF LookAt, Types
  <2> QED
    BY <1>20, <2>2, <2>3 DEF LookAt, Types
<1>21. ASSUME NEW t \in Threads, NEW h \in Hosts, Add(t, h)
      PROVE  Types'
  <2>1. pc' \in [Threads -> Labels]
    BY <1>21, GotoType DEF Add, Labels
  <2>2. job' \in [Threads -> Job]
    BY <1>21, JobFields DEF Add, Types
  <2> QED
    BY <1>21, <2>1, <2>2 DEF Add, Types, daemon
<1>22. ASSUME NEW t \in Threads, LockBuild(t)
      PROVE  Types'
  <2>1. pc' \in [Threads -> Labels]
    BY <1>22, GotoType DEF LockBuild, Labels
  <2> QED
    BY <1>22, <2>1 DEF LockBuild, Types
<1>23. ASSUME NEW t \in Threads, Start(t)
      PROVE  Types'
  <2>1. pc' \in [Threads -> Labels]
    BY <1>23, GotoType DEF Start, Labels
  <2> QED
    BY <1>23, <2>1 DEF Start, Types, daemon, Fault
<1>24. ASSUME NEW t \in Threads, Adopt(t)
      PROVE  Types'
  <2> DEFINE h == job[t].host
  <2>1. h \in Hosts
    BY <1>24 DEF Adopt, HandlersKnow, Knows, InStartStop
  <2>2. node' \in [Hosts -> [up : BOOLEAN, held : Tree]] /\ faults' \in Nat
    <3>1. Request(h, TRUE, node[h].held) \/ Request(h, FALSE, node[h].held)
      BY <1>24 DEF Adopt
    <3>2. node[h].held \in Tree
      BY <2>1 DEF Types
    <3> QED
      BY <2>1, <3>1, <3>2, RequestType
  <2>3. CASE Put(t, h, "adopted")
    <3>1. "adopted" \in Returns
      BY DEF Returns
    <3> QED
      BY <1>24, <2>1, <2>2, <2>3, <3>1, PutType DEF Adopt, Types
  <2>4. CASE Goto(t, "spec") /\ UNCHANGED <<pods, view, job>>
    <3>1. "spec" \in Labels
      BY DEF Labels
    <3> QED
      BY <1>24, <2>2, <2>4, <3>1, GotoType DEF Adopt, Types
  <2> QED
    BY <1>24, <2>3, <2>4 DEF Adopt
<1>25. ASSUME NEW t \in Threads, PodSpec(t)
      PROVE  Types'
  <2>1. job[t].host \in Hosts
    BY <1>25 DEF PodSpec, HandlersKnow, Knows, InStartStop
  <2>2. /\ Desired(job[t].host) \in [Paths -> Entry \cup {None}]
        /\ writers' \in [Paths -> Hosts \cup {None}]
    BY <1>25, <2>1, DesiredType DEF PodSpec
  <2>3. pc' \in [Threads -> Labels]
    BY <1>25, GotoType DEF PodSpec, Labels
  <2>4. job' \in [Threads -> Job]
    BY <1>25, <2>2, JobFields DEF PodSpec, Types
  <2> QED
    BY <1>25, <2>2, <2>3, <2>4 DEF PodSpec, Types
<1>26. ASSUME NEW t \in Threads, Build(t)
      PROVE  Types'
  <2> DEFINE h == job[t].host
             up == [node EXCEPT ![h] = [up |-> TRUE, held |-> Built(job[t].want)]]
  <2>1. h \in Hosts
    BY <1>26 DEF Build, HandlersKnow, Knows, InStartStop
  <2>2. Built(job[t].want) \in Tree
    BY BuiltType DEF Types, Job
  <2>3. node' \in [Hosts -> [up : BOOLEAN, held : Tree]] /\ faults' \in Nat
    <3>1. node' \in {node, up} /\ (faults' = faults \/ faults' = faults + 1)
      BY <1>26 DEF Build, Fault
    <3>2. up \in [Hosts -> [up : BOOLEAN, held : Tree]]
      BY <2>1, <2>2 DEF Types
    <3>3. faults' \in Nat
      BY <3>1 DEF Types
    <3> QED
      BY <3>1, <3>2, <3>3 DEF Types
  <2>4. CASE Put(t, h, "built")
    <3>1. "built" \in Returns
      BY DEF Returns
    <3> QED
      BY <1>26, <2>1, <2>3, <2>4, <3>1, PutType DEF Build, Types
  <2>5. CASE Goto(t, "failed") /\ UNCHANGED <<pods, view, job>>
    <3>1. "failed" \in Labels
      BY DEF Labels
    <3> QED
      BY <1>26, <2>3, <2>5, <3>1, GotoType DEF Build, Types
  <2> QED
    BY <1>26, <2>4, <2>5 DEF Build
<1>27. ASSUME NEW t \in Threads, AdoptFails(t)
      PROVE  Types'
  <2>1. pc' \in [Threads -> Labels]
    BY <1>27, GotoType DEF AdoptFails, Labels
  <2> QED
    BY <1>27, <2>1 DEF AdoptFails, Types
<1>28. ASSUME NEW t \in Threads, BuildFails(t)
      PROVE  Types'
  <2>1. pc' \in [Threads -> Labels]
    BY <1>28, GotoType DEF BuildFails, Labels
  <2> QED
    BY <1>28, <2>1 DEF BuildFails, Types, daemon
<1>29. ASSUME NEW t \in Threads, Reconciled(t)
      PROVE  Types'
  <2>1. pc' \in [Threads -> Labels]
    BY <1>29, GotoType DEF Reconciled, Labels
  <2> QED
    BY <1>29, <2>1 DEF Reconciled, Types, daemon
<1>30. ASSUME NEW t \in Threads, Started(t)
      PROVE  Types'
  <2>1. building' \in [Hosts -> Threads \cup {None}]
    BY <1>30 DEF Started, Unlocked, Types
  <2>2. pc' \in [Threads -> Labels] /\ job' \in [Threads -> Job]
    <3> DEFINE np == pods[job[t].host]
    <3>1. CASE /\ np # None /\ job' = [job EXCEPT ![t].np = np]
               /\ Goto(t, "holds")
      <4>1. np \in PodIds
        BY <1>30, <3>1 DEF Started, HandlersKnow, Knows, InStartStop, Types
      <4>2. job' \in [Threads -> Job]
        BY <3>1, <4>1, JobFields DEF Types
      <4> QED
        BY <3>1, <4>2, GotoType DEF Labels
    <3> QED
      BY <1>30, <3>1, FinishType DEF Started
  <2> QED
    BY <1>30, <2>1, <2>2 DEF Started, Types
<1>31. ASSUME NEW t \in Threads, StartFails(t)
      PROVE  Types'
  <2>1. pc' \in [Threads -> Labels] /\ job' \in [Threads -> Job]
    BY <1>31, FinishType DEF StartFails
  <2> QED
    BY <1>31, <2>1 DEF StartFails, Types, Unlocked
<1>32. ASSUME NEW t \in Threads, NEW h \in Hosts, Drop(t, h)
      PROVE  Types'
  <2>1. pc' \in [Threads -> Labels]
    BY <1>32, GotoType DEF Drop, Labels
  <2>2. job' \in [Threads -> Job]
    BY <1>32, JobFields DEF Drop, Types, Returns
  <2> QED
    BY <1>32, <2>1, <2>2 DEF Drop, Types, daemon
<1>33. ASSUME NEW t \in Threads, Stop(t)
      PROVE  Types'
  <2>1. pc' \in [Threads -> Labels]
    BY <1>33, GotoType DEF Stop, Labels, AfterStop
  <2>2. job[t].host \in Hosts
    BY <1>33 DEF Stop, HandlersKnow, Knows, InStartStop
  <2>3. pods' \in [Hosts -> PodIds \cup {None}] /\ stopped' \in SUBSET Hosts
    BY <1>33, <2>2 DEF Stop, Types
  <2> QED
    BY <1>33, <2>1, <2>3 DEF Stop, Types
<1>34. ASSUME NEW t \in Threads, Disown(t)
      PROVE  Types'
  <2>1. pc' \in [Threads -> Labels]
    BY <1>34, GotoType DEF Disown, Labels
  <2> QED
    BY <1>34, <2>1 DEF Disown, Types
<1>35. ASSUME NEW t \in Threads, NodeDown(t)
      PROVE  Types'
  <2> DEFINE gone == [node EXCEPT ![job[t].host] = [up |-> FALSE, held |-> NoTree]]
  <2>1. node' \in [Hosts -> [up : BOOLEAN, held : Tree]]
    <3>1. gone \in [Hosts -> [up : BOOLEAN, held : Tree]]
      BY NoTreeType DEF Types
    <3>2. node' \in {node, gone}
      BY <1>35 DEF NodeDown
    <3> QED
      BY <3>1, <3>2 DEF Types
  <2>2. pc' \in [Threads -> Labels]
    BY <1>35, GotoType DEF NodeDown, AfterStop, Labels
  <2> QED
    BY <1>35, <2>1, <2>2 DEF NodeDown, daemon, Fault, Types
<1>36. ASSUME NEW t \in Threads, NEW h \in Hosts, NEW p \in Paths, Dispatch(t, h, p)
      PROVE  Types'
  <2>1. pc' \in [Threads -> Labels]
    BY <1>36, GotoType DEF Dispatch, Labels
  <2>2. job' \in [Threads -> Job]
    BY <1>36, JobFields DEF Dispatch, Types
  <2> QED
    BY <1>36, <2>1, <2>2 DEF Dispatch, Types, daemon
<1>37. ASSUME NEW t \in Threads, Guard(t)
      PROVE  Types'
  <2>1. pc' \in [Threads -> Labels] /\ job' \in [Threads -> Job]
    <3>1. CASE Reconcile(t, job[t].np, "recheck")
      <4>1. /\ job[t].np \in PodIds /\ view[job[t].np].host \in Hosts \cup {None}
            /\ "recheck" \in Returns
        BY <1>37 DEF Guard, HandlersKnow, Knows, Types, PodRecord, Returns
      <4>2. job' \in [Threads -> Job]
        BY <3>1, <4>1, JobFields DEF Reconcile, Types
      <4> QED
        BY <3>1, <4>2, GotoType DEF Reconcile, Labels
    <3>2. CASE Goto(t, "run") /\ UNCHANGED job
      BY <3>2, GotoType DEF Labels, Types
    <3>3. CASE Finish(t)
      BY <3>3, FinishType
    <3> QED
      BY <1>37, <3>1, <3>2, <3>3 DEF Guard
  <2> QED
    BY <1>37, <2>1 DEF Guard, daemon, Types
<1>38. ASSUME NEW t \in Threads, Recheck(t)
      PROVE  Types'
  <2>1. pc' \in [Threads -> Labels] /\ job' \in [Threads -> Job]
    <3>1. CASE Goto(t, "run") /\ UNCHANGED job
      BY <3>1, GotoType DEF Labels, Types
    <3>2. CASE Finish(t)
      BY <3>2, FinishType
    <3> QED
      BY <1>38, <3>1, <3>2 DEF Recheck
  <2> QED
    BY <1>38, <2>1 DEF Recheck, daemon, Types
<1>39. ASSUME NEW t \in Threads, Run(t)
      PROVE  Types'
  <2>1. pc' \in [Threads -> Labels] /\ job' \in [Threads -> Job]
    BY <1>39, FinishType DEF Run
  <2>2. forget' \in SUBSET PodIds
    BY <1>39, RegisteredType DEF Run, Types
  <2> QED
    BY <1>39, <2>1, <2>2 DEF Run, Types
<1>40. ASSUME NEW np \in PodIds, Invalidated(np)
      PROVE  Types'
  <2> DEFINE h == view[np].host
  <2>1. h \in Hosts
    BY <1>40 DEF Invalidated, RecordsInUse
  <2>2. node' \in [Hosts -> [up : BOOLEAN, held : Tree]] /\ faults' \in Nat
    <3>1. Request(h, TRUE, node[h].held) \/ Request(h, FALSE, node[h].held)
      BY <1>40 DEF Invalidated
    <3>2. node[h].held \in Tree
      BY <2>1 DEF Types
    <3> QED
      BY <2>1, <3>1, <3>2, RequestType
  <2>3. view' \in [PodIds -> PodRecord]
    BY <1>40, MarkType DEF Invalidated, Reached, Types
  <2> QED
    BY <1>40, <2>2, <2>3 DEF Invalidated, Types
<1>41. ASSUME NEW h \in Hosts, LinkDown(h)
      PROVE  Types'
  BY <1>41 DEF LinkDown, daemon, Fault, Types
<1>42. ASSUME NEW h \in Hosts, LinkUp(h)
      PROVE  Types'
  BY <1>42 DEF LinkUp, daemon, Types
<1>43. ASSUME NEW h \in Hosts, LeaseExpires(h)
      PROVE  Types'
  <2>1. node' \in [Hosts -> [up : BOOLEAN, held : Tree]]
    BY <1>43, NoTreeType DEF LeaseExpires, Types
  <2> QED
    BY <1>43, <2>1 DEF LeaseExpires, daemon, Fault, Types
<1>44. CASE UNCHANGED vars
  BY <1>44 DEF vars, daemon, Types
<1> QED
  BY ConstantsAssumption, <1>1, <1>2, <1>3, <1>4, <1>5, <1>6, <1>7, <1>8,
     <1>9, <1>10, <1>11, <1>12, <1>13, <1>14, <1>15, <1>16, <1>17, <1>18,
     <1>19, <1>20, <1>21, <1>22, <1>23, <1>24, <1>25, <1>26, <1>27, <1>28,
     <1>29, <1>30, <1>31, <1>32, <1>33, <1>34, <1>35, <1>36, <1>37, <1>38,
     <1>39, <1>40, <1>41, <1>42, <1>43, <1>44
     DEF Next, Begin, Continue, Environment

-----------------------------------------------------------------------------
(* Every step keeps what handlers and records point at.                    *)

\* What a handler's step does to the records, the machines' current records
\* and the other threads, unless it makes a record.
Frame(t) ==
    /\ \A i \in PodIds : view'[i].host = view[i].host
    /\ \A h \in Hosts : pods'[h] \in {pods[h], None}
    /\ forget' \subseteq forget \cup Registered
    /\ \A u \in Threads \ {t} : pc'[u] = pc[u] /\ job'[u] = job[u]
    /\ job'[t].todo \subseteq job[t].todo \cup Registered
    /\ job'[t].np # None => view[job'[t].np].host \in Hosts

\* A step within that frame, by a handler that knows its machine and record
\* afterwards, keeps everyone's.
LEMMA FrameKeeps ==
    ASSUME TypeOK, Types', NEW t \in Threads, Frame(t), Knows(pc'[t], job'[t])
    PROVE  RecordsInUse' /\ HandlersKnow'
<1> USE DEF TypeOK, Frame
<1>1. \A i \in Registered : view[i].host \in Hosts
  BY DEF Registered, RecordsInUse
<1>2. \A h \in Hosts : pods'[h] # None => view'[pods'[h]].host = h
  BY SMTT(30) DEF RecordsInUse, Types
<1>3. \A i \in forget' : view'[i].host \in Hosts
  BY <1>1 DEF RecordsInUse, Types
<1>4. ASSUME NEW u \in Threads
      PROVE  /\ \A i \in job'[u].todo : view'[i].host \in Hosts
             /\ job'[u].np # None => view'[job'[u].np].host \in Hosts
  <2>1. job'[u].todo \subseteq PodIds /\ job'[u].np \in PodIds \cup {None}
    BY DEF Types, Job
  <2>2. job'[u].todo \subseteq job[u].todo \cup Registered
    BY <2>1
  <2> QED
    BY <1>1, <2>1, <2>2 DEF RecordsInUse
<1>5. ASSUME NEW u \in Threads PROVE Knows(pc[u], job[u])'
  <2>1. Knows(pc'[u], job'[u])
    BY DEF HandlersKnow
  <2>2. job'[u].np \in PodIds => view'[job'[u].np].host = view[job'[u].np].host
    OBVIOUS
  <2> QED
    BY <2>1, <2>2 DEF Knows
<1> QED
  BY <1>2, <1>3, <1>4, <1>5 DEF RecordsInUse, HandlersKnow

\* Where no thread moves, what threads know stays.
LEMMA NothingMoves ==
    ASSUME TypeOK, Types', UNCHANGED <<pods, pc, job>>, forget' \subseteq forget,
           \A i \in PodIds : view'[i].host = view[i].host
    PROVE  RecordsInUse' /\ HandlersKnow'
<1>1. LeaseLoop \in Threads /\ Knows(pc'[LeaseLoop], job'[LeaseLoop])
  BY ConstantsAssumption DEF TypeOK, HandlersKnow
<1>2. Frame(LeaseLoop)
  BY <1>1 DEF Frame, TypeOK, RecordsInUse, Types
<1> QED
  BY <1>1, <1>2, FrameKeeps

\* Marking a record does not change whose it is.
LEMMA MarkKeeps ==
    ASSUME Types, NEW np \in PodIds, NEW b \in BOOLEAN,
           view' = [view EXCEPT ![np].reachable = b]
    PROVE  \A i \in PodIds : view'[i].host = view[i].host
<1>1. [view[np] EXCEPT !.reachable = b].host = view[np].host
  BY DEF Types, PodRecord
<1> QED
  BY <1>1 DEF Types

\* A reconcile that returns keeps its machine and its record.
LEMMA ReturnKeeps ==
    ASSUME TypeOK, NEW t \in Threads, pc[t] \in InReconcile,
           NEW result \in {"ok", "err"}, Return(t, result), UNCHANGED <<pods, forget>>,
           \A i \in PodIds : view'[i].host = view[i].host
    PROVE  Frame(t) /\ Knows(pc'[t], job'[t])
<1>1. pc'[t] = result /\ \A u \in Threads \ {t} : pc'[u] = pc[u] /\ job'[u] = job[u]
  BY DEF Return, Goto, TypeOK, Types
<1>2. /\ job'[t].np = job[t].np /\ job'[t].host = job[t].host
      /\ job'[t].todo = job[t].todo /\ job'[t].ret = job[t].ret
      /\ job'[t].at = job[t].at
  BY DEF Return, TypeOK, Types, Job
<1>3. Knows(pc[t], job[t]) /\ (job[t].np # None => view[job[t].np].host \in Hosts)
  BY DEF TypeOK, HandlersKnow, RecordsInUse
<1>4. Frame(t)
  BY <1>1, <1>2, <1>3 DEF Frame, TypeOK, Types
<1>5. Knows(pc'[t], job'[t])
  BY <1>1, <1>2, <1>3 DEF Knows, InReconcile, InStartStop
<1> QED
  BY <1>4, <1>5

\* A reconcile that goes on keeps them too, and knows what it has to mount.
LEMMA GoesOnKeeps ==
    ASSUME TypeOK, NEW t \in Threads, pc[t] \in InReconcile,
           NEW label \in {"apply", "mount", "record"}, Goto(t, label),
           NEW tree \in Tree, NEW cur \in Paths \cup {None},
           \/ job' = [job EXCEPT ![t].snap = tree, ![t].cur = cur]
           \/ job' = [job EXCEPT ![t].snap = tree],
           label = "mount" =>
               /\ cur \in Paths /\ job[t].want[cur] # None
               /\ job' = [job EXCEPT ![t].snap = tree, ![t].cur = cur],
           UNCHANGED <<pods, forget>>,
           \A i \in PodIds : view'[i].host = view[i].host
    PROVE  Frame(t) /\ Knows(pc'[t], job'[t])
<1>1. pc'[t] = label /\ \A u \in Threads \ {t} : pc'[u] = pc[u] /\ job'[u] = job[u]
  BY DEF Goto, TypeOK, Types
<1>2. /\ job'[t].np = job[t].np /\ job'[t].host = job[t].host
      /\ job'[t].todo = job[t].todo /\ job'[t].ret = job[t].ret
      /\ job'[t].at = job[t].at /\ job'[t].want = job[t].want
      /\ label = "mount" => job'[t].cur = cur
  BY DEF TypeOK, Types, Job
<1>3. Knows(pc[t], job[t]) /\ (job[t].np # None => view[job[t].np].host \in Hosts)
  BY DEF TypeOK, HandlersKnow, RecordsInUse
<1>4. Frame(t)
  BY <1>1, <1>2, <1>3 DEF Frame, TypeOK, Types
<1>5. Knows(pc'[t], job'[t])
  BY <1>1, <1>2, <1>3 DEF Knows, InReconcile, InStartStop
<1> QED
  BY <1>4, <1>5

\* A request of a reconcile keeps its machine and record.
LEMMA ChangeKeeps ==
    ASSUME TypeOK, NEW t \in Threads, pc[t] \in InReconcile, NEW p \in Paths,
           NEW held, NEW snap \in Tree, NEW next \in {"apply", "mount"},
           Change(t, p, held, snap, next), job[t].want[p] # None \/ next = "apply",
           UNCHANGED <<pods, forget>>
    PROVE  Frame(t) /\ Knows(pc'[t], job'[t])
<1>1. CASE /\ Reached(job[t].np)
           /\ job' = [job EXCEPT ![t].snap = snap,
                                ![t].cur = IF next = "mount" THEN p ELSE None]
           /\ Goto(t, next)
  <2>1. \A i \in PodIds : view'[i].host = view[i].host
    BY <1>1, InReconcileKnows, MarkKeeps DEF Reached, TypeOK
  <2>2. CASE next = "mount"
    BY <1>1, <2>1, <2>2, GoesOnKeeps
  <2>3. CASE next = "apply"
    BY <1>1, <2>1, <2>3, GoesOnKeeps
  <2> QED
    BY <2>2, <2>3
<1>2. CASE Return(t, "err") /\ UNCHANGED view
  BY <1>2, ReturnKeeps
<1> QED
  BY <1>1, <1>2 DEF Change

\* A new record takes an id that nothing points at: no other thread, machine or
\* pending invalidation is given a record that is not its own.
LEMMA PutKeeps ==
    ASSUME TypeOK, Types', NEW t \in Threads, NEW h \in Hosts,
           NEW ret \in {"adopted", "built"}, Put(t, h, ret), job[t].host = h,
           UNCHANGED forget
    PROVE  RecordsInUse' /\ HandlersKnow'
<1> USE DEF TypeOK
<1>1. PICK i \in PodIds \ Live :
        /\ pods' = [pods EXCEPT ![h] = i]
        /\ view' = [view EXCEPT ![i] = NewRecord(h)]
        /\ job' = [job EXCEPT ![t].np = i, ![t].ret = ret, ![t].want = NoWant]
        /\ Goto(t, "want")
  BY DEF Put
<1>2. view'[i].host = h /\ \A j \in PodIds \ {i} : view'[j] = view[j]
  BY <1>1 DEF NewRecord, Types
<1>3. /\ \A g \in Hosts : pods[g] # i
      /\ i \notin forget
      /\ \A u \in Threads : i \notin job[u].todo /\ job[u].np # i
  <2>1. i \notin Live /\ i # None
    BY ConstantsAssumption
  <2>2. i \notin Registered /\ i \notin forget
    BY <2>1 DEF Live
  <2>3. ASSUME NEW u \in Threads PROVE i \notin job[u].todo /\ job[u].np # i
    BY <2>1 DEF Live
  <2> QED
    BY <2>1, <2>2, <2>3 DEF Registered
<1>4. /\ pc'[t] = "want" /\ job'[t].np = i /\ job'[t].ret = ret
      /\ job'[t].host = h /\ job'[t].todo = job[t].todo /\ job'[t].at = job[t].at
  BY <1>1 DEF Goto, Types, Job
<1>5. \A u \in Threads \ {t} : pc'[u] = pc[u] /\ job'[u] = job[u]
  BY <1>1 DEF Goto, Types
<1>6. \A g \in Hosts : pods'[g] # None => view'[pods'[g]].host = g
  BY <1>1, <1>2, <1>3 DEF RecordsInUse, Types
<1>7. \A j \in forget' : view'[j].host \in Hosts
  BY <1>2, <1>3 DEF RecordsInUse, Types
<1>8. ASSUME NEW u \in Threads
      PROVE  /\ \A j \in job'[u].todo : view'[j].host \in Hosts
             /\ job'[u].np # None => view'[job'[u].np].host \in Hosts
  <2>1. job[u].todo \subseteq PodIds /\ job[u].np \in PodIds \cup {None}
    BY DEF Types, Job
  <2>2. job'[u].todo = job[u].todo /\ (job'[u].np = job[u].np \/ job'[u].np = i)
    BY <1>4, <1>5
  <2> QED
    BY <1>2, <1>3, <2>1, <2>2 DEF RecordsInUse
<1>9. ASSUME NEW u \in Threads PROVE Knows(pc[u], job[u])'
  <2>1. CASE u = t
    BY <1>2, <1>4, <2>1 DEF Knows, InReconcile, InStartStop
  <2>2. CASE u # t
    <3>1. Knows(pc[u], job[u]) /\ pc'[u] = pc[u] /\ job'[u] = job[u]
      BY <1>5, <2>2 DEF HandlersKnow
    <3>2. job[u].np \in PodIds => view'[job[u].np].host = view[job[u].np].host
      BY <1>2, <1>3
    <3> QED
      BY <3>1, <3>2 DEF Knows
  <2> QED
    BY <2>1, <2>2
<1> QED
  BY <1>6, <1>7, <1>8, <1>9 DEF RecordsInUse, HandlersKnow

\* Every step keeps what handlers and records point at.
LEMMA PointersStep ==
    ASSUME TypeOK, Types', [Next]_vars
    PROVE  RecordsInUse' /\ HandlersKnow'
<1> USE DEF TypeOK
<1>1. ASSUME NEW t \in Threads, NEW p \in Paths, NEW o \in Origins, Mount(t, p, o)
      PROVE  RecordsInUse' /\ HandlersKnow'
  <2>1. Frame(t)
    BY <1>1 DEF Mount, Frame, RecordsInUse, Types, Job, PodRecord, InReconcile,
       Idle, Goto
  <2>2. Knows(pc'[t], job'[t])
    BY <1>1 DEF Mount, HandlersKnow, Knows, RecordsInUse, Types, Job,
       InReconcile, InStartStop, Idle, Goto
  <2> QED
    BY <2>1, <2>2, FrameKeeps
<1>2. ASSUME NEW t \in Threads, Bound(t)
      PROVE  RecordsInUse' /\ HandlersKnow'
  <2>1. Frame(t)
    BY <1>2 DEF Bound, Frame, RecordsInUse, Types, Job, PodRecord, InReconcile,
       Goto
  <2>2. Knows(pc'[t], job'[t])
    BY <1>2 DEF Bound, HandlersKnow, Knows, RecordsInUse, Types, Job,
       InReconcile, InStartStop, Goto
  <2> QED
    BY <2>1, <2>2, FrameKeeps
<1>3. ASSUME NEW t \in Threads, BindFails(t)
      PROVE  RecordsInUse' /\ HandlersKnow'
  <2>1. Frame(t)
    BY <1>3 DEF BindFails, Frame, RecordsInUse, Types, Job, PodRecord,
       InReconcile, Finish, Goto, NoJob
  <2>2. Knows(pc'[t], job'[t])
    BY <1>3 DEF BindFails, HandlersKnow, Knows, RecordsInUse, Types, Job,
       InReconcile, InStartStop, Finish, Goto, NoJob
  <2> QED
    BY <2>1, <2>2, FrameKeeps
<1>4. ASSUME NEW t \in Threads, NEW hits \in SUBSET Paths, Unmount(t, hits)
      PROVE  RecordsInUse' /\ HandlersKnow'
  <2>1. Frame(t)
    BY <1>4 DEF Unmount, Frame, RecordsInUse, Types, Job, PodRecord,
       InReconcile, Idle, Goto, daemon
  <2>2. Knows(pc'[t], job'[t])
    BY <1>4 DEF Unmount, HandlersKnow, Knows, RecordsInUse, Types, Job,
       InReconcile, InStartStop, Idle, Goto, daemon
  <2> QED
    BY <2>1, <2>2, FrameKeeps
<1>5. ASSUME NEW t \in Threads, NEW p \in Paths, Unbind(t, p)
      PROVE  RecordsInUse' /\ HandlersKnow'
  <2>1. Frame(t)
    BY <1>5 DEF Unbind, Frame, RecordsInUse, Types, Job, PodRecord, InReconcile
  <2>2. Knows(pc'[t], job'[t])
    BY <1>5 DEF Unbind, HandlersKnow, Knows, RecordsInUse, Types, Job,
       InReconcile, InStartStop
  <2> QED
    BY <2>1, <2>2, FrameKeeps
<1>6. ASSUME NEW t \in Threads, UnbindFails(t)
      PROVE  RecordsInUse' /\ HandlersKnow'
  <2>1. Frame(t)
    BY <1>6 DEF UnbindFails, Frame, RecordsInUse, Types, Job, PodRecord,
       InReconcile, Finish, Goto, NoJob, daemon
  <2>2. Knows(pc'[t], job'[t])
    BY <1>6 DEF UnbindFails, HandlersKnow, Knows, RecordsInUse, Types, Job,
       InReconcile, InStartStop, Finish, Goto, NoJob, daemon
  <2> QED
    BY <2>1, <2>2, FrameKeeps
<1>7. ASSUME NEW t \in Threads, Unmounted(t)
      PROVE  RecordsInUse' /\ HandlersKnow'
  <2>1. Frame(t)
    BY <1>7 DEF Unmounted, Frame, RecordsInUse, Types, Job, PodRecord,
       InReconcile, Goto
  <2>2. Knows(pc'[t], job'[t])
    BY <1>7 DEF Unmounted, HandlersKnow, Knows, RecordsInUse, Types, Job,
       InReconcile, InStartStop, Goto
  <2> QED
    BY <2>1, <2>2, FrameKeeps
<1>8. ASSUME NEW t \in Threads, Want(t)
      PROVE  RecordsInUse' /\ HandlersKnow'
  <2>1. Frame(t)
    BY <1>8 DEF Want, Frame, RecordsInUse, Types, Job, PodRecord, InReconcile,
       Goto
  <2>2. Knows(pc'[t], job'[t])
    BY <1>8 DEF Want, HandlersKnow, Knows, RecordsInUse, Types, Job,
       InReconcile, InStartStop, Goto
  <2> QED
    BY <2>1, <2>2, FrameKeeps
<1>9. ASSUME NEW t \in Threads, AskHeld(t)
      PROVE  RecordsInUse' /\ HandlersKnow'
  <2>1. /\ pc[t] \in InReconcile /\ UNCHANGED <<pods, forget>>
        /\ job[t].np \in PodIds /\ node[job[t].host].held \in Tree
    BY <1>9, InReconcileKnows DEF AskHeld, InReconcile, daemon
  <2>2. \A i \in PodIds : view'[i].host = view[i].host
    BY <1>9, <2>1, MarkKeeps DEF AskHeld, Reached
  <2>3. CASE /\ job' = [job EXCEPT ![t].snap = node[job[t].host].held]
             /\ Goto(t, "apply")
    BY <2>1, <2>2, <2>3, GoesOnKeeps, FrameKeeps
  <2>4. CASE Return(t, "err")
    BY <2>1, <2>2, <2>4, ReturnKeeps, FrameKeeps
  <2> QED
    BY <1>9, <2>3, <2>4 DEF AskHeld
<1>10. ASSUME NEW t \in Threads, NEW p \in Paths, ReleaseOld(t, p)
      PROVE  RecordsInUse' /\ HandlersKnow'
  <2>1. /\ pc[t] \in InReconcile /\ UNCHANGED <<pods, forget>>
        /\ job[t].snap \in Tree /\ <<>> \in Seq(Entry)
        /\ Release(t, p, <<>>, "mount")
    BY <1>10 DEF ReleaseOld, InReconcile, daemon, Types, Job, Tree, Mistaken
  <2>2. [job[t].snap EXCEPT ![p] = <<>>] \in Tree
    BY <2>1 DEF Tree
  <2>3. job[t].want[p] # None \/ "mount" = "apply"
    BY <1>10 DEF ReleaseOld, Mistaken
  <2>4. CASE node[job[t].host].held[p] = <<>>
    BY <2>1, <2>4, ReturnKeeps, FrameKeeps DEF Release
  <2>5. CASE node[job[t].host].held[p] # <<>>
    BY <2>1, <2>2, <2>3, <2>5, ChangeKeeps, FrameKeeps DEF Release
  <2> QED
    BY <2>4, <2>5
<1>11. ASSUME NEW t \in Threads, NEW p \in Paths, TakeMount(t, p)
      PROVE  RecordsInUse' /\ HandlersKnow'
  <2>1. /\ pc[t] \in InReconcile /\ UNCHANGED <<pods, forget>>
        /\ job[t].snap \in Tree /\ job[t].want[p] \in Entry
    BY <1>11 DEF TakeMount, Missing, HandlersKnow, Knows, InReconcile, daemon,
       Types, Job
  <2>2. [job[t].snap EXCEPT ![p] = <<job[t].want[p]>>] \in Tree
    BY <2>1 DEF Tree
  <2> QED
    BY <1>11, <2>1, <2>2, ChangeKeeps, FrameKeeps DEF TakeMount, Take
<1>12. ASSUME NEW t \in Threads, NEW p \in Paths, ReleaseStray(t, p)
      PROVE  RecordsInUse' /\ HandlersKnow'
  <2>1. /\ pc[t] \in InReconcile /\ UNCHANGED <<pods, forget>>
        /\ job[t].snap \in Tree /\ Tail(job[t].snap[p]) \in Seq(Entry)
        /\ Release(t, p, Tail(job[t].snap[p]), "apply")
    BY <1>12 DEF ReleaseStray, InReconcile, daemon, Types, Job, Tree, Stray
  <2>2. [job[t].snap EXCEPT ![p] = Tail(job[t].snap[p])] \in Tree
    BY <2>1 DEF Tree
  <2>3. job[t].want[p] # None \/ "apply" = "apply"
    BY <1>12 DEF ReleaseStray, Stray
  <2>4. CASE node[job[t].host].held[p] = <<>>
    BY <2>1, <2>4, ReturnKeeps, FrameKeeps DEF Release
  <2>5. CASE node[job[t].host].held[p] # <<>>
    BY <2>1, <2>2, <2>3, <2>5, ChangeKeeps, FrameKeeps DEF Release
  <2> QED
    BY <2>4, <2>5
<1>13. ASSUME NEW t \in Threads, AskFinal(t)
      PROVE  RecordsInUse' /\ HandlersKnow'
  <2>1. /\ pc[t] \in InReconcile /\ UNCHANGED <<pods, forget>>
        /\ job[t].np \in PodIds /\ node[job[t].host].held \in Tree
    BY <1>13, InReconcileKnows DEF AskFinal, InReconcile, daemon
  <2>2. \A i \in PodIds : view'[i].host = view[i].host
    BY <1>13, <2>1, MarkKeeps DEF AskFinal, Reached
  <2>3. CASE /\ job' = [job EXCEPT ![t].snap = node[job[t].host].held]
             /\ Goto(t, "record")
    BY <2>1, <2>2, <2>3, GoesOnKeeps, FrameKeeps
  <2>4. CASE Return(t, "err")
    BY <2>1, <2>2, <2>4, ReturnKeeps, FrameKeeps
  <2> QED
    BY <1>13, <2>3, <2>4 DEF AskFinal
<1>14. ASSUME NEW t \in Threads, Record(t)
      PROVE  RecordsInUse' /\ HandlersKnow'
  <2>1. pc[t] \in InReconcile /\ UNCHANGED <<pods, forget>> /\ Return(t, "ok")
    BY <1>14 DEF Record, InReconcile, daemon
  <2>2. job[t].np \in PodIds
    BY <2>1, InReconcileKnows
  <2>3. \A i \in PodIds : view'[i].host = view[i].host
    BY <1>14, <2>2 DEF Record, Types, PodRecord
  <2> QED
    BY <2>1, <2>3, ReturnKeeps, FrameKeeps
<1>15. ASSUME NEW t \in Threads, NEW np \in PodIds, NextPod(t, np)
      PROVE  RecordsInUse' /\ HandlersKnow'
  <2>1. Frame(t)
    BY <1>15 DEF NextPod, Frame, RecordsInUse, Types, Job, PodRecord,
       InReconcile, Goto, daemon
  <2>2. Knows(pc'[t], job'[t])
    BY <1>15 DEF NextPod, HandlersKnow, Knows, RecordsInUse, Types, Job,
       InReconcile, InStartStop, Goto, daemon
  <2> QED
    BY <2>1, <2>2, FrameKeeps
<1>16. ASSUME NEW t \in Threads, Answered(t)
      PROVE  RecordsInUse' /\ HandlersKnow'
  <2>1. Frame(t)
    BY <1>16 DEF Answered, Frame, RecordsInUse, Types, Job, PodRecord,
       InReconcile, Finish, Goto, NoJob, daemon
  <2>2. Knows(pc'[t], job'[t])
    BY <1>16 DEF Answered, HandlersKnow, Knows, RecordsInUse, Types, Job,
       InReconcile, InStartStop, Finish, Goto, NoJob, daemon
  <2> QED
    BY <2>1, <2>2, FrameKeeps
<1>17. ASSUME NEW t \in Threads, LeaseTick(t)
      PROVE  RecordsInUse' /\ HandlersKnow'
  <2>1. Frame(t)
    BY <1>17 DEF LeaseTick, Frame, RecordsInUse, Types, Job, PodRecord,
       InReconcile, Idle, Goto, daemon
  <2>2. Knows(pc'[t], job'[t])
    BY <1>17 DEF LeaseTick, HandlersKnow, Knows, RecordsInUse, Types, Job,
       InReconcile, InStartStop, Idle, Goto, daemon
  <2> QED
    BY <2>1, <2>2, FrameKeeps
<1>18. ASSUME NEW t \in Threads, NEW np \in PodIds, Renew(t, np)
      PROVE  RecordsInUse' /\ HandlersKnow'
  <2>1. \A i \in PodIds : view'[i].host = view[i].host
    BY <1>18, MarkKeeps DEF Renew, Reached
  <2>2. view[np].host \in Hosts /\ pc'[t] \in {"ok", "err", "want"}
    BY <1>18 DEF Renew, RecordsInUse, Goto, Types
  <2>3. /\ job'[t].np = np /\ job'[t].host = view[np].host
        /\ job'[t].todo = job[t].todo \ {np} /\ job'[t].ret = "lease"
    BY <1>18 DEF Renew, Types, Job
  <2>4. /\ UNCHANGED <<pods, forget>>
        /\ \A u \in Threads \ {t} : pc'[u] = pc[u] /\ job'[u] = job[u]
    BY <1>18 DEF Renew, Goto, daemon, Types
  <2>5. Frame(t)
    BY <2>1, <2>2, <2>3, <2>4 DEF Frame, Types
  <2>6. Knows(pc'[t], job'[t])
    BY <2>2, <2>3 DEF Knows, InReconcile, InStartStop
  <2> QED
    BY <2>5, <2>6, FrameKeeps
<1>19. ASSUME NEW t \in Threads, Look(t)
      PROVE  RecordsInUse' /\ HandlersKnow'
  <2>1. Frame(t)
    BY <1>19 DEF Look, Frame, RecordsInUse, Types, Job, PodRecord, InReconcile,
       Idle, Goto, daemon
  <2>2. Knows(pc'[t], job'[t])
    BY <1>19 DEF Look, HandlersKnow, Knows, RecordsInUse, Types, Job,
       InReconcile, InStartStop, Idle, Goto, daemon
  <2> QED
    BY <2>1, <2>2, FrameKeeps
<1>20. ASSUME NEW t \in Threads, NEW np \in PodIds, LookAt(t, np)
      PROVE  RecordsInUse' /\ HandlersKnow'
  <2>1. Frame(t)
    BY <1>20 DEF LookAt, Frame, RecordsInUse, Types, Job, PodRecord,
       InReconcile
  <2>2. Knows(pc'[t], job'[t])
    BY <1>20 DEF LookAt, HandlersKnow, Knows, RecordsInUse, Types, Job,
       InReconcile, InStartStop
  <2> QED
    BY <2>1, <2>2, FrameKeeps
<1>21. ASSUME NEW t \in Threads, NEW h \in Hosts, Add(t, h)
      PROVE  RecordsInUse' /\ HandlersKnow'
  <2>1. Frame(t)
    BY <1>21 DEF Add, Frame, RecordsInUse, Types, Job, PodRecord, InReconcile,
       Idle, Goto, daemon
  <2>2. Knows(pc'[t], job'[t])
    BY <1>21 DEF Add, HandlersKnow, Knows, RecordsInUse, Types, Job,
       InReconcile, InStartStop, Idle, Goto, daemon
  <2> QED
    BY <2>1, <2>2, FrameKeeps
<1>22. ASSUME NEW t \in Threads, LockBuild(t)
      PROVE  RecordsInUse' /\ HandlersKnow'
  <2>1. Frame(t)
    BY <1>22 DEF LockBuild, Frame, RecordsInUse, Types, Job, PodRecord,
       InReconcile, Goto
  <2>2. Knows(pc'[t], job'[t])
    BY <1>22 DEF LockBuild, HandlersKnow, Knows, RecordsInUse, Types, Job,
       InReconcile, InStartStop, Goto
  <2> QED
    BY <2>1, <2>2, FrameKeeps
<1>23. ASSUME NEW t \in Threads, Start(t)
      PROVE  RecordsInUse' /\ HandlersKnow'
  <2>1. Frame(t)
    BY <1>23 DEF Start, Frame, RecordsInUse, Types, Job, PodRecord,
       InReconcile, Goto, daemon
  <2>2. Knows(pc'[t], job'[t])
    BY <1>23 DEF Start, HandlersKnow, Knows, RecordsInUse, Types, Job,
       InReconcile, InStartStop, Goto, daemon
  <2> QED
    BY <2>1, <2>2, FrameKeeps
<1>24. ASSUME NEW t \in Threads, PodSpec(t)
      PROVE  RecordsInUse' /\ HandlersKnow'
  <2>1. Frame(t)
    BY <1>24 DEF PodSpec, Frame, RecordsInUse, Types, Job, PodRecord,
       InReconcile, Goto
  <2>2. Knows(pc'[t], job'[t])
    BY <1>24 DEF PodSpec, HandlersKnow, Knows, RecordsInUse, Types, Job,
       InReconcile, InStartStop, Goto
  <2> QED
    BY <2>1, <2>2, FrameKeeps
<1>25. ASSUME NEW t \in Threads, AdoptFails(t)
      PROVE  RecordsInUse' /\ HandlersKnow'
  <2>1. Frame(t)
    BY <1>25 DEF AdoptFails, Frame, RecordsInUse, Types, Job, PodRecord,
       InReconcile, Goto
  <2>2. Knows(pc'[t], job'[t])
    BY <1>25 DEF AdoptFails, HandlersKnow, Knows, RecordsInUse, Types, Job,
       InReconcile, InStartStop, Goto
  <2> QED
    BY <2>1, <2>2, FrameKeeps
<1>26. ASSUME NEW t \in Threads, BuildFails(t)
      PROVE  RecordsInUse' /\ HandlersKnow'
  <2>1. Frame(t)
    BY <1>26 DEF BuildFails, Frame, RecordsInUse, Types, Job, PodRecord,
       InReconcile, Goto, daemon
  <2>2. Knows(pc'[t], job'[t])
    BY <1>26 DEF BuildFails, HandlersKnow, Knows, RecordsInUse, Types, Job,
       InReconcile, InStartStop, Goto, daemon
  <2> QED
    BY <2>1, <2>2, FrameKeeps
<1>27. ASSUME NEW t \in Threads, Reconciled(t)
      PROVE  RecordsInUse' /\ HandlersKnow'
  <2>1. Frame(t)
    BY <1>27 DEF Reconciled, Frame, RecordsInUse, Types, Job, PodRecord,
       InReconcile, Goto, daemon
  <2>2. Knows(pc'[t], job'[t])
    BY <1>27 DEF Reconciled, HandlersKnow, Knows, RecordsInUse, Types, Job,
       InReconcile, InStartStop, Goto, daemon
  <2> QED
    BY <2>1, <2>2, FrameKeeps
<1>28. ASSUME NEW t \in Threads, Started(t)
      PROVE  RecordsInUse' /\ HandlersKnow'
  <2>1. job[t].host \in Hosts /\ UNCHANGED <<view, pods, forget>>
    BY <1>28 DEF Started, HandlersKnow, Knows, InStartStop
  <2> DEFINE np == pods[job[t].host]
  <2>2. CASE /\ job[t].at # None /\ np # None
             /\ job' = [job EXCEPT ![t].np = np] /\ Goto(t, "holds")
    <3>1. /\ pc'[t] = "holds" /\ job'[t].np = np /\ job'[t].todo = job[t].todo
          /\ job'[t].host = job[t].host /\ job'[t].at = job[t].at
          /\ job'[t].ret = job[t].ret
          /\ \A u \in Threads \ {t} : pc'[u] = pc[u] /\ job'[u] = job[u]
      BY <2>2 DEF Goto, Types, Job
    <3>2. np \in PodIds /\ view[np].host = job[t].host /\ job[t].at \in Paths
      BY <2>1, <2>2 DEF RecordsInUse, Types, Job
    <3>3. Frame(t)
      BY <2>1, <3>1, <3>2 DEF Frame
    <3>4. Knows(pc'[t], job'[t])
      BY <2>1, <3>1, <3>2 DEF Knows, InReconcile, InStartStop
    <3> QED
      BY <3>3, <3>4, FrameKeeps
  <2>3. CASE Finish(t)
    <3>1. Frame(t)
      BY <2>1, <2>3 DEF Finish, Goto, NoJob, Frame, Types
    <3>2. Knows(pc'[t], job'[t])
      BY <2>3 DEF Finish, Goto, NoJob, Knows, InReconcile, InStartStop, Types
    <3> QED
      BY <3>1, <3>2, FrameKeeps
  <2> QED
    BY <1>28, <2>2, <2>3 DEF Started
<1>29. ASSUME NEW t \in Threads, StartFails(t)
      PROVE  RecordsInUse' /\ HandlersKnow'
  <2>1. Frame(t)
    BY <1>29 DEF StartFails, Frame, RecordsInUse, Types, Job, PodRecord,
       InReconcile, Finish, Goto, NoJob
  <2>2. Knows(pc'[t], job'[t])
    BY <1>29 DEF StartFails, HandlersKnow, Knows, RecordsInUse, Types, Job,
       InReconcile, InStartStop, Finish, Goto, NoJob
  <2> QED
    BY <2>1, <2>2, FrameKeeps
<1>30. ASSUME NEW t \in Threads, NEW h \in Hosts, Drop(t, h)
      PROVE  RecordsInUse' /\ HandlersKnow'
  <2>1. Frame(t)
    BY <1>30 DEF Drop, Frame, RecordsInUse, Types, Job, PodRecord, InReconcile,
       Idle, Goto, daemon
  <2>2. Knows(pc'[t], job'[t])
    BY <1>30 DEF Drop, HandlersKnow, Knows, RecordsInUse, Types, Job,
       InReconcile, InStartStop, Idle, Goto, daemon
  <2> QED
    BY <2>1, <2>2, FrameKeeps
<1>31. ASSUME NEW t \in Threads, Stop(t)
      PROVE  RecordsInUse' /\ HandlersKnow'
  <2>1. Frame(t)
    BY <1>31 DEF Stop, Frame, RecordsInUse, Types, Job, PodRecord, InReconcile,
       AfterStop, Goto
  <2>2. Knows(pc'[t], job'[t])
    BY <1>31 DEF Stop, HandlersKnow, Knows, RecordsInUse, Types, Job,
       InReconcile, InStartStop, AfterStop, Goto
  <2> QED
    BY <2>1, <2>2, FrameKeeps
<1>32. ASSUME NEW t \in Threads, Disown(t)
      PROVE  RecordsInUse' /\ HandlersKnow'
  <2>1. Frame(t)
    BY <1>32 DEF Disown, Frame, RecordsInUse, Types, Job, PodRecord,
       InReconcile, Goto
  <2>2. Knows(pc'[t], job'[t])
    BY <1>32 DEF Disown, HandlersKnow, Knows, RecordsInUse, Types, Job,
       InReconcile, InStartStop, Goto
  <2> QED
    BY <2>1, <2>2, FrameKeeps
<1>33. ASSUME NEW t \in Threads, NodeDown(t)
      PROVE  RecordsInUse' /\ HandlersKnow'
  <2>1. Frame(t)
    BY <1>33 DEF NodeDown, Frame, RecordsInUse, Types, Job, PodRecord,
       InReconcile, AfterStop, Goto, daemon
  <2>2. Knows(pc'[t], job'[t])
    BY <1>33 DEF NodeDown, HandlersKnow, Knows, RecordsInUse, Types, Job,
       InReconcile, InStartStop, AfterStop, Goto, daemon
  <2> QED
    BY <2>1, <2>2, FrameKeeps
<1>34. ASSUME NEW t \in Threads, NEW h \in Hosts, NEW p \in Paths, Dispatch(t, h, p)
      PROVE  RecordsInUse' /\ HandlersKnow'
  <2>1. Frame(t)
    BY <1>34 DEF Dispatch, Frame, RecordsInUse, Types, Job, PodRecord,
       InReconcile, Idle, Goto, daemon
  <2>2. Knows(pc'[t], job'[t])
    BY <1>34 DEF Dispatch, HandlersKnow, Knows, RecordsInUse, Types, Job,
       InReconcile, InStartStop, Idle, Goto, daemon
  <2> QED
    BY <2>1, <2>2, FrameKeeps
<1>35. ASSUME NEW t \in Threads, Guard(t)
      PROVE  RecordsInUse' /\ HandlersKnow'
  <2>1. Frame(t)
    BY <1>35 DEF Guard, Frame, RecordsInUse, Types, Job, PodRecord,
       InReconcile, Reconcile, Finish, Goto, NoJob, daemon
  <2>2. Knows(pc'[t], job'[t])
    BY <1>35 DEF Guard, HandlersKnow, Knows, RecordsInUse, Types, Job,
       InReconcile, InStartStop, Reconcile, Finish, Goto, NoJob, daemon
  <2> QED
    BY <2>1, <2>2, FrameKeeps
<1>36. ASSUME NEW t \in Threads, Recheck(t)
      PROVE  RecordsInUse' /\ HandlersKnow'
  <2>1. Frame(t)
    BY <1>36 DEF Recheck, Frame, RecordsInUse, Types, Job, PodRecord,
       InReconcile, Finish, Goto, NoJob, daemon
  <2>2. Knows(pc'[t], job'[t])
    BY <1>36 DEF Recheck, HandlersKnow, Knows, RecordsInUse, Types, Job,
       InReconcile, InStartStop, Finish, Goto, NoJob, daemon
  <2> QED
    BY <2>1, <2>2, FrameKeeps
<1>37. ASSUME NEW t \in Threads, Run(t)
      PROVE  RecordsInUse' /\ HandlersKnow'
  <2>1. Frame(t)
    BY <1>37 DEF Run, Frame, RecordsInUse, Types, Job, PodRecord, InReconcile,
       Finish, Goto, NoJob, Registered
  <2>2. Knows(pc'[t], job'[t])
    BY <1>37 DEF Run, HandlersKnow, Knows, RecordsInUse, Types, Job,
       InReconcile, InStartStop, Finish, Goto, NoJob, Registered
  <2> QED
    BY <2>1, <2>2, FrameKeeps
<1>38. ASSUME NEW t \in Threads, Adopt(t)
      PROVE  RecordsInUse' /\ HandlersKnow'
  <2>1. job[t].host \in Hosts /\ UNCHANGED forget
    BY <1>38 DEF Adopt, HandlersKnow, Knows, InStartStop
  <2>2. CASE Put(t, job[t].host, "adopted")
    BY <2>1, <2>2, PutKeeps
  <2>3. CASE Goto(t, "spec") /\ UNCHANGED <<pods, view, job>>
    <3>1. Frame(t)
      BY <2>1, <2>3 DEF Goto, Frame, RecordsInUse, Types
    <3>2. Knows(pc'[t], job'[t])
      BY <2>1, <2>3 DEF Goto, Knows, HandlersKnow, InReconcile, InStartStop,
         Types
    <3> QED
      BY <3>1, <3>2, FrameKeeps
  <2> QED
    BY <1>38, <2>2, <2>3 DEF Adopt
<1>39. ASSUME NEW t \in Threads, Build(t)
      PROVE  RecordsInUse' /\ HandlersKnow'
  <2>1. job[t].host \in Hosts /\ UNCHANGED forget
    BY <1>39 DEF Build, HandlersKnow, Knows, InStartStop
  <2>2. CASE Put(t, job[t].host, "built")
    BY <2>1, <2>2, PutKeeps
  <2>3. CASE Goto(t, "failed") /\ UNCHANGED <<pods, view, job>>
    <3>1. Frame(t)
      BY <2>1, <2>3 DEF Goto, Frame, RecordsInUse, Types
    <3>2. Knows(pc'[t], job'[t])
      BY <2>1, <2>3 DEF Goto, Knows, HandlersKnow, InReconcile, InStartStop,
         Types
    <3> QED
      BY <3>1, <3>2, FrameKeeps
  <2> QED
    BY <1>39, <2>2, <2>3 DEF Build
<1>40. ASSUME NEW np \in PodIds, Invalidated(np)
      PROVE  RecordsInUse' /\ HandlersKnow'
  <2>1. /\ UNCHANGED <<pods, pc, job>> /\ forget' \subseteq forget
        /\ \A i \in PodIds : view'[i].host = view[i].host
    BY <1>40, MarkKeeps DEF Invalidated, daemon, Reached
  <2> QED
    BY <2>1, NothingMoves
<1>41. ASSUME NEW h \in Hosts, LinkDown(h)
      PROVE  RecordsInUse' /\ HandlersKnow'
  <2>1. /\ UNCHANGED <<pods, pc, job>> /\ forget' \subseteq forget
        /\ \A i \in PodIds : view'[i].host = view[i].host
    BY <1>41 DEF LinkDown, daemon
  <2> QED
    BY <2>1, NothingMoves
<1>42. ASSUME NEW h \in Hosts, LinkUp(h)
      PROVE  RecordsInUse' /\ HandlersKnow'
  <2>1. /\ UNCHANGED <<pods, pc, job>> /\ forget' \subseteq forget
        /\ \A i \in PodIds : view'[i].host = view[i].host
    BY <1>42 DEF LinkUp, daemon
  <2> QED
    BY <2>1, NothingMoves
<1>43. ASSUME NEW h \in Hosts, LeaseExpires(h)
      PROVE  RecordsInUse' /\ HandlersKnow'
  <2>1. /\ UNCHANGED <<pods, pc, job>> /\ forget' \subseteq forget
        /\ \A i \in PodIds : view'[i].host = view[i].host
    BY <1>43 DEF LeaseExpires, daemon
  <2> QED
    BY <2>1, NothingMoves
<1>44. CASE UNCHANGED vars
  <2>1. /\ UNCHANGED <<pods, pc, job>> /\ forget' \subseteq forget
        /\ \A i \in PodIds : view'[i].host = view[i].host
    BY <1>44 DEF vars, daemon
  <2> QED
    BY <2>1, NothingMoves
<1> QED
  BY ConstantsAssumption, <1>1, <1>2, <1>3, <1>4, <1>5, <1>6, <1>7, <1>8,
     <1>9, <1>10, <1>11, <1>12, <1>13, <1>14, <1>15, <1>16, <1>17, <1>18,
     <1>19, <1>20, <1>21, <1>22, <1>23, <1>24, <1>25, <1>26, <1>27, <1>28,
     <1>29, <1>30, <1>31, <1>32, <1>33, <1>34, <1>35, <1>36, <1>37, <1>38,
     <1>39, <1>40, <1>41, <1>42, <1>43, <1>44
     DEF Next, Begin, Continue, Environment

-----------------------------------------------------------------------------
\* At the start nothing points at a record.
LEMMA InitPointers == Init => RecordsInUse /\ HandlersKnow
<1> SUFFICES ASSUME Init PROVE RecordsInUse /\ HandlersKnow
  OBVIOUS
<1>1. RecordsInUse
  BY DEF Init, NoJob, RecordsInUse
<1>2. HandlersKnow
  BY DEF Init, NoJob, HandlersKnow, Knows, InReconcile, InStartStop
<1> QED
  BY <1>1, <1>2

\* Every state has its types; no handler ever works on a record or a machine
\* that is not there, whatever nodeAdd, nodeDrop, the lease loop and the
\* commands do to nodePods between two of its steps.
THEOREM TypeCorrect == Spec => []TypeOK
<1>1. Init => TypeOK
  BY InitTypes, InitPointers DEF TypeOK
<1>2. TypeOK /\ [Next]_vars => TypeOK'
  BY TypesStep, PointersStep DEF TypeOK
<1> QED
  BY <1>1, <1>2, PTL DEF Spec

-----------------------------------------------------------------------------
(* Who may hold a mount writable: the invariant behind the election of one *)
(* writer (reconcile.go, isWriter and releaseWriter).                      *)

\* A machine that may hold the path writable: every machine may, or it has the
\* claim, or it had a node pod that was stopped, and lost its claim then.
Elected(h, p) == p \in manyWriters \/ writers[p] = h \/ h \in stopped

\* Where a handler has a list of what to mount in hand.
Wanting == {"held", "apply", "mount", "record", "build", "failed"}

\* What a handler is about to mount writable, its machine may.
Entitled(label, j) ==
    /\ \A p \in Paths : j.want[p] # None /\ ~j.want[p].ro => Elected(j.host, p)
    /\ label \notin Wanting => j.want = NoWant
    /\ label = "disown" => j.host \in stopped

\* The inductive invariant: what is writable, on a machine or on its way to
\* one, is elected.
MayWrite ==
    /\ \A h \in Hosts, p \in Paths : HoldsRW(h, p) => Elected(h, p)
    /\ \A t \in Threads : Entitled(pc[t], job[t])

\* Two machines cannot both hold the one claim.
THEOREM MayWriteSuffices == MayWrite => SplitOnlyByStop
  BY DEF MayWrite, SplitOnlyByStop, Elected

\* At the start nothing is mounted anywhere and no handler has begun.
THEOREM MayWriteInit == Init => MayWrite
<1> SUFFICES ASSUME Init PROVE MayWrite
  OBVIOUS
<1>1. \A h \in Hosts, p \in Paths : ~HoldsRW(h, p)
  BY DEF Init, HoldsRW, NoTree
<1>2. \A t \in Threads : Entitled(pc[t], job[t])
  BY DEF Init, Entitled, NoJob, NoWant, Wanting
<1> QED
  BY <1>1, <1>2 DEF MayWrite

\* A handler with no list in hand is about to mount nothing.
LEMMA Unwanting ==
    ASSUME MayWrite, NEW t \in Threads, pc[t] \notin Wanting
    PROVE  job[t].want = NoWant
  BY DEF MayWrite, Entitled

\* Every handler has a label and local variables.
LEMMA HandlersTyped ==
    ASSUME TypeOK
    PROVE  pc \in [Threads -> Labels] /\ job \in [Threads -> Job]
  BY DEF TypeOK, Types

\* Writable entries of a list of mounts.
Writable(list) == \E i \in DOMAIN list : ~list[i].ro

\* Adding a mount makes a list writable only if that mount is; removing the
\* first makes nothing writable.
LEMMA WritableLists ==
    ASSUME NEW list \in Seq(Entry), NEW e \in Entry
    PROVE  /\ Writable(Append(list, e)) => Writable(list) \/ ~e.ro
           /\ list # <<>> /\ Writable(Tail(list)) => Writable(list)
           /\ Writable(<<e>>) => ~e.ro
           /\ ~Writable(<<>>)
<1>1. Writable(Append(list, e)) => Writable(list) \/ ~e.ro
  BY DEF Writable
<1>2. list # <<>> /\ Writable(Tail(list)) => Writable(list)
  BY DEF Writable
<1>3. Writable(<<e>>) => ~e.ro
  BY DEF Writable
<1>4. ~Writable(<<>>)
  BY DEF Writable
<1> QED
  BY <1>1, <1>2, <1>3, <1>4

\* The property speaks of a machine's list, the lemmas of any list.
LEMMA HoldsRWIsWritable ==
    \A h \in Hosts, p \in Paths : HoldsRW(h, p) <=> Writable(node[h].held[p])
  BY DEF HoldsRW, Writable

\* desired: what is sent writable goes to a machine that has just the claim.
LEMMA DesiredElected ==
    ASSUME TypeOK, NEW h \in Hosts, NEW p \in Paths,
           Desired(h)[p] # None, ~Desired(h)[p].ro, writers' = ClaimFor(h),
           UNCHANGED <<manyWriters, stopped>>
    PROVE  Elected(h, p)'
<1>1. p \in Sent(h) /\ mounts[p] \notin ReadOnly /\ ~(p \in Claims(h) /\ ClaimFor(h)[p] # h)
  BY DEF Desired
<1> QED
  BY <1>1 DEF Claims, Elected

\* What a step may do to the election without taking a writable mount's claim
\* from a machine that still counts on it.
Lawful ==
    /\ manyWriters \subseteq manyWriters' /\ stopped \subseteq stopped'
    /\ \A p \in Paths : writers[p] # None =>
          writers'[p] = writers[p] \/ writers[p] \in stopped'

\* A lawful step takes from no machine the right to what it holds.
LEMMA ElectedStays ==
    ASSUME Lawful, NEW h \in Hosts, NEW p \in Paths, Elected(h, p)
    PROVE  Elected(h, p)'
  BY ConstantsAssumption DEF Lawful, Elected

\* A machine is known wherever a list to mount is in hand.
LEMMA WantingKnows ==
    ASSUME TypeOK, NEW t \in Threads, pc[t] \in Wanting
    PROVE  job[t].host \in Hosts
  BY InReconcileKnows DEF TypeOK, HandlersKnow, Knows, InReconcile,
     InStartStop, Wanting

\* What a thread that does not move has in hand stays elected.
LEMMA EntitledStays ==
    ASSUME TypeOK, MayWrite, Lawful, NEW u \in Threads,
           pc'[u] = pc[u], job'[u] = job[u]
    PROVE  Entitled(pc[u], job[u])'
<1>1. Entitled(pc[u], job[u])
  BY DEF MayWrite
<1>2. CASE pc[u] \in Wanting
  <2>1. job[u].host \in Hosts
    BY <1>2, WantingKnows
  <2> QED
    BY <1>1, <2>1, ElectedStays DEF Entitled, Lawful
<1>3. CASE pc[u] \notin Wanting
  BY <1>1, <1>3 DEF Entitled, NoWant, Lawful
<1> QED
  BY <1>2, <1>3

\* A lawful step of one thread keeps the invariant when what it leaves on the
\* machines and in its own hands is elected.
LEMMA LawfulStep ==
    ASSUME TypeOK, MayWrite, Lawful, NEW t \in Threads,
           \A u \in Threads \ {t} : pc'[u] = pc[u] /\ job'[u] = job[u],
           \A h \in Hosts, p \in Paths :
               HoldsRW(h, p)' => HoldsRW(h, p) \/ Elected(h, p)',
           Entitled(pc[t], job[t])'
    PROVE  MayWrite'
<1>1. \A h \in Hosts, p \in Paths : HoldsRW(h, p)' => Elected(h, p)'
  BY ElectedStays DEF MayWrite
<1>2. ASSUME NEW u \in Threads, u # t PROVE Entitled(pc[u], job[u])'
  BY <1>2, EntitledStays
<1> QED
  BY <1>1, <1>2 DEF MayWrite

\* The same for a step that leaves the thread's list in its hands or drops it.
LEMMA OwnStays ==
    ASSUME TypeOK, MayWrite, Lawful, NEW t \in Threads,
           \/ job'[t].want = NoWant
           \/ /\ job'[t].want = job[t].want /\ job'[t].host = job[t].host
              /\ pc[t] \in Wanting /\ pc'[t] \in Wanting,
           pc'[t] = "disown" => job'[t].host \in stopped'
    PROVE  Entitled(pc[t], job[t])'
<1>1. CASE job'[t].want = NoWant
  BY <1>1 DEF Entitled, NoWant
<1>2. CASE /\ job'[t].want = job[t].want /\ job'[t].host = job[t].host
           /\ pc[t] \in Wanting /\ pc'[t] \in Wanting
  <2>1. job[t].host \in Hosts /\ Entitled(pc[t], job[t])
    BY <1>2, WantingKnows DEF MayWrite
  <2> QED
    BY <1>2, <2>1, ElectedStays DEF Entitled
<1> QED
  BY <1>1, <1>2

\* A request leaves a machine's list alone or gives it the one asked for.
LEMMA RequestWrites ==
    ASSUME TypeOK, NEW h \in Hosts, NEW held,
           Request(h, TRUE, held) \/ Request(h, FALSE, held),
           NEW g \in Hosts, NEW p \in Paths, HoldsRW(g, p)'
    PROVE  HoldsRW(g, p) \/ (g = h /\ Writable(held[p]))
<1>1. node' \in {node, [node EXCEPT ![h].held = held]}
  BY DEF Request
<1>2. CASE node' = node
  BY <1>2 DEF HoldsRW
<1>3. CASE node' = [node EXCEPT ![h].held = held]
  <2>1. node'[g].held = IF g = h THEN held ELSE node[g].held
    BY <1>3 DEF TypeOK, Types
  <2> QED
    BY <2>1 DEF HoldsRW, Writable
<1> QED
  BY <1>1, <1>2, <1>3

\* A step of the environment: no thread moves.
LEMMA NoThreadMoves ==
    ASSUME TypeOK, MayWrite, Lawful, UNCHANGED <<pc, job>>,
           \A g \in Hosts, q \in Paths : HoldsRW(g, q)' => HoldsRW(g, q)
    PROVE  MayWrite'
<1>1. \A h \in Hosts, p \in Paths : HoldsRW(h, p)' => Elected(h, p)'
  BY ElectedStays DEF MayWrite
<1>2. ASSUME NEW u \in Threads PROVE Entitled(pc[u], job[u])'
  BY EntitledStays
<1> QED
  BY <1>1, <1>2 DEF MayWrite

\* A request of a reconcile keeps the invariant when the list it would leave on
\* the machine is elected.
LEMMA ChangeMayWrite ==
    ASSUME TypeOK, MayWrite, NEW t \in Threads, pc[t] \in Wanting,
           job[t].host \in Hosts, NEW p, NEW held, NEW snap,
           NEW next \in {"apply", "mount"}, Change(t, p, held, snap, next),
           UNCHANGED <<manyWriters, writers, stopped>>,
           \A q \in Paths : Writable(held[q])
                               => HoldsRW(job[t].host, q) \/ Elected(job[t].host, q)
    PROVE  MayWrite'
<1>1. Lawful /\ \A u \in Threads \ {t} : pc'[u] = pc[u] /\ job'[u] = job[u]
  BY DEF Change, Return, Goto, Lawful, TypeOK, Types
<1>2. ASSUME NEW g \in Hosts, NEW q \in Paths, HoldsRW(g, q)'
      PROVE  HoldsRW(g, q) \/ Elected(g, q)'
  <2>1. HoldsRW(g, q) \/ (g = job[t].host /\ Writable(held[q]))
    BY <1>2, RequestWrites DEF Change
  <2> QED
    BY <1>1, <2>1, ElectedStays
<1>3. \/ job'[t].want = NoWant
      \/ /\ job'[t].want = job[t].want /\ job'[t].host = job[t].host
         /\ pc'[t] \in Wanting
  <2>1. CASE Return(t, "err")
    BY <2>1, HandlersTyped DEF Return, Job
  <2>2. CASE /\ job' = [job EXCEPT ![t].snap = snap,
                                 ![t].cur = IF next = "mount" THEN p ELSE None]
             /\ Goto(t, next)
    BY <2>2, HandlersTyped DEF Goto, Wanting, Job
  <2> QED
    BY <2>1, <2>2 DEF Change
<1>4. pc'[t] # "disown"
  BY DEF Change, Return, Goto, TypeOK, Types
<1>5. Entitled(pc[t], job[t])'
  BY <1>1, <1>3, <1>4, OwnStays
<1> QED
  BY <1>1, <1>2, <1>5, LawfulStep

\* Releasing a mount makes nothing writable.
LEMMA ReleaseMayWrite ==
    ASSUME TypeOK, MayWrite, NEW t \in Threads, pc[t] \in Wanting,
           job[t].host \in Hosts, NEW p \in Paths, NEW left,
           NEW next \in {"apply", "mount"}, Release(t, p, left, next),
           UNCHANGED <<manyWriters, writers, stopped>>
    PROVE  MayWrite'
<1> DEFINE held == node[job[t].host].held
<1>1. held \in Tree
  BY DEF TypeOK, Types
<1>2. CASE held[p] # <<>>
  <2>1. \A q \in Paths : [held EXCEPT ![p] = Tail(@)][q]
                            = IF q = p THEN Tail(held[p]) ELSE held[q]
    BY <1>1 DEF Tree
  <2>2. held[p] \in Seq(Entry)
    BY <1>1 DEF Tree
  <2>3. Writable(Tail(held[p])) => Writable(held[p])
    BY <1>2, <2>2 DEF Writable
  <2>4. \A q \in Paths : Writable([held EXCEPT ![p] = Tail(@)][q])
                            => HoldsRW(job[t].host, q)
    BY <2>1, <2>3 DEF HoldsRW, Writable
  <2> QED
    BY <1>2, <2>4, ChangeMayWrite DEF Release
<1>3. CASE held[p] = <<>>
  <2>1. Return(t, "err") /\ UNCHANGED node
    BY <1>3 DEF Release
  <2>2. Lawful /\ \A u \in Threads \ {t} : pc'[u] = pc[u] /\ job'[u] = job[u]
    BY <2>1 DEF Return, Goto, Lawful, TypeOK, Types
  <2>3. \A h \in Hosts, q \in Paths : HoldsRW(h, q)' => HoldsRW(h, q)
    BY <2>1 DEF HoldsRW
  <2>4. job'[t].want = NoWant /\ pc'[t] # "disown"
    BY <2>1, HandlersTyped DEF Return, Goto, Job
  <2>5. Entitled(pc[t], job[t])'
    BY <2>2, <2>4, OwnStays
  <2> QED
    BY <2>2, <2>3, <2>5, LawfulStep
<1> QED
  BY <1>2, <1>3

\* Every step keeps the invariant.
LEMMA MayWriteStep ==
    ASSUME TypeOK, MayWrite, [Next]_vars
    PROVE  MayWrite'
<1>1. ASSUME NEW t \in Threads, NEW p \in Paths, NEW o \in Origins, Mount(t, p, o)
      PROVE  MayWrite'
  <2>1. Lawful /\ \A u \in Threads \ {t} : pc'[u] = pc[u] /\ job'[u] = job[u]
    BY <1>1 DEF Mount, Lawful, TypeOK, Types, Idle, Goto
  <2>2. \A g \in Hosts, q \in Paths : HoldsRW(g, q)' => HoldsRW(g, q)
    BY <1>1 DEF Mount, HoldsRW, Idle, Goto
  <2>3. job'[t].want = NoWant /\ pc'[t] # "disown"
    <3>1. job[t].want = NoWant \/ job'[t] = NoJob
      BY <1>1 DEF Mount, MayWrite, Entitled, Wanting, TypeOK, Types, Idle, Goto
    <3>2. pc'[t] # "disown"
      BY <1>1 DEF Mount, TypeOK, Types, Idle, Goto
    <3>3. CASE job'[t] = NoJob
      BY <3>2, <3>3 DEF NoJob
    <3>4. CASE job[t].want = NoWant
      <4>1. job'[t] = NoJob \/ job'[t].want = job[t].want
        BY <1>1, HandlersTyped DEF Mount, Job, Idle, Goto
      <4> QED
        BY <3>2, <3>4, <4>1 DEF NoJob
    <3> QED
      BY <3>1, <3>3, <3>4
  <2>4. Entitled(pc[t], job[t])'
    BY <2>1, <2>3, OwnStays
  <2> QED
    BY <2>1, <2>2, <2>4, LawfulStep
<1>2. ASSUME NEW t \in Threads, Bound(t)
      PROVE  MayWrite'
  <2>1. Lawful /\ \A u \in Threads \ {t} : pc'[u] = pc[u] /\ job'[u] = job[u]
    BY <1>2 DEF Bound, Lawful, TypeOK, Types, Goto
  <2>2. \A g \in Hosts, q \in Paths : HoldsRW(g, q)' => HoldsRW(g, q)
    BY <1>2 DEF Bound, HoldsRW, Goto
  <2>3. job'[t].want = NoWant /\ pc'[t] # "disown"
    <3>1. job[t].want = NoWant
      BY <1>2, Unwanting DEF Bound, Wanting
    <3> QED
      BY <1>2, <3>1, HandlersTyped DEF Bound, Job, Goto
  <2>4. Entitled(pc[t], job[t])'
    BY <2>1, <2>3, OwnStays
  <2> QED
    BY <2>1, <2>2, <2>4, LawfulStep
<1>3. ASSUME NEW t \in Threads, BindFails(t)
      PROVE  MayWrite'
  <2>1. Lawful /\ \A u \in Threads \ {t} : pc'[u] = pc[u] /\ job'[u] = job[u]
    BY <1>3 DEF BindFails, Lawful, TypeOK, Types, Finish, Goto, NoJob
  <2>2. \A g \in Hosts, q \in Paths : HoldsRW(g, q)' => HoldsRW(g, q)
    BY <1>3 DEF BindFails, HoldsRW, Finish, Goto, NoJob
  <2>3. job'[t].want = NoWant /\ pc'[t] # "disown"
    <3>1. job[t].want = NoWant
      BY <1>3, Unwanting DEF BindFails, Wanting
    <3> QED
      BY <1>3, <3>1, HandlersTyped DEF BindFails, Job, Finish, Goto, NoJob
  <2>4. Entitled(pc[t], job[t])'
    BY <2>1, <2>3, OwnStays
  <2> QED
    BY <2>1, <2>2, <2>4, LawfulStep
<1>4. ASSUME NEW t \in Threads, NEW hits \in SUBSET Paths, Unmount(t, hits)
      PROVE  MayWrite'
  <2>1. Lawful /\ \A u \in Threads \ {t} : pc'[u] = pc[u] /\ job'[u] = job[u]
    BY <1>4 DEF Unmount, Lawful, TypeOK, Types, Idle, Goto, daemon
  <2>2. \A g \in Hosts, q \in Paths : HoldsRW(g, q)' => HoldsRW(g, q)
    BY <1>4 DEF Unmount, HoldsRW, Idle, Goto, daemon
  <2>3. job'[t].want = NoWant /\ pc'[t] # "disown"
    <3>1. job[t].want = NoWant
      BY <1>4, Unwanting DEF Unmount, Wanting, Idle
    <3> QED
      BY <1>4, <3>1, HandlersTyped DEF Unmount, Job, Idle, Goto, daemon
  <2>4. Entitled(pc[t], job[t])'
    BY <2>1, <2>3, OwnStays
  <2> QED
    BY <2>1, <2>2, <2>4, LawfulStep
<1>5. ASSUME NEW t \in Threads, NEW p \in Paths, Unbind(t, p)
      PROVE  MayWrite'
  <2>1. Lawful /\ \A u \in Threads \ {t} : pc'[u] = pc[u] /\ job'[u] = job[u]
    BY <1>5 DEF Unbind, Lawful, TypeOK, Types
  <2>2. \A g \in Hosts, q \in Paths : HoldsRW(g, q)' => HoldsRW(g, q)
    BY <1>5 DEF Unbind, HoldsRW
  <2>3. job'[t].want = NoWant /\ pc'[t] # "disown"
    <3>1. job[t].want = NoWant
      BY <1>5, Unwanting DEF Unbind, Wanting
    <3> QED
      BY <1>5, <3>1, HandlersTyped DEF Unbind, Job
  <2>4. Entitled(pc[t], job[t])'
    BY <2>1, <2>3, OwnStays
  <2> QED
    BY <2>1, <2>2, <2>4, LawfulStep
<1>6. ASSUME NEW t \in Threads, UnbindFails(t)
      PROVE  MayWrite'
  <2>1. Lawful /\ \A u \in Threads \ {t} : pc'[u] = pc[u] /\ job'[u] = job[u]
    BY <1>6 DEF UnbindFails, Lawful, TypeOK, Types, Finish, Goto, NoJob, daemon
  <2>2. \A g \in Hosts, q \in Paths : HoldsRW(g, q)' => HoldsRW(g, q)
    BY <1>6 DEF UnbindFails, HoldsRW, Finish, Goto, NoJob, daemon
  <2>3. job'[t].want = NoWant /\ pc'[t] # "disown"
    <3>1. job[t].want = NoWant
      BY <1>6, Unwanting DEF UnbindFails, Wanting
    <3> QED
      BY <1>6, <3>1, HandlersTyped DEF UnbindFails, Job, Finish, Goto, NoJob,
         daemon
  <2>4. Entitled(pc[t], job[t])'
    BY <2>1, <2>3, OwnStays
  <2> QED
    BY <2>1, <2>2, <2>4, LawfulStep
<1>7. ASSUME NEW t \in Threads, Unmounted(t)
      PROVE  MayWrite'
  <2>1. Lawful /\ \A u \in Threads \ {t} : pc'[u] = pc[u] /\ job'[u] = job[u]
    BY <1>7 DEF Unmounted, Lawful, TypeOK, Types, Goto
  <2>2. \A g \in Hosts, q \in Paths : HoldsRW(g, q)' => HoldsRW(g, q)
    BY <1>7 DEF Unmounted, HoldsRW, Goto
  <2>3. job'[t].want = NoWant /\ pc'[t] # "disown"
    <3>1. job[t].want = NoWant \/ job'[t] = NoJob
      BY <1>7 DEF Unmounted, MayWrite, Entitled, Wanting, TypeOK, Types, Goto
    <3>2. pc'[t] # "disown"
      BY <1>7 DEF Unmounted, TypeOK, Types, Goto
    <3>3. CASE job'[t] = NoJob
      BY <3>2, <3>3 DEF NoJob
    <3>4. CASE job[t].want = NoWant
      <4>1. job'[t] = NoJob \/ job'[t].want = job[t].want
        BY <1>7, HandlersTyped DEF Unmounted, Job, Goto
      <4> QED
        BY <3>2, <3>4, <4>1 DEF NoJob
    <3> QED
      BY <3>1, <3>3, <3>4
  <2>4. Entitled(pc[t], job[t])'
    BY <2>1, <2>3, OwnStays
  <2> QED
    BY <2>1, <2>2, <2>4, LawfulStep
<1>8. ASSUME NEW t \in Threads, Want(t)
      PROVE  MayWrite'
  <2>1. job[t].host \in Hosts
    BY <1>8, InReconcileKnows DEF Want, InReconcile, TypeOK, HandlersKnow,
       Knows, InStartStop
  <2>2. Lawful /\ \A u \in Threads \ {t} : pc'[u] = pc[u] /\ job'[u] = job[u]
    BY <1>8 DEF Want, ClaimFor, Lawful, Goto, TypeOK, Types
  <2>3. \A g \in Hosts, q \in Paths : HoldsRW(g, q)' => HoldsRW(g, q)
    BY <1>8 DEF Want, HoldsRW
  <2>4. /\ pc'[t] = "held" /\ job'[t].want = Desired(job[t].host)
        /\ job'[t].host = job[t].host
    BY <1>8, HandlersTyped DEF Want, Goto, Job
  <2>5. ASSUME NEW h \in Hosts, h = job[t].host, NEW p \in Paths,
               Desired(h)[p] # None, ~Desired(h)[p].ro
        PROVE  Elected(h, p)'
    BY <1>8, <2>5, DesiredElected DEF Want
  <2>6. Entitled(pc[t], job[t])'
    BY <2>1, <2>4, <2>5 DEF Entitled, Elected, Wanting
  <2> QED
    BY <2>2, <2>3, <2>6, LawfulStep
<1>9. ASSUME NEW t \in Threads, AskHeld(t)
      PROVE  MayWrite'
  <2>1. /\ job[t].host \in Hosts /\ pc[t] \in Wanting
        /\ Lawful /\ \A u \in Threads \ {t} : pc'[u] = pc[u] /\ job'[u] = job[u]
    BY <1>9, InReconcileKnows DEF AskHeld, InReconcile, Wanting, Lawful,
       Return, Goto, daemon,
       TypeOK, Types
  <2>2. ASSUME NEW g \in Hosts, NEW p \in Paths, HoldsRW(g, p)'
        PROVE  HoldsRW(g, p)
    <3>1. HoldsRW(g, p) \/ (g = job[t].host /\ Writable(node[g].held[p]))
      BY <1>9, <2>1, <2>2, RequestWrites DEF AskHeld
    <3> QED
      BY <3>1 DEF HoldsRW, Writable
  <2>3. \/ job'[t].want = NoWant
        \/ /\ job'[t].want = job[t].want /\ job'[t].host = job[t].host
           /\ pc'[t] \in Wanting
    <3>1. CASE Return(t, "err")
      BY <3>1, HandlersTyped DEF Return, Job
    <3>2. CASE /\ job' = [job EXCEPT ![t].snap = node[job[t].host].held]
               /\ Goto(t, "apply")
      BY <3>2, HandlersTyped DEF Goto, Wanting, Job
    <3> QED
      BY <1>9, <3>1, <3>2 DEF AskHeld
  <2>4. pc'[t] # "disown"
    BY <1>9 DEF AskHeld, Return, Goto, TypeOK, Types
  <2>5. Entitled(pc[t], job[t])'
    BY <2>1, <2>3, <2>4, OwnStays
  <2> QED
    BY <2>1, <2>2, <2>5, LawfulStep
<1>10. ASSUME NEW t \in Threads, NEW p \in Paths, ReleaseOld(t, p)
      PROVE  MayWrite'
  <2>1. /\ job[t].host \in Hosts /\ pc[t] \in InReconcile
        /\ UNCHANGED <<manyWriters, writers, stopped>>
        /\ Release(t, p, <<>>, "mount")
    BY <1>10, InReconcileKnows DEF ReleaseOld, InReconcile, daemon
  <2> QED
    BY <2>1, <1>10, ReleaseMayWrite DEF ReleaseOld, Wanting
<1>11. ASSUME NEW t \in Threads, NEW p \in Paths, TakeMount(t, p)
      PROVE  MayWrite'
  <2> DEFINE e == job[t].want[p]
             held == node[job[t].host].held
  <2>1. /\ job[t].host \in Hosts /\ pc[t] \in Wanting
        /\ held[p] \in Seq(Entry) /\ e \in Entry
    BY <1>11, InReconcileKnows DEF TakeMount, Missing, Wanting, InReconcile,
       TypeOK,
       HandlersKnow, Knows, Types, Job, Tree
  <2>2. /\ UNCHANGED <<manyWriters, writers, stopped>>
        /\ Change(t, p, [held EXCEPT ![p] = Append(@, e)],
                  [job[t].snap EXCEPT ![p] = <<e>>], "apply")
    BY <1>11 DEF TakeMount, Take, daemon
  <2>3. Writable(Append(held[p], e)) => HoldsRW(job[t].host, p) \/ Elected(job[t].host, p)
    <3>1. ~e.ro => Elected(job[t].host, p)
      BY <2>1, ConstantsAssumption DEF MayWrite, Entitled
    <3> QED
      BY <2>1, <3>1, WritableLists, HoldsRWIsWritable
  <2>4. \A q \in Paths : Writable([held EXCEPT ![p] = Append(@, e)][q])
                            => HoldsRW(job[t].host, q) \/ Elected(job[t].host, q)
    <3>1. held \in Tree
      BY <2>1 DEF TypeOK, Types
    <3>2. \A q \in Paths : [held EXCEPT ![p] = Append(@, e)][q]
                              = IF q = p THEN Append(held[p], e) ELSE held[q]
      BY <3>1 DEF Tree
    <3> QED
      BY <2>3, <3>2 DEF HoldsRW, Writable
  <2> QED
    BY <2>1, <2>2, <2>4, ChangeMayWrite
<1>12. ASSUME NEW t \in Threads, NEW p \in Paths, ReleaseStray(t, p)
      PROVE  MayWrite'
  <2>1. /\ job[t].host \in Hosts /\ pc[t] \in InReconcile
        /\ UNCHANGED <<manyWriters, writers, stopped>>
        /\ Release(t, p, Tail(job[t].snap[p]), "apply")
    BY <1>12, InReconcileKnows DEF ReleaseStray, InReconcile, daemon
  <2> QED
    BY <2>1, <1>12, ReleaseMayWrite DEF ReleaseStray, Wanting
<1>13. ASSUME NEW t \in Threads, AskFinal(t)
      PROVE  MayWrite'
  <2>1. /\ job[t].host \in Hosts /\ pc[t] \in Wanting
        /\ Lawful /\ \A u \in Threads \ {t} : pc'[u] = pc[u] /\ job'[u] = job[u]
    BY <1>13, InReconcileKnows DEF AskFinal, InReconcile, Wanting, Lawful,
       Return, Goto, daemon,
       TypeOK, Types
  <2>2. ASSUME NEW g \in Hosts, NEW p \in Paths, HoldsRW(g, p)'
        PROVE  HoldsRW(g, p)
    <3>1. HoldsRW(g, p) \/ (g = job[t].host /\ Writable(node[g].held[p]))
      BY <1>13, <2>1, <2>2, RequestWrites DEF AskFinal
    <3> QED
      BY <3>1 DEF HoldsRW, Writable
  <2>3. \/ job'[t].want = NoWant
        \/ /\ job'[t].want = job[t].want /\ job'[t].host = job[t].host
           /\ pc'[t] \in Wanting
    <3>1. CASE Return(t, "err")
      BY <3>1, HandlersTyped DEF Return, Job
    <3>2. CASE /\ job' = [job EXCEPT ![t].snap = node[job[t].host].held]
               /\ Goto(t, "record")
      BY <3>2, HandlersTyped DEF Goto, Wanting, Job
    <3> QED
      BY <1>13, <3>1, <3>2 DEF AskFinal
  <2>4. pc'[t] # "disown"
    BY <1>13 DEF AskFinal, Return, Goto, TypeOK, Types
  <2>5. Entitled(pc[t], job[t])'
    BY <2>1, <2>3, <2>4, OwnStays
  <2> QED
    BY <2>1, <2>2, <2>5, LawfulStep
<1>14. ASSUME NEW t \in Threads, Record(t)
      PROVE  MayWrite'
  <2>1. Lawful /\ \A u \in Threads \ {t} : pc'[u] = pc[u] /\ job'[u] = job[u]
    BY <1>14 DEF Record, Lawful, TypeOK, Types, Goto, Return, daemon
  <2>2. \A g \in Hosts, q \in Paths : HoldsRW(g, q)' => HoldsRW(g, q)
    BY <1>14 DEF Record, HoldsRW, Goto, Return, daemon
  <2>3. job'[t].want = NoWant /\ pc'[t] # "disown"
    BY <1>14, HandlersTyped DEF Record, Job, Goto, Return, daemon
  <2>4. Entitled(pc[t], job[t])'
    BY <2>1, <2>3, OwnStays
  <2> QED
    BY <2>1, <2>2, <2>4, LawfulStep
<1>15. ASSUME NEW t \in Threads, NEW np \in PodIds, NextPod(t, np)
      PROVE  MayWrite'
  <2>1. Lawful /\ \A u \in Threads \ {t} : pc'[u] = pc[u] /\ job'[u] = job[u]
    BY <1>15 DEF NextPod, Lawful, TypeOK, Types, Goto, daemon
  <2>2. \A g \in Hosts, q \in Paths : HoldsRW(g, q)' => HoldsRW(g, q)
    BY <1>15 DEF NextPod, HoldsRW, Goto, daemon
  <2>3. job'[t].want = NoWant /\ pc'[t] # "disown"
    <3>1. job[t].want = NoWant \/ job'[t] = NoJob
      BY <1>15 DEF NextPod, MayWrite, Entitled, Wanting, TypeOK, Types, Goto,
         daemon
    <3>2. pc'[t] # "disown"
      BY <1>15 DEF NextPod, TypeOK, Types, Goto, daemon
    <3>3. CASE job'[t] = NoJob
      BY <3>2, <3>3 DEF NoJob
    <3>4. CASE job[t].want = NoWant
      <4>1. job'[t] = NoJob \/ job'[t].want = job[t].want
        BY <1>15, HandlersTyped DEF NextPod, Job, Goto, daemon
      <4> QED
        BY <3>2, <3>4, <4>1 DEF NoJob
    <3> QED
      BY <3>1, <3>3, <3>4
  <2>4. Entitled(pc[t], job[t])'
    BY <2>1, <2>3, OwnStays
  <2> QED
    BY <2>1, <2>2, <2>4, LawfulStep
<1>16. ASSUME NEW t \in Threads, Answered(t)
      PROVE  MayWrite'
  <2>1. Lawful /\ \A u \in Threads \ {t} : pc'[u] = pc[u] /\ job'[u] = job[u]
    BY <1>16 DEF Answered, Lawful, TypeOK, Types, Finish, Goto, NoJob, daemon
  <2>2. \A g \in Hosts, q \in Paths : HoldsRW(g, q)' => HoldsRW(g, q)
    BY <1>16 DEF Answered, HoldsRW, Finish, Goto, NoJob, daemon
  <2>3. job'[t].want = NoWant /\ pc'[t] # "disown"
    <3>1. job[t].want = NoWant
      BY <1>16, Unwanting DEF Answered, Wanting
    <3> QED
      BY <1>16, <3>1, HandlersTyped DEF Answered, Job, Finish, Goto, NoJob, daemon
  <2>4. Entitled(pc[t], job[t])'
    BY <2>1, <2>3, OwnStays
  <2> QED
    BY <2>1, <2>2, <2>4, LawfulStep
<1>17. ASSUME NEW t \in Threads, LeaseTick(t)
      PROVE  MayWrite'
  <2>1. Lawful /\ \A u \in Threads \ {t} : pc'[u] = pc[u] /\ job'[u] = job[u]
    BY <1>17 DEF LeaseTick, Lawful, TypeOK, Types, Idle, Goto, daemon
  <2>2. \A g \in Hosts, q \in Paths : HoldsRW(g, q)' => HoldsRW(g, q)
    BY <1>17 DEF LeaseTick, HoldsRW, Idle, Goto, daemon
  <2>3. job'[t].want = NoWant /\ pc'[t] # "disown"
    <3>1. job[t].want = NoWant \/ job'[t] = NoJob
      BY <1>17 DEF LeaseTick, MayWrite, Entitled, Wanting, TypeOK, Types, Idle,
         Goto, daemon
    <3>2. pc'[t] # "disown"
      BY <1>17 DEF LeaseTick, TypeOK, Types, Idle, Goto, daemon
    <3>3. CASE job'[t] = NoJob
      BY <3>2, <3>3 DEF NoJob
    <3>4. CASE job[t].want = NoWant
      <4>1. job'[t] = NoJob \/ job'[t].want = job[t].want
        BY <1>17, HandlersTyped DEF LeaseTick, Job, Idle, Goto, daemon
      <4> QED
        BY <3>2, <3>4, <4>1 DEF NoJob
    <3> QED
      BY <3>1, <3>3, <3>4
  <2>4. Entitled(pc[t], job[t])'
    BY <2>1, <2>3, OwnStays
  <2> QED
    BY <2>1, <2>2, <2>4, LawfulStep
<1>18. ASSUME NEW t \in Threads, NEW np \in PodIds, Renew(t, np)
      PROVE  MayWrite'
  <2>1. /\ view[np].host \in Hosts /\ Lawful
        /\ \A u \in Threads \ {t} : pc'[u] = pc[u] /\ job'[u] = job[u]
    BY <1>18 DEF Renew, RecordsInUse, Lawful, Goto, daemon, TypeOK, Types
  <2>2. ASSUME NEW g \in Hosts, NEW p \in Paths, HoldsRW(g, p)'
        PROVE  HoldsRW(g, p)
    <3> DEFINE h == view[np].host
    <3>1. Request(h, TRUE, node[h].held) \/ Request(h, FALSE, node[h].held)
      BY <1>18 DEF Renew
    <3>2. HoldsRW(g, p) \/ (g = h /\ Writable(node[h].held[p]))
      BY <2>1, <2>2, <3>1, RequestWrites
    <3> QED
      BY <3>2 DEF HoldsRW, Writable
  <2>3. job'[t].want = NoWant /\ pc'[t] # "disown"
    <3>1. job[t].want = NoWant
      BY <1>18, Unwanting DEF Renew, Wanting
    <3> QED
      BY <1>18, <3>1, HandlersTyped DEF Renew, Goto, Job
  <2>4. Entitled(pc[t], job[t])'
    BY <2>1, <2>3, OwnStays
  <2> QED
    BY <2>1, <2>2, <2>4, LawfulStep
<1>19. ASSUME NEW t \in Threads, Look(t)
      PROVE  MayWrite'
  <2>1. Lawful /\ \A u \in Threads \ {t} : pc'[u] = pc[u] /\ job'[u] = job[u]
    BY <1>19 DEF Look, Lawful, TypeOK, Types, Idle, Goto, daemon
  <2>2. \A g \in Hosts, q \in Paths : HoldsRW(g, q)' => HoldsRW(g, q)
    BY <1>19 DEF Look, HoldsRW, Idle, Goto, daemon
  <2>3. job'[t].want = NoWant /\ pc'[t] # "disown"
    <3>1. job[t].want = NoWant
      BY <1>19, Unwanting DEF Look, Wanting, Idle
    <3> QED
      BY <1>19, <3>1, HandlersTyped DEF Look, Job, Idle, Goto, daemon
  <2>4. Entitled(pc[t], job[t])'
    BY <2>1, <2>3, OwnStays
  <2> QED
    BY <2>1, <2>2, <2>4, LawfulStep
<1>20. ASSUME NEW t \in Threads, NEW np \in PodIds, LookAt(t, np)
      PROVE  MayWrite'
  <2>1. Lawful /\ \A u \in Threads \ {t} : pc'[u] = pc[u] /\ job'[u] = job[u]
    BY <1>20 DEF LookAt, ClaimFor, Lawful, TypeOK, Types
  <2>2. \A g \in Hosts, q \in Paths : HoldsRW(g, q)' => HoldsRW(g, q)
    BY <1>20 DEF LookAt, HoldsRW
  <2>3. job'[t].want = NoWant /\ pc'[t] # "disown"
    <3>1. job[t].want = NoWant
      BY <1>20, Unwanting DEF LookAt, Wanting
    <3> QED
      BY <1>20, <3>1, HandlersTyped DEF LookAt, Job
  <2>4. Entitled(pc[t], job[t])'
    BY <2>1, <2>3, OwnStays
  <2> QED
    BY <2>1, <2>2, <2>4, LawfulStep
<1>21. ASSUME NEW t \in Threads, NEW h \in Hosts, Add(t, h)
      PROVE  MayWrite'
  <2>1. Lawful /\ \A u \in Threads \ {t} : pc'[u] = pc[u] /\ job'[u] = job[u]
    BY <1>21 DEF Add, Lawful, TypeOK, Types, Idle, Goto, daemon
  <2>2. \A g \in Hosts, q \in Paths : HoldsRW(g, q)' => HoldsRW(g, q)
    BY <1>21 DEF Add, HoldsRW, Idle, Goto, daemon
  <2>3. job'[t].want = NoWant /\ pc'[t] # "disown"
    <3>1. job[t].want = NoWant
      BY <1>21, Unwanting DEF Add, Wanting, Idle
    <3> QED
      BY <1>21, <3>1, HandlersTyped DEF Add, Job, Idle, Goto, daemon
  <2>4. Entitled(pc[t], job[t])'
    BY <2>1, <2>3, OwnStays
  <2> QED
    BY <2>1, <2>2, <2>4, LawfulStep
<1>22. ASSUME NEW t \in Threads, LockBuild(t)
      PROVE  MayWrite'
  <2>1. Lawful /\ \A u \in Threads \ {t} : pc'[u] = pc[u] /\ job'[u] = job[u]
    BY <1>22 DEF LockBuild, Lawful, TypeOK, Types, Goto
  <2>2. \A g \in Hosts, q \in Paths : HoldsRW(g, q)' => HoldsRW(g, q)
    BY <1>22 DEF LockBuild, HoldsRW, Goto
  <2>3. job'[t].want = NoWant /\ pc'[t] # "disown"
    <3>1. job[t].want = NoWant
      BY <1>22, Unwanting DEF LockBuild, Wanting
    <3> QED
      BY <1>22, <3>1, HandlersTyped DEF LockBuild, Job, Goto
  <2>4. Entitled(pc[t], job[t])'
    BY <2>1, <2>3, OwnStays
  <2> QED
    BY <2>1, <2>2, <2>4, LawfulStep
<1>23. ASSUME NEW t \in Threads, Start(t)
      PROVE  MayWrite'
  <2>1. Lawful /\ \A u \in Threads \ {t} : pc'[u] = pc[u] /\ job'[u] = job[u]
    BY <1>23 DEF Start, Lawful, TypeOK, Types, Goto, daemon
  <2>2. \A g \in Hosts, q \in Paths : HoldsRW(g, q)' => HoldsRW(g, q)
    BY <1>23 DEF Start, HoldsRW, Goto, daemon
  <2>3. job'[t].want = NoWant /\ pc'[t] # "disown"
    <3>1. job[t].want = NoWant
      BY <1>23, Unwanting DEF Start, Wanting
    <3> QED
      BY <1>23, <3>1, HandlersTyped DEF Start, Job, Goto, daemon
  <2>4. Entitled(pc[t], job[t])'
    BY <2>1, <2>3, OwnStays
  <2> QED
    BY <2>1, <2>2, <2>4, LawfulStep
<1>24. ASSUME NEW t \in Threads, Adopt(t)
      PROVE  MayWrite'
  <2>1. job[t].host \in Hosts /\ Lawful
        /\ \A u \in Threads \ {t} : pc'[u] = pc[u] /\ job'[u] = job[u]
    BY <1>24 DEF Adopt, Put, HandlersKnow, Knows, InStartStop, Lawful, Goto,
       TypeOK, Types
  <2>2. ASSUME NEW g \in Hosts, NEW p \in Paths, HoldsRW(g, p)'
        PROVE  HoldsRW(g, p)
    <3>1. HoldsRW(g, p) \/ (g = job[t].host /\ Writable(node[g].held[p]))
      BY <1>24, <2>1, <2>2, RequestWrites DEF Adopt
    <3> QED
      BY <3>1 DEF HoldsRW, Writable
  <2>3. job'[t].want = NoWant /\ pc'[t] # "disown"
    <3>1. CASE Put(t, job[t].host, "adopted")
      BY <3>1, HandlersTyped DEF Put, Goto, Job
    <3>2. CASE Goto(t, "spec") /\ UNCHANGED job
      BY <1>24, <3>2 DEF Adopt, MayWrite, Entitled, Wanting, Goto, TypeOK,
         Types
    <3> QED
      BY <1>24, <3>1, <3>2 DEF Adopt
  <2>4. Entitled(pc[t], job[t])'
    BY <2>1, <2>3, OwnStays
  <2> QED
    BY <2>1, <2>2, <2>4, LawfulStep
<1>25. ASSUME NEW t \in Threads, PodSpec(t)
      PROVE  MayWrite'
  <2>1. job[t].host \in Hosts
    BY <1>25 DEF PodSpec, InReconcile, TypeOK, HandlersKnow, Knows, InStartStop
  <2>2. Lawful /\ \A u \in Threads \ {t} : pc'[u] = pc[u] /\ job'[u] = job[u]
    BY <1>25 DEF PodSpec, ClaimFor, Lawful, Goto, TypeOK, Types
  <2>3. \A g \in Hosts, q \in Paths : HoldsRW(g, q)' => HoldsRW(g, q)
    BY <1>25 DEF PodSpec, HoldsRW
  <2>4. /\ pc'[t] = "build" /\ job'[t].want = Desired(job[t].host)
        /\ job'[t].host = job[t].host
    BY <1>25, HandlersTyped DEF PodSpec, Goto, Job
  <2>5. ASSUME NEW h \in Hosts, h = job[t].host, NEW p \in Paths,
               Desired(h)[p] # None, ~Desired(h)[p].ro
        PROVE  Elected(h, p)'
    BY <1>25, <2>5, DesiredElected DEF PodSpec
  <2>6. Entitled(pc[t], job[t])'
    BY <2>1, <2>4, <2>5 DEF Entitled, Elected, Wanting
  <2> QED
    BY <2>2, <2>3, <2>6, LawfulStep
<1>26. ASSUME NEW t \in Threads, Build(t)
      PROVE  MayWrite'
  <2> DEFINE h == job[t].host
             up == [node EXCEPT ![h] = [up |-> TRUE, held |-> Built(job[t].want)]]
  <2>1. /\ h \in Hosts /\ Lawful
        /\ \A u \in Threads \ {t} : pc'[u] = pc[u] /\ job'[u] = job[u]
    <3>1. h \in Hosts /\ Lawful
      BY <1>26 DEF Build, HandlersKnow, Knows, InStartStop, Lawful, TypeOK,
         Types
    <3>2. CASE Put(t, h, "built")
      BY <3>1, <3>2 DEF Put, Goto, TypeOK, Types
    <3>3. CASE Goto(t, "failed") /\ UNCHANGED job
      BY <3>1, <3>3 DEF Goto, TypeOK, Types
    <3> QED
      BY <1>26, <3>2, <3>3 DEF Build
  <2>2. ASSUME NEW g \in Hosts, NEW p \in Paths, HoldsRW(g, p)'
        PROVE  HoldsRW(g, p) \/ Elected(g, p)'
    <3>1. node' \in {node, up}
      BY <1>26 DEF Build
    <3>2. CASE node' = node
      BY <2>2, <3>2 DEF HoldsRW
    <3>3. CASE node' = up
      <4>1. node'[g].held = IF g = h THEN Built(job[t].want) ELSE node[g].held
        BY <3>3 DEF TypeOK, Types
      <4>2. g = h => job[t].want[p] # None /\ ~job[t].want[p].ro
        BY <2>2, <4>1 DEF HoldsRW, Built
      <4>3. HoldsRW(g, p) \/ Elected(g, p)
        BY <2>2, <4>1, <4>2 DEF HoldsRW, MayWrite, Entitled
      <4> QED
        BY <2>1, <4>3, ElectedStays
    <3> QED
      BY <3>1, <3>2, <3>3
  <2>3. pc'[t] # "disown" /\ pc[t] = "build"
    BY <1>26 DEF Build, Put, Goto, TypeOK, Types
  <2>4. \/ job'[t].want = NoWant
        \/ /\ job'[t].want = job[t].want /\ job'[t].host = job[t].host
           /\ pc'[t] \in Wanting
    <3>1. CASE Put(t, h, "built")
      BY <3>1, HandlersTyped DEF Put, Goto, Job
    <3>2. CASE Goto(t, "failed") /\ UNCHANGED job
      BY <3>2 DEF Goto, Wanting, TypeOK, Types
    <3> QED
      BY <1>26, <3>1, <3>2 DEF Build
  <2>5. Entitled(pc[t], job[t])'
    BY <2>1, <2>3, <2>4, OwnStays DEF Wanting
  <2> QED
    BY <2>1, <2>2, <2>5, LawfulStep
<1>27. ASSUME NEW t \in Threads, AdoptFails(t)
      PROVE  MayWrite'
  <2>1. Lawful /\ \A u \in Threads \ {t} : pc'[u] = pc[u] /\ job'[u] = job[u]
    BY <1>27 DEF AdoptFails, Lawful, TypeOK, Types, Goto
  <2>2. \A g \in Hosts, q \in Paths : HoldsRW(g, q)' => HoldsRW(g, q)
    BY <1>27 DEF AdoptFails, HoldsRW, Goto
  <2>3. job'[t].want = NoWant /\ pc'[t] # "disown"
    <3>1. job[t].want = NoWant
      BY <1>27, Unwanting DEF AdoptFails, Wanting
    <3> QED
      BY <1>27, <3>1, HandlersTyped DEF AdoptFails, Job, Goto
  <2>4. Entitled(pc[t], job[t])'
    BY <2>1, <2>3, OwnStays
  <2> QED
    BY <2>1, <2>2, <2>4, LawfulStep
<1>28. ASSUME NEW t \in Threads, BuildFails(t)
      PROVE  MayWrite'
  <2>1. Lawful /\ \A u \in Threads \ {t} : pc'[u] = pc[u] /\ job'[u] = job[u]
    BY <1>28 DEF BuildFails, Lawful, TypeOK, Types, Goto, daemon
  <2>2. \A g \in Hosts, q \in Paths : HoldsRW(g, q)' => HoldsRW(g, q)
    BY <1>28 DEF BuildFails, HoldsRW, Goto, daemon
  <2>3. job'[t].want = NoWant /\ pc'[t] # "disown"
    <3>1. job[t].want = NoWant
      BY <1>28, Unwanting DEF BuildFails, Wanting
    <3> QED
      BY <1>28, <3>1, HandlersTyped DEF BuildFails, Job, Goto, daemon
  <2>4. Entitled(pc[t], job[t])'
    BY <2>1, <2>3, OwnStays
  <2> QED
    BY <2>1, <2>2, <2>4, LawfulStep
<1>29. ASSUME NEW t \in Threads, Reconciled(t)
      PROVE  MayWrite'
  <2>1. Lawful /\ \A u \in Threads \ {t} : pc'[u] = pc[u] /\ job'[u] = job[u]
    BY <1>29 DEF Reconciled, Lawful, TypeOK, Types, Goto, daemon
  <2>2. \A g \in Hosts, q \in Paths : HoldsRW(g, q)' => HoldsRW(g, q)
    BY <1>29 DEF Reconciled, HoldsRW, Goto, daemon
  <2>3. job'[t].want = NoWant /\ pc'[t] # "disown"
    <3>1. job[t].want = NoWant
      BY <1>29, Unwanting DEF Reconciled, Wanting
    <3> QED
      BY <1>29, <3>1, HandlersTyped DEF Reconciled, Job, Goto, daemon
  <2>4. Entitled(pc[t], job[t])'
    BY <2>1, <2>3, OwnStays
  <2> QED
    BY <2>1, <2>2, <2>4, LawfulStep
<1>30. ASSUME NEW t \in Threads, Started(t)
      PROVE  MayWrite'
  <2>1. Lawful /\ \A u \in Threads \ {t} : pc'[u] = pc[u] /\ job'[u] = job[u]
    BY <1>30 DEF Started, Lawful, TypeOK, Types, Finish, Goto, NoJob
  <2>2. \A g \in Hosts, q \in Paths : HoldsRW(g, q)' => HoldsRW(g, q)
    BY <1>30 DEF Started, HoldsRW, Finish, Goto, NoJob
  <2>3. job'[t].want = NoWant /\ pc'[t] # "disown"
    <3>1. job[t].want = NoWant \/ job'[t] = NoJob
      BY <1>30 DEF Started, MayWrite, Entitled, Wanting, TypeOK, Types, Finish,
         Goto, NoJob
    <3>2. pc'[t] # "disown"
      BY <1>30 DEF Started, TypeOK, Types, Finish, Goto, NoJob
    <3>3. CASE job'[t] = NoJob
      BY <3>2, <3>3 DEF NoJob
    <3>4. CASE job[t].want = NoWant
      <4>1. job'[t] = NoJob \/ job'[t].want = job[t].want
        BY <1>30, HandlersTyped DEF Started, Job, Finish, Goto, NoJob
      <4> QED
        BY <3>2, <3>4, <4>1 DEF NoJob
    <3> QED
      BY <3>1, <3>3, <3>4
  <2>4. Entitled(pc[t], job[t])'
    BY <2>1, <2>3, OwnStays
  <2> QED
    BY <2>1, <2>2, <2>4, LawfulStep
<1>31. ASSUME NEW t \in Threads, StartFails(t)
      PROVE  MayWrite'
  <2>1. Lawful /\ \A u \in Threads \ {t} : pc'[u] = pc[u] /\ job'[u] = job[u]
    BY <1>31 DEF StartFails, Lawful, TypeOK, Types, Finish, Goto, NoJob
  <2>2. \A g \in Hosts, q \in Paths : HoldsRW(g, q)' => HoldsRW(g, q)
    BY <1>31 DEF StartFails, HoldsRW, Finish, Goto, NoJob
  <2>3. job'[t].want = NoWant /\ pc'[t] # "disown"
    BY <1>31, HandlersTyped DEF StartFails, Job, Finish, Goto, NoJob
  <2>4. Entitled(pc[t], job[t])'
    BY <2>1, <2>3, OwnStays
  <2> QED
    BY <2>1, <2>2, <2>4, LawfulStep
<1>32. ASSUME NEW t \in Threads, NEW h \in Hosts, Drop(t, h)
      PROVE  MayWrite'
  <2>1. Lawful /\ \A u \in Threads \ {t} : pc'[u] = pc[u] /\ job'[u] = job[u]
    BY <1>32 DEF Drop, Lawful, TypeOK, Types, Idle, Goto, daemon
  <2>2. \A g \in Hosts, q \in Paths : HoldsRW(g, q)' => HoldsRW(g, q)
    BY <1>32 DEF Drop, HoldsRW, Idle, Goto, daemon
  <2>3. job'[t].want = NoWant /\ pc'[t] # "disown"
    <3>1. job[t].want = NoWant
      BY <1>32, Unwanting DEF Drop, Wanting, Idle
    <3> QED
      BY <1>32, <3>1, HandlersTyped DEF Drop, Job, Idle, Goto, daemon
  <2>4. Entitled(pc[t], job[t])'
    BY <2>1, <2>3, OwnStays
  <2> QED
    BY <2>1, <2>2, <2>4, LawfulStep
<1>33. ASSUME NEW t \in Threads, Stop(t)
      PROVE  MayWrite'
  <2>1. Lawful /\ \A u \in Threads \ {t} : pc'[u] = pc[u] /\ job'[u] = job[u]
    BY <1>33 DEF Stop, AfterStop, Lawful, Goto, TypeOK, Types
  <2>2. \A g \in Hosts, q \in Paths : HoldsRW(g, q)' => HoldsRW(g, q)
    BY <1>33 DEF Stop, HoldsRW
  <2>3. job'[t].want = NoWant /\ (pc'[t] = "disown" => job'[t].host \in stopped')
    BY <1>33 DEF Stop, AfterStop, MayWrite, Entitled, Wanting, Goto, TypeOK,
       Types
  <2>4. Entitled(pc[t], job[t])'
    BY <2>1, <2>3, OwnStays
  <2> QED
    BY <2>1, <2>2, <2>4, LawfulStep
<1>34. ASSUME NEW t \in Threads, Disown(t)
      PROVE  MayWrite'
  <2>1. Lawful /\ \A u \in Threads \ {t} : pc'[u] = pc[u] /\ job'[u] = job[u]
    BY <1>34 DEF Disown, MayWrite, Entitled, Lawful, TypeOK, Types, Goto
  <2>2. \A g \in Hosts, q \in Paths : HoldsRW(g, q)' => HoldsRW(g, q)
    BY <1>34 DEF Disown, HoldsRW, Goto
  <2>3. job'[t].want = NoWant /\ pc'[t] # "disown"
    <3>1. job[t].want = NoWant
      BY <1>34, Unwanting DEF Disown, Wanting
    <3> QED
      BY <1>34, <3>1, HandlersTyped DEF Disown, Job, Goto
  <2>4. Entitled(pc[t], job[t])'
    BY <2>1, <2>3, OwnStays
  <2> QED
    BY <2>1, <2>2, <2>4, LawfulStep
<1>35. ASSUME NEW t \in Threads, NodeDown(t)
      PROVE  MayWrite'
  <2>1. Lawful /\ \A u \in Threads \ {t} : pc'[u] = pc[u] /\ job'[u] = job[u]
    BY <1>35 DEF NodeDown, Lawful, TypeOK, Types, AfterStop, Goto, daemon
  <2>2. \A g \in Hosts, q \in Paths : HoldsRW(g, q)' => HoldsRW(g, q)
    <3> DEFINE gone == [node EXCEPT ![job[t].host] = [up |-> FALSE, held |-> NoTree]]
    <3>1. \A h \in Hosts, p \in Paths :
             node'[h].held[p] = node[h].held[p] \/ node'[h].held[p] = <<>>
      BY <1>35 DEF NodeDown, NoTree, TypeOK, Types
    <3> QED
      BY <3>1 DEF HoldsRW
  <2>3. job'[t].want = NoWant /\ pc'[t] # "disown"
    <3>1. job[t].want = NoWant
      BY <1>35, Unwanting DEF NodeDown, Wanting
    <3> QED
      BY <1>35, <3>1, HandlersTyped DEF NodeDown, Job, AfterStop, Goto, daemon
  <2>4. Entitled(pc[t], job[t])'
    BY <2>1, <2>3, OwnStays
  <2> QED
    BY <2>1, <2>2, <2>4, LawfulStep
<1>36. ASSUME NEW t \in Threads, NEW h \in Hosts, NEW p \in Paths, Dispatch(t, h, p)
      PROVE  MayWrite'
  <2>1. Lawful /\ \A u \in Threads \ {t} : pc'[u] = pc[u] /\ job'[u] = job[u]
    BY <1>36 DEF Dispatch, Lawful, TypeOK, Types, Idle, Goto, daemon
  <2>2. \A g \in Hosts, q \in Paths : HoldsRW(g, q)' => HoldsRW(g, q)
    BY <1>36 DEF Dispatch, HoldsRW, Idle, Goto, daemon
  <2>3. job'[t].want = NoWant /\ pc'[t] # "disown"
    <3>1. job[t].want = NoWant \/ job'[t] = NoJob
      BY <1>36 DEF Dispatch, MayWrite, Entitled, Wanting, TypeOK, Types, Idle,
         Goto, daemon
    <3>2. pc'[t] # "disown"
      BY <1>36 DEF Dispatch, TypeOK, Types, Idle, Goto, daemon
    <3>3. CASE job'[t] = NoJob
      BY <3>2, <3>3 DEF NoJob
    <3>4. CASE job[t].want = NoWant
      <4>1. job'[t] = NoJob \/ job'[t].want = job[t].want
        BY <1>36, HandlersTyped DEF Dispatch, Job, Idle, Goto, daemon
      <4> QED
        BY <3>2, <3>4, <4>1 DEF NoJob
    <3> QED
      BY <3>1, <3>3, <3>4
  <2>4. Entitled(pc[t], job[t])'
    BY <2>1, <2>3, OwnStays
  <2> QED
    BY <2>1, <2>2, <2>4, LawfulStep
<1>37. ASSUME NEW t \in Threads, Guard(t)
      PROVE  MayWrite'
  <2>1. Lawful /\ \A u \in Threads \ {t} : pc'[u] = pc[u] /\ job'[u] = job[u]
    BY <1>37 DEF Guard, Lawful, TypeOK, Types, Reconcile, Finish, Goto, NoJob,
       daemon
  <2>2. \A g \in Hosts, q \in Paths : HoldsRW(g, q)' => HoldsRW(g, q)
    BY <1>37 DEF Guard, HoldsRW, Reconcile, Finish, Goto, NoJob, daemon
  <2>3. job'[t].want = NoWant /\ pc'[t] # "disown"
    <3>1. job[t].want = NoWant \/ job'[t] = NoJob
      BY <1>37 DEF Guard, MayWrite, Entitled, Wanting, TypeOK, Types,
         Reconcile, Finish, Goto, NoJob, daemon
    <3>2. pc'[t] # "disown"
      BY <1>37 DEF Guard, TypeOK, Types, Reconcile, Finish, Goto, NoJob, daemon
    <3>3. CASE job'[t] = NoJob
      BY <3>2, <3>3 DEF NoJob
    <3>4. CASE job[t].want = NoWant
      <4>1. job'[t] = NoJob \/ job'[t].want = job[t].want
        <5>1. CASE Reconcile(t, job[t].np, "recheck")
          BY <5>1, HandlersTyped DEF Reconcile, Job
        <5>2. CASE UNCHANGED job \/ Finish(t)
          BY <5>2 DEF Finish, TypeOK, Types
        <5> QED
          BY <1>37, <5>1, <5>2 DEF Guard
      <4> QED
        BY <3>2, <3>4, <4>1 DEF NoJob
    <3> QED
      BY <3>1, <3>3, <3>4
  <2>4. Entitled(pc[t], job[t])'
    BY <2>1, <2>3, OwnStays
  <2> QED
    BY <2>1, <2>2, <2>4, LawfulStep
<1>38. ASSUME NEW t \in Threads, Recheck(t)
      PROVE  MayWrite'
  <2>1. Lawful /\ \A u \in Threads \ {t} : pc'[u] = pc[u] /\ job'[u] = job[u]
    BY <1>38 DEF Recheck, Lawful, TypeOK, Types, Finish, Goto, NoJob, daemon
  <2>2. \A g \in Hosts, q \in Paths : HoldsRW(g, q)' => HoldsRW(g, q)
    BY <1>38 DEF Recheck, HoldsRW, Finish, Goto, NoJob, daemon
  <2>3. job'[t].want = NoWant /\ pc'[t] # "disown"
    <3>1. job[t].want = NoWant \/ job'[t] = NoJob
      BY <1>38 DEF Recheck, MayWrite, Entitled, Wanting, TypeOK, Types, Finish,
         Goto, NoJob, daemon
    <3>2. pc'[t] # "disown"
      BY <1>38 DEF Recheck, TypeOK, Types, Finish, Goto, NoJob, daemon
    <3>3. CASE job'[t] = NoJob
      BY <3>2, <3>3 DEF NoJob
    <3>4. CASE job[t].want = NoWant
      <4>1. job'[t] = NoJob \/ job'[t].want = job[t].want
        BY <1>38, HandlersTyped DEF Recheck, Job, Finish, Goto, NoJob, daemon
      <4> QED
        BY <3>2, <3>4, <4>1 DEF NoJob
    <3> QED
      BY <3>1, <3>3, <3>4
  <2>4. Entitled(pc[t], job[t])'
    BY <2>1, <2>3, OwnStays
  <2> QED
    BY <2>1, <2>2, <2>4, LawfulStep
<1>39. ASSUME NEW t \in Threads, Run(t)
      PROVE  MayWrite'
  <2>1. Lawful /\ \A u \in Threads \ {t} : pc'[u] = pc[u] /\ job'[u] = job[u]
    BY <1>39 DEF Run, Lawful, TypeOK, Types, Finish, Goto, NoJob, Registered
  <2>2. \A g \in Hosts, q \in Paths : HoldsRW(g, q)' => HoldsRW(g, q)
    BY <1>39 DEF Run, HoldsRW, Finish, Goto, NoJob, Registered
  <2>3. job'[t].want = NoWant /\ pc'[t] # "disown"
    <3>1. job[t].want = NoWant
      BY <1>39, Unwanting DEF Run, Wanting
    <3> QED
      BY <1>39, <3>1, HandlersTyped DEF Run, Job, Finish, Goto, NoJob, Registered
  <2>4. Entitled(pc[t], job[t])'
    BY <2>1, <2>3, OwnStays
  <2> QED
    BY <2>1, <2>2, <2>4, LawfulStep
<1>40. ASSUME NEW np \in PodIds, Invalidated(np)
      PROVE  MayWrite'
  <2>1. Lawful /\ UNCHANGED <<pc, job>>
    BY <1>40 DEF Invalidated, Lawful, daemon
  <2>2. \A g \in Hosts, q \in Paths : HoldsRW(g, q)' => HoldsRW(g, q)
    <3>1. view[np].host \in Hosts
      BY <1>40 DEF Invalidated, TypeOK, RecordsInUse
    <3>2. \/ Request(view[np].host, TRUE, node[view[np].host].held)
          \/ Request(view[np].host, FALSE, node[view[np].host].held)
      BY <1>40 DEF Invalidated
    <3> QED
      BY <3>1, <3>2, RequestWrites DEF HoldsRW, Writable
  <2> QED
    BY <2>1, <2>2, NoThreadMoves
<1>41. ASSUME NEW h \in Hosts, LinkDown(h)
      PROVE  MayWrite'
  <2>1. Lawful /\ UNCHANGED <<pc, job>>
    BY <1>41 DEF LinkDown, Lawful, daemon
  <2>2. \A g \in Hosts, q \in Paths : HoldsRW(g, q)' => HoldsRW(g, q)
    BY <1>41 DEF LinkDown, HoldsRW
  <2> QED
    BY <2>1, <2>2, NoThreadMoves
<1>42. ASSUME NEW h \in Hosts, LinkUp(h)
      PROVE  MayWrite'
  <2>1. Lawful /\ UNCHANGED <<pc, job>>
    BY <1>42 DEF LinkUp, Lawful, daemon
  <2>2. \A g \in Hosts, q \in Paths : HoldsRW(g, q)' => HoldsRW(g, q)
    BY <1>42 DEF LinkUp, HoldsRW
  <2> QED
    BY <2>1, <2>2, NoThreadMoves
<1>43. ASSUME NEW h \in Hosts, LeaseExpires(h)
      PROVE  MayWrite'
  <2>1. Lawful /\ UNCHANGED <<pc, job>>
    BY <1>43 DEF LeaseExpires, Lawful, daemon
  <2>2. \A g \in Hosts, q \in Paths : HoldsRW(g, q)' => HoldsRW(g, q)
    <3>1. \A g \in Hosts, p \in Paths :
             node'[g].held[p] = node[g].held[p] \/ node'[g].held[p] = <<>>
      BY <1>43 DEF LeaseExpires, NoTree, TypeOK, Types
    <3> QED
      BY <3>1 DEF HoldsRW
  <2> QED
    BY <2>1, <2>2, NoThreadMoves
<1>44. CASE UNCHANGED vars
  BY <1>44 DEF vars, daemon, MayWrite, HoldsRW, Entitled, Elected
<1> QED
  BY ConstantsAssumption, <1>1, <1>2, <1>3, <1>4, <1>5, <1>6, <1>7, <1>8,
     <1>9, <1>10, <1>11, <1>12, <1>13, <1>14, <1>15, <1>16, <1>17, <1>18,
     <1>19, <1>20, <1>21, <1>22, <1>23, <1>24, <1>25, <1>26, <1>27, <1>28,
     <1>29, <1>30, <1>31, <1>32, <1>33, <1>34, <1>35, <1>36, <1>37, <1>38,
     <1>39, <1>40, <1>41, <1>42, <1>43, <1>44
     DEF Next, Begin, Continue, Environment

\* Whatever interleaves, fails or is lost: a mount is writable on two machines
\* at once only where its request allowed many writers at that path, or one of
\* the machines is one whose node pod this daemon has stopped (releaseWriter
\* gives the claim away without knowing that the old writer is gone).
THEOREM SplitsOnlyByStop == Spec => []SplitOnlyByStop
<1>1. Init => MayWrite
  BY MayWriteInit
<1>2. TypeOK /\ MayWrite /\ [Next]_vars => MayWrite'
  BY MayWriteStep
<1>3. MayWrite => SplitOnlyByStop
  BY MayWriteSuffices
<1> QED
  BY <1>1, <1>2, <1>3, TypeCorrect, PTL DEF Spec

-----------------------------------------------------------------------------
(* One handler at a time: what the daemon believes is true, and what is    *)
(* claimed has a node pod.                                                 *)

\* The daemon does one thing at a time.
OneAtATime == \A t, u \in Threads : t = u

\* A node pod that answers does what it is told.
Obeyed == {"refuse", "midway"} \cap FaultKinds = {}

SingleHost == \A h, g \in Hosts : h = g

\* What a handler has in hand is about the machines' current records, and where it
\* is tells whose call a reconcile was.
Ordered(t) ==
    /\ Idle(t) => job[t] = NoJob
    /\ job[t].todo \subseteq Registered
    /\ job[t].todo # {} => job[t].ret \in {"all", "lease", "views"}
    /\ job[t].ret \in {"all", "lease", "views"} => pc[t] \in {"ok", "err"} \cup InReconcile
    /\ pc[t] \in InReconcile \cup {"holds"} =>
          job[t].host \in Hosts /\ pods[job[t].host] = job[t].np
    /\ pc[t] \in {"adopt", "spec", "build"} => pods[job[t].host] = None
    /\ pc[t] = "unbind" => \A p \in job[t].hits : mounts[p] # None

\* A machine that is being changed, or has just been asked for a pod, goes on
\* answering.
Obeying(t) ==
    Obeyed =>
        /\ pc[t] \in {"apply", "mount", "record"} => Answers(job[t].host)
        /\ pc[t] \in {"adopt", "spec", "build"} => link[job[t].host]
        /\ pc[t] \in {"spec", "build"} => ~node[job[t].host].up
        /\ job[t].ret \in {"adopted", "built"} =>
              pc[t] # "err" /\ (pc[t] \in InReconcile => Answers(job[t].host))
        /\ pc[t] = "stop" => pods[job[t].host] # None

\* A claim without a pod is that of the machine whose pod comes or goes right now.
Claimed(t) ==
    Obeyed => \A p \in Paths : writers[p] # None =>
        \/ pods[writers[p]] # None
        \/ pc[t] \in {"build", "disown"} /\ job[t].host = writers[p]

\* A record that was made for this reconcile, or a machine that it is changing.
Fresh(t, h) ==
    /\ job[t].host = h /\ job[t].ret \in {"adopted", "built"}
    /\ pc[t] \in InReconcile \cup {"err", "stop"}
Changing(t, h) == Obeyed /\ job[t].host = h /\ pc[t] \in {"apply", "mount"}

Converged(h) == pods[h] # None /\ view[pods[h]].gen = gen /\ node[h].up

Like(h) ==
    /\ SameTree(h)
    /\ SingleHost => \A p \in Sent(h) :
                        Last(node[h].held[p]).ro = (mounts[p] \in ReadOnly)

\* Nobody is ahead of the pod, everybody is behind while a mount is being bound, and
\* whoever is not has the tree. An unmount that fails half way leaves a list that has
\* changed and a generation that has not.
Truthful(t) ==
    /\ \A i \in PodIds : view[i].gen <= gen
    /\ pc[t] = "bind" => \A h \in Hosts : (pods[h] # None => view[pods[h]].gen < gen)
    /\ "unbind" \notin FaultKinds /\ pc[t] # "unbind" => \A h \in Hosts :
          (Converged(h) /\ ~Fresh(t, h) /\ ~Changing(t, h) => Like(h))

\* The tree a reconcile brings is still the pod's.
Asked(t) ==
    pc[t] \in {"held", "apply", "mount", "record"} => \A p \in Paths :
        IF p \in Sent(job[t].host)
        THEN /\ job[t].want[p] # None /\ job[t].want[p].from = mounts[p]
             /\ SingleHost => job[t].want[p].ro = (mounts[p] \in ReadOnly)
        ELSE job[t].want[p] = None

Brought(list, e) == list # <<>> /\ Last(list) = e

\* What it remembers of the node is what is there, or what it has brought.
Remembers(t) ==
    pc[t] \in {"apply", "mount"} /\ node[job[t].host].up => \A p \in Paths :
        \/ job[t].snap[p] = node[job[t].host].held[p]
        \/ pc[t] = "mount" /\ p = job[t].cur
        \/ /\ job[t].want[p] # None /\ job[t].snap[p] = <<job[t].want[p]>>
           /\ Brought(node[job[t].host].held[p], job[t].want[p])

\* At its end the node has all of it.
Done(t) ==
    pc[t] = "record" /\ node[job[t].host].up => \A p \in Paths :
        IF job[t].want[p] = None THEN node[job[t].host].held[p] = <<>>
        ELSE Brought(node[job[t].host].held[p], job[t].want[p])

\* A node that may refuse, and has the tree, is asked to change nothing.
Untouched(t) ==
    ~Obeyed /\ pc[t] \in {"apply", "mount"} /\ Converged(job[t].host)
            /\ ~Fresh(t, job[t].host) =>
        pc[t] = "apply" /\ job[t].snap = node[job[t].host].held

Sole(t) ==
    /\ Ordered(t) /\ Obeying(t) /\ Claimed(t) /\ Truthful(t) /\ Asked(t)
    /\ Remembers(t) /\ Done(t) /\ Untouched(t)

-----------------------------------------------------------------------------
\* What is asked without a change changes nothing; a node that does as told and does
\* not answer cannot be reached.
LEMMA AsksOnly ==
    ASSUME TypeOK, NEW h \in Hosts, NEW b \in BOOLEAN, Request(h, b, node[h].held)
    PROVE  /\ node' = node
           /\ b => Answers(h)
           /\ Obeyed /\ ~b => ~Answers(h)
<1>1. [node EXCEPT ![h].held = node[h].held] = node
  BY DEF TypeOK, Types
<1> QED
  BY <1>1 DEF Request, Fault, Obeyed

\* A record of the daemon's list is that of its machine.
LEMMA RegisteredIsItsOwn ==
    ASSUME TypeOK, NEW i \in Registered
    PROVE  /\ i \in PodIds /\ view[i].host \in Hosts /\ pods[view[i].host] = i
           /\ \A h \in Hosts : pods[h] = i => h = view[i].host
  BY ConstantsAssumption DEF Registered, TypeOK, RecordsInUse, Types

\* Handlers know their machine where they change one.
LEMMA SoleKnows ==
    ASSUME TypeOK, NEW t \in Threads, Ordered(t)
    PROVE  /\ pc[t] \in InReconcile => /\ job[t].host \in Hosts /\ job[t].np \in PodIds
                                       /\ view[job[t].np].host = job[t].host
                                       /\ pods[job[t].host] = job[t].np
                                       /\ pods[job[t].host] # None
           /\ pc[t] \in InStartStop \/ job[t].ret \in {"adopted", "built"} =>
                 job[t].host \in Hosts
           /\ pc[t] \notin {"ok", "err"} \cup InReconcile => job[t].todo = {}
           /\ job[t].ret \notin {"all", "lease", "views"} => job[t].todo = {}
  BY ConstantsAssumption DEF TypeOK, HandlersKnow, Knows, Ordered

\* The list and the machines are as they were, or a machine has lost its pod: whoever
\* is not behind still has the tree.
LEMMA TruthfulStays ==
    ASSUME TypeOK, NEW t \in Threads, Truthful(t), UNCHANGED <<mounts, gen>>,
           \A i \in PodIds : view'[i].gen = view[i].gen,
           \A h \in Hosts : pods'[h] = pods[h] \/ pods'[h] = None,
           \A h \in Hosts : ~node'[h].up \/ node'[h] = node[h] \/ pods'[h] = None,
           pc[t] # "unbind" \/ pc'[t] = "unbind", pc'[t] # "bind",
           \A h \in Hosts : ~Fresh(t, h)' /\ ~Changing(t, h)' /\ pods'[h] # None
                               => ~Fresh(t, h) /\ ~Changing(t, h)
    PROVE  Truthful(t)'
<1>1. ASSUME NEW h \in Hosts, Converged(h)', ~Fresh(t, h)', ~Changing(t, h)',
             pc[t] # "unbind", "unbind" \notin FaultKinds
      PROVE  Like(h)'
  <2>1. pods'[h] = pods[h] /\ pods[h] \in PodIds /\ node'[h] = node[h]
    BY <1>1 DEF Converged, TypeOK, Types
  <2>2. Converged(h) /\ ~Fresh(t, h) /\ ~Changing(t, h)
    BY <1>1, <2>1 DEF Converged
  <2>3. Like(h)
    BY <1>1, <2>2 DEF Truthful
  <2> QED
    BY <2>1, <2>3 DEF Like, SameTree, Sent
<1> QED
  BY <1>1 DEF Truthful

\* Nobody is up to date with a list that has just changed.
LEMMA TruthfulBehind ==
    ASSUME TypeOK, TypeOK', NEW t \in Threads, UNCHANGED <<view, pods>>,
           \A i \in PodIds : view[i].gen <= gen', gen' \in Nat,
           \A h \in Hosts : pods[h] # None => view[pods[h]].gen < gen'
    PROVE  Truthful(t)'
  BY DEF Truthful, Converged, TypeOK, Types, PodRecord

\* Where no reconcile is under way nothing is asked for or remembered.
LEMMA NotReconciling ==
    ASSUME NEW t \in Threads, pc'[t] \notin {"held", "apply", "mount", "record"}
    PROVE  Asked(t)' /\ Remembers(t)' /\ Done(t)' /\ Untouched(t)'
  BY DEF Asked, Remembers, Done, Untouched

\* The claims are as they were, and so are the pods.
LEMMA ClaimedStays ==
    ASSUME TypeOK, NEW t \in Threads, Claimed(t), UNCHANGED <<writers, pods>>,
           pc[t] \notin {"build", "disown"} \/ ~Obeyed
    PROVE  Claimed(t)'
  BY DEF Claimed

\* While a mount is being bound nobody is up to date.
LEMMA BindingBehind ==
    ASSUME TypeOK, TypeOK', NEW t \in Threads, Truthful(t), pc[t] = "bind",
           pc'[t] # "bind", UNCHANGED <<view, pods, gen>>
    PROVE  Truthful(t)'
  BY TruthfulBehind DEF Truthful, TypeOK, Types

\* A mount more or less, and everybody is behind.
LEMMA ChangedBehind ==
    ASSUME TypeOK, TypeOK', NEW t \in Threads, Truthful(t),
           UNCHANGED <<view, pods>>, gen' = gen + 1
    PROVE  Truthful(t)'
<1>1. gen \in Nat /\ \A i \in PodIds : view[i].gen \in Nat /\ view[i].gen <= gen
  BY DEF Truthful, TypeOK, Types, PodRecord
<1>2. gen' \in Nat /\ \A i \in PodIds : view[i].gen < gen'
  BY <1>1
<1>3. \A h \in Hosts : pods[h] # None => view[pods[h]].gen < gen'
  BY <1>2 DEF TypeOK, Types
<1>4. \A i \in PodIds : view[i].gen <= gen'
  BY <1>1, <1>2
<1> QED
  BY <1>2, <1>3, <1>4, TruthfulBehind

\* Marking a record changes no generation.
LEMMA MarkedOnly ==
    ASSUME TypeOK, NEW np \in PodIds, NEW b \in BOOLEAN,
           view' = [view EXCEPT ![np].reachable = b]
    PROVE  \A i \in PodIds : view'[i].gen = view[i].gen
<1>1. [view[np] EXCEPT !.reachable = b].gen = view[np].gen
  BY DEF TypeOK, Types, PodRecord
<1> QED
  BY <1>1 DEF TypeOK, Types

\* A machine that has just been given a record, and answers.
LEMMA PutSole ==
    ASSUME TypeOK, TypeOK', NEW t \in Threads, Sole(t),
           NEW h \in Hosts, h = job[t].host, pods[h] = None, job[t].todo = {},
           NEW ret \in {"adopted", "built"}, Put(t, h, ret),
           pc[t] \in {"adopt", "build"},
           Obeyed => Answers(h)', UNCHANGED <<mounts, gen, writers, link>>,
           \A g \in Hosts : g # h => node'[g] = node[g]
    PROVE  Sole(t)'
<1>1. PICK i \in PodIds \ Live :
        /\ pods' = [pods EXCEPT ![h] = i]
        /\ view' = [view EXCEPT ![i] = NewRecord(h)]
        /\ job' = [job EXCEPT ![t].np = i, ![t].ret = ret, ![t].want = NoWant]
        /\ Goto(t, "want")
  BY DEF Put
<1>2. /\ pc'[t] = "want" /\ job'[t].np = i /\ job'[t].ret = ret
      /\ job'[t].todo = {} /\ job'[t].host = h
  BY <1>1, HandlersTyped DEF Goto, Job
<1>3. pods'[h] = i /\ \A g \in Hosts : g # h => pods'[g] = pods[g] /\ pods[g] # i
  BY <1>1, ConstantsAssumption DEF Live, Registered, TypeOK, Types
<1>4. \A j \in PodIds : view'[j].gen = IF j = i THEN 0 ELSE view[j].gen
  BY <1>1 DEF NewRecord, TypeOK, Types
<1>5. Ordered(t)'
  BY <1>2, <1>3 DEF Ordered, Idle, InReconcile
<1>6. Obeying(t)'
  BY <1>2 DEF Obeying
<1>7. Claimed(t)'
  BY <1>2, <1>3, ConstantsAssumption DEF Sole, Claimed, TypeOK, Types
<1>8. Truthful(t)'
  <2>1. \A j \in PodIds : view'[j].gen <= gen'
    <3>1. gen \in Nat /\ gen' = gen /\ \A j \in PodIds : view[j].gen <= gen
      BY DEF Sole, Truthful, TypeOK, Types
    <3> QED
      BY <1>4, <3>1
  <2>2. ASSUME NEW g \in Hosts, Converged(g)', ~Fresh(t, g)', "unbind" \notin FaultKinds
        PROVE  Like(g)'
    <3>1. g # h
      BY <1>2, <2>2 DEF Fresh, InReconcile
    <3>2. pods'[g] = pods[g] /\ pods[g] # i /\ node'[g] = node[g]
      BY <1>3, <3>1
    <3>3. Converged(g)
      BY <1>4, <2>2, <3>2 DEF Converged, TypeOK, Types
    <3>4. Like(g)
      BY <2>2, <3>1, <3>3 DEF Sole, Truthful, Fresh, Changing
    <3> QED
      BY <3>2, <3>4 DEF Like, SameTree, Sent
  <2> QED
    BY <1>2, <2>1, <2>2 DEF Truthful
<1> QED
  BY <1>2, <1>5, <1>6, <1>7, <1>8, NotReconciling DEF Sole


\* What one handler at a time needs: either a node pod does what it is told, or
\* there is one machine and no unmount is left half done.
Calmly == /\ OneAtATime
          /\ Obeyed \/ (SingleHost /\ "unbind" \notin FaultKinds)

\* The inductive invariant.
Alone == \A t \in Threads : Sole(t)

\* What the daemon believes of a machine's list is right: it has still to change
\* something there only where that list is not the pod's.
LEMMA NothingToDo ==
    ASSUME TypeOK, NEW t \in Threads, Sole(t), ~Obeyed, SingleHost,
           "unbind" \notin FaultKinds,
           pc[t] \in {"apply", "mount"}, Converged(job[t].host),
           ~Fresh(t, job[t].host)
    PROVE  pc[t] = "apply" /\ Missing(t) = {} /\ Mistaken(t) = {} /\ Stray(t) = {}
<1> DEFINE h == job[t].host
<1>1. h \in Hosts
  BY SoleKnows DEF Sole, InReconcile
<1>2. pc[t] = "apply" /\ job[t].snap = node[h].held
  BY DEF Sole, Untouched
<1>3. Like(h)
  BY <1>1 DEF Sole, Truthful, Changing
<1>4. ASSUME NEW p \in Paths
      PROVE  IF p \in Sent(h) THEN /\ job[t].want[p] # None /\ job[t].snap[p] # <<>>
                                   /\ Last(job[t].snap[p]) = job[t].want[p]
                              ELSE job[t].want[p] = None /\ job[t].snap[p] = <<>>
  <2>1. CASE p \notin Sent(h)
    BY <1>2, <1>3, <2>1 DEF Like, SameTree, Sole, Asked
  <2>2. CASE p \in Sent(h)
    <3> DEFINE e == Last(node[h].held[p])
    <3>1. node[h].held[p] # <<>> /\ e.from = mounts[p] /\ e.ro = (mounts[p] \in ReadOnly)
      BY <1>3, <2>2 DEF Like, SameTree
    <3>2. /\ job[t].want[p] # None /\ job[t].want[p].from = mounts[p]
          /\ job[t].want[p].ro = (mounts[p] \in ReadOnly)
      BY <1>2, <2>2 DEF Sole, Asked
    <3>3. e \in Entry
      BY <1>1, <3>1 DEF Last, TypeOK, Types, Tree
    <3>4. job[t].want[p] \in Entry
      BY <3>2, HandlersTyped DEF Job
    <3>5. e = job[t].want[p]
      BY <3>1, <3>2, <3>3, <3>4 DEF Entry
    <3> QED
      BY <1>2, <2>2, <3>1, <3>2, <3>5
  <2> QED
    BY <2>1, <2>2
<1> QED
  BY <1>2, <1>4 DEF Missing, Mistaken, Stray

\* A reconcile changes one machine, and not while that machine's record and list
\* are to be believed.
LEMMA ChangingStays ==
    ASSUME TypeOK, NEW t \in Threads, Sole(t), pc[t] \in {"apply", "mount"},
           UNCHANGED <<mounts, gen, pods>>,
           \A i \in PodIds : view'[i].gen = view[i].gen,
           \A g \in Hosts : g # job[t].host => node'[g] = node[g],
           node'[job[t].host].up = node[job[t].host].up,
           pc'[t] \in {"apply", "mount", "err"}, job'[t].host = job[t].host,
           job'[t].ret = job[t].ret, Obeyed => pc'[t] # "err",
           ~Obeyed => ~(Converged(job[t].host) /\ ~Fresh(t, job[t].host))
    PROVE  Truthful(t)' /\ (~Obeyed => ~(Converged(job[t].host)' /\ ~Fresh(t, job[t].host)'))
<1> DEFINE h == job[t].host
<1>1. ASSUME NEW g \in Hosts, Converged(g)', ~Fresh(t, g)', ~Changing(t, g)'
      PROVE  /\ "unbind" \notin FaultKinds => Like(g)'
             /\ ~Obeyed => g # h
  <2>1. pods'[g] = pods[g] /\ pods[g] \in PodIds /\ node'[g].up = node[g].up
    BY <1>1 DEF Converged, TypeOK, Types
  <2>2. Converged(g)
    BY <1>1, <2>1 DEF Converged
  <2>3. ~Fresh(t, g)
    BY <1>1 DEF Fresh, InReconcile
  <2>4. g # h
    BY <1>1, <2>2, <2>3 DEF Changing
  <2>5. "unbind" \notin FaultKinds => Like(g)
    BY <2>2, <2>3, <2>4 DEF Sole, Truthful, Changing
  <2> QED
    BY <2>4, <2>5 DEF Like, SameTree, Sent
<1>2. h \in Hosts
  BY SoleKnows DEF Sole, InReconcile
<1>3. Truthful(t)'
  BY <1>1 DEF Sole, Truthful
<1>4. ~Obeyed => ~(Converged(h)' /\ ~Fresh(t, h)')
  BY <1>1, <1>2 DEF Changing
<1> QED
  BY <1>3, <1>4

\* A request that a reconcile makes of its machine: the others are as they were,
\* and one that obeys does what it is told.
LEMMA RequestSole ==
    ASSUME TypeOK, NEW h \in Hosts, NEW held \in Tree, NEW b \in BOOLEAN,
           Request(h, b, held)
    PROVE  /\ \A g \in Hosts : g # h => node'[g] = node[g]
           /\ node'[h].up = node[h].up
           /\ b => node'[h].held = held /\ Answers(h)
           /\ ~b /\ Obeyed => ~Answers(h)
<1> DEFINE acted == [node EXCEPT ![h].held = held]
<1>1. /\ \A g \in Hosts : g # h => acted[g] = node[g]
      /\ acted[h].up = node[h].up /\ acted[h].held = held
  BY DEF TypeOK, Types
<1>2. node' \in {node, acted} /\ (b => node' = acted /\ Answers(h))
  BY DEF Request
<1>3. ~b /\ Obeyed => ~Answers(h)
  BY DEF Request, Fault, Obeyed
<1> QED
  BY <1>1, <1>2, <1>3

\* A request of a reconcile: what it leaves to show is that what the handler
\* remembers is true of the list it asked for.
LEMMA ChangeSole ==
    ASSUME TypeOK, Calmly, NEW t \in Threads, Sole(t), NEW p \in Paths,
           pc[t] \in {"apply", "mount"},
           Missing(t) \cup Mistaken(t) \cup Stray(t) # {} \/ pc[t] = "mount",
           NEW held \in Tree, NEW snap \in Tree, NEW next \in {"apply", "mount"},
           Change(t, p, held, snap, next), UNCHANGED <<daemon, link>>,
           node[job[t].host].up => \A q \in Paths :
               \/ snap[q] = held[q]
               \/ next = "mount" /\ p = q
               \/ job[t].want[q] # None /\ snap[q] = <<job[t].want[q]>>
                  /\ Brought(held[q], job[t].want[q])
    PROVE  Sole(t)'
<1> DEFINE h == job[t].host
<1>1. /\ h \in Hosts /\ job[t].np \in PodIds /\ pods[h] = job[t].np /\ pods[h] # None
      /\ (Obeyed => Answers(h))
  BY SoleKnows DEF Sole, Obeying, InReconcile
<1>2. ~Obeyed => ~(Converged(h) /\ ~Fresh(t, h))
  BY NothingToDo DEF Calmly
<1>3. PICK b \in BOOLEAN :
        /\ Request(h, b, held)
        /\ b => /\ Reached(job[t].np) /\ Goto(t, next)
                /\ job' = [job EXCEPT ![t].snap = snap,
                                      ![t].cur = IF next = "mount" THEN p ELSE None]
        /\ ~b => Return(t, "err") /\ UNCHANGED view
  BY DEF Change
<1>4. /\ \A g \in Hosts : g # h => node'[g] = node[g]
      /\ node'[h].up = node[h].up
      /\ b => node'[h].held = held /\ Answers(h)
      /\ ~b => ~Obeyed
  BY <1>1, <1>3, RequestSole
<1>5. /\ job'[t].host = h /\ job'[t].ret = job[t].ret /\ job'[t].todo = job[t].todo
      /\ job'[t].np = job[t].np
      /\ b => /\ pc'[t] = next /\ job'[t].want = job[t].want /\ job'[t].snap = snap
              /\ next = "mount" => job'[t].cur = p
      /\ ~b => pc'[t] = "err"
  <2>1. CASE b
    BY <1>3, <2>1, HandlersTyped DEF Goto, Job
  <2>2. CASE ~b
    BY <1>3, <2>2, HandlersTyped DEF Return, Goto, Job
  <2> QED
    BY <2>1, <2>2
<1>6. \A i \in PodIds : view'[i].gen = view[i].gen
  BY <1>1, <1>3, MarkedOnly DEF Reached
<1>7. mounts' = mounts /\ gen' = gen /\ pods' = pods /\ writers' = writers /\ link' = link
  BY DEF daemon
<1>8. pc'[t] \in {"apply", "mount", "err"} /\ (Obeyed => pc'[t] # "err")
  BY <1>4, <1>5
<1>9. Ordered(t)'
  BY <1>1, <1>5, <1>7, <1>8 DEF Sole, Ordered, Idle, Registered, InReconcile
<1>10. Obeying(t)'
  BY <1>1, <1>4, <1>5, <1>7, <1>8 DEF Sole, Obeying, Answers, InReconcile
<1>11. Claimed(t)'
  BY <1>7, ClaimedStays DEF Sole
<1>12. Truthful(t)' /\ (~Obeyed => ~(Converged(h)' /\ ~Fresh(t, h)'))
  BY <1>2, <1>4, <1>5, <1>6, <1>7, <1>8, ChangingStays
<1>13. Asked(t)'
  BY <1>4, <1>5, <1>7, <1>8 DEF Sole, Asked, Sent
<1>14. Remembers(t)'
  BY <1>4, <1>5, <1>8 DEF Remembers
<1>15. Done(t)' /\ Untouched(t)'
  BY <1>5, <1>8, <1>12 DEF Done, Untouched
<1> QED
  BY <1>9, <1>10, <1>11, <1>12, <1>13, <1>14, <1>15 DEF Sole

\* A reconcile that gives up, having changed nothing.
LEMMA ErrSole ==
    ASSUME TypeOK, NEW t \in Threads, Sole(t), pc[t] \in {"held", "apply"},
           Return(t, "err"), UNCHANGED <<daemon, node, link>>,
           \A i \in PodIds : view'[i].gen = view[i].gen,
           Obeyed => pc[t] = "held" /\ job[t].ret \notin {"adopted", "built"}
    PROVE  Sole(t)'
<1>1. /\ job'[t].host = job[t].host /\ job'[t].ret = job[t].ret
      /\ job'[t].todo = job[t].todo /\ pc'[t] = "err"
  BY HandlersTyped DEF Return, Goto, Job
<1>2. mounts' = mounts /\ gen' = gen /\ pods' = pods /\ writers' = writers
  BY DEF daemon
<1>3. Ordered(t)'
  BY <1>1, <1>2 DEF Sole, Ordered, Idle, Registered, InReconcile
<1>4. Obeying(t)'
  BY <1>1 DEF Obeying, InReconcile
<1>5. Claimed(t)'
  BY <1>2, ClaimedStays DEF Sole
<1>6. Truthful(t)'
  BY <1>1, <1>2, TruthfulStays DEF Sole, Fresh, Changing, InReconcile
<1> QED
  BY <1>1, <1>3, <1>4, <1>5, <1>6, NotReconciling DEF Sole

\* Releasing a mount that the node has under another identity or does not want.
LEMMA ReleaseSole ==
    ASSUME TypeOK, Calmly, NEW t \in Threads, Sole(t), NEW p \in Paths,
           pc[t] = "apply", p \in Mistaken(t) \cup Stray(t),
           NEW left \in Seq(Entry), NEW next \in {"apply", "mount"},
           Release(t, p, left, next), UNCHANGED <<daemon, link>>,
           next = "mount" \/ left = Tail(job[t].snap[p])
    PROVE  Sole(t)'
<1> DEFINE h == job[t].host
           held == node[h].held
<1>1. h \in Hosts /\ held \in Tree /\ job[t].snap \in Tree /\ job[t].np \in PodIds
  BY SoleKnows DEF Sole, InReconcile, TypeOK, Types, Job
<1>2. node[h].up => job[t].snap[p] = held[p]
  <2>1. \/ job[t].want[p] # None /\ job[t].snap[p] # <<>> /\ Last(job[t].snap[p]) # job[t].want[p]
        \/ job[t].want[p] = None
    BY DEF Mistaken, Stray
  <2>2. \A e \in Entry : Last(<<e>>) = e
    BY DEF Last
  <2>3. job[t].want[p] # None => job[t].want[p] \in Entry
    BY HandlersTyped DEF Job
  <2> QED
    BY <2>1, <2>2, <2>3 DEF Sole, Remembers
<1>3. job[t].snap[p] # <<>>
  BY DEF Mistaken, Stray
<1>4. CASE held[p] # <<>>
  <2> DEFINE after == [held EXCEPT ![p] = Tail(@)]
             snap == [job[t].snap EXCEPT ![p] = left]
  <2>1. Tail(held[p]) \in Seq(Entry)
    BY <1>1, <1>4 DEF Tree
  <2>2. after \in Tree /\ snap \in Tree
    BY <1>1, <2>1 DEF Tree
  <2>3. Change(t, p, after, snap, next)
    BY <1>4 DEF Release
  <2>4. \A q \in Paths : /\ after[q] = IF q = p THEN Tail(held[p]) ELSE held[q]
                         /\ snap[q] = IF q = p THEN left ELSE job[t].snap[q]
    BY <1>1 DEF Tree
  <2> HIDE DEF after, snap
  <2>5. ASSUME NEW q \in Paths, node[h].up
        PROVE  \/ snap[q] = after[q]
               \/ next = "mount" /\ p = q
               \/ job[t].want[q] # None /\ snap[q] = <<job[t].want[q]>>
                  /\ Brought(after[q], job[t].want[q])
    <3>1. CASE q = p
      BY <1>2, <2>4, <2>5, <3>1
    <3>2. CASE q # p
      <4>1. \/ job[t].snap[q] = held[q]
            \/ job[t].want[q] # None /\ job[t].snap[q] = <<job[t].want[q]>>
               /\ Brought(held[q], job[t].want[q])
        BY <2>5 DEF Sole, Remembers
      <4> QED
        BY <2>4, <3>2, <4>1
    <3> QED
      BY <3>1, <3>2
  <2> QED
    BY <2>2, <2>3, <2>5, ChangeSole
<1>5. CASE held[p] = <<>>
  BY <1>1, <1>2, <1>3, <1>5, ErrSole DEF Release, Sole, Obeying, Answers
<1> QED
  BY <1>4, <1>5

\* What a machine should hold is what is sent to it, writable for it alone where it is
\* the only machine.
LEMMA DesiredAsks ==
    ASSUME TypeOK, NEW h \in Hosts, NEW p \in Paths
    PROVE  IF p \in Sent(h)
           THEN /\ Desired(h)[p] # None /\ Desired(h)[p].from = mounts[p]
                /\ SingleHost => Desired(h)[p].ro = (mounts[p] \in ReadOnly)
           ELSE Desired(h)[p] = None
<1>1. CASE p \notin Sent(h)
  BY <1>1 DEF Desired
<1>2. CASE p \in Sent(h)
  <2>1. mounts[p] \in Origins
    BY <1>2 DEF Sent, TypeOK, Types
  <2>2. \A b \in BOOLEAN : [from |-> mounts[p], ro |-> b] # None
    BY <2>1, ConstantsAssumption DEF Entry
  <2>3. SingleHost /\ p \in Claims(h) => ClaimFor(h)[p] = h
    BY DEF SingleHost, ClaimFor, TypeOK, Types
  <2>4. PICK b \in BOOLEAN :
          /\ Desired(h)[p] = [from |-> mounts[p], ro |-> b]
          /\ SingleHost => b = (mounts[p] \in ReadOnly)
    <3> DEFINE b == mounts[p] \in ReadOnly \/ (p \in Claims(h) /\ ClaimFor(h)[p] # h)
    <3>1. Desired(h)[p] = [from |-> mounts[p], ro |-> b]
      BY <1>2 DEF Desired
    <3>2. b \in BOOLEAN /\ (SingleHost => b = (mounts[p] \in ReadOnly))
      BY <2>3
    <3> HIDE DEF b
    <3> QED
      BY <3>1, <3>2
  <2> QED
    BY <1>2, <2>2, <2>4
<1> QED
  BY <1>1, <1>2

\* A machine with all that was asked for has the pod's tree.
LEMMA BroughtIsLike ==
    ASSUME NEW h \in Hosts, NEW want,
           \A p \in Paths :
               IF p \in Sent(h)
               THEN /\ want[p] # None /\ want[p].from = mounts[p]
                    /\ SingleHost => want[p].ro = (mounts[p] \in ReadOnly)
               ELSE want[p] = None,
           \A p \in Paths : IF want[p] = None THEN node[h].held[p] = <<>>
                                             ELSE Brought(node[h].held[p], want[p])
    PROVE  Like(h)
  BY DEF Like, SameTree, Brought, Sent

\* A step of the machines or of the links: no handler moves, and a machine is as it was
\* or has lost its pod.
LEMMA WorldMoves ==
    ASSUME TypeOK, NEW t \in Threads, Sole(t),
           UNCHANGED <<mounts, gen, writers, pods, pc, job>>,
           \A i \in PodIds : view'[i].gen = view[i].gen,
           \A h \in Hosts : node'[h] = node[h] \/ ~node'[h].up,
           Obeying(t)'
    PROVE  Sole(t)'
<1>1. Ordered(t)'
  BY DEF Sole, Ordered, Idle, Registered
<1>2. Claimed(t)'
  BY DEF Sole, Claimed
<1>3. Truthful(t)'
  <2>1. CASE pc[t] = "bind"
    BY <2>1 DEF Sole, Truthful, Converged, TypeOK, Types, PodRecord
  <2>2. CASE pc[t] # "bind"
    BY <2>2, TruthfulStays DEF Sole, Fresh, Changing
  <2> QED
    BY <2>1, <2>2
<1>4. Asked(t)'
  BY DEF Sole, Asked, Sent
<1>5. pc[t] \in InReconcile => job[t].host \in Hosts
  BY SoleKnows DEF Sole
<1>6. Remembers(t)' /\ Done(t)'
  BY <1>5 DEF Sole, Remembers, Done, InReconcile
<1>7. Untouched(t)'
  <2> DEFINE h == job[t].host
  <2>1. SUFFICES ASSUME ~Obeyed, pc[t] \in {"apply", "mount"}, Converged(h)', ~Fresh(t, h)'
                 PROVE  pc[t] = "apply" /\ job[t].snap = node[h].held /\ node'[h] = node[h]
    BY DEF Untouched
  <2>2. node'[h] = node[h] /\ pods[h] \in PodIds
    BY <1>5, <2>1 DEF Converged, InReconcile, TypeOK, Types
  <2>3. Converged(h) /\ ~Fresh(t, h)
    BY <2>1, <2>2 DEF Converged, Fresh
  <2> QED
    BY <2>1, <2>2, <2>3 DEF Sole, Untouched
<1> QED
  BY <1>1, <1>2, <1>3, <1>4, <1>6, <1>7 DEF Sole

\* What has just been mounted is what the node reports last.
LEMMA AppendBrings ==
    ASSUME NEW list \in Seq(Entry), NEW e \in Entry
    PROVE  Brought(Append(list, e), e)
  BY DEF Brought, Last

\* Every step keeps it.
LEMMA SoleStep ==
    ASSUME Calmly, TypeOK, TypeOK', Alone, [Next]_vars
    PROVE  Alone'
<1>1. ASSUME NEW t \in Threads, NEW p \in Paths, NEW o \in Origins, Sole(t), Mount(t, p, o)
      PROVE  Sole(t)'
  <2>1. /\ pc[t] = "idle" /\ pc'[t] = "bind"
        /\ job'[t].todo = {} /\ job'[t].ret = "none"
        /\ gen' = gen + 1 /\ pods' = pods /\ view' = view /\ writers' = writers
    BY <1>1, HandlersTyped DEF Sole, Ordered, Mount, Job, Goto, Idle, Finish, NoJob, daemon
  <2>2. Ordered(t)'
    BY <1>1, <2>1 DEF Sole, Ordered, Idle, Registered, InReconcile
  <2>3. Obeying(t)'
    BY <1>1, <2>1 DEF Obeying, InReconcile
  <2>4. Claimed(t)'
    BY <1>1, <2>1, ClaimedStays DEF Sole
  <2>5. Truthful(t)'
    BY <1>1, <2>1, ChangedBehind DEF Sole
  <2> QED
    BY <2>1, <2>2, <2>3, <2>4, <2>5, NotReconciling DEF Sole
<1>2. ASSUME NEW t \in Threads, Sole(t), Bound(t)
      PROVE  Sole(t)'
  <2>1. /\ pc[t] = "bind" /\ pc'[t] = "ok"
        /\ job'[t].todo = Registered /\ job'[t].ret = "all"
        /\ mounts' = mounts /\ gen' = gen /\ pods' = pods /\ writers' = writers
        /\ view' = view /\ node' = node /\ link' = link
    BY <1>2, HandlersTyped DEF Sole, Ordered, Bound, Job, Goto, Idle, Finish, NoJob, daemon
  <2>2. Ordered(t)'
    BY <1>2, <2>1 DEF Sole, Ordered, Idle, Registered, InReconcile
  <2>3. Obeying(t)'
    BY <1>2, <2>1 DEF Obeying, InReconcile
  <2>4. Claimed(t)'
    BY <1>2, <2>1, ClaimedStays DEF Sole
  <2>5. Truthful(t)'
    BY <1>2, <2>1, BindingBehind DEF Sole
  <2> QED
    BY <2>1, <2>2, <2>3, <2>4, <2>5, NotReconciling DEF Sole
<1>3. ASSUME NEW t \in Threads, Sole(t), BindFails(t)
      PROVE  Sole(t)'
  <2>1. /\ pc[t] = "bind" /\ pc'[t] = "idle"
        /\ job'[t] = NoJob
        /\ gen' = gen /\ pods' = pods /\ view' = view /\ writers' = writers
    BY <1>3, HandlersTyped DEF Sole, Ordered, BindFails, Job, Goto, Idle, Finish,
       NoJob, daemon
  <2>2. Ordered(t)'
    BY <1>3, <2>1 DEF Ordered, Idle, InReconcile, NoJob
  <2>3. Obeying(t)'
    BY <2>1 DEF Obeying, InReconcile, NoJob
  <2>4. Claimed(t)'
    BY <1>3, <2>1, ClaimedStays DEF Sole
  <2>5. Truthful(t)'
    BY <1>3, <2>1, BindingBehind DEF Sole
  <2> QED
    BY <2>1, <2>2, <2>3, <2>4, <2>5, NotReconciling DEF Sole
<1>4. ASSUME NEW t \in Threads, NEW hits \in SUBSET Paths, Sole(t), Unmount(t, hits)
      PROVE  Sole(t)'
  <2>1. /\ pc[t] = "idle" /\ pc'[t] = "unbind"
        /\ job'[t].todo = {} /\ job'[t].ret = "none" /\ job'[t].hits = hits
        /\ \A p \in hits : mounts[p] # None
        /\ mounts' = mounts /\ gen' = gen /\ pods' = pods /\ writers' = writers
        /\ view' = view /\ node' = node /\ link' = link
    BY <1>4, HandlersTyped DEF Sole, Ordered, Unmount, Job, Goto, Idle, Finish,
       NoJob, daemon
  <2>2. Ordered(t)'
    BY <1>4, <2>1 DEF Sole, Ordered, Idle, Registered, InReconcile
  <2>3. Obeying(t)'
    BY <1>4, <2>1 DEF Obeying, InReconcile
  <2>4. Claimed(t)'
    BY <1>4, <2>1, ClaimedStays DEF Sole
  <2>5. Truthful(t)'
    BY <1>4, <2>1, TruthfulStays DEF Sole, Fresh, Changing, InReconcile
  <2> QED
    BY <2>1, <2>2, <2>3, <2>4, <2>5, NotReconciling DEF Sole
<1>5. ASSUME NEW t \in Threads, NEW p \in Paths, Sole(t), Unbind(t, p)
      PROVE  Sole(t)'
  <2>1. /\ pc[t] = "unbind" /\ pc'[t] = "unbind"
        /\ job'[t].todo = job[t].todo /\ job'[t].ret = job[t].ret /\ job'[t].hits = job[t].hits \ {p}
        /\ mounts' = [mounts EXCEPT ![p] = None] /\ gen' = gen /\ pods' = pods /\ writers' = writers
        /\ view' = view /\ node' = node /\ link' = link
    BY <1>5, HandlersTyped DEF Sole, Ordered, Unbind, Job, Goto, Idle, Finish, NoJob, daemon
  <2>2. Ordered(t)'
    BY <1>5, <2>1, HandlersTyped DEF Sole, Ordered, Idle, Registered, InReconcile,
       TypeOK, Types, Job
  <2>3. Obeying(t)'
    BY <1>5, <2>1 DEF Sole, Obeying, Ordered, InReconcile
  <2>4. Claimed(t)'
    BY <1>5, <2>1, ClaimedStays DEF Sole
  <2>5. Truthful(t)'
    BY <1>5, <2>1 DEF Sole, Truthful
  <2> QED
    BY <2>1, <2>2, <2>3, <2>4, <2>5, NotReconciling DEF Sole
<1>6. ASSUME NEW t \in Threads, Sole(t), UnbindFails(t)
      PROVE  Sole(t)'
  <2>1. /\ pc[t] = "unbind" /\ pc'[t] = "idle" /\ job'[t] = NoJob
        /\ "unbind" \in FaultKinds
        /\ mounts' = mounts /\ gen' = gen /\ pods' = pods /\ writers' = writers
        /\ view' = view /\ node' = node /\ link' = link
    BY <1>6, HandlersTyped DEF Sole, Ordered, UnbindFails, Fault, Job, Goto, Idle,
       Finish, NoJob, daemon
  <2>2. Ordered(t)'
    BY <2>1 DEF Ordered, Idle, InReconcile, NoJob
  <2>3. Obeying(t)'
    BY <2>1 DEF Obeying, InReconcile, NoJob
  <2>4. Claimed(t)'
    BY <1>6, <2>1, ClaimedStays DEF Sole
  <2>5. Truthful(t)'
    BY <1>6, <2>1 DEF Sole, Truthful
  <2> QED
    BY <2>1, <2>2, <2>3, <2>4, <2>5, NotReconciling DEF Sole
<1>7. ASSUME NEW t \in Threads, Sole(t), Unmounted(t)
      PROVE  Sole(t)'
  <2>1. /\ pc[t] = "unbind" /\ pc'[t] = "ok"
        /\ job'[t].todo = Registered /\ job'[t].ret = "all"
        /\ gen' = gen + 1 /\ pods' = pods /\ view' = view /\ writers' = writers
    BY <1>7, HandlersTyped DEF Sole, Ordered, Unmounted, Job, Goto, Idle, Finish,
       NoJob, daemon
  <2>2. Ordered(t)'
    BY <1>7, <2>1 DEF Sole, Ordered, Idle, Registered, InReconcile
  <2>3. Obeying(t)'
    BY <1>7, <2>1 DEF Obeying, InReconcile
  <2>4. Claimed(t)'
    BY <1>7, <2>1, ClaimedStays DEF Sole
  <2>5. Truthful(t)'
    BY <1>7, <2>1, ChangedBehind DEF Sole
  <2> QED
    BY <2>1, <2>2, <2>3, <2>4, <2>5, NotReconciling DEF Sole
<1>8. ASSUME NEW t \in Threads, NEW np \in PodIds, Sole(t), NextPod(t, np)
      PROVE  Sole(t)'
  <2>1. /\ pc[t] \in {"ok", "err"} /\ pc'[t] = "want" /\ np \in job[t].todo
        /\ job'[t].todo = job[t].todo \ {np} /\ job'[t].ret = "all"
        /\ job'[t].np = np /\ job'[t].host = view[np].host /\ job[t].ret = "all"
        /\ mounts' = mounts /\ gen' = gen /\ pods' = pods /\ writers' = writers
        /\ view' = view /\ node' = node /\ link' = link
    BY <1>8, HandlersTyped DEF Sole, Ordered, NextPod, Job, Goto, Idle, Finish,
       NoJob, daemon
  <2>2. Ordered(t)'
    BY <1>8, <2>1, RegisteredIsItsOwn DEF Sole, Ordered, Idle, Registered, InReconcile
  <2>3. Obeying(t)'
    BY <1>8, <2>1 DEF Obeying, InReconcile
  <2>4. Claimed(t)'
    BY <1>8, <2>1, ClaimedStays DEF Sole
  <2>5. Truthful(t)'
    BY <1>8, <2>1, TruthfulStays DEF Sole, Fresh, Changing, InReconcile
  <2> QED
    BY <2>1, <2>2, <2>3, <2>4, <2>5, NotReconciling DEF Sole
<1>9. ASSUME NEW t \in Threads, Sole(t), Answered(t)
      PROVE  Sole(t)'
  <2>1. /\ pc[t] \in {"ok", "err"} /\ pc'[t] = "idle"
        /\ job'[t] = NoJob /\ job[t].ret \in {"all", "lease", "views"}
        /\ mounts' = mounts /\ gen' = gen /\ pods' = pods /\ writers' = writers
        /\ view' = view /\ node' = node /\ link' = link
    BY <1>9, HandlersTyped DEF Sole, Ordered, Answered, Job, Goto, Idle, Finish,
       NoJob, daemon
  <2>2. Ordered(t)'
    BY <1>9, <2>1 DEF Ordered, Idle, InReconcile, NoJob
  <2>3. Obeying(t)'
    BY <2>1 DEF Obeying, InReconcile, NoJob
  <2>4. Claimed(t)'
    BY <1>9, <2>1, ClaimedStays DEF Sole
  <2>5. Truthful(t)'
    BY <1>9, <2>1, TruthfulStays DEF Sole, Fresh, Changing, InReconcile
  <2> QED
    BY <2>1, <2>2, <2>3, <2>4, <2>5, NotReconciling DEF Sole
<1>10. ASSUME NEW t \in Threads, Sole(t), LeaseTick(t)
      PROVE  Sole(t)'
  <2>1. /\ pc[t] = "idle" /\ pc'[t] = "ok"
        /\ job'[t].todo = Registered /\ job'[t].ret = "lease"
        /\ mounts' = mounts /\ gen' = gen /\ pods' = pods /\ writers' = writers
        /\ view' = view /\ node' = node /\ link' = link
    BY <1>10, HandlersTyped DEF Sole, Ordered, LeaseTick, Job, Goto, Idle, Finish,
       NoJob, daemon
  <2>2. Ordered(t)'
    BY <1>10, <2>1 DEF Sole, Ordered, Idle, Registered, InReconcile
  <2>3. Obeying(t)'
    BY <1>10, <2>1 DEF Obeying, InReconcile
  <2>4. Claimed(t)'
    BY <1>10, <2>1, ClaimedStays DEF Sole
  <2>5. Truthful(t)'
    BY <1>10, <2>1, TruthfulStays DEF Sole, Fresh, Changing, InReconcile
  <2> QED
    BY <2>1, <2>2, <2>3, <2>4, <2>5, NotReconciling DEF Sole
<1>11. ASSUME NEW t \in Threads, Sole(t), Look(t)
      PROVE  Sole(t)'
  <2>1. /\ pc[t] = "idle" /\ pc'[t] = "ok"
        /\ job'[t].todo = Registered /\ job'[t].ret = "views"
        /\ mounts' = mounts /\ gen' = gen /\ pods' = pods /\ writers' = writers
        /\ view' = view /\ node' = node /\ link' = link
    BY <1>11, HandlersTyped DEF Sole, Ordered, Look, Job, Goto, Idle, Finish, NoJob, daemon
  <2>2. Ordered(t)'
    BY <1>11, <2>1 DEF Sole, Ordered, Idle, Registered, InReconcile
  <2>3. Obeying(t)'
    BY <1>11, <2>1 DEF Obeying, InReconcile
  <2>4. Claimed(t)'
    BY <1>11, <2>1, ClaimedStays DEF Sole
  <2>5. Truthful(t)'
    BY <1>11, <2>1, TruthfulStays DEF Sole, Fresh, Changing, InReconcile
  <2> QED
    BY <2>1, <2>2, <2>3, <2>4, <2>5, NotReconciling DEF Sole
<1>12. ASSUME NEW t \in Threads, NEW np \in PodIds, Sole(t), Renew(t, np)
      PROVE  Sole(t)'
  <2> DEFINE h == view[np].host
  <2>1. /\ pc[t] \in {"ok", "err"} /\ np \in job[t].todo /\ job[t].ret = "lease"
        /\ job'[t].todo = job[t].todo \ {np} /\ job'[t].ret = "lease"
        /\ job'[t].np = np /\ job'[t].host = h
        /\ pc'[t] \in {"ok", "want", "err"}
        /\ mounts' = mounts /\ gen' = gen /\ pods' = pods /\ writers' = writers
    BY <1>12, HandlersTyped DEF Renew, Goto, Job, daemon
  <2>2. h \in Hosts /\ pods[h] = np /\ np \in Registered
    BY <1>12, <2>1, RegisteredIsItsOwn DEF Sole, Ordered
  <2>3. node' = node
    BY <1>12, <2>2, AsksOnly DEF Renew
  <2>4. \A i \in PodIds : view'[i].gen = view[i].gen
    BY <1>12, MarkedOnly DEF Renew, Reached
  <2>5. Ordered(t)'
    BY <1>12, <2>1, <2>2 DEF Sole, Ordered, Idle, Registered, InReconcile
  <2>6. Obeying(t)'
    BY <2>1 DEF Obeying, InReconcile
  <2>7. Claimed(t)'
    BY <1>12, <2>1, ClaimedStays DEF Sole
  <2>8. Truthful(t)'
    BY <1>12, <2>1, <2>3, <2>4, TruthfulStays DEF Sole, Fresh, Changing
  <2> QED
    BY <2>1, <2>5, <2>6, <2>7, <2>8, NotReconciling DEF Sole
<1>13. ASSUME NEW t \in Threads, NEW np \in PodIds, Sole(t), LookAt(t, np)
      PROVE  Sole(t)'
  <2> DEFINE h == view[np].host
  <2>1. /\ pc[t] = "ok" /\ pc'[t] = "ok" /\ np \in job[t].todo /\ job[t].ret = "views"
        /\ job'[t].todo = job[t].todo \ {np} /\ job'[t].ret = "views"
        /\ mounts' = mounts /\ gen' = gen /\ pods' = pods /\ writers' = ClaimFor(h)
        /\ view' = view /\ node' = node /\ link' = link
    BY <1>13, HandlersTyped DEF LookAt, Job
  <2>2. h \in Hosts /\ pods[h] = np /\ np \in PodIds
    BY <1>13, <2>1, RegisteredIsItsOwn DEF Sole, Ordered
  <2>3. Ordered(t)'
    BY <1>13, <2>1 DEF Sole, Ordered, Idle, Registered, InReconcile
  <2>4. Obeying(t)'
    BY <2>1 DEF Obeying, InReconcile
  <2>5. Claimed(t)'
    BY <1>13, <2>1, <2>2, ConstantsAssumption DEF Sole, Claimed, ClaimFor
  <2>6. Truthful(t)'
    BY <1>13, <2>1, TruthfulStays DEF Sole, Fresh, Changing
  <2> QED
    BY <2>1, <2>3, <2>4, <2>5, <2>6, NotReconciling DEF Sole
<1>14. ASSUME NEW t \in Threads, NEW h \in Hosts, Sole(t), Add(t, h)
      PROVE  Sole(t)'
  <2>1. /\ pc[t] = "idle" /\ pc'[t] = "start"
        /\ job'[t].todo = {} /\ job'[t].ret = "none"
        /\ mounts' = mounts /\ gen' = gen /\ pods' = pods /\ writers' = writers
        /\ view' = view /\ node' = node /\ link' = link
    BY <1>14, HandlersTyped DEF Sole, Ordered, Add, Job, Goto, Idle, Finish, NoJob, daemon
  <2>2. Ordered(t)'
    BY <1>14, <2>1 DEF Sole, Ordered, Idle, Registered, InReconcile
  <2>3. Obeying(t)'
    BY <1>14, <2>1 DEF Obeying, InReconcile
  <2>4. Claimed(t)'
    BY <1>14, <2>1, ClaimedStays DEF Sole
  <2>5. Truthful(t)'
    BY <1>14, <2>1, TruthfulStays DEF Sole, Fresh, Changing, InReconcile
  <2> QED
    BY <2>1, <2>2, <2>3, <2>4, <2>5, NotReconciling DEF Sole
<1>15. ASSUME NEW t \in Threads, Sole(t), LockBuild(t)
      PROVE  Sole(t)'
  <2>1. /\ pc[t] = "lock" /\ pc'[t] = "start"
        /\ job' = job
        /\ mounts' = mounts /\ gen' = gen /\ pods' = pods /\ writers' = writers
        /\ view' = view /\ node' = node /\ link' = link
    BY <1>15, HandlersTyped DEF Sole, Ordered, LockBuild, Job, Goto, Idle, Finish,
       NoJob, daemon
  <2>2. Ordered(t)'
    BY <1>15, <2>1 DEF Sole, Ordered, Idle, Registered, InReconcile
  <2>3. Obeying(t)'
    BY <1>15, <2>1 DEF Sole, Obeying, InReconcile
  <2>4. Claimed(t)'
    BY <1>15, <2>1, ClaimedStays DEF Sole
  <2>5. Truthful(t)'
    BY <1>15, <2>1, TruthfulStays DEF Sole, Fresh, Changing, InReconcile
  <2> QED
    BY <2>1, <2>2, <2>3, <2>4, <2>5, NotReconciling DEF Sole
<1>16. ASSUME NEW t \in Threads, Sole(t), Start(t)
      PROVE  Sole(t)'
  <2>1. /\ pc[t] = "start" /\ pc'[t] \in {"started", "adopt", "failed"} /\ job' = job
        /\ pc'[t] = "adopt" => pods[job[t].host] = None /\ link[job[t].host]
        /\ mounts' = mounts /\ gen' = gen /\ pods' = pods /\ writers' = writers
        /\ view' = view /\ node' = node /\ link' = link
    BY <1>16, HandlersTyped DEF Start, Goto, daemon
  <2>2. Ordered(t)'
    BY <1>16, <2>1 DEF Sole, Ordered, Idle, Registered, InReconcile
  <2>3. Obeying(t)'
    BY <1>16, <2>1 DEF Sole, Obeying, InReconcile
  <2>4. Claimed(t)'
    BY <1>16, <2>1, ClaimedStays DEF Sole
  <2>5. Truthful(t)'
    BY <1>16, <2>1, TruthfulStays DEF Sole, Fresh, Changing, InReconcile
  <2> QED
    BY <2>1, <2>2, <2>3, <2>4, <2>5, NotReconciling DEF Sole
<1>17. ASSUME NEW t \in Threads, Sole(t), Adopt(t)
      PROVE  Sole(t)'
  <2> DEFINE h == job[t].host
  <2>1. /\ pc[t] = "adopt" /\ h \in Hosts /\ pods[h] = None /\ job[t].todo = {}
        /\ mounts' = mounts /\ gen' = gen /\ writers' = writers /\ link' = link
    BY <1>17, SoleKnows DEF Adopt, Sole, Ordered, InStartStop, InReconcile
  <2>2. node' = node
    BY <1>17, <2>1, AsksOnly DEF Adopt
  <2>3. CASE Request(h, TRUE, node[h].held) /\ Put(t, h, "adopted")
    <3>1. Answers(h)
      BY <2>1, <2>3, AsksOnly
    <3> QED
      BY <1>17, <2>1, <2>2, <2>3, <3>1, PutSole DEF Answers
  <2>4. CASE /\ Request(h, FALSE, node[h].held) /\ Goto(t, "spec")
             /\ UNCHANGED <<pods, view, job>>
    <3>1. pc'[t] = "spec"
      BY <2>4, HandlersTyped DEF Goto
    <3>2. Ordered(t)'
      BY <1>17, <2>1, <2>4, <3>1 DEF Sole, Ordered, Idle, Registered, InReconcile
    <3>3. Obeying(t)'
      <4>1. Obeyed => ~Answers(h)
        BY <2>1, <2>4, AsksOnly
      <4> QED
        BY <1>17, <2>1, <2>2, <2>4, <3>1, <4>1 DEF Sole, Obeying, InReconcile, Answers
    <3>4. Claimed(t)'
      BY <1>17, <2>1, <2>4, ClaimedStays DEF Sole
    <3>5. Truthful(t)'
      BY <1>17, <2>1, <2>2, <2>4, <3>1, TruthfulStays DEF Sole, Fresh, Changing, InReconcile
    <3> QED
      BY <3>1, <3>2, <3>3, <3>4, <3>5, NotReconciling DEF Sole
  <2> QED
    BY <1>17, <2>3, <2>4 DEF Adopt
<1>18. ASSUME NEW t \in Threads, Sole(t), PodSpec(t)
      PROVE  Sole(t)'
  <2> DEFINE h == job[t].host
  <2>1. /\ pc[t] = "spec" /\ pc'[t] = "build" /\ h \in Hosts
        /\ job'[t].host = h /\ job'[t].todo = job[t].todo /\ job'[t].ret = job[t].ret
        /\ mounts' = mounts /\ gen' = gen /\ pods' = pods /\ writers' = ClaimFor(h)
        /\ view' = view /\ node' = node /\ link' = link
    BY <1>18, SoleKnows, HandlersTyped DEF PodSpec, Sole, InStartStop, Job, Goto
  <2>2. Ordered(t)'
    BY <1>18, <2>1 DEF Sole, Ordered, Idle, Registered, InReconcile
  <2>3. Obeying(t)'
    BY <1>18, <2>1 DEF Sole, Obeying, InReconcile
  <2>4. Claimed(t)'
    BY <1>18, <2>1, ConstantsAssumption DEF Sole, Claimed, ClaimFor
  <2>5. Truthful(t)'
    BY <1>18, <2>1, TruthfulStays DEF Sole, Fresh, Changing, InReconcile
  <2> QED
    BY <2>1, <2>2, <2>3, <2>4, <2>5, NotReconciling DEF Sole
<1>19. ASSUME NEW t \in Threads, Sole(t), Build(t)
      PROVE  Sole(t)'
  <2> DEFINE h == job[t].host
  <2>1. /\ pc[t] = "build" /\ h \in Hosts /\ pods[h] = None /\ job[t].todo = {}
        /\ mounts' = mounts /\ gen' = gen /\ writers' = writers /\ link' = link
    BY <1>19, SoleKnows DEF Build, Sole, Ordered, InStartStop, InReconcile
  <2>2. \A g \in Hosts : g # h => node'[g] = node[g]
    BY <1>19, <2>1 DEF Build, TypeOK, Types
  <2>3. CASE link[h] /\ node'[h].up /\ Put(t, h, "built")
    BY <1>19, <2>1, <2>2, <2>3, PutSole DEF Answers
  <2>4. CASE Goto(t, "failed") /\ UNCHANGED <<pods, view, job>> /\ ~Obeyed
    <3>1. pc'[t] = "failed"
      BY <2>4, HandlersTyped DEF Goto
    <3>2. Ordered(t)'
      BY <1>19, <2>1, <2>4, <3>1 DEF Sole, Ordered, Idle, Registered, InReconcile
    <3>3. Obeying(t)'
      BY <2>4 DEF Obeying
    <3>4. Claimed(t)'
      BY <2>4 DEF Claimed
    <3>5. Truthful(t)'
      <4>1. \A g \in Hosts : node'[g] = node[g] \/ pods'[g] = None
        BY <2>1, <2>2, <2>4
      <4> QED
        BY <1>19, <2>1, <2>4, <3>1, <4>1, TruthfulStays DEF Sole, Fresh,
           Changing, InReconcile
    <3> QED
      BY <3>1, <3>2, <3>3, <3>4, <3>5, NotReconciling DEF Sole
  <2>5. (link[h] /\ ~node[h].up) \/ ~Obeyed
    BY <1>19, <2>1 DEF Sole, Obeying
  <2>6. \/ link[h] /\ node'[h].up /\ Put(t, h, "built")
        \/ Goto(t, "failed") /\ UNCHANGED <<pods, view, job>> /\ ~Obeyed
    BY <1>19, <2>1, <2>5 DEF Build, Fault, Obeyed, TypeOK, Types
  <2> QED
    BY <2>3, <2>4, <2>6
<1>20. ASSUME NEW t \in Threads, Sole(t), AdoptFails(t)
      PROVE  Sole(t)'
  <2>1. /\ pc[t] = "err" /\ pc'[t] = "failed" /\ job' = job /\ job[t].host \in Hosts
        /\ mounts' = mounts /\ gen' = gen /\ view' = view /\ node' = node
        /\ pods' = [pods EXCEPT ![job[t].host] = None] /\ job[t].ret = "adopted"
    BY <1>20, SoleKnows, HandlersTyped DEF AdoptFails, Sole, Goto
  <2>2. ~Obeyed
    BY <1>20, <2>1 DEF Sole, Obeying
  <2>3. Ordered(t)'
    BY <1>20, <2>1, SoleKnows DEF Sole, Ordered, Idle, InReconcile
  <2>4. Obeying(t)' /\ Claimed(t)'
    BY <2>2 DEF Obeying, Claimed
  <2>5. Truthful(t)'
    <3>1. \A g \in Hosts : pods'[g] = IF g = job[t].host THEN None ELSE pods[g]
      BY <2>1 DEF TypeOK, Types
    <3> QED
      BY <1>20, <2>1, <2>2, <3>1, TruthfulStays DEF Sole, Fresh, Changing, InReconcile
  <2> QED
    BY <2>1, <2>3, <2>4, <2>5, NotReconciling DEF Sole
<1>21. ASSUME NEW t \in Threads, Sole(t), BuildFails(t)
      PROVE  Sole(t)'
  <2>1. /\ pc[t] = "err" /\ pc'[t] = "stop" /\ job' = job /\ job[t].ret = "built"
        /\ mounts' = mounts /\ gen' = gen /\ view' = view /\ node' = node /\ pods' = pods
    BY <1>21, HandlersTyped DEF BuildFails, Goto, daemon
  <2>2. ~Obeyed
    BY <1>21, <2>1 DEF Sole, Obeying
  <2>3. Ordered(t)'
    BY <1>21, <2>1 DEF Sole, Ordered, Idle, Registered, InReconcile
  <2>4. Obeying(t)' /\ Claimed(t)'
    BY <2>2 DEF Obeying, Claimed
  <2>5. Truthful(t)'
    BY <1>21, <2>1, <2>2, TruthfulStays DEF Sole, Fresh, Changing, InReconcile
  <2> QED
    BY <2>1, <2>3, <2>4, <2>5, NotReconciling DEF Sole
<1>22. ASSUME NEW t \in Threads, Sole(t), Reconciled(t)
      PROVE  Sole(t)'
  <2>1. /\ pc[t] = "ok" /\ pc'[t] = "started" /\ job' = job
        /\ job[t].ret \in {"adopted", "built"}
        /\ mounts' = mounts /\ gen' = gen /\ pods' = pods /\ writers' = writers
        /\ view' = view /\ node' = node /\ link' = link
    BY <1>22, HandlersTyped DEF Sole, Ordered, Reconciled, Job, Goto, Idle, Finish,
       NoJob, daemon
  <2>2. Ordered(t)'
    BY <1>22, <2>1 DEF Sole, Ordered, Idle, Registered, InReconcile
  <2>3. Obeying(t)'
    BY <1>22, <2>1 DEF Sole, Obeying, InReconcile
  <2>4. Claimed(t)'
    BY <1>22, <2>1, ClaimedStays DEF Sole
  <2>5. Truthful(t)'
    BY <1>22, <2>1, TruthfulStays DEF Sole, Fresh, Changing, InReconcile
  <2> QED
    BY <2>1, <2>2, <2>3, <2>4, <2>5, NotReconciling DEF Sole
<1>23. ASSUME NEW t \in Threads, Sole(t), Started(t)
      PROVE  Sole(t)'
  <2>1. /\ pc[t] = "started" /\ job[t].host \in Hosts /\ job[t].todo = {}
        /\ mounts' = mounts /\ gen' = gen /\ pods' = pods /\ writers' = writers
        /\ view' = view /\ node' = node /\ link' = link
        /\ \/ pc'[t] = "idle" /\ job'[t] = NoJob
           \/ /\ pc'[t] = "holds" /\ job'[t].host = job[t].host
              /\ job'[t].np = pods[job[t].host]
              /\ job'[t].todo = {} /\ job'[t].ret = job[t].ret
    <3>1. pc[t] = "started" /\ job[t].host \in Hosts /\ job[t].todo = {}
      BY <1>23, SoleKnows DEF Started, Sole, InStartStop, InReconcile
    <3>2. /\ mounts' = mounts /\ gen' = gen /\ pods' = pods /\ writers' = writers
          /\ view' = view /\ node' = node /\ link' = link
      BY <1>23 DEF Started
    <3>3. CASE job[t].at # None /\ pods[job[t].host] # None
      BY <1>23, <3>1, <3>2, <3>3, HandlersTyped DEF Started, Goto, Job
    <3>4. CASE ~(job[t].at # None /\ pods[job[t].host] # None)
      BY <1>23, <3>1, <3>2, <3>4, HandlersTyped DEF Started, Finish, Goto
    <3> QED
      BY <3>3, <3>4
  <2>2. Ordered(t)'
    BY <1>23, <2>1 DEF Sole, Ordered, Idle, Registered, InReconcile, NoJob
  <2>3. Obeying(t)'
    BY <1>23, <2>1 DEF Obeying, InReconcile, NoJob
  <2>4. Claimed(t)'
    BY <1>23, <2>1, ClaimedStays DEF Sole
  <2>5. Truthful(t)'
    BY <1>23, <2>1, TruthfulStays DEF Sole, Fresh, Changing, InReconcile
  <2> QED
    BY <2>1, <2>2, <2>3, <2>4, <2>5, NotReconciling DEF Sole
<1>24. ASSUME NEW t \in Threads, Sole(t), StartFails(t)
      PROVE  Sole(t)'
  <2>1. /\ pc[t] = "failed" /\ pc'[t] = "idle"
        /\ job'[t] = NoJob
        /\ mounts' = mounts /\ gen' = gen /\ pods' = pods /\ writers' = writers
        /\ view' = view /\ node' = node /\ link' = link
    BY <1>24, HandlersTyped DEF Sole, Ordered, StartFails, Job, Goto, Idle, Finish,
       NoJob, daemon
  <2>2. Ordered(t)'
    BY <1>24, <2>1 DEF Ordered, Idle, InReconcile, NoJob
  <2>3. Obeying(t)'
    BY <2>1 DEF Obeying, InReconcile, NoJob
  <2>4. Claimed(t)'
    BY <1>24, <2>1, ClaimedStays DEF Sole
  <2>5. Truthful(t)'
    BY <1>24, <2>1, TruthfulStays DEF Sole, Fresh, Changing, InReconcile
  <2> QED
    BY <2>1, <2>2, <2>3, <2>4, <2>5, NotReconciling DEF Sole
<1>25. ASSUME NEW t \in Threads, NEW h \in Hosts, Sole(t), Drop(t, h)
      PROVE  Sole(t)'
  <2>1. /\ pc[t] = "idle" /\ pc'[t] = "stop"
        /\ job'[t].todo = {} /\ job'[t].ret = "drop" /\ job'[t].host = h /\ pods[h] # None
        /\ mounts' = mounts /\ gen' = gen /\ pods' = pods /\ writers' = writers
        /\ view' = view /\ node' = node /\ link' = link
    BY <1>25, HandlersTyped DEF Sole, Ordered, Drop, Job, Goto, Idle, Finish, NoJob, daemon
  <2>2. Ordered(t)'
    BY <1>25, <2>1 DEF Sole, Ordered, Idle, Registered, InReconcile
  <2>3. Obeying(t)'
    BY <1>25, <2>1 DEF Obeying, InReconcile
  <2>4. Claimed(t)'
    BY <1>25, <2>1, ClaimedStays DEF Sole
  <2>5. Truthful(t)'
    BY <1>25, <2>1, TruthfulStays DEF Sole, Fresh, Changing, InReconcile
  <2> QED
    BY <2>1, <2>2, <2>3, <2>4, <2>5, NotReconciling DEF Sole
<1>26. ASSUME NEW t \in Threads, Sole(t), Stop(t)
      PROVE  Sole(t)'
  <2> DEFINE h == job[t].host
  <2>1. /\ pc[t] = "stop" /\ job' = job /\ h \in Hosts /\ job[t].todo = {}
        /\ mounts' = mounts /\ gen' = gen /\ view' = view /\ node' = node
        /\ writers' = writers
        /\ \/ pods[h] = None /\ pc'[t] = "failed" /\ pods' = pods
           \/ pods[h] # None /\ pc'[t] = "disown" /\ pods' = [pods EXCEPT ![h] = None]
    BY <1>26, SoleKnows, HandlersTyped DEF Stop, AfterStop, Sole, Goto, InStartStop,
       InReconcile
  <2>2. \A g \in Hosts : g # h => pods'[g] = pods[g]
    BY <2>1 DEF TypeOK, Types
  <2>3. pods'[h] = None
    BY <2>1 DEF TypeOK, Types
  <2>4. Ordered(t)'
    BY <1>26, <2>1 DEF Sole, Ordered, Idle, InReconcile
  <2>5. Obeying(t)'
    BY <1>26, <2>1 DEF Sole, Obeying, InReconcile
  <2>6. Claimed(t)'
    BY <1>26, <2>1, <2>2 DEF Sole, Obeying, Claimed, TypeOK, Types
  <2>7. Truthful(t)'
    BY <1>26, <2>1, <2>2, <2>3, TruthfulStays DEF Sole, Fresh, Changing, InReconcile
  <2> QED
    BY <2>1, <2>4, <2>5, <2>6, <2>7, NotReconciling DEF Sole
<1>27. ASSUME NEW t \in Threads, Sole(t), Disown(t)
      PROVE  Sole(t)'
  <2>1. /\ pc[t] = "disown" /\ pc'[t] = "nodedown" /\ job' = job
        /\ writers' = [p \in Paths |-> IF writers[p] = job[t].host THEN None ELSE writers[p]]
        /\ mounts' = mounts /\ gen' = gen /\ pods' = pods
        /\ view' = view /\ node' = node /\ link' = link
    BY <1>27, HandlersTyped DEF Sole, Ordered, Disown, Job, Goto, Idle, Finish,
       NoJob, daemon
  <2>2. Ordered(t)'
    BY <1>27, <2>1 DEF Sole, Ordered, Idle, Registered, InReconcile
  <2>3. Obeying(t)'
    BY <1>27, <2>1 DEF Sole, Obeying, InReconcile
  <2>4. Claimed(t)'
    BY <1>27, <2>1 DEF Sole, Claimed
  <2>5. Truthful(t)'
    BY <1>27, <2>1, TruthfulStays DEF Sole, Fresh, Changing, InReconcile
  <2> QED
    BY <2>1, <2>2, <2>3, <2>4, <2>5, NotReconciling DEF Sole
<1>28. ASSUME NEW t \in Threads, Sole(t), NodeDown(t)
      PROVE  Sole(t)'
  <2> DEFINE h == job[t].host
  <2>1. /\ pc[t] = "nodedown" /\ pc'[t] = "failed" /\ job' = job /\ h \in Hosts
        /\ mounts' = mounts /\ gen' = gen /\ view' = view /\ pods' = pods
        /\ writers' = writers /\ link' = link
        /\ node' \in {node, [node EXCEPT ![h] = [up |-> FALSE, held |-> NoTree]]}
    BY <1>28, SoleKnows, HandlersTyped DEF NodeDown, AfterStop, Sole, Goto,
       InStartStop, daemon
  <2>2. \A g \in Hosts : node'[g] = node[g] \/ ~node'[g].up
    BY <2>1 DEF TypeOK, Types
  <2>3. Ordered(t)'
    BY <1>28, <2>1 DEF Sole, Ordered, Idle, Registered, InReconcile
  <2>4. Obeying(t)'
    BY <1>28, <2>1 DEF Sole, Obeying, InReconcile
  <2>5. Claimed(t)'
    BY <1>28, <2>1, ClaimedStays DEF Sole
  <2>6. Truthful(t)'
    BY <1>28, <2>1, <2>2, TruthfulStays DEF Sole, Fresh, Changing, InReconcile
  <2> QED
    BY <2>1, <2>3, <2>4, <2>5, <2>6, NotReconciling DEF Sole
<1>29. ASSUME NEW t \in Threads, NEW h \in Hosts, NEW p \in Paths, Sole(t), Dispatch(t,
             h, p)
      PROVE  Sole(t)'
  <2>1. /\ pc[t] = "idle" /\ pc'[t] \in {"holds", "lock"}
        /\ job'[t].todo = {} /\ job'[t].ret = "none"
        /\ job'[t].host = h /\ job'[t].np = pods[h]
        /\ mounts' = mounts /\ gen' = gen /\ pods' = pods /\ writers' = writers
        /\ view' = view /\ node' = node /\ link' = link
    BY <1>29, HandlersTyped DEF Sole, Ordered, Dispatch, Job, Goto, Idle, Finish,
       NoJob, daemon
  <2>2. Ordered(t)'
    BY <1>29, <2>1 DEF Sole, Ordered, Idle, Registered, InReconcile
  <2>3. Obeying(t)'
    BY <1>29, <2>1 DEF Obeying, InReconcile
  <2>4. Claimed(t)'
    BY <1>29, <2>1, ClaimedStays DEF Sole
  <2>5. Truthful(t)'
    BY <1>29, <2>1, TruthfulStays DEF Sole, Fresh, Changing, InReconcile
  <2> QED
    BY <2>1, <2>2, <2>3, <2>4, <2>5, NotReconciling DEF Sole
<1>30. ASSUME NEW t \in Threads, Sole(t), Guard(t)
      PROVE  Sole(t)'
  <2> DEFINE np == job[t].np
  <2>1. /\ pc[t] = "holds" /\ np \in PodIds /\ pods[job[t].host] = np /\ job[t].todo = {}
        /\ view[np].host = job[t].host /\ job[t].host \in Hosts
        /\ mounts' = mounts /\ gen' = gen /\ pods' = pods /\ writers' = writers
        /\ view' = view /\ node' = node /\ link' = link
    <3>1. pc[t] = "holds" /\ np \in PodIds /\ pods[job[t].host] = np /\ job[t].host \in Hosts
      BY <1>30 DEF Guard, Sole, Ordered, TypeOK, HandlersKnow, Knows
    <3> QED
      BY <1>30, <3>1, SoleKnows, ConstantsAssumption DEF Guard, Sole, InReconcile,
         daemon, TypeOK, RecordsInUse
  <2>2. \/ pc'[t] = "run" /\ job' = job
        \/ pc'[t] = "idle" /\ job'[t] = NoJob
        \/ /\ pc'[t] = "want" /\ job'[t].np = np /\ job'[t].host = job[t].host
           /\ job'[t].ret = "recheck" /\ job'[t].todo = {}
    BY <1>30, <2>1, HandlersTyped DEF Guard, Reconcile, Finish, Goto, Job
  <2>3. Ordered(t)'
    BY <1>30, <2>1, <2>2 DEF Sole, Ordered, Idle, Registered, InReconcile, NoJob
  <2>4. Obeying(t)'
    BY <1>30, <2>1, <2>2 DEF Sole, Obeying, InReconcile, NoJob
  <2>5. Claimed(t)'
    BY <1>30, <2>1, ClaimedStays DEF Sole
  <2>6. Truthful(t)'
    BY <1>30, <2>1, <2>2, TruthfulStays DEF Sole, Fresh, Changing, InReconcile
  <2> QED
    BY <2>2, <2>3, <2>4, <2>5, <2>6, NotReconciling DEF Sole
<1>31. ASSUME NEW t \in Threads, Sole(t), Recheck(t)
      PROVE  Sole(t)'
  <2>1. /\ pc[t] \in {"ok", "err"} /\ job[t].ret = "recheck"
        /\ \/ pc'[t] = "run" /\ job' = job
           \/ pc'[t] = "idle" /\ job'[t] = NoJob
        /\ mounts' = mounts /\ gen' = gen /\ pods' = pods /\ writers' = writers
        /\ view' = view /\ node' = node /\ link' = link
    BY <1>31, HandlersTyped DEF Sole, Ordered, Recheck, Job, Goto, Idle, Finish,
       NoJob, daemon
  <2>2. Ordered(t)'
    BY <1>31, <2>1 DEF Sole, Ordered, Idle, Registered, InReconcile, NoJob
  <2>3. Obeying(t)'
    BY <2>1 DEF Obeying, InReconcile, NoJob
  <2>4. Claimed(t)'
    BY <1>31, <2>1, ClaimedStays DEF Sole
  <2>5. Truthful(t)'
    BY <1>31, <2>1, TruthfulStays DEF Sole, Fresh, Changing, InReconcile
  <2> QED
    BY <2>1, <2>2, <2>3, <2>4, <2>5, NotReconciling DEF Sole
<1>32. ASSUME NEW t \in Threads, Sole(t), Run(t)
      PROVE  Sole(t)'
  <2>1. /\ pc[t] = "run" /\ pc'[t] = "idle"
        /\ job'[t] = NoJob
        /\ mounts' = mounts /\ gen' = gen /\ pods' = pods /\ writers' = writers
        /\ view' = view /\ node' = node /\ link' = link
    BY <1>32, HandlersTyped DEF Sole, Ordered, Run, Job, Goto, Idle, Finish, NoJob, daemon
  <2>2. Ordered(t)'
    BY <1>32, <2>1 DEF Ordered, Idle, InReconcile, NoJob
  <2>3. Obeying(t)'
    BY <2>1 DEF Obeying, InReconcile, NoJob
  <2>4. Claimed(t)'
    BY <1>32, <2>1, ClaimedStays DEF Sole
  <2>5. Truthful(t)'
    BY <1>32, <2>1, TruthfulStays DEF Sole, Fresh, Changing, InReconcile
  <2> QED
    BY <2>1, <2>2, <2>3, <2>4, <2>5, NotReconciling DEF Sole
<1>33. ASSUME NEW t \in Threads, Sole(t), Want(t)
      PROVE  Sole(t)'
  <2> DEFINE h == job[t].host
  <2>1. /\ pc[t] = "want" /\ pc'[t] = "held" /\ h \in Hosts /\ pods[h] # None
        /\ job'[t].host = h /\ job'[t].ret = job[t].ret /\ job'[t].todo = job[t].todo
        /\ job'[t].np = job[t].np /\ job'[t].want = Desired(h)
        /\ mounts' = mounts /\ gen' = gen /\ pods' = pods /\ writers' = ClaimFor(h)
        /\ view' = view /\ node' = node /\ link' = link
    BY <1>33, SoleKnows, HandlersTyped DEF Want, Sole, InReconcile, Job, Goto
  <2>2. Ordered(t)'
    BY <1>33, <2>1 DEF Sole, Ordered, Idle, Registered, InReconcile
  <2>3. Obeying(t)'
    BY <1>33, <2>1 DEF Sole, Obeying, Answers, InReconcile
  <2>4. Claimed(t)'
    BY <1>33, <2>1, ConstantsAssumption DEF Sole, Claimed, ClaimFor
  <2>5. Truthful(t)'
    BY <1>33, <2>1, TruthfulStays DEF Sole, Fresh, Changing, InReconcile
  <2>6. Asked(t)'
    BY <2>1, DesiredAsks DEF Asked, Sent
  <2>7. Remembers(t)' /\ Done(t)' /\ Untouched(t)'
    BY <2>1 DEF Remembers, Done, Untouched
  <2> QED
    BY <2>2, <2>3, <2>4, <2>5, <2>6, <2>7 DEF Sole
<1>34. ASSUME NEW t \in Threads, Sole(t), AskHeld(t)
      PROVE  Sole(t)'
  <2> DEFINE h == job[t].host
  <2>1. /\ pc[t] = "held" /\ h \in Hosts /\ job[t].np \in PodIds
        /\ pods[h] = job[t].np /\ UNCHANGED <<daemon, link>>
    BY <1>34, SoleKnows DEF AskHeld, Sole, InReconcile
  <2>2. node' = node
    BY <1>34, <2>1, AsksOnly DEF AskHeld
  <2>3. \A i \in PodIds : view'[i].gen = view[i].gen
    BY <1>34, <2>1, MarkedOnly DEF AskHeld, Reached
  <2>4. CASE Request(h, FALSE, node[h].held) /\ Return(t, "err")
    <3>1. Obeyed => job[t].ret \notin {"adopted", "built"}
      BY <1>34, <2>1, <2>4, AsksOnly DEF Sole, Obeying, InReconcile
    <3> QED
      BY <1>34, <2>1, <2>2, <2>3, <2>4, <3>1, ErrSole
  <2>5. CASE /\ Request(h, TRUE, node[h].held) /\ Goto(t, "apply")
             /\ job' = [job EXCEPT ![t].snap = node[h].held]
    <3>1. /\ pc'[t] = "apply" /\ job'[t].host = h /\ job'[t].ret = job[t].ret
          /\ job'[t].todo = job[t].todo /\ job'[t].np = job[t].np
          /\ job'[t].want = job[t].want /\ job'[t].snap = node[h].held
      BY <2>5, HandlersTyped DEF Goto, Job
    <3>2. mounts' = mounts /\ gen' = gen /\ pods' = pods /\ writers' = writers /\ link' = link
      BY <2>1 DEF daemon
    <3>3. Answers(h)
      BY <2>1, <2>5, AsksOnly
    <3>4. Ordered(t)'
      BY <1>34, <2>1, <3>1, <3>2 DEF Sole, Ordered, Idle, Registered, InReconcile
    <3>5. Obeying(t)'
      BY <2>2, <3>1, <3>2, <3>3 DEF Obeying, Answers, InReconcile
    <3>6. Claimed(t)'
      BY <1>34, <2>1, <3>2, ClaimedStays DEF Sole
    <3>7. Truthful(t)'
      BY <1>34, <2>1, <2>2, <2>3, <3>1, <3>2, TruthfulStays DEF Sole, Fresh,
         Changing, InReconcile
    <3>8. Asked(t)'
      BY <1>34, <2>1, <3>1, <3>2 DEF Sole, Asked, Sent
    <3>9. Remembers(t)' /\ Done(t)' /\ Untouched(t)'
      BY <2>2, <3>1 DEF Remembers, Done, Untouched
    <3> QED
      BY <3>4, <3>5, <3>6, <3>7, <3>8, <3>9 DEF Sole
  <2> QED
    BY <1>34, <2>4, <2>5 DEF AskHeld
<1>35. ASSUME NEW t \in Threads, Sole(t), NEW p \in Paths, ReleaseOld(t, p)
      PROVE  Sole(t)'
  <2>1. /\ pc[t] = "apply" /\ p \in Mistaken(t) /\ Release(t, p, <<>>, "mount")
        /\ UNCHANGED <<daemon, link>> /\ <<>> \in Seq(Entry)
    BY <1>35 DEF ReleaseOld
  <2> QED
    BY <1>35, <2>1, ReleaseSole
<1>36. ASSUME NEW t \in Threads, Sole(t), NEW p \in Paths, ReleaseStray(t, p)
      PROVE  Sole(t)'
  <2>1. /\ pc[t] = "apply" /\ p \in Stray(t)
        /\ Release(t, p, Tail(job[t].snap[p]), "apply") /\ UNCHANGED <<daemon, link>>
    BY <1>36 DEF ReleaseStray
  <2>2. Tail(job[t].snap[p]) \in Seq(Entry)
    BY <2>1 DEF Stray, TypeOK, Types, Job, Tree
  <2> QED
    BY <1>36, <2>1, <2>2, ReleaseSole
<1>37. ASSUME NEW t \in Threads, Sole(t), NEW p \in Paths, TakeMount(t, p)
      PROVE  Sole(t)'
  <2> DEFINE e == job[t].want[p]
             held == node[job[t].host].held
             after == [held EXCEPT ![p] = Append(@, e)]
             snap == [job[t].snap EXCEPT ![p] = <<e>>]
  <2>1. /\ pc[t] \in {"apply", "mount"} /\ UNCHANGED <<daemon, link>>
        /\ Change(t, p, after, snap, "apply")
        /\ \/ pc[t] = "apply" /\ p \in Missing(t)
           \/ pc[t] = "mount" /\ p = job[t].cur
    BY <1>37 DEF TakeMount, Take
  <2>2. e # None
    BY <2>1 DEF Missing, TypeOK, HandlersKnow, Knows
  <2>3. e \in Entry /\ held \in Tree /\ job[t].snap \in Tree
    BY <1>37, <2>1, <2>2, SoleKnows, HandlersTyped DEF Sole, InReconcile, Job, TypeOK, Types
  <2>4. after \in Tree /\ snap \in Tree
    BY <2>3 DEF Tree
  <2>5. \A q \in Paths : /\ after[q] = IF q = p THEN Append(held[p], e) ELSE held[q]
                         /\ snap[q] = IF q = p THEN <<e>> ELSE job[t].snap[q]
    BY <2>3 DEF Tree
  <2>6. Brought(Append(held[p], e), e)
    BY <2>3, AppendBrings DEF Tree
  <2>7. ASSUME NEW q \in Paths, node[job[t].host].up
        PROVE  \/ snap[q] = after[q]
               \/ job[t].want[q] # None /\ snap[q] = <<job[t].want[q]>>
                  /\ Brought(after[q], job[t].want[q])
    <3>1. CASE q = p
      BY <2>2, <2>5, <2>6, <3>1
    <3>2. CASE q # p
      <4>1. \/ job[t].snap[q] = held[q]
            \/ job[t].want[q] # None /\ job[t].snap[q] = <<job[t].want[q]>>
               /\ Brought(held[q], job[t].want[q])
        BY <1>37, <2>1, <2>7, <3>2 DEF Sole, Remembers, Missing
      <4> QED
        BY <2>5, <3>2, <4>1
    <3> QED
      BY <3>1, <3>2
  <2> HIDE DEF after, snap
  <2> QED
    BY <1>37, <2>1, <2>4, <2>7, ChangeSole
<1>38. ASSUME NEW t \in Threads, Sole(t), AskFinal(t)
      PROVE  Sole(t)'
  <2> DEFINE h == job[t].host
             held == node[h].held
  <2>1. /\ pc[t] = "apply" /\ h \in Hosts /\ job[t].np \in PodIds
        /\ pods[h] = job[t].np /\ UNCHANGED <<daemon, link>>
        /\ Missing(t) = {} /\ Mistaken(t) = {} /\ Stray(t) = {}
    BY <1>38, SoleKnows DEF AskFinal, Sole, InReconcile
  <2>2. node' = node
    BY <1>38, <2>1, AsksOnly DEF AskFinal
  <2>3. \A i \in PodIds : view'[i].gen = view[i].gen
    BY <1>38, <2>1, MarkedOnly DEF AskFinal, Reached
  <2>4. CASE Request(h, FALSE, node[h].held) /\ Return(t, "err")
    <3>1. ~Obeyed
      BY <1>38, <2>1, <2>4, AsksOnly DEF Sole, Obeying
    <3> QED
      BY <1>38, <2>1, <2>2, <2>3, <2>4, <3>1, ErrSole
  <2>5. CASE /\ Request(h, TRUE, node[h].held) /\ Goto(t, "record")
             /\ job' = [job EXCEPT ![t].snap = node[h].held]
    <3>1. /\ pc'[t] = "record" /\ job'[t].host = h /\ job'[t].ret = job[t].ret
          /\ job'[t].todo = job[t].todo /\ job'[t].np = job[t].np
          /\ job'[t].want = job[t].want
      BY <2>5, HandlersTyped DEF Goto, Job
    <3>2. mounts' = mounts /\ gen' = gen /\ pods' = pods /\ writers' = writers /\ link' = link
      BY <2>1 DEF daemon
    <3>3. Answers(h)
      BY <2>1, <2>5, AsksOnly
    <3>4. ASSUME NEW p \in Paths
          PROVE  IF job[t].want[p] = None THEN held[p] = <<>>
                                          ELSE Brought(held[p], job[t].want[p])
      <4>1. \/ job[t].snap[p] = held[p]
            \/ job[t].want[p] # None /\ Brought(held[p], job[t].want[p])
        BY <1>38, <2>1, <3>3 DEF Sole, Remembers, Answers
      <4>2. IF job[t].want[p] = None THEN job[t].snap[p] = <<>>
                                     ELSE Brought(job[t].snap[p], job[t].want[p])
        BY <2>1 DEF Missing, Mistaken, Stray, Brought
      <4> QED
        BY <4>1, <4>2
    <3>5. Ordered(t)'
      BY <1>38, <2>1, <3>1, <3>2 DEF Sole, Ordered, Idle, Registered, InReconcile
    <3>6. Obeying(t)'
      BY <2>2, <3>1, <3>2, <3>3 DEF Obeying, Answers, InReconcile
    <3>7. Claimed(t)'
      BY <1>38, <2>1, <3>2, ClaimedStays DEF Sole
    <3>8. Truthful(t)'
      <4>1. Like(h)
        BY <1>38, <2>1, <3>4, BroughtIsLike DEF Sole, Asked
      <4>2. ASSUME NEW g \in Hosts, Converged(g)', ~Fresh(t, g)', "unbind" \notin FaultKinds
            PROVE  Like(g)'
        <5>1. pods'[g] = pods[g] /\ pods[g] \in PodIds
          BY <3>2, <4>2 DEF Converged, TypeOK, Types
        <5>2. Converged(g) /\ ~Fresh(t, g)
          BY <2>1, <2>2, <2>3, <3>1, <3>2, <4>2, <5>1 DEF Converged, Fresh, InReconcile
        <5>3. Like(g)
          BY <1>38, <2>1, <4>1, <4>2, <5>2 DEF Sole, Truthful, Changing
        <5> QED
          BY <2>2, <3>2, <5>3 DEF Like, SameTree, Sent
      <4> QED
        BY <1>38, <2>3, <3>1, <3>2, <4>2 DEF Sole, Truthful
    <3>9. Asked(t)'
      BY <1>38, <2>1, <3>1, <3>2 DEF Sole, Asked, Sent
    <3>10. Remembers(t)' /\ Done(t)' /\ Untouched(t)'
      BY <2>2, <3>1, <3>4 DEF Remembers, Done, Untouched
    <3> QED
      BY <3>5, <3>6, <3>7, <3>8, <3>9, <3>10 DEF Sole
  <2> QED
    BY <1>38, <2>4, <2>5 DEF AskFinal
<1>39. ASSUME NEW t \in Threads, Sole(t), Record(t)
      PROVE  Sole(t)'
  <2> DEFINE h == job[t].host
             np == job[t].np
  <2>1. /\ pc[t] = "record" /\ h \in Hosts /\ np \in PodIds
        /\ pods[h] = np /\ pods[h] # None /\ view[np].host = h
        /\ UNCHANGED <<daemon, link, node>>
    BY <1>39, SoleKnows DEF Record, Sole, InReconcile
  <2>2. /\ pc'[t] = "ok" /\ job'[t].host = h /\ job'[t].ret = job[t].ret
        /\ job'[t].todo = job[t].todo
    BY <1>39, HandlersTyped DEF Record, Return, Goto, Job
  <2>3. mounts' = mounts /\ gen' = gen /\ pods' = pods /\ writers' = writers
    BY <2>1 DEF daemon
  <2>4. \A i \in PodIds : view'[i].gen = IF i = np THEN gen ELSE view[i].gen
    <3>1. view' = [view EXCEPT ![np] = [view[np] EXCEPT !.held = job[t].snap,
                                            !.gen = gen, !.reachable = TRUE]]
      BY <1>39, <2>1 DEF Record, TypeOK, Types
    <3>2. [view[np] EXCEPT !.held = job[t].snap, !.gen = gen, !.reachable = TRUE].gen = gen
      BY <2>1 DEF TypeOK, Types, PodRecord
    <3> QED
      BY <3>1, <3>2 DEF TypeOK, Types
  <2>5. Ordered(t)'
    BY <1>39, <2>1, <2>2, <2>3 DEF Sole, Ordered, Idle, Registered, InReconcile
  <2>6. Obeying(t)'
    BY <2>2 DEF Obeying, InReconcile
  <2>7. Claimed(t)'
    BY <1>39, <2>1, <2>3, ClaimedStays DEF Sole
  <2>8. Truthful(t)'
    <3>1. node[h].up => Like(h)
      BY <1>39, <2>1, BroughtIsLike DEF Sole, Asked, Done
    <3>2. ASSUME NEW g \in Hosts, Converged(g)', "unbind" \notin FaultKinds
          PROVE  Like(g)'
      <4>1. CASE g = h
        BY <2>1, <2>3, <3>1, <3>2, <4>1 DEF Converged, Like, SameTree, Sent
      <4>2. CASE g # h
        <5>1. pods[g] \in PodIds /\ pods[g] # np
          BY <2>1, <2>3, <3>2, <4>2 DEF Converged, TypeOK, Types, RecordsInUse
        <5>2. Converged(g) /\ ~Fresh(t, g) /\ ~Changing(t, g)
          BY <2>1, <2>3, <2>4, <3>2, <4>2, <5>1 DEF Converged, Fresh, Changing
        <5>3. Like(g)
          BY <1>39, <2>1, <3>2, <5>2 DEF Sole, Truthful
        <5> QED
          BY <2>1, <2>3, <5>3 DEF Like, SameTree, Sent
      <4> QED
        BY <4>1, <4>2
    <3>3. \A i \in PodIds : view'[i].gen <= gen'
      BY <1>39, <2>3, <2>4 DEF Sole, Truthful, TypeOK, Types
    <3> QED
      BY <2>2, <3>2, <3>3 DEF Truthful
  <2> QED
    BY <2>2, <2>5, <2>6, <2>7, <2>8, NotReconciling DEF Sole
<1>40. ASSUME NEW t \in Threads, Sole(t), NEW np \in PodIds, Invalidated(np)
      PROVE  Sole(t)'
  <2>1. view[np].host \in Hosts /\ UNCHANGED <<mounts, gen, writers, pods, link, pc, job>>
    BY <1>40 DEF Invalidated, TypeOK, RecordsInUse
  <2>2. node' = node
    BY <1>40, <2>1, AsksOnly DEF Invalidated
  <2>3. \A i \in PodIds : view'[i].gen = view[i].gen
    BY <1>40, MarkedOnly DEF Invalidated, Reached
  <2>4. Obeying(t)'
    BY <1>40, <2>1, <2>2 DEF Sole, Obeying, Answers
  <2>5. \A h \in Hosts : node'[h] = node[h]
    BY <2>2
  <2> QED
    BY <1>40, <2>1, <2>3, <2>4, <2>5, WorldMoves
<1>41. ASSUME NEW t \in Threads, Sole(t), NEW h \in Hosts, LinkDown(h)
      PROVE  Sole(t)'
  <2>1. /\ UNCHANGED <<mounts, gen, writers, pods, view, node, pc, job>>
        /\ \A g \in Hosts : g # h => link'[g] = link[g]
        /\ Obeyed => ~Talking(h)
    BY <1>41 DEF LinkDown, Fault, Obeyed, daemon, TypeOK, Types
  <2>2. Obeyed /\ ~Idle(t) => job[t].host # h
    BY <2>1 DEF Talking
  <2>3. Obeying(t)'
    BY <1>41, <2>1, <2>2, SoleKnows DEF Sole, Obeying, Answers, Idle, InReconcile,
       InStartStop
  <2> QED
    BY <1>41, <2>1, <2>3, WorldMoves
<1>42. ASSUME NEW t \in Threads, Sole(t), NEW h \in Hosts, LinkUp(h)
      PROVE  Sole(t)'
  <2>1. /\ UNCHANGED <<mounts, gen, writers, pods, view, node, pc, job>>
        /\ \A g \in Hosts : link[g] => link'[g]
    BY <1>42 DEF LinkUp, daemon, TypeOK, Types
  <2>2. Obeying(t)'
    BY <1>42, <2>1, SoleKnows DEF Sole, Obeying, Answers, Idle, InReconcile, InStartStop
  <2> QED
    BY <1>42, <2>1, <2>2, WorldMoves
<1>43. ASSUME NEW t \in Threads, Sole(t), NEW h \in Hosts, LeaseExpires(h)
      PROVE  Sole(t)'
  <2>1. /\ UNCHANGED <<mounts, gen, writers, pods, view, link, pc, job>>
        /\ \A g \in Hosts : IF g = h THEN ~node'[g].up ELSE node'[g] = node[g]
        /\ ~link[h] \/ pods[h] = None
    BY <1>43 DEF LeaseExpires, daemon, TypeOK, Types
  <2>2. Obeying(t)'
    BY <1>43, <2>1, SoleKnows DEF Sole, Obeying, Answers, InReconcile, InStartStop
  <2> QED
    BY <1>43, <2>1, <2>2, WorldMoves
<1>44. CASE UNCHANGED vars
  BY <1>44 DEF vars, daemon, Alone, Sole, Ordered, Idle, Registered, Obeying, Answers,
     Claimed, Truthful, Converged, Fresh, Changing, Like, SameTree, Sent, Asked,
     Remembers, Done, Untouched
<1>45. ASSUME NEW t \in Threads, Sole(t)' PROVE Alone'
  BY <1>45 DEF Alone, Calmly, OneAtATime
<1> QED
  BY ConstantsAssumption, <1>1, <1>2, <1>3, <1>4, <1>5, <1>6, <1>7, <1>8, <1>9, <1>10,
     <1>11, <1>12, <1>13, <1>14, <1>15, <1>16, <1>17, <1>18, <1>19, <1>20, <1>21,
     <1>22, <1>23, <1>24, <1>25, <1>26, <1>27, <1>28, <1>29, <1>30, <1>31, <1>32,
     <1>33, <1>34, <1>35, <1>36, <1>37, <1>38, <1>39, <1>40, <1>41, <1>42, <1>43,
     <1>44, <1>45
     DEF Next, Begin, Continue, Environment, Alone

\* At the start no handler has begun and no machine has a pod.
LEMMA SoleInit == Init => Alone
<1> SUFFICES ASSUME Init, NEW t \in Threads PROVE Sole(t)
  BY DEF Alone
<1>1. pc[t] = "idle" /\ job[t] = NoJob /\ gen = 0 /\ \A h \in Hosts : pods[h] = None
  BY DEF Init
<1>2. Ordered(t) /\ Obeying(t) /\ Claimed(t)
  BY <1>1 DEF Init, Ordered, Idle, Obeying, Claimed, NoJob, InReconcile
<1>3. \A i \in PodIds : view[i].gen = 0
  BY DEF Init, NewRecord
<1>4. Truthful(t)
  BY <1>1, <1>3 DEF Truthful, Converged
<1> QED
  BY <1>1, <1>2, <1>4 DEF Sole, Asked, Remembers, Done, Untouched

\* With one handler at a time, what the daemon believes of every machine is true.
THEOREM AloneAlways ==
    ASSUME Calmly
    PROVE  Spec => []Alone
<1>1. Init => Alone
  BY SoleInit
<1>2. TypeOK /\ TypeOK' /\ Alone /\ [Next]_vars => Alone'
  BY SoleStep
<1> QED
  BY <1>1, <1>2, TypeCorrect, PTL DEF Spec

\* A machine recorded at the pod's generation has the pod's tree, wherever no handler is
\* in the middle of something: with one handler at a time and no unmount left half done,
\* for any number of machines that obey, and for one machine that may refuse a change or
\* lose the answer to one.
THEOREM NodePodsGenerationMeansTree ==
    ASSUME Calmly, "unbind" \notin FaultKinds
    PROVE  Spec => []GenerationMeansTree
<1>1. Alone => GenerationMeansTree
  <2> SUFFICES ASSUME Alone, Settled, NEW h \in Hosts,
                      pods[h] # None, view[pods[h]].gen = gen, node[h].up
               PROVE  SameTree(h)
    BY DEF GenerationMeansTree
  <2>1. Sole(LeaseLoop) /\ pc[LeaseLoop] \in {"idle", "holds", "run"}
    BY ConstantsAssumption DEF Alone, Settled
  <2>2. Converged(h) /\ ~Fresh(LeaseLoop, h) /\ ~Changing(LeaseLoop, h)
    BY <2>1 DEF Converged, Fresh, Changing, InReconcile
  <2> QED
    BY <2>1, <2>2 DEF Sole, Truthful, Like
<1> QED
  BY <1>1, AloneAlways, PTL

\* A claim on writing is a machine's that has a node pod, or is getting or losing one
\* right now: with one handler at a time and machines that obey, whatever links fail
\* between handlers, whatever fails to bind or unbind and whichever leases expire.
THEOREM NodePodsClaimHasPod ==
    ASSUME OneAtATime, Obeyed
    PROVE  Spec => []ClaimHasPod
<1>1. Alone => ClaimHasPod
  BY ConstantsAssumption DEF Alone, Sole, Claimed, ClaimHasPod
<1>2. Calmly
  BY DEF Calmly
<1> QED
  BY <1>1, <1>2, AloneAlways, PTL

-----------------------------------------------------------------------------
(* One handler at a time, and links that hold: the machine that writes is  *)
(* the machine that has the claim.                                         *)

\* What may be mounted from is in hand.
Taking == {"held", "apply", "mount", "record", "build"}

\* Every machine can be reached. What is held writable is held by whoever has the
\* claim, but for a machine whose pod is just being taken down: its claim is gone and
\* nobody has it yet. What is about to be mounted writable is claimed.
Claimant(t) ==
    /\ \A h \in Hosts : link[h]
    /\ manyWriters = {}
    /\ \A h \in Hosts, p \in Paths : HoldsRW(h, p) =>
          \/ writers[p] = h
          \/ writers[p] = None /\ pc[t] = "nodedown" /\ job[t].host = h
    /\ pc[t] \in Taking => \A p \in Paths :
          job[t].want[p] # None /\ ~job[t].want[p].ro => writers[p] = job[t].host

HandedOut == \A t \in Threads : Claimant(t)

\* The links hold: no request is lost on its way or on its way back.
Steady == OneAtATime /\ {"link", "midway"} \cap FaultKinds = {} /\ ManyWriters = {}

\* A step that makes nothing writable and takes no claim away.
LEMMA ClaimantStays ==
    ASSUME TypeOK, NEW t \in Threads, Claimant(t), UNCHANGED <<link, manyWriters>>,
           \A h \in Hosts, p \in Paths : HoldsRW(h, p)' => HoldsRW(h, p),
           \A p \in Paths : writers[p] # None => writers'[p] = writers[p],
           pc[t] # "nodedown",
           \/ pc'[t] \notin Taking
           \/ pc[t] \in Taking /\ job'[t].want = job[t].want /\ job'[t].host = job[t].host
    PROVE  Claimant(t)'
<1>1. \A h \in Hosts, p \in Paths : HoldsRW(h, p)' => writers'[p] = h
  BY ConstantsAssumption DEF Claimant
<1>2. pc'[t] \in Taking => job[t].host \in Hosts
  BY InReconcileKnows DEF Taking, InReconcile, InStartStop, TypeOK, HandlersKnow, Knows
<1>3. pc'[t] \in Taking => \A p \in Paths :
         job'[t].want[p] # None /\ ~job'[t].want[p].ro => writers'[p] = job'[t].host
  BY <1>2, ConstantsAssumption DEF Claimant
<1> QED
  BY <1>1, <1>3 DEF Claimant

\* Asking what a machine should hold claims what it may write.
LEMMA AskedClaims ==
    ASSUME TypeOK, NEW t \in Threads, Claimant(t), NEW h \in Hosts,
           pc[t] # "nodedown", UNCHANGED <<node, link, manyWriters>>,
           writers' = ClaimFor(h), job'[t].want = Desired(h), job'[t].host = h
    PROVE  Claimant(t)'
<1>1. \A p \in Paths : writers[p] # None => writers'[p] = writers[p]
  BY DEF ClaimFor
<1>2. \A g \in Hosts, p \in Paths : HoldsRW(g, p)' => writers'[p] = g
  BY <1>1, ConstantsAssumption DEF Claimant, HoldsRW
<1>3. ASSUME NEW p \in Paths, Desired(h)[p] # None, ~Desired(h)[p].ro
      PROVE  ClaimFor(h)[p] = h
  <2>1. p \in Sent(h) /\ mounts[p] \notin ReadOnly /\ ~(p \in Claims(h) /\ ClaimFor(h)[p] # h)
    BY <1>3 DEF Desired
  <2> QED
    BY <2>1 DEF Claims, Claimant
<1> QED
  BY <1>2, <1>3 DEF Claimant

\* A request of a reconcile that leaves writable only what is claimed.
LEMMA ChangeClaims ==
    ASSUME TypeOK, NEW t \in Threads, Claimant(t), pc[t] \in {"apply", "mount"},
           NEW p, NEW held, NEW snap, NEW next \in {"apply", "mount"},
           Change(t, p, held, snap, next), UNCHANGED <<daemon, link>>,
           \A q \in Paths : Writable(held[q])
                               => HoldsRW(job[t].host, q) \/ writers[q] = job[t].host
    PROVE  Claimant(t)'
<1>1. job[t].host \in Hosts /\ UNCHANGED <<writers, manyWriters, link>>
  BY InReconcileKnows DEF InReconcile, daemon
<1>2. ASSUME NEW g \in Hosts, NEW q \in Paths, HoldsRW(g, q)'
      PROVE  writers[q] = g
  <2>1. HoldsRW(g, q) \/ (g = job[t].host /\ Writable(held[q]))
    BY <1>1, <1>2, RequestWrites DEF Change
  <2> QED
    BY <2>1 DEF Claimant
<1>3. \/ pc'[t] \notin Taking
      \/ job'[t].want = job[t].want /\ job'[t].host = job[t].host
  <2>1. CASE Return(t, "err")
    BY <2>1, HandlersTyped DEF Return, Goto, Taking
  <2>2. CASE job' = [job EXCEPT ![t].snap = snap,
                                ![t].cur = IF next = "mount" THEN p ELSE None]
    BY <2>2, HandlersTyped DEF Job
  <2> QED
    BY <2>1, <2>2 DEF Change
<1> QED
  BY <1>1, <1>2, <1>3 DEF Claimant, Taking

\* Releasing makes nothing writable.
LEMMA ReleaseClaims ==
    ASSUME TypeOK, NEW t \in Threads, Claimant(t), pc[t] = "apply", NEW p \in Paths,
           NEW left, NEW next \in {"apply", "mount"}, Release(t, p, left, next),
           UNCHANGED <<daemon, link>>
    PROVE  Claimant(t)'
<1> DEFINE held == node[job[t].host].held
<1>1. held \in Tree /\ job[t].host \in Hosts
  BY InReconcileKnows DEF InReconcile
<1>2. CASE held[p] # <<>>
  <2> DEFINE after == [held EXCEPT ![p] = Tail(@)]
  <2>1. \A q \in Paths : after[q] = IF q = p THEN Tail(held[p]) ELSE held[q]
    BY <1>1 DEF Tree
  <2>2. held[p] \in Seq(Entry)
    BY <1>1 DEF Tree
  <2>3. Writable(Tail(held[p])) => Writable(held[p])
    BY <1>2, <2>2 DEF Writable
  <2>4. \A q \in Paths : Writable(after[q]) => HoldsRW(job[t].host, q)
    BY <2>1, <2>3 DEF HoldsRW, Writable
  <2>5. Change(t, p, after, [job[t].snap EXCEPT ![p] = left], next)
    BY <1>2 DEF Release
  <2> HIDE DEF after
  <2> QED
    BY <2>4, <2>5, ChangeClaims
<1>3. CASE held[p] = <<>>
  <2>1. /\ pc'[t] \notin Taking /\ UNCHANGED <<node, link, writers, manyWriters>>
    BY <1>3, HandlersTyped DEF Release, Return, Goto, Taking, daemon
  <2> QED
    BY <2>1, ClaimantStays DEF HoldsRW
<1> QED
  BY <1>2, <1>3

\* Every step hands a claim from one machine to another only through nobody.
LEMMA ClaimantStep ==
    ASSUME Steady, TypeOK, TypeOK', HandedOut, [Next]_vars
    PROVE  HandedOut'
<1> USE DEF Steady
<1>1. ASSUME NEW t \in Threads, NEW p \in Paths, NEW o \in Origins, Claimant(t),
             Mount(t, p, o)
      PROVE  Claimant(t)'
  <2>1. /\ UNCHANGED <<node, writers, link, manyWriters>>
        /\ pc[t] # "nodedown" /\ pc'[t] \notin Taking
    BY <1>1, HandlersTyped, ManyWriters = {} DEF Mount, Taking, Goto, Idle, Finish,
       Return, daemon
  <2> QED
    BY <1>1, <2>1, ClaimantStays DEF HoldsRW
<1>2. ASSUME NEW t \in Threads, Claimant(t), Bound(t)
      PROVE  Claimant(t)'
  <2>1. /\ UNCHANGED <<node, writers, link, manyWriters>>
        /\ pc[t] # "nodedown" /\ pc'[t] \notin Taking
    BY <1>2, HandlersTyped DEF Bound, Taking, Goto, Idle, Finish, Return, daemon
  <2> QED
    BY <1>2, <2>1, ClaimantStays DEF HoldsRW
<1>3. ASSUME NEW t \in Threads, Claimant(t), BindFails(t)
      PROVE  Claimant(t)'
  <2>1. /\ UNCHANGED <<node, writers, link, manyWriters>>
        /\ pc[t] # "nodedown" /\ pc'[t] \notin Taking
    BY <1>3, HandlersTyped DEF BindFails, Taking, Goto, Idle, Finish, Return, daemon
  <2> QED
    BY <1>3, <2>1, ClaimantStays DEF HoldsRW
<1>4. ASSUME NEW t \in Threads, NEW hits \in SUBSET Paths, Claimant(t), Unmount(t, hits)
      PROVE  Claimant(t)'
  <2>1. /\ UNCHANGED <<node, writers, link, manyWriters>>
        /\ pc[t] # "nodedown" /\ pc'[t] \notin Taking
    BY <1>4, HandlersTyped DEF Unmount, Taking, Goto, Idle, Finish, Return, daemon
  <2> QED
    BY <1>4, <2>1, ClaimantStays DEF HoldsRW
<1>5. ASSUME NEW t \in Threads, NEW p \in Paths, Claimant(t), Unbind(t, p)
      PROVE  Claimant(t)'
  <2>1. /\ UNCHANGED <<node, writers, link, manyWriters>>
        /\ pc[t] # "nodedown" /\ pc'[t] \notin Taking
    BY <1>5, HandlersTyped DEF Unbind, Taking, Goto, Idle, Finish, Return, daemon
  <2> QED
    BY <1>5, <2>1, ClaimantStays DEF HoldsRW
<1>6. ASSUME NEW t \in Threads, Claimant(t), UnbindFails(t)
      PROVE  Claimant(t)'
  <2>1. /\ UNCHANGED <<node, writers, link, manyWriters>>
        /\ pc[t] # "nodedown" /\ pc'[t] \notin Taking
    BY <1>6, HandlersTyped DEF UnbindFails, Taking, Goto, Idle, Finish, Return, daemon
  <2> QED
    BY <1>6, <2>1, ClaimantStays DEF HoldsRW
<1>7. ASSUME NEW t \in Threads, Claimant(t), Unmounted(t)
      PROVE  Claimant(t)'
  <2>1. /\ UNCHANGED <<node, writers, link, manyWriters>>
        /\ pc[t] # "nodedown" /\ pc'[t] \notin Taking
    BY <1>7, HandlersTyped DEF Unmounted, Taking, Goto, Idle, Finish, Return, daemon
  <2> QED
    BY <1>7, <2>1, ClaimantStays DEF HoldsRW
<1>8. ASSUME NEW t \in Threads, Claimant(t), Want(t)
      PROVE  Claimant(t)'
  <2>1. /\ pc[t] = "want" /\ pc'[t] = "held" /\ job[t].host \in Hosts
        /\ job'[t].host = job[t].host /\ job'[t].want = Desired(job[t].host)
        /\ UNCHANGED <<node, link, manyWriters>> /\ writers' = ClaimFor(job[t].host)
    BY <1>8, InReconcileKnows, HandlersTyped DEF Want, InReconcile, Job, Goto
  <2> QED
    BY <1>8, <2>1, AskedClaims
<1>9. ASSUME NEW t \in Threads, Claimant(t), AskHeld(t)
      PROVE  Claimant(t)'
  <2>1. /\ pc[t] \in {"held", "apply"} /\ UNCHANGED <<writers, link, manyWriters>>
        /\ job[t].host \in Hosts
    BY <1>9, InReconcileKnows DEF AskHeld, InReconcile, daemon
  <2>2. node' = node
    BY <1>9, <2>1, AsksOnly DEF AskHeld
  <2>3. \/ pc'[t] \notin Taking
        \/ pc[t] \in Taking /\ job'[t].want = job[t].want /\ job'[t].host = job[t].host
    BY <1>9, <2>1, HandlersTyped DEF AskHeld, Return, Goto, Taking, Job
  <2> QED
    BY <1>9, <2>1, <2>2, <2>3, ClaimantStays DEF HoldsRW
<1>10. ASSUME NEW t \in Threads, Claimant(t), AskFinal(t)
      PROVE  Claimant(t)'
  <2>1. /\ pc[t] \in {"held", "apply"} /\ UNCHANGED <<writers, link, manyWriters>>
        /\ job[t].host \in Hosts
    BY <1>10, InReconcileKnows DEF AskFinal, InReconcile, daemon
  <2>2. node' = node
    BY <1>10, <2>1, AsksOnly DEF AskFinal
  <2>3. \/ pc'[t] \notin Taking
        \/ pc[t] \in Taking /\ job'[t].want = job[t].want /\ job'[t].host = job[t].host
    BY <1>10, <2>1, HandlersTyped DEF AskFinal, Return, Goto, Taking, Job
  <2> QED
    BY <1>10, <2>1, <2>2, <2>3, ClaimantStays DEF HoldsRW
<1>11. ASSUME NEW t \in Threads, Claimant(t), Record(t)
      PROVE  Claimant(t)'
  <2>1. /\ UNCHANGED <<node, writers, link, manyWriters>>
        /\ pc[t] # "nodedown" /\ pc'[t] \notin Taking
    BY <1>11, HandlersTyped DEF Record, Taking, Goto, Idle, Finish, Return, daemon
  <2> QED
    BY <1>11, <2>1, ClaimantStays DEF HoldsRW
<1>12. ASSUME NEW t \in Threads, NEW p \in Paths, Claimant(t), ReleaseOld(t, p)
      PROVE  Claimant(t)'
  <2>1. /\ pc[t] = "apply" /\ Release(t, p, <<>>, "mount")
        /\ UNCHANGED <<daemon, link>>
    BY <1>12 DEF ReleaseOld
  <2> QED
    BY <1>12, <2>1, ReleaseClaims
<1>13. ASSUME NEW t \in Threads, NEW p \in Paths, Claimant(t), ReleaseStray(t, p)
      PROVE  Claimant(t)'
  <2>1. /\ pc[t] = "apply" /\ Release(t, p, Tail(job[t].snap[p]), "apply")
        /\ UNCHANGED <<daemon, link>>
    BY <1>13 DEF ReleaseStray
  <2> QED
    BY <1>13, <2>1, ReleaseClaims
<1>14. ASSUME NEW t \in Threads, NEW p \in Paths, Claimant(t), TakeMount(t, p)
      PROVE  Claimant(t)'
  <2> DEFINE e == job[t].want[p]
             held == node[job[t].host].held
             after == [held EXCEPT ![p] = Append(@, e)]
             snap == [job[t].snap EXCEPT ![p] = <<e>>]
  <2>1. /\ pc[t] \in {"apply", "mount"} /\ UNCHANGED <<daemon, link>>
        /\ Change(t, p, after, snap, "apply")
    BY <1>14 DEF TakeMount, Take
  <2>2. e # None
    BY <1>14 DEF TakeMount, Missing, TypeOK, HandlersKnow, Knows
  <2>3. e \in Entry /\ held \in Tree
    BY <2>1, <2>2, InReconcileKnows, HandlersTyped DEF InReconcile, Job
  <2>4. \A q \in Paths : after[q] = IF q = p THEN Append(held[p], e) ELSE held[q]
    BY <2>3 DEF Tree
  <2>5. ~e.ro => writers[p] = job[t].host
    BY <1>14, <2>1, <2>2 DEF Claimant, Taking
  <2>6. Writable(Append(held[p], e)) => Writable(held[p]) \/ ~e.ro
    BY <2>3, WritableLists DEF Tree
  <2>7. \A q \in Paths : Writable(after[q])
                            => HoldsRW(job[t].host, q) \/ writers[q] = job[t].host
    BY <2>4, <2>5, <2>6 DEF HoldsRW, Writable
  <2> HIDE DEF after, snap
  <2> QED
    BY <1>14, <2>1, <2>7, ChangeClaims
<1>15. ASSUME NEW t \in Threads, NEW np \in PodIds, Claimant(t), NextPod(t, np)
      PROVE  Claimant(t)'
  <2>1. /\ UNCHANGED <<node, writers, link, manyWriters>>
        /\ pc[t] # "nodedown" /\ pc'[t] \notin Taking
    BY <1>15, HandlersTyped DEF NextPod, Taking, Goto, Idle, Finish, Return, daemon
  <2> QED
    BY <1>15, <2>1, ClaimantStays DEF HoldsRW
<1>16. ASSUME NEW t \in Threads, NEW np \in PodIds, Claimant(t), Renew(t, np)
      PROVE  Claimant(t)'
  <2>1. /\ pc[t] # "nodedown" /\ pc'[t] \notin Taking
        /\ UNCHANGED <<writers, link, manyWriters>>
    BY <1>16, HandlersTyped DEF Renew, Taking, Goto, daemon
  <2>2. view[np].host \in Hosts
    BY <1>16 DEF Renew, TypeOK, RecordsInUse
  <2>3. node' = node
    BY <1>16, <2>2, AsksOnly DEF Renew
  <2> QED
    BY <1>16, <2>1, <2>3, ClaimantStays DEF HoldsRW
<1>17. ASSUME NEW t \in Threads, NEW np \in PodIds, Claimant(t), LookAt(t, np)
      PROVE  Claimant(t)'
  <2>1. /\ pc[t] = "ok" /\ pc'[t] = "ok" /\ UNCHANGED <<node, link, manyWriters>>
        /\ writers' = ClaimFor(view[np].host)
    BY <1>17, HandlersTyped DEF LookAt
  <2>2. \A p \in Paths : writers[p] # None => writers'[p] = writers[p]
    BY <2>1 DEF ClaimFor
  <2> QED
    BY <1>17, <2>1, <2>2, ClaimantStays DEF HoldsRW, Taking
<1>18. ASSUME NEW t \in Threads, Claimant(t), Answered(t)
      PROVE  Claimant(t)'
  <2>1. /\ UNCHANGED <<node, writers, link, manyWriters>>
        /\ pc[t] # "nodedown" /\ pc'[t] \notin Taking
    BY <1>18, HandlersTyped DEF Answered, Taking, Goto, Idle, Finish, Return, daemon
  <2> QED
    BY <1>18, <2>1, ClaimantStays DEF HoldsRW
<1>19. ASSUME NEW t \in Threads, Claimant(t), LeaseTick(t)
      PROVE  Claimant(t)'
  <2>1. /\ UNCHANGED <<node, writers, link, manyWriters>>
        /\ pc[t] # "nodedown" /\ pc'[t] \notin Taking
    BY <1>19, HandlersTyped DEF LeaseTick, Taking, Goto, Idle, Finish, Return, daemon
  <2> QED
    BY <1>19, <2>1, ClaimantStays DEF HoldsRW
<1>20. ASSUME NEW t \in Threads, Claimant(t), Look(t)
      PROVE  Claimant(t)'
  <2>1. /\ UNCHANGED <<node, writers, link, manyWriters>>
        /\ pc[t] # "nodedown" /\ pc'[t] \notin Taking
    BY <1>20, HandlersTyped DEF Look, Taking, Goto, Idle, Finish, Return, daemon
  <2> QED
    BY <1>20, <2>1, ClaimantStays DEF HoldsRW
<1>21. ASSUME NEW t \in Threads, NEW h \in Hosts, Claimant(t), Add(t, h)
      PROVE  Claimant(t)'
  <2>1. /\ UNCHANGED <<node, writers, link, manyWriters>>
        /\ pc[t] # "nodedown" /\ pc'[t] \notin Taking
    BY <1>21, HandlersTyped DEF Add, Taking, Goto, Idle, Finish, Return, daemon
  <2> QED
    BY <1>21, <2>1, ClaimantStays DEF HoldsRW
<1>22. ASSUME NEW t \in Threads, Claimant(t), LockBuild(t)
      PROVE  Claimant(t)'
  <2>1. /\ UNCHANGED <<node, writers, link, manyWriters>>
        /\ pc[t] # "nodedown" /\ pc'[t] \notin Taking
    BY <1>22, HandlersTyped DEF LockBuild, Taking, Goto, Idle, Finish, Return, daemon
  <2> QED
    BY <1>22, <2>1, ClaimantStays DEF HoldsRW
<1>23. ASSUME NEW t \in Threads, Claimant(t), Start(t)
      PROVE  Claimant(t)'
  <2>1. /\ UNCHANGED <<node, writers, link, manyWriters>>
        /\ pc[t] # "nodedown" /\ pc'[t] \notin Taking
    BY <1>23, HandlersTyped DEF Start, Taking, Goto, Idle, Finish, Return, daemon
  <2> QED
    BY <1>23, <2>1, ClaimantStays DEF HoldsRW
<1>24. ASSUME NEW t \in Threads, Claimant(t), Adopt(t)
      PROVE  Claimant(t)'
  <2>1. /\ pc[t] = "adopt" /\ pc'[t] \notin Taking
        /\ UNCHANGED <<writers, link, manyWriters>>
    BY <1>24, HandlersTyped DEF Adopt, Put, Taking, Goto
  <2>2. job[t].host \in Hosts
    BY <2>1 DEF TypeOK, HandlersKnow, Knows, InStartStop
  <2>3. \A g \in Hosts, q \in Paths : HoldsRW(g, q)' => HoldsRW(g, q)
    BY <1>24, <2>2, RequestWrites DEF Adopt, HoldsRW, Writable
  <2> QED
    BY <1>24, <2>1, <2>3, ClaimantStays
<1>25. ASSUME NEW t \in Threads, Claimant(t), PodSpec(t)
      PROVE  Claimant(t)'
  <2>1. /\ pc[t] = "spec" /\ pc'[t] = "build" /\ job[t].host \in Hosts
        /\ job'[t].host = job[t].host /\ job'[t].want = Desired(job[t].host)
        /\ UNCHANGED <<node, link, manyWriters>> /\ writers' = ClaimFor(job[t].host)
    BY <1>25, HandlersTyped DEF PodSpec, InStartStop, Job, Goto, TypeOK, HandlersKnow, Knows
  <2> QED
    BY <1>25, <2>1, AskedClaims
<1>26. ASSUME NEW t \in Threads, Claimant(t), Build(t)
      PROVE  Claimant(t)'
  <2> DEFINE h == job[t].host
             up == [node EXCEPT ![h] = [up |-> TRUE, held |-> Built(job[t].want)]]
  <2>1. /\ pc[t] = "build" /\ pc'[t] \notin Taking /\ node' \in {node, up}
        /\ UNCHANGED <<writers, link, manyWriters>>
    BY <1>26, HandlersTyped DEF Build, Put, Taking, Goto
  <2>2. h \in Hosts
    BY <2>1 DEF TypeOK, HandlersKnow, Knows, InStartStop
  <2>3. ASSUME NEW g \in Hosts, NEW q \in Paths, HoldsRW(g, q)'
        PROVE  writers[q] = g
    <3>1. CASE HoldsRW(g, q)
      BY <1>26, <2>1, <3>1 DEF Claimant
    <3>2. CASE ~HoldsRW(g, q)
      <4>1. node' = up /\ g = h
        BY <2>1, <2>3, <3>2 DEF HoldsRW, TypeOK, Types
      <4>2. node'[g].held[q] = Built(job[t].want)[q]
        BY <2>2, <4>1 DEF TypeOK, Types
      <4>3. job[t].want[q] # None /\ ~job[t].want[q].ro
        BY <2>3, <4>2 DEF HoldsRW, Built
      <4> QED
        BY <1>26, <2>1, <4>1, <4>3 DEF Claimant, Taking
    <3> QED
      BY <3>1, <3>2
  <2> QED
    BY <1>26, <2>1, <2>3 DEF Claimant
<1>27. ASSUME NEW t \in Threads, Claimant(t), AdoptFails(t)
      PROVE  Claimant(t)'
  <2>1. /\ UNCHANGED <<node, writers, link, manyWriters>>
        /\ pc[t] # "nodedown" /\ pc'[t] \notin Taking
    BY <1>27, HandlersTyped DEF AdoptFails, Taking, Goto, Idle, Finish, Return, daemon
  <2> QED
    BY <1>27, <2>1, ClaimantStays DEF HoldsRW
<1>28. ASSUME NEW t \in Threads, Claimant(t), BuildFails(t)
      PROVE  Claimant(t)'
  <2>1. /\ UNCHANGED <<node, writers, link, manyWriters>>
        /\ pc[t] # "nodedown" /\ pc'[t] \notin Taking
    BY <1>28, HandlersTyped DEF BuildFails, Taking, Goto, Idle, Finish, Return, daemon
  <2> QED
    BY <1>28, <2>1, ClaimantStays DEF HoldsRW
<1>29. ASSUME NEW t \in Threads, Claimant(t), Reconciled(t)
      PROVE  Claimant(t)'
  <2>1. /\ UNCHANGED <<node, writers, link, manyWriters>>
        /\ pc[t] # "nodedown" /\ pc'[t] \notin Taking
    BY <1>29, HandlersTyped DEF Reconciled, Taking, Goto, Idle, Finish, Return, daemon
  <2> QED
    BY <1>29, <2>1, ClaimantStays DEF HoldsRW
<1>30. ASSUME NEW t \in Threads, Claimant(t), Started(t)
      PROVE  Claimant(t)'
  <2>1. /\ UNCHANGED <<node, writers, link, manyWriters>>
        /\ pc[t] # "nodedown" /\ pc'[t] \notin Taking
    BY <1>30, HandlersTyped DEF Started, Taking, Goto, Idle, Finish, Return, daemon
  <2> QED
    BY <1>30, <2>1, ClaimantStays DEF HoldsRW
<1>31. ASSUME NEW t \in Threads, Claimant(t), StartFails(t)
      PROVE  Claimant(t)'
  <2>1. /\ UNCHANGED <<node, writers, link, manyWriters>>
        /\ pc[t] # "nodedown" /\ pc'[t] \notin Taking
    BY <1>31, HandlersTyped DEF StartFails, Taking, Goto, Idle, Finish, Return, daemon
  <2> QED
    BY <1>31, <2>1, ClaimantStays DEF HoldsRW
<1>32. ASSUME NEW t \in Threads, NEW h \in Hosts, Claimant(t), Drop(t, h)
      PROVE  Claimant(t)'
  <2>1. /\ UNCHANGED <<node, writers, link, manyWriters>>
        /\ pc[t] # "nodedown" /\ pc'[t] \notin Taking
    BY <1>32, HandlersTyped DEF Drop, Taking, Goto, Idle, Finish, Return, daemon
  <2> QED
    BY <1>32, <2>1, ClaimantStays DEF HoldsRW
<1>33. ASSUME NEW t \in Threads, Claimant(t), Stop(t)
      PROVE  Claimant(t)'
  <2>1. /\ UNCHANGED <<node, writers, link, manyWriters>>
        /\ pc[t] # "nodedown" /\ pc'[t] \notin Taking
    BY <1>33, HandlersTyped DEF Stop, AfterStop, Taking, Goto, Idle, Finish, Return, daemon
  <2> QED
    BY <1>33, <2>1, ClaimantStays DEF HoldsRW
<1>34. ASSUME NEW t \in Threads, Claimant(t), Disown(t)
      PROVE  Claimant(t)'
  <2>1. /\ pc[t] = "disown" /\ pc'[t] = "nodedown" /\ job' = job
        /\ UNCHANGED <<node, link, manyWriters>>
        /\ writers' = [p \in Paths |-> IF writers[p] = job[t].host THEN None ELSE writers[p]]
    BY <1>34, HandlersTyped DEF Disown, Goto
  <2> QED
    BY <1>34, <2>1 DEF Claimant, HoldsRW, Taking
<1>35. ASSUME NEW t \in Threads, Claimant(t), NodeDown(t)
      PROVE  Claimant(t)'
  <2> DEFINE h == job[t].host
  <2>1. /\ pc[t] = "nodedown" /\ pc'[t] = "failed" /\ h \in Hosts
        /\ node' = [node EXCEPT ![h] = [up |-> FALSE, held |-> NoTree]]
        /\ UNCHANGED <<writers, link, manyWriters>>
    <3>1. pc[t] = "nodedown" /\ h \in Hosts
      BY <1>35 DEF NodeDown, TypeOK, HandlersKnow, Knows, InStartStop
    <3> QED
      BY <1>35, <3>1, HandlersTyped DEF NodeDown, AfterStop, Goto, Fault, Claimant, daemon
  <2>2. \A g \in Hosts, q \in Paths : HoldsRW(g, q)' => HoldsRW(g, q) /\ g # h
    <3>1. \A g \in Hosts, q \in Paths :
             IF g = h THEN node'[g].held[q] = <<>> ELSE node'[g] = node[g]
      BY <2>1 DEF NoTree, TypeOK, Types
    <3> QED
      BY <3>1 DEF HoldsRW
  <2> QED
    BY <1>35, <2>1, <2>2 DEF Claimant, Taking
<1>36. ASSUME NEW t \in Threads, NEW h \in Hosts, NEW p \in Paths, Claimant(t),
             Dispatch(t, h, p)
      PROVE  Claimant(t)'
  <2>1. /\ UNCHANGED <<node, writers, link, manyWriters>>
        /\ pc[t] # "nodedown" /\ pc'[t] \notin Taking
    BY <1>36, HandlersTyped DEF Dispatch, Taking, Goto, Idle, Finish, Return, daemon
  <2> QED
    BY <1>36, <2>1, ClaimantStays DEF HoldsRW
<1>37. ASSUME NEW t \in Threads, Claimant(t), Guard(t)
      PROVE  Claimant(t)'
  <2>1. /\ UNCHANGED <<node, writers, link, manyWriters>>
        /\ pc[t] # "nodedown" /\ pc'[t] \notin Taking
    BY <1>37, HandlersTyped DEF Guard, Reconcile, Taking, Goto, Idle, Finish, Return, daemon
  <2> QED
    BY <1>37, <2>1, ClaimantStays DEF HoldsRW
<1>38. ASSUME NEW t \in Threads, Claimant(t), Recheck(t)
      PROVE  Claimant(t)'
  <2>1. /\ UNCHANGED <<node, writers, link, manyWriters>>
        /\ pc[t] # "nodedown" /\ pc'[t] \notin Taking
    BY <1>38, HandlersTyped DEF Recheck, Taking, Goto, Idle, Finish, Return, daemon
  <2> QED
    BY <1>38, <2>1, ClaimantStays DEF HoldsRW
<1>39. ASSUME NEW t \in Threads, Claimant(t), Run(t)
      PROVE  Claimant(t)'
  <2>1. /\ UNCHANGED <<node, writers, link, manyWriters>>
        /\ pc[t] # "nodedown" /\ pc'[t] \notin Taking
    BY <1>39, HandlersTyped DEF Run, Taking, Goto, Idle, Finish, Return, daemon
  <2> QED
    BY <1>39, <2>1, ClaimantStays DEF HoldsRW
<1>40. ASSUME NEW t \in Threads, NEW np \in PodIds, Claimant(t), Invalidated(np)
      PROVE  Claimant(t)'
  <2>1. view[np].host \in Hosts /\ UNCHANGED <<writers, link, manyWriters, pc, job>>
    BY <1>40 DEF Invalidated, TypeOK, RecordsInUse
  <2>2. \A g \in Hosts, q \in Paths : HoldsRW(g, q)' => HoldsRW(g, q)
    BY <1>40, <2>1, RequestWrites DEF Invalidated, HoldsRW, Writable
  <2> QED
    BY <1>40, <2>1, <2>2 DEF Claimant
<1>41. ASSUME NEW t \in Threads, NEW h \in Hosts, Claimant(t), LinkDown(h)
      PROVE  Claimant(t)'
  <2> QED
    BY <1>41 DEF LinkDown, Fault
<1>42. ASSUME NEW t \in Threads, NEW h \in Hosts, Claimant(t), LinkUp(h)
      PROVE  Claimant(t)'
  <2> QED
    BY <1>42 DEF LinkUp, Claimant
<1>43. ASSUME NEW t \in Threads, NEW h \in Hosts, Claimant(t), LeaseExpires(h)
      PROVE  Claimant(t)'
  <2>1. UNCHANGED <<writers, link, manyWriters, pc, job>>
    BY <1>43 DEF LeaseExpires, daemon
  <2>2. \A g \in Hosts, q \in Paths : HoldsRW(g, q)' => HoldsRW(g, q)
    <3>1. \A g \in Hosts, q \in Paths :
             node'[g].held[q] = node[g].held[q] \/ node'[g].held[q] = <<>>
      BY <1>43 DEF LeaseExpires, NoTree, TypeOK, Types
    <3> QED
      BY <3>1 DEF HoldsRW
  <2> QED
    BY <1>43, <2>1, <2>2 DEF Claimant
<1>44. CASE UNCHANGED vars
  BY <1>44 DEF vars, daemon, HandedOut, Claimant, HoldsRW
<1>45. ASSUME NEW t \in Threads, Claimant(t)' PROVE HandedOut'
  BY <1>45 DEF HandedOut, OneAtATime
<1> QED
  BY ConstantsAssumption, <1>1, <1>2, <1>3, <1>4, <1>5, <1>6, <1>7, <1>8, <1>9, <1>10,
     <1>11, <1>12, <1>13, <1>14, <1>15, <1>16, <1>17, <1>18, <1>19, <1>20, <1>21,
     <1>22, <1>23, <1>24, <1>25, <1>26, <1>27, <1>28, <1>29, <1>30, <1>31, <1>32,
     <1>33, <1>34, <1>35, <1>36, <1>37, <1>38, <1>39, <1>40, <1>41, <1>42, <1>43,
     <1>44, <1>45
     DEF Next, Begin, Continue, Environment, HandedOut

\* With one handler at a time and links that hold, whatever nodes refuse, whatever
\* fails to bind or unbind and whichever leases expire, no two machines ever hold a
\* mount writable. Many writers are left out: the daemon never forgets that a path
\* was mounted for many.
THEOREM NodePodsOneWriter ==
    ASSUME Steady
    PROVE  Spec => []OneWriter
<1>1. Init => HandedOut
  <2> SUFFICES ASSUME Init PROVE HandedOut
    OBVIOUS
  <2>1. \A h \in Hosts, p \in Paths : ~HoldsRW(h, p)
    BY DEF Init, HoldsRW, NoTree
  <2>2. manyWriters = {}
    BY DEF Init, Steady
  <2> QED
    BY <2>1, <2>2 DEF Init, HandedOut, Claimant, Taking
<1>2. TypeOK /\ TypeOK' /\ HandedOut /\ [Next]_vars => HandedOut'
  BY ClaimantStep
<1>3. TypeOK /\ HandedOut => OneWriter
  <2> SUFFICES ASSUME HandedOut, NEW h \in Hosts, NEW g \in Hosts, NEW p \in Paths,
                      h # g, HoldsOwnRW(h, p), HoldsOwnRW(g, p)
               PROVE  FALSE
    BY DEF OneWriter
  <2>1. HoldsRW(h, p) /\ HoldsRW(g, p) /\ Claimant(LeaseLoop)
    BY ConstantsAssumption DEF HandedOut, HoldsRW, HoldsOwnRW
  <2> QED
    BY <2>1, ConstantsAssumption DEF Claimant
<1> QED
  BY <1>1, <1>2, <1>3, TypeCorrect, PTL DEF Spec
=============================================================================
