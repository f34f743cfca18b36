----------------------------- MODULE Daemon_proofs -----------------------------
(***************************************************************************)
(* What holds of the daemon and of what it keeps, for any number of        *)
(* requests, pods, followers and machines.                                 *)
(*                                                                         *)
(* The pods of one name (PodLifecycle): each is closed once, one that      *)
(* failed leaves nothing, and one that began when the others were over     *)
(* keeps its socket and its mounts. The last is about names, so it needs   *)
(* to know who else may act on them: an up holds d.creating from its first *)
(* step to its last (OneBuilds), and beside a pod that began alone no      *)
(* other is being closed (KeptFree).                                       *)
(*                                                                         *)
(* The daemon's process (DaemonStart): the one that serves is the one      *)
(* clients find, whatever was killed before. The removal and the binding   *)
(* of the path are two steps, so it holds as long as no daemon is started  *)
(* while another one starts or ends (OneAtATime).                          *)
(*                                                                         *)
(* Its events (EventBus): a follower that has caught up and missed nothing *)
(* was sent the whole history once. An event is offered outside the lock,  *)
(* so it may be in the history a follower replays, on its way to it, in    *)
(* its channel, or sent (Follows).                                         *)
(*                                                                         *)
(* What it keeps open (Tunnels): the server of a path and the forwards to  *)
(* it follow what is mounted, as long as operations run one at a time      *)
(* (OneByOne).                                                             *)
(***************************************************************************)
EXTENDS PodLifecycle, Sequences, TLAPS

CONSTANTS
    Clients, Daemons, StartFaults,                          \* DaemonStart
    Events, Followers, Buffer, HistoryMax, BusFaults,       \* EventBus
    Hosts, Srcs, Ports, HostOf, LocalOf, Reconcilers,       \* Tunnels
    MaxMounts, MaxServers, TunnelFaults

VARIABLES
    path, version, stage, client, spawned, ended,           \* DaemonStart
    recent, subs, ch, closed, pub, fol, replay, seen, sent, \* EventBus
    missed, panicked,
    up, mounted, mounts_TU, relays, server, link, rev,      \* Tunnels
    node, holds, dirty, rec, op, ports, fwd, asking

DS == INSTANCE DaemonStart WITH FaultKinds <- StartFaults
EB == INSTANCE EventBus WITH FaultKinds <- BusFaults
TU == INSTANCE Tunnels WITH FaultKinds <- TunnelFaults, mounts <- mounts_TU

-------------------------------------------------------------------------------
(* The pods of one name.                                                    *)

\* `None` is no pod and no answer, and a request is an up or a down.
Requests == None \notin Ups \cup {"ok", "exists", "failed"} /\ Ups \cap Downs = {}

Building(u) == ask[u].step \in {"listen", "start", "attach", "forward", "list", "done",
                                "failed"}

\* Whoever builds is the one entered in d.creating, and nobody does beside a pod
\* that is listed.
OneBuilds ==
    \A u \in Ups :
        /\ Building(u) => creating = u
        /\ ask[u].answer # None => ask[u].step = "over"
        /\ ask[u].step # "closing"
        /\ pods = u => creating \in {None, u} /\ ask[u].step \in {"done", "over"}
        /\ pods = u \/ closing[u] # "no" => ask[u].step = "done" \/ ask[u].answer = "ok"

\* A pod on the list is not being closed, and close() was entered by who took it.
Counted ==
    \A u \in Ups : /\ pods = u => closing[u] = "no"
                   /\ closes[u] = IF closing[u] = "no" THEN 0 ELSE 1

Released(u) == /\ pod[u].init # "alive"
               /\ ~pod[u].ln /\ ~pod[u].fs /\ ~pod[u].ports /\ ~pod[u].loops

\* A pod has what the steps of its up have taken so far.
Takes ==
    \A u \in Ups :
        /\ ask[u].step \in {"none", "wait", "listen", "failed"} => Released(u)
        /\ ask[u].answer \in {"failed", "exists"} => Released(u)
        /\ ask[u].step = "start" => pod[u].init # "alive"
        /\ ask[u].step \in {"start", "attach"} => ~pod[u].fs
        /\ ask[u].step \in {"start", "attach", "forward"} => ~pod[u].ports
        /\ ask[u].step \in {"start", "attach", "forward", "list"} => ~pod[u].loops

\* Nobody else is being closed beside a pod that began alone, and so what it has
\* taken by name stays its own until it is closed.
KeptFree ==
    \A u \in Ups \ early :
        /\ creating = u \/ pods = u =>
              \A v \in Ups \ {u} : closing[v] \in {"no", "closed"}
        /\ closing[u] = "no" =>
              /\ ask[u].step \in {"start", "attach", "forward", "list", "done"} => sock = u
              /\ ask[u].step \in {"forward", "list", "done"} => mounts = u
        /\ pods = u => sock = u /\ mounts = u

Inv == TypeOK /\ OneBuilds /\ Counted /\ Takes /\ KeptFree

-----------------------------------------------------------------------------
\* A request that goes on to another step, or is answered.
LEMMA Went ==
    ASSUME ask \in [Ups \cup Downs -> Request], NEW r \in Ups \cup Downs, NEW s \in Steps,
           Go(r, s)
    PROVE  /\ ask' \in [Ups \cup Downs -> Request]
           /\ ask'[r].step = s /\ ask'[r].answer = ask[r].answer
           /\ \A q \in (Ups \cup Downs) \ {r} : ask'[q] = ask[q]
<1> DEFINE a == [ask[r] EXCEPT !.step = s]
<1>1. a \in Request /\ a.step = s /\ a.answer = ask[r].answer
    BY DEF Request
<1>2. ask' = [ask EXCEPT ![r] = a]
    BY DEF Go
<1> HIDE DEF a
<1> QED
    BY <1>1, <1>2

\* One that is answered is over.
LEMMA Told ==
    ASSUME ask \in [Ups \cup Downs -> Request], NEW r \in Ups \cup Downs,
           NEW what \in {"ok", "exists", "failed"}, Answer(r, what)
    PROVE  /\ ask' \in [Ups \cup Downs -> Request]
           /\ ask'[r].step = "over" /\ ask'[r].answer = what
           /\ \A q \in (Ups \cup Downs) \ {r} : ask'[q] = ask[q]
<1> DEFINE a == [step |-> "over", answer |-> what]
<1>1. a \in Request /\ a.step = "over" /\ a.answer = what
    BY DEF Request, Steps
<1>2. ask' = [ask EXCEPT ![r] = a]
    BY DEF Answer
<1> HIDE DEF a
<1> QED
    BY <1>1, <1>2

\* Who builds is alone with the name: nothing is listed, and nobody closes its pod.
LEMMA WhileBuilding ==
    ASSUME Requests, TypeOK, OneBuilds, NEW u \in Ups,
           ask[u].step \in {"listen", "start", "attach", "forward", "list"}
    PROVE  /\ creating = u /\ pods = None /\ closing[u] = "no" /\ ask[u].answer = None
           /\ \A v \in Ups \ {u} : ~Building(v)
<1>1. creating = u /\ ask[u].answer = None
    BY DEF OneBuilds, Building
<1>2. closing[u] = "no" /\ pods # u
    BY <1>1 DEF OneBuilds, Requests
<1>3. pods = None
    BY <1>1, <1>2 DEF OneBuilds, TypeOK, Requests
<1> QED
    BY <1>1, <1>2, <1>3 DEF OneBuilds

\* Nothing is up, and nobody has asked.
LEMMA InvInit == Requests /\ Init => Inv
<1> SUFFICES ASSUME Requests, Init PROVE Inv
    OBVIOUS
<1>1. TypeOK
  <2>1. ask \in [Ups \cup Downs -> Request] /\ pod \in [Ups -> Pod]
      BY DEF Init, Request, Steps, Pod, Nothing
  <2> QED
      BY <2>1 DEF Init, TypeOK
<1>2. OneBuilds /\ Counted
    BY DEF Requests, Init, OneBuilds, Counted, Building
<1>3. Takes
    BY DEF Requests, Init, Takes, Released, Nothing
<1>4. KeptFree
    BY DEF Requests, Init, KeptFree
<1> QED
    BY <1>1, <1>2, <1>3, <1>4 DEF Inv

-----------------------------------------------------------------------------
\* An up begins when nobody builds and nothing is listed, or it waits.
LEMMA InvUp == ASSUME Requests, Inv, NEW u \in Ups, Up(u) PROVE Inv'
<1> USE DEF Inv
<1>1. /\ ask \in [Ups \cup Downs -> Request] /\ None \notin Ups
      /\ ask[u].step = "none" /\ ask[u].answer = None /\ pods # u /\ closing[u] = "no"
    BY DEF TypeOK, Requests, Up, OneBuilds
<1>2. CASE pods # None
  <2>1. /\ ask' \in [Ups \cup Downs -> Request] /\ ask'[u].step = "over"
        /\ ask'[u].answer = "exists"
        /\ \A q \in (Ups \cup Downs) \ {u} : ask'[q] = ask[q]
        /\ UNCHANGED <<lists, waitsOn, early, life, names>>
      BY <1>1, <1>2, Told DEF Up
  <2>2. TypeOK' /\ Counted'
      BY <2>1 DEF TypeOK, Counted, lists, life, names
  <2>3. OneBuilds'
      BY <1>1, <2>1 DEF OneBuilds, Building, lists, life, names
  <2>4. Takes'
      BY <1>1, <2>1 DEF Takes, Released, lists, life, names
  <2>5. KeptFree'
      BY <2>1 DEF KeptFree, lists, life, names
  <2> QED
      BY <2>2, <2>3, <2>4, <2>5
<1>3. CASE pods = None /\ creating # None
  <2>1. /\ ask' \in [Ups \cup Downs -> Request] /\ ask'[u].step = "wait"
        /\ ask'[u].answer = None
        /\ \A q \in (Ups \cup Downs) \ {u} : ask'[q] = ask[q]
        /\ waitsOn' = [waitsOn EXCEPT ![u] = creating]
        /\ UNCHANGED <<lists, early, life, names>>
      BY <1>1, <1>3, Went DEF Up, Steps
  <2>2. TypeOK' /\ Counted'
      BY <2>1 DEF TypeOK, Counted, lists, life, names
  <2>3. OneBuilds'
      BY <1>1, <1>3, <2>1 DEF OneBuilds, Building, lists, life, names
  <2>4. Takes'
      BY <1>1, <2>1 DEF Takes, Released, lists, life, names
  <2>5. KeptFree'
      BY <2>1 DEF KeptFree, lists, life, names
  <2> QED
      BY <2>2, <2>3, <2>4, <2>5
<1>4. CASE pods = None /\ creating = None
  <2>1. /\ ask' \in [Ups \cup Downs -> Request] /\ ask'[u].step = "listen"
        /\ ask'[u].answer = None
        /\ \A q \in (Ups \cup Downs) \ {u} : ask'[q] = ask[q]
        /\ creating' = u /\ early' = IF Ending = {} THEN early ELSE early \cup {u}
        /\ UNCHANGED <<pods, built, waitsOn, life, names>>
      BY <1>1, <1>4, Went DEF Up, Steps
  <2>2. TypeOK' /\ Counted'
      BY <2>1 DEF TypeOK, Counted, life, names
  <2>3. OneBuilds'
      BY <1>1, <1>4, <2>1 DEF OneBuilds, Building, life, names
  <2>4. Takes'
      BY <1>1, <2>1 DEF Takes, Released, life, names
  <2>5. KeptFree'
      BY <1>1, <1>4, <2>1 DEF KeptFree, Ending, life, names
  <2> QED
      BY <2>2, <2>3, <2>4, <2>5
<1> QED
    BY <1>2, <1>3, <1>4

\* One that waited is answered, and has built nothing.
LEMMA InvWait == ASSUME Requests, Inv, NEW u \in Ups, Wait(u) PROVE Inv'
<1> USE DEF Inv
<1>1. PICK what \in {"exists", "failed"} : Answer(u, what)
    BY DEF Wait
<1>2. /\ ask' \in [Ups \cup Downs -> Request]
      /\ ask'[u].step = "over" /\ ask'[u].answer = what
      /\ \A q \in (Ups \cup Downs) \ {u} : ask'[q] = ask[q]
      /\ UNCHANGED <<lists, waitsOn, life, names, early>>
      /\ ask[u].step = "wait" /\ ask[u].answer = None
    BY <1>1, Told DEF Wait, TypeOK, OneBuilds
<1>3. TypeOK' /\ Counted'
    BY <1>2 DEF TypeOK, Counted, lists, life, names
<1>4. OneBuilds'
    BY <1>2 DEF Requests, OneBuilds, Building, lists, life, names
<1>5. Takes'
    BY <1>2 DEF Takes, Released, lists, life, names
<1>6. KeptFree'
    BY <1>2 DEF KeptFree, lists, life, names
<1> QED
    BY <1>3, <1>4, <1>5, <1>6

\* The path of the name is this pod's, since no other one builds.
LEMMA InvListen == ASSUME Requests, Inv, NEW u \in Ups, Listen(u) PROVE Inv'
<1> USE DEF Inv
<1>1. /\ ask' \in [Ups \cup Downs -> Request]
      /\ ask'[u].step = "start" /\ ask'[u].answer = ask[u].answer
      /\ \A q \in (Ups \cup Downs) \ {u} : ask'[q] = ask[q]
      /\ UNCHANGED <<lists, waitsOn, closing, closes, mounts, early>> /\ sock' = u
      /\ ask[u].step = "listen" /\ creating = u /\ pods = None /\ closing[u] = "no"
      /\ ask[u].answer = None
    BY Went, WhileBuilding DEF Listen, TypeOK, Steps
<1>2. PICK p \in Pod : /\ pod' = [pod EXCEPT ![u] = p]
                       /\ p.init = pod[u].init /\ p.fs = pod[u].fs
                       /\ p.ports = pod[u].ports /\ p.loops = pod[u].loops
  <2> DEFINE p == [pod[u] EXCEPT !.ln = TRUE]
  <2>1. /\ p \in Pod /\ p.init = pod[u].init /\ p.fs = pod[u].fs
        /\ p.ports = pod[u].ports /\ p.loops = pod[u].loops
      BY DEF Pod, TypeOK
  <2>2. pod' = [pod EXCEPT ![u] = p]
      BY DEF Listen
  <2> QED
      BY <2>1, <2>2
<1>3. pod' \in [Ups -> Pod] /\ pod'[u] = p /\ \A v \in Ups \ {u} : pod'[v] = pod[v]
    BY <1>2 DEF TypeOK
<1>4. TypeOK' /\ Counted'
    BY <1>1, <1>3 DEF TypeOK, Counted, lists
<1>5. OneBuilds'
    BY <1>1 DEF Requests, OneBuilds, Building, lists
<1>6. Takes'
    BY <1>1, <1>2, <1>3 DEF Takes, Released, Requests
<1>7. KeptFree'
    BY <1>1 DEF Requests, KeptFree, OneBuilds, Building, lists
<1> QED
    BY <1>4, <1>5, <1>6, <1>7

\* A half-built pod that fails gives back the mounts and the listener; the rest it
\* has not got, or lets go of first.
LEMMA InvCloseFailed ==
    ASSUME Requests, Inv, NEW u \in Ups, ask[u].step \in {"start", "attach", "forward"},
           NEW p \in Pod, p.init # "alive", ~p.ports, ~p.loops, CloseFailed(u, p),
           UNCHANGED <<lists, waitsOn, closing, closes, early>>
    PROVE  Inv'
<1> USE DEF Inv
<1>1. /\ ask' \in [Ups \cup Downs -> Request]
      /\ ask'[u].step = "failed" /\ ask'[u].answer = None
      /\ \A q \in (Ups \cup Downs) \ {u} : ask'[q] = ask[q]
      /\ creating = u /\ pods = None /\ closing[u] = "no"
      /\ \A v \in Ups \ {u} : ~Building(v)
    BY Went, WhileBuilding DEF CloseFailed, TypeOK, Steps
<1>2. PICK q \in Pod : pod' = [pod EXCEPT ![u] = q] /\ q.init # "alive"
                       /\ ~q.ln /\ ~q.fs /\ ~q.ports /\ ~q.loops
  <2> DEFINE q == [p EXCEPT !.ln = FALSE, !.fs = FALSE]
  <2>1. q \in Pod /\ q.init # "alive" /\ ~q.ln /\ ~q.fs /\ ~q.ports /\ ~q.loops
      BY DEF Pod
  <2>2. pod' = [pod EXCEPT ![u] = q]
      BY DEF CloseFailed
  <2> QED
      BY <2>1, <2>2
<1>3. pod' \in [Ups -> Pod] /\ pod'[u] = q /\ \A v \in Ups \ {u} : pod'[v] = pod[v]
    BY <1>2 DEF TypeOK
<1>4. sock' = None /\ mounts' \in Ups \cup {None}
    BY DEF CloseFailed, TypeOK
<1>5. TypeOK' /\ Counted'
    BY <1>1, <1>3, <1>4 DEF TypeOK, Counted, lists
<1>6. OneBuilds'
    BY <1>1 DEF Requests, OneBuilds, Building, lists
<1>7. Takes'
    BY <1>1, <1>2, <1>3 DEF Takes, Released, Requests
<1>8. KeptFree'
    BY <1>1 DEF Requests, KeptFree, Building, lists
<1> QED
    BY <1>5, <1>6, <1>7, <1>8

\* A step of an up that goes on to the next one, with a pod that has all it had.
LEMMA InvBuilds ==
    ASSUME Requests, Inv, NEW u \in Ups, NEW p \in Pod, NEW step \in Steps,
           <<ask[u].step, step>> \in {<<"start", "attach">>, <<"attach", "forward">>,
                                      <<"forward", "list">>},
           Go(u, step), pod' = [pod EXCEPT ![u] = p],
           step = "attach" => ~p.fs,
           step \in {"attach", "forward"} => ~p.ports,
           ~p.loops,
           step = "forward" => mounts' = u, step # "forward" => mounts' = mounts,
           UNCHANGED <<lists, waitsOn, closing, closes, sock, early>>
    PROVE  Inv'
<1> USE DEF Inv
<1>1. /\ ask' \in [Ups \cup Downs -> Request]
      /\ ask'[u].step = step /\ ask'[u].answer = None
      /\ \A q \in (Ups \cup Downs) \ {u} : ask'[q] = ask[q]
      /\ creating = u /\ pods = None /\ closing[u] = "no"
      /\ \A v \in Ups \ {u} : ~Building(v)
    BY Went, WhileBuilding DEF TypeOK
<1>2. pod' \in [Ups -> Pod] /\ pod'[u] = p /\ \A v \in Ups \ {u} : pod'[v] = pod[v]
    BY DEF TypeOK
<1>3. step \in {"attach", "forward", "list"} /\ ask[u].step \in {"start", "attach", "forward"}
    OBVIOUS
<1>4. TypeOK' /\ Counted'
    BY <1>1, <1>2, <1>3 DEF TypeOK, Counted, lists
<1>5. OneBuilds'
    BY <1>1, <1>3 DEF Requests, OneBuilds, Building, lists
<1>6. Takes'
    BY <1>1, <1>2, <1>3 DEF Takes, Released, Requests
<1>7. KeptFree'
    BY <1>1, <1>3 DEF Requests, KeptFree, Building, lists
<1> QED
    BY <1>4, <1>5, <1>6, <1>7

\* vpinit runs and is read, or the half-built pod is released.
LEMMA InvStart == ASSUME Requests, Inv, NEW u \in Ups, Start(u) PROVE Inv'
<1> USE DEF Inv
<1>1. pod[u] \in Pod /\ ask[u].step = "start" /\ pod[u].init # "alive"
      /\ ~pod[u].fs /\ ~pod[u].ports /\ ~pod[u].loops
      /\ UNCHANGED <<lists, waitsOn, closing, closes, early>>
    BY DEF Start, TypeOK, Takes
<1>2. CASE CloseFailed(u, pod[u])
    BY <1>1, <1>2, InvCloseFailed
<1>3. CASE ~CloseFailed(u, pod[u])
  <2> DEFINE p == [pod[u] EXCEPT !.init = "alive", !.reader = TRUE]
  <2>1. p \in Pod /\ ~p.fs /\ ~p.ports /\ ~p.loops
      BY <1>1 DEF Pod
  <2>2. pod' = [pod EXCEPT ![u] = p] /\ Go(u, "attach") /\ UNCHANGED names
      BY <1>3 DEF Start
  <2> HIDE DEF p
  <2> QED
      BY <1>1, <2>1, <2>2, InvBuilds DEF names, Steps
<1> QED
    BY <1>2, <1>3

\* The mountpoints are taken, or released with as many mounts as were made.
LEMMA InvAttach == ASSUME Requests, Inv, NEW u \in Ups, Attach(u) PROVE Inv'
<1> USE DEF Inv
<1>1. pod[u] \in Pod /\ ask[u].step = "attach" /\ ~pod[u].ports /\ ~pod[u].loops
      /\ UNCHANGED <<lists, waitsOn, closing, closes, early>>
    BY DEF Attach, TypeOK, Takes
<1>2. ASSUME NEW some \in BOOLEAN,
             CloseFailed(u, [pod[u] EXCEPT !.init = "dead", !.fs = some])
      PROVE  Inv'
  <2> DEFINE p == [pod[u] EXCEPT !.init = "dead", !.fs = some]
  <2>1. p \in Pod /\ p.init # "alive" /\ ~p.ports /\ ~p.loops
      BY <1>1 DEF Pod
  <2>2. CloseFailed(u, p)
      BY <1>2
  <2> HIDE DEF p
  <2> QED
      BY <1>1, <2>1, <2>2, InvCloseFailed
<1>3. ASSUME pod' = [pod EXCEPT ![u].fs = TRUE], mounts' = u, Go(u, "forward"),
             UNCHANGED sock
      PROVE  Inv'
  <2> DEFINE p == [pod[u] EXCEPT !.fs = TRUE]
  <2>1. p \in Pod /\ ~p.ports /\ ~p.loops
      BY <1>1 DEF Pod
  <2>2. pod' = [pod EXCEPT ![u] = p]
      BY <1>3
  <2> HIDE DEF p
  <2> QED
      BY <1>1, <1>3, <2>1, <2>2, InvBuilds DEF Steps
<1> QED
    BY <1>2, <1>3 DEF Attach

\* The ports are forwarded, or the pod is released.
LEMMA InvForward == ASSUME Requests, Inv, NEW u \in Ups, Forward(u) PROVE Inv'
<1> USE DEF Inv
<1>1. pod[u] \in Pod /\ ask[u].step = "forward" /\ ~pod[u].ports /\ ~pod[u].loops
      /\ UNCHANGED <<lists, waitsOn, closing, closes, early>>
    BY DEF Forward, TypeOK, Takes
<1>2. CASE CloseFailed(u, [pod[u] EXCEPT !.init = "dead"])
  <2> DEFINE p == [pod[u] EXCEPT !.init = "dead"]
  <2>1. p \in Pod /\ p.init # "alive" /\ ~p.ports /\ ~p.loops
      BY <1>1 DEF Pod
  <2>2. CloseFailed(u, p)
      BY <1>2
  <2> HIDE DEF p
  <2> QED
      BY <1>1, <2>1, <2>2, InvCloseFailed
<1>3. CASE ~CloseFailed(u, [pod[u] EXCEPT !.init = "dead"])
  <2> DEFINE p == [pod[u] EXCEPT !.ports = TRUE]
  <2>1. p \in Pod /\ ~p.loops
      BY <1>1 DEF Pod
  <2>2. pod' = [pod EXCEPT ![u] = p] /\ Go(u, "list") /\ UNCHANGED names
      BY <1>3 DEF Forward
  <2> HIDE DEF p
  <2> QED
      BY <1>1, <2>1, <2>2, InvBuilds DEF names, Steps
<1> QED
    BY <1>2, <1>3

\* The pod is listed, with the socket and the mounts it has taken.
LEMMA InvList == ASSUME Requests, Inv, NEW u \in Ups, List(u) PROVE Inv'
<1> USE DEF Inv
<1>1. /\ ask' \in [Ups \cup Downs -> Request]
      /\ ask'[u].step = "done" /\ ask'[u].answer = None
      /\ \A q \in (Ups \cup Downs) \ {u} : ask'[q] = ask[q]
      /\ creating = u /\ pods = None /\ pods' = u /\ closing[u] = "no"
      /\ ask[u].step = "list" /\ \A v \in Ups \ {u} : ~Building(v)
      /\ UNCHANGED <<creating, built, waitsOn, closing, closes, names, early>>
    BY Went, WhileBuilding DEF List, TypeOK, Steps
<1>2. PICK p \in Pod : pod' = [pod EXCEPT ![u] = p]
  <2> DEFINE p == [pod[u] EXCEPT !.loops = TRUE]
  <2>1. p \in Pod /\ pod' = [pod EXCEPT ![u] = p]
      BY DEF List, Pod, TypeOK
  <2> QED
      BY <2>1
<1>3. pod' \in [Ups -> Pod] /\ pod'[u] = p /\ \A v \in Ups \ {u} : pod'[v] = pod[v]
    BY <1>2 DEF TypeOK
<1>4. TypeOK' /\ Counted'
    BY <1>1, <1>3 DEF TypeOK, Counted, names
<1>5. OneBuilds'
    BY <1>1 DEF Requests, OneBuilds, Building
<1>6. Takes'
    BY <1>1, <1>3 DEF Takes, Released, Requests
<1>7. KeptFree'
    BY <1>1 DEF Requests, KeptFree, Building, names
<1> QED
    BY <1>4, <1>5, <1>6, <1>7

\* The name is free to be built again, and the answer says how it went.
LEMMA InvFinish == ASSUME Requests, Inv, NEW u \in Ups, Finish(u) PROVE Inv'
<1> USE DEF Inv
<1>1. PICK what \in {"ok", "failed"} :
         Answer(u, what) /\ what = IF ask[u].step = "done" THEN "ok" ELSE "failed"
    BY DEF Finish
<1>2. /\ ask' \in [Ups \cup Downs -> Request]
      /\ ask'[u].step = "over" /\ ask'[u].answer = what
      /\ \A q \in (Ups \cup Downs) \ {u} : ask'[q] = ask[q]
      /\ creating = u /\ creating' = None /\ built' = built \cup {u}
      /\ ask[u].step \in {"done", "failed"}
      /\ UNCHANGED <<pods, waitsOn, life, names, early>>
    BY <1>1, Told DEF Finish, TypeOK, OneBuilds, Building
<1>3. TypeOK' /\ Counted'
    BY <1>2 DEF TypeOK, Counted, life, names
<1>4. OneBuilds'
    BY <1>1, <1>2 DEF Requests, OneBuilds, Building, life
<1>5. Takes'
    BY <1>1, <1>2 DEF Takes, Released, life
<1>6. KeptFree'
    BY <1>2 DEF Requests, KeptFree, life, names
<1> QED
    BY <1>3, <1>4, <1>5, <1>6

-----------------------------------------------------------------------------
\* What takes a pod from the list is the first to close it, and the list is empty.
LEMMA InvTake ==
    ASSUME Requests, Inv, Take(pods), pod' \in [Ups -> Pod],
           \A u \in Ups : /\ Released(u) => Released(u)'
                          /\ pod[u].init # "alive" => pod'[u].init # "alive"
                          /\ pod'[u].fs = pod[u].fs /\ pod'[u].ports = pod[u].ports
                          /\ pod'[u].loops = pod[u].loops,
           ask' \in [Ups \cup Downs -> Request], \A u \in Ups : ask'[u] = ask[u],
           waitsOn' \in [Ups \cup Downs -> Ups \cup {None}],
           UNCHANGED <<names, early>>
    PROVE  Inv'
<1> USE DEF Inv
<1>1. /\ pods' = None /\ UNCHANGED <<creating, built>>
      /\ closing' \in [Ups -> {"no", "stop", "release", "kill", "unmount", "closed"}]
      /\ \A u \in Ups : closing'[u] = IF pods = u THEN "stop" ELSE closing[u]
    BY DEF Take, TypeOK, Requests
<1>2. /\ closes' \in [Ups -> Nat]
      /\ \A u \in Ups : closes'[u] = IF pods = u THEN closes[u] + 1 ELSE closes[u]
  <2>1. closes \in [Ups -> Nat]
      BY DEF TypeOK
  <2>2. CASE pods = None
      BY <2>1, <2>2 DEF Take, Requests
  <2>3. CASE pods # None
    <3>1. pods \in Ups /\ closes' = [closes EXCEPT ![pods] = closes[pods] + 1]
        BY <2>3 DEF Take, TypeOK
    <3> QED
        BY <2>1, <3>1
  <2> QED
      BY <2>2, <2>3
<1>3. TypeOK'
    BY <1>1, <1>2 DEF TypeOK, names
<1>4. Counted'
    BY <1>1, <1>2 DEF Counted, Requests
<1>5. OneBuilds'
    BY <1>1 DEF Requests, OneBuilds, Building
<1>6. Takes'
    BY DEF Takes
<1>7. KeptFree'
    BY <1>1 DEF Requests, KeptFree, OneBuilds, names
<1> QED
    BY <1>3, <1>4, <1>5, <1>6, <1>7

\* A down takes what is listed, whichever up it belongs to.
LEMMA InvDown == ASSUME Requests, Inv, NEW r \in Downs, Down(r) PROVE Inv'
<1> USE DEF Inv
<1>1. ask' \in [Ups \cup Downs -> Request] /\ \A u \in Ups : ask'[u] = ask[u]
  <2>1. ask \in [Ups \cup Downs -> Request] /\ \A u \in Ups : u # r
      BY DEF TypeOK, Requests
  <2>2. Answer(r, "failed") \/ Go(r, "closing")
      BY DEF Down
  <2>3. CASE Answer(r, "failed")
      BY <2>1, <2>3, Told
  <2>4. CASE Go(r, "closing")
      BY <2>1, <2>4, Went DEF Steps
  <2> QED
      BY <2>2, <2>3, <2>4
<1>2. waitsOn' \in [Ups \cup Downs -> Ups \cup {None}]
    BY DEF Down, TypeOK
<1>3. Take(pods) /\ UNCHANGED <<pod, names, early>>
    BY DEF Down
<1> QED
    BY <1>1, <1>2, <1>3, InvTake DEF TypeOK, Released

\* readLoop: a dead pod's name leaves the list, whoever has it.
LEMMA InvReadEnds == ASSUME Requests, Inv, NEW u \in Ups, ReadEnds(u) PROVE Inv'
<1> USE DEF Inv
<1> DEFINE p == [pod[u] EXCEPT !.reader = FALSE]
<1>1. /\ p \in Pod /\ p.init = pod[u].init /\ p.ln = pod[u].ln /\ p.fs = pod[u].fs
      /\ p.ports = pod[u].ports /\ p.loops = pod[u].loops
    BY DEF Pod, TypeOK
<1>2. pod' = [pod EXCEPT ![u] = p]
    BY DEF ReadEnds
<1> HIDE DEF p
<1>3. pod' \in [Ups -> Pod] /\ pod'[u] = p /\ \A v \in Ups \ {u} : pod'[v] = pod[v]
    BY <1>1, <1>2 DEF TypeOK
<1>4. \A v \in Ups : /\ Released(v) => Released(v)'
                     /\ pod[v].init # "alive" => pod'[v].init # "alive"
                     /\ pod'[v].fs = pod[v].fs /\ pod'[v].ports = pod[v].ports
                     /\ pod'[v].loops = pod[v].loops
    BY <1>1, <1>3 DEF Released
<1>5. Take(pods) /\ UNCHANGED <<asks, names, early>>
    BY DEF ReadEnds
<1> QED
    BY <1>3, <1>4, <1>5, InvTake DEF asks, TypeOK

\* A down is answered when the pod it took is closed.
LEMMA InvDownDone == ASSUME Requests, Inv, NEW r \in Downs, DownDone(r) PROVE Inv'
<1> USE DEF Inv
<1>1. /\ ask' \in [Ups \cup Downs -> Request] /\ \A u \in Ups : ask'[u] = ask[u]
      /\ UNCHANGED <<lists, waitsOn, life, names, early>>
    BY Told DEF DownDone, TypeOK, Requests
<1>2. TypeOK' /\ OneBuilds' /\ Counted'
    BY <1>1 DEF TypeOK, OneBuilds, Building, Counted, lists, life, names
<1>3. Takes' /\ KeptFree'
    BY <1>1 DEF Takes, Released, KeptFree, lists, life, names
<1> QED
    BY <1>2, <1>3

\* A process that dies leaves the rest of its pod where it was.
LEMMA InvDie == ASSUME Requests, Inv, NEW u \in Ups, Die(u) PROVE Inv'
<1> USE DEF Inv
<1> DEFINE p == [pod[u] EXCEPT !.init = "dead"]
<1>1. /\ p \in Pod /\ p.init = "dead" /\ p.ln = pod[u].ln /\ p.fs = pod[u].fs
      /\ p.ports = pod[u].ports /\ p.loops = pod[u].loops
    BY DEF Pod, TypeOK
<1>2. pod' = [pod EXCEPT ![u] = p]
    BY DEF Die
<1> HIDE DEF p
<1>3. /\ pod' \in [Ups -> Pod] /\ pod'[u] = p /\ \A v \in Ups \ {u} : pod'[v] = pod[v]
      /\ UNCHANGED <<lists, asks, closing, closes, names, early>>
    BY <1>1, <1>2 DEF TypeOK, Die
<1>4. TypeOK' /\ OneBuilds' /\ Counted'
    BY <1>3 DEF TypeOK, OneBuilds, Building, Counted, lists, asks, names
<1>5. Takes'
    BY <1>1, <1>3 DEF Takes, Released, asks
<1>6. KeptFree'
    BY <1>3 DEF KeptFree, lists, asks, names
<1> QED
    BY <1>4, <1>5, <1>6

\* A pod that is being closed lets go of what it has, and no pod that began alone
\* is up beside it.
LEMMA InvClose == ASSUME Requests, Inv, NEW u \in Ups, Close(u) PROVE Inv'
<1> USE DEF Inv
<1> DEFINE next == IF closing[u] = "stop" THEN "release"
                   ELSE IF closing[u] = "release" THEN "kill"
                   ELSE IF closing[u] = "kill" THEN "unmount" ELSE "closed"
<1>1. /\ closing[u] \in {"stop", "release", "kill", "unmount"}
      /\ closing' = [closing EXCEPT ![u] = next]
      /\ UNCHANGED <<lists, asks, closes, early>>
      /\ sock' \in {sock, None} /\ mounts' \in {mounts, None}
  <2>1. CASE CloseStop(u)
      BY <2>1 DEF CloseStop
  <2>2. CASE CloseRelease(u)
      BY <2>2 DEF CloseRelease, names
  <2>3. CASE CloseKill(u)
      BY <2>3 DEF CloseKill, names
  <2>4. CASE CloseUnmount(u)
      BY <2>4 DEF CloseUnmount
  <2> QED
      BY <2>1, <2>2, <2>3, <2>4 DEF Close
<1>2. PICK p \in Pod : /\ pod' = [pod EXCEPT ![u] = p]
                       /\ pod[u].init # "alive" => p.init # "alive"
                       /\ ~pod[u].ln => ~p.ln
                       /\ ~pod[u].fs => ~p.fs
                       /\ ~pod[u].ports => ~p.ports
                       /\ ~pod[u].loops => ~p.loops
  <2>1. pod[u] \in Pod
      BY DEF TypeOK
  <2>2. CASE CloseStop(u)
    <3> DEFINE p == [pod[u] EXCEPT !.loops = FALSE, !.ln = FALSE]
    <3>1. /\ p \in Pod /\ p.init = pod[u].init /\ ~p.ln /\ p.fs = pod[u].fs
          /\ p.ports = pod[u].ports /\ ~p.loops
        BY <2>1 DEF Pod
    <3>2. pod' = [pod EXCEPT ![u] = p]
        BY <2>2 DEF CloseStop
    <3> HIDE DEF p
    <3> QED
        BY <3>1, <3>2
  <2>3. CASE CloseRelease(u)
    <3> DEFINE p == [pod[u] EXCEPT !.ports = FALSE]
    <3>1. /\ p \in Pod /\ p.init = pod[u].init /\ p.ln = pod[u].ln /\ p.fs = pod[u].fs
          /\ ~p.ports /\ p.loops = pod[u].loops
        BY <2>1 DEF Pod
    <3>2. pod' = [pod EXCEPT ![u] = p]
        BY <2>3 DEF CloseRelease
    <3> HIDE DEF p
    <3> QED
        BY <3>1, <3>2
  <2>4. CASE CloseKill(u)
    <3> DEFINE p == [pod[u] EXCEPT !.init = "dead"]
    <3>1. /\ p \in Pod /\ p.init = "dead" /\ p.ln = pod[u].ln /\ p.fs = pod[u].fs
          /\ p.ports = pod[u].ports /\ p.loops = pod[u].loops
        BY <2>1 DEF Pod
    <3>2. pod' = [pod EXCEPT ![u] = p]
        BY <2>4 DEF CloseKill
    <3> HIDE DEF p
    <3> QED
        BY <3>1, <3>2
  <2>5. CASE CloseUnmount(u)
    <3> DEFINE p == [pod[u] EXCEPT !.fs = FALSE]
    <3>1. /\ p \in Pod /\ p.init = pod[u].init /\ p.ln = pod[u].ln /\ ~p.fs
          /\ p.ports = pod[u].ports /\ p.loops = pod[u].loops
        BY <2>1 DEF Pod
    <3>2. pod' = [pod EXCEPT ![u] = p]
        BY <2>5 DEF CloseUnmount
    <3> HIDE DEF p
    <3> QED
        BY <3>1, <3>2
  <2> QED
      BY <2>2, <2>3, <2>4, <2>5 DEF Close
<1>3. /\ pod' \in [Ups -> Pod] /\ pod'[u] = p
      /\ \A v \in Ups \ {u} : pod'[v] = pod[v]
      /\ closing' \in [Ups -> {"no", "stop", "release", "kill", "unmount", "closed"}]
      /\ closing'[u] # "no" /\ \A v \in Ups \ {u} : closing'[v] = closing[v]
    BY <1>1, <1>2 DEF TypeOK
<1> HIDE DEF next
<1>4. TypeOK'
    BY <1>1, <1>3 DEF TypeOK, lists, asks
<1>5. OneBuilds' /\ Counted'
    BY <1>1, <1>3 DEF OneBuilds, Building, Counted, lists, asks
<1>6. Takes'
    BY <1>1, <1>2, <1>3 DEF Takes, Released, asks
<1>7. KeptFree'
  <2>1. \A v \in Ups \ early : v # u => ~(creating = v \/ pods = v)
      BY <1>1 DEF KeptFree
  <2>2. \A v \in Ups \ early : v # u => ~Building(v)
      BY <2>1 DEF OneBuilds
  <2>3. pods # u
      BY <1>1 DEF Counted
  <2>4. creating = u => \A v \in Ups \ {u} : closing'[v] = closing[v]
      BY <1>3
  <2> QED
      BY <1>1, <1>3, <2>1, <2>2, <2>3 DEF KeptFree, Building, lists, asks
<1> QED
    BY <1>4, <1>5, <1>6, <1>7

-----------------------------------------------------------------------------
\* Every step keeps it.
LEMMA InvNext == Requests /\ Inv /\ [Next]_vars => Inv'
<1> SUFFICES ASSUME Requests, Inv, [Next]_vars PROVE Inv'
    OBVIOUS
<1>1. ASSUME NEW u \in Ups, Up(u) \/ Wait(u) \/ Listen(u) \/ Start(u) \/ Attach(u)
      PROVE  Inv'
    BY <1>1, InvUp, InvWait, InvListen, InvStart, InvAttach
<1>2. ASSUME NEW u \in Ups, Forward(u) \/ List(u) \/ Finish(u) PROVE Inv'
    BY <1>2, InvForward, InvList, InvFinish
<1>3. ASSUME NEW u \in Ups, Die(u) \/ ReadEnds(u) \/ Close(u) PROVE Inv'
    BY <1>3, InvDie, InvReadEnds, InvClose
<1>4. ASSUME NEW r \in Downs, Down(r) \/ DownDone(r) PROVE Inv'
    BY <1>4, InvDown, InvDownDone
<1>5. CASE UNCHANGED vars
    BY <1>5 DEF Inv, TypeOK, OneBuilds, Building, Counted, Takes, Released, KeptFree,
                vars, lists, asks, life, names
<1> QED
    BY <1>1, <1>2, <1>3, <1>4, <1>5 DEF Next, UpStep

\* The inductive invariant holds, for any requests in whatever order.
THEOREM InvAlways == ASSUME Requests PROVE Spec => []Inv
<1>1. Init => Inv
    BY InvInit
<1>2. Inv /\ [Next]_vars => Inv'
    BY InvNext
<1> QED
    BY <1>1, <1>2, PTL DEF Spec

\* For any requests, in whatever order they come and fail, the state has its types
\* (daemon.go's pods and creating, pod.go's podState).
THEOREM LifecycleTypeCorrect == ASSUME Requests PROVE Spec => []TypeOK
<1>1. Inv => TypeOK
    BY DEF Inv
<1> QED
    BY <1>1, InvAlways, PTL

\* For any number of ups of one name, a pod that began when the earlier ones were
\* over keeps its socket and its mounts until somebody closes it (daemon.go:463).
THEOREM PodKeepsItsOwn == ASSUME Requests PROVE Spec => []KeepsItsOwn
<1>1. Inv => KeepsItsOwn
    BY DEF Inv, KeptFree, KeepsItsOwn
<1> QED
    BY <1>1, InvAlways, PTL

\* However downs, a shutdown and deaths meet, no pod is closed twice
\* (daemon.go:797, 810).
THEOREM PodClosedOnce == ASSUME Requests PROVE Spec => []ClosedOnce
<1>1. Inv => ClosedOnce
    BY DEF Inv, Counted, ClosedOnce
<1> QED
    BY <1>1, InvAlways, PTL

\* An up that failed, at whichever step, leaves nothing behind (daemon.go:686).
THEOREM PodFailedLeavesNothing == ASSUME Requests PROVE Spec => []FailedLeavesNothing
<1>1. Inv => FailedLeavesNothing
    BY DEF Inv, Takes, Released, FailedLeavesNothing
<1> QED
    BY <1>1, InvAlways, PTL

-------------------------------------------------------------------------------
(* The daemon that serves.                                                   *)

\* Daemons start one after the other, and clients wait for a daemon that starts.
OneAtATime == None \notin Daemons /\ {"together", "late"} \cap StartFaults = {}

\* At most one daemon starts or ends.
Single == \A d, e \in DS!Starting \cup DS!Ending : d = e

NobodyServes == \A d \in Daemons : stage[d] # "serving"

\* Whoever has found that nobody answers is alone with the path, and has it to
\* itself from the removal on.
HasThePath ==
    \A d \in Daemons :
        /\ stage[d] \in {"remove", "listen", "version", "closing"} => NobodyServes
        /\ stage[d] = "listen" => path = None
        /\ stage[d] = "version" => path = d
        /\ stage[d] = "closing" => d \in ended

\* The daemon a client started has met no other, and is over only when somebody
\* ended it.
Spawned ==
    \A c \in Clients :
        /\ client[c] = "waiting" => spawned[c] # None
        /\ spawned[c] # None => /\ stage[spawned[c]] # "none"
                                /\ stage[spawned[c]] = "live" => NobodyServes
                                /\ stage[spawned[c]] = "over" => spawned[c] \in ended

StartInv == DS!TypeOK /\ Single /\ HasThePath /\ DS!ServesWhereItIsFound /\ Spawned /\ DS!StartsOverTheStale

Stages == {"none", "live", "remove", "listen", "version", "serving", "closing", "over"}

-----------------------------------------------------------------------------
\* A daemon that goes from one stage to another.
LEMMA StartWent ==
    ASSUME DS!TypeOK, NEW d \in Daemons, NEW s \in Stages, stage' = [stage EXCEPT ![d] = s]
    PROVE  /\ stage' \in [Daemons -> Stages] /\ stage'[d] = s
           /\ \A e \in Daemons \ {d} : stage'[e] = stage[e]
BY DEF DS!TypeOK, Stages

\* What begins, begins alone.
LEMMA Begun ==
    ASSUME OneAtATime, StartInv, NEW d \in Daemons, DS!Begin(d)
    PROVE  /\ stage[d] = "none" /\ stage' = [stage EXCEPT ![d] = "live"]
           /\ stage' \in [Daemons -> Stages] /\ stage'[d] = "live"
           /\ \A e \in Daemons \ {d} :
                 stage'[e] = stage[e] /\ stage[e] \in {"none", "serving", "over"}
           /\ Single'
<1>1. /\ stage[d] = "none" /\ stage' = [stage EXCEPT ![d] = "live"]
      /\ DS!Starting \cup DS!Ending = {}
    BY DEF DS!Begin, DS!Alone, OneAtATime
<1>2. /\ stage' \in [Daemons -> Stages] /\ stage'[d] = "live"
      /\ \A e \in Daemons \ {d} : stage'[e] = stage[e]
    BY <1>1, StartWent DEF StartInv, Stages
<1>3. \A e \in Daemons : stage[e] \in {"none", "serving", "over"}
    BY <1>1 DEF DS!Starting, DS!Ending, StartInv, DS!TypeOK
<1>4. Single'
    BY <1>2, <1>3 DEF Single, DS!Starting, DS!Ending
<1> QED
    BY <1>1, <1>2, <1>3, <1>4

\* Nothing runs, and there is no path.
LEMMA StartInvInit == ASSUME OneAtATime, DS!Init PROVE StartInv
BY DEF OneAtATime, DS!Init, StartInv, DS!TypeOK, Single, DS!Starting, DS!Ending,
       HasThePath,
       DS!ServesWhereItIsFound, Spawned, DS!StartsOverTheStale

\* A client that finds nobody answering starts a daemon, and nobody serves.
LEMMA StartInvConnect ==
    ASSUME OneAtATime, StartInv, NEW c \in Clients, DS!Connect(c)
    PROVE  StartInv'
<1> USE DEF StartInv
<1>1. CASE DS!Answers(path) /\ UNCHANGED stage
  <2>1. /\ client \in [Clients -> {"none", "waiting", "connected", "failed"}]
        /\ client' = [client EXCEPT ![c] = "connected"]
        /\ UNCHANGED <<path, version, stage, spawned, ended>>
      BY <1>1 DEF DS!Connect, DS!TypeOK, DS!Begin, DS!Answers
  <2>2. /\ client' \in [Clients -> {"none", "waiting", "connected", "failed"}]
        /\ client'[c] = "connected" /\ \A b \in Clients \ {c} : client'[b] = client[b]
      BY <2>1
  <2>3. DS!TypeOK' /\ Single'
      BY <2>1, <2>2 DEF DS!TypeOK, Single, DS!Starting, DS!Ending
  <2>4. HasThePath' /\ DS!ServesWhereItIsFound'
      BY <2>1 DEF HasThePath, NobodyServes, DS!ServesWhereItIsFound
  <2>5. Spawned' /\ DS!StartsOverTheStale'
      BY <2>1, <2>2 DEF Spawned, DS!StartsOverTheStale, NobodyServes
  <2> QED
      BY <2>3, <2>4, <2>5
<1>2. CASE ~DS!Answers(path)
  <2>1. PICK d \in Daemons : DS!Begin(d) /\ spawned' = [spawned EXCEPT ![c] = d]
      BY <1>2 DEF DS!Connect
  <2>2. /\ client' = [client EXCEPT ![c] = "waiting"]
        /\ UNCHANGED <<path, version, ended>>
      BY <1>2 DEF DS!Connect
  <2>3. /\ stage[d] = "none" /\ Single'
        /\ stage' \in [Daemons -> Stages] /\ stage'[d] = "live"
        /\ \A e \in Daemons \ {d} :
              stage'[e] = stage[e] /\ stage[e] \in {"none", "serving", "over"}
      BY <2>1, Begun
  <2>4. NobodyServes /\ NobodyServes'
      BY <1>2, <2>3 DEF NobodyServes, DS!ServesWhereItIsFound, DS!Answers, OneAtATime
  <2>5. /\ client' \in [Clients -> {"none", "waiting", "connected", "failed"}]
        /\ client'[c] = "waiting" /\ \A b \in Clients \ {c} : client'[b] = client[b]
        /\ spawned' \in [Clients -> Daemons \cup {None}]
        /\ spawned'[c] = d /\ \A b \in Clients \ {c} : spawned'[b] = spawned[b]
      BY <2>1, <2>2 DEF DS!TypeOK
  <2>6. DS!TypeOK'
      BY <2>2, <2>3, <2>5 DEF DS!TypeOK, Stages
  <2>7. HasThePath' /\ DS!ServesWhereItIsFound'
      BY <2>2, <2>3, <2>4 DEF HasThePath, NobodyServes, DS!ServesWhereItIsFound
  <2>8. Spawned'
      BY <2>2, <2>3, <2>4, <2>5 DEF Spawned, DS!TypeOK, OneAtATime
  <2>9. DS!StartsOverTheStale'
      BY <2>2, <2>5 DEF DS!StartsOverTheStale
  <2> QED
      BY <2>3, <2>6, <2>7, <2>8, <2>9
<1> QED
    BY <1>1, <1>2 DEF DS!Connect

\* A client finds its daemon, or gives up on one that is over.
LEMMA StartInvClient ==
    ASSUME OneAtATime, StartInv, NEW c \in Clients, DS!Retry(c) \/ DS!GiveUp(c)
    PROVE  StartInv'
<1> USE DEF StartInv
<1>1. /\ UNCHANGED <<path, version, stage, spawned, ended>> /\ client[c] = "waiting"
      /\ \/ client' = [client EXCEPT ![c] = "connected"]
         \/ /\ client' = [client EXCEPT ![c] = "failed"]
            /\ stage[spawned[c]] \in {"closing", "over"}
    BY DEF DS!Retry, DS!GiveUp, OneAtATime
<1>2. /\ client' \in [Clients -> {"none", "waiting", "connected", "failed"}]
      /\ client'[c] \in {"connected", "failed"}
      /\ client'[c] = "failed" => stage[spawned[c]] \in {"closing", "over"}
      /\ \A b \in Clients \ {c} : client'[b] = client[b]
    BY <1>1 DEF DS!TypeOK
<1>3. DS!TypeOK' /\ Single'
    BY <1>1, <1>2 DEF DS!TypeOK, Single, DS!Starting, DS!Ending
<1>4. HasThePath' /\ DS!ServesWhereItIsFound'
    BY <1>1 DEF HasThePath, NobodyServes, DS!ServesWhereItIsFound
<1>5. Spawned'
    BY <1>1, <1>2 DEF Spawned, NobodyServes
<1>6. spawned[c] \in Daemons
    BY <1>1 DEF Spawned, DS!TypeOK
<1>7. client'[c] = "failed" => spawned[c] \in ended
    BY <1>1, <1>2, <1>6 DEF Spawned, HasThePath
<1>8. DS!StartsOverTheStale'
    BY <1>1, <1>2, <1>7 DEF DS!StartsOverTheStale
<1> QED
    BY <1>3, <1>4, <1>5, <1>8

\* It is alone when it begins, and no client waits for it.
LEMMA StartInvByHand ==
    ASSUME OneAtATime, StartInv, NEW d \in Daemons, DS!ByHand(d)
    PROVE  StartInv'
<1> USE DEF StartInv
<1>1. /\ stage[d] = "none" /\ Single'
      /\ stage' \in [Daemons -> Stages] /\ stage'[d] = "live"
      /\ \A e \in Daemons \ {d} : stage'[e] = stage[e]
      /\ UNCHANGED <<path, version, client, spawned, ended>>
    BY Begun DEF DS!ByHand
<1>2. NobodyServes => NobodyServes'
    BY <1>1 DEF NobodyServes
<1>3. DS!TypeOK'
    BY <1>1 DEF DS!TypeOK, Stages
<1>4. HasThePath' /\ DS!ServesWhereItIsFound'
    BY <1>1, <1>2 DEF HasThePath, DS!ServesWhereItIsFound
<1>5. Spawned'
    BY <1>1, <1>2 DEF Spawned, DS!TypeOK
<1>6. DS!StartsOverTheStale'
    BY <1>1 DEF DS!StartsOverTheStale
<1> QED
    BY <1>1, <1>3, <1>4, <1>5, <1>6

\* The steps from the look at the path to the files' removal: one daemon takes
\* them, beside those that serve, are over, or have not begun.
LEMMA Beside ==
    ASSUME OneAtATime, StartInv, NEW d \in Daemons, d \in DS!Starting \cup DS!Ending,
           NEW s \in Stages \ {"none"}, DS!Go(d, s)
    PROVE  /\ stage' \in [Daemons -> Stages] /\ stage'[d] = s
           /\ \A e \in Daemons \ {d} :
                 stage'[e] = stage[e] /\ stage[e] \in {"none", "serving", "over"}
           /\ Single'
           /\ NobodyServes /\ s # "serving" => NobodyServes'
<1>1. /\ stage' \in [Daemons -> Stages] /\ stage'[d] = s
      /\ \A e \in Daemons \ {d} : stage'[e] = stage[e]
    BY StartWent DEF DS!Go, StartInv
<1>2. \A e \in Daemons \ {d} : stage[e] \in {"none", "serving", "over"}
    BY DEF StartInv, Single, DS!Starting, DS!Ending, DS!TypeOK
<1>3. Single'
    BY <1>1, <1>2 DEF Single, DS!Starting, DS!Ending
<1>4. NobodyServes /\ s # "serving" => NobodyServes'
    BY <1>1 DEF NobodyServes
<1> QED
    BY <1>1, <1>2, <1>3, <1>4

\* A daemon that finds the path answered was started by nobody who waits for it.
LEMMA StartInvLive ==
    ASSUME OneAtATime, StartInv, NEW d \in Daemons, DS!Live(d)
    PROVE  StartInv'
<1> USE DEF StartInv
<1> DEFINE s == IF DS!Answers(path) THEN "over" ELSE "remove"
<1>1. /\ stage[d] = "live" /\ d \in DS!Starting
      /\ DS!Go(d, s) /\ UNCHANGED <<path, version, client, spawned, ended>>
    BY DEF DS!Live, DS!Starting
<1>2. s \in {"over", "remove"} /\ (s = "over" <=> DS!Answers(path))
    OBVIOUS
<1> HIDE DEF s
<1>3. /\ stage' \in [Daemons -> Stages] /\ stage'[d] = s /\ Single'
      /\ \A e \in Daemons \ {d} :
            stage'[e] = stage[e] /\ stage[e] \in {"none", "serving", "over"}
      /\ NobodyServes => NobodyServes'
    BY <1>1, <1>2, Beside DEF Stages
<1>4. ~DS!Answers(path) => NobodyServes
    BY DEF NobodyServes, DS!ServesWhereItIsFound, DS!Answers, OneAtATime
<1>5. NobodyServes => ~DS!Answers(path)
    BY <1>1, <1>3 DEF NobodyServes, DS!Answers, DS!TypeOK
<1>6. DS!TypeOK'
    BY <1>1, <1>3 DEF DS!TypeOK, Stages
<1>7. HasThePath' /\ DS!ServesWhereItIsFound'
    BY <1>1, <1>2, <1>3, <1>4 DEF HasThePath, DS!ServesWhereItIsFound
<1>8. Spawned'
    BY <1>1, <1>2, <1>3, <1>5 DEF Spawned, DS!TypeOK
<1>9. DS!StartsOverTheStale'
    BY <1>1 DEF DS!StartsOverTheStale
<1> QED
    BY <1>3, <1>6, <1>7, <1>8, <1>9

\* Whatever is at the path is stale, since nobody serves.
LEMMA StartInvRemove ==
    ASSUME OneAtATime, StartInv, NEW d \in Daemons, DS!Remove(d)
    PROVE  StartInv'
<1> USE DEF StartInv
<1>1. /\ stage[d] = "remove" /\ d \in DS!Starting /\ NobodyServes /\ path' = None
      /\ DS!Go(d, "listen") /\ UNCHANGED <<version, client, spawned, ended>>
    BY DEF DS!Remove, DS!Starting, HasThePath
<1>2. /\ stage' \in [Daemons -> Stages] /\ stage'[d] = "listen" /\ Single'
      /\ \A e \in Daemons \ {d} :
            stage'[e] = stage[e] /\ stage[e] \in {"none", "serving", "over"}
      /\ NobodyServes'
    BY <1>1, Beside DEF Stages
<1>3. DS!TypeOK'
    BY <1>1, <1>2 DEF DS!TypeOK, Stages
<1>4. HasThePath' /\ DS!ServesWhereItIsFound'
    BY <1>1, <1>2 DEF HasThePath, DS!ServesWhereItIsFound, NobodyServes
<1>5. Spawned'
    BY <1>1, <1>2 DEF Spawned, DS!TypeOK
<1>6. DS!StartsOverTheStale'
    BY <1>1 DEF DS!StartsOverTheStale
<1> QED
    BY <1>2, <1>3, <1>4, <1>5, <1>6

\* The path is free, so the daemon binds it.
LEMMA StartInvListen ==
    ASSUME OneAtATime, StartInv, NEW d \in Daemons, DS!Listen(d)
    PROVE  StartInv'
<1> USE DEF StartInv
<1>1. /\ stage[d] = "listen" /\ d \in DS!Starting /\ NobodyServes /\ path = None
      /\ path' = d /\ DS!Go(d, "version") /\ UNCHANGED <<version, client, spawned, ended>>
    BY DEF DS!Listen, DS!Starting, HasThePath
<1>2. /\ stage' \in [Daemons -> Stages] /\ stage'[d] = "version" /\ Single'
      /\ \A e \in Daemons \ {d} :
            stage'[e] = stage[e] /\ stage[e] \in {"none", "serving", "over"}
      /\ NobodyServes'
    BY <1>1, Beside DEF Stages
<1>3. DS!TypeOK'
    BY <1>1, <1>2 DEF DS!TypeOK, Stages
<1>4. HasThePath' /\ DS!ServesWhereItIsFound'
    BY <1>1, <1>2 DEF HasThePath, DS!ServesWhereItIsFound, NobodyServes
<1>5. Spawned'
    BY <1>1, <1>2 DEF Spawned, DS!TypeOK
<1>6. DS!StartsOverTheStale'
    BY <1>1 DEF DS!StartsOverTheStale
<1> QED
    BY <1>2, <1>3, <1>4, <1>5, <1>6

\* Both files are this daemon's when it begins to serve, and nobody else serves.
LEMMA StartInvWriteVersion ==
    ASSUME OneAtATime, StartInv, NEW d \in Daemons, DS!WriteVersion(d) PROVE StartInv'
<1> USE DEF StartInv
<1>1. /\ stage[d] = "version" /\ d \in DS!Starting /\ NobodyServes /\ path = d
      /\ version' = d /\ DS!Go(d, "serving") /\ UNCHANGED <<path, client, spawned, ended>>
    BY DEF DS!WriteVersion, DS!Starting, HasThePath
<1>2. /\ stage' \in [Daemons -> Stages] /\ stage'[d] = "serving" /\ Single'
      /\ \A e \in Daemons \ {d} : stage'[e] = stage[e] /\ stage[e] \in {"none", "over"}
    BY <1>1, Beside DEF Stages, NobodyServes
<1>3. DS!TypeOK'
    BY <1>1, <1>2 DEF DS!TypeOK, Stages
<1>4. HasThePath' /\ DS!ServesWhereItIsFound'
    BY <1>1, <1>2 DEF HasThePath, DS!ServesWhereItIsFound
<1>5. Spawned'
    BY <1>1, <1>2 DEF Spawned, DS!TypeOK
<1>6. DS!StartsOverTheStale'
    BY <1>1 DEF DS!StartsOverTheStale
<1> QED
    BY <1>2, <1>3, <1>4, <1>5, <1>6

\* Only one daemon serves, and when it stops nobody starts.
LEMMA StartInvStop ==
    ASSUME OneAtATime, StartInv, NEW d \in Daemons, DS!Stop(d)
    PROVE  StartInv'
<1> USE DEF StartInv
<1>1. /\ stage[d] = "serving" /\ DS!Starting \cup DS!Ending = {} /\ path' = None
      /\ DS!Go(d, "closing") /\ ended' = ended \cup {d} /\ UNCHANGED <<version, client, spawned>>
    BY DEF DS!Stop, DS!Alone, OneAtATime
<1>2. \A e \in Daemons \ {d} : stage[e] \in {"none", "over"}
    BY <1>1 DEF DS!ServesWhereItIsFound, DS!Starting, DS!Ending, DS!TypeOK
<1>3. /\ stage' \in [Daemons -> Stages] /\ stage'[d] = "closing"
      /\ \A e \in Daemons \ {d} : stage'[e] = stage[e]
    BY <1>1, StartWent DEF DS!Go, Stages
<1>4. DS!TypeOK' /\ Single'
    BY <1>1, <1>2, <1>3 DEF DS!TypeOK, Stages, Single, DS!Starting, DS!Ending
<1>5. HasThePath' /\ DS!ServesWhereItIsFound'
    BY <1>1, <1>2, <1>3 DEF HasThePath, DS!ServesWhereItIsFound, NobodyServes
<1>6. Spawned'
    BY <1>1, <1>2, <1>3 DEF Spawned, DS!TypeOK
<1>7. DS!StartsOverTheStale'
    BY <1>1 DEF DS!StartsOverTheStale
<1> QED
    BY <1>4, <1>5, <1>6, <1>7

\* Nobody has come to serve while the pods were closed.
LEMMA StartInvExit ==
    ASSUME OneAtATime, StartInv, NEW d \in Daemons, DS!Exit(d)
    PROVE  StartInv'
<1> USE DEF StartInv
<1>1. /\ stage[d] = "closing" /\ d \in DS!Ending /\ NobodyServes /\ d \in ended
      /\ path' = None /\ version' = None
      /\ DS!Go(d, "over") /\ UNCHANGED <<client, spawned, ended>>
    BY DEF DS!Exit, DS!Ending, HasThePath
<1>2. /\ stage' \in [Daemons -> Stages] /\ stage'[d] = "over" /\ Single'
      /\ \A e \in Daemons \ {d} :
            stage'[e] = stage[e] /\ stage[e] \in {"none", "serving", "over"}
      /\ NobodyServes'
    BY <1>1, Beside DEF Stages
<1>3. DS!TypeOK'
    BY <1>1, <1>2 DEF DS!TypeOK, Stages
<1>4. HasThePath' /\ DS!ServesWhereItIsFound'
    BY <1>1, <1>2 DEF HasThePath, DS!ServesWhereItIsFound, NobodyServes
<1>5. Spawned'
    BY <1>1, <1>2 DEF Spawned, DS!TypeOK
<1>6. DS!StartsOverTheStale'
    BY <1>1 DEF DS!StartsOverTheStale
<1> QED
    BY <1>2, <1>3, <1>4, <1>5, <1>6

\* A daemon that is killed leaves its files, at whichever stage it was.
LEMMA StartInvKill ==
    ASSUME OneAtATime, StartInv, NEW d \in Daemons, DS!Kill(d)
    PROVE  StartInv'
<1> USE DEF StartInv
<1>1. /\ stage[d] \notin {"none", "over"} /\ DS!Go(d, "over") /\ ended' = ended \cup {d}
      /\ UNCHANGED <<path, version, client, spawned>>
    BY DEF DS!Kill
<1>2. /\ stage' \in [Daemons -> Stages] /\ stage'[d] = "over"
      /\ \A e \in Daemons \ {d} : stage'[e] = stage[e]
    BY <1>1, StartWent DEF DS!Go, Stages
<1>3. NobodyServes => NobodyServes'
    BY <1>2 DEF NobodyServes
<1>4. DS!TypeOK' /\ Single'
    BY <1>1, <1>2 DEF DS!TypeOK, Stages, Single, DS!Starting, DS!Ending
<1>5. HasThePath' /\ DS!ServesWhereItIsFound'
    BY <1>1, <1>2, <1>3 DEF HasThePath, DS!ServesWhereItIsFound
<1>6. Spawned'
    BY <1>1, <1>2, <1>3 DEF Spawned, DS!TypeOK
<1>7. DS!StartsOverTheStale'
    BY <1>1 DEF DS!StartsOverTheStale
<1> QED
    BY <1>4, <1>5, <1>6, <1>7

-----------------------------------------------------------------------------
\* Every step keeps it.
LEMMA StartInvNext == ASSUME OneAtATime, StartInv, [DS!Next]_(DS!vars) PROVE StartInv'
<1>1. ASSUME NEW c \in Clients, DS!Connect(c) \/ DS!Retry(c) \/ DS!GiveUp(c)
      PROVE  StartInv'
    BY <1>1, StartInvConnect, StartInvClient
<1>2. ASSUME NEW d \in Daemons, DS!ByHand(d) \/ DS!Live(d) \/ DS!Remove(d) \/ DS!Listen(d)
      PROVE  StartInv'
    BY <1>2, StartInvByHand, StartInvLive, StartInvRemove, StartInvListen
<1>3. ASSUME NEW d \in Daemons, DS!WriteVersion(d) \/ DS!Stop(d) \/ DS!Exit(d) \/ DS!Kill(d)
      PROVE  StartInv'
    BY <1>3, StartInvWriteVersion, StartInvStop, StartInvExit, StartInvKill
<1>4. CASE UNCHANGED DS!vars
    BY <1>4 DEF DS!vars, StartInv, DS!TypeOK, Single, DS!Starting, DS!Ending, HasThePath,
           NobodyServes,
                DS!ServesWhereItIsFound, Spawned, DS!StartsOverTheStale
<1> QED
    BY <1>1, <1>2, <1>3, <1>4 DEF DS!Next

\* The inductive invariant holds, for any daemons and clients.
THEOREM StartInvAlways == ASSUME OneAtATime PROVE DS!Spec => []StartInv
<1>1. DS!Init => StartInv
    BY StartInvInit
<1>2. StartInv /\ [DS!Next]_(DS!vars) => StartInv'
    BY StartInvNext
<1> QED
    BY <1>1, <1>2, PTL DEF DS!Spec

\* Whatever daemons were killed before it, a daemon that serves is the one at the
\* path, and the version file names it (cmd/vibepod/daemon.go's runDaemon).
THEOREM DaemonServesWhereItIsFound ==
    ASSUME OneAtATime PROVE DS!Spec => []DS!ServesWhereItIsFound
<1>1. StartInv => DS!ServesWhereItIsFound
    BY DEF StartInv
<1> QED
    BY <1>1, StartInvAlways, PTL

\* The daemon a client started comes up over whatever was left at the path; the
\* client fails only when somebody ended it (cmd/vibepod/daemon.go:74).
THEOREM DaemonStartsOverTheStale ==
    ASSUME OneAtATime PROVE DS!Spec => []DS!StartsOverTheStale
<1>1. StartInv => DS!StartsOverTheStale
    BY DEF StartInv
<1> QED
    BY <1>1, StartInvAlways, PTL

-------------------------------------------------------------------------------
(* The events.                                                               *)

\* There is room for an event.
Room == HistoryMax \in Nat \ {0} /\ Buffer \in Nat

\* Nothing is twice in a sequence.
Once(s) == \A i, j \in DOMAIN s : s[i] = s[j] => i = j

\* The events that have been published.
Entered == {e \in Events : pub[e].step # "none"}

\* What the bus holds.
Bus ==
    /\ recent \in Seq(Events) /\ Once(recent) /\ EB!Set(recent) \subseteq Entered
    /\ subs = {f \in Followers : fol[f] \in {"subscribed", "live"}}
    /\ closed = {f \in Followers : fol[f] = "gone"}
    /\ pub \in [Events -> [step : {"none", "offer", "done"}, to : SUBSET Followers]]
    /\ \A e \in Events : pub[e].to # {} => pub[e].step = "offer"

\* And what the followers do.
BusTypes ==
    /\ fol \in [Followers -> {"none", "subscribed", "live", "gone"}]
    /\ ch \in [Followers -> Seq(Events)] /\ replay \in [Followers -> Seq(Events)]
    /\ sent \in [Followers -> Seq(Events)] /\ seen \in [Followers -> SUBSET Events]
    /\ missed \in [Followers -> SUBSET Events]

\* An event is on its way to a follower in one place, and in the history it replays
\* or among what it was sent.
Follows(f) ==
    /\ fol[f] \in {"none", "subscribed"} =>
           sent[f] = <<>> /\ replay[f] = <<>> /\ seen[f] = {}
    /\ EB!Set(ch[f]) \subseteq Entered /\ EB!Set(sent[f]) \subseteq Entered
    /\ EB!Set(replay[f]) \subseteq seen[f] /\ seen[f] \subseteq Entered
    /\ Once(ch[f]) /\ Once(sent[f]) /\ Once(replay[f])
    /\ EB!Set(replay[f]) \cap EB!Set(sent[f]) = {}
    /\ seen[f] \subseteq EB!Set(replay[f]) \cup EB!Set(sent[f])
    /\ \A e \in EB!Set(ch[f]) : f \notin pub[e].to /\ (e \notin seen[f] => e \notin EB!Set(sent[f]))
    /\ \A e \in EB!Set(sent[f]) : f \in pub[e].to => e \in seen[f]
    /\ fol[f] = "live" =>
           \A e \in EB!Set(recent) : \/ e \in seen[f] \/ f \in pub[e].to
                                  \/ e \in EB!Set(ch[f]) \/ e \in EB!Set(sent[f])
                                  \/ e \in missed[f]

BusInv == Bus /\ BusTypes /\ \A f \in Followers : Follows(f)

-----------------------------------------------------------------------------
\* An element more at the end.
LEMMA Appended ==
    ASSUME NEW S, NEW s \in Seq(S), NEW x \in S
    PROVE  /\ Append(s, x) \in Seq(S) /\ EB!Set(Append(s, x)) = EB!Set(s) \cup {x}
           /\ Once(s) /\ x \notin EB!Set(s) => Once(Append(s, x))
<1> DEFINE t == Append(s, x)
<1>1. /\ t \in Seq(S) /\ DOMAIN s = 1 .. Len(s) /\ DOMAIN t = 1 .. Len(s) + 1
      /\ Len(s) \in Nat
      /\ \A i \in 1 .. Len(s) : t[i] = s[i] /\ t[Len(s) + 1] = x
      /\ t[Len(s) + 1] = x
    OBVIOUS
<1>2. EB!Set(t) = EB!Set(s) \cup {x}
  <2> HIDE DEF t
  <2>1. ASSUME NEW y \in EB!Set(t) PROVE y \in EB!Set(s) \cup {x}
      BY <1>1 DEF EB!Set
  <2>2. ASSUME NEW y \in EB!Set(s) \cup {x} PROVE y \in EB!Set(t)
      BY <1>1 DEF EB!Set
  <2> QED
      BY <2>1, <2>2
<1>3. Once(s) /\ x \notin EB!Set(s) => Once(t)
  <2> HIDE DEF t
  <2> SUFFICES ASSUME Once(s), x \notin EB!Set(s), NEW i \in DOMAIN t, NEW j \in DOMAIN t,
                      t[i] = t[j]
               PROVE  i = j
      BY DEF Once
  <2> QED
      BY <1>1 DEF Once, EB!Set
<1> QED
    BY <1>1, <1>2, <1>3

\* An element less at the front.
LEMMA Taken ==
    ASSUME NEW S, NEW s \in Seq(S), s # <<>>
    PROVE  /\ Tail(s) \in Seq(S) /\ Head(s) \in S
           /\ EB!Set(s) = EB!Set(Tail(s)) \cup {Head(s)}
           /\ Once(s) => Once(Tail(s)) /\ Head(s) \notin EB!Set(Tail(s))
<1> DEFINE t == Tail(s)
<1>1. /\ t \in Seq(S) /\ Head(s) \in S /\ DOMAIN s = 1 .. Len(s) /\ Len(s) \in Nat \ {0}
      /\ DOMAIN t = 1 .. Len(s) - 1 /\ Head(s) = s[1]
      /\ \A i \in 1 .. Len(s) - 1 : t[i] = s[i + 1]
    OBVIOUS
<1> HIDE DEF t
<1>2. ASSUME NEW y \in EB!Set(s) PROVE y \in EB!Set(t) \cup {Head(s)}
  <2>1. PICK i \in 1 .. Len(s) : y = s[i]
      BY <1>1 DEF EB!Set
  <2>2. CASE i = 1
      BY <1>1, <2>1, <2>2
  <2>3. CASE i # 1
    <3>1. i - 1 \in 1 .. Len(s) - 1 /\ i = (i - 1) + 1
        BY <1>1, <2>3
    <3>2. y = t[i - 1]
        BY <1>1, <2>1, <3>1
    <3> QED
        BY <3>1, <3>2, <1>1 DEF EB!Set
  <2> QED
      BY <2>2, <2>3
<1>3. ASSUME NEW y \in EB!Set(t) \cup {Head(s)} PROVE y \in EB!Set(s)
    BY <1>1 DEF EB!Set
<1>4. Once(s) => Once(t)
  <2> SUFFICES ASSUME Once(s), NEW i \in DOMAIN t, NEW j \in DOMAIN t, t[i] = t[j]
               PROVE  i = j
      BY DEF Once
  <2>1. /\ i \in 1 .. Len(s) - 1 /\ j \in 1 .. Len(s) - 1
        /\ i + 1 \in DOMAIN s /\ j + 1 \in DOMAIN s /\ s[i + 1] = s[j + 1]
      BY <1>1
  <2>2. i + 1 = j + 1
      BY <2>1 DEF Once
  <2> QED
      BY <1>1, <2>1, <2>2
<1>5. Once(s) => Head(s) \notin EB!Set(t)
  <2> SUFFICES ASSUME Once(s), NEW i \in DOMAIN t, t[i] = s[1] PROVE FALSE
      BY <1>1 DEF EB!Set
  <2>1. i \in 1 .. Len(s) - 1 /\ i + 1 \in DOMAIN s /\ 1 \in DOMAIN s /\ t[i] = s[i + 1]
      BY <1>1
  <2>2. i + 1 = 1
      BY <2>1 DEF Once
  <2> QED
      BY <1>1, <2>1, <2>2
<1> QED
    BY <1>1, <1>2, <1>3, <1>4, <1>5 DEF t

\* What is left of a sequence that is cut at the front.
LEMMA Cut ==
    ASSUME NEW S, NEW s \in Seq(S), NEW m \in 1 .. Len(s)
    PROVE  LET t == SubSeq(s, m, Len(s)) IN
           t \in Seq(S) /\ EB!Set(t) \subseteq EB!Set(s) /\ (Once(s) => Once(t))
<1> DEFINE t == SubSeq(s, m, Len(s))
<1>1. /\ t \in Seq(S) /\ DOMAIN s = 1 .. Len(s) /\ Len(s) \in Nat
      /\ DOMAIN t = 1 .. Len(s) - m + 1
      /\ \A i \in 1 .. Len(s) - m + 1 : t[i] = s[i + m - 1] /\ i + m - 1 \in DOMAIN s
    OBVIOUS
<1> HIDE DEF t
<1>2. EB!Set(t) \subseteq EB!Set(s)
    BY <1>1 DEF EB!Set
<1>3. Once(s) => Once(t)
  <2> SUFFICES ASSUME Once(s), NEW i \in DOMAIN t, NEW j \in DOMAIN t, t[i] = t[j]
               PROVE  i = j
      BY DEF Once
  <2>1. /\ i \in 1 .. Len(s) - m + 1 /\ j \in 1 .. Len(s) - m + 1
        /\ i + m - 1 \in DOMAIN s /\ j + m - 1 \in DOMAIN s
        /\ s[i + m - 1] = s[j + m - 1]
      BY <1>1
  <2>2. i + m - 1 = j + m - 1
      BY <2>1 DEF Once
  <2> QED
      BY <1>1, <2>1, <2>2
<1> QED
    BY <1>1, <1>2, <1>3 DEF t

\* The empty sequence.
LEMMA BusNothing == EB!Set(<<>>) = {} /\ Once(<<>>)
BY DEF EB!Set, Once
-----------------------------------------------------------------------------
\* What a step leaves of a follower it is not about.
Still(f) ==
    /\ fol'[f] = fol[f] /\ ch'[f] = ch[f] /\ replay'[f] = replay[f]
    /\ seen'[f] = seen[f] /\ sent'[f] = sent[f] /\ missed'[f] = missed[f]
    /\ \A e \in Events : (f \in pub'[e].to) = (f \in pub[e].to)

LEMMA StillFollows ==
    ASSUME BusInv, NEW f \in Followers, Still(f), recent' = recent, Entered \subseteq Entered'
    PROVE  Follows(f)'
<1>1. Follows(f) /\ Bus /\ BusTypes
    BY DEF BusInv
<1>2. /\ EB!Set(ch[f]) \subseteq Events /\ EB!Set(sent[f]) \subseteq Events
      /\ EB!Set(recent) \subseteq Events
    BY <1>1 DEF Follows, Bus, Entered
<1> QED
    BY <1>1, <1>2 DEF Still, Follows

\* An event enters the history, for those who are subscribed.
LEMMA BusInvEnter == ASSUME Room, BusInv, NEW e \in Events, EB!Enter(e) PROVE BusInv'
<1> DEFINE all == Append(recent, e)
           m == IF Len(all) > HistoryMax THEN Len(all) - HistoryMax + 1 ELSE 1
<1>1. /\ recent' = SubSeq(all, m, Len(all))
      /\ pub' = [pub EXCEPT ![e].step = IF subs = {} THEN "done" ELSE "offer", ![e].to = subs]
      /\ pub[e].step = "none" /\ e \notin Entered
      /\ UNCHANGED <<subs, closed, ch, fol, replay, seen, sent, missed, panicked>>
    BY DEF EB!Enter, EB!follower, Entered
<1>2. Bus /\ BusTypes
    BY DEF BusInv
<1>3. /\ all \in Seq(Events) /\ EB!Set(all) = EB!Set(recent) \cup {e} /\ Once(all)
    BY <1>1, <1>2, Appended DEF Bus
<1>4. Len(all) = Len(recent) + 1 /\ Len(recent) \in Nat
    BY <1>2 DEF Bus
<1>5. m \in 1 .. Len(all)
    BY <1>4 DEF Room
<1> HIDE DEF all, m
<1>6. recent' \in Seq(Events) /\ EB!Set(recent') \subseteq EB!Set(recent) \cup {e} /\ Once(recent')
    BY <1>1, <1>3, <1>5, Cut
<1>7. /\ pub' \in [Events -> [step : {"none", "offer", "done"}, to : SUBSET Followers]]
      /\ \A x \in Events \ {e} : pub'[x] = pub[x]
      /\ pub'[e].to = subs /\ pub'[e].step = (IF subs = {} THEN "done" ELSE "offer")
    BY <1>1, <1>2 DEF Bus
<1>8. Entered' = Entered \cup {e}
    BY <1>7 DEF Entered
<1>9. Bus'
    BY <1>1, <1>2, <1>6, <1>7, <1>8 DEF Bus
<1>10. BusTypes'
    BY <1>1, <1>2 DEF BusTypes
<1>11. ASSUME NEW f \in Followers PROVE Follows(f)'
  <2>1. Follows(f)
      BY DEF BusInv
  <2>2. fol[f] = "live" => f \in pub'[e].to
      BY <1>2, <1>7 DEF Bus
  <2>3. e \notin EB!Set(ch[f]) /\ e \notin EB!Set(sent[f])
      BY <1>1, <2>1 DEF Follows
  <2>4. /\ EB!Set(ch[f]) \subseteq Events \ {e} /\ EB!Set(sent[f]) \subseteq Events \ {e}
        /\ EB!Set(recent') \subseteq EB!Set(recent) \cup {e} /\ EB!Set(recent) \subseteq Events
      BY <2>1, <2>3, <1>2, <1>6 DEF Follows, Entered, Bus
  <2>5. \A x \in EB!Set(recent') : x = e \/ (x \in EB!Set(recent) /\ pub'[x] = pub[x])
      BY <2>4, <1>7
  <2> QED
      BY <1>1, <1>7, <1>8, <2>1, <2>2, <2>4, <2>5 DEF Follows
<1> QED
    BY <1>9, <1>10, <1>11 DEF BusInv

\* It is offered to one of them, who has room for it or not.
LEMMA BusInvOffer ==
    ASSUME BusInv, NEW e \in Events, NEW f \in Followers, EB!Offer(e, f) PROVE BusInv'
<1>1. /\ pub[e].step = "offer" /\ f \in pub[e].to
      /\ UNCHANGED <<recent, subs, closed, fol, replay, seen, sent>>
      /\ EB!Offered(e, f)
    BY DEF EB!Offer, EB!bus, EB!follower
<1>2. Bus /\ BusTypes /\ Follows(f)
    BY DEF BusInv
<1>3. /\ pub' \in [Events -> [step : {"none", "offer", "done"}, to : SUBSET Followers]]
      /\ \A x \in Events \ {e} : pub'[x] = pub[x]
      /\ pub'[e].to = pub[e].to \ {f}
      /\ pub'[e].step = IF pub[e].to = {f} THEN "done" ELSE "offer"
    BY <1>1, <1>2 DEF Bus, EB!Offered
<1>4. Entered' = Entered
    BY <1>1, <1>3 DEF Entered
<1>5. Bus'
    BY <1>1, <1>2, <1>3, <1>4 DEF Bus
<1>6. /\ \A g \in Followers \ {f} : ch'[g] = ch[g] /\ missed'[g] = missed[g]
      /\ ch' \in [Followers -> Seq(Events)] /\ missed' \in [Followers -> SUBSET Events]
      /\ \/ fol[f] = "gone" /\ ch'[f] = ch[f] /\ missed'[f] = missed[f]
         \/ ch'[f] = Append(ch[f], e) /\ missed'[f] = missed[f]
         \/ ch'[f] = ch[f] /\ missed'[f] = missed[f] \cup {e}
  <2>1. CASE f \in closed
      BY <1>2, <2>1 DEF EB!Offer, Bus, BusTypes
  <2>2. CASE f \notin closed /\ Len(ch[f]) < Buffer
    <3>1. ch' = [ch EXCEPT ![f] = Append(ch[f], e)] /\ missed' = missed
        BY <2>2 DEF EB!Offer
    <3>2. Append(ch[f], e) \in Seq(Events)
        BY <1>2, Appended DEF BusTypes
    <3> HIDE <2>2
    <3> QED
        BY <3>1, <3>2, <1>2 DEF BusTypes
  <2>3. CASE f \notin closed /\ ~(Len(ch[f]) < Buffer)
    <3>1. missed' = [missed EXCEPT ![f] = missed[f] \cup {e}] /\ ch' = ch
        BY <2>3 DEF EB!Offer
    <3> QED
        BY <3>1, <1>2 DEF BusTypes
  <2> QED
      BY <2>1, <2>2, <2>3
<1>7. BusTypes'
    BY <1>1, <1>2, <1>6 DEF BusTypes
<1>8. ASSUME NEW g \in Followers \ {f} PROVE Follows(g)'
  <2>1. Still(g)
      BY <1>1, <1>3, <1>6 DEF Still
  <2> QED
      BY <1>1, <1>4, <2>1, StillFollows
<1>9. Follows(f)'
  <2>1. e \notin EB!Set(ch[f]) /\ (e \in EB!Set(sent[f]) => e \in seen[f])
      BY <1>1, <1>2 DEF Follows
  <2>2. /\ EB!Set(ch[f]) \subseteq Events /\ EB!Set(sent[f]) \subseteq Events
        /\ EB!Set(recent) \subseteq Events
      BY <1>2 DEF Follows, Bus, Entered
  <2>3. /\ EB!Set(Append(ch[f], e)) = EB!Set(ch[f]) \cup {e} /\ Once(Append(ch[f], e))
      BY <1>2, <2>1, Appended DEF BusTypes, Follows
  <2>4. \A x \in Events : f \in pub'[x].to <=> f \in pub[x].to /\ x # e
      BY <1>3
  <2>5. CASE fol[f] = "gone" /\ ch'[f] = ch[f] /\ missed'[f] = missed[f]
      BY <1>1, <1>2, <1>4, <2>2, <2>4, <2>5 DEF Follows
  <2>6. CASE ch'[f] = Append(ch[f], e) /\ missed'[f] = missed[f]
    <3>1. EB!Set(ch'[f]) = EB!Set(ch[f]) \cup {e} /\ Once(ch'[f]) /\ e \in Entered
        BY <2>3, <2>6, <1>1 DEF Entered
    <3> QED
        BY <1>1, <1>2, <1>4, <2>1, <2>2, <2>4, <2>6, <3>1 DEF Follows
  <2>7. CASE ch'[f] = ch[f] /\ missed'[f] = missed[f] \cup {e}
      BY <1>1, <1>2, <1>4, <2>2, <2>4, <2>7 DEF Follows
  <2> QED
      BY <1>6, <2>5, <2>6, <2>7
<1> QED
    BY <1>5, <1>7, <1>8, <1>9 DEF BusInv

\* A follower subscribes, replays, reads or leaves.
LEMMA BusInvFollow ==
    ASSUME BusInv, NEW f \in Followers, EB!Following(f) PROVE BusInv'
<1>1. /\ recent' = recent /\ pub' = pub /\ missed' = missed /\ Entered' = Entered
      /\ \A g \in Followers \ {f} : Still(g)
  <2>1. Bus /\ BusTypes
      BY DEF BusInv
  <2>2. recent' = recent /\ pub' = pub /\ missed' = missed
      BY DEF EB!Following, EB!Subscribe, EB!History, EB!Replay, EB!Receive, EB!Leave,
             EB!bus
  <2>3. \A g \in Followers \ {f} : fol'[g] = fol[g] /\ ch'[g] = ch[g]
      BY <2>1 DEF EB!Following, EB!Subscribe, EB!History, EB!Replay, EB!Receive, EB!Leave,
             BusTypes
  <2>4. \A g \in Followers \ {f} : replay'[g] = replay[g] /\ seen'[g] = seen[g]
                                   /\ sent'[g] = sent[g]
      BY <2>1 DEF EB!Following, EB!Subscribe, EB!History, EB!Replay, EB!Receive, EB!Leave,
             BusTypes
  <2> QED
      BY <2>2, <2>3, <2>4 DEF Still, Entered
<1>2. \A g \in Followers \ {f} : Follows(g)'
    BY <1>1, StillFollows
<1>3. Bus /\ BusTypes /\ Follows(f)
    BY DEF BusInv
<1>4. CASE EB!Subscribe(f)
  <2>1. Bus' /\ BusTypes'
      BY <1>1, <1>3, <1>4 DEF EB!Subscribe, Bus, BusTypes
  <2>2. Follows(f)'
      BY <1>1, <1>3, <1>4 DEF EB!Subscribe, BusTypes, Follows
  <2> QED
      BY <1>2, <2>1, <2>2 DEF BusInv
<1>5. CASE EB!Leave(f)
    BY <1>1, <1>2, <1>3, <1>5 DEF BusInv, EB!Leave, Bus, BusTypes, Follows
<1>6. CASE EB!History(f)
  <2>1. /\ fol[f] = "subscribed" /\ fol' = [fol EXCEPT ![f] = "live"]
        /\ replay' = [replay EXCEPT ![f] = recent]
        /\ seen' = [seen EXCEPT ![f] = EB!Set(recent)]
        /\ UNCHANGED <<subs, closed, ch, sent>>
      BY <1>6 DEF EB!History, EB!bus
  <2>2. EB!Set(recent) \subseteq Events
      BY <1>3 DEF Bus, Entered
  <2>3. Bus' /\ BusTypes'
      BY <1>1, <1>3, <2>1, <2>2 DEF Bus, BusTypes
  <2>4. Follows(f)'
    <3>1. replay'[f] = recent /\ seen'[f] = EB!Set(recent) /\ sent'[f] = <<>> /\ fol'[f] = "live"
          /\ ch'[f] = ch[f]
        BY <1>3, <2>1 DEF BusTypes, Follows
    <3> QED
        BY <1>1, <1>3, <3>1, BusNothing DEF Follows, Bus
  <2> QED
      BY <1>2, <2>3, <2>4 DEF BusInv
<1>7. CASE EB!Replay(f)
  <2> DEFINE h == Head(replay[f])
  <2>1. /\ replay[f] # <<>> /\ fol[f] = "live"
        /\ sent' = [sent EXCEPT ![f] = Append(sent[f], h)]
        /\ replay' = [replay EXCEPT ![f] = Tail(replay[f])]
        /\ UNCHANGED <<subs, closed, ch, fol, seen>>
      BY <1>7 DEF EB!Replay, EB!bus
  <2>2. /\ Tail(replay[f]) \in Seq(Events) /\ h \in Events
        /\ EB!Set(replay[f]) = EB!Set(Tail(replay[f])) \cup {h}
        /\ Once(Tail(replay[f])) /\ h \notin EB!Set(Tail(replay[f]))
      BY <1>3, <2>1, Taken DEF BusTypes, Follows
  <2>3. h \notin EB!Set(sent[f]) /\ h \in seen[f]
      BY <1>3, <2>2 DEF Follows
  <2>4. /\ Append(sent[f], h) \in Seq(Events) /\ Once(Append(sent[f], h))
        /\ EB!Set(Append(sent[f], h)) = EB!Set(sent[f]) \cup {h}
      BY <1>3, <2>2, <2>3, Appended DEF BusTypes, Follows
  <2> HIDE DEF h
  <2>5. Bus' /\ BusTypes'
      BY <1>1, <1>3, <2>1, <2>2, <2>4 DEF Bus, BusTypes
  <2>6. /\ sent'[f] = Append(sent[f], h) /\ replay'[f] = Tail(replay[f])
        /\ ch'[f] = ch[f] /\ seen'[f] = seen[f] /\ fol'[f] = "live"
      BY <1>3, <2>1 DEF BusTypes
  <2>7. EB!Set(replay'[f]) \subseteq EB!Set(replay[f]) /\ EB!Set(sent'[f]) = EB!Set(sent[f]) \cup {h}
      BY <2>2, <2>4, <2>6
  <2>8. Follows(f)'
    <3>1. EB!Set(sent'[f]) \subseteq Entered
        BY <1>3, <2>3, <2>7 DEF Follows
    <3>2. EB!Set(replay'[f]) \cap EB!Set(sent'[f]) = {}
        BY <1>3, <2>2, <2>6, <2>7 DEF Follows
    <3>3. seen[f] \subseteq EB!Set(replay'[f]) \cup EB!Set(sent'[f])
        BY <1>3, <2>2, <2>6, <2>7 DEF Follows
    <3>4. \A e \in EB!Set(ch[f]) : f \notin pub[e].to /\ (e \notin seen[f] => e \notin EB!Set(sent'[f]))
        BY <1>3, <2>3, <2>7 DEF Follows
    <3>5. \A e \in EB!Set(sent'[f]) : f \in pub[e].to => e \in seen[f]
        BY <1>3, <2>3, <2>7 DEF Follows
    <3>6. \A e \in EB!Set(recent) : \/ e \in seen[f] \/ f \in pub[e].to
                                  \/ e \in EB!Set(ch[f]) \/ e \in EB!Set(sent'[f])
                                  \/ e \in missed[f]
        BY <1>3, <2>1, <2>7 DEF Follows
    <3>7. Once(sent'[f]) /\ Once(replay'[f]) /\ EB!Set(replay'[f]) \subseteq seen[f]
        BY <1>3, <2>2, <2>4, <2>6, <2>7 DEF Follows
    <3> QED
        BY <1>1, <1>3, <2>6, <3>1, <3>2, <3>3, <3>4, <3>5, <3>6, <3>7 DEF Follows
  <2> QED
      BY <1>2, <2>5, <2>8 DEF BusInv
<1>8. CASE EB!Receive(f)
  <2> DEFINE h == Head(ch[f])
  <2>1. /\ replay[f] = <<>> /\ ch[f] # <<>> /\ fol[f] = "live"
        /\ sent' = [sent EXCEPT ![f] = IF h \in seen[f] THEN sent[f] ELSE Append(sent[f], h)]
        /\ ch' = [ch EXCEPT ![f] = Tail(ch[f])]
        /\ UNCHANGED <<subs, closed, replay, fol, seen>>
      BY <1>8 DEF EB!Receive, EB!bus
  <2>2. /\ Tail(ch[f]) \in Seq(Events) /\ h \in Events
        /\ EB!Set(ch[f]) = EB!Set(Tail(ch[f])) \cup {h}
        /\ Once(Tail(ch[f])) /\ h \notin EB!Set(Tail(ch[f]))
      BY <1>3, <2>1, Taken DEF BusTypes, Follows
  <2>3. h \in Entered /\ f \notin pub[h].to /\ (h \notin seen[f] => h \notin EB!Set(sent[f]))
      BY <1>3, <2>2 DEF Follows
  <2>4. /\ Append(sent[f], h) \in Seq(Events)
        /\ EB!Set(Append(sent[f], h)) = EB!Set(sent[f]) \cup {h}
        /\ h \notin seen[f] => Once(Append(sent[f], h))
      BY <1>3, <2>2, <2>3, Appended DEF BusTypes, Follows
  <2> HIDE DEF h
  <2>5. Bus' /\ BusTypes'
      BY <1>1, <1>3, <2>1, <2>2, <2>4 DEF Bus, BusTypes
  <2>6. /\ ch'[f] = Tail(ch[f]) /\ replay'[f] = <<>> /\ replay[f] = <<>>
        /\ seen'[f] = seen[f] /\ fol'[f] = "live"
        /\ sent'[f] = IF h \in seen[f] THEN sent[f] ELSE Append(sent[f], h)
      BY <1>3, <2>1 DEF BusTypes
  <2>7. /\ EB!Set(ch[f]) = EB!Set(ch'[f]) \cup {h} /\ Once(ch'[f]) /\ h \notin EB!Set(ch'[f])
        /\ EB!Set(replay'[f]) = {} /\ EB!Set(replay[f]) = {}
        /\ Once(replay'[f])
      BY <2>2, <2>6, BusNothing
  <2>8. Once(sent'[f]) /\ EB!Set(sent'[f]) \subseteq EB!Set(sent[f]) \cup {h}
        /\ EB!Set(sent[f]) \subseteq EB!Set(sent'[f])
        /\ (h \in EB!Set(sent'[f]) \/ h \in seen[f])
      BY <1>3, <2>4, <2>6 DEF Follows
  <2>9. Follows(f)'
    <3>1. EB!Set(sent'[f]) \subseteq Entered /\ EB!Set(ch'[f]) \subseteq Entered
        BY <1>3, <2>3, <2>7, <2>8 DEF Follows
    <3>2. seen[f] \subseteq EB!Set(sent'[f])
        BY <1>3, <2>7, <2>8 DEF Follows
    <3>3. \A e \in EB!Set(ch'[f]) : f \notin pub[e].to /\ (e \notin seen[f] => e \notin EB!Set(sent'[f]))
        BY <1>3, <2>7, <2>8 DEF Follows
    <3>4. \A e \in EB!Set(sent'[f]) : f \in pub[e].to => e \in seen[f]
        BY <1>3, <2>3, <2>8 DEF Follows
    <3>5. \A e \in EB!Set(recent) : \/ e \in seen[f] \/ f \in pub[e].to
                                  \/ e \in EB!Set(ch'[f]) \/ e \in EB!Set(sent'[f])
                                  \/ e \in missed[f]
        BY <1>3, <2>1, <2>7, <2>8 DEF Follows
    <3> QED
        BY <1>1, <1>3, <2>6, <2>7, <2>8, <3>1, <3>2, <3>3, <3>4, <3>5 DEF Follows
  <2> QED
      BY <1>2, <2>5, <2>9 DEF BusInv
<1> QED
    BY <1>4, <1>5, <1>6, <1>7, <1>8 DEF EB!Following

LEMMA BusInvInit == EB!Init => BusInv
<1> SUFFICES ASSUME EB!Init PROVE BusInv
    OBVIOUS
<1> QED
    BY BusNothing DEF EB!Init, BusInv, Bus, BusTypes, Follows

\* Every step, of whoever it is.
LEMMA BusInvNext == Room /\ BusInv /\ [EB!Next]_(EB!vars) => BusInv'
<1> SUFFICES ASSUME Room, BusInv, [EB!Next]_(EB!vars) PROVE BusInv'
    OBVIOUS
<1>1. CASE UNCHANGED EB!vars
    BY <1>1 DEF EB!vars, EB!bus, EB!follower, BusInv, Bus, BusTypes, Follows, Entered
<1>2. ASSUME NEW e \in Events, EB!Publishing(e) PROVE BusInv'
    BY <1>2, BusInvEnter, BusInvOffer DEF EB!Publishing
<1> QED
    BY <1>1, <1>2, BusInvFollow DEF EB!Next

\* It leaves nothing between the history and what arrives.
LEMMA BusInvNothing == BusInv => EB!NothingFallsBetween
<1> SUFFICES ASSUME BusInv, NEW f \in Followers, EB!Caught(f), missed[f] = {}
             PROVE  /\ \A e \in EB!Set(recent) : f \in pub[e].to \/ e \in EB!Set(sent[f])
                    /\ \A i, j \in DOMAIN sent[f] : sent[f][i] = sent[f][j] => i = j
    BY DEF EB!NothingFallsBetween
<1> QED
    BY BusNothing DEF BusInv, Follows, EB!Caught, Once

\* The invariant holds of every behaviour.
THEOREM EventBusInv == ASSUME Room PROVE EB!Spec => []BusInv
<1> QED
    BY BusInvInit, BusInvNext, PTL DEF EB!Spec

\* A follower that has caught up and missed nothing was sent every event of the history
\* once, whatever was published as it subscribed (stream.go:33).
THEOREM EventBusNothingFallsBetween == ASSUME Room PROVE EB!Spec => []EB!NothingFallsBetween
<1> QED
    BY EventBusInv, BusInvNothing, PTL

-------------------------------------------------------------------------------
(* The servers and the forwards of a pod.                                    *)

\* One operation at a time, and `None` is no directory and no server.
OneByOne == "overlap" \notin TunnelFaults /\ None \notin Srcs \cup TU!Servers

\* What a reconcile and the operations are made of.
TunnelSteps == {"idle", "release", "server", "start", "store", "link", "forward", "remember", "mount"}

RecState == [step : TunnelSteps, host : Hosts \cup {None}, src : Srcs \cup {None},
             srv : TU!Servers \cup {None}]
OpState == [step : {"none", "stop", "nodedown", "nodes", "down"}, host : Hosts \cup {None},
            srv : TU!Servers \cup {None}, left : SUBSET (Hosts \X (TU!Servers \cup {None}))]

TunnelTypes ==
    /\ up \in {"up", "closing", "down"} /\ mounted \in Srcs \cup {None}
    /\ relays \in TU!Servers \cup {None} /\ link \in [Hosts -> TU!Servers \cup {None}]
    /\ server \in [TU!Servers -> [src : Srcs \cup {None}, runs : BOOLEAN]]
    /\ rev \subseteq Hosts \X TU!Servers
    /\ holds \in [Hosts -> TU!Servers \cup {None}]
    /\ rec \in [Reconcilers -> RecState] /\ op \in OpState
    /\ ports \subseteq Ports /\ fwd \subseteq Ports /\ asking \subseteq Ports

\* One of them is under way.
Busy(t) == rec[t].step # "idle"
Solo ==
    /\ \A t \in Reconcilers : rec[t].step = "idle" => rec[t] = TU!Idle
    /\ \A t, u \in Reconcilers : Busy(t) /\ Busy(u) => t = u
    /\ \A p, q \in asking : p = q
    /\ asking # {} => \A t \in Reconcilers : ~Busy(t)
    /\ op.step # "none" => asking = {} /\ \A t \in Reconcilers : ~Busy(t)

\* Where the operation is when the pod is.
Ends ==
    /\ op.step = "none" => op = TU!NoOp /\ up # "closing"
    /\ op.step = "nodedown" => up = "up"
    /\ op.step \in {"nodes", "down"} => up = "closing"
    /\ up = "down" => op = TU!NoOp /\ relays = None
    /\ up # "up" => asking = {} /\ fwd = {} /\ \A t \in Reconcilers : ~Busy(t)
    /\ op.step = "stop" => relays = None

\* What serves is the pod's one server, one it is about to have or one it is about to
\* stop, and it serves what is mounted.
Serves ==
    /\ \A v \in TU!Servers : server[v].runs =>
           /\ server[v].src = mounted /\ mounted # None
           /\ \/ relays = v
              \/ op.step = "stop" /\ op.srv = v
              \/ \E t \in Reconcilers : rec[t].step = "store" /\ rec[t].srv = v
    /\ relays # None => server[relays].runs
    /\ op.step = "stop" /\ op.srv # None => server[op.srv].runs

\* What a reconcile knows is so for as long as it is under way.
Knows(t) ==
    /\ rec[t].step = "start" => relays = None /\ rec[t].src = mounted /\ mounted # None
    /\ rec[t].step = "store" => relays = None /\ rec[t].srv \in TU!Servers /\ server[rec[t].srv].runs
    /\ rec[t].step \in {"link", "forward", "remember", "mount"} =>
           rec[t].srv = relays /\ relays # None
    /\ Busy(t) => rec[t].host \in Hosts

\* A forward leads to that server and is known, or about to be.
Leads ==
    /\ \A h \in Hosts : link[h] \in {None, relays}
    /\ \A h \in Hosts, v \in TU!Servers : <<h, v>> \in rev =>
           \/ link[h] = v
           \/ op.step = "stop" /\ op.srv = v /\ <<h, v>> \in op.left
           \/ \E t \in Reconcilers : rec[t].step = "remember" /\ rec[t].host = h /\ rec[t].srv = v

\* A port that is asked for has nobody, and what is forwarded was asked for.
Forwards ==
    /\ \A p, q \in ports : LocalOf[p] = LocalOf[q] => p = q
    /\ \A p \in asking, q \in ports : LocalOf[p] # LocalOf[q]
    /\ fwd \subseteq ports \cup asking

\* What serves and what is forwarded follows what is mounted.
TunnelInv == TunnelTypes /\ Solo /\ Ends /\ Serves /\ (\A t \in Reconcilers : Knows(t)) /\ Leads /\ Forwards

-----------------------------------------------------------------------------
\* When nothing else is under way, nothing is; an operation leaves no reconcile, and a
\* request for a port leaves neither.
LEMMA ByAlone == ASSUME OneByOne, TU!Alone, TunnelInv
  PROVE op = TU!NoOp /\ asking = {} /\ \A t \in Reconcilers : rec[t] = TU!Idle /\ ~Busy(t)
BY DEF OneByOne, TU!Alone, TU!Idle, Busy, TunnelInv

LEMMA ByOp == ASSUME TunnelInv, op.step # "none"
  PROVE asking = {} /\ \A t \in Reconcilers : rec[t] = TU!Idle /\ ~Busy(t)
BY DEF TunnelInv, Solo, Busy

LEMMA ByAsking == ASSUME TunnelInv, asking # {}
  PROVE op.step = "none" /\ up = "up" /\ \A t \in Reconcilers : rec[t] = TU!Idle /\ ~Busy(t)
BY DEF TunnelInv, Solo, Busy, Ends

\* A directory is mounted: nothing served the path.
LEMMA TunnelInvMount ==
    ASSUME OneByOne, TunnelInv, NEW src \in Srcs, TU!Mount(src)
    PROVE  TunnelInv'
<1> USE DEF TU!Mount, TU!relay, TU!machines, TU!forwards
<1>1. op = TU!NoOp /\ asking = {} /\ \A t \in Reconcilers : rec[t] = TU!Idle /\ ~Busy(t)
    BY ByAlone
<1>2. \A v \in TU!Servers : ~server[v].runs
    BY <1>1 DEF TunnelInv, Serves, TU!NoOp, TU!Idle
<1>3. relays = None
    BY <1>2 DEF TunnelInv, Serves, TunnelTypes
<1>4. TunnelTypes' /\ Solo' /\ Ends' /\ Leads' /\ Forwards'
    BY DEF TunnelInv, TunnelTypes, Solo, Ends, Leads, Forwards, Busy
<1>5. Serves'
    BY <1>1, <1>2, <1>3 DEF Serves, TU!NoOp
<1>6. \A t \in Reconcilers : Knows(t)'
    BY <1>1 DEF Knows, TU!Idle, Busy
<1> QED
    BY <1>4, <1>5, <1>6 DEF TunnelInv

\* What the nodes write is theirs.
LEMMA TunnelInvWrite ==
    ASSUME TunnelInv, NEW h \in Hosts, TU!Write(h) \/ TU!WriteBack(h)
    PROVE  TunnelInv'
BY DEF TU!Write, TU!WriteBack, TU!relay, TU!forwards, TunnelInv, TunnelTypes, Solo, Ends,
       Leads, Forwards, Busy, Serves, Knows

\* The steps of a reconcile that leave the servers and the forwards.
Passive(t) ==
    \/ \E h \in Hosts : TU!Begin(t, h)
    \/ TU!Release(t) \/ TU!Lookup(t) \/ TU!StartFails(t) \/ TU!Linked(t) \/ TU!Take(t)

\* Such a step.
LEMMA TunnelInvPassive ==
    ASSUME OneByOne, TunnelInv, NEW t \in Reconcilers, Passive(t)
    PROVE  TunnelInv'
<1>1. /\ UNCHANGED <<up, mounted, mounts_TU, relays, server, link, rev, op, ports, fwd, asking>>
      /\ holds' \in [Hosts -> TU!Servers \cup {None}]
    BY DEF Passive, TU!Begin, TU!Release, TU!Lookup, TU!StartFails, TU!Linked, TU!Take,
           TU!relay, TU!machines, TU!forwards, TunnelInv, TunnelTypes
<1>2. /\ \A u \in Reconcilers \ {t} : rec'[u] = rec[u] /\ ~Busy(u)
      /\ op.step = "none" /\ asking = {} /\ rec[t].step \notin {"store", "remember"}
      /\ up = "up"
    BY ByAlone DEF Passive, TU!Begin, TU!Release, TU!Lookup, TU!StartFails, TU!Linked,
           TU!Take, TunnelInv, TunnelTypes, Solo, TU!Step, Busy, TU!NoOp, TU!Idle, Ends
<1>3. /\ rec' \in [Reconcilers -> RecState]
      /\ rec'[t].step \notin {"store", "remember"}
      /\ rec'[t].step = "idle" => rec'[t] = TU!Idle
      /\ Knows(t)'
  <2>0. rec \in [Reconcilers -> RecState] /\ Knows(t) /\ TU!Idle \in RecState /\ relays \in TU!Servers \cup {None} /\ mounted \in Srcs \cup {None}
      BY DEF TunnelInv, TunnelTypes, TU!Idle, RecState, TunnelSteps
  <2>1. CASE \E h \in Hosts : TU!Begin(t, h)
      BY <1>1, <2>0, <2>1 DEF TU!Begin, Knows, TU!Idle, RecState, TunnelSteps, Busy
  <2>2. CASE TU!Release(t)
      BY <1>1, <2>0, <2>2 DEF TU!Release, Knows, TU!Idle, RecState, TunnelSteps, Busy
  <2>3. CASE TU!Lookup(t)
      BY <1>1, <2>0, <2>3 DEF TU!Lookup, Knows, TU!Idle, RecState, TunnelSteps, Busy
  <2>4. CASE TU!StartFails(t)
      BY <1>1, <2>0, <2>4 DEF TU!StartFails, Knows, TU!Idle, RecState, TunnelSteps, Busy
  <2>5. CASE TU!Linked(t)
      BY <1>1, <2>0, <2>5 DEF TU!Linked, TU!Step, Knows, TU!Idle, RecState, TunnelSteps,
             Busy
  <2>6. CASE TU!Take(t)
      BY <1>1, <2>0, <2>6 DEF TU!Take, Knows, TU!Idle, RecState, TunnelSteps, Busy
  <2> QED
      BY <2>1, <2>2, <2>3, <2>4, <2>5, <2>6 DEF Passive
<1>4. \A u \in Reconcilers : Knows(u)'
    BY <1>1, <1>2, <1>3 DEF TunnelInv, Knows, Busy
<1>5. TunnelTypes' /\ Forwards'
    BY <1>1, <1>3 DEF TunnelInv, TunnelTypes, Forwards
<1>6. Solo'
    BY <1>1, <1>2, <1>3 DEF TunnelInv, Solo, Busy
<1>7. Ends'
    BY <1>1, <1>2, <1>3 DEF TunnelInv, Ends, Busy
<1>8. Serves'
    BY <1>1, <1>2, <1>3 DEF TunnelInv, Serves, Busy
<1>9. Leads'
    BY <1>1, <1>2, <1>3 DEF TunnelInv, Leads, Busy
<1> QED
    BY <1>4, <1>5, <1>6, <1>7, <1>8, <1>9 DEF TunnelInv

\* The step of a reconcile that is under way: it is alone.
LEMMA ByBusy == ASSUME TunnelInv, NEW t \in Reconcilers, Busy(t)
  PROVE /\ \A u \in Reconcilers \ {t} : ~Busy(u) /\ rec[u] = TU!Idle
        /\ op = TU!NoOp /\ op.step = "none" /\ asking = {} /\ up = "up"
BY DEF TunnelInv, Solo, Busy, Ends

\* An rclone is started, for what is mounted.
LEMMA TunnelInvStartServer ==
    ASSUME OneByOne, TunnelInv, NEW t \in Reconcilers, TU!StartServer(t)
    PROVE  TunnelInv'
<1>0. PICK v \in TU!Servers :
        /\ server[v].src = None
        /\ server' = [server EXCEPT ![v] = [src |-> rec[t].src, runs |-> TRUE]]
        /\ rec' = [rec EXCEPT ![t].step = "store", ![t].srv = v]
    BY DEF TU!StartServer
<1>1. /\ UNCHANGED <<up, mounted, mounts_TU, relays, link, rev, holds, op, ports, fwd, asking>>
      /\ rec[t].step = "start"
    BY DEF TU!StartServer, TU!machines, TU!forwards
<1>2. Busy(t) /\ Knows(t) /\ relays = None /\ rec[t].src = mounted /\ mounted # None
    BY <1>1 DEF TunnelInv, Knows, Busy
<1>3. /\ \A u \in Reconcilers \ {t} : ~Busy(u) /\ rec[u] = TU!Idle
      /\ op = TU!NoOp /\ op.step = "none" /\ asking = {} /\ up = "up"
    BY <1>2, ByBusy
<1>4. TunnelTypes'
  <2>1. rec'[t] = [rec[t] EXCEPT !.step = "store", !.srv = v]
      BY <1>0 DEF TunnelInv, TunnelTypes
  <2>2. rec' \in [Reconcilers -> RecState]
    <3>1. rec'[t] \in RecState
      <4>1. rec[t] \in RecState
          BY DEF TunnelInv, TunnelTypes
      <4> QED
          BY <2>1, <4>1 DEF RecState, TunnelSteps
    <3> QED
        BY <1>0, <3>1 DEF TunnelInv, TunnelTypes
  <2>3. server' \in [TU!Servers -> [src : Srcs \cup {None}, runs : BOOLEAN]]
      BY <1>0, <1>2 DEF TunnelInv, TunnelTypes
  <2> QED
      BY <1>1, <2>2, <2>3 DEF TunnelInv, TunnelTypes
<1>5. /\ rec'[t].step = "store" /\ rec'[t].srv = v /\ rec'[t].host = rec[t].host
      /\ \A u \in Reconcilers \ {t} : rec'[u] = rec[u]
      /\ server'[v].runs /\ server'[v].src = mounted
      /\ \A w \in TU!Servers \ {v} : server'[w] = server[w]
    BY <1>0, <1>2 DEF TunnelInv, TunnelTypes
<1>6. \A u \in Reconcilers : Knows(u)'
    BY <1>1, <1>2, <1>3, <1>5 DEF TunnelInv, Knows, Busy, TU!Idle
<1>7. Solo' /\ Ends' /\ Forwards'
    BY <1>1, <1>3, <1>5 DEF TunnelInv, Solo, Ends, Forwards, Busy
<1>8. Serves'
    BY <1>1, <1>2, <1>3, <1>5 DEF TunnelInv, Serves, Busy, TU!Idle
<1>9. Leads'
    BY <1>1, <1>3, <1>5 DEF TunnelInv, Leads, Busy, TU!Idle
<1> QED
    BY <1>4, <1>6, <1>7, <1>8, <1>9 DEF TunnelInv

\* It becomes the server of the path.
LEMMA TunnelInvStore ==
    ASSUME OneByOne, TunnelInv, NEW t \in Reconcilers, TU!Store(t)
    PROVE  TunnelInv'
<1>1. /\ UNCHANGED <<up, mounted, mounts_TU, server, link, rev, holds, op, ports, fwd, asking>>
      /\ rec[t].step = "store" /\ relays' = rec[t].srv
      /\ rec' = [rec EXCEPT ![t].step = "link"]
    BY DEF TU!Store, TU!Step, TU!machines, TU!forwards
<1>2. Busy(t) /\ Knows(t) /\ relays = None /\ rec[t].srv \in TU!Servers /\ server[rec[t].srv].runs
    BY <1>1 DEF TunnelInv, Knows, Busy
<1>3. /\ \A u \in Reconcilers \ {t} : ~Busy(u) /\ rec[u] = TU!Idle
      /\ op = TU!NoOp /\ op.step = "none" /\ asking = {} /\ up = "up"
    BY <1>2, ByBusy
<1>4. TunnelTypes'
    BY <1>1, <1>2 DEF TunnelInv, TunnelTypes, RecState, TunnelSteps
<1>5. /\ rec'[t].step = "link" /\ rec'[t].srv = rec[t].srv /\ rec'[t].host = rec[t].host
      /\ \A u \in Reconcilers \ {t} : rec'[u] = rec[u]
      /\ rec[t].srv # None
    BY <1>1, <1>2 DEF TunnelInv, TunnelTypes, OneByOne
<1>6. \A u \in Reconcilers : Knows(u)'
    BY <1>1, <1>2, <1>3, <1>5 DEF TunnelInv, Knows, Busy, TU!Idle
<1>7. Solo' /\ Ends' /\ Forwards'
    BY <1>1, <1>3, <1>5 DEF TunnelInv, Solo, Ends, Forwards, Busy
<1>8. Serves'
  <2>1. \A v \in TU!Servers : server[v].runs => v = rec[t].srv
      BY <1>2, <1>3 DEF TunnelInv, Serves, OneByOne, TU!Idle
  <2> QED
      BY <1>1, <1>2, <1>3, <1>5, <2>1 DEF TunnelInv, Serves
<1>9. Leads'
    BY <1>1, <1>2, <1>3, <1>5 DEF TunnelInv, Leads, Busy, TU!Idle
<1> QED
    BY <1>4, <1>6, <1>7, <1>8, <1>9 DEF TunnelInv

\* A forward is made to it.
LEMMA TunnelInvForward ==
    ASSUME OneByOne, TunnelInv, NEW t \in Reconcilers, TU!Forward(t)
    PROVE  TunnelInv'
<1>1. /\ UNCHANGED <<up, mounted, mounts_TU, relays, server, link, holds, op, ports, fwd, asking>>
      /\ rec[t].step = "forward"
      /\ \/ rev' = rev \cup {<<rec[t].host, rec[t].srv>>} /\ rec' = [rec EXCEPT ![t].step = "remember"]
         \/ rev' = rev /\ rec' = [rec EXCEPT ![t] = TU!Idle]
    BY DEF TU!Forward, TU!Step, TU!machines, TU!forwards
<1>2. Busy(t) /\ Knows(t) /\ rec[t].srv = relays /\ relays \in TU!Servers /\ rec[t].host \in Hosts
    BY <1>1 DEF TunnelInv, Knows, Busy, TunnelTypes
<1>3. /\ \A u \in Reconcilers \ {t} : ~Busy(u) /\ rec[u] = TU!Idle
      /\ op = TU!NoOp /\ op.step = "none" /\ asking = {} /\ up = "up"
    BY <1>2, ByBusy
<1>4. TunnelTypes'
  <2>1. rec' \in [Reconcilers -> RecState]
    <3>1. CASE rec' = [rec EXCEPT ![t].step = "remember"]
        BY <3>1 DEF TunnelInv, TunnelTypes, RecState, TunnelSteps
    <3>2. CASE rec' = [rec EXCEPT ![t] = TU!Idle]
        BY <3>2 DEF TunnelInv, TunnelTypes, RecState, TunnelSteps, TU!Idle
    <3> QED
        BY <1>1, <3>1, <3>2
  <2>2. rev' \subseteq Hosts \X TU!Servers
      BY <1>1, <1>2 DEF TunnelInv, TunnelTypes
  <2> QED
      BY <1>1, <2>1, <2>2 DEF TunnelInv, TunnelTypes
<1>5. /\ \A u \in Reconcilers \ {t} : rec'[u] = rec[u]
      /\ \/ /\ rec'[t].step = "remember" /\ rec'[t].srv = rec[t].srv /\ rec'[t].host = rec[t].host
            /\ rev' = rev \cup {<<rec[t].host, rec[t].srv>>}
         \/ rec'[t] = TU!Idle /\ rev' = rev
  <2>0. rec \in [Reconcilers -> RecState]
      BY DEF TunnelInv, TunnelTypes
  <2>1. CASE rec' = [rec EXCEPT ![t].step = "remember"] /\ rev' = rev \cup {<<rec[t].host, rec[t].srv>>}
      BY <2>0, <2>1 DEF RecState
  <2>2. CASE rec' = [rec EXCEPT ![t] = TU!Idle] /\ rev' = rev
      BY <2>0, <2>2
  <2> QED
      BY <1>1, <2>1, <2>2
<1>6. \A u \in Reconcilers : Knows(u)'
    BY <1>1, <1>2, <1>3, <1>5 DEF TunnelInv, Knows, Busy, TU!Idle
<1>7. Solo' /\ Ends' /\ Forwards'
    BY <1>1, <1>3, <1>5 DEF TunnelInv, Solo, Ends, Forwards, Busy, TU!Idle
<1>8. Serves'
    BY <1>1, <1>2, <1>3, <1>5 DEF TunnelInv, Serves, Busy, TU!Idle
<1>9. Leads'
    BY <1>1, <1>2, <1>3, <1>5 DEF TunnelInv, Leads, Busy, TU!Idle
<1> QED
    BY <1>4, <1>6, <1>7, <1>8, <1>9 DEF TunnelInv

\* The forward is remembered.
LEMMA TunnelInvRemember ==
    ASSUME OneByOne, TunnelInv, NEW t \in Reconcilers, TU!Remember(t)
    PROVE  TunnelInv'
<1>1. /\ UNCHANGED <<up, mounted, mounts_TU, relays, server, rev, holds, op, ports, fwd, asking>>
      /\ rec[t].step = "remember" /\ link' = [link EXCEPT ![rec[t].host] = rec[t].srv]
      /\ rec' = [rec EXCEPT ![t].step = "mount"]
    BY DEF TU!Remember, TU!Step, TU!machines, TU!forwards
<1>2. Busy(t) /\ Knows(t) /\ rec[t].srv = relays /\ relays \in TU!Servers /\ rec[t].host \in Hosts
    BY <1>1 DEF TunnelInv, Knows, Busy, TunnelTypes
<1>3. /\ \A u \in Reconcilers \ {t} : ~Busy(u) /\ rec[u] = TU!Idle
      /\ op = TU!NoOp /\ op.step = "none" /\ asking = {} /\ up = "up"
    BY <1>2, ByBusy
<1>4. TunnelTypes'
    BY <1>1, <1>2 DEF TunnelInv, TunnelTypes, RecState, TunnelSteps
<1>5. /\ rec'[t].step = "mount" /\ rec'[t].srv = rec[t].srv /\ rec'[t].host = rec[t].host
      /\ \A u \in Reconcilers \ {t} : rec'[u] = rec[u]
      /\ link'[rec[t].host] = relays /\ \A h \in Hosts \ {rec[t].host} : link'[h] = link[h]
    BY <1>1, <1>2 DEF TunnelInv, TunnelTypes
<1>6. \A u \in Reconcilers : Knows(u)'
    BY <1>1, <1>2, <1>3, <1>5 DEF TunnelInv, Knows, Busy, TU!Idle
<1>7. Solo' /\ Ends' /\ Forwards'
    BY <1>1, <1>3, <1>5 DEF TunnelInv, Solo, Ends, Forwards, Busy
<1>8. Serves'
    BY <1>1, <1>2, <1>3, <1>5 DEF TunnelInv, Serves, Busy, TU!Idle
<1>9. Leads'
  <2>1. \A h \in Hosts, v \in TU!Servers : <<h, v>> \in rev =>
           link[h] = v \/ (h = rec[t].host /\ v = relays)
      BY <1>2, <1>3 DEF TunnelInv, Leads, Busy
  <2>2. \A h \in Hosts, v \in TU!Servers : <<h, v>> \in rev => v = relays
      BY <2>1 DEF TunnelInv, Leads, OneByOne
  <2>3. \A h \in Hosts, v \in TU!Servers : <<h, v>> \in rev => link'[h] = v
      BY <1>5, <2>1, <2>2
  <2> QED
      BY <1>1, <1>5, <2>3 DEF TunnelInv, Leads
<1> QED
    BY <1>4, <1>6, <1>7, <1>8, <1>9 DEF TunnelInv

-----------------------------------------------------------------------------
\* An operation that takes what was served out of the pod.
LEMMA TunnelInvTakeOut ==
    ASSUME OneByOne, TunnelInv, TU!Unmount \/ TU!StopRelays PROVE TunnelInv'
<1>1. /\ UNCHANGED <<up, mounted, mounts_TU, server, rev, holds, rec, ports, fwd, asking>>
      /\ op' = [step |-> "stop", host |-> None, srv |-> relays,
              left |-> {<<h, link[h]>> : h \in {x \in Hosts : link[x] # None}}]
      /\ relays' = None /\ link' = [h \in Hosts |-> None]
      /\ op.step # "stop" /\ up # "down"
    BY DEF TU!Unmount, TU!StopRelays, TU!machines, TU!forwards, TU!NoOp, TunnelInv, Ends
<1>0. op' \in OpState
    BY <1>1 DEF TunnelInv, TunnelTypes, OpState
<1>2. asking = {} /\ \A t \in Reconcilers : rec[t] = TU!Idle /\ ~Busy(t)
  <2>1. CASE TU!Unmount
      BY <2>1, ByAlone DEF TU!Unmount
  <2>2. CASE TU!StopRelays
      BY <2>2, ByOp DEF TU!StopRelays
  <2> QED
      BY <2>1, <2>2
<1>3. /\ op'.step = "stop" /\ op'.srv = relays
      /\ op'.left = {<<h, link[h]>> : h \in {x \in Hosts : link[x] # None}}
      /\ \A h \in Hosts : link'[h] = None
    BY <1>1
<1>4. TunnelTypes' /\ Forwards'
    BY <1>0, <1>1 DEF TunnelInv, TunnelTypes, Forwards
<1>5. Solo' /\ Ends'
    BY <1>1, <1>2, <1>3 DEF TunnelInv, Solo, Ends, Busy, TunnelTypes
<1>6. Serves'
    BY <1>1, <1>2, <1>3 DEF TunnelInv, Serves, TunnelTypes, OneByOne, TU!Idle
<1>7. \A u \in Reconcilers : Knows(u)'
    BY <1>1, <1>2 DEF Knows, Busy, TU!Idle
<1>8. Leads'
  <2>1. ASSUME NEW h \in Hosts, NEW v \in TU!Servers, <<h, v>> \in rev
        PROVE  link[h] = v /\ v = relays /\ <<h, v>> \in op'.left
    <3>1. link[h] = v
        BY <1>1, <1>2, <2>1 DEF TunnelInv, Leads, TU!Idle
    <3>2. v # None
        BY DEF OneByOne
    <3> QED
        BY <1>3, <3>1, <3>2 DEF TunnelInv, Leads
  <2> QED
      BY <1>1, <1>3, <2>1 DEF Leads
<1> QED
    BY <1>4, <1>5, <1>6, <1>7, <1>8 DEF TunnelInv

\* Its forwards are cancelled and it is killed.
LEMMA TunnelInvStop ==
    ASSUME OneByOne, TunnelInv, TU!Stopped \/ TU!Closed
    PROVE  TunnelInv'
<1>1. /\ UNCHANGED <<mounts_TU, relays, link, holds, rec, ports, fwd, asking>>
      /\ op.step = "stop" /\ TU!Stop /\ op' = TU!NoOp
      /\ \/ up = "up" /\ up' = "up" /\ mounted' = None
         \/ up = "closing" /\ up' = "down" /\ mounted' = mounted
    BY DEF TU!Stopped, TU!Closed, TU!machines, TU!forwards
<1>2. asking = {} /\ (\A t \in Reconcilers : rec[t] = TU!Idle /\ ~Busy(t)) /\ relays = None
    BY <1>1, ByOp DEF TunnelInv, Ends
<1>3. \A h \in Hosts : link[h] = None
    BY <1>2 DEF TunnelInv, Leads
<1>4. rev' = {}
  <2>1. \A h \in Hosts, v \in TU!Servers : <<h, v>> \in rev => op.srv = v /\ <<h, v>> \in op.left
      BY <1>2, <1>3 DEF TunnelInv, Leads, OneByOne, TU!Idle
  <2>2. rev \subseteq Hosts \X TU!Servers
      BY DEF TunnelInv, TunnelTypes
  <2>3. \A x \in rev : x \in op.left /\ x[2] = op.srv /\ op.srv \in TU!Servers
      BY <2>1, <2>2
  <2> QED
      BY <1>1, <2>3 DEF TU!Stop, TU!Cancelled, OneByOne
<1>5. /\ server' \in [TU!Servers -> [src : Srcs \cup {None}, runs : BOOLEAN]]
      /\ \A v \in TU!Servers : ~server'[v].runs
  <2>1. \A v \in TU!Servers : server[v].runs => op.srv = v
      BY <1>2 DEF TunnelInv, Serves, OneByOne, TU!Idle
  <2>2. CASE op.srv = None
      BY <1>1, <2>1, <2>2 DEF TU!Stop, TunnelInv, TunnelTypes, OneByOne
  <2>3. CASE op.srv # None
    <3>1. server' = [server EXCEPT ![op.srv].runs = FALSE] /\ op.srv \in TU!Servers
      <4>1. op.srv \in TU!Servers
          BY <2>3 DEF TunnelInv, TunnelTypes, OpState
      <4> QED
          BY <1>1, <2>3, <4>1 DEF TU!Stop
    <3> QED
        BY <2>1, <3>1 DEF TunnelInv, TunnelTypes
  <2> QED
      BY <2>2, <2>3
<1>6. TunnelTypes' /\ Forwards'
    BY <1>1, <1>4, <1>5 DEF TunnelInv, TunnelTypes, OpState, TU!NoOp, Forwards
<1>7. Solo' /\ Ends'
    BY <1>1, <1>2 DEF TunnelInv, Solo, Ends, Busy, TU!NoOp
<1>8. Serves'
    BY <1>1, <1>2, <1>5 DEF Serves, TU!NoOp
<1>9. \A u \in Reconcilers : Knows(u)'
    BY <1>1, <1>2 DEF Knows, Busy, TU!Idle
<1>10. Leads'
    BY <1>1, <1>3, <1>4 DEF Leads
<1> QED
    BY <1>6, <1>7, <1>8, <1>9, <1>10 DEF TunnelInv

\* A node is dropped with what leads to it.
LEMMA TunnelInvDrop ==
    ASSUME OneByOne, TunnelInv, NEW h \in Hosts, TU!NodeDrop(h) \/ TU!CloseNode(h)
    PROVE  TunnelInv'
<1>1. /\ UNCHANGED <<up, mounted, mounts_TU, relays, server, holds, rec, ports, fwd, asking>>
      /\ link' = [link EXCEPT ![h] = None]
      /\ rev' = IF link[h] = None \/ link[h] # relays THEN rev ELSE rev \ {<<h, link[h]>>}
      /\ \/ op = TU!NoOp /\ up = "up" /\ op'.step = "nodedown"
         \/ op.step = "nodes" /\ op'.step = "down"
      /\ op.step \in {"none", "nodes"} /\ op' \in OpState
  <2>1. CASE TU!NodeDrop(h)
    <3>1. op' = [TU!NoOp EXCEPT !.step = "nodedown", !.host = h]
        BY <2>1 DEF TU!NodeDrop
    <3> QED
        BY <2>1, <3>1 DEF TU!NodeDrop, TU!DropNode, TU!forwards, TU!NoOp, OpState
  <2>2. CASE TU!CloseNode(h)
    <3>1. op \in OpState /\ op' = [op EXCEPT !.step = "down", !.host = h]
        BY <2>2 DEF TU!CloseNode, TunnelInv, TunnelTypes
    <3>2. op'.step = "down" /\ op' \in OpState
        BY <3>1 DEF OpState
    <3> QED
        BY <2>2, <3>2 DEF TU!CloseNode, TU!DropNode, TU!forwards
  <2> QED
      BY <2>1, <2>2
<1>2. asking = {} /\ \A t \in Reconcilers : rec[t] = TU!Idle /\ ~Busy(t)
  <2>1. CASE TU!NodeDrop(h)
      BY <2>1, ByAlone DEF TU!NodeDrop
  <2>2. CASE TU!CloseNode(h)
      BY <2>2, ByOp DEF TU!CloseNode
  <2> QED
      BY <2>1, <2>2
<1>3. /\ link'[h] = None /\ \A g \in Hosts \ {h} : link'[g] = link[g]
      /\ link' \in [Hosts -> TU!Servers \cup {None}]
    BY <1>1 DEF TunnelInv, TunnelTypes
<1>4. TunnelTypes' /\ Forwards'
    BY <1>1, <1>3 DEF TunnelInv, TunnelTypes, Forwards
<1>5. Solo' /\ Ends'
    BY <1>1, <1>2 DEF TunnelInv, Solo, Ends, Busy
<1>6. Serves'
    BY <1>1, <1>2 DEF TunnelInv, Serves, TU!NoOp
<1>7. \A u \in Reconcilers : Knows(u)'
    BY <1>1, <1>2 DEF Knows, Busy, TU!Idle
<1>8. Leads'
  <2>1. \A g \in Hosts, v \in TU!Servers : <<g, v>> \in rev => link[g] = v /\ v # None
      BY <1>1, <1>2 DEF TunnelInv, Leads, TU!Idle, OneByOne
  <2>2. \A g \in Hosts, v \in TU!Servers : <<g, v>> \in rev' => <<g, v>> \in rev /\ g # h
      BY <1>1, <2>1 DEF TunnelInv, Leads
  <2> QED
      BY <1>1, <1>3, <2>1, <2>2 DEF Leads, TunnelInv
<1> QED
    BY <1>4, <1>5, <1>6, <1>7, <1>8 DEF TunnelInv

\* A node is dropped by itself, or with the pod.
LEMMA TunnelInvDown ==
    ASSUME OneByOne, TunnelInv, TU!NodeDropped \/ TU!CloseNodeDown
    PROVE  TunnelInv'
<1>1. /\ UNCHANGED <<up, mounted, mounts_TU, relays, link, rev, server, rec, ports, fwd, asking>>
      /\ \/ op.step = "nodedown" /\ up = "up" /\ op' = TU!NoOp
         \/ op.step = "down" /\ op'.step = "nodes"
      /\ holds' \in [Hosts -> TU!Servers \cup {None}]
      /\ op'.step \in {"none", "nodes"} /\ op.step # "stop" /\ op' \in OpState
    BY DEF TU!NodeDropped, TU!CloseNodeDown, TU!NodeDown, TU!forwards, TU!relay, TU!NoOp,
           TunnelInv, TunnelTypes, OpState
<1>2. asking = {} /\ \A t \in Reconcilers : rec[t] = TU!Idle /\ ~Busy(t)
    BY <1>1, ByOp
<1>4. TunnelTypes' /\ Forwards'
    BY <1>1 DEF TunnelInv, TunnelTypes, Forwards
<1>5. Solo' /\ Ends'
    BY <1>1, <1>2 DEF TunnelInv, Solo, Ends, Busy, TU!NoOp
<1>6. Serves' /\ Leads'
    BY <1>1, <1>2 DEF TunnelInv, Serves, Leads, TU!NoOp
<1>7. \A u \in Reconcilers : Knows(u)'
    BY <1>1, <1>2 DEF Knows, Busy, TU!Idle
<1> QED
    BY <1>4, <1>5, <1>6, <1>7 DEF TunnelInv

\* The pod ends.
LEMMA TunnelInvClose == ASSUME OneByOne, TunnelInv, TU!Close PROVE TunnelInv'
<1>1. /\ UNCHANGED <<mounted, mounts_TU, relays, link, rev, server, holds, rec, ports, asking>>
      /\ op = TU!NoOp /\ op'.step = "nodes" /\ up' = "closing" /\ fwd' = fwd \ ports
    BY DEF TU!Close, TU!machines, TU!relay, TU!NoOp
<1>0. op' \in OpState
    BY DEF TU!Close, TU!NoOp, OpState
<1>2. asking = {} /\ \A t \in Reconcilers : rec[t] = TU!Idle /\ ~Busy(t)
    BY ByAlone DEF TU!Close
<1>3. fwd' = {}
    BY <1>1, <1>2 DEF TunnelInv, Forwards
<1>4. TunnelTypes' /\ Forwards'
    BY <1>0, <1>1, <1>3 DEF TunnelInv, TunnelTypes, Forwards
<1>5. Solo' /\ Ends'
    BY <1>1, <1>2, <1>3 DEF TunnelInv, Solo, Ends, Busy, TU!NoOp
<1>6. Serves' /\ Leads'
    BY <1>1, <1>2 DEF TunnelInv, Serves, Leads, TU!NoOp
<1>7. \A u \in Reconcilers : Knows(u)'
    BY <1>1, <1>2 DEF Knows, Busy, TU!Idle
<1> QED
    BY <1>4, <1>5, <1>6, <1>7 DEF TunnelInv

\* A port is asked for, and forwarded or refused.
LEMMA TunnelInvForwarding ==
    ASSUME OneByOne, TunnelInv, NEW p \in Ports, TU!Forwarding(p) PROVE TunnelInv'
<1>1. /\ UNCHANGED <<up, mounted, mounts_TU, relays, link, rev, server, holds, rec, op>>
    BY DEF TU!Forwarding, TU!Ask, TU!Open, TU!OpenFails, TU!Listed, TU!relay, TU!machines
<1>2. op.step = "none" /\ up = "up" /\ \A t \in Reconcilers : rec[t] = TU!Idle /\ ~Busy(t)
  <2>1. CASE TU!Ask(p)
      BY <2>1, ByAlone DEF TU!Ask, TU!NoOp
  <2>2. CASE TU!Open(p) \/ TU!OpenFails(p) \/ TU!Listed(p)
      BY <2>2, ByAsking DEF TU!Open, TU!OpenFails, TU!Listed
  <2> QED
      BY <2>1, <2>2 DEF TU!Forwarding
<1>3. ports' \subseteq Ports /\ fwd' \subseteq Ports /\ asking' \subseteq Ports
    BY DEF TU!Forwarding, TU!Ask, TU!Open, TU!OpenFails, TU!Listed, TunnelInv, TunnelTypes
<1>4. Forwards' /\ \A q, r \in asking' : q = r
  <2>1. CASE TU!Ask(p)
    <3>1. asking = {}
        BY <2>1, ByAlone DEF TU!Ask
    <3> QED
        BY <2>1, <3>1 DEF TU!Ask, TU!Taken, TunnelInv, Forwards
  <2>2. CASE TU!Open(p) \/ TU!OpenFails(p) \/ TU!Listed(p)
      BY <2>2 DEF TU!Open, TU!OpenFails, TU!Listed, TunnelInv, Solo, Forwards
  <2> QED
      BY <2>1, <2>2 DEF TU!Forwarding
<1>5. TunnelTypes' /\ Serves' /\ Leads' /\ \A u \in Reconcilers : Knows(u)'
    BY <1>1, <1>3 DEF TunnelInv, TunnelTypes, Serves, Leads, Knows, Busy
<1>6. Solo' /\ Ends'
    BY <1>1, <1>2, <1>4 DEF TunnelInv, Solo, Ends, Busy
<1> QED
    BY <1>4, <1>5, <1>6 DEF TunnelInv

\* A connection drops, and takes its forwards with it.
LEMMA TunnelInvBlip == ASSUME TunnelInv, NEW h \in Hosts, TU!Blip(h) PROVE TunnelInv'
<1>1. /\ UNCHANGED <<up, mounted, mounts_TU, relays, link, server, holds, rec, op, ports, asking>>
      /\ rev' \subseteq rev /\ fwd' \subseteq fwd
    BY DEF TU!Blip, TU!machines
<1> QED
    BY <1>1 DEF TunnelInv, TunnelTypes, Solo, Ends, Serves, Leads, Forwards, Knows, Busy

LEMMA TunnelInvInit == OneByOne /\ TU!Init => TunnelInv
<1> SUFFICES ASSUME OneByOne, TU!Init PROVE TunnelInv
    OBVIOUS
<1> USE DEF TU!Init
<1>1. TunnelTypes /\ Solo
    BY DEF TunnelTypes, Solo, TU!Idle, TU!NoOp, RecState, OpState, TunnelSteps, Busy
<1>2. Ends /\ Serves /\ Leads /\ Forwards
    BY DEF Ends, Serves, Leads, Forwards, TU!Idle, TU!NoOp, Busy
<1>3. \A t \in Reconcilers : Knows(t)
    BY DEF Knows, TU!Idle, Busy
<1> QED
    BY <1>1, <1>2, <1>3 DEF TunnelInv

\* Every step keeps it.
LEMMA TunnelInvNext == OneByOne /\ TunnelInv /\ [TU!Next]_(TU!vars) => TunnelInv'
<1> SUFFICES ASSUME OneByOne, TunnelInv, [TU!Next]_(TU!vars) PROVE TunnelInv'
    OBVIOUS
<1>1. CASE UNCHANGED TU!vars
    BY <1>1 DEF TU!vars, TU!relay, TU!machines, TU!forwards, TunnelInv, TunnelTypes, Solo,
           Ends, Serves, Leads,
            Forwards, Knows, Busy
<1>2. ASSUME NEW t \in Reconcilers, TU!Reconciling(t) PROVE TunnelInv'
    BY <1>2, TunnelInvPassive, TunnelInvStartServer, TunnelInvStore, TunnelInvForward,
           TunnelInvRemember
       DEF TU!Reconciling, Passive
<1>3. CASE TU!Operation
    BY <1>3, TunnelInvMount, TunnelInvDrop, TunnelInvTakeOut, TunnelInvStop,
           TunnelInvDown, TunnelInvClose DEF TU!Operation
<1>4. ASSUME NEW p \in Ports, TU!Forwarding(p) PROVE TunnelInv'
    BY <1>4, TunnelInvForwarding
<1>5. ASSUME NEW h \in Hosts, TU!Write(h) \/ TU!WriteBack(h) \/ TU!Blip(h)
      PROVE  TunnelInv'
    BY <1>5, TunnelInvWrite, TunnelInvBlip
<1> QED
    BY <1>1, <1>2, <1>3, <1>4, <1>5 DEF TU!Next

\* When nothing is under way, every server and every forward is the one of the path.
LEMMA QuietIs == ASSUME OneByOne, TunnelInv, TU!Quiet
  PROVE  /\ \A v \in TU!Servers : server[v].runs => server[v].src = mounted /\ relays = v
         /\ \A x \in rev : server[x[2]].runs
         /\ relays = None => rev = {}
         /\ fwd \subseteq ports
<1>1. \A v \in TU!Servers : server[v].runs => server[v].src = mounted /\ relays = v
    BY DEF TU!Quiet, TunnelInv, Serves, TU!NoOp, TU!Idle
<1>2. \A x \in rev : x[1] \in Hosts /\ x[2] \in TU!Servers /\ x = <<x[1], x[2]>>
    BY DEF TunnelInv, TunnelTypes
<1>3. \A x \in rev : link[x[1]] = x[2]
    BY <1>2 DEF TU!Quiet, TunnelInv, Leads, TU!NoOp, TU!Idle
<1>4. \A x \in rev : x[2] = relays /\ relays # None
    BY <1>2, <1>3 DEF TunnelInv, Leads, OneByOne
<1> QED
    BY <1>1, <1>2, <1>4 DEF TunnelInv, Serves, TU!Quiet, Forwards

\* The properties follow.
LEMMA TunnelInvHolds == OneByOne /\ TunnelInv =>
    TU!NothingOutlivesThePod /\ TU!ServedWhileMounted /\ TU!NodeReadsItsMount /\ TU!OneForwardPerPort
<1> SUFFICES ASSUME OneByOne, TunnelInv
             PROVE TU!NothingOutlivesThePod /\ TU!ServedWhileMounted /\ TU!NodeReadsItsMount /\ TU!OneForwardPerPort
    OBVIOUS
<1>1. TU!NothingOutlivesThePod
    BY QuietIs DEF TU!NothingOutlivesThePod, TunnelInv, Ends, OneByOne
<1>2. TU!ServedWhileMounted
    BY QuietIs DEF TU!ServedWhileMounted
<1>3. TU!NodeReadsItsMount
    BY DEF TU!NodeReadsItsMount, TU!Answers, TunnelInv, Serves, TunnelTypes
<1>4. TU!OneForwardPerPort
    BY QuietIs DEF TU!OneForwardPerPort, TunnelInv, Forwards
<1> QED
    BY <1>1, <1>2, <1>3, <1>4

\* The invariant holds of every behaviour.
THEOREM TunnelsInv == ASSUME OneByOne PROVE TU!Spec => []TunnelInv
<1> QED
    BY TunnelInvInit, TunnelInvNext, PTL DEF TU!Spec

\* Nothing of a pod that is down is served or forwarded; what is served is what is
\* mounted, as long as it is; what a node reads is what it mounted; and a port has one
\* forward (relay.go:26, 64, ports.go:26).
THEOREM TunnelsFollowMounts ==
    ASSUME OneByOne
    PROVE  TU!Spec => /\ []TU!NothingOutlivesThePod /\ []TU!ServedWhileMounted
                   /\ []TU!NodeReadsItsMount /\ []TU!OneForwardPerPort
<1> QED
    BY TunnelsInv, TunnelInvHolds, PTL
===============================================================================
