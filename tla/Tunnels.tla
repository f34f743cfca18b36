-------------------------------- MODULE Tunnels --------------------------------
(***************************************************************************)
(* What a pod keeps open on the connections it has (daemon/relay.go,       *)
(* ports.go; remote/relay.go, push.go): one directory of this machine      *)
(* served to the node pods that cannot reach it, by an rclone here and a   *)
(* reverse forward to each of them, and the forwards of `ports`.           *)
(* Reconciles, commands and the pod's end run in goroutines of their own.  *)
(***************************************************************************)
EXTENDS Naturals, FiniteSets

CONSTANTS
    Hosts,      \* machines with a node pod
    Srcs,       \* directories that may be mounted at the path
    Ports,      \* forwards that may be asked for
    HostOf,     \* [Ports -> Hosts]: the machine of each
    LocalOf,    \* the port here
    Reconcilers,\* goroutines that run reconcile
    MaxMounts,  \* how often something is mounted at the path
    MaxServers, \* how many rclones may be started
    FaultKinds, \* "overlap": operations run at once; "write": a node writes;
                \* "blip": a connection may drop
    None

VARIABLES
    up,      \* "up", "closing" or "down"
    mounted, \* the source of the mount at the path, if it is in the list
    mounts,  \* how often that was set
    relays,  \* s.relays: the server of the path
    server,  \* every rclone started: what it serves, and whether it runs
    link,    \* s.relayLinks: per node, the server its forward leads to
    rev,     \* the reverse forwards there are: node and server
    node,    \* nodes that have a pod
    holds,   \* what each node's pod has mounted: a server
    dirty,   \* nodes with unwritten data
    rec,     \* the reconcilers
    op,      \* the unmount, node drop or down under way
    ports,   \* s.ports
    fwd,     \* the forwards that are open
    asking   \* forward requests under way

relay == <<relays, server, link, rev>>
machines == <<node, holds, dirty>>
forwards == <<ports, fwd, asking>>
vars == <<up, mounted, mounts, relay, machines, rec, op, forwards>>

Servers == 1..MaxServers
Idle == [step |-> "idle", host |-> None, src |-> None, srv |-> None]
NoOp == [step |-> "none", host |-> None, srv |-> None, left |-> {}]

\* Nothing else is under way, unless operations may overlap.
Alone ==
    \/ "overlap" \in FaultKinds
    \/ op = NoOp /\ asking = {} /\ \A t \in Reconcilers : rec[t] = Idle

\* What a node reads when it uses a relayed mount: through its forward.
Answers(h, v) == v # None /\ server[v].runs /\ <<h, v>> \in rev

-----------------------------------------------------------------------------
(* The mount list                                                          *)

Mount(src) ==
    /\ up = "up" /\ mounted = None /\ Alone /\ mounts < MaxMounts
    /\ mounted' = src /\ mounts' = mounts + 1
    /\ UNCHANGED <<up, relay, machines, rec, op, forwards>>

Write(h) ==
    /\ "write" \in FaultKinds /\ Answers(h, holds[h]) /\ h \notin dirty
    /\ dirty' = dirty \cup {h}
    /\ UNCHANGED <<up, mounted, mounts, relay, node, holds, rec, op, forwards>>

\* The cache of the node writes back in its own time.
WriteBack(h) ==
    /\ h \in dirty /\ Answers(h, holds[h]) /\ dirty' = dirty \ {h}
    /\ UNCHANGED <<up, mounted, mounts, relay, node, holds, rec, op, forwards>>

-----------------------------------------------------------------------------
(* reconcile, relayFor and server                                          *)

Step(t, s) == rec' = [rec EXCEPT ![t].step = s]

\* What the node should hold is read, and compared with what it says it holds.
Begin(t, h) ==
    /\ up # "down" /\ rec[t] = Idle /\ h \in node /\ Alone
    /\ LET held == IF holds[h] = None THEN None ELSE server[holds[h]].src IN
       /\ held # mounted
       /\ rec' = [rec EXCEPT ![t] = [step |-> IF held # None THEN "release" ELSE "server",
                                     host |-> h, src |-> mounted, srv |-> None]]
    /\ UNCHANGED <<up, mounted, mounts, relay, machines, op, forwards>>

\* The node flushes, and refuses if it cannot.
Release(t) ==
    LET h == rec[t].host IN
    /\ rec[t].step = "release"
    /\ IF h \notin node \/ (h \in dirty /\ ~Answers(h, holds[h]))
       THEN rec' = [rec EXCEPT ![t] = Idle] /\ UNCHANGED machines
       ELSE /\ holds' = [holds EXCEPT ![h] = None] /\ dirty' = dirty \ {h}
            /\ rec' = [rec EXCEPT ![t] = IF @.src = None THEN Idle ELSE [@ EXCEPT !.step = "server"]]
            /\ UNCHANGED node
    /\ UNCHANGED <<up, mounted, mounts, relay, op, forwards>>

\* The record is looked up again, and the server of its path.
Lookup(t) ==
    /\ rec[t].step = "server"
    /\ rec' = [rec EXCEPT ![t] =
           IF mounted = None THEN Idle
           ELSE IF relays # None THEN [@ EXCEPT !.step = "link", !.srv = relays]
           ELSE [@ EXCEPT !.step = "start", !.src = mounted]]
    /\ UNCHANGED <<up, mounted, mounts, relay, machines, op, forwards>>

\* ssh-keygen, rclone, and a port that answers.
StartServer(t) ==
    /\ rec[t].step = "start"
    /\ \E v \in Servers :
        /\ server[v].src = None /\ (\A w \in Servers : w < v => server[w].src # None)
        /\ server' = [server EXCEPT ![v] = [src |-> rec[t].src, runs |-> TRUE]]
        /\ rec' = [rec EXCEPT ![t].step = "store", ![t].srv = v]
    /\ UNCHANGED <<up, mounted, mounts, relays, link, rev, machines, op, forwards>>

\* Or one of them fails, and nothing is left of it.
StartFails(t) ==
    /\ rec[t].step = "start" /\ rec' = [rec EXCEPT ![t] = Idle]
    /\ UNCHANGED <<up, mounted, mounts, relay, machines, op, forwards>>

Store(t) ==
    /\ rec[t].step = "store" /\ relays' = rec[t].srv /\ Step(t, "link")
    /\ UNCHANGED <<up, mounted, mounts, server, link, rev, machines, op, forwards>>

Linked(t) ==
    /\ rec[t].step = "link" /\ Step(t, IF link[rec[t].host] = None THEN "forward" ELSE "mount")
    /\ UNCHANGED <<up, mounted, mounts, relay, machines, op, forwards>>

\* The reverse forward, and the tunnel's key in the node's run directory. If the
\* key cannot be written the forward is cancelled.
Forward(t) ==
    LET h == rec[t].host IN
    /\ rec[t].step = "forward"
    /\ \/ rev' = rev \cup {<<h, rec[t].srv>>} /\ Step(t, "remember")
       \/ rec' = [rec EXCEPT ![t] = Idle] /\ UNCHANGED rev
    /\ UNCHANGED <<up, mounted, mounts, relays, server, link, machines, op, forwards>>

Remember(t) ==
    /\ rec[t].step = "remember" /\ Step(t, "mount")
    /\ link' = [link EXCEPT ![rec[t].host] = rec[t].srv]
    /\ UNCHANGED <<up, mounted, mounts, relays, server, rev, machines, op, forwards>>

\* The node mounts through the port it was told, if something answers there.
Take(t) ==
    LET h == rec[t].host IN
    /\ rec[t].step = "mount"
    /\ holds' = [holds EXCEPT ![h] = IF h \in node /\ @ = None /\ Answers(h, link[h])
                                     THEN link[h] ELSE @]
    /\ rec' = [rec EXCEPT ![t] = Idle]
    /\ UNCHANGED <<up, mounted, mounts, relay, node, dirty, op, forwards>>

-----------------------------------------------------------------------------
(* stopRelay, dropRelays and stopRelays                                    *)

\* `vp unmount`: the pod lets go of the path, and its relay is stopped: under the
\* lock the server and the links are taken out,
Unmount ==
    /\ up = "up" /\ op = NoOp /\ mounted # None /\ Alone
    /\ op' = [step |-> "stop", host |-> None, srv |-> relays,
              left |-> {<<h, link[h]>> : h \in {x \in Hosts : link[x] # None}}]
    /\ relays' = None /\ link' = [h \in Hosts |-> None]
    /\ UNCHANGED <<up, mounted, mounts, server, rev, machines, rec, forwards>>

Cancelled == {x \in op.left : x[2] = op.srv}

\* and then the forwards are cancelled, with the port of that server, and it is
\* killed. Without a server nothing is.
Stop ==
    IF op.srv = None THEN UNCHANGED <<rev, server>>
    ELSE rev' = rev \ Cancelled /\ server' = [server EXCEPT ![op.srv].runs = FALSE]

\* The mount leaves the list, and what the nodes hold is reconciled after that.
Stopped ==
    /\ op.step = "stop" /\ up = "up" /\ Stop
    /\ mounted' = None /\ op' = NoOp
    /\ UNCHANGED <<up, mounts, relays, link, machines, rec, forwards>>

\* stopNodePod: the node is dropped, its links and forwards with it,
DropNode(h) ==
    /\ h \in node /\ node' = node \ {h}
    /\ link' = [link EXCEPT ![h] = None]
    /\ rev' = IF link[h] = None \/ link[h] # relays THEN rev ELSE rev \ {<<h, link[h]>>}
    /\ UNCHANGED <<relays, server, holds, dirty>>

\* and then `vibepod nodedown` flushes what it can and ends its pod.
NodeDown(h) ==
    /\ holds' = [holds EXCEPT ![h] = None] /\ dirty' = dirty \ {h}
    /\ UNCHANGED node

NodeDrop(h) ==
    /\ up = "up" /\ op = NoOp /\ Alone /\ DropNode(h)
    /\ op' = [NoOp EXCEPT !.step = "nodedown", !.host = h]
    /\ UNCHANGED <<up, mounted, mounts, rec, forwards>>

NodeDropped ==
    /\ op.step = "nodedown" /\ up = "up" /\ NodeDown(op.host) /\ op' = NoOp
    /\ UNCHANGED <<up, mounted, mounts, relay, rec, forwards>>

-----------------------------------------------------------------------------
(* close: forwards, nodes, relays                                          *)

\* Mutant: the forwards are left to the connection.
CloseKeepsPorts ==
    /\ up = "up" /\ op = NoOp /\ Alone
    /\ up' = "closing" /\ op' = [NoOp EXCEPT !.step = "nodes"]
    /\ UNCHANGED <<mounted, mounts, relay, machines, rec, forwards>>

Close ==
    /\ up = "up" /\ op = NoOp /\ Alone
    /\ up' = "closing" /\ op' = [NoOp EXCEPT !.step = "nodes"]
    /\ fwd' = fwd \ ports
    /\ UNCHANGED <<mounted, mounts, relay, machines, rec, ports, asking>>

CloseNode(h) ==
    /\ op.step = "nodes" /\ DropNode(h) /\ op' = [op EXCEPT !.step = "down", !.host = h]
    /\ UNCHANGED <<up, mounted, mounts, rec, forwards>>

CloseNodeDown ==
    /\ op.step = "down" /\ NodeDown(op.host) /\ op' = [NoOp EXCEPT !.step = "nodes"]
    /\ UNCHANGED <<up, mounted, mounts, relay, rec, forwards>>

StopRelays ==
    /\ op.step = "nodes" /\ node = {}
    /\ op' = [step |-> "stop", host |-> None, srv |-> relays,
              left |-> {<<h, link[h]>> : h \in {x \in Hosts : link[x] # None}}]
    /\ relays' = None /\ link' = [h \in Hosts |-> None]
    /\ UNCHANGED <<up, mounted, mounts, server, rev, machines, rec, forwards>>

Closed ==
    /\ op.step = "stop" /\ up = "closing" /\ Stop
    /\ up' = "down" /\ op' = NoOp
    /\ UNCHANGED <<mounted, mounts, relays, link, machines, rec, forwards>>

-----------------------------------------------------------------------------
(* ports.go                                                                *)

Taken(p) == \E q \in ports : LocalOf[q] = LocalOf[p]

\* forward: nothing here has the local port yet. The one it has is "open" already.
Ask(p) ==
    /\ up = "up" /\ Alone /\ p \notin asking /\ ~Taken(p)
    /\ asking' = asking \cup {p}
    /\ UNCHANGED <<up, mounted, mounts, relay, machines, rec, op, ports, fwd>>

\* ssh opens it, unless the port is bound here.
Open(p) ==
    /\ p \in asking /\ p \notin fwd /\ \A q \in fwd : LocalOf[q] # LocalOf[p]
    /\ fwd' = fwd \cup {p}
    /\ UNCHANGED <<up, mounted, mounts, relay, machines, rec, op, ports, asking>>

OpenFails(p) ==
    /\ p \in asking /\ p \notin fwd /\ asking' = asking \ {p}
    /\ UNCHANGED <<up, mounted, mounts, relay, machines, rec, op, ports, fwd>>

Listed(p) ==
    /\ p \in asking /\ p \in fwd /\ asking' = asking \ {p} /\ ports' = ports \cup {p}
    /\ UNCHANGED <<up, mounted, mounts, relay, machines, rec, op, fwd>>

\* The connection to a machine drops, and what it carried with it. Nobody is told.
Blip(h) ==
    /\ "blip" \in FaultKinds
    /\ rev' = {x \in rev : x[1] # h} /\ fwd' = {p \in fwd : HostOf[p] # h}
    /\ rev' # rev \/ fwd' # fwd
    /\ UNCHANGED <<up, mounted, mounts, relays, server, link, machines, rec, op, ports, asking>>

-----------------------------------------------------------------------------
Init ==
    /\ up = "up" /\ mounted = None /\ mounts = 0
    /\ relays = None /\ server = [v \in Servers |-> [src |-> None, runs |-> FALSE]]
    /\ link = [h \in Hosts |-> None] /\ rev = {}
    /\ node = Hosts /\ holds = [h \in Hosts |-> None] /\ dirty = {}
    /\ rec = [t \in Reconcilers |-> Idle] /\ op = NoOp
    /\ ports = {} /\ fwd = {} /\ asking = {}

Reconciling(t) ==
    \/ \E h \in Hosts : Begin(t, h)
    \/ Release(t) \/ Lookup(t) \/ StartServer(t) \/ StartFails(t) \/ Store(t)
    \/ Linked(t) \/ Forward(t) \/ Remember(t) \/ Take(t)

Operation ==
    \/ \E src \in Srcs : Mount(src)
    \/ \E h \in Hosts : NodeDrop(h) \/ CloseNode(h)
    \/ Unmount \/ Stopped \/ NodeDropped \/ Close \/ CloseNodeDown \/ StopRelays \/ Closed

Forwarding(p) == Ask(p) \/ Open(p) \/ OpenFails(p) \/ Listed(p)

Next ==
    \/ \E t \in Reconcilers : Reconciling(t)
    \/ Operation
    \/ \E p \in Ports : Forwarding(p)
    \/ \E h \in Hosts : Write(h) \/ WriteBack(h) \/ Blip(h)

Spec == Init /\ [][Next]_vars

-----------------------------------------------------------------------------
TypeOK ==
    /\ up \in {"up", "closing", "down"} /\ mounted \in Srcs \cup {None}
    /\ relays \in Servers \cup {None} /\ link \in [Hosts -> Servers \cup {None}]
    /\ \A v \in Servers : server[v].src \in Srcs \cup {None} /\ server[v].runs \in BOOLEAN
    /\ rev \subseteq Hosts \X Servers /\ node \subseteq Hosts /\ dirty \subseteq Hosts
    /\ holds \in [Hosts -> Servers \cup {None}]
    /\ ports \subseteq Ports /\ fwd \subseteq Ports /\ asking \subseteq Ports

Quiet == op = NoOp /\ asking = {} /\ \A t \in Reconcilers : rec[t] = Idle

\* "That one directory ... and dies with the pod" (relay.go:26): when the pod is
\* down no rclone of it serves, no forward leads to one, no port is forwarded.
NothingOutlivesThePod ==
    up = "down" /\ Quiet => ~(\E v \in Servers : server[v].runs) /\ rev = {} /\ fwd = {}

\* A directory that is not mounted is not served, and one that is by one rclone:
\* so a mount at the same path never meets the previous one's (relay.go:64, 239).
ServedWhileMounted ==
    up = "up" /\ Quiet =>
        /\ \A v \in Servers : server[v].runs => server[v].src = mounted /\ relays = v
        /\ \A x \in rev : server[x[2]].runs

\* What a node reads at the path is the directory the pod has there, or one it is
\* about to release (relay.go:66).
NodeReadsItsMount ==
    \A h \in Hosts : Answers(h, holds[h]) /\ mounted # None => server[holds[h]].src = mounted

\* One local port is one machine's (ports.go:26), and no port is forwarded that is
\* not listed, though a connection may drop and take its forwards along.
OneForwardPerPort ==
    /\ \A p, q \in ports : LocalOf[p] = LocalOf[q] => p = q
    /\ Quiet => fwd \subseteq ports

\* "Flushed first by the node" (reconcile.go:186): while a node's pod has data that
\* is not written yet, what it writes it through is there.
WritesHaveTheirRelay == \A h \in dirty : server[holds[h]].runs
=============================================================================
