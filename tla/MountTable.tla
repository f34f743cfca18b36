------------------------------ MODULE MountTable ------------------------------
(***************************************************************************)
(* The mounts of one running pod (internal/daemon/mount.go, daemon.go:     *)
(* mount, unmount; internal/route/route.go): the live list, the binds in   *)
(* the pod's namespace, the FUSE mounts behind them and the table of       *)
(* routes made from the list. `vp mount` and `vp unmount` come at once and *)
(* hold no lock from one step to the next.                                 *)
(*                                                                         *)
(* A path is the sequence of its names. The node pods, which get the list  *)
(* from reconcileAll, are NodePods'.                                       *)
(***************************************************************************)
EXTENDS Naturals, Sequences, FiniteSets

CONSTANTS
    Config,     \* the mounts of the config, in its order: [id, at, owner, src]
    Mounts,     \* requests to mount, by name: [at, owner, src]
    Unmounts,   \* requests to unmount, by name: [at] or [owner]
    Machines,   \* declared machines, that need no mount
    Sessions,
    Places,     \* directories a session or a command may be in
    FaultKinds, \* "add", "bind", "unbind": that step fails; "together": two
                \* mounts, two unmounts, or two tables are made at once
    Pod,        \* the pod's own machine
    None

VARIABLES
    list,   \* s.mounts
    kernel, \* the binds in the pod, the newest last
    fuse,   \* the mounts that are served
    tbl,    \* s.tbl: the routes
    told,   \* the list the node pods were last brought to
    req,    \* where each request is
    cwd,    \* where each session stands
    on      \* s.backends

sessions == <<cwd, on>>
vars == <<list, kernel, fuse, tbl, told, req, sessions>>

Under(p, q) == Len(q) <= Len(p) /\ SubSeq(p, 1, Len(q)) = q

\* What s has at these places, in its order.
Kept(s, which) ==
    LET f[n \in 0 .. Len(s)] == IF n = 0 THEN <<>>
                                ELSE IF n \in which THEN Append(f[n - 1], s[n]) ELSE f[n - 1]
    IN  f[Len(s)]

Without(s, id) == Kept(s, {i \in DOMAIN s : s[i].id # id})
Ids(s) == {s[i].id : i \in DOMAIN s}

-----------------------------------------------------------------------------
(* Routes                                                                  *)

\* The most specific rule comes first, the older one among equals.
First(t, which) ==
    CHOOSE i \in which : \A j \in which :
        Len(t[i].at) > Len(t[j].at) \/ (Len(t[i].at) = Len(t[j].at) /\ i <= j)

Owner(t, p) ==
    LET which == {i \in DOMAIN t : Under(p, t[i].at)}
    IN  IF which = {} THEN Pod ELSE t[First(t, which)].owner

\* What p is called on a machine: its own name there, below a mount of it.
Dir(t, p, machine) ==
    LET which == {i \in DOMAIN t : t[i].owner = machine /\ Under(p, t[i].at)}
        rule == t[First(t, which)]
    IN  IF machine = Pod \/ which = {} THEN p
        ELSE rule.src \o SubSeq(p, Len(rule.at) + 1, Len(p))

Known(t, machine) ==
    \/ machine = Pod \/ machine \in Machines
    \/ \E i \in DOMAIN t : t[i].owner = machine

-----------------------------------------------------------------------------
(* The pod's namespace                                                     *)

Newest(which) == CHOOSE i \in which : \A j \in which : j <= i

\* The mount one sees at p: the last that was made at p or above it.
Shown(k, p) ==
    LET which == {i \in DOMAIN k : Under(p, k[i].at)}
    IN  IF which = {} THEN None ELSE k[Newest(which)]

IsMountpoint(k, p) == Shown(k, p) # None /\ Shown(k, p).at = p

\* A lazy umount takes what is mounted on it along.
Detach(k, at) ==
    LET i == Newest({j \in DOMAIN k : Under(at, k[j].at)})
    IN  Kept(k, {j \in DOMAIN k : j < i \/ ~Under(k[j].at, at)})

-----------------------------------------------------------------------------
(* mount                                                                   *)

Go(r, step) == req' = [req EXCEPT ![r].step = step]
Answer(r, what) == req' = [req EXCEPT ![r].step = what]

Rec(r) == [id |-> r, at |-> Mounts[r].at, owner |-> Mounts[r].owner, src |-> Mounts[r].src]

Underway == {r \in DOMAIN req : req[r].step \notin {"none", "ok", "refused", "failed", "dropped"}}
Alone(steps) == "together" \in FaultKinds \/ \A r \in Underway : req[r].step \notin steps

\* Mutant: only the same directory is refused.
ClashSame(m, x) == x.at = m.at \/ (x.owner = m.owner /\ x.src = m.src)

\* checkNewMount, of a mount that comes while the pod is running.
Clash(m, x) ==
    \/ Under(m.at, x.at) \/ Under(x.at, m.at)
    \/ x.owner = m.owner /\ (Under(m.src, x.src) \/ Under(x.src, m.src))

Check(r) ==
    /\ req[r].step = "none" /\ Alone({"add", "append"})
    /\ IF \E i \in DOMAIN list : Clash(Rec(r), list[i]) THEN Answer(r, "refused")
       ELSE Go(r, "add")
    /\ UNCHANGED <<list, kernel, fuse, tbl, told, sessions>>

Add(r) ==
    /\ req[r].step = "add"
    /\ \/ fuse' = fuse \cup {r} /\ Go(r, "append")
       \/ "add" \in FaultKinds /\ Answer(r, "failed") /\ UNCHANGED fuse
    /\ UNCHANGED <<list, kernel, tbl, told, sessions>>

AppendRec(r) ==
    /\ req[r].step = "append"
    /\ list' = Append(list, Rec(r)) /\ Go(r, "bind")
    /\ UNCHANGED <<kernel, fuse, tbl, told, sessions>>

\* vpinit binds it; when it cannot, the mount is released and then forgotten.
Bind(r) ==
    /\ req[r].step = "bind"
    /\ \/ kernel' = Append(kernel, Rec(r)) /\ Go(r, "rebuild") /\ UNCHANGED fuse
       \/ "bind" \in FaultKinds /\ Go(r, "drop") /\ fuse' = fuse \ {r} /\ UNCHANGED kernel
    /\ UNCHANGED <<list, tbl, told, sessions>>

Drop(r) ==
    /\ req[r].step = "drop" /\ Answer(r, "dropped")
    /\ list' = Without(list, r)
    /\ UNCHANGED <<kernel, fuse, tbl, told, sessions>>

-----------------------------------------------------------------------------
(* unmount                                                                 *)

Hit(u, x) == IF "at" \in DOMAIN Unmounts[u] THEN x.at = Unmounts[u].at
             ELSE x.owner = Unmounts[u].owner

Find(u) ==
    /\ req[u].step = "none" /\ Alone({"sessions", "unbind", "release", "forget"})
    /\ LET hit == Kept(list, {i \in DOMAIN list : Hit(u, list[i])})
       IN  IF hit = <<>> THEN Answer(u, "refused")
           ELSE req' = [req EXCEPT ![u].step = "sessions", ![u].hit = hit, ![u].all = hit]
    /\ UNCHANGED <<list, kernel, fuse, tbl, told, sessions>>

\* A session that stands in it is a refusal.
LookForSessions(u) ==
    /\ req[u].step = "sessions"
    /\ IF \E s \in Sessions, i \in DOMAIN req[u].hit : Under(cwd[s], req[u].hit[i].at)
       THEN Answer(u, "refused") ELSE Go(u, "unbind")
    /\ UNCHANGED <<list, kernel, fuse, tbl, told, sessions>>

\* A path where nothing is mounted cannot be unmounted. The request ends there,
\* whatever it had removed before.
Unbind(u) ==
    /\ req[u].step = "unbind"
    /\ LET at == Head(req[u].hit).at
       IN  \/ /\ IsMountpoint(kernel, at)
              /\ kernel' = Detach(kernel, at) /\ Go(u, "release")
           \/ /\ "unbind" \in FaultKinds \/ ~IsMountpoint(kernel, at)
              /\ Answer(u, "failed") /\ UNCHANGED kernel
    /\ UNCHANGED <<list, fuse, tbl, told, sessions>>

Release(u) ==
    /\ req[u].step = "release" /\ Go(u, "forget")
    /\ fuse' = fuse \ {Head(req[u].hit).id}
    /\ UNCHANGED <<list, kernel, tbl, told, sessions>>

Forget(u) ==
    /\ req[u].step = "forget"
    /\ list' = Without(list, Head(req[u].hit).id)
    /\ req' = [req EXCEPT ![u].hit = Tail(@),
                          ![u].step = IF Len(req[u].hit) = 1 THEN "rebuild" ELSE "unbind"]
    /\ UNCHANGED <<kernel, fuse, tbl, told, sessions>>

\* Sessions on a machine that is no longer known go back to the pod.
Strand(u) ==
    /\ req[u].step = "strand" /\ Answer(u, "ok")
    /\ LET gone == {req[u].all[i].owner : i \in DOMAIN req[u].all}
       IN  on' = [s \in Sessions |-> IF on[s] \in gone /\ ~Known(tbl, on[s]) THEN Pod ELSE on[s]]
    /\ UNCHANGED <<list, kernel, fuse, tbl, told, cwd>>

-----------------------------------------------------------------------------
(* rebuildRoutes and reconcileAll, of both                                 *)

Rebuild(r) ==
    /\ req[r].step = "rebuild" /\ Alone({"store"})
    /\ req' = [req EXCEPT ![r].step = "store", ![r].rules = list]
    /\ UNCHANGED <<list, kernel, fuse, tbl, told, sessions>>

Store(r) ==
    /\ req[r].step = "store"
    /\ tbl' = req[r].rules /\ Go(r, "reconcile")
    /\ UNCHANGED <<list, kernel, fuse, told, sessions>>

Reconcile(r) ==
    /\ req[r].step = "reconcile"
    /\ told' = list
    /\ IF r \in DOMAIN Mounts THEN Answer(r, "ok") ELSE Go(r, "strand")
    /\ UNCHANGED <<list, kernel, fuse, tbl, sessions>>

-----------------------------------------------------------------------------
(* Sessions                                                                *)

Cd(s, p) ==
    /\ cwd' = [cwd EXCEPT ![s] = p]
    /\ UNCHANGED <<list, kernel, fuse, tbl, told, req, on>>

\* setBackend: a machine the pod knows.
Use(s, machine) ==
    /\ Known(tbl, machine) /\ on' = [on EXCEPT ![s] = machine]
    /\ UNCHANGED <<list, kernel, fuse, tbl, told, req, cwd>>

-----------------------------------------------------------------------------
Served(s) == {s[i].id : i \in {j \in DOMAIN s : s[j].owner # Pod}}

\* Up: the pod's own directories are bound as it is built, and the remote ones
\* when it runs, each kind in the order of the config.
Planned ==
    LET own == {i \in DOMAIN Config : Config[i].owner = Pod}
    IN  Kept(Config, own) \o Kept(Config, DOMAIN Config \ own)

Init ==
    /\ list = Planned /\ kernel = Planned /\ tbl = Planned /\ told = <<>>
    /\ fuse = Served(Planned)
    /\ req = [r \in DOMAIN Mounts \cup DOMAIN Unmounts |->
                 [step |-> "none", hit |-> <<>>, all |-> <<>>, rules |-> <<>>]]
    /\ cwd = [s \in Sessions |-> <<>>] /\ on = [s \in Sessions |-> Pod]

Owners == {Mounts[r].owner : r \in DOMAIN Mounts} \cup {Config[i].owner : i \in DOMAIN Config}

Next ==
    \/ \E r \in DOMAIN Mounts : Check(r) \/ Add(r) \/ AppendRec(r) \/ Bind(r) \/ Drop(r)
    \/ \E u \in DOMAIN Unmounts :
          Find(u) \/ LookForSessions(u) \/ Unbind(u) \/ Release(u) \/ Forget(u) \/ Strand(u)
    \/ \E r \in DOMAIN Mounts \cup DOMAIN Unmounts : Rebuild(r) \/ Store(r) \/ Reconcile(r)
    \/ \E s \in Sessions : (\E p \in Places : Cd(s, p)) \/ (\E m \in Owners : Use(s, m))

Spec == Init /\ [][Next]_vars

-----------------------------------------------------------------------------
TypeOK ==
    /\ fuse \cup Ids(list) \cup Ids(kernel) \cup Ids(tbl) \subseteq DOMAIN Mounts \cup Ids(Config)
    /\ cwd \in [Sessions -> Places \cup {<<>>}] /\ on \in [Sessions -> Owners \cup {Pod}]
    /\ \A r \in DOMAIN req : req[r].step \in
          {"none", "add", "append", "bind", "drop", "sessions", "unbind", "release", "forget",
           "rebuild", "store", "reconcile", "strand", "ok", "refused", "failed", "dropped"}

Quiet == Underway = {}

\* "Two caches over the same bytes cannot be made coherent afterwards" and a
\* mount at runtime shadows nothing, while others are mounted and unmounted
\* (mount.go:254, 259).
RuntimeMountsStandAlone ==
    \A i, j \in DOMAIN list : i # j /\ list[i].id \in DOMAIN Mounts =>
        /\ ~Under(list[i].at, list[j].at) /\ ~Under(list[j].at, list[i].at)
        /\ list[i].owner = list[j].owner => ~Under(list[i].src, list[j].src)
                                          /\ ~Under(list[j].src, list[i].src)

\* When nobody is at it, the list is what is bound in the pod and what is served
\* outside: a failed mount left nothing, and a failed unmount has all it did not
\* remove (daemon.go:735, mount.go:303).
ListedIsMounted ==
    Quiet => /\ Ids(kernel) = Ids(list)
             /\ fuse = Served(list)

\* A mount that was not bound, an unmount that stopped half-way: both end with
\* no new table.
Half(r) == req[r].step = "dropped" \/ (req[r].step = "failed" /\ Len(req[r].hit) < Len(req[r].all))
Settled == Quiet /\ \A r \in DOMAIN req : ~Half(r)

\* A directory is routed to the machine whose files it shows in the pod, under the
\* name they have there: "what is this directory called on that machine?"
\* (route.go:1).
RoutesShowThePod ==
    Settled => \A p \in Places :
        LET shown == Shown(kernel, p)
        IN  IF shown = None THEN Owner(tbl, p) = Pod
            ELSE /\ Owner(tbl, p) = shown.owner
                 /\ shown.owner # Pod => Dir(tbl, p, shown.owner) =
                        shown.src \o SubSeq(p, Len(shown.at) + 1, Len(p))

\* Nobody is left on a machine the pod no longer has (mount.go:330).
NobodyIsStranded ==
    Settled => \A s \in Sessions : Known(tbl, on[s])

\* "The mounts are gone from here, so they have to go from every node pod too"
\* (mount.go:325); they do, unless an unmount stopped half-way.
UnmountedEverywhere ==
    Settled => \A i \in DOMAIN told : told[i].id \in Ids(list)
=============================================================================
