----------------------------- MODULE PodLifecycle -----------------------------
(***************************************************************************)
(* Pods of one name in the daemon, from `up` to their end                  *)
(* (internal/daemon/daemon.go: up, down, removePod, shutdown; pod.go:      *)
(* readLoop, close). Several requests at once, failing at any point, and a *)
(* pod that dies of its own accord. What a pod has outside is named after  *)
(* the pod: its socket and its mountpoints are those of every pod of that  *)
(* name.                                                                   *)
(*                                                                         *)
(* A pod is the `up` that built it.                                        *)
(***************************************************************************)
EXTENDS Naturals, FiniteSets

CONSTANTS
    Ups,        \* requests to create the pod, and the pods they make
    Downs,      \* requests to take it down
    FaultKinds, \* kinds of failure met in this instance
    None

VARIABLES
    pods,     \* d.pods[name]
    creating, \* d.creating[name]: the up that builds it
    built,    \* the ups whose channel in d.creating is closed
    ask,      \* where each request is, and what it was answered
    waitsOn,  \* the up a second one waits for, the pod a down closes
    pod,      \* what each pod has
    closing,  \* where close() of each pod is
    closes,   \* how often it was entered
    sock,     \* whose socket is at the path of the name
    mounts,   \* whose mounts are at the mountpoints of the name
    early     \* pods begun while an earlier one was still ending

lists == <<pods, creating, built>>
asks  == <<ask, waitsOn>>
life  == <<pod, closing, closes>>
names == <<sock, mounts>>
vars  == <<lists, asks, life, names, early>>

Nothing == [init |-> "none", reader |-> FALSE, ln |-> FALSE, fs |-> FALSE,
            ports |-> FALSE, loops |-> FALSE]

Go(r, step)     == ask' = [ask EXCEPT ![r].step = step]
Answer(r, what) == ask' = [ask EXCEPT ![r] = [step |-> "over", answer |-> what]]

\* A pod is not over while it is closed, or while its read loop has not ended.
Ending == {u \in Ups : closing[u] \notin {"no", "closed"} \/ pod[u].reader}

-----------------------------------------------------------------------------
(* up                                                                      *)

\* Mutant: nobody looks whether the pod is being built.
UpAtOnce(u) ==
    /\ ask[u].step = "none"
    /\ IF pods # None
       THEN Answer(u, "exists") /\ UNCHANGED <<lists, waitsOn, early>>
       ELSE /\ creating' = u /\ Go(u, "listen")
            /\ early' = IF Ending = {} THEN early ELSE early \cup {u}
            /\ UNCHANGED <<pods, built, waitsOn>>
    /\ UNCHANGED <<life, names>>

\* It exists; or somebody is building it; or this one does.
Up(u) ==
    /\ ask[u].step = "none"
    /\ IF pods # None
       THEN Answer(u, "exists") /\ UNCHANGED <<lists, waitsOn, early>>
       ELSE IF creating # None
       THEN /\ waitsOn' = [waitsOn EXCEPT ![u] = creating] /\ Go(u, "wait")
            /\ UNCHANGED <<lists, early>>
       ELSE /\ creating' = u /\ Go(u, "listen")
            /\ early' = IF Ending = {} THEN early ELSE early \cup {u}
            /\ UNCHANGED <<pods, built, waitsOn>>
    /\ UNCHANGED <<life, names>>

\* Two minutes at most for the other one.
Wait(u) ==
    /\ ask[u].step = "wait"
    /\ \/ waitsOn[u] \in built
          /\ Answer(u, IF pods # None THEN "exists" ELSE "failed")
       \/ "slow" \in FaultKinds /\ Answer(u, "failed")
    /\ UNCHANGED <<lists, waitsOn, life, names, early>>

\* The socket's path is cleared and listened on.
Listen(u) ==
    /\ ask[u].step = "listen"
    /\ pod' = [pod EXCEPT ![u].ln = TRUE]
    /\ sock' = u
    /\ Go(u, "start")
    /\ UNCHANGED <<lists, waitsOn, closing, closes, mounts, early>>

\* closeFailed: the mounts and the listener, whose Close removes the path.
CloseFailed(u, p) ==
    /\ pod' = [pod EXCEPT ![u] = [p EXCEPT !.ln = FALSE, !.fs = FALSE]]
    /\ sock' = None
    /\ mounts' = IF p.fs THEN None ELSE mounts
    /\ Go(u, "failed")

\* The copies of synced mounts, then vpinit, then the goroutine that reads it.
Start(u) ==
    /\ ask[u].step = "start"
    /\ \/ /\ pod' = [pod EXCEPT ![u].init = "alive", ![u].reader = TRUE]
          /\ Go(u, "attach")
          /\ UNCHANGED names
       \/ "start" \in FaultKinds /\ CloseFailed(u, pod[u])
    /\ UNCHANGED <<lists, waitsOn, closing, closes, early>>

\* attachRemotes: what is left at a mountpoint is cleared before it is used.
Attach(u) ==
    /\ ask[u].step = "attach"
    /\ \/ /\ pod[u].init = "alive"
          /\ pod' = [pod EXCEPT ![u].fs = TRUE]
          /\ mounts' = u
          /\ Go(u, "forward")
          /\ UNCHANGED sock
       \/ /\ "attach" \in FaultKinds \/ pod[u].init = "dead"
          /\ \E some \in BOOLEAN :
                CloseFailed(u, [pod[u] EXCEPT !.init = "dead", !.fs = some])
    /\ UNCHANGED <<lists, waitsOn, closing, closes, early>>

Forward(u) ==
    /\ ask[u].step = "forward"
    /\ \/ pod' = [pod EXCEPT ![u].ports = TRUE] /\ Go(u, "list") /\ UNCHANGED names
       \/ "forward" \in FaultKinds /\ CloseFailed(u, [pod[u] EXCEPT !.init = "dead"])
    /\ UNCHANGED <<lists, waitsOn, closing, closes, early>>

\* The pod is there for everybody, and its loops begin.
List(u) ==
    /\ ask[u].step = "list"
    /\ pods' = u
    /\ pod' = [pod EXCEPT ![u].loops = TRUE]
    /\ Go(u, "done")
    /\ UNCHANGED <<creating, built, waitsOn, closing, closes, names, early>>

\* Mutant: only an up that succeeded lets the others go.
FinishIfDone(u) ==
    /\ ask[u].step \in {"done", "failed"}
    /\ creating' = IF ask[u].step = "done" THEN None ELSE creating
    /\ built' = IF ask[u].step = "done" THEN built \cup {u} ELSE built
    /\ Answer(u, IF ask[u].step = "done" THEN "ok" ELSE "failed")
    /\ UNCHANGED <<pods, waitsOn, life, names, early>>

\* However it ended, those who wait are let go.
Finish(u) ==
    /\ ask[u].step \in {"done", "failed"}
    /\ creating' = None /\ built' = built \cup {u}
    /\ Answer(u, IF ask[u].step = "done" THEN "ok" ELSE "failed")
    /\ UNCHANGED <<pods, waitsOn, life, names, early>>

-----------------------------------------------------------------------------
(* The end of a pod                                                        *)

\* What takes a pod from the list closes it, and nobody else does.
Take(taken) ==
    /\ pods' = None
    /\ closing' = IF taken = None THEN closing
                  ELSE [closing EXCEPT ![taken] = "stop"]
    /\ closes' = IF taken = None THEN closes
                 ELSE [closes EXCEPT ![taken] = @ + 1]
    /\ UNCHANGED <<creating, built>>

Down(r) ==
    /\ ask[r].step = "none"
    /\ Take(pods)
    /\ IF pods = None THEN Answer(r, "failed") /\ UNCHANGED waitsOn
       ELSE Go(r, "closing") /\ waitsOn' = [waitsOn EXCEPT ![r] = pods]
    /\ UNCHANGED <<pod, names, early>>

DownDone(r) ==
    /\ ask[r].step = "closing" /\ closing[waitsOn[r]] = "closed"
    /\ Answer(r, "ok")
    /\ UNCHANGED <<lists, waitsOn, life, names, early>>

\* vpinit dies of its own accord.
Die(u) ==
    /\ "die" \in FaultKinds /\ pod[u].init = "alive"
    /\ pod' = [pod EXCEPT ![u].init = "dead"]
    /\ UNCHANGED <<lists, asks, closing, closes, names, early>>

\* Mutant: the read loop ends without a word.
ReadEndsOnly(u) ==
    /\ pod[u].reader /\ pod[u].init = "dead"
    /\ pod' = [pod EXCEPT ![u].reader = FALSE]
    /\ UNCHANGED <<lists, asks, closing, closes, names, early>>

\* readLoop: the link is closed, so the pod of that name is removed.
ReadEnds(u) ==
    /\ pod[u].reader /\ pod[u].init = "dead"
    /\ pod' = [pod EXCEPT ![u].reader = FALSE]
    /\ Take(pods)
    /\ UNCHANGED <<asks, names, early>>

\* close: stopped, which ends the pod's loops, and the socket.
CloseStop(u) ==
    /\ closing[u] = "stop"
    /\ pod' = [pod EXCEPT ![u].loops = FALSE, ![u].ln = FALSE]
    /\ sock' = None
    /\ closing' = [closing EXCEPT ![u] = "release"]
    /\ UNCHANGED <<lists, asks, closes, mounts, early>>

\* Sessions, synced copies, forwards, node pods and relays, over the network.
CloseRelease(u) ==
    /\ closing[u] = "release"
    /\ pod' = [pod EXCEPT ![u].ports = FALSE]
    /\ closing' = [closing EXCEPT ![u] = "kill"]
    /\ UNCHANGED <<lists, asks, closes, names, early>>

CloseKill(u) ==
    /\ closing[u] = "kill"
    /\ pod' = [pod EXCEPT ![u].init = "dead"]
    /\ closing' = [closing EXCEPT ![u] = "unmount"]
    /\ UNCHANGED <<lists, asks, closes, names, early>>

\* Whatever is at the mountpoints is released.
CloseUnmount(u) ==
    /\ closing[u] = "unmount"
    /\ pod' = [pod EXCEPT ![u].fs = FALSE]
    /\ mounts' = IF pod[u].fs THEN None ELSE mounts
    /\ closing' = [closing EXCEPT ![u] = "closed"]
    /\ UNCHANGED <<lists, asks, closes, sock, early>>

-----------------------------------------------------------------------------
Init ==
    /\ pods = None /\ creating = None /\ built = {}
    /\ ask = [r \in Ups \cup Downs |-> [step |-> "none", answer |-> None]]
    /\ waitsOn = [r \in Ups \cup Downs |-> None]
    /\ pod = [u \in Ups |-> Nothing]
    /\ closing = [u \in Ups |-> "no"] /\ closes = [u \in Ups |-> 0]
    /\ sock = None /\ mounts = None /\ early = {}

UpStep(u) == Wait(u) \/ Listen(u) \/ Start(u) \/ Attach(u) \/ Forward(u) \/ List(u) \/ Finish(u)

Close(u) == CloseStop(u) \/ CloseRelease(u) \/ CloseKill(u) \/ CloseUnmount(u)

Next ==
    \/ \E u \in Ups : Up(u) \/ UpStep(u) \/ Die(u) \/ ReadEnds(u) \/ Close(u)
    \/ \E r \in Downs : Down(r) \/ DownDone(r)

Spec == Init /\ [][Next]_vars

\* Goroutines run on. Nobody has to ask, and no pod has to die.
Fairness == /\ \A u \in Ups : WF_vars(UpStep(u)) /\ WF_vars(ReadEnds(u)) /\ WF_vars(Close(u))
            /\ \A r \in Downs : WF_vars(DownDone(r))

FairSpec == Spec /\ Fairness

-----------------------------------------------------------------------------
Steps == {"none", "wait", "listen", "start", "attach", "forward", "list", "done",
          "failed", "closing", "over"}

Request == [step : Steps, answer : {None, "ok", "exists", "failed"}]

Pod == [init : {"none", "alive", "dead"}, reader : BOOLEAN, ln : BOOLEAN, fs : BOOLEAN,
        ports : BOOLEAN, loops : BOOLEAN]

TypeOK ==
    /\ {pods, creating, sock, mounts} \subseteq Ups \cup {None}
    /\ built \subseteq Ups /\ early \subseteq Ups
    /\ ask \in [Ups \cup Downs -> Request]
    /\ waitsOn \in [Ups \cup Downs -> Ups \cup {None}]
    /\ pod \in [Ups -> Pod]
    /\ closing \in [Ups -> {"no", "stop", "release", "kill", "unmount", "closed"}]
    /\ closes \in [Ups -> Nat]

\* A pod that began when every earlier one of its name was over keeps its
\* socket and its mounts for as long as nobody closes it: "wait for them rather
\* than making the caller deal with a race it did not cause" (daemon.go:463).
KeepsItsOwn ==
    \A u \in Ups \ early :
        pods = u /\ closing[u] = "no" => sock = u /\ mounts = u

\* down, a shutdown and the pod's own death may meet; whatever they close was
\* on the list, and each pod is closed by one of them (daemon.go:797, 810).
ClosedOnce == \A u \in Ups : closes[u] <= 1

\* closeFailed "releases what a half-built pod had taken" (daemon.go:686): an up
\* that failed leaves no process, no mount, no forward and no listener.
FailedLeavesNothing ==
    \A u \in Ups : ask[u].answer = "failed" =>
        /\ pod[u].init # "alive"
        /\ ~pod[u].ln /\ ~pod[u].fs /\ ~pod[u].ports /\ ~pod[u].loops

\* Every up and every down is answered, whoever else fails in between, and the
\* name is free again for the next one (daemon.go:488).
EveryoneAnswered ==
    <>[](creating = None /\ \A r \in Ups \cup Downs : ask[r].step \in {"none", "over"})

\* A pod that dies while it is on the list leaves it, and its loops end: nobody
\* is left talking to its machines (pod.go:136).
DeadIsRemoved ==
    \A u \in Ups : (pods = u /\ pod[u].init = "dead" /\ pod[u].reader)
                       ~> (pods # u /\ ~pod[u].loops)

\* A pod that is on the list is one that "is already running" (daemon.go:847),
\* also when it died while `up` was still at it.
ListedIsAlive == <>[](\A u \in Ups : pod[u].init = "dead" => pods # u)

\* The mounts of the pod that is up are its own, also when the last one of its
\* name is still being closed.
MountsAreItsOwn ==
    \A u \in Ups : pods = u /\ closing[u] = "no" => mounts = u
=============================================================================
