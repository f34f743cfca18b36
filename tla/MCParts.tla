------------------------------- MODULE MCParts -------------------------------
(*****************************************************************************)
(* The components that are not checked together with others, in one module:  *)
(* each is an instance on a state of its own, and `part` says which of them  *)
(* runs. Nothing is shared, so a behaviour of this module is a behaviour of  *)
(* one component, and what is checked of it is checked of each.              *)
(*****************************************************************************)
EXTENDS PodRpc, FiniteSets, TLC

CONSTANTS
    Parts,        \* the components of this run
    NodeRequests, \* made of one vpnode at once
    Downs,        \* requests to take the pod down
    Commands,     \* that sync the directory of their machine
    MaxEdits,     \* of it
    MaxLines,     \* sent in vp shell
    MaxLoads,     \* of the cockpit at once
    Programs      \* that run in its pod, all of them of one line

\* The names of the instances below are names of different things.
ASSUME PartsAssumption ==
    /\ None \notin {"u1", "u2", "d1", "d2", "d3", "ok", "exists", "failed"}
    /\ None \notin {"link", "notfound", "own127", "own255", "unavailable"}
    /\ None \notin {"p1"} \X {"line", "sent"}
    /\ {"u1", "u2"} \cap Downs = {}
    /\ {"closer", "starter"} \cap Commands = {}
    /\ None \notin {"p", "q"} /\ "builder" \notin NodeRequests
    /\ None \notin {"s1", "s2"} /\ None \notin 1..2

VARIABLES
    part,
    \* NodeServer
    server_NS, todo, seq, held, fsm, job, stopping, expired, lease, watch, flushing,
    bound, mounted_NS, dir, dirty_NS, said, lost, down, starts, crossed, late,
    \* PodLifecycle
    pods, creating, built, ask_PL, waitsOn, pod, closing, closes, sock, mounts_PL,
    early,
    \* Sync
    clock, here, there, manifest, last, sync, at, both, removed, met,
    \* MountTable
    list, kernel, fuse, tbl, told_MT, req, cwd, on,
    \* Tunnels
    up_TU, mounted_TU, mounts_TU, relays, server_TU, link, rev, node, holds, dirty_TU,
    rec, op, ports, fwd, asking,
    \* Dispatch
    proc_DI, answer, sig, ask_DI, tracked, execs, ended_DI, retired, told_DI, tick,
    remote, try, ran_DI, result,
    \* EventBus
    recent, subs, ch, closed, pub, fol, replay, seen, sent, missed, panicked,
    \* ShellBlocks
    shell, cur, out, over_SB, stream, ended_SB, raw, ui_SB, loop, timers, size, ran_SB,
    told_SB, used,
    \* Cockpit
    live, over_CK, runs, events, ui_CK, loads, attached, activity, moves,
    \* Scrollback
    written, ring, pend, parsed,
    \* ExecTree
    order, ppid, ended_ET,
    \* DaemonStart
    path, version, stage, client, spawned, ended_DS

\* A pod with two machines' directories and one of its own, the last of them
\* within it; what is mounted and unmounted while it is up.
Planned == <<[id |-> "x1", at |-> <<"b">>, owner |-> "m1", src |-> <<"x">>],
             [id |-> "l", at |-> <<"c">>, owner |-> "pod", src |-> <<"l">>],
             [id |-> "x2", at |-> <<"c", "e">>, owner |-> "m2", src |-> <<"x">>]>>
Asked == [r1 |-> [at |-> <<"d">>, owner |-> "m1", src |-> <<"x", "y">>],
          r2 |-> [at |-> <<"b", "f">>, owner |-> "m2", src |-> <<"y">>]]
Dropped == [u1 |-> [owner |-> "m1"], u2 |-> [at |-> <<"b", "f">>]]

\* No mount is none.
ASSUME MountsAssumption ==
    None \notin {Planned[i] : i \in 1 .. 3} \cup
        {[id |-> r, at |-> Asked[r].at, owner |-> Asked[r].owner, src |-> Asked[r].src] :
            r \in {"r1", "r2"}}

NS == INSTANCE NodeServer WITH
    Paths <- {"p", "q"}, Own <- {"p"}, Specs <- {<<>>, <<"q">>}, ReadOnly <- {},
    Handlers <- NodeRequests, Builder <- "builder", MaxMounts <- 1, MaxStarts <- 1,
    FaultKinds <- {"slow", "add", "crash"}, server <- server_NS, mounted <- mounted_NS,
    dirty <- dirty_NS
PL == INSTANCE PodLifecycle WITH
    Ups <- {"u1", "u2"}, FaultKinds <- {"slow", "start", "attach", "forward", "die"},
    ask <- ask_PL, mounts <- mounts_PL
SY == INSTANCE Sync WITH
    Files <- {"f"}, Closer <- "closer", Starter <- "starter",
    FaultKinds <- {"fail", "again"}
MT == INSTANCE MountTable WITH
    Config <- Planned, Mounts <- Asked, Unmounts <- Dropped, Machines <- {},
    Sessions <- {"s"}, Places <- {<<"b", "f">>, <<"c", "e">>},
    FaultKinds <- {"add", "bind", "unbind"}, Pod <- "pod", told <- told_MT
TU == INSTANCE Tunnels WITH
    Hosts <- {"h1", "h2"}, Srcs <- {"s1", "s2"}, Ports <- {"h1", "h2"},
    HostOf <- [p \in {"h1", "h2"} |-> p], LocalOf <- [p \in {"h1", "h2"} |-> 1],
    Reconcilers <- {"r1", "r2"}, MaxMounts <- 2, MaxServers <- 2,
    FaultKinds <- {"write", "blip"}, up <- up_TU, mounted <- mounted_TU,
    mounts <- mounts_TU, server <- server_TU, dirty <- dirty_TU
DI == INSTANCE Dispatch WITH
    Pids <- {"p1"}, HostCallers <- {}, FaultKinds <- {"kill", "link"}, proc <- proc_DI,
    ask <- ask_DI, ended <- ended_DI, told <- told_DI, ran <- ran_DI
EB == INSTANCE EventBus WITH
    Events <- {"e1", "e2", "e3"}, Followers <- {"f1"}, Buffer <- 1, HistoryMax <- 2,
    FaultKinds <- {}
SB == INSTANCE ShellBlocks WITH
    Machines <- {"a", "b"}, Primary <- "a", Deaf <- {"b"}, RingSize <- 8,
    MaxMoves <- 1, MaxHands <- 1, FaultKinds <- {}, over <- over_SB, ended <- ended_SB,
    ui <- ui_SB, ran <- ran_SB, told <- told_SB
CK == INSTANCE Cockpit WITH
    Sessions <- {1, 2}, Cmds <- Programs, What <- [c \in Programs |-> "make"],
    MaxMoves <- 1, over <- over_CK, ui <- ui_CK
SC == INSTANCE Scrollback WITH
    Size <- 3, MaxOSC <- 4, MaxChunk <- 3, MaxBytes <- 5
ET == INSTANCE ExecTree WITH
    Pids <- 1 .. 4, ended <- ended_ET
DS == INSTANCE DaemonStart WITH
    Clients <- {"c1", "c2"}, Daemons <- {"d1", "d2", "d3"}, FaultKinds <- {"kill"},
    ended <- ended_DS

nodeServer == <<server_NS, todo, seq, held, fsm, job, stopping, expired, lease, watch,
                flushing, bound, mounted_NS, dir, dirty_NS, said, lost, down, starts,
                crossed, late>>
lifecycle == <<pods, creating, built, ask_PL, waitsOn, pod, closing, closes, sock,
               mounts_PL, early>>
syncDir == <<clock, here, there, manifest, last, sync, at, both, removed, met>>
mountTable == <<list, kernel, fuse, tbl, told_MT, req, cwd, on>>
tunnels == <<up_TU, mounted_TU, mounts_TU, relays, server_TU, link, rev, node, holds,
             dirty_TU, rec, op, ports, fwd, asking>>
dispatch == <<proc_DI, answer, sig, ask_DI, tracked, execs, ended_DI, retired, told_DI,
              tick, remote, try, ran_DI, result>>
eventBus == <<recent, subs, ch, closed, pub, fol, replay, seen, sent, missed, panicked>>
shellBlocks == <<shell, cur, out, over_SB, stream, ended_SB, raw, ui_SB, loop, timers,
                 size, ran_SB, told_SB, used>>
cockpit == <<live, over_CK, runs, events, ui_CK, loads, attached, activity, moves>>
scrollback == <<written, ring, pend, parsed>>
execTree == <<order, ppid, ended_ET>>
daemonStart == <<path, version, stage, client, spawned, ended_DS>>

everything == <<part, vars, nodeServer, lifecycle, syncDir, mountTable, tunnels, dispatch,
                 eventBus, shellBlocks, cockpit, scrollback, execTree, daemonStart>>

PartInit ==
    /\ part \in Parts
    /\ Init /\ NS!Init /\ PL!Init /\ SY!Init /\ MT!Init /\ TU!Init /\ DI!Init
    /\ EB!Init /\ SB!Init /\ CK!Init /\ SC!Init /\ ET!Init /\ DS!Init
    /\ part = "SY" \/ there["f"] = 0   \* one state of it where it does not run

\* The one that runs takes a step of its own.
PartNext ==
    /\ UNCHANGED part
    /\ IF part = "RPC" THEN Next ELSE UNCHANGED vars
    /\ IF part = "NS" THEN NS!Next ELSE UNCHANGED nodeServer
    /\ IF part = "PL" THEN PL!Next ELSE UNCHANGED lifecycle
    /\ IF part = "SY" THEN SY!Next ELSE UNCHANGED syncDir
    /\ IF part = "MT" THEN MT!Next ELSE UNCHANGED mountTable
    /\ IF part = "TU" THEN TU!Next ELSE UNCHANGED tunnels
    /\ IF part = "DI" THEN DI!Next ELSE UNCHANGED dispatch
    /\ IF part = "EB" THEN EB!Next ELSE UNCHANGED eventBus
    /\ IF part = "SB" THEN SB!Next ELSE UNCHANGED shellBlocks
    /\ IF part = "CK" THEN CK!Next ELSE UNCHANGED cockpit
    /\ IF part = "SC" THEN SC!Next ELSE UNCHANGED scrollback
    /\ IF part = "ET" THEN ET!Next ELSE UNCHANGED execTree
    /\ IF part = "DS" THEN DS!Next ELSE UNCHANGED daemonStart

PartSpec == PartInit /\ [][PartNext]_everything

\* The fairness of each module, of the one that runs.
PartFairness ==
    /\ \A id \in Ids : WF_vars(part = "RPC" /\ Caller(id))
    /\ WF_vars(part = "RPC" /\ ReadLoop)
    /\ WF_vars(part = "RPC" /\ Vpinit)
    /\ WF_vars(part = "RPC" /\ stopped /\ Die)
    /\ WF_nodeServer(part = "NS" /\ NS!Serve)
    /\ WF_nodeServer(part = "NS" /\ NS!LeaseWatch)
    /\ WF_nodeServer(part = "NS" /\ NS!RunOut)
    /\ \A w \in NS!Workers : WF_nodeServer(part = "NS" /\ NS!Request(w))
    /\ \A u \in {"u1", "u2"} : WF_lifecycle(part = "PL" /\ PL!UpStep(u))
    /\ \A u \in {"u1", "u2"} : WF_lifecycle(part = "PL" /\ PL!ReadEnds(u))
    /\ \A u \in {"u1", "u2"} : WF_lifecycle(part = "PL" /\ PL!Close(u))
    /\ \A r \in Downs : WF_lifecycle(part = "PL" /\ PL!DownDone(r))
    /\ WF_syncDir(part = "SY" /\ SY!SyncStep)
    /\ \A w \in SY!Whoever : SF_syncDir(part = "SY" /\ SY!Lock(w))
    /\ WF_dispatch(part = "DI" /\ DI!Daemon("p1"))
    /\ WF_dispatch(part = "DI" /\ DI!ForwardSignal("p1"))
    /\ WF_dispatch(part = "DI" /\ answer["p1"] # None /\ DI!Exit("p1"))
    /\ WF_dispatch(part = "DI" /\ DI!Watch)
    /\ WF_dispatch(part = "DI" /\ DI!WatchTells)
    /\ WF_shellBlocks(part = "SB" /\ SB!Progress)
    /\ SF_cockpit(part = "CK" /\ (CK!Refresh \/ \E l \in loads : CK!TakeState(l)))
    /\ WF_cockpit(part = "CK" /\ CK!AttachEnds)

PartFairSpec == PartSpec /\ PartFairness

(*****************************************************************************)
(* What is shown to hold. The comments are at the definitions.               *)
(*****************************************************************************)
\* The types of each component.
TypesOK ==
    /\ part = "RPC" => TypeOK
    /\ part = "NS" => NS!TypeOK
    /\ part = "PL" => PL!TypeOK
    /\ part = "SY" => SY!TypeOK
    /\ part = "MT" => MT!TypeOK
    /\ part = "TU" => TU!TypeOK
    /\ part = "DI" => DI!TypeOK
    /\ part = "EB" => EB!TypeOK
    /\ part = "SB" => SB!TypeOK
    /\ part = "CK" => CK!TypeOK
    /\ part = "SC" => SC!TypeOK
    /\ part = "ET" => ET!TypeOK
    /\ part = "DS" => DS!TypeOK

\* What a node reports is what its pod has, and serve's end discards nothing it
\* has not logged (node.go:70, 332).
NodeKeepsCount ==
    part = "NS" => /\ NS!HeldIsBound
                   /\ NS!StopDiscardsNothing

\* One daemon is found where clients look, whatever was killed there before
\* (cmd/vibepod's runDaemon); a pod keeps its socket and its mounts, is closed
\* once, and leaves nothing when it fails (daemon.go:463, 686, 797).
EachNameHasOne ==
    /\ part = "DS" => /\ DS!ServesWhereItIsFound
                      /\ DS!StartsOverTheStale
    /\ part = "PL" => /\ PL!KeepsItsOwn
                      /\ PL!ClosedOnce
                      /\ PL!FailedLeavesNothing

\* The list, the binds, the routes and the sessions agree, and so
\* does what the node pods were told (mount.go, route.go).
TableIsThePods ==
    part = "MT" => /\ MT!RuntimeMountsStandAlone
                   /\ MT!ListedIsMounted
                   /\ MT!RoutesShowThePod
                   /\ MT!NobodyIsStranded
                   /\ MT!UnmountedEverywhere

\* What serves and what is forwarded is what the pod has mounted (relay.go).
TunnelsFollowMounts ==
    part = "TU" => /\ TU!NothingOutlivesThePod
                   /\ TU!ServedWhileMounted
                   /\ TU!NodeReadsItsMount
                   /\ TU!OneForwardPerPort

\* A command runs once, is listed while it runs, and its end is told once
\* (tracker.go, exec.go).
RunsOnceToldOnce ==
    part = "DI" => /\ DI!RunningIsShown
                   /\ DI!ToldOnce
                   /\ DI!NothingRunsTwice

\* A follower that keeps up is sent every event once (stream.go:33).
NothingFallsBetween ==
    part = "EB" => EB!NothingFallsBetween

\* Keys, terminal and size are the running program's, and an end is printed once
\* (shell.go, handover.go).
ScreenIsRight ==
    part = "SB" => /\ SB!KeysHaveAReader
                   /\ SB!TerminalIsTheProgramsOwn
                   /\ SB!LaidOutWhereDrawn
                   /\ SB!RunningIsACommand
                   /\ SB!EndIsToldOnce

\* A replay is the tail of what was written, and markers are found wherever the
\* reads cut them (ring.go, marks.go).
BytesAreWhole ==
    part = "SC" => /\ SC!SnapshotIsTheTail
                   /\ SC!ChunksDoNotMatter
                   /\ SC!LittleIsHeldBack

\* Each command has one line in the cockpit's log, and under vp tree a command
\* no tracked one started is shown with those it started (cockpit.go's add,
\* tracker.go's tree).
CommandsAreShown ==
    /\ part = "CK" => CK!EachHasItsLine
    /\ part = "ET" => ET!RootsShowTheirOwn

\* No finished mount is below a directory that is erased (node.go).
EraseSparesMounts == NS!EraseSparesMounts

\* A lease that ran out leaves nothing on the machine (node.go:346).
ExpiryLeavesNothing == NS!ExpiryLeavesNothing

\* A conflict is kept, when syncs come one at a time (sync.go:29).
ConflictIsKept == SY!ConflictIsKept

\* A file deleted on the machine stays deleted there (sync.go:143).
DeletedThereStays == SY!DeletedThereStays

\* A sync that succeeded brought everything over (sync.go:93).
SyncedIsThere == SY!SyncedIsThere

\* A server nobody renews ends (node.go:660).
AbandonedEnds == NS!AbandonedEnds

\* Every up and every down is answered (daemon.go:488).
EveryoneAnswered == PL!EveryoneAnswered

\* A pod that dies leaves the list (pod.go:136).
DeadIsRemoved == PL!DeadIsRemoved

\* Every dispatch gets its turn (sync.go).
EveryDispatchRuns == SY!EveryDispatchRuns

\* The end of every recorded command is told (tracker.go:98).
EveryEndIsTold == DI!EveryEndIsTold

\* A Ctrl-C reaches its command (daemon.go:391).
InterruptIsHeard == DI!InterruptIsHeard

\* The interface comes back to its prompt (shell.go).
ComesBack == []<>(part # "SB") \/ SB!ComesBack

\* The interface ends with its session (shell.go).
LeavesWithTheSession == SB!LeavesWithTheSession

\* The pane ends up with the sessions there are (cockpit.go).
ShowsWhatThereIs == []<>(part # "CK") \/ CK!ShowsWhatThereIs

===============================================================================
