------------------------------- MODULE Session -------------------------------
(***************************************************************************)
(* One terminal session (internal/daemon/session.go, with setBackend of    *)
(* backend.go and runSession of daemon.go): a shell on every machine it has*)
(* visited, one of them shown; a goroutine per shell that pumps its output *)
(* into its scrollback and out to the clients; moves from one machine to   *)
(* another; clients that attach, detach, vanish, and are told of the end.  *)
(*                                                                         *)
(* A step is one section under a lock, or one write to a client, which     *)
(* the code makes outside the locks where it can.                          *)
(***************************************************************************)
EXTENDS Integers, FiniteSets

CONSTANTS
    Machines,   \* where the session may go
    Pod,        \* one of them: the pod on this machine
    Home,       \* where its first shell runs
    Movers,     \* goroutines that run setBackend
    Clients,    \* terminals that may watch it
    First,      \* the client that started it
    Framed,     \* the clients that are redrawn when a shell ends
    None,       \* absent: no shell, no machine
    FaultKinds, \* "open": a shell cannot be opened; "gone": a terminal vanishes;
                \* "down": the pod is brought down
    MaxFaults,  \* bound on these
    MaxShells,  \* bound on shells opened
    MaxChunks   \* bound on writes of each shell

ShellIds == 1..MaxShells
Chunks   == 1..MaxChunks

ASSUME SessionAssumption ==
    /\ Pod \in Machines /\ Home \in Machines /\ First \in Clients
    /\ Framed \subseteq Clients
    /\ MaxFaults \in Nat /\ MaxShells \in Nat \ {0} /\ MaxChunks \in Nat
    /\ None \notin Machines \cup ShellIds

VARIABLES
    shells,   \* session.shells: the shell of each machine visited
    cur,      \* session.cur: the shell being shown
    primary,  \* session.primary: the shell whose end is the session's
    clients,  \* session.clients
    done,     \* session.done: the one exit code in its channel
    ended,    \* session.ended
    backend,  \* podState.backends of this session: where its commands run
    listed,   \* is it in podState.sessions
    shell,    \* every shell ever opened, with its ring and its pump
    mover,    \* where each setBackend is
    faults,   \* failures so far
    client    \* each terminal: its handler, and what has reached its screen

sess == <<shells, cur, primary, clients, done, ended>>
pod  == <<backend, listed>>
vars == <<sess, pod, shell, mover, faults, client>>

\* A failure that this instance allows and has not used up.
Fault(kind) == kind \in FaultKinds /\ faults < MaxFaults /\ faults' = faults + 1

Interactive == primary # None
MachineOf(sh) == shell[sh].at
Snapshot(sh) == {sh} \X (1..shell[sh].ring)

\* A write to a terminal, and what it shows; a raw client's screen is not
\* followed.
Shown(c, bytes) ==
    IF ~client[c].gone /\ c \in Framed THEN [client[c] EXCEPT !.seen = @ \cup bytes]
    ELSE client[c]

\* The same where a failed write is looked at: the attachment is let go.
Sent(c, bytes) == [Shown(c, bytes) EXCEPT !.stop = @ \/ client[c].gone]

-----------------------------------------------------------------------------
(* setBackend and switchTo.                                                *)

AtRest == [pc |-> "idle", to |-> None, sh |-> None, todo |-> {}, snap |-> {}]
Idle(t) == mover' = [mover EXCEPT ![t] = AtRest]

\* The backend is recorded first, for a session that is gone as well.
Move(t, b) ==
    /\ mover[t].pc = "idle"
    /\ backend' = b
    /\ IF listed /\ Interactive
       THEN mover' = [mover EXCEPT ![t].pc = "switch", ![t].to = b]
       ELSE UNCHANGED mover
    /\ UNCHANGED <<sess, listed, shell, client, faults>>

Switch(t) ==
    /\ mover[t].pc = "switch"
    /\ LET b == mover[t].to
       IN  IF cur # None => MachineOf(cur) # b
           THEN mover' = [mover EXCEPT ![t].sh = shells[b],
                                       ![t].pc = IF shells[b] = None THEN "open"
                                                 ELSE "show"]
           ELSE Idle(t)
    /\ UNCHANGED <<sess, pod, shell, client, faults>>

Started(b) == [at |-> b, running |-> TRUE, out |-> 0, ring |-> 0,
               pump |-> "read", todo |-> {}, back |-> None, snap |-> {}]

\* Mutant: the new shell is entered as the one at home.
OpenAtHome(t) ==
    /\ mover[t].pc = "open"
    /\ \E sh \in ShellIds :
         /\ shell[sh].pump = "none"
         /\ \A i \in ShellIds : i < sh => shell[i].pump # "none"
         /\ shell' = [shell EXCEPT ![sh] = Started(mover[t].to)]
         /\ shells' = [shells EXCEPT ![Home] = sh]
         /\ mover' = [mover EXCEPT ![t].pc = "show", ![t].sh = sh]
    /\ UNCHANGED <<cur, primary, clients, done, ended, pod, client, faults>>

\* openShell, after the locks were let go: it is entered as the machine's shell
\* whatever is there by now. The pump starts only then.
Open(t) ==
    /\ mover[t].pc = "open"
    /\ \E sh \in ShellIds :
         /\ shell[sh].pump = "none"
         /\ \A i \in ShellIds : i < sh => shell[i].pump # "none"
         /\ shell' = [shell EXCEPT ![sh] = Started(mover[t].to)]
         /\ shells' = [shells EXCEPT ![mover[t].to] = sh]
         /\ mover' = [mover EXCEPT ![t].pc = "show", ![t].sh = sh]
    /\ UNCHANGED <<cur, primary, clients, done, ended, pod, client, faults>>

OpenFails(t) ==
    /\ mover[t].pc = "open" /\ Fault("open")
    /\ Idle(t)
    /\ UNCHANGED <<sess, pod, shell, client>>

\* A mover that has nobody left to draw for has answered.
Drawing(t, todo, snap) ==
    IF todo = {} THEN Idle(t)
    ELSE mover' = [mover EXCEPT ![t].pc = "draw", ![t].todo = todo, ![t].snap = snap]

\* Under the lock: the shell shown, who is watching, and its scrollback.
Show(t) ==
    /\ mover[t].pc = "show"
    /\ cur' = mover[t].sh
    /\ Drawing(t, clients, Snapshot(mover[t].sh))
    /\ UNCHANGED <<shells, primary, clients, done, ended, pod, shell, client, faults>>

\* Outside it: each client in turn. One that has left meanwhile sees nothing.
Draw(t, c) ==
    /\ mover[t].pc = "draw" /\ c \in mover[t].todo
    /\ client' = [client EXCEPT ![c] = Sent(c, mover[t].snap)]
    /\ Drawing(t, mover[t].todo \ {c}, mover[t].snap)
    /\ UNCHANGED <<sess, pod, shell, faults>>

-----------------------------------------------------------------------------
(* A shell, and its pump.                                                  *)

Write(sh) ==
    /\ shell[sh].running /\ shell[sh].out < MaxChunks
    /\ shell' = [shell EXCEPT ![sh].out = @ + 1]
    /\ UNCHANGED <<sess, pod, mover, client, faults>>

Exit(sh) ==
    /\ shell[sh].running
    /\ shell' = [shell EXCEPT ![sh].running = FALSE]
    /\ UNCHANGED <<sess, pod, mover, client, faults>>

\* The chunk goes into the ring, without the session's lock,
Read(sh) ==
    /\ shell[sh].pump = "read" /\ shell[sh].ring < shell[sh].out
    /\ shell' = [shell EXCEPT ![sh].ring = @ + 1, ![sh].pump = "forward"]
    /\ UNCHANGED <<sess, pod, mover, client, faults>>

\* and then, under it, to whoever is attached, if this shell is being shown.
Forward(sh) ==
    /\ shell[sh].pump = "forward"
    /\ shell' = [shell EXCEPT ![sh].pump = "read"]
    /\ client' = [c \in Clients |->
                    IF cur # sh \/ c \notin clients THEN client[c]
                    ELSE Sent(c, {<<sh, shell[sh].ring>>})]
    /\ UNCHANGED <<sess, pod, mover, faults>>

\* The terminal has been read to its end, or close() has closed it.
Drained(sh) == /\ shell[sh].pump = "read" /\ ~shell[sh].running
               /\ shell[sh].ring = shell[sh].out \/ ~Interactive

\* The primary ended: its exit status is waited for, two seconds at most.
EndPrimary(sh) ==
    /\ Drained(sh) /\ primary = sh
    /\ shell' = [shell EXCEPT ![sh].pump = "wait", ![sh].todo = clients]
    /\ UNCHANGED <<sess, pod, mover, client, faults>>

\* The session is over, and one code is left for whoever waits.
Ended(sh) ==
    /\ shell[sh].pump = "wait"
    /\ ended' = TRUE
    /\ done' = TRUE
    /\ shell' = [shell EXCEPT ![sh].pump = "release"]
    /\ UNCHANGED <<shells, cur, primary, clients, pod, mover, client, faults>>

Release(sh) ==
    /\ shell[sh].pump = "release"
    /\ client' = [c \in Clients |-> IF c \in shell[sh].todo
                                    THEN [client[c] EXCEPT !.stop = TRUE]
                                    ELSE client[c]]
    /\ shell' = [shell EXCEPT ![sh].pump = "over", ![sh].todo = {}]
    /\ UNCHANGED <<sess, pod, mover, faults>>

\* Mutant: any shell that ends is taken for the session's first.
EndAsPrimary(sh) ==
    /\ Drained(sh) /\ primary # sh
    /\ shell' = [shell EXCEPT ![sh].pump = "wait", ![sh].todo = clients]
    /\ UNCHANGED <<sess, pod, mover, client, faults>>

\* Any other shell is forgotten, by its machine's name; if it was the one shown,
\* the primary is shown again.
EndOther(sh) ==
    /\ Drained(sh) /\ primary # sh
    /\ shells' = [shells EXCEPT ![MachineOf(sh)] = None]
    /\ cur' = IF cur = sh THEN primary ELSE cur
    /\ shell' = [shell EXCEPT ![sh].pump = "fall", ![sh].todo = clients,
                              ![sh].back = primary,
                              ![sh].snap = IF primary = None THEN {}
                                           ELSE Snapshot(primary)]
    /\ UNCHANGED <<primary, clients, done, ended, pod, mover, client, faults>>

Fallback(sh) == IF shell[sh].back = None THEN Pod ELSE MachineOf(shell[sh].back)

\* The session's commands fall back too, whichever shell was shown.
FallBack(sh) ==
    /\ shell[sh].pump = "fall"
    /\ backend' = Fallback(sh)
    /\ shell' = [shell EXCEPT ![sh].pump = "note"]
    /\ UNCHANGED <<sess, listed, mover, client, faults>>

\* Framed clients get the primary's scrollback; the others, a line of text.
Note(sh, c) ==
    /\ shell[sh].pump = "note" /\ c \in shell[sh].todo
    /\ client' = [client EXCEPT ![c] = Shown(c, shell[sh].snap)]
    /\ shell' = [shell EXCEPT ![sh].todo = @ \ {c}]
    /\ UNCHANGED <<sess, pod, mover, faults>>

Noted(sh) ==
    /\ shell[sh].pump = "note" /\ shell[sh].todo = {}
    /\ shell' = [shell EXCEPT ![sh].pump = "over", ![sh].back = None,
                              ![sh].snap = {}]
    /\ UNCHANGED <<sess, pod, mover, client, faults>>

-----------------------------------------------------------------------------
(* A client: runSession, attach.                                           *)

At(c, label) == client' = [client EXCEPT ![c].pc = label]

\* findSession
Find(c) ==
    /\ client[c].pc = "away" /\ listed /\ Interactive
    /\ At(c, "found")
    /\ UNCHANGED <<sess, pod, shell, mover, faults>>

\* Mutant: the scrollback of the first shell, whichever is being shown.
AttachToPrimary(c) ==
    /\ client[c].pc = "found"
    /\ clients' = clients \cup {c}
    /\ client' = [client EXCEPT ![c].pc = "show",
                    ![c].snap = IF primary = None \/ c \notin Framed THEN {}
                                ELSE Snapshot(primary)]
    /\ UNCHANGED <<shells, cur, primary, done, ended, pod, shell, mover, faults>>

\* Under the lock: the scrollback, and from now on live output.
Attach(c) ==
    /\ client[c].pc = "found"
    /\ clients' = clients \cup {c}
    /\ client' = [client EXCEPT ![c].pc = "show",
                    ![c].snap = IF cur = None \/ c \notin Framed THEN {}
                                 ELSE Snapshot(cur)]
    /\ UNCHANGED <<shells, cur, primary, done, ended, pod, shell, mover, faults>>

Redraw(c) ==
    /\ client[c].pc = "show"
    /\ client' = [client EXCEPT ![c] = [Shown(c, client[c].snap)
                                          EXCEPT !.pc = "watch", !.snap = {}]]
    /\ UNCHANGED <<sess, pod, shell, mover, faults>>

\* The code is taken, and put back for anyone else waiting.
TakeEnd(c) ==
    /\ client[c].pc = "watch" /\ done
    /\ done' = FALSE
    /\ At(c, "relay")
    /\ UNCHANGED <<shells, cur, primary, clients, ended, pod, shell, mover, faults>>

\* Mutant: the code is kept.
RelayKept(c) ==
    /\ client[c].pc = "relay"
    /\ At(c, "leave")
    /\ UNCHANGED <<sess, pod, shell, mover, faults>>

Relay(c) ==
    /\ client[c].pc = "relay"
    /\ done' = TRUE
    /\ At(c, "leave")
    /\ UNCHANGED <<shells, cur, primary, clients, ended, pod, shell, mover, faults>>

\* The user detaches, or the terminal was found gone and there is no code.
Detach(c) ==
    /\ client[c].pc = "watch"
    /\ At(c, "detach")
    /\ UNCHANGED <<sess, pod, shell, mover, faults>>

Dropped(c) ==
    /\ client[c].pc = "watch" /\ client[c].stop /\ ~done
    /\ At(c, "detach")
    /\ UNCHANGED <<sess, pod, shell, mover, faults>>

Unwatched == [pc |-> "away", stop |-> FALSE, gone |-> FALSE, seen |-> {},
              snap |-> {}]

\* attach returns; the client may come back, on a new terminal. What is still
\* to be written to the old one no longer matters.
Leave(c) ==
    /\ client[c].pc \in {"leave", "detach"}
    /\ clients' = clients \ {c}
    /\ mover' = [t \in Movers |-> IF mover[t].todo = {c} THEN AtRest
                                  ELSE [mover[t] EXCEPT !.todo = @ \ {c}]]
    /\ shell' = [sh \in ShellIds |-> [shell[sh] EXCEPT !.todo = @ \ {c}]]
    /\ client' = [client EXCEPT ![c] = [Unwatched EXCEPT
                    !.pc = IF client[c].pc = "leave" THEN "end" ELSE "away"]]
    /\ UNCHANGED <<shells, cur, primary, done, ended, pod, faults>>

\* endSession: off the lists,
Unlist(c) ==
    /\ client[c].pc = "end"
    /\ listed' = FALSE /\ backend' = None
    /\ At(c, "close")
    /\ UNCHANGED <<sess, shell, mover, faults>>

\* session.close: every shell the session knows of is killed.
CloseAll ==
    /\ shells' = [b \in Machines |-> None]
    /\ cur' = None /\ primary' = None
    /\ shell' = [sh \in ShellIds |-> IF sh \in {shells[b] : b \in Machines}
                                     THEN [shell[sh] EXCEPT !.running = FALSE]
                                     ELSE shell[sh]]
    /\ UNCHANGED <<clients, done, ended>>

Close(c) ==
    /\ client[c].pc = "close"
    /\ CloseAll
    /\ At(c, "out")
    /\ UNCHANGED <<pod, mover, faults>>

Gone(c) ==
    /\ client[c].pc \in {"show", "watch"} /\ ~client[c].gone /\ Fault("gone")
    /\ client' = [client EXCEPT ![c].gone = TRUE]
    /\ UNCHANGED <<sess, pod, shell, mover>>

\* podState.close: the pod goes down with the session on its list.
PodDown ==
    /\ listed /\ Interactive /\ Fault("down")
    /\ CloseAll
    /\ UNCHANGED <<pod, mover, client>>

-----------------------------------------------------------------------------
NoShell == [at |-> None, running |-> FALSE, out |-> 0, ring |-> 0,
            pump |-> "none", todo |-> {}, back |-> None, snap |-> {}]

\* startSession has returned to the client that asked.
Init ==
    /\ shells = [b \in Machines |-> IF b = Home THEN 1 ELSE None]
    /\ cur = 1 /\ primary = 1 /\ clients = {}
    /\ done = FALSE /\ ended = FALSE /\ faults = 0
    /\ backend = Home /\ listed = TRUE
    /\ shell = [sh \in ShellIds |-> IF sh = 1 THEN Started(Home) ELSE NoShell]
    /\ mover = [t \in Movers |-> AtRest]
    /\ client = [c \in Clients |-> [Unwatched EXCEPT
                    !.pc = IF c = First THEN "found" ELSE "away"]]

Moves(t) == \/ Switch(t) \/ Open(t) \/ OpenFails(t) \/ Show(t)
            \/ \E c \in Clients : Draw(t, c)

Pump(sh) == \/ Read(sh) \/ Forward(sh)
            \/ EndPrimary(sh) \/ Ended(sh) \/ Release(sh)
            \/ EndOther(sh) \/ FallBack(sh) \/ Noted(sh)
            \/ \E c \in Clients : Note(sh, c)

Watch(c) == \/ Attach(c) \/ Redraw(c) \/ TakeEnd(c) \/ Relay(c) \/ Dropped(c)
            \/ Leave(c) \/ Unlist(c) \/ Close(c)

Next ==
    \/ \E t \in Movers : Moves(t) \/ \E b \in Machines : Move(t, b)
    \/ \E sh \in ShellIds : Pump(sh) \/ Write(sh) \/ Exit(sh)
    \/ \E c \in Clients : Watch(c) \/ Find(c) \/ Detach(c) \/ Gone(c)
    \/ PodDown

Spec == Init /\ [][Next]_vars

-----------------------------------------------------------------------------
Bytes == ShellIds \X Chunks

Shell == [at : Machines \cup {None}, running : BOOLEAN, out : 0..MaxChunks,
          ring : 0..MaxChunks,
          pump : {"none", "read", "forward", "wait", "release", "fall", "note", "over"},
          todo : SUBSET Clients, back : ShellIds \cup {None}, snap : SUBSET Bytes]

Mover == [pc : {"idle", "switch", "open", "show", "draw"}, to : Machines \cup {None},
          sh : ShellIds \cup {None}, todo : SUBSET Clients, snap : SUBSET Bytes]

Client == [pc : {"away", "found", "show", "watch", "relay", "leave", "detach", "end",
                 "close", "out"},
           stop : BOOLEAN, gone : BOOLEAN, seen : SUBSET Bytes,
           snap : SUBSET Bytes]

\* The types; and the shell of a machine is a shell on that machine.
TypeOK ==
    /\ shells \in [Machines -> ShellIds \cup {None}]
    /\ cur \in ShellIds \cup {None} /\ primary \in ShellIds \cup {None}
    /\ clients \in SUBSET Clients
    /\ done \in BOOLEAN /\ ended \in BOOLEAN /\ listed \in BOOLEAN
    /\ backend \in Machines \cup {None} /\ faults \in 0..MaxFaults
    /\ shell \in [ShellIds -> Shell]
    /\ mover \in [Movers -> Mover]
    /\ client \in [Clients -> Client]
    /\ \A b \in Machines : shells[b] # None => MachineOf(shells[b]) = b

\* Something is still to be drawn on this client's screen.
ToDraw(c) == \/ \E t \in Movers : c \in mover[t].todo
             \/ \E sh \in ShellIds : shell[sh].pump \in {"fall", "note"}
                                      /\ c \in shell[sh].todo

\* "Redraw from this shell's own scrollback" (session.go:278): a framed client
\* that watches has every byte the shell being shown has written, whichever
\* moves, ends and attachments overlapped with the writing.
NothingMissed ==
    \A c \in clients \cap Framed :
        /\ client[c].pc = "watch" /\ ~client[c].gone /\ ~client[c].stop
        /\ ~ToDraw(c) /\ cur # None /\ shell[cur].pump # "forward"
        => Snapshot(cur) \subseteq client[c].seen

\* "The primary shell ending ends the session; any other shell just goes away"
\* (session.go:318): no other shell's end does, and until the session is closed
\* its first shell is there to fall back to.
EndsWithPrimary ==
    /\ ended => ~shell[1].running
    /\ Interactive => shells[MachineOf(primary)] = primary
    /\ Interactive /\ shell[primary].pump = "over" => ended

\* "leave it for anyone else waiting" (session.go:414): once the session has
\* ended its one code is in the channel, or in the hands of the one client that
\* is putting it back, however many attach, detach and take it.
CodeIsLeft ==
    LET relaying == {c \in Clients : client[c].pc = "relay"}
    IN  ended => \/ done /\ relaying = {}
                 \/ ~done /\ \E c \in Clients : relaying = {c}

\* "Each session has exactly one current backend" (DESIGN.md:79): with nothing in
\* progress, commands run where the keystrokes go.
CommandsFollowShell ==
    /\ listed /\ cur # None
    /\ \A t \in Movers : mover[t].pc = "idle"
    /\ \A sh \in ShellIds : shell[sh].pump \in {"none", "read", "forward", "over"}
    => backend = MachineOf(cur)
=============================================================================
