------------------------------ MODULE ShellBlocks ------------------------------
(***************************************************************************)
(* `vp shell` (internal/ui: shell.go, handover.go, marks.go, hooks.go): an *)
(* input box over a session's terminal. Three things run at once. The      *)
(* stream reads the terminal's output, splits it at the markers the        *)
(* shell's hooks print, and posts the pieces to the program; the program   *)
(* (Bubble Tea's loop) takes one message at a time: the stream's, the      *)
(* keys, its timers; a handover is the program stepping aside, its loop    *)
(* blocked, while a full-screen program has the real terminal. The stream  *)
(* decides when a handover starts and ends, and the program hears of both  *)
(* later.                                                                  *)
(*                                                                         *)
(* The shells, what runs in them and the daemon's side of the terminal are *)
(* the environment: a shell that has the hooks prints Exec before a        *)
(* command's output and Done, Prompt, Input after it.                      *)
(***************************************************************************)
EXTENDS Naturals, Sequences, FiniteSets

CONSTANTS
    Machines,    \* whose shells the session can show
    Primary,     \* the machine of the session's first shell
    Deaf,        \* the machines whose shell takes no hooks (fish)
    RingSize,    \* how many events a shell's scrollback holds
    MaxLines,    \* how many lines are sent
    MaxMoves,    \* how often the session is moved
    MaxHands,    \* how often a program takes the screen
    FaultKinds,  \* of "elsewhere", "scrolled", "unparsed", "reattach"
    None

VARIABLES
    shell,    \* per machine: what its shell is at, what is typed, its scrollback
    cur,      \* the machine whose shell the session shows
    out,      \* the terminal's output, on its way to the stream
    over,     \* "no", or how the session ended for this client
    stream,   \* inCmd, hand; post: the message it is sending; hands: handovers made
    ended,    \* the handovers whose done channel is closed
    raw,      \* the handovers that last forever
    ui,       \* shellModel
    loop,     \* running: the handover run; execs, dones: messages about them
    timers,   \* sent, boot: the timers set, by their seq
    size,     \* what the terminal's size was last set to
    ran,      \* how many commands ran, which names them
    told,     \* per command, how many times its end was printed
    used      \* how many lines, moves and screens there have been

env == <<shell, cur, out, ran, used>>
prog == <<ui, loop, timers, size, told>>
vars == <<env, over, stream, ended, raw, prog>>

Lines == 0 .. MaxLines
\* A replay shows a handover again.
Hands == 1 .. (MaxHands + 1) * (MaxMoves + 1)

(***************************************************************************)
(* The session's side: an event is what the stream's parser makes of the   *)
(* output, so a marker or an escape that enters or leaves the alternate    *)
(* screen; the text between them is left out.                              *)
(***************************************************************************)
E(kind) == [kind |-> kind, of |-> None]
IsText(e) == e.kind \in {"on", "off"}

LastOf(s, n) == IF Len(s) <= n THEN s ELSE SubSeq(s, Len(s) - n + 1, Len(s))

\* What a shell prints goes into its ring and, if it is shown, to the client.
Prints(m, sh, events) ==
    /\ shell' = [shell EXCEPT ![m] = [sh EXCEPT !.ring = LastOf(@ \o events, RingSize)]]
    /\ out' = IF cur = m THEN out \o events ELSE out

AtPrompt(n) == <<[kind |-> "done", of |-> n], E("prompt"), E("input")>>

\* A shell's scrollback, between the marks that say whose it is and where it ends.
Shows(m, s) == <<[kind |-> "backend", of |-> m]>> \o s[m].ring \o <<E("replayed")>>

\* The hooks are typed at a shell that never had them, or again at one that has.
ReadHooks(m) ==
    LET sh == [shell[m] EXCEPT !.input = Tail(@)] IN
    /\ over = "no" /\ shell[m].input # <<>> /\ Head(shell[m].input) = "hooks"
    /\ \/ shell[m].at = "new"
          /\ IF m \in Deaf THEN Prints(m, sh, <<>>)
                           ELSE Prints(m, [sh EXCEPT !.at = "prompt"], AtPrompt(0))
       \/ /\ shell[m].at = "prompt"
          /\ Prints(m, sh, <<[kind |-> "exec", of |-> 0]>> \o AtPrompt(0))
    /\ UNCHANGED <<cur, ran, used, over, stream, ended, raw, prog>>

\* A line is run; a shell without hooks says nothing of it.
ReadLine(m) ==
    LET sh == [shell[m] EXCEPT !.input = Tail(@)] IN
    /\ over = "no" /\ shell[m].input # <<>> /\ Head(shell[m].input) = "line"
    /\ \/ shell[m].at = "new" /\ Prints(m, sh, <<>>) /\ UNCHANGED ran
       \/ /\ shell[m].at = "prompt"
          /\ ran' = ran + 1
          /\ Prints(m, [sh EXCEPT !.at = "cmd", !.n = ran'],
                    <<[kind |-> "exec", of |-> ran']>>)
       \/ /\ shell[m].at = "prompt" /\ "unparsed" \in FaultKinds
          /\ Prints(m, sh, AtPrompt(0)) /\ UNCHANGED ran
    /\ UNCHANGED <<cur, used, over, stream, ended, raw, prog>>

\* The first shell's end is the session's; after any other's it shows the first.
ReadExit(m) ==
    LET sh == [shell[m] EXCEPT !.input = Tail(@)]
        gone == [shell EXCEPT ![m] = [at |-> "new", input |-> <<>>, ring |-> <<>>, n |-> 0]]
    IN
    /\ over = "no" /\ shell[m].input # <<>> /\ Head(shell[m].input) = "exit"
    /\ shell[m].at \in {"new", "prompt"}
    /\ \/ Prints(m, sh, IF shell[m].at = "new" THEN <<>>
                        ELSE <<[kind |-> "exec", of |-> 0]>> \o AtPrompt(0))
          /\ UNCHANGED <<cur, over>>     \* there are stopped jobs
       \/ /\ m = Primary /\ over' = "exit" /\ shell' = [shell EXCEPT ![m] = sh]
          /\ UNCHANGED <<cur, out>>
       \/ /\ m # Primary /\ shell' = gone
          /\ cur' = IF cur = m THEN Primary ELSE cur
          /\ out' = IF cur = m THEN out \o Shows(Primary, gone) ELSE out
          /\ UNCHANGED over
    /\ UNCHANGED <<ran, used, stream, ended, raw, prog>>

\* A program takes the whole screen, gives it back, reads what is typed, or ends.
ProgramRuns(m) ==
    /\ over = "no" /\ shell[m].at \in {"cmd", "full"}
    /\ \/ /\ shell[m].at = "cmd" /\ used.screens < MaxHands
          /\ used' = [used EXCEPT !.screens = @ + 1]
          /\ Prints(m, [shell[m] EXCEPT !.at = "full"], <<E("on")>>)
       \/ /\ shell[m].at = "full" /\ UNCHANGED used
          /\ Prints(m, [shell[m] EXCEPT !.at = "cmd"], <<E("off")>>)
       \/ /\ shell[m].input # <<>> /\ UNCHANGED <<out, used>>
          /\ shell' = [shell EXCEPT ![m].input = Tail(@)]
       \/ /\ UNCHANGED used
          /\ Prints(m, [shell[m] EXCEPT !.at = "prompt"], AtPrompt(shell[m].n))
       \/ /\ "scrolled" \in FaultKinds    \* its output has filled the ring
          /\ shell' = [shell EXCEPT ![m].ring = <<>>] /\ UNCHANGED <<out, used>>
    /\ UNCHANGED <<cur, ran, over, stream, ended, raw, prog>>

\* switchTo and show: the session shows another machine's shell, new or old.
Move(m) ==
    /\ over = "no" /\ used.moves < MaxMoves /\ m # cur
    /\ "elsewhere" \in FaultKinds \/ ui.use = m
    /\ used' = [used EXCEPT !.moves = @ + 1] /\ cur' = m
    /\ out' = out \o Shows(m, shell)
    /\ ui' = [ui EXCEPT !.use = IF @ = m THEN None ELSE @]
    /\ UNCHANGED <<shell, ran, over, stream, ended, raw, loop, timers, size, told>>

Type(what) == shell' = [shell EXCEPT ![cur].input = Append(@, what)]

(***************************************************************************)
(* The stream. It waits while its last message has not been taken.         *)
(***************************************************************************)
\* Mutant: the forever handover is not ended either.
EndHandShort(all) ==
    LET h == stream.hand IN
    IF h # None /\ h \notin raw
    THEN ended' = ended \cup {h} ELSE UNCHANGED ended

EndHand(all) ==
    LET h == stream.hand IN
    IF h # None /\ (all \/ h \notin raw)
    THEN ended' = ended \cup {h} ELSE UNCHANGED ended

\* Any marker ends a handover, whatever the program did with the screen.
EndsHandover(e) == e.kind # "on"

InCmd(e) ==
    CASE e.kind = "exec" -> TRUE
      [] e.kind \in {"done", "prompt", "backend"} -> FALSE
      [] OTHER -> stream.inCmd

\* feed, for one event. With a forever handover, text goes to it and markers
\* nowhere; with any other, text goes to it until the program leaves.
Feed ==
    LET e == Head(out)
        h == stream.hand
        new == stream.hands + 1
    IN
    /\ out # <<>> /\ stream.post = None
    /\ out' = Tail(out)
    /\ CASE h \in raw -> UNCHANGED <<stream, ended>>
         [] h # None /\ h \notin raw /\ (IsText(e) \/ ~EndsHandover(e)) ->
              IF EndsHandover(e)
              THEN stream' = [stream EXCEPT !.hand = None] /\ EndHand(FALSE)
              ELSE UNCHANGED <<stream, ended>>
         [] h \notin raw /\ (h = None \/ (~IsText(e) /\ EndsHandover(e))) ->
              /\ EndHand(FALSE)
              /\ IF e.kind = "on" /\ InCmd(e)
                 THEN stream' = [stream EXCEPT !.hand = new, !.hands = new,
                                               !.post = [kind |-> "hand", of |-> new]]
                 ELSE stream' = [stream EXCEPT !.hand = None, !.inCmd = InCmd(e),
                                               !.post = e]
    /\ UNCHANGED <<shell, cur, ran, used, over, raw, prog>>

\* The output ends with the attachment, and every handover with it.
EndOfOutput ==
    /\ over # "no" /\ out = <<>> /\ stream.post = None /\ stream.hand # None
    /\ EndHand(TRUE)
    /\ stream' = [stream EXCEPT !.hand = None]
    /\ UNCHANGED <<env, over, raw, prog>>

(***************************************************************************)
(* The program. The phases are boot (no marked prompt seen yet), idle (keys*)
(* edit the line), sent (a line is with the shell), run (keys go to the    *)
(* running block), hand and raw.                                           *)
(***************************************************************************)
Loop == ~ui.quitting /\ loop.running = None

\* finish: the block's end is printed, unless this is a replay.
Finish(u) == [u EXCEPT !.block = None,
                       !.ph = IF @ \in {"run", "hand"} THEN "idle" ELSE @]
Close(u) == IF u.block = None THEN u ELSE Finish(u)
Tell(u) == told' = IF u.block \in 1 .. MaxLines /\ ~u.quiet
                   THEN [told EXCEPT ![u.block] = @ + 1] ELSE told
StartBlock(u, n) == [u EXCEPT !.block = n, !.ph = "run"]
Back(u) == [u EXCEPT !.ph = IF @ = "sent" THEN @ ELSE "idle"]

\* Mutant: the marks seen are the last shell's too.
ShowAnother(u, m) == [Close(u) EXCEPT !.backend = m, !.quiet = TRUE, !.ph = "boot"]
ShowBackend(u, m) ==
    [Close(u) EXCEPT !.backend = m, !.quiet = TRUE, !.sawMark = FALSE, !.ph = "boot"]

\* handle, for one event of the stream.
Handle(e) ==
    LET seen == [ui EXCEPT !.sawMark = TRUE] IN
    CASE e.kind = "backend" ->
           /\ ui' = ShowBackend(ui, e.of)
           /\ UNCHANGED <<told, timers, shell>>
      [] e.kind = "replayed" ->
           /\ UNCHANGED told
           /\ IF ui.sawMark
              THEN ui' = [ui EXCEPT !.quiet = FALSE] /\ UNCHANGED <<timers, shell>>
              ELSE /\ ui' = [ui EXCEPT !.quiet = FALSE, !.bootSeq = @ + 1]
                   /\ timers' = [timers EXCEPT !.boot = @ \cup {ui'.bootSeq}]
                   /\ IF over = "no" THEN Type("hooks") ELSE UNCHANGED shell
      [] e.kind = "exec" ->
           /\ ui' = StartBlock(Close(seen), e.of)
           /\ UNCHANGED <<told, timers, shell>>
      [] e.kind = "prompt" ->
           /\ ui' = Close(seen) /\ Tell(ui) /\ UNCHANGED <<timers, shell>>
      [] e.kind \in {"input", "done"} ->
           /\ ui' = Back(Close(seen)) /\ Tell(ui) /\ UNCHANGED <<timers, shell>>
      [] IsText(e) -> UNCHANGED <<ui, told, timers, shell>>

\* streamMsg, and handStartMsg: the program asks its own loop to step aside.
TakePost ==
    LET e == stream.post IN
    /\ Loop /\ e # None
    /\ stream' = [stream EXCEPT !.post = None]
    /\ IF e.kind = "hand"
       THEN /\ ui' = [ui EXCEPT !.ph = "hand"]
            /\ loop' = [loop EXCEPT !.execs = @ \cup {e.of}]
            /\ UNCHANGED <<told, timers, shell>>
       ELSE Handle(e) /\ UNCHANGED loop
    /\ UNCHANGED <<cur, out, ran, used, over, ended, raw, size>>

\* handover.Run: the terminal is the program's, in its full size, until done.
RunHandover(h) ==
    /\ Loop /\ h \in loop.execs
    /\ loop' = [loop EXCEPT !.running = h, !.execs = @ \ {h}]
    /\ size' = "full"
    /\ UNCHANGED <<env, over, stream, ended, raw, ui, timers, told>>

HandoverEnds(h) ==
    /\ loop.running = h /\ h \in ended
    /\ loop' = [loop EXCEPT !.running = None, !.dones = @ \cup {h}]
    /\ UNCHANGED <<env, over, stream, ended, raw, ui, timers, size, told>>

\* Mutant: whatever the phase is by now.
RunsAgain(u) == [u EXCEPT !.ph = "run"]
\* handDoneMsg: the command that had the terminal may be over already.
Resume(u) == [u EXCEPT !.ph = IF @ = "hand" THEN "run" ELSE @]

SizeAfter(u) == IF u.ph = "raw" THEN size ELSE "block"

HandDone(h) ==
    /\ Loop /\ h \in loop.dones
    /\ loop' = [loop EXCEPT !.dones = @ \ {h}]
    /\ ui' = Resume(ui) /\ size' = SizeAfter(ui')
    /\ UNCHANGED <<env, over, stream, ended, raw, timers, told>>

\* The window's size changed: told to the shell unless the terminal is its own.
Resized ==
    /\ Loop /\ ui.ph \notin {"hand", "raw"} /\ size' = "block"
    /\ UNCHANGED <<env, over, stream, ended, raw, ui, loop, timers, told>>

\* 400 ms after a line was sent: the shell did something else with it.
SentTimeout(seq) ==
    /\ Loop /\ seq \in timers.sent
    /\ timers' = [timers EXCEPT !.sent = @ \ {seq}]
    /\ ui' = IF ui.ph = "sent" /\ seq = ui.sentSeq THEN StartBlock(ui, 0) ELSE ui
    /\ UNCHANGED <<env, over, stream, ended, raw, loop, size, told>>

\* bootTimeoutMsg, 8 s after the hooks were typed: the shell has none, and the
\* terminal is its own, for good. One that takes them has answered by then, and
\* the answer has been seen.
BootTimeout(seq) ==
    LET new == stream.hands + 1 IN
    /\ Loop /\ seq \in timers.boot
    /\ over # "no" \/ shell[cur].input = <<>> \/ shell[cur].at \in {"cmd", "full"}
    /\ out = <<>> /\ stream.post = None
    /\ timers' = [timers EXCEPT !.boot = @ \ {seq}]
    /\ IF ui.ph = "boot" /\ seq = ui.bootSeq /\ ~ui.sawMark
       THEN /\ ui' = [ui EXCEPT !.ph = "raw"]
            /\ stream' = [stream EXCEPT !.hand = new, !.hands = new]
            /\ raw' = raw \cup {new}
            /\ loop' = [loop EXCEPT !.execs = @ \cup {new}]
            /\ size' = "full"
       ELSE UNCHANGED <<ui, stream, raw, loop, size>>
    /\ UNCHANGED <<env, over, ended, told>>

\* endMsg: the session ended or was detached from. A block still open is closed.
EndMsg ==
    /\ Loop /\ over # "no"
    /\ ui' = [Close(ui) EXCEPT !.quitting = TRUE]
    /\ IF over = "exit" THEN Tell(ui) ELSE UNCHANGED told
    /\ UNCHANGED <<env, over, stream, ended, raw, loop, timers, size>>

(***************************************************************************)
(* The keys.                                                               *)
(***************************************************************************)
\* At most MaxLines lines are typed.
Another == used.lines < MaxLines /\ used' = [used EXCEPT !.lines = @ + 1]

\* submit.
Submit ==
    /\ Loop /\ over = "no" /\ ui.ph = "idle" /\ Another
    /\ ui' = [ui EXCEPT !.ph = "sent", !.sentSeq = @ + 1]
    /\ timers' = [timers EXCEPT !.sent = @ \cup {ui'.sentSeq}]
    /\ Type("line")
    /\ UNCHANGED <<cur, out, ran, over, stream, ended, raw, loop, size, told>>

\* ctrl+d on an empty line, and /exit: no timer is set.
ExitShell ==
    /\ Loop /\ over = "no" /\ ui.ph = "idle" /\ Another
    /\ ui' = [ui EXCEPT !.ph = "sent", !.sentSeq = @ + 1]
    /\ Type("exit")
    /\ UNCHANGED <<cur, out, ran, over, stream, ended, raw, loop, timers, size, told>>

\* /use: asked of the daemon on a connection of its own.
SlashUse(m) ==
    /\ Loop /\ over = "no" /\ ui.ph = "idle" /\ ui.use = None /\ m # cur
    /\ used.moves < MaxMoves
    /\ ui' = [ui EXCEPT !.use = m]
    /\ UNCHANGED <<env, over, stream, ended, raw, loop, timers, size, told>>

\* A line typed while a command runs goes to it, or waits for the shell.
TypeAhead ==
    /\ Loop /\ over = "no" /\ ui.ph = "run" /\ ui.block # None
    /\ Another /\ Type("line")
    /\ UNCHANGED <<cur, out, ran, over, stream, ended, raw, prog>>

\* ctrl+\, which a handover watches for too.
Detach ==
    /\ ~ui.quitting /\ over = "no"
    /\ over' = "detach"
    /\ ended' = IF loop.running = None THEN ended ELSE ended \cup {loop.running}
    /\ UNCHANGED <<env, stream, raw, prog>>

Init ==
    /\ \E at \in {"new"} \cup (IF "reattach" \in FaultKinds THEN {"cmd", "full"} ELSE {}) :
          shell = [m \in Machines |->
                     [at |-> IF m = Primary THEN at ELSE "new", input |-> <<>>,
                      n |-> 0,
                      ring |-> IF m # Primary \/ at = "new" \/ "scrolled" \in FaultKinds THEN <<>>
                               ELSE <<[kind |-> "exec", of |-> 0]>>
                                    \o (IF at = "full" THEN <<E("on")>> ELSE <<>>)]]
    /\ cur = Primary /\ out = Shows(Primary, shell) /\ over = "no"
    /\ stream = [inCmd |-> FALSE, hand |-> None, post |-> None, hands |-> 0]
    /\ ended = {} /\ raw = {}
    /\ ui = [ph |-> "boot", block |-> None, backend |-> None, quiet |-> FALSE,
             sawMark |-> FALSE, sentSeq |-> 0, bootSeq |-> 0, use |-> None,
             quitting |-> FALSE]
    /\ loop = [running |-> None, execs |-> {}, dones |-> {}]
    /\ timers = [sent |-> {}, boot |-> {}]
    /\ size = "block" /\ ran = 0 /\ told = [n \in Lines |-> 0] 
    /\ used = [lines |-> 0, moves |-> 0, screens |-> 0]

\* What goes on by itself; the rest is the user's, or the programs'.
Progress ==
    \/ \E m \in Machines : ReadHooks(m) \/ ReadLine(m) \/ ReadExit(m) \/ Move(m)
    \/ Feed \/ EndOfOutput \/ TakePost \/ EndMsg
    \/ \E h \in Hands : RunHandover(h) \/ HandoverEnds(h) \/ HandDone(h)
    \/ \E q \in timers.sent : SentTimeout(q)
    \/ \E q \in timers.boot : BootTimeout(q)

Keys == Submit \/ ExitShell \/ TypeAhead \/ Detach \/ \E m \in Machines : SlashUse(m)

Next == Progress \/ Keys \/ Resized \/ \E m \in Machines : ProgramRuns(m)

Spec == Init /\ [][Next]_vars

\* Every goroutine goes on while it can, and every timer goes off.
Fairness == WF_vars(Progress)
FairSpec == Spec /\ Fairness

(***************************************************************************)
(* What is shown to hold.                                                  *)
(***************************************************************************)
Phases == {"boot", "idle", "sent", "run", "hand", "raw"}
Sizes == {"block", "full"}

TypeOK ==
    /\ cur \in Machines /\ over \in {"no", "exit", "detach"}
    /\ \A m \in Machines :
          /\ shell[m].at \in {"new", "prompt", "cmd", "full"}
          /\ shell[m].n \in Lines /\ Len(shell[m].ring) <= RingSize
          /\ \A i \in DOMAIN shell[m].input : shell[m].input[i] \in {"line", "exit", "hooks"}
    /\ stream.hand \in Hands \cup {None} /\ stream.inCmd \in BOOLEAN
    /\ stream.hands \in {0} \cup Hands
    /\ ended \subseteq Hands /\ raw \subseteq Hands
    /\ ui.ph \in Phases /\ ui.block \in Lines \cup {None}
    /\ ui.backend \in Machines \cup {None} /\ ui.use \in Machines \cup {None}
    /\ loop.running \in Hands \cup {None}
    /\ loop.execs \subseteq Hands /\ loop.dones \subseteq Hands
    /\ size \in Sizes /\ ran \in Lines

\* Keys have somewhere to go: where the program takes them to be a running
\* command's, there is a block whose terminal passes them on, although the
\* command may end between a handover's start, its end and the word of either
\* (shell.go's key and handDoneMsg).
KeysHaveAReader == ui.ph \in {"run", "hand"} => ui.block # None

\* The terminal is a full-screen program's as long as it has the screen, and
\* nobody's after: once all output is read, no handover is under way unless the
\* shell shown is in the alternate screen, and one is if it is, in a shell that
\* was watched from the start (stream.feed).
Given == stream.hand # None /\ stream.hand \notin ended \cup raw
TerminalIsTheProgramsOwn ==
    (out = <<>> /\ over = "no") =>
        /\ Given => shell[cur].at = "full"
        /\ (shell[cur].at = "full" /\ used.moves = 0) => Given

\* A full-screen program has the terminal until it leaves, also one that was
\* running when the interface came to its shell.
FullScreenHasTheTerminal ==
    (out = <<>> /\ over = "no" /\ raw = {} /\ shell[cur].at = "full") => Given

\* A program is laid out for where it is drawn: in a handover it was told the
\* whole window, and once the terminal is back, the block's size (handover.Run,
\* handDoneMsg).
LaidOutWhereDrawn ==
    IF loop.running # None THEN size = "full"
    ELSE (loop.execs = {} /\ loop.dones = {} /\ ui.ph # "raw") => size = "block"

\* Scrollback shown again is not printed again: the end of a command is printed
\* at most once however often the session moves (shell.go's quiet).
EndIsToldOnce == \A n \in 1 .. MaxLines : told[n] <= 1

\* The interface comes back: with the shell at its prompt for good, it ends up at
\* its own prompt, or is the shell's, raw (shell.go's phases).
ComesBack ==
    <>[](shell[cur].at \in {"new", "prompt"})
        => <>[](ui.ph \in {"idle", "raw"} \/ over # "no")

\* However the session ends, and whoever has the terminal, the interface quits
\* (endMsg, and stream.run's end).
LeavesWithTheSession == <>[](over # "no" => ui.quitting)

\* A block that runs is a command that runs: once all is read and every timer has
\* gone off (phRun: "a command is running: keys go to it").
RunningIsACommand ==
    (/\ out = <<>> /\ stream.post = None /\ over = "no" /\ shell[cur].input = <<>>
     /\ timers.sent = {} /\ ui.ph = "run" /\ loop.execs = {} /\ loop.dones = {})
        => shell[cur].at \in {"cmd", "full"}

\* The hooks are typed at a shell, never at what runs in it.
HooksMeetAShell ==
    \A m \in Machines : shell[m].at \in {"cmd", "full"} =>
        \A i \in DOMAIN shell[m].input : shell[m].input[i] # "hooks"
================================================================================
