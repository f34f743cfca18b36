-------------------------------- MODULE Cockpit --------------------------------
(***************************************************************************)
(* The cockpit (internal/ui/cockpit.go, cmd/vibepod/cockpit.go): panes of  *)
(* what the daemon last said there is, and a log of the pod's commands.    *)
(* What is shown was asked for some time ago, by a load that runs beside   *)
(* the others and answers when it likes; a key acts on what is selected in *)
(* it, by position.                                                        *)
(***************************************************************************)
EXTENDS Integers, Sequences, FiniteSets

CONSTANTS
    Sessions,    \* the ids of the sessions there may be, in their order
    Cmds,        \* the commands that run in the pod, each with a pid of its own
    What,        \* What[c]: the line of command c; two may be the same
    MaxLoads,    \* how many loads are under way at once
    MaxMoves,    \* how often a session is moved
    None

VARIABLES
    live,        \* the sessions there are; over: those that ended
    over,
    runs,        \* per command: "new", "running" or "ended"
    events,      \* what the followed stream still has to deliver
    ui,          \* st.Sessions, selSess, asking
    loads,       \* the answers of the loads under way
    attached,    \* the session that has the terminal
    activity,    \* the log pane's lines
    moves        \* the moves made: the session, and the one that was asked about

vars == <<live, over, runs, events, ui, loads, attached, activity, moves>>

\* The daemon lists sessions by their id.
Listed(s) == CHOOSE q \in [1 .. Cardinality(s) -> s] :
                \A i, j \in DOMAIN q : i < j => q[i] < q[j]

\* clamp, of a position among n; positions start at 1 and 0 is the empty list's.
Clamp(i, n) == IF n = 0 THEN 0 ELSE IF i < 1 THEN 1 ELSE IF i > n THEN n ELSE i

Selected == IF ui.sel \in DOMAIN ui.sessions THEN ui.sessions[ui.sel] ELSE None

(***************************************************************************)
(* The pod.                                                                *)
(***************************************************************************)
Open(s) ==
    /\ s \notin live \cup over /\ live' = live \cup {s}
    /\ UNCHANGED <<over, runs, events, ui, loads, attached, activity, moves>>

End(s) ==
    /\ s \in live /\ live' = live \ {s} /\ over' = over \cup {s}
    /\ UNCHANGED <<runs, events, ui, loads, attached, activity, moves>>

Run(c) ==
    /\ runs[c] = "new" /\ runs' = [runs EXCEPT ![c] = "running"]
    /\ events' = Append(events, [cmd |-> c, running |-> TRUE])
    /\ UNCHANGED <<live, over, ui, loads, attached, activity, moves>>

Exit(c) ==
    /\ runs[c] = "running" /\ runs' = [runs EXCEPT ![c] = "ended"]
    /\ events' = Append(events, [cmd |-> c, running |-> FALSE])
    /\ UNCHANGED <<live, over, ui, loads, attached, activity, moves>>

(***************************************************************************)
(* What is shown. A load is started every second, by r, and after whatever *)
(* was done; it asks the daemon and its answer comes later.                *)
(***************************************************************************)
Load == Cardinality(loads) < MaxLoads /\ loads' = loads \cup {Listed(live)}

LoadIfRoom == Load \/ (Cardinality(loads) >= MaxLoads /\ UNCHANGED loads)

Refresh ==
    /\ attached = None /\ Load
    /\ UNCHANGED <<live, over, runs, events, ui, attached, activity, moves>>

\* Mutant: no sessions are taken for no answer.
StateKept(l) == IF l = <<>> THEN ui.sessions ELSE l
State(l) == l

\* stateMsg
TakeState(l) ==
    /\ attached = None /\ l \in loads /\ loads' = loads \ {l}
    /\ ui' = [ui EXCEPT !.sessions = State(l), !.sel = Clamp(@, Len(State(l)))]
    /\ UNCHANGED <<live, over, runs, events, attached, activity, moves>>

(***************************************************************************)
(* The log pane. An exit takes the place of a running line of its machine: *)
(* the one of its pid, or else the newest of the same command line.        *)
(***************************************************************************)
Running(c) == {i \in DOMAIN activity : activity[i].running /\ activity[i].cmd = c}
Alike(c) == {i \in DOMAIN activity : activity[i].running /\ What[activity[i].cmd] = What[c]}
Newest(I) == CHOOSE i \in I : \A j \in I : j <= i

Match(c) == IF Running(c) # {} THEN Newest(Running(c))
            ELSE IF Alike(c) # {} THEN Newest(Alike(c)) ELSE 0

\* activityMsg
Add ==
    LET e == Head(events)
        at == IF e.running THEN 0 ELSE Match(e.cmd)
    IN
    /\ attached = None /\ events # <<>> /\ events' = Tail(events)
    /\ activity' = IF at = 0 THEN Append(activity, e) ELSE [activity EXCEPT ![at] = e]
    /\ UNCHANGED <<live, over, runs, ui, loads, attached, moves>>

(***************************************************************************)
(* The keys. The program runs none while a session has the terminal.       *)
(***************************************************************************)
MoveSelection(d) ==
    /\ attached = None /\ ui.asking = None
    /\ ui' = [ui EXCEPT !.sel = Clamp(@ + d, Len(ui.sessions))]
    /\ UNCHANGED <<live, over, runs, events, loads, attached, activity, moves>>

\* b: "backend for this session", and until it is answered keys go to the answer.
AskBackend ==
    /\ attached = None /\ ui.asking = None /\ Selected # None
    /\ ui' = [ui EXCEPT !.asking = Selected]
    /\ UNCHANGED <<live, over, runs, events, loads, attached, activity, moves>>

Cancel ==
    /\ attached = None /\ ui.asking # None
    /\ ui' = [ui EXCEPT !.asking = None]
    /\ UNCHANGED <<live, over, runs, events, loads, attached, activity, moves>>

\* setBackend: the session is the one selected now. The move is asked of the
\* daemon, which refuses one that has ended; the answer brings a load.
Answer ==
    /\ attached = None /\ ui.asking # None
    /\ Cardinality(moves) < MaxMoves
    /\ ui' = [ui EXCEPT !.asking = None]
    /\ IF Selected # None /\ Selected \in live
       THEN moves' = moves \cup {[moved |-> Selected, asked |-> ui.asking]}
       ELSE UNCHANGED moves
    /\ IF Selected = None THEN UNCHANGED loads ELSE LoadIfRoom
    /\ UNCHANGED <<live, over, runs, events, attached, activity>>

\* enter: `vp attach` has the terminal, until it is detached from or ends.
Attach ==
    /\ attached = None /\ ui.asking = None /\ Selected # None
    /\ attached' = Selected
    /\ UNCHANGED <<live, over, runs, events, ui, loads, activity, moves>>

\* afterAttach: the daemon says how the session was left, and a load follows.
AttachEnds ==
    /\ attached # None /\ attached' = None
    /\ LoadIfRoom
    /\ UNCHANGED <<live, over, runs, events, ui, activity, moves>>

Init ==
    /\ live = {} /\ over = {}
    /\ runs = [c \in Cmds |-> "new"] /\ events = <<>>
    /\ ui = [sessions |-> <<>>, sel |-> 0, asking |-> None]
    /\ loads = {Listed(live)} /\ attached = None
    /\ activity = <<>> /\ moves = {}

Next ==
    \/ \E s \in Sessions : Open(s) \/ End(s)
    \/ \E c \in Cmds : Run(c) \/ Exit(c)
    \/ Refresh \/ \E l \in loads : TakeState(l)
    \/ Add
    \/ MoveSelection(1) \/ MoveSelection(-1)
    \/ AskBackend \/ Cancel \/ Answer \/ Attach \/ AttachEnds

Spec == Init /\ [][Next]_vars

\* Loads are started and answered, however often a session has the terminal in
\* between, and whoever is attached to one leaves it.
Fairness ==
    /\ SF_vars(Refresh \/ \E l \in loads : TakeState(l))
    /\ WF_vars(AttachEnds)
FairSpec == Spec /\ Fairness

(***************************************************************************)
(* What is shown to hold.                                                  *)
(***************************************************************************)
TypeOK ==
    /\ live \subseteq Sessions /\ over \subseteq Sessions
    /\ runs \in [Cmds -> {"new", "running", "ended"}]
    /\ ui.sessions \in {Listed(S) : S \in SUBSET Sessions} /\ ui.asking \in Sessions \cup {None}
    /\ ui.sel \in 0 .. Len(ui.sessions) /\ (ui.sel = 0 <=> ui.sessions = <<>>)
    /\ loads \subseteq {Listed(S) : S \in SUBSET Sessions}
    /\ attached \in Sessions \cup {None}
    /\ \A i \in DOMAIN activity : activity[i].cmd \in Cmds /\ activity[i].running \in BOOLEAN

\* Answers may come late and out of their order, and still the pane ends up with
\* the sessions there are (cockpit.go's stateMsg, refreshTick).
ShowsWhatThereIs == <>[](ui.sessions = Listed(live))

\* Each command has one line, the running one replaced by its exit's and never by
\* another's, the same line run twice at once included (cockpit.add: "a finished
\* command replaces its own running line rather than adding a second one").
EachHasItsLine ==
    events = <<>> => \A c \in Cmds :
        Cardinality({i \in DOMAIN activity :
                        activity[i] = [cmd |-> c, running |-> runs[c] = "running"]})
            = IF runs[c] = "new" THEN 0 ELSE 1

\* The session that is moved is the one the question was about (cockpit.key:
\* "backend for this session").
MovesTheOneAsked == \A m \in moves : m.moved = m.asked
================================================================================
