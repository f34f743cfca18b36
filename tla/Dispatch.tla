------------------------------- MODULE Dispatch -------------------------------
(***************************************************************************)
(* A command from the shell that names it to the exit code it gets back,   *)
(* and the record the daemon keeps of it (cmd/vpsh, sendDispatch,          *)
(* ctlConn.runDispatch, podState.dispatch, remote.Host.Run, toolbin.go and *)
(* tracker.go). A process of the pod may report a line as vpsh, run it, and*)
(* become the vp that dispatches its last command: one pid, two records.   *)
(***************************************************************************)
EXTENDS Naturals, FiniteSets

CONSTANTS
    Pids,        \* processes of the pod
    HostCallers, \* those that are not in the pod: vp on the machine itself
    FaultKinds,  \* "kill": a caller may be killed; "slow": the daemon may not
                 \* answer vpsh in its second; "link": the connection may drop;
                 \* "own127", "own255": a command may end with that code itself
    None

VARIABLES
    proc,    \* what each process is
    answer,  \* what its vp was answered
    sig,     \* where its Ctrl-C is
    ask,     \* where the daemon is with each record's request
    tracked, \* remoteExec of each connection
    execs,   \* s.execs: the record at each pid
    ended,   \* records whose End is set
    retired, \* how often each entered s.history
    told,    \* how often its exit was published
    tick,    \* what watchExits found and has not told
    remote,  \* the command on the other machine
    try,     \* which attempt it is
    ran,     \* how often the program ran
    result   \* what host.Run returned

caller == <<proc, answer, sig>>
tracker == <<execs, ended, retired, told, tick>>
far == <<remote, try, ran, result>>
vars == <<caller, ask, tracked, tracker, far>>

Records == Pids \X {"line", "sent"}
Line(p) == <<p, "line">>
Sent(p) == <<p, "sent">>

Alive(p) == proc[p] \in {"vpsh", "shell", "vp"}

-----------------------------------------------------------------------------
(* vpsh and vp                                                             *)

\* A shell starts as vpsh, which reports the line; vp may be started by itself.
Start(p) ==
    /\ proc[p] = "none"
    /\ \/ /\ p \notin HostCallers
          /\ proc' = [proc EXCEPT ![p] = "vpsh"] /\ ask' = [ask EXCEPT ![Line(p)] = "sent"]
       \/ proc' = [proc EXCEPT ![p] = "vp"] /\ ask' = [ask EXCEPT ![Sent(p)] = "sent"]
    /\ UNCHANGED <<answer, sig, tracked, tracker, far>>

\* "It waits for the acknowledgement, briefly."
Run(p) ==
    /\ proc[p] = "vpsh" /\ (ask[Line(p)] = "done" \/ "slow" \in FaultKinds)
    /\ proc' = [proc EXCEPT ![p] = "shell"]
    /\ UNCHANGED <<answer, sig, ask, tracked, tracker, far>>

\* A shell execs the last command of its line in place.
ExecVp(p) ==
    /\ proc[p] = "shell"
    /\ proc' = [proc EXCEPT ![p] = "vp"] /\ ask' = [ask EXCEPT ![Sent(p)] = "sent"]
    /\ UNCHANGED <<answer, sig, tracked, tracker, far>>

Exit(p) ==
    /\ proc[p] = "shell" \/ (proc[p] = "vp" /\ answer[p] # None)
    /\ proc' = [proc EXCEPT ![p] = "dead"]
    /\ UNCHANGED <<answer, sig, ask, tracked, tracker, far>>

Kill(p) ==
    /\ "kill" \in FaultKinds /\ Alive(p)
    /\ proc' = [proc EXCEPT ![p] = "dead"]
    /\ UNCHANGED <<answer, sig, ask, tracked, tracker, far>>

Interrupt(p) ==
    /\ proc[p] = "vp" /\ answer[p] = None /\ sig[p] = "none"
    /\ sig' = [sig EXCEPT ![p] = "sent"]
    /\ UNCHANGED <<proc, answer, ask, tracked, tracker, far>>

-----------------------------------------------------------------------------
(* tracker.go                                                              *)

Retire(rs) == retired' = [r \in Records |-> retired[r] + IF r \in rs THEN 1 ELSE 0]
Tell(rs) == told' = [r \in Records |-> told[r] + IF r \in rs THEN 1 ELSE 0]

Running(p) == {r \in Records : execs[p] = r /\ r \notin ended}

\* Mutant: what the pid was running is overwritten.
RecordOver(r) ==
    /\ execs' = IF r[1] \in HostCallers THEN execs ELSE [execs EXCEPT ![r[1]] = r]
    /\ UNCHANGED <<ended, retired, told>>

\* A record on a pid that is tracked ends what it was running. A caller outside
\* of the pod has pid 0 and is not listed.
RecordExec(r) ==
    LET p == r[1]  old == Running(p) IN
    IF p \in HostCallers THEN UNCHANGED <<execs, ended, retired, told>>
    ELSE /\ execs' = [execs EXCEPT ![p] = r]
         /\ ended' = ended \cup old /\ Retire(old) /\ Tell(old)

\* Mutant: left to watchExits to end.
FinishUnmarked(r) == Retire({r}) /\ Tell({r}) /\ UNCHANGED <<execs, ended>>

\* The record of the pid is dropped, whichever it is.
FinishExec(r) ==
    /\ ended' = ended \cup {r}
    /\ execs' = IF r[1] \in HostCallers THEN execs ELSE [execs EXCEPT ![r[1]] = None]
    /\ Retire({r}) /\ Tell({r})

Gone == {r \in Records : execs[r[1]] = r /\ r \notin ended /\ ~Alive(r[1])}

\* watchExits: under the lock it collects, outside of it it tells.
Watch ==
    /\ tick = {} /\ Gone # {} /\ tick' = Gone
    /\ ended' = ended \cup Gone /\ Retire(Gone)
    /\ execs' = [p \in Pids |-> IF \E r \in Gone : r[1] = p THEN None ELSE execs[p]]
    /\ UNCHANGED <<told, caller, ask, tracked, far>>

WatchTells ==
    /\ tick # {} /\ tick' = {} /\ Tell(tick)
    /\ UNCHANGED <<execs, ended, retired, caller, ask, tracked, far>>

-----------------------------------------------------------------------------
(* The daemon                                                              *)

\* recordShellCommand
RecordLine(p) ==
    /\ ask[Line(p)] = "sent" /\ ask' = [ask EXCEPT ![Line(p)] = "done"]
    /\ RecordExec(Line(p))
    /\ UNCHANGED <<tick, caller, tracked, far>>

Answer(p, what) == answer' = [answer EXCEPT ![p] = IF proc[p] = "vp" THEN what ELSE @]

\* runDispatch and dispatch up to the record: no such machine, no pod there, a
\* directory that is not in it yet.
Refuse(p) ==
    /\ ask[Sent(p)] = "sent" /\ ask' = [ask EXCEPT ![Sent(p)] = "done"]
    /\ Answer(p, "unavailable")
    /\ UNCHANGED <<proc, sig, tracked, tracker, far>>

Record(p) ==
    /\ ask[Sent(p)] = "sent" /\ ask' = [ask EXCEPT ![Sent(p)] = "recorded"]
    /\ RecordExec(Sent(p))
    /\ UNCHANGED <<tick, caller, tracked, far>>

\* Mutant: a Ctrl-C can only follow what has started.
TrackLate(p) == tracked' = tracked

\* onStart
Track(p) == tracked' = [tracked EXCEPT ![p] = TRUE]

\* onStart, and then host.Run
Begin(p) ==
    /\ ask[Sent(p)] = "recorded" /\ ask' = [ask EXCEPT ![Sent(p)] = "running"]
    /\ Track(p)
    /\ remote' = [remote EXCEPT ![p] = "starting"] /\ try' = [try EXCEPT ![p] = 1]
    /\ UNCHANGED <<caller, tracker, ran, result>>

\* finishExec, the caches, and the answer. An error, and ssh's own 255 counts as
\* one, is told apart from what a command returns.
Finish(p) ==
    /\ ask[Sent(p)] = "running" /\ result[p] # None
    /\ result[p] = "notfound" => try[p] = 2
    /\ result[p] = "own127" => try[p] = 2
    /\ ask' = [ask EXCEPT ![Sent(p)] = "done"]
    /\ tracked' = [tracked EXCEPT ![p] = FALSE]
    /\ FinishExec(Sent(p))
    /\ Answer(p, IF result[p] \in {"link", "own255"} THEN "unavailable" ELSE result[p])
    /\ UNCHANGED <<tick, proc, sig, far>>

\* "127 from the remote script means its final exec found no such program."
Again(p) == result[p] \in {"notfound", "own127"}

\* supplyTool copied the program: it is run once more.
Retry(p) ==
    /\ ask[Sent(p)] = "running" /\ try[p] = 1 /\ Again(p)
    /\ try' = [try EXCEPT ![p] = 2] /\ result' = [result EXCEPT ![p] = None]
    /\ remote' = [remote EXCEPT ![p] = "starting"]
    /\ UNCHANGED <<caller, ask, tracked, tracker, ran>>

\* It could not, or may not: the code stands.
NoRetry(p) ==
    /\ ask[Sent(p)] = "running" /\ try[p] = 1 /\ Again(p)
    /\ try' = [try EXCEPT ![p] = 2]
    /\ UNCHANGED <<caller, ask, tracked, tracker, remote, ran, result>>

\* The signal is read and sent over a second channel, to the pid in the file.
\* Before there is one, and after, nobody hears it.
ForwardSignal(p) ==
    /\ sig[p] = "sent"
    /\ sig' = [sig EXCEPT ![p] = IF tracked[p] /\ remote[p] = "up" THEN "heard" ELSE "lost"]
    /\ UNCHANGED <<proc, answer, ask, tracked, tracker, far>>

-----------------------------------------------------------------------------
(* The script of Host.Run on the other machine                             *)

\* It writes the pid down and becomes the program, if there is one.
Launch(p) ==
    /\ remote[p] = "starting"
    /\ \/ /\ remote' = [remote EXCEPT ![p] = "up"] /\ ran' = [ran EXCEPT ![p] = @ + 1]
          /\ UNCHANGED result
       \/ /\ remote' = [remote EXCEPT ![p] = "over"] /\ result' = [result EXCEPT ![p] = "notfound"]
          /\ UNCHANGED ran
    /\ UNCHANGED <<caller, ask, tracked, tracker, try>>

End(p) ==
    /\ remote[p] = "up"
    /\ \E c \in {"ok", "failed"} \cup ({"own127", "own255"} \cap FaultKinds) :
           result' = [result EXCEPT ![p] = IF @ = None THEN c ELSE @]
    /\ remote' = [remote EXCEPT ![p] = "over"]
    /\ UNCHANGED <<caller, ask, tracked, tracker, try, ran>>

\* ssh ends with 255; what it started may go on.
LinkDrops(p) ==
    /\ "link" \in FaultKinds /\ remote[p] \in {"starting", "up"} /\ result[p] = None
    /\ result' = [result EXCEPT ![p] = "link"]
    /\ remote' = [remote EXCEPT ![p] = IF @ = "starting" THEN "over" ELSE @]
    /\ UNCHANGED <<caller, ask, tracked, tracker, try, ran>>

-----------------------------------------------------------------------------
Init ==
    /\ proc = [p \in Pids |-> "none"] /\ answer = [p \in Pids |-> None]
    /\ sig = [p \in Pids |-> "none"]
    /\ ask = [r \in Records |-> "none"] /\ tracked = [p \in Pids |-> FALSE]
    /\ execs = [p \in Pids |-> None] /\ ended = {} /\ tick = {}
    /\ retired = [r \in Records |-> 0] /\ told = [r \in Records |-> 0]
    /\ remote = [p \in Pids |-> "none"] /\ try = [p \in Pids |-> 0]
    /\ ran = [p \in Pids |-> 0] /\ result = [p \in Pids |-> None]

Caller(p) == Start(p) \/ Run(p) \/ ExecVp(p) \/ Exit(p) \/ Kill(p) \/ Interrupt(p)

Daemon(p) ==
    \/ RecordLine(p) \/ Refuse(p) \/ Record(p) \/ Begin(p)
    \/ Finish(p) \/ Retry(p) \/ NoRetry(p)

Machine(p) == Launch(p) \/ End(p) \/ LinkDrops(p)

Next ==
    \/ \E p \in Pids : Caller(p) \/ Daemon(p) \/ ForwardSignal(p) \/ Machine(p)
    \/ Watch \/ WatchTells

Spec == Init /\ [][Next]_vars

\* The daemon's goroutines run on and the exits are watched; a vp that has its
\* answer ends; nothing is assumed of the commands.
Fairness ==
    /\ \A p \in Pids :
        /\ WF_vars(Daemon(p)) /\ WF_vars(ForwardSignal(p))
        /\ WF_vars(answer[p] # None /\ Exit(p))
    /\ WF_vars(Watch) /\ WF_vars(WatchTells)

FairSpec == Spec /\ Fairness

-----------------------------------------------------------------------------
TypeOK ==
    /\ \A p \in Pids :
        /\ proc[p] \in {"none", "vpsh", "shell", "vp", "dead"}
        /\ answer[p] \in {None, "unavailable", "notfound", "own127", "ok", "failed"}
        /\ sig[p] \in {"none", "sent", "heard", "lost"}
        /\ tracked[p] \in BOOLEAN /\ execs[p] \in {None, Line(p), Sent(p)}
        /\ remote[p] \in {"none", "starting", "up", "over"} /\ try[p] \in 0..2
    /\ \A r \in Records : ask[r] \in {"none", "sent", "recorded", "running", "done"}
    /\ ended \subseteq Records /\ tick \subseteq ended

\* "Why vibepod can answer what is running, and where" (tracker.go:12): a command
\* that runs on another machine for a caller that waits is listed, and has not
\* been told as ended, though its pid was another command's before.
RunningIsShown ==
    \A p \in Pids : remote[p] = "up" /\ result[p] = None /\ Alive(p) =>
        execs[p] = Sent(p) /\ Sent(p) \notin ended

\* An exit is told twice only of a command whose caller did not live to be
\* answered (tracker.go:98, 130).
ToldOnce ==
    \A p \in Pids :
        /\ told[Line(p)] <= 1 /\ retired[Line(p)] <= 1
        /\ told[Sent(p)] > 1 \/ retired[Sent(p)] > 1 => proc[p] = "dead" /\ answer[p] = None

\* The end of every recorded command is told in the end: of a line when its
\* process is gone or runs another, of a dispatch when it has returned.
EveryEndIsTold ==
    <>[](\A p \in Pids :
        /\ ask[Line(p)] = "done" /\ proc[p] = "dead" => told[Line(p)] > 0
        /\ result[p] # None =>
              told[Sent(p)] > 0 /\ (answer[p] # None \/ proc[p] = "dead"))

\* "A dispatched make deploy that already partially executed must not be re-run
\* behind the agent's back" (DESIGN.md:836).
NothingRunsTwice == \A p \in Pids : ran[p] <= 1

\* A Ctrl-C sent when the command has its pid file reaches it, unless it or the
\* link ended first (daemon.go:391, exec.go:123).
InterruptIsHeard ==
    \A p \in Pids : sig[p] = "sent" /\ remote[p] = "up" /\ result[p] = None ~>
        sig[p] = "heard" \/ remote[p] = "over" \/ result[p] # None

\* "Distinguish the link broke from the command failed": a caller that is told
\* its command was unavailable had none that ended by itself (exec.go:110).
UnavailableIsNotAResult ==
    \A p \in Pids : answer[p] = "unavailable" => result[p] \in {None, "link"}
=============================================================================
