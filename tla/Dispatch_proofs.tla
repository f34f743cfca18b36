---------------------------- MODULE Dispatch_proofs ----------------------------
(***************************************************************************)
(* Commands on their way to a machine, the daemon's record of them, and    *)
(* the directories they have there, for any number of processes.           *)
(*                                                                         *)
(* That nothing runs twice is about the attempts alone (Inv). What is      *)
(* listed and told is about the order in which a pid's two records come:   *)
(* a line is entered before its process becomes the vp of its last command *)
(* (InTurn), as long as vpsh waits for the daemon (Waits).                 *)
(*                                                                         *)
(* A synced directory (Sync), for any files, commands and edits, as long   *)
(* as no file changes while it is being synced (Calm): a sync brings       *)
(* everything over, what was deleted on the machine does not come back,    *)
(* and what one side changed is not lost to a deletion on the other. The   *)
(* last is about a single command at a time and no failures (~met). Then a *)
(* push finds nothing on the machine that the copy has not had, and a pull *)
(* deletes nothing that changed here since the push before it: that is     *)
(* what Seen and SyncSent say, of the times between two syncs.             *)
(***************************************************************************)
EXTENDS Dispatch, TLAPS

CONSTANTS Files, Commands, Closer, Starter, MaxEdits, SyncFaults         \* Sync

VARIABLES clock, here, there, manifest, last, sync, at, both, removed, met

SY == INSTANCE Sync WITH FaultKinds <- SyncFaults

-------------------------------------------------------------------------------
(* The commands.                                                             *)

Results == {"link", "notfound", "own127", "own255", "ok", "failed"}

\* `None` is no record and no result.
Distinct == None \notin Records \cup Results \cup {"unavailable"}

\* vpsh waits until its line is recorded, and everybody is in the pod.
Waits == "slow" \notin FaultKinds /\ HostCallers \cap Pids = {}

Types ==
    /\ proc \in [Pids -> {"none", "vpsh", "shell", "vp", "dead"}]
    /\ answer \in [Pids -> {None, "unavailable", "notfound", "own127", "ok", "failed"}]
    /\ sig \in [Pids -> {"none", "sent", "heard", "lost"}]
    /\ ask \in [Records -> {"none", "sent", "recorded", "running", "done"}]
    /\ tracked \in [Pids -> BOOLEAN]
    /\ execs \in [Pids -> Records \cup {None}]
    /\ ended \subseteq Records /\ tick \subseteq ended
    /\ retired \in [Records -> Nat] /\ told \in [Records -> Nat]
    /\ remote \in [Pids -> {"none", "starting", "up", "over"}]
    /\ try \in [Pids -> 0 .. 2] /\ ran \in [Pids -> Nat]
    /\ result \in [Pids -> {None} \cup Results]

\* What its process is, and where its request is.
Asked(p) ==
    /\ ask[Sent(p)] # "none" => proc[p] \in {"vp", "dead"}
    /\ proc[p] = "vp" => ask[Sent(p)] # "none"
    /\ proc[p] = "none" => ask[Line(p)] = "none"
    /\ answer[p] # None => ask[Sent(p)] = "done"
    /\ proc[p] = "vp" /\ answer[p] = None => ask[Sent(p)] # "done"

\* There is something on the other machine when the request has come that far, and
\* a result when it is done.
Far(p) ==
    /\ remote[p] = "none" => result[p] = None /\ ran[p] = 0
    /\ ask[Sent(p)] \in {"none", "sent", "recorded"} => remote[p] = "none"
    /\ ask[Sent(p)] = "running" => remote[p] # "none"
    /\ remote[p] # "none" /\ result[p] = None => ask[Sent(p)] = "running"
    /\ remote[p] = "starting" => result[p] = None

\* What is to be launched has not run, and neither has a program that was not there.
Once(p) ==
    "own127" \notin FaultKinds =>
        /\ ran[p] <= 1
        /\ remote[p] = "starting" => ran[p] = 0
        /\ result[p] = "notfound" => ran[p] = 0 /\ remote[p] = "over"
        /\ result[p] # "own127"

Inv == Types /\ \A p \in Pids : Asked(p) /\ Far(p) /\ Once(p)

-----------------------------------------------------------------------------
\* A process has two records, and shares none of them.
LEMMA OwnRecords ==
    /\ \A p \in Pids : /\ Line(p) \in Records /\ Sent(p) \in Records
                       /\ Line(p)[1] = p /\ Sent(p)[1] = p
    /\ \A p, q : /\ Line(p) # Sent(q)
                 /\ Line(p) = Line(q) => p = q
                 /\ Sent(p) = Sent(q) => p = q
    /\ \A r \in Records : r[1] \in Pids /\ r \in {Line(r[1]), Sent(r[1])}
BY DEF Records, Line, Sent

\* The counters that Retire and Tell leave.
LEMMA Counts ==
    ASSUME Types, NEW rs
    PROVE  /\ Retire(rs) => /\ retired' \in [Records -> Nat]
                            /\ \A r \in Records :
                                  retired'[r] = retired[r] + IF r \in rs THEN 1 ELSE 0
           /\ Tell(rs) => /\ told' \in [Records -> Nat]
                          /\ \A r \in Records :
                                told'[r] = told[r] + IF r \in rs THEN 1 ELSE 0
BY DEF Types, Retire, Tell

\* A record that is entered, and what its pid was running is over.
LEMMA Entered ==
    ASSUME Types, NEW r \in Records, RecordExec(r)
    PROVE  /\ execs' \in [Pids -> Records \cup {None}]
           /\ ended' \subseteq Records /\ ended \subseteq ended'
           /\ retired' \in [Records -> Nat] /\ told' \in [Records -> Nat]
<1>1. r[1] \in Pids
    BY OwnRecords
<1>2. CASE r[1] \in HostCallers
    BY <1>2 DEF RecordExec, Types
<1>3. CASE r[1] \notin HostCallers
  <2>1. /\ execs' = [execs EXCEPT ![r[1]] = r]
        /\ ended' = ended \cup Running(r[1])
        /\ Retire(Running(r[1])) /\ Tell(Running(r[1]))
      BY <1>3 DEF RecordExec
  <2>2. retired' \in [Records -> Nat] /\ told' \in [Records -> Nat]
      BY <2>1, Counts
  <2>3. Running(r[1]) \subseteq Records
      BY DEF Running
  <2> QED
      BY <1>1, <2>1, <2>2, <2>3 DEF Types
<1> QED
    BY <1>2, <1>3

\* One that is finished.
LEMMA Finished ==
    ASSUME Types, NEW r \in Records, FinishExec(r)
    PROVE  /\ execs' \in [Pids -> Records \cup {None}]
           /\ ended' \subseteq Records /\ ended \subseteq ended'
           /\ retired' \in [Records -> Nat] /\ told' \in [Records -> Nat]
<1>1. retired' \in [Records -> Nat] /\ told' \in [Records -> Nat]
    BY Counts DEF FinishExec
<1> QED
    BY <1>1, OwnRecords DEF FinishExec, Types

\* An answer reaches a vp that is still there.
LEMMA Replied ==
    ASSUME Types, NEW p \in Pids,
           NEW what \in {"unavailable", "notfound", "own127", "ok", "failed"}, Answer(p, what)
    PROVE  /\ answer' \in [Pids -> {None, "unavailable", "notfound", "own127", "ok",
                                    "failed"}]
           /\ answer'[p] = IF proc[p] = "vp" THEN what ELSE answer[p]
           /\ \A q \in Pids \ {p} : answer'[q] = answer[q]
BY DEF Types, Answer

-----------------------------------------------------------------------------
(* Each step keeps the types, and says what it does to the process.        *)

\* What concerns the attempts of a process is as it was.
Still(p) ==
    /\ proc'[p] = proc[p] /\ answer'[p] = answer[p]
    /\ ask'[Line(p)] = ask[Line(p)] /\ ask'[Sent(p)] = ask[Sent(p)]
    /\ remote'[p] = remote[p] /\ ran'[p] = ran[p] /\ result'[p] = result[p]

LEMMA StillKeeps ==
    ASSUME NEW p \in Pids, Asked(p), Far(p), Once(p), Still(p)
    PROVE  Asked(p)' /\ Far(p)' /\ Once(p)'
BY DEF Still, Asked, Far, Once

\* The steps of a caller.
LEMMA InvCaller == ASSUME Distinct, Inv, NEW p \in Pids, Caller(p) PROVE Inv'
<1> USE DEF Inv
<1>1. UNCHANGED <<answer, tracked, tracker, far>>
    BY DEF Caller, Start, Run, ExecVp, Exit, Kill, Interrupt
<1>2. CASE UNCHANGED <<sig, ask>> /\ proc' = [proc EXCEPT ![p] = "shell"] /\ proc[p] = "vpsh"
  <2>1. Types'
      BY <1>1, <1>2 DEF Types, tracker, far
  <2>2. \A q \in Pids \ {p} : Still(q)
      BY <1>1, <1>2 DEF Types, Still, far
  <2>3. Asked(p)' /\ Far(p)' /\ Once(p)'
      BY <1>1, <1>2 DEF Types, Asked, Far, Once, far
  <2> QED
      BY <2>1, <2>2, <2>3, StillKeeps
<1>3. CASE UNCHANGED <<sig, ask>> /\ proc' = [proc EXCEPT ![p] = "dead"] /\ Alive(p)
  <2>1. Types'
      BY <1>1, <1>3 DEF Types, tracker, far
  <2>2. \A q \in Pids \ {p} : Still(q)
      BY <1>1, <1>3 DEF Types, Still, far
  <2>3. Asked(p)' /\ Far(p)' /\ Once(p)'
      BY <1>1, <1>3 DEF Types, Asked, Far, Once, far, Alive
  <2> QED
      BY <2>1, <2>2, <2>3, StillKeeps
<1>4. CASE UNCHANGED sig /\ proc[p] = "none" /\ proc' = [proc EXCEPT ![p] = "vpsh"]
           /\ ask' = [ask EXCEPT ![Line(p)] = "sent"]
  <2>1. Types'
      BY <1>1, <1>4, OwnRecords DEF Types, tracker, far
  <2>2. \A q \in Pids \ {p} : Still(q)
      BY <1>1, <1>4, OwnRecords DEF Types, Still, far
  <2>3. Asked(p)' /\ Far(p)' /\ Once(p)'
      BY <1>1, <1>4, OwnRecords DEF Types, Asked, Far, Once, far
  <2> QED
      BY <2>1, <2>2, <2>3, StillKeeps
<1>5. CASE UNCHANGED sig /\ proc[p] \in {"none", "shell"} /\ proc' = [proc EXCEPT ![p] = "vp"]
           /\ ask' = [ask EXCEPT ![Sent(p)] = "sent"]
  <2>1. Types'
      BY <1>1, <1>5, OwnRecords DEF Types, tracker, far
  <2>2. \A q \in Pids \ {p} : Still(q)
      BY <1>1, <1>5, OwnRecords DEF Types, Still, far
  <2>3. Asked(p)' /\ Far(p)' /\ Once(p)'
      BY <1>1, <1>5, OwnRecords DEF Types, Asked, Far, Once, far
  <2> QED
      BY <2>1, <2>2, <2>3, StillKeeps
<1>6. CASE UNCHANGED <<proc, ask>> /\ sig' = [sig EXCEPT ![p] = "sent"]
  <2>1. Types'
      BY <1>1, <1>6 DEF Types, tracker, far
  <2>2. \A q \in Pids : Still(q)
      BY <1>1, <1>6 DEF Still, far
  <2> QED
      BY <2>1, <2>2, StillKeeps
<1>7. CASE Start(p)
    BY <1>4, <1>5, <1>7 DEF Start
<1>8. CASE Run(p) \/ ExecVp(p) \/ Exit(p)
    BY <1>2, <1>3, <1>5, <1>8 DEF Run, ExecVp, Exit, Alive
<1>9. CASE Kill(p) \/ Interrupt(p)
    BY <1>3, <1>6, <1>9 DEF Kill, Interrupt
<1> QED
    BY <1>7, <1>8, <1>9 DEF Caller

\* The daemon's.
LEMMA InvDaemon == ASSUME Distinct, Inv, NEW p \in Pids, Daemon(p) PROVE Inv'
<1> USE DEF Inv
<1>1. CASE RecordLine(p)
  <2>1. /\ UNCHANGED <<tick, caller, tracked, far>>
        /\ ask' = [ask EXCEPT ![Line(p)] = "done"] /\ ask[Line(p)] = "sent"
        /\ RecordExec(Line(p))
      BY <1>1 DEF RecordLine
  <2>2. Types'
      BY <2>1, OwnRecords, Entered DEF Types, caller, far
  <2>3. \A q \in Pids \ {p} : Still(q)
      BY <2>1, OwnRecords DEF Types, Still, caller, far
  <2>4. Asked(p)' /\ Far(p)' /\ Once(p)'
      BY <2>1, OwnRecords DEF Types, Asked, Far, Once, caller, far
  <2> QED
      BY <2>2, <2>3, <2>4, StillKeeps
<1>2. CASE Refuse(p)
  <2>1. /\ UNCHANGED <<proc, sig, tracked, tracker, far>>
        /\ ask' = [ask EXCEPT ![Sent(p)] = "done"] /\ ask[Sent(p)] = "sent"
        /\ Answer(p, "unavailable")
      BY <1>2 DEF Refuse
  <2>2. Types'
      BY <2>1, OwnRecords, Replied DEF Types, tracker, far
  <2>3. \A q \in Pids \ {p} : Still(q)
      BY <2>1, OwnRecords, Replied DEF Types, Still, far
  <2>4. Asked(p)' /\ Far(p)' /\ Once(p)'
      BY <2>1, OwnRecords, Replied DEF Distinct, Types, Asked, Far, Once, far
  <2> QED
      BY <2>2, <2>3, <2>4, StillKeeps
<1>3. CASE Record(p)
  <2>1. /\ UNCHANGED <<tick, caller, tracked, far>>
        /\ ask' = [ask EXCEPT ![Sent(p)] = "recorded"] /\ ask[Sent(p)] = "sent"
        /\ RecordExec(Sent(p))
      BY <1>3 DEF Record
  <2>2. Types'
      BY <2>1, OwnRecords, Entered DEF Types, caller, far
  <2>3. \A q \in Pids \ {p} : Still(q)
      BY <2>1, OwnRecords DEF Types, Still, caller, far
  <2>4. Asked(p)' /\ Far(p)' /\ Once(p)'
      BY <2>1, OwnRecords DEF Types, Asked, Far, Once, caller, far
  <2> QED
      BY <2>2, <2>3, <2>4, StillKeeps
<1>4. CASE Begin(p)
  <2>1. /\ UNCHANGED <<caller, tracker, ran, result>>
        /\ ask' = [ask EXCEPT ![Sent(p)] = "running"] /\ ask[Sent(p)] = "recorded"
        /\ tracked' = [tracked EXCEPT ![p] = TRUE]
        /\ remote' = [remote EXCEPT ![p] = "starting"] /\ try' = [try EXCEPT ![p] = 1]
      BY <1>4 DEF Begin, Track
  <2>2. Types'
      BY <2>1, OwnRecords DEF Types, caller, tracker
  <2>3. \A q \in Pids \ {p} : Still(q)
      BY <2>1, OwnRecords DEF Types, Still, caller
  <2>4. Asked(p)' /\ Far(p)' /\ Once(p)'
      BY <2>1, OwnRecords DEF Distinct, Results, Types, Asked, Far, Once, caller
  <2> QED
      BY <2>2, <2>3, <2>4, StillKeeps
<1>5. CASE Finish(p)
  <2> DEFINE what == IF result[p] \in {"link", "own255"} THEN "unavailable" ELSE result[p]
  <2>1. /\ UNCHANGED <<tick, proc, sig, far>>
        /\ ask' = [ask EXCEPT ![Sent(p)] = "done"] /\ ask[Sent(p)] = "running"
        /\ tracked' = [tracked EXCEPT ![p] = FALSE] /\ result[p] # None
        /\ FinishExec(Sent(p)) /\ Answer(p, what)
      BY <1>5 DEF Finish
  <2>2. what \in {"unavailable", "notfound", "own127", "ok", "failed"}
      BY <2>1 DEF Types, Results
  <2> HIDE DEF what
  <2>3. Types'
      BY <2>1, <2>2, OwnRecords, Replied, Finished DEF Types, far
  <2>4. \A q \in Pids \ {p} : Still(q)
      BY <2>1, <2>2, OwnRecords, Replied DEF Types, Still, far
  <2>5. what # None
      BY <2>2 DEF Distinct, Results
  <2>6. Asked(p)'
      BY <2>1, <2>2, <2>5, OwnRecords, Replied DEF Types, Asked, far
  <2>7. Far(p)' /\ Once(p)'
      BY <2>1, OwnRecords DEF Types, Far, Once, far
  <2> QED
      BY <2>3, <2>4, <2>6, <2>7, StillKeeps
<1>6. CASE Retry(p)
  <2>1. /\ UNCHANGED <<caller, ask, tracked, tracker, ran>>
        /\ ask[Sent(p)] = "running" /\ result[p] \in {"notfound", "own127"}
        /\ try' = [try EXCEPT ![p] = 2] /\ result' = [result EXCEPT ![p] = None]
        /\ remote' = [remote EXCEPT ![p] = "starting"]
      BY <1>6 DEF Retry, Again
  <2>2. Types'
      BY <2>1 DEF Types, caller, tracker
  <2>3. \A q \in Pids \ {p} : Still(q)
      BY <2>1 DEF Types, Still, caller
  <2>4. Asked(p)' /\ Far(p)' /\ Once(p)'
      BY <2>1 DEF Distinct, Results, Types, Asked, Far, Once, caller
  <2> QED
      BY <2>2, <2>3, <2>4, StillKeeps
<1>7. CASE NoRetry(p)
  <2>1. /\ UNCHANGED <<caller, ask, tracked, tracker, remote, ran, result>>
        /\ try' = [try EXCEPT ![p] = 2]
      BY <1>7 DEF NoRetry
  <2>2. Types'
      BY <2>1 DEF Types, caller, tracker
  <2>3. \A q \in Pids : Still(q)
      BY <2>1 DEF Still, caller
  <2> QED
      BY <2>2, <2>3, StillKeeps
<1> QED
    BY <1>1, <1>2, <1>3, <1>4, <1>5, <1>6, <1>7 DEF Daemon

\* The other machine's.
LEMMA InvMachine == ASSUME Distinct, Inv, NEW p \in Pids, Machine(p) PROVE Inv'
<1> USE DEF Inv
<1>1. UNCHANGED <<caller, ask, tracked, tracker, try>>
    BY DEF Machine, Launch, End, LinkDrops
<1>2. /\ remote' = [remote EXCEPT ![p] = remote'[p]]
      /\ remote'[p] \in {"up", "over"} /\ remote[p] \in {"starting", "up"}
    BY DEF Machine, Launch, End, LinkDrops, Types
<1>3. ran' = [ran EXCEPT ![p] = ran'[p]] /\ ran'[p] \in Nat
    BY DEF Machine, Launch, End, LinkDrops, Types
<1>4. result' = [result EXCEPT ![p] = result'[p]] /\ result'[p] \in {None} \cup Results
    BY DEF Machine, Launch, End, LinkDrops, Types, Results
<1>5. Types'
    BY <1>1, <1>2, <1>3, <1>4 DEF Types, caller, tracker
<1>6. \A q \in Pids \ {p} : Still(q)
    BY <1>1, <1>2, <1>3, <1>4 DEF Types, Still, caller
<1>7. Asked(p)'
    BY <1>1 DEF Asked, caller
<1>8. Far(p)' /\ Once(p)'
  <2>1. CASE Launch(p)
      BY <1>1, <2>1 DEF Launch, Distinct, Results, Types, Far, Once
  <2>2. CASE End(p)
      BY <1>1, <2>2 DEF End, Distinct, Results, Types, Far, Once
  <2>3. CASE LinkDrops(p)
      BY <1>1, <2>3 DEF LinkDrops, Distinct, Results, Types, Far, Once
  <2> QED
      BY <2>1, <2>2, <2>3 DEF Machine
<1> QED
    BY <1>5, <1>6, <1>7, <1>8, StillKeeps

\* The signal's, and those of watchExits.
LEMMA InvOther ==
    ASSUME Distinct, Inv,
           (\E p \in Pids : ForwardSignal(p)) \/ Watch \/ WatchTells \/ UNCHANGED vars
    PROVE  Inv'
<1> USE DEF Inv
<1>1. UNCHANGED <<proc, answer, ask, remote, ran, result>>
    BY DEF ForwardSignal, Watch, WatchTells, vars, caller, far
<1>2. \A q \in Pids : Still(q)
    BY <1>1 DEF Still
<1>4. CASE Watch
  <2>1. Gone \subseteq Records
      BY DEF Gone
  <2>2. Types'
      BY <1>4, <2>1, Counts DEF Watch, Types, caller, far
  <2> QED
      BY <1>2, <2>2, StillKeeps
<1>5. CASE WatchTells
  <2>1. Types'
      BY <1>5, Counts DEF WatchTells, Types, caller, far
  <2> QED
      BY <1>2, <2>1, StillKeeps
<1>6. CASE UNCHANGED vars
  <2>1. Types'
      BY <1>6 DEF Types, vars, caller, tracker, far
  <2> QED
      BY <1>2, <2>1, StillKeeps
<1>7. CASE \E p \in Pids : ForwardSignal(p)
  <2>1. Types'
      BY <1>7 DEF ForwardSignal, Types, tracker, far
  <2> QED
      BY <1>2, <2>1, StillKeeps
<1> QED
    BY <1>4, <1>5, <1>6, <1>7

LEMMA InvInit == ASSUME Distinct, Init PROVE Inv
<1>1. Types
    BY DEF Init, Types
<1>2. \A p \in Pids : Asked(p) /\ Far(p) /\ Once(p)
  <2> SUFFICES ASSUME Init, NEW p \in Pids PROVE Asked(p) /\ Far(p) /\ Once(p)
      OBVIOUS
  <2>1. /\ proc[p] = "none" /\ answer[p] = None
        /\ ask[Line(p)] = "none" /\ ask[Sent(p)] = "none"
        /\ remote[p] = "none" /\ ran[p] = 0 /\ result[p] = None
      BY OwnRecords DEF Init
  <2> QED
      BY <2>1 DEF Distinct, Results, Asked, Far, Once
<1> QED
    BY <1>1, <1>2 DEF Inv

THEOREM InvAlways == ASSUME Distinct PROVE Spec => []Inv
<1>1. Inv /\ [Next]_vars => Inv'
    BY InvCaller, InvDaemon, InvMachine, InvOther DEF Next
<1> QED
    BY InvInit, <1>1, PTL DEF Spec

\* A program runs once, whatever happens to the caller and to the connection, as
\* long as no program says 127 of itself (exec.go:66, DESIGN.md:836).
THEOREM DispatchRunsOnce ==
    ASSUME Distinct, "own127" \notin FaultKinds PROVE Spec => []NothingRunsTwice
<1>1. Inv => NothingRunsTwice
    BY DEF Inv, Once, NothingRunsTwice
<1> QED
    BY <1>1, InvAlways, PTL

-----------------------------------------------------------------------------
(* What is listed, and what is told.                                       *)

\* The line is entered before its process becomes anything else.
InTurn(p) ==
    /\ ask[Line(p)] \in {"none", "sent", "done"}
    /\ ask[Line(p)] = "sent" => proc[p] \in {"vpsh", "dead"} /\ ask[Sent(p)] = "none"
    /\ proc[p] = "shell" => ask[Line(p)] = "done"
    /\ proc[p] = "none" => ask[Sent(p)] = "none"

\* A line is listed until it ends, and is told of once.
Lines(p) ==
    /\ ask[Line(p)] # "done" => execs[p] # Line(p) /\ Line(p) \notin ended
    /\ execs[p] = Line(p) => Line(p) \notin ended
    /\ retired[Line(p)] = IF Line(p) \in ended THEN 1 ELSE 0
    /\ told[Line(p)] = IF Line(p) \in ended \ tick THEN 1 ELSE 0

\* A dispatch is listed until it is answered or its caller is found dead; it is told
\* of again only then.
Sents(p) ==
    /\ execs[p] \in {None, Line(p), Sent(p)}
    /\ ask[Sent(p)] \in {"none", "sent"} => execs[p] # Sent(p) /\ Sent(p) \notin ended
    /\ ask[Sent(p)] \in {"recorded", "running"} =>
          IF Sent(p) \in ended THEN execs[p] # Sent(p) /\ proc[p] = "dead"
                               ELSE execs[p] = Sent(p)
    /\ ask[Sent(p)] = "done" => execs[p] # Sent(p)
    /\ Sent(p) \notin ended => retired[Sent(p)] = 0 /\ told[Sent(p)] = 0
    /\ Sent(p) \in tick \/ retired[Sent(p)] > 1 \/ told[Sent(p)] > 1 =>
          proc[p] = "dead" /\ answer[p] = None

Listed == Inv /\ \A p \in Pids : InTurn(p) /\ Lines(p) /\ Sents(p)

\* What the tracker has of a process is as it was.
Kept(p) ==
    /\ execs'[p] = execs[p]
    /\ \A r \in {Line(p), Sent(p)} :
        /\ (r \in ended') = (r \in ended) /\ (r \in tick') = (r \in tick)
        /\ retired'[r] = retired[r] /\ told'[r] = told[r]

Own(p) == InTurn(p) /\ Lines(p) /\ Sents(p)

LEMMA KeptKeeps ==
    ASSUME NEW p \in Pids, Own(p), Still(p), Kept(p)
    PROVE  Own(p)'
<1>1. InTurn(p)'
    BY DEF Still, Own, InTurn
<1>2. Lines(p)'
    BY DEF Still, Kept, Own, Lines
<1>3. Sents(p)'
    BY DEF Still, Kept, Own, Sents
<1> QED
    BY <1>1, <1>2, <1>3 DEF Own

\* A process that is killed, exits, or goes on to its next stage.
LEMMA ListedCaller ==
    ASSUME Distinct, Waits, Listed, NEW p \in Pids, Caller(p)
    PROVE  \A q \in Pids : Own(q)'
<1> USE DEF Listed, Inv
<1>1. UNCHANGED <<answer, tracked, tracker, far>> /\ \A q \in Pids : Kept(q)
    BY DEF Caller, Start, Run, ExecVp, Exit, Kill, Interrupt, tracker, Kept
<1>2. \A q \in Pids : Own(q)
    BY DEF Own
<1>3. \A q \in Pids \ {p} : Still(q)
  <2>1. CASE Start(p)
      BY <1>1, <2>1, OwnRecords DEF Start, Types, Still, far
  <2>2. CASE Run(p) \/ ExecVp(p)
      BY <1>1, <2>2, OwnRecords DEF Run, ExecVp, Types, Still, far
  <2>3. CASE Exit(p) \/ Kill(p) \/ Interrupt(p)
      BY <1>1, <2>3 DEF Exit, Kill, Interrupt, Types, Still, far
  <2> QED
      BY <2>1, <2>2, <2>3 DEF Caller
<1>4. Own(p)'
  <2>1. CASE Start(p)
      BY <1>1, <1>2, <2>1, OwnRecords
         DEF Start, Types, Own, Asked, InTurn, Lines, Sents, tracker
  <2>2. CASE Run(p)
      BY <1>1, <1>2, <2>2 DEF Run, Waits, Types, Own, Asked, InTurn, Lines, Sents, tracker
  <2>3. CASE ExecVp(p)
      BY <1>1, <1>2, <2>3, OwnRecords
         DEF ExecVp, Types, Own, Asked, InTurn, Lines, Sents, tracker
  <2>4. CASE Exit(p) \/ Kill(p)
    <3>1. Alive(p) /\ UNCHANGED ask /\ proc' = [proc EXCEPT ![p] = "dead"]
        BY <2>4 DEF Exit, Kill, Alive
    <3> QED
        BY <1>1, <1>2, <3>1
           DEF Types, Own, Asked, InTurn, Lines, Sents, tracker, Alive
  <2>5. CASE Interrupt(p)
      BY <1>1, <1>2, <2>5, KeptKeeps DEF Interrupt, Still, far
  <2> QED
      BY <2>1, <2>2, <2>3, <2>4, <2>5 DEF Caller
<1> QED
    BY <1>1, <1>2, <1>3, <1>4, KeptKeeps

\* A record that is entered takes the place of the one its pid was running, which is
\* over and told; nobody else's is touched.
LEMMA Replaced ==
    ASSUME Distinct, Waits, Listed, NEW p \in Pids, NEW r \in {Line(p), Sent(p)},
           RecordExec(r), UNCHANGED tick
    PROVE  /\ execs'[p] = r
           /\ ended' = ended \cup Running(p)
           /\ \A x \in Records :
                 /\ retired'[x] = retired[x] + IF x \in Running(p) THEN 1 ELSE 0
                 /\ told'[x] = told[x] + IF x \in Running(p) THEN 1 ELSE 0
           /\ \A q \in Pids \ {p} : Kept(q)
<1>1. /\ execs' = [execs EXCEPT ![p] = r] /\ ended' = ended \cup Running(p)
      /\ Retire(Running(p)) /\ Tell(Running(p))
    BY OwnRecords DEF Waits, RecordExec
<1>2. /\ Types
      /\ Running(p) \subseteq {Line(p), Sent(p)}
    BY OwnRecords DEF Running, Listed, Inv, Sents, Distinct
<1>3. \A x \in Records :
         /\ retired'[x] = retired[x] + IF x \in Running(p) THEN 1 ELSE 0
         /\ told'[x] = told[x] + IF x \in Running(p) THEN 1 ELSE 0
    BY <1>1, <1>2, Counts
<1>4. ASSUME NEW q \in Pids \ {p} PROVE Kept(q)
  <2>1. \A x \in {Line(q), Sent(q)} : x \in Records /\ x \notin Running(p)
      BY <1>2, OwnRecords
  <2> QED
      BY <1>1, <1>2, <1>3, <2>1 DEF Kept, Types
<1> QED
    BY <1>1, <1>2, <1>3, <1>4 DEF Types

LEMMA ListedRecordLine ==
    ASSUME Distinct, Waits, Listed, NEW p \in Pids, RecordLine(p)
    PROVE  \A q \in Pids : Own(q)'
<1> USE DEF Listed, Inv
<1>1. /\ UNCHANGED <<tick, caller, tracked, far>>
      /\ ask[Line(p)] = "sent" /\ ask' = [ask EXCEPT ![Line(p)] = "done"]
      /\ RecordExec(Line(p))
    BY DEF RecordLine
<1>2. \A q \in Pids \ {p} : Still(q) /\ Kept(q) /\ Own(q)
    BY <1>1, OwnRecords, Replaced DEF Types, Still, caller, far, Own
<1>3. /\ Line(p) \notin ended /\ Sent(p) \notin ended /\ ask[Sent(p)] = "none"
      /\ execs[p] = None /\ Running(p) = {}
    BY <1>1, OwnRecords DEF InTurn, Lines, Sents, Running, Distinct
<1>4. /\ retired[Line(p)] \in Nat /\ told[Line(p)] \in Nat
      /\ retired[Sent(p)] \in Nat /\ told[Sent(p)] \in Nat
      /\ ask'[Line(p)] = "done" /\ ask'[Sent(p)] = "none"
    BY <1>1, <1>3, OwnRecords DEF Types
<1>5. /\ ended' = ended \cup {} /\ execs'[p] = Line(p)
      /\ \A x \in Records : /\ retired'[x] = retired[x] + IF x \in {} THEN 1 ELSE 0
                           /\ told'[x] = told[x] + IF x \in {} THEN 1 ELSE 0
    BY <1>1, <1>3, Replaced
<1>6. /\ ended' = ended /\ execs'[p] = Line(p)
      /\ retired'[Line(p)] = retired[Line(p)] /\ told'[Line(p)] = told[Line(p)]
      /\ retired'[Sent(p)] = retired[Sent(p)] /\ told'[Sent(p)] = told[Sent(p)]
      /\ ask'[Line(p)] = "done" /\ ask'[Sent(p)] = "none"
    BY <1>4, <1>5, OwnRecords
<1>7. InTurn(p)' /\ Lines(p)'
    BY <1>1, <1>3, <1>6 DEF InTurn, Lines, caller
<1>8. Sents(p)'
    BY <1>1, <1>3, <1>6, OwnRecords DEF Sents, caller
<1> QED
    BY <1>2, <1>7, <1>8, KeptKeeps DEF Own

LEMMA ListedRecord ==
    ASSUME Distinct, Waits, Listed, NEW p \in Pids, Record(p)
    PROVE  \A q \in Pids : Own(q)'
<1> USE DEF Listed, Inv
<1>1. /\ UNCHANGED <<tick, caller, tracked, far>>
      /\ ask[Sent(p)] = "sent" /\ ask' = [ask EXCEPT ![Sent(p)] = "recorded"]
      /\ RecordExec(Sent(p))
    BY DEF Record
<1>2. \A q \in Pids \ {p} : Still(q) /\ Kept(q) /\ Own(q)
    BY <1>1, OwnRecords, Replaced DEF Types, Still, caller, far, Own
<1>3. /\ ask[Line(p)] \in {"none", "done"} /\ Sent(p) \notin ended
      /\ execs[p] # Sent(p) /\ Sent(p) \notin tick
    BY <1>1, OwnRecords DEF InTurn, Sents, Types
<1>4. Running(p) = IF execs[p] = Line(p) THEN {Line(p)} ELSE {}
    BY <1>3, OwnRecords DEF Lines, Sents, Running, Distinct
<1>5. /\ execs'[p] = Sent(p) /\ ask'[Line(p)] = ask[Line(p)] /\ ask'[Sent(p)] = "recorded"
      /\ ended' = ended \cup Running(p)
      /\ retired'[Sent(p)] = retired[Sent(p)] /\ told'[Sent(p)] = told[Sent(p)]
      /\ retired'[Line(p)] = retired[Line(p)] + IF execs[p] = Line(p) THEN 1 ELSE 0
      /\ told'[Line(p)] = told[Line(p)] + IF execs[p] = Line(p) THEN 1 ELSE 0
    BY <1>1, <1>4, OwnRecords, Replaced DEF Types
<1>6. /\ (Line(p) \in ended') = (Line(p) \in ended \/ execs[p] = Line(p))
      /\ Sent(p) \notin ended'
    BY <1>3, <1>4, <1>5, OwnRecords
<1>7. execs[p] = Line(p) => Line(p) \notin tick /\ ask[Line(p)] = "done"
    BY DEF Lines, Types
<1>8. InTurn(p)'
    BY <1>1, <1>3, <1>5 DEF InTurn, Asked, caller
<1>9. Lines(p)'
    BY <1>1, <1>3, <1>5, <1>6, <1>7, OwnRecords DEF Lines
<1>10. Sents(p)'
    BY <1>1, <1>3, <1>5, <1>6 DEF Sents, caller
<1> QED
    BY <1>2, <1>8, <1>9, <1>10, KeptKeeps DEF Own

LEMMA ListedFinish ==
    ASSUME Distinct, Waits, Listed, NEW p \in Pids, Finish(p)
    PROVE  \A q \in Pids : Own(q)'
<1> USE DEF Listed, Inv
<1> DEFINE what == IF result[p] \in {"link", "own255"} THEN "unavailable" ELSE result[p]
<1>1. /\ UNCHANGED <<tick, proc, sig, far>>
      /\ ask' = [ask EXCEPT ![Sent(p)] = "done"] /\ ask[Sent(p)] = "running"
      /\ result[p] # None /\ FinishExec(Sent(p)) /\ Answer(p, what)
    BY DEF Finish
<1>2. what \in {"unavailable", "notfound", "own127", "ok", "failed"}
    BY <1>1 DEF Types, Results
<1> HIDE DEF what
<1>3. /\ answer'[p] = IF proc[p] = "vp" THEN what ELSE answer[p]
      /\ \A q \in Pids \ {p} : answer'[q] = answer[q]
    BY <1>1, <1>2, Replied
<1>4. /\ execs' = [execs EXCEPT ![p] = None] /\ ended' = ended \cup {Sent(p)}
      /\ Retire({Sent(p)}) /\ Tell({Sent(p)})
    BY <1>1, OwnRecords DEF Waits, FinishExec
<1>5. \A x \in Records :
         /\ retired'[x] = retired[x] + IF x = Sent(p) THEN 1 ELSE 0
         /\ told'[x] = told[x] + IF x = Sent(p) THEN 1 ELSE 0
    BY <1>4, Counts
<1>6. \A q \in Pids \ {p} : Still(q) /\ Kept(q) /\ Own(q)
    BY <1>1, <1>3, <1>4, <1>5, OwnRecords DEF Types, Still, Kept, Own, far
<1>7. /\ ask'[Line(p)] = ask[Line(p)] /\ ask'[Sent(p)] = "done" /\ execs'[p] = None
      /\ None \notin {Line(p), Sent(p)}
      /\ (Line(p) \in ended') = (Line(p) \in ended) /\ Sent(p) \in ended'
      /\ retired'[Line(p)] = retired[Line(p)] /\ told'[Line(p)] = told[Line(p)]
      /\ retired'[Sent(p)] = retired[Sent(p)] + 1 /\ told'[Sent(p)] = told[Sent(p)] + 1
    BY <1>1, <1>4, <1>5, OwnRecords DEF Types, Distinct
<1>8. InTurn(p)'
    BY <1>1, <1>7 DEF InTurn, Asked
<1>9. Lines(p)'
    BY <1>1, <1>7 DEF Lines, InTurn
<1>10. Sents(p)'
  <2>1. CASE Sent(p) \in ended
    <3>1. proc[p] = "dead" /\ answer[p] = None
        BY <1>1, <2>1 DEF Sents, Asked
    <3> QED
        BY <1>1, <1>3, <1>7, <3>1 DEF Sents
  <2>2. CASE Sent(p) \notin ended
    <3>1. /\ Sent(p) \notin tick /\ retired'[Sent(p)] = 1 /\ told'[Sent(p)] = 1
        BY <1>7, <2>2 DEF Sents, Types
    <3> QED
        BY <1>1, <1>7, <3>1 DEF Sents
  <2> QED
      BY <2>1, <2>2
<1> QED
    BY <1>6, <1>8, <1>9, <1>10, KeptKeeps DEF Own

\* What comes between: the tracker has no part in it.
LEMMA ListedDaemon ==
    ASSUME Distinct, Waits, Listed, NEW p \in Pids,
           Refuse(p) \/ Begin(p) \/ Retry(p) \/ NoRetry(p)
    PROVE  \A q \in Pids : Own(q)'
<1> USE DEF Listed, Inv
<1>1. /\ UNCHANGED <<proc, tracker>> /\ \A q \in Pids : Kept(q) /\ Own(q)
    BY DEF Refuse, Begin, Retry, NoRetry, caller, tracker, Kept, Own
<1>2. \A q \in Pids \ {p} : InTurn(q)' /\ Lines(q)' /\ Sents(q)'
  <2>1. \A q \in Pids \ {p} : /\ answer'[q] = answer[q] /\ ask'[Line(q)] = ask[Line(q)]
                              /\ ask'[Sent(q)] = ask[Sent(q)]
    <3>1. CASE Refuse(p)
        BY <3>1, OwnRecords DEF Refuse, Types, Answer
    <3>2. CASE Begin(p) \/ Retry(p) \/ NoRetry(p)
        BY <3>2, OwnRecords DEF Begin, Retry, NoRetry, caller, Types
    <3> QED
        BY <3>1, <3>2
  <2> QED
      BY <1>1, <2>1 DEF Own, InTurn, Lines, Sents, tracker
<1>3. CASE Refuse(p)
  <2>1. /\ ask'[Line(p)] = ask[Line(p)] /\ ask'[Sent(p)] = "done" /\ ask[Sent(p)] = "sent"
      BY <1>3, OwnRecords DEF Refuse, Types
  <2>2. /\ execs[p] # Sent(p) /\ Sent(p) \notin ended /\ Sent(p) \notin tick
        /\ retired[Sent(p)] = 0 /\ told[Sent(p)] = 0
      BY <2>1 DEF Sents, Types
  <2>3. InTurn(p)' /\ Lines(p)'
      BY <1>1, <2>1 DEF InTurn, Lines, Asked, tracker
  <2>4. Sents(p)'
      BY <1>1, <2>1, <2>2 DEF Sents, tracker
  <2> QED
      BY <1>2, <2>3, <2>4 DEF Own
<1>4. CASE Begin(p)
  <2>1. /\ ask'[Line(p)] = ask[Line(p)] /\ ask'[Sent(p)] = "running"
        /\ ask[Sent(p)] = "recorded" /\ UNCHANGED answer
      BY <1>4, OwnRecords DEF Begin, Types, caller
  <2>2. InTurn(p)' /\ Lines(p)'
      BY <1>1, <2>1 DEF InTurn, Lines, tracker
  <2>3. Sents(p)'
      BY <1>1, <2>1 DEF Sents, tracker
  <2> QED
      BY <1>2, <2>2, <2>3 DEF Own
<1>5. CASE Retry(p) \/ NoRetry(p)
  <2>1. UNCHANGED <<ask, answer>>
      BY <1>5 DEF Retry, NoRetry, caller
  <2> QED
      BY <1>1, <1>2, <2>1 DEF Own, InTurn, Lines, Sents, tracker
<1> QED
    BY <1>3, <1>4, <1>5

\* A caller that is gone is found, and its record with it.
LEMMA ListedWatch ==
    ASSUME Distinct, Waits, Listed, Watch
    PROVE  \A q \in Pids : Own(q)'
<1> USE DEF Listed, Inv
<1>1. /\ tick = {} /\ tick' = Gone /\ ended' = ended \cup Gone /\ Retire(Gone)
      /\ execs' = [p \in Pids |-> IF \E r \in Gone : r[1] = p THEN None ELSE execs[p]]
      /\ UNCHANGED <<told, proc, answer, ask>>
    BY DEF Watch, caller
<1>2. SUFFICES ASSUME NEW p \in Pids PROVE Own(p)'
    OBVIOUS
<1>3. /\ Line(p) \in Gone <=> execs[p] = Line(p) /\ Line(p) \notin ended /\ ~Alive(p)
      /\ Sent(p) \in Gone <=> execs[p] = Sent(p) /\ Sent(p) \notin ended /\ ~Alive(p)
      /\ (\E r \in Gone : r[1] = p) <=> Line(p) \in Gone \/ Sent(p) \in Gone
      /\ None \notin {Line(p), Sent(p)} /\ Line(p) # Sent(p)
    BY OwnRecords DEF Gone, Distinct
<1>4. /\ retired'[Line(p)] = retired[Line(p)] + IF Line(p) \in Gone THEN 1 ELSE 0
      /\ retired'[Sent(p)] = retired[Sent(p)] + IF Sent(p) \in Gone THEN 1 ELSE 0
    BY <1>1, Counts, OwnRecords
<1>5. /\ execs'[p] = IF Line(p) \in Gone \/ Sent(p) \in Gone THEN None ELSE execs[p]
      /\ told'[Line(p)] = told[Line(p)] /\ told'[Sent(p)] = told[Sent(p)]
    BY <1>1, <1>3
<1>6. InTurn(p)'
    BY <1>1 DEF InTurn
<1>7. Lines(p)'
    BY <1>1, <1>3, <1>4, <1>5 DEF Lines, InTurn
<1>8. Sent(p) \in Gone => /\ ask[Sent(p)] \in {"recorded", "running"} /\ proc[p] = "dead"
                          /\ answer[p] = None /\ retired'[Sent(p)] = 1
    BY <1>3, <1>4, OwnRecords DEF Sents, Types, Asked, Alive
<1>9. retired[Sent(p)] \in Nat /\ told[Sent(p)] \in Nat
    BY OwnRecords DEF Types
<1>10. Sents(p)'
    BY <1>1, <1>3, <1>4, <1>5, <1>8, <1>9 DEF Sents
<1> QED
    BY <1>6, <1>7, <1>10 DEF Own

LEMMA ListedWatchTells ==
    ASSUME Distinct, Waits, Listed, WatchTells
    PROVE  \A q \in Pids : Own(q)'
<1> USE DEF Listed, Inv
<1>1. /\ tick' = {} /\ Tell(tick)
      /\ UNCHANGED <<execs, ended, retired, proc, answer, ask>>
    BY DEF WatchTells, caller
<1>2. SUFFICES ASSUME NEW p \in Pids PROVE Own(p)'
    OBVIOUS
<1>3. /\ told'[Line(p)] = told[Line(p)] + IF Line(p) \in tick THEN 1 ELSE 0
      /\ told'[Sent(p)] = told[Sent(p)] + IF Sent(p) \in tick THEN 1 ELSE 0
    BY <1>1, Counts, OwnRecords
<1>4. Line(p) \in tick => Line(p) \in ended
    BY DEF Types
<1>5. Sent(p) \in tick => Sent(p) \in ended
    BY DEF Types
<1>6. InTurn(p)'
    BY <1>1 DEF InTurn
<1>7. Lines(p)'
    BY <1>1, <1>3, <1>4 DEF Lines
<1>8. retired[Sent(p)] \in Nat /\ told[Sent(p)] \in Nat
    BY OwnRecords DEF Types
<1>9. Sents(p)'
    BY <1>1, <1>3, <1>5, <1>8 DEF Sents
<1> QED
    BY <1>6, <1>7, <1>9 DEF Own

LEMMA ListedOther ==
    ASSUME Distinct, Waits, Listed,
           (\E p \in Pids : ForwardSignal(p) \/ Machine(p)) \/ UNCHANGED vars
    PROVE  \A q \in Pids : Own(q)'
<1>1. UNCHANGED <<proc, answer, ask, tracker>>
    BY DEF ForwardSignal, Machine, Launch, End, LinkDrops, vars, caller
<1> QED
    BY <1>1 DEF Listed, Own, InTurn, Lines, Sents, tracker

LEMMA ListedInit == ASSUME Distinct, Init PROVE Listed
<1> SUFFICES ASSUME NEW p \in Pids PROVE Own(p)
    BY InvInit DEF Listed, Own
<1>1. /\ proc[p] = "none" /\ answer[p] = None
      /\ ask[Line(p)] = "none" /\ ask[Sent(p)] = "none"
      /\ execs[p] = None /\ ended = {} /\ tick = {}
      /\ retired[Line(p)] = 0 /\ retired[Sent(p)] = 0
      /\ told[Line(p)] = 0 /\ told[Sent(p)] = 0
      /\ None \notin {Line(p), Sent(p)}
    BY OwnRecords DEF Init, Distinct
<1> QED
    BY <1>1 DEF Own, InTurn, Lines, Sents

THEOREM ListedAlways == ASSUME Distinct, Waits PROVE Spec => []Listed
<1>1. Listed /\ [Next]_vars => Listed'
  <2> SUFFICES ASSUME Listed, [Next]_vars PROVE Listed'
      OBVIOUS
  <2>1. Inv'
      BY InvCaller, InvDaemon, InvMachine, InvOther DEF Next, Listed
  <2>2. \A q \in Pids : Own(q)'
      BY ListedCaller, ListedRecordLine, ListedRecord, ListedFinish, ListedDaemon,
         ListedWatch, ListedWatchTells, ListedOther DEF Next, Daemon
  <2> QED
      BY <2>1, <2>2 DEF Listed, Own
<1> QED
    BY ListedInit, <1>1, PTL DEF Spec

\* The daemon's record of each process, and what runs for it, are of their types.
THEOREM DispatchTypeCorrect == ASSUME Distinct, Waits PROVE Spec => []TypeOK
<1>1. Listed => TypeOK
    BY DEF Listed, Inv, Types, Sents, TypeOK
<1> QED
    BY <1>1, ListedAlways, PTL

\* What runs on another machine for a caller that waits is listed (tracker.go:12).
THEOREM DispatchRunningIsShown == ASSUME Distinct, Waits PROVE Spec => []RunningIsShown
<1>1. Listed => RunningIsShown
    BY DEF Listed, Inv, Far, Sents, Alive, RunningIsShown
<1> QED
    BY <1>1, ListedAlways, PTL

\* An end is told twice only of a command whose caller did not live to be answered
\* (tracker.go:98, 130).
THEOREM DispatchToldOnce == ASSUME Distinct, Waits PROVE Spec => []ToldOnce
<1>1. Listed => ToldOnce
    BY OwnRecords DEF Listed, Inv, Types, Lines, Sents, ToldOnce
<1> QED
    BY <1>1, ListedAlways, PTL

-------------------------------------------------------------------------------
(* The directories.                                                          *)

\* No file changes while it is being synced, and the flush and the first copy are
\* not commands.
Calm == "busy" \notin SyncFaults /\ Closer # Starter /\ {Closer, Starter} \cap Commands = {}

SyncRecord == [by : SY!Whoever \cup {None}, does : {"nothing", "push", "pull"},
               step : {"none", "here", "there", "remove", "rm", "copy"},
               here : [Files -> Nat], there : [Files -> Nat], todo : SUBSET Files]

\* A sync is a push or a pull of somebody who waits for it.
SyncHeld ==
    /\ sync \in SyncRecord /\ met \in BOOLEAN
    /\ sync.step # "none" => /\ sync.by \in SY!Whoever
                             /\ sync.does \in {"push", "pull"} /\ at[sync.by] = sync.does
    /\ sync.step = "rm" => sync.does = "push" /\ sync.todo = Files
    /\ at[Closer] \in {"none", "push", "over"}
    /\ at[Starter] \in {"pull", "over", "failed"}

\* Until the first copy is there, the record is empty and nothing else is asked for.
SyncFirst ==
    at[Starter] = "pull" =>
        /\ manifest = {} /\ at[Closer] = "none"
        /\ \A c \in Commands : at[c] \in {"none", "over"}

\* What was listed is still so, until the sync itself changes it.
Listings ==
    /\ sync.does = "push" =>
          /\ sync.step \in {"there", "remove", "rm", "copy"} => sync.here = here
          /\ sync.step \in {"remove", "rm"} => sync.there = there
    /\ sync.does = "pull" =>
          /\ sync.step \in {"here", "remove", "copy"} => sync.there = there
          /\ sync.step = "remove" => sync.here = here

\* What a push is about to send of the record is on the machine, or newer than
\* the record.
NotBack ==
    sync.does = "push" /\ sync.step \in {"rm", "copy"} =>
        \A f \in manifest : f \in sync.todo /\ there[f] = 0 => here[f] = 0 \/ here[f] > last

\* What a sync has copied is over, and both sides have had it.
Copied ==
    sync.step = "copy" =>
        \A f \in Files : f \notin sync.todo =>
            /\ sync.does = "push" => there[f] >= here[f] /\ here[f] <= both[f]
            /\ sync.does = "pull" => here[f] >= there[f] /\ there[f] <= both[f]

SyncActive(w) == at[w] \in {"push", "run", "pull"}

\* The machine may have something new: a first copy or a pull is due.
SyncPending == at[Starter] = "pull" \/ \E c \in Commands : at[c] \in {"run", "pull"}

OneByOne == ~met => \A v, w \in SY!Whoever : SyncActive(v) /\ SyncActive(w) => v = w

\* Between a pull and the next push the copy has had all there is on the machine,
\* and the machine has all that is in the record.
Seen ==
    ~met /\ ~SyncPending =>
        \A f \in Files :
            /\ there[f] <= both[f]
            /\ f \in manifest /\ ~(sync.does = "push" /\ sync.step = "copy") => there[f] # 0

\* Between a push and the pull after it, the machine has had all that has not
\* changed here since.
SyncSent ==
    ~met => \A c \in Commands : at[c] \in {"run", "pull"} =>
               \A f \in Files : here[f] <= last => here[f] <= both[f]

SyncInv == /\ SY!TypeOK /\ SyncHeld /\ SyncFirst /\ Listings /\ NotBack /\ Copied
       /\ OneByOne /\ Seen /\ SyncSent

-----------------------------------------------------------------------------
SyncPlaces == {"none", "push", "run", "pull", "over", "failed"}

\* An edit is a newer file or none, and no sync is under way.
LEMMA Edited ==
    ASSUME Calm, SyncInv, NEW f \in Files, NEW side, NEW side1, side \in [Files -> 0 .. clock],
           clock < MaxEdits, clock' = clock + 1, SY!Quiet,
           side1 = [side EXCEPT ![f] = clock + 1] \/ side1 = [side EXCEPT ![f] = 0]
    PROVE  /\ sync.step = "none" /\ sync.does = "nothing" /\ clock' \in Nat
           /\ side1 \in [Files -> 0 .. clock'] /\ side1[f] \in {0, clock + 1}
           /\ \A g \in Files \ {f} : side1[g] = side[g]
           /\ \A x : x \in [Files -> 0 .. clock] => x \in [Files -> 0 .. clock']
           /\ last \in 0 .. clock'
<1>1. sync.step = "none" /\ sync.does = "nothing"
    BY DEF SY!Quiet, Calm, SY!Idle
<1>2. clock \in Nat /\ last \in 0 .. clock
    BY DEF SyncInv, SY!TypeOK
<1>3. \A x : x \in [Files -> 0 .. clock] => x \in [Files -> 0 .. clock + 1]
    BY <1>2
<1>4. /\ side1 \in [Files -> 0 .. clock + 1] /\ side1[f] \in {0, clock + 1}
      /\ \A g \in Files \ {f} : side1[g] = side[g]
    BY <1>2, <1>3
<1> QED
    BY <1>1, <1>2, <1>3, <1>4

\* What is edited here is newer than the record, and the other side is as it was.
LEMMA SyncInvEditHere ==
    ASSUME Calm, SyncInv, NEW f \in Files, SY!EditHere(f)
    PROVE  SyncInv'
<1> USE DEF SyncInv
<1>1. /\ clock < MaxEdits /\ clock' = clock + 1 /\ SY!Quiet
      /\ here' = [here EXCEPT ![f] = clock + 1] \/ here' = [here EXCEPT ![f] = 0]
      /\ UNCHANGED <<there, manifest, last, sync, at, both, met>>
    BY DEF SY!EditHere, SY!Edit, SY!record
<1>2. here \in [Files -> 0 .. clock] /\ clock \in Nat /\ last \in 0 .. clock
    BY DEF SY!TypeOK
<1>3. /\ sync.step = "none" /\ sync.does = "nothing" /\ clock' \in Nat
      /\ here' \in [Files -> 0 .. clock'] /\ here'[f] \in {0, clock + 1}
      /\ \A g \in Files \ {f} : here'[g] = here[g]
      /\ \A x : x \in [Files -> 0 .. clock] => x \in [Files -> 0 .. clock']
      /\ last \in 0 .. clock'
    BY <1>1, <1>2, Edited
<1>4. SY!TypeOK' /\ SyncHeld' /\ SyncFirst'
    BY <1>1, <1>3 DEF SY!TypeOK, SyncHeld, SyncFirst
<1>5. Listings' /\ NotBack' /\ Copied'
    BY <1>1, <1>3 DEF Listings, NotBack, Copied
<1>6. OneByOne' /\ Seen'
    BY <1>1 DEF OneByOne, SyncActive, Seen, SyncPending
<1>7. SyncSent'
  <2>1. both \in [Files -> 0 .. clock]
      BY DEF SY!TypeOK
  <2> QED
      BY <1>1, <1>2, <1>3, <2>1 DEF SyncSent
<1> QED
    BY <1>4, <1>5, <1>6, <1>7

\* What a command changes there is pulled after it.
LEMMA SyncInvEditThere ==
    ASSUME Calm, SyncInv, NEW f \in Files, SY!EditThere(f)
    PROVE  SyncInv'
<1> USE DEF SyncInv
<1>1. /\ clock < MaxEdits /\ clock' = clock + 1 /\ SY!Quiet
      /\ there' = [there EXCEPT ![f] = clock + 1] \/ there' = [there EXCEPT ![f] = 0]
      /\ UNCHANGED <<here, manifest, last, sync, at, both>>
      /\ met' = (met \/ \A c \in Commands : at[c] # "run")
    BY DEF SY!EditThere, SY!Edit, SY!record
<1>2. there \in [Files -> 0 .. clock] /\ clock \in Nat
    BY DEF SY!TypeOK
<1>3. /\ sync.step = "none" /\ sync.does = "nothing" /\ clock' \in Nat
      /\ there' \in [Files -> 0 .. clock']
      /\ \A x : x \in [Files -> 0 .. clock] => x \in [Files -> 0 .. clock']
      /\ last \in 0 .. clock'
    BY <1>1, <1>2, Edited
<1>4. SY!TypeOK' /\ SyncHeld' /\ SyncFirst'
    BY <1>1, <1>3 DEF SY!TypeOK, SyncHeld, SyncFirst
<1>5. Listings' /\ NotBack' /\ Copied'
    BY <1>1, <1>3 DEF Listings, NotBack, Copied
<1>6. OneByOne' /\ SyncSent'
    BY <1>1 DEF OneByOne, SyncActive, SyncSent
<1>7. Seen'
    BY <1>1 DEF Seen, SyncPending
<1> QED
    BY <1>4, <1>5, <1>6, <1>7

\* A command is dispatched or the pod goes down: the only one, or they have met.
LEMMA SyncInvAsk ==
    ASSUME Calm, SyncInv, NEW w \in Commands \cup {Closer}, at[w] = "none",
           at[Starter] = "over", at[Closer] = "none",
           at' = [at EXCEPT ![w] = "push"], met' = (met \/ SY!Underway),
           UNCHANGED <<clock, SY!sides, SY!record, sync, both, removed>>
    PROVE  SyncInv'
<1> USE DEF SyncInv
<1>1. /\ w \in SY!Whoever /\ w # Starter /\ at' \in [SY!Whoever -> SyncPlaces] /\ at'[w] = "push"
      /\ \A v \in SY!Whoever \ {w} : at'[v] = at[v]
      /\ UNCHANGED <<here, there, manifest, last>>
    BY DEF SY!Whoever, SY!TypeOK, Calm, SY!sides, SY!record, SyncPlaces
<1>2. Commands \subseteq SY!Whoever /\ Starter \in SY!Whoever /\ Closer \in SY!Whoever
    BY DEF SY!Whoever
<1>3. sync.step # "none" => sync.by # w
    BY DEF SyncHeld
<1>4. SY!TypeOK'
    BY <1>1 DEF SY!TypeOK, SyncPlaces
<1>5. SyncHeld' /\ SyncFirst'
    BY <1>1, <1>2, <1>3 DEF SyncHeld, SyncFirst, SY!Underway
<1>6. Listings' /\ NotBack' /\ Copied'
    BY <1>1 DEF Listings, NotBack, Copied
<1>7. OneByOne'
  <2>1. ~SY!Underway => \A v \in SY!Whoever : ~SyncActive(v)
      BY DEF SY!Underway, SyncActive, SY!Whoever
  <2> QED
      BY <1>1, <2>1 DEF OneByOne, SyncActive
<1>8. Seen'
    BY <1>1, <1>2 DEF Seen, SyncPending
<1>9. SyncSent'
    BY <1>1, <1>2 DEF SyncSent
<1> QED
    BY <1>4, <1>5, <1>6, <1>7, <1>8, <1>9

\* A command that has run asks for its pull.
LEMMA SyncInvRan == ASSUME Calm, SyncInv, NEW c \in Commands, SY!Ran(c) PROVE SyncInv'
<1> USE DEF SyncInv
<1>1. /\ c \in SY!Whoever /\ c # Starter /\ c # Closer /\ at[c] = "run"
      /\ at' \in [SY!Whoever -> SyncPlaces] /\ at'[c] = "pull"
      /\ \A v \in SY!Whoever \ {c} : at'[v] = at[v]
      /\ UNCHANGED <<clock, here, there, manifest, last, sync, both, removed, met>>
    BY DEF SY!Ran, SY!Whoever, SY!TypeOK, Calm, SY!sides, SY!record, SY!ghosts, SyncPlaces
<1>2. Commands \subseteq SY!Whoever /\ Starter \in SY!Whoever /\ Closer \in SY!Whoever
    BY DEF SY!Whoever
<1>3. SY!TypeOK'
    BY <1>1 DEF SY!TypeOK, SyncPlaces
<1>4. SyncHeld' /\ SyncFirst'
    BY <1>1, <1>2 DEF SyncHeld, SyncFirst
<1>5. Listings' /\ NotBack' /\ Copied'
    BY <1>1 DEF Listings, NotBack, Copied
<1>6. OneByOne'
    BY <1>1 DEF OneByOne, SyncActive
<1>7. Seen' /\ SyncSent'
    BY <1>1, <1>2 DEF Seen, SyncPending, SyncSent
<1> QED
    BY <1>3, <1>4, <1>5, <1>6, <1>7

\* The next pod of the name begins with an empty record and a first copy.
LEMMA SyncInvUpAgain == ASSUME Calm, SyncInv, SY!UpAgain PROVE SyncInv'
<1> USE DEF SyncInv
<1>1. /\ at' \in [SY!Whoever -> SyncPlaces] /\ at'[Closer] = "none" /\ at'[Starter] = "pull"
      /\ at[Closer] = "over" /\ \A c \in Commands : at[c] \in {"none", "over"}
      /\ \A c \in Commands : at'[c] = at[c]
      /\ manifest' = {} /\ last' = 0
      /\ UNCHANGED <<clock, here, there, sync, both, removed, met>>
    BY DEF SY!UpAgain, SY!Whoever, SY!TypeOK, Calm, SY!sides, SY!ghosts, SyncPlaces
<1>2. SY!TypeOK'
    BY <1>1 DEF SY!TypeOK, SyncPlaces
<1>3. SyncHeld'
  <2>1. sync.step # "none" => sync.by = Starter /\ sync.does = "pull"
      BY <1>1 DEF SyncHeld, SY!Whoever
  <2> QED
      BY <1>1, <2>1 DEF SyncHeld, SY!Whoever
<1>4. SyncFirst' /\ Listings' /\ NotBack' /\ Copied'
    BY <1>1 DEF SyncFirst, Listings, NotBack, Copied
<1>5. OneByOne'
    BY <1>1 DEF OneByOne, SyncActive, SY!Whoever
<1>6. Seen' /\ SyncSent'
    BY <1>1 DEF Seen, SyncPending, SyncSent
<1> QED
    BY <1>2, <1>3, <1>4, <1>5, <1>6

-----------------------------------------------------------------------------
\* The lock is taken with nothing listed yet.
LEMMA SyncInvLock == ASSUME Calm, SyncInv, NEW w \in SY!Whoever, SY!Lock(w) PROVE SyncInv'
<1> USE DEF SyncInv
<1>1. PICK s \in SyncRecord :
         /\ sync' = s /\ s.by = w /\ s.does = at[w] /\ s.does \in {"push", "pull"}
         /\ s.step = IF s.does = "push" THEN "here" ELSE "there"
  <2> DEFINE s == [SY!Idle EXCEPT !.by = w, !.does = at[w],
                               !.step = IF at[w] = "push" THEN "here" ELSE "there"]
  <2>1. at[w] \in {"push", "pull"}
      BY DEF SY!Lock
  <2>2. /\ s \in SyncRecord /\ s.by = w /\ s.does = at[w]
        /\ s.step = IF s.does = "push" THEN "here" ELSE "there"
      BY <2>1 DEF SY!Idle, SyncRecord
  <2>3. sync' = s
      BY DEF SY!Lock
  <2> QED
      BY <2>1, <2>2, <2>3
<1>2. sync.does = "nothing" /\ sync.step = "none"
    BY DEF SY!Lock, SY!Idle
<1>3. UNCHANGED <<clock, here, there, manifest, last, at, both, removed, met>>
    BY DEF SY!Lock, SY!sides, SY!record, SY!ghosts
<1>4. SY!TypeOK'
    BY <1>1, <1>3 DEF SY!TypeOK, SyncRecord
<1>5. SyncHeld' /\ Listings' /\ NotBack' /\ Copied'
    BY <1>1, <1>3 DEF SyncHeld, Listings, NotBack, Copied
<1>6. OneByOne' /\ SyncSent' /\ SyncFirst'
    BY <1>3 DEF OneByOne, SyncActive, SyncSent, SyncFirst
<1>7. Seen'
    BY <1>1, <1>2, <1>3 DEF Seen, SyncPending
<1> QED
    BY <1>4, <1>5, <1>6, <1>7

\* Done or failed, the lock is free, and the dispatch goes on.
LEMMA Unlocked ==
    ASSUME Calm, SY!TypeOK, SyncHeld, sync.step # "none", NEW done \in BOOLEAN, SY!Unlock(done)
    PROVE  /\ sync' \in SyncRecord /\ sync'.step = "none" /\ sync'.does = "nothing"
           /\ sync'.by \in SY!Whoever \cup {None} /\ sync'.todo \subseteq Files
           /\ at' \in [SY!Whoever -> SyncPlaces]
           /\ at'[sync.by] \in {"run", "over", "failed"}
           /\ at'[sync.by] = "run" => sync.by \in Commands /\ sync.does = "push"
           /\ sync.by \in Commands /\ sync.does = "push" => at'[sync.by] = "run"
           /\ at'[sync.by] = "failed" => sync.by = Starter /\ ~done
           /\ \A v \in SY!Whoever \ {sync.by} : at'[v] = at[v]
<1>1. sync' \in SyncRecord /\ sync'.step = "none" /\ sync'.does = "nothing"
    BY DEF SY!Unlock, SY!Idle, SyncRecord
<1>2. sync.by \in SY!Whoever /\ at[sync.by] = sync.does /\ sync.does \in {"push", "pull"}
    BY DEF SyncHeld
<1> DEFINE v == IF ~done /\ at[sync.by] = "pull" /\ sync.by = Starter THEN "failed"
                ELSE SY!After(sync.by)
<1>3. /\ v \in {"run", "over", "failed"}
      /\ v = "run" => sync.by \in Commands /\ sync.does = "push"
      /\ sync.by \in Commands /\ sync.does = "push" => v = "run"
      /\ v = "failed" => sync.by = Starter /\ ~done
    BY <1>2 DEF SY!After, Calm
<1>4. at' = [at EXCEPT ![sync.by] = v]
    BY DEF SY!Unlock
<1> HIDE DEF v
<1>5. /\ at' \in [SY!Whoever -> SyncPlaces] /\ at'[sync.by] = v
      /\ \A w \in SY!Whoever \ {sync.by} : at'[w] = at[w]
    BY <1>2, <1>3, <1>4 DEF SY!TypeOK, SyncPlaces
<1> QED
    BY <1>1, <1>3, <1>5 DEF SyncRecord

\* Whoever failed, the pod's places for the flush and the first copy stay theirs.
LEMMA HeldAfter ==
    ASSUME Calm, SY!TypeOK, SyncHeld, sync.step # "none", NEW done \in BOOLEAN, SY!Unlock(done),
           met' \in BOOLEAN
    PROVE  SyncHeld'
<1>1. sync' \in SyncRecord /\ sync'.step = "none"
    BY Unlocked
<1>2. /\ at'[sync.by] \in {"run", "over", "failed"}
      /\ at'[sync.by] = "run" => sync.by \in Commands
      /\ at'[sync.by] = "failed" => sync.by = Starter
      /\ \A v \in SY!Whoever \ {sync.by} : at'[v] = at[v]
    BY Unlocked
<1>3. at'[Closer] \in {"none", "push", "over"} /\ at'[Starter] \in {"pull", "over", "failed"}
    BY <1>2 DEF SyncHeld, SY!Whoever, Calm
<1> QED
    BY <1>1, <1>3 DEF SyncHeld

\* A sync that is not the first copy comes after it.
LEMMA FirstAfter ==
    ASSUME Calm, SY!TypeOK, SyncHeld, SyncFirst, sync.step # "none", NEW done \in BOOLEAN, SY!Unlock(done)
    PROVE  SyncFirst'
<1>1. sync.by \in SY!Whoever /\ at[sync.by] = sync.does /\ sync.does \in {"push", "pull"}
    BY DEF SyncHeld
<1>2. /\ at'[sync.by] \in {"run", "over", "failed"}
      /\ \A v \in SY!Whoever \ {sync.by} : at'[v] = at[v]
    BY Unlocked
<1>3. at'[Starter] = "pull" => sync.by # Starter /\ at[Starter] = "pull"
    BY <1>2 DEF SY!Whoever
<1>4. at[Starter] = "pull" => sync.by = Starter
    BY <1>1 DEF SyncFirst, SY!Whoever
<1> QED
    BY <1>3, <1>4 DEF SyncFirst

\* A step that fails leaves both sides and the record where they were.
LEMMA SyncInvFail ==
    ASSUME Calm, SyncInv, sync.step # "none", SY!Fail,
           UNCHANGED <<clock, SY!sides, SY!record, both, removed>>
    PROVE  SyncInv'
<1> USE DEF SyncInv
<1>1. /\ SY!Unlock(FALSE) /\ met' = TRUE /\ UNCHANGED <<clock, here, there, manifest, last, both>>
    BY DEF SY!Fail, SY!sides, SY!record
<1>2. /\ sync'.step = "none" /\ sync'.does = "nothing"
      /\ sync'.by \in SY!Whoever \cup {None} /\ sync'.todo \subseteq Files
      /\ at' \in [SY!Whoever -> SyncPlaces]
    BY <1>1, Unlocked
<1>3. SY!TypeOK'
    BY <1>1, <1>2 DEF SY!TypeOK, SyncPlaces
<1>4. SyncHeld'
    BY <1>1, HeldAfter
<1>5. Listings' /\ NotBack' /\ Copied'
    BY <1>2 DEF Listings, NotBack, Copied
<1>6. OneByOne' /\ Seen' /\ SyncSent'
    BY <1>1 DEF OneByOne, Seen, SyncSent
<1>7. SyncFirst'
    BY <1>1, FirstAfter
<1> QED
    BY <1>3, <1>4, <1>5, <1>6, <1>7

\* A listing is what is there.
LEMMA SyncInvList ==
    ASSUME Calm, SyncInv, NEW s \in SyncRecord, sync' = s, s.by = sync.by, s.does = sync.does,
           s.todo = sync.todo,
           \/ /\ sync.step = "here" /\ s.here = here /\ s.there = sync.there
              /\ s.step = IF sync.does = "push" THEN "there" ELSE "remove"
           \/ /\ sync.step = "there" /\ s.there = there /\ s.here = sync.here
              /\ s.step = IF sync.does = "push" THEN "remove" ELSE "here",
           UNCHANGED <<clock, SY!sides, SY!record, at, SY!ghosts>>
    PROVE  SyncInv'
<1> USE DEF SyncInv
<1>1. UNCHANGED <<clock, here, there, manifest, last, at, both, removed, met>>
    BY DEF SY!sides, SY!record, SY!ghosts
<1>2. s.step \in {"here", "there", "remove"} /\ sync.step \in {"here", "there"}
    OBVIOUS
<1>3. SY!TypeOK'
    BY <1>1 DEF SY!TypeOK, SyncRecord
<1>4. SyncHeld'
    BY <1>1, <1>2 DEF SyncHeld
<1>5. Listings'
    BY <1>1 DEF Listings, SyncHeld
<1>6. NotBack' /\ Copied'
    BY <1>2 DEF NotBack, Copied
<1>7. OneByOne' /\ SyncSent' /\ SyncFirst'
    BY <1>1 DEF OneByOne, SyncActive, SyncSent, SyncFirst
<1>8. Seen'
    BY <1>1, <1>2 DEF Seen, SyncPending
<1> QED
    BY <1>3, <1>4, <1>5, <1>6, <1>7, <1>8

\* The copy is listed.
LEMMA SyncInvListHere == ASSUME Calm, SyncInv, SY!ListHere PROVE SyncInv'
<1> DEFINE s == [sync EXCEPT !.here = here,
                             !.step = IF sync.does = "push" THEN "there" ELSE "remove"]
<1>1. here \in [Files -> Nat] /\ sync \in SyncRecord /\ sync.step = "here"
    BY DEF SyncInv, SY!TypeOK, SyncHeld, SY!ListHere
<1>2. /\ s \in SyncRecord /\ s.by = sync.by /\ s.does = sync.does /\ s.todo = sync.todo
      /\ s.here = here /\ s.there = sync.there
      /\ s.step = IF sync.does = "push" THEN "there" ELSE "remove"
    BY <1>1 DEF SyncRecord
<1>3. sync' = s /\ UNCHANGED <<clock, SY!sides, SY!record, at, SY!ghosts>>
    BY DEF SY!ListHere
<1> HIDE DEF s
<1> QED
    BY <1>1, <1>2, <1>3, SyncInvList

\* The machine is listed, or it fails.
LEMMA SyncInvListThere == ASSUME Calm, SyncInv, SY!ListThere PROVE SyncInv'
<1>1. CASE SY!Fail
    BY <1>1, SyncInvFail DEF SY!ListThere
<1>2. CASE ~SY!Fail
  <2> DEFINE s == [sync EXCEPT !.there = there,
                               !.step = IF sync.does = "push" THEN "remove" ELSE "here"]
  <2>1. there \in [Files -> Nat] /\ sync \in SyncRecord /\ sync.step = "there"
      BY DEF SyncInv, SY!TypeOK, SyncHeld, SY!ListThere
  <2>2. /\ s \in SyncRecord /\ s.by = sync.by /\ s.does = sync.does /\ s.todo = sync.todo
        /\ s.there = there /\ s.here = sync.here
        /\ s.step = IF sync.does = "push" THEN "remove" ELSE "here"
      BY <2>1 DEF SyncRecord
  <2>3. sync' = s /\ UNCHANGED <<clock, SY!sides, SY!record, at, SY!ghosts>>
      BY <1>2 DEF SY!ListThere, SY!ghosts
  <2> HIDE DEF s
  <2> QED
      BY <2>1, <2>2, <2>3, SyncInvList
<1> QED
    BY <1>1, <1>2

-----------------------------------------------------------------------------
\* What the record has and the machine has not is deleted here: by a push nothing
\* that is not over, by a pull only what has not changed since the push before it.
LEMMA RemovedHere ==
    ASSUME Calm, SyncInv, SY!RemoveHere
    PROVE  /\ here' \in [Files -> 0 .. clock]
           /\ \A f \in Files :
                 /\ here'[f] = IF f \in SY!GoneThere THEN 0 ELSE here[f]
                 /\ f \in SY!GoneThere => /\ f \in manifest /\ there[f] = 0
                                       /\ here[f] <= last
           /\ ~met => \A f \in SY!GoneThere : here[f] <= both[f]
<1> USE DEF SyncInv
<1>1. sync.step = "remove" /\ sync.does \in {"push", "pull"} /\ sync.by \in SY!Whoever
    BY DEF SY!RemoveHere, SyncHeld
<1>2. sync.here = here /\ sync.there = there
    BY <1>1 DEF Listings
<1>3. here \in [Files -> 0 .. clock] /\ clock \in Nat /\ manifest \subseteq Files
    BY DEF SY!TypeOK
<1>4. here' \in [Files -> 0 .. clock]
    BY <1>3 DEF SY!RemoveHere
<1>5. \A f \in Files :
         /\ here'[f] = IF f \in SY!GoneThere THEN 0 ELSE here[f]
         /\ f \in SY!GoneThere => f \in manifest /\ there[f] = 0 /\ here[f] <= last
    BY <1>2 DEF SY!RemoveHere, SY!GoneThere
<1>6. ASSUME ~met, NEW f \in SY!GoneThere PROVE here[f] <= both[f]
  <2>1. f \in Files /\ f \in manifest /\ there[f] = 0 /\ here[f] <= last
      BY <1>3, <1>5 DEF SY!GoneThere
  <2>2. SyncPending
      BY <1>1, <1>6, <2>1 DEF Seen
  <2>3. at[sync.by] = sync.does
      BY <1>1 DEF SyncHeld
  <2>4. PICK w \in SY!Whoever : at[w] \in {"run", "pull"} /\ (w \in Commands \/ w = Starter)
      BY <2>2 DEF SyncPending, SY!Whoever
  <2>5. w = sync.by
      BY <1>1, <1>6, <2>3, <2>4 DEF OneByOne, SyncActive
  <2>6. CASE w \in Commands
      BY <1>6, <2>1, <2>4, <2>6 DEF SyncSent
  <2>7. CASE w = Starter
      BY <2>1, <2>4, <2>7 DEF SyncHeld, SyncFirst
  <2> QED
      BY <2>4, <2>6, <2>7
<1> QED
    BY <1>4, <1>5, <1>6

\* The copy has nothing left of what went from the machine.
LEMMA SyncInvRemoveHere == ASSUME Calm, SyncInv, SY!RemoveHere PROVE SyncInv'
<1> USE DEF SyncInv
<1>1. /\ here' \in [Files -> 0 .. clock]
      /\ \A f \in Files :
            /\ here'[f] = IF f \in SY!GoneThere THEN 0 ELSE here[f]
            /\ f \in SY!GoneThere => f \in manifest /\ there[f] = 0 /\ here[f] <= last
      /\ ~met => \A f \in SY!GoneThere : here[f] <= both[f]
    BY RemovedHere
<1>2. /\ sync.step = "remove" /\ sync \in SyncRecord /\ sync.does \in {"push", "pull"}
      /\ sync.here = here /\ sync.there = there
    BY DEF SY!RemoveHere, SyncHeld, Listings
<1>3. PICK s \in SyncRecord :
         /\ sync' = s /\ s.by = sync.by /\ s.does = sync.does /\ s.todo = Files
         /\ s.step = IF sync.does = "push" THEN "rm" ELSE "copy"
         /\ s.here = here' /\ s.there = there
  <2> DEFINE s == [sync EXCEPT !.step = IF sync.does = "push" THEN "rm" ELSE "copy",
                               !.here = here', !.todo = Files]
  <2>1. here' \in [Files -> Nat] /\ here' = [f \in Files |-> IF f \in SY!GoneThere THEN 0
                                                           ELSE sync.here[f]]
      BY <1>1, <1>2 DEF SY!RemoveHere, SY!TypeOK
  <2>2. /\ s \in SyncRecord /\ s.by = sync.by /\ s.does = sync.does /\ s.todo = Files
        /\ s.step = IF sync.does = "push" THEN "rm" ELSE "copy"
        /\ s.here = here' /\ s.there = there
      BY <1>2, <2>1 DEF SyncRecord
  <2>3. sync' = s
      BY <2>1 DEF SY!RemoveHere
  <2> QED
      BY <2>2, <2>3
<1>4. UNCHANGED <<clock, there, manifest, last, at, both, removed, met>>
    BY DEF SY!RemoveHere, SY!record, SY!ghosts
<1>5. /\ clock \in Nat /\ here \in [Files -> 0 .. clock] /\ last \in 0 .. clock
      /\ both \in [Files -> 0 .. clock] /\ manifest \subseteq Files
    BY DEF SY!TypeOK
<1>6. SY!TypeOK'
    BY <1>1, <1>3, <1>4 DEF SY!TypeOK, SyncRecord
<1>7. SyncHeld' /\ SyncFirst'
    BY <1>2, <1>3, <1>4 DEF SyncHeld, SyncFirst
<1>8. Listings'
    BY <1>2, <1>3, <1>4 DEF Listings
<1>9. NotBack'
  <2>1. ASSUME NEW f \in manifest, there[f] = 0 PROVE here'[f] = 0 \/ here'[f] > last
    <3>1. CASE f \in SY!GoneThere
        BY <1>1, <1>5, <3>1
    <3>2. CASE f \notin SY!GoneThere
        BY <1>1, <1>2, <1>5, <2>1, <3>2 DEF SY!GoneThere
    <3> QED
        BY <3>1, <3>2
  <2> QED
      BY <1>3, <1>4, <2>1 DEF NotBack
<1>10. Copied'
    BY <1>3 DEF Copied
<1>11. OneByOne' /\ Seen'
    BY <1>2, <1>3, <1>4 DEF OneByOne, SyncActive, Seen, SyncPending
<1>12. SyncSent'
    BY <1>1, <1>4, <1>5 DEF SyncSent
<1> QED
    BY <1>6, <1>7, <1>8, <1>9, <1>10, <1>11, <1>12

\* What the record has and the copy has not is deleted there, all of it seen here.
LEMMA RemovedThere ==
    ASSUME Calm, SyncInv, SY!RemoveThere, ~SY!Fail
    PROVE  /\ sync.step = "rm" /\ sync.does = "push" /\ sync.todo = Files
           /\ sync.here = here /\ sync.there = there
           /\ sync' = [sync EXCEPT !.step = "copy"]
           /\ UNCHANGED <<clock, here, manifest, last, at, both, removed, met>>
           /\ there' \in [Files -> 0 .. clock]
           /\ \A f \in Files : /\ there'[f] \in {0, there[f]}
                               /\ there'[f] # there[f] => here[f] = 0
           /\ ~met => ~SyncPending /\ \A f \in Files : there[f] <= both[f]
<1> USE DEF SyncInv
<1>1. /\ sync.step = "rm" /\ sync.does = "push" /\ sync.todo = Files
      /\ sync.by \in SY!Whoever /\ at[sync.by] = "push"
      /\ sync.here = here /\ sync.there = there
    BY DEF SY!RemoveThere, SyncHeld, Listings
<1>2. /\ sync' = [sync EXCEPT !.step = "copy"]
      /\ there' = [f \in Files |-> IF f \in SY!GoneHere THEN 0 ELSE there[f]]
      /\ UNCHANGED <<clock, here, manifest, last, at, both, removed, met>>
    BY DEF SY!RemoveThere, SY!record
<1>3. there \in [Files -> 0 .. clock] /\ clock \in Nat
    BY DEF SY!TypeOK
<1>4. /\ there' \in [Files -> 0 .. clock]
      /\ \A f \in Files : /\ there'[f] \in {0, there[f]}
                          /\ there'[f] # there[f] => here[f] = 0
    BY <1>1, <1>2, <1>3 DEF SY!GoneHere
<1>5. ~met => ~SyncPending
    BY <1>1 DEF OneByOne, SyncActive, SyncPending, SY!Whoever
<1> QED
    BY <1>1, <1>2, <1>4, <1>5 DEF Seen

\* A push deletes on the machine, or it fails.
LEMMA SyncInvRemoveThere == ASSUME Calm, SyncInv, SY!RemoveThere PROVE SyncInv'
<1> USE DEF SyncInv
<1>1. CASE SY!Fail
  <2>1. sync' = SY!Idle /\ SY!Idle.step # "copy"
      BY <1>1 DEF SY!Fail, SY!Unlock, SY!Idle
  <2>2. sync' # [sync EXCEPT !.step = "copy"]
      BY <2>1 DEF SyncHeld, SyncRecord
  <2>3. UNCHANGED <<clock, SY!sides, SY!record, both, removed>>
      BY <2>2 DEF SY!RemoveThere, SY!sides
  <2> QED
      BY <1>1, <2>3, SyncInvFail DEF SY!RemoveThere
<1>2. CASE ~SY!Fail
  <2>1. /\ sync.step = "rm" /\ sync.does = "push" /\ sync.todo = Files
        /\ sync.here = here /\ sync.there = there
        /\ sync' = [sync EXCEPT !.step = "copy"]
        /\ UNCHANGED <<clock, here, manifest, last, at, both, removed, met>>
        /\ there' \in [Files -> 0 .. clock]
        /\ \A f \in Files : /\ there'[f] \in {0, there[f]}
                            /\ there'[f] # there[f] => here[f] = 0
      BY <1>2, RemovedThere
  <2>2. ~met => ~SyncPending /\ \A f \in Files : there[f] <= both[f]
      BY <1>2, RemovedThere
  <2>3. /\ sync' \in SyncRecord /\ sync'.step = "copy" /\ sync'.does = "push"
        /\ sync'.todo = Files /\ sync'.by = sync.by /\ sync'.here = here
      BY <2>1 DEF SyncHeld, SyncRecord
  <2>4. SY!TypeOK'
      BY <2>1, <2>3 DEF SY!TypeOK, SyncRecord
  <2>5. SyncHeld' /\ SyncFirst'
      BY <2>1, <2>3 DEF SyncHeld, SyncFirst
  <2>6. Listings'
      BY <2>1, <2>3 DEF Listings
  <2>7. NotBack'
      BY <2>1, <2>3 DEF NotBack, SY!TypeOK
  <2>8. Copied'
      BY <2>3 DEF Copied
  <2>9. OneByOne' /\ SyncSent'
      BY <2>1 DEF OneByOne, SyncActive, SyncSent
  <2>10. Seen'
    <3>1. \A f \in Files : there[f] <= both[f] => there'[f] <= both'[f]
        BY <2>1 DEF SY!TypeOK
    <3> QED
        BY <2>1, <2>2, <2>3, <3>1 DEF Seen, SyncPending
  <2> QED
      BY <2>4, <2>5, <2>6, <2>7, <2>8, <2>9, <2>10
<1> QED
    BY <1>1, <1>2

\* One file goes over, unless the other side has it newer.
LEMMA Over ==
    ASSUME Calm, SyncInv, NEW f \in Files, SY!Copy(f)
    PROVE  /\ sync.step = "copy" /\ f \in sync.todo /\ sync.does \in {"push", "pull"}
           /\ sync.by \in SY!Whoever /\ at[sync.by] = sync.does
           /\ UNCHANGED <<clock, manifest, last, at, removed, met>>
           /\ here' \in [Files -> 0 .. clock] /\ there' \in [Files -> 0 .. clock]
           /\ both' \in [Files -> 0 .. clock]
           /\ \A g \in Files \ {f} : /\ here'[g] = here[g] /\ there'[g] = there[g]
                                     /\ both'[g] = both[g]
           /\ both'[f] >= both[f]
           /\ sync.does = "push" =>
                 /\ here' = here /\ there'[f] >= here[f] /\ here[f] <= both'[f]
                 /\ there'[f] \in {here[f], there[f]} /\ there'[f] >= there[f]
           /\ sync.does = "pull" =>
                 /\ there' = there /\ here'[f] >= there[f] /\ there[f] <= both'[f]
                 /\ here'[f] \in {here[f], there[f]} /\ here'[f] >= here[f]
<1> USE DEF SyncInv
<1>1. /\ sync.step = "copy" /\ f \in sync.todo /\ sync.does \in {"push", "pull"}
      /\ sync.by \in SY!Whoever /\ at[sync.by] = sync.does
      /\ UNCHANGED <<clock, manifest, last, at, removed, met>>
    BY DEF SY!Copy, SyncHeld, SY!record
<1>2. /\ here \in [Files -> 0 .. clock] /\ there \in [Files -> 0 .. clock]
      /\ both \in [Files -> 0 .. clock] /\ clock \in Nat
    BY DEF SY!TypeOK
<1>3. /\ here' \in [Files -> 0 .. clock] /\ there' \in [Files -> 0 .. clock]
      /\ \A g \in Files \ {f} : here'[g] = here[g] /\ there'[g] = there[g]
      /\ sync.does = "push" =>
            /\ here' = here /\ there'[f] >= here[f]
            /\ there'[f] \in {here[f], there[f]} /\ there'[f] >= there[f]
      /\ sync.does = "pull" =>
            /\ there' = there /\ here'[f] >= there[f]
            /\ here'[f] \in {here[f], there[f]} /\ here'[f] >= here[f]
  <2>1. CASE sync.does = "push"
    <3>1. here' = here /\ there' = [there EXCEPT ![f] = SY!Newest(here[f], there[f])]
        BY <2>1 DEF SY!Copy, SY!CopyNewer
    <3> QED
        BY <1>2, <2>1, <3>1 DEF SY!Newest
  <2>2. CASE sync.does = "pull"
    <3>1. there' = there /\ here' = [here EXCEPT ![f] = SY!Newest(there[f], here[f])]
        BY <2>2 DEF SY!Copy, SY!CopyNewer
    <3> QED
        BY <1>2, <2>2, <3>1 DEF SY!Newest
  <2> QED
      BY <1>1, <2>1, <2>2
<1>4. both' = [both EXCEPT ![f] = SY!Newest(both[f], SY!Oldest(here'[f], there'[f]))]
    BY DEF SY!Copy, SY!SeeBoth
<1>5. /\ both' \in [Files -> 0 .. clock] /\ \A g \in Files \ {f} : both'[g] = both[g]
      /\ both'[f] >= both[f] /\ both'[f] >= SY!Oldest(here'[f], there'[f])
    BY <1>2, <1>3, <1>4 DEF SY!Newest, SY!Oldest
<1>6. /\ sync.does = "push" => here[f] <= both'[f]
      /\ sync.does = "pull" => there[f] <= both'[f]
    BY <1>2, <1>3, <1>5 DEF SY!Oldest
<1> QED
    BY <1>1, <1>3, <1>5, <1>6

\* The file is over, both sides have had it, and the rest is as it was.
LEMMA SyncInvCopy == ASSUME Calm, SyncInv, NEW f \in Files, SY!Copy(f) PROVE SyncInv'
<1> USE DEF SyncInv
<1>1. /\ sync.step = "copy" /\ f \in sync.todo /\ sync.does \in {"push", "pull"}
      /\ sync.by \in SY!Whoever /\ at[sync.by] = sync.does
      /\ UNCHANGED <<clock, manifest, last, at, removed, met>>
      /\ here' \in [Files -> 0 .. clock] /\ there' \in [Files -> 0 .. clock]
      /\ both' \in [Files -> 0 .. clock]
      /\ \A g \in Files \ {f} : /\ here'[g] = here[g] /\ there'[g] = there[g]
                                /\ both'[g] = both[g]
      /\ both'[f] >= both[f]
    BY Over
<1>2. sync.does = "push" =>
         /\ here' = here /\ there'[f] >= here[f] /\ here[f] <= both'[f]
         /\ there'[f] \in {here[f], there[f]} /\ there'[f] >= there[f]
    BY Over
<1>3. sync.does = "pull" =>
         /\ there' = there /\ here'[f] >= there[f] /\ there[f] <= both'[f]
         /\ here'[f] \in {here[f], there[f]} /\ here'[f] >= here[f]
    BY Over
<1>4. /\ sync' \in SyncRecord /\ sync'.step = "copy" /\ sync'.does = sync.does
      /\ sync'.todo = sync.todo \ {f} /\ sync'.by = sync.by
      /\ sync'.here = sync.here /\ sync'.there = sync.there
    BY DEF SY!Copy, SyncHeld, SyncRecord
<1>5. /\ here \in [Files -> 0 .. clock] /\ there \in [Files -> 0 .. clock]
      /\ both \in [Files -> 0 .. clock] /\ clock \in Nat /\ last \in 0 .. clock
      /\ manifest \subseteq Files
    BY DEF SY!TypeOK
<1>6. SY!TypeOK'
    BY <1>1, <1>4 DEF SY!TypeOK, SyncRecord
<1>7. SyncHeld' /\ SyncFirst'
    BY <1>1, <1>4 DEF SyncHeld, SyncFirst
<1>8. Listings'
    BY <1>1, <1>2, <1>3, <1>4 DEF Listings
<1>9. NotBack'
    BY <1>1, <1>2, <1>4, <1>5 DEF NotBack
<1>10. Copied'
    BY <1>1, <1>2, <1>3, <1>4, <1>5 DEF Copied
<1>11. OneByOne'
    BY <1>1 DEF OneByOne, SyncActive
<1>12. Seen'
  <2>1. ASSUME ~met, ~SyncPending
        PROVE  /\ \A g \in Files : there'[g] <= both'[g]
               /\ sync.does = "push"
    <3>1. sync.does = "push"
        BY <1>1, <2>1 DEF SyncPending, SyncHeld, SY!Whoever
    <3>2. \A g \in Files : there[g] <= both[g]
        BY <2>1 DEF Seen
    <3>3. there'[f] <= both'[f]
        BY <1>1, <1>2, <1>5, <3>1, <3>2
    <3> QED
        BY <1>1, <3>1, <3>2, <3>3
  <2> QED
      BY <1>1, <1>4, <2>1 DEF Seen, SyncPending
<1>13. SyncSent'
  <2>1. ASSUME NEW g \in Files, here[g] <= last => here[g] <= both[g], here'[g] <= last
        PROVE  here'[g] <= both'[g]
      BY <1>1, <1>2, <1>3, <1>5, <2>1
  <2> QED
      BY <1>1, <2>1 DEF SyncSent
<1> QED
    BY <1>6, <1>7, <1>8, <1>9, <1>10, <1>11, <1>12, <1>13

\* A pull ends what was due, and a push of a command begins it.
LEMMA SyncInvRecord == ASSUME Calm, SyncInv, SY!Record PROVE SyncInv'
<1> USE DEF SyncInv
<1>1. /\ sync.step = "copy" /\ sync.todo = {} /\ SY!Unlock(TRUE) /\ last' = clock
      /\ manifest' = IF sync.does = "push" THEN SY!Listed(sync.here) ELSE SY!Listed(sync.there)
      /\ UNCHANGED <<clock, here, there, both, removed, met>>
    BY DEF SY!Record, SY!sides, SY!ghosts
<1>2. /\ sync.does \in {"push", "pull"} /\ sync.by \in SY!Whoever /\ at[sync.by] = sync.does
      /\ met \in BOOLEAN
    BY <1>1 DEF SyncHeld
<1>3. /\ sync'.step = "none" /\ sync'.does = "nothing"
      /\ sync'.by \in SY!Whoever \cup {None} /\ sync'.todo \subseteq Files
      /\ at' \in [SY!Whoever -> SyncPlaces]
    BY <1>1, Unlocked
<1>4. /\ at'[sync.by] \in {"run", "over"}
      /\ at'[sync.by] = "run" => sync.by \in Commands /\ sync.does = "push"
      /\ sync.by \in Commands /\ sync.does = "push" => at'[sync.by] = "run"
      /\ \A v \in SY!Whoever \ {sync.by} : at'[v] = at[v]
    BY <1>1, Unlocked
<1>5. /\ here \in [Files -> 0 .. clock] /\ there \in [Files -> 0 .. clock]
      /\ both \in [Files -> 0 .. clock] /\ clock \in Nat
    BY DEF SY!TypeOK
<1>6. /\ sync.does = "push" =>
            /\ manifest' = {f \in Files : here[f] # 0}
            /\ \A f \in Files : there[f] >= here[f] /\ here[f] <= both[f]
      /\ sync.does = "pull" =>
            /\ manifest' = {f \in Files : there[f] # 0}
            /\ \A f \in Files : here[f] >= there[f] /\ there[f] <= both[f]
    BY <1>1 DEF Listings, Copied, SY!Listed
<1>7. SY!TypeOK'
    BY <1>1, <1>2, <1>3, <1>5, <1>6 DEF SY!TypeOK, SyncPlaces
<1>8. SyncHeld'
    BY <1>1, <1>2, HeldAfter
<1>9. SyncFirst'
    BY <1>1, FirstAfter
<1>10. Listings' /\ NotBack' /\ Copied'
    BY <1>3 DEF Listings, NotBack, Copied
<1>11. OneByOne'
    BY <1>1, <1>2, <1>4 DEF OneByOne, SyncActive
<1>12. Seen'
  <2>1. ASSUME ~met, ~SyncPending'
        PROVE  /\ \A f \in Files : there[f] <= both[f]
               /\ \A f \in manifest' : there[f] # 0
    <3>1. CASE sync.does = "pull"
        BY <1>6, <3>1
    <3>2. CASE sync.does = "push"
      <4>1. ~SyncPending
          BY <1>2, <2>1, <3>2 DEF OneByOne, SyncActive, SyncPending, SY!Whoever
      <4>2. \A f \in Files : there[f] <= both[f]
          BY <2>1, <4>1 DEF Seen
      <4>3. \A f \in manifest' : there[f] # 0
          BY <1>5, <1>6, <3>2
      <4> QED
          BY <4>2, <4>3
    <3> QED
        BY <1>2, <3>1, <3>2
  <2> QED
      BY <1>1, <2>1 DEF Seen
<1>13. SyncSent'
  <2>1. ASSUME ~met, NEW c \in Commands, at'[c] \in {"run", "pull"}
        PROVE  \A f \in Files : here[f] <= both[f]
    <3>1. c \in SY!Whoever
        BY DEF SY!Whoever
    <3>2. CASE c = sync.by
        BY <1>4, <1>6, <2>1, <3>2
    <3>3. CASE c # sync.by
        BY <1>2, <1>4, <2>1, <3>1, <3>3 DEF OneByOne, SyncActive
    <3> QED
        BY <3>2, <3>3
  <2> QED
      BY <1>1, <2>1 DEF SyncSent
<1> QED
    BY <1>7, <1>8, <1>9, <1>10, <1>11, <1>12, <1>13

-----------------------------------------------------------------------------
\* Before the first copy.
LEMMA SyncInvInit == ASSUME Calm, SY!Init PROVE SyncInv
<1>1. /\ clock = 1 /\ last = 0 /\ manifest = {} /\ met = FALSE
      /\ here = [f \in Files |-> 0] /\ there \in [Files -> {0, 1}]
      /\ both = [f \in Files |-> 0]
      /\ at = [w \in SY!Whoever |-> IF w = Starter THEN "pull" ELSE "none"]
    BY DEF SY!Init
<1>2. /\ sync \in SyncRecord /\ sync.step = "none" /\ sync.does = "nothing"
      /\ sync.by = None /\ sync.todo = {}
    BY DEF SY!Init, SY!Idle, SyncRecord
<1>3. Starter \in SY!Whoever /\ Closer \in SY!Whoever /\ Commands \subseteq SY!Whoever
    BY DEF SY!Whoever
<1>4. SY!TypeOK
  <2>1. there \in [Files -> 0 .. clock]
      BY <1>1
  <2> QED
      BY <1>1, <1>2, <2>1 DEF SY!TypeOK
<1>5. SyncHeld /\ SyncFirst
    BY <1>1, <1>2, <1>3 DEF SyncHeld, SyncFirst, Calm
<1>6. Listings /\ NotBack /\ Copied
    BY <1>2 DEF Listings, NotBack, Copied
<1>7. OneByOne /\ Seen /\ SyncSent
    BY <1>1, <1>3 DEF OneByOne, SyncActive, Seen, SyncPending, SyncSent, Calm
<1> QED
    BY <1>4, <1>5, <1>6, <1>7 DEF SyncInv

\* Every step keeps it.
LEMMA SyncInvNext == ASSUME Calm, SyncInv, [SY!Next]_(SY!vars) PROVE SyncInv'
<1>1. ASSUME NEW f \in Files, SY!EditHere(f) \/ SY!EditThere(f) \/ SY!Copy(f)
      PROVE  SyncInv'
    BY <1>1, SyncInvEditHere, SyncInvEditThere, SyncInvCopy
<1>2. ASSUME NEW c \in Commands, SY!Dispatch(c) PROVE SyncInv'
    BY <1>2, SyncInvAsk DEF SY!Dispatch
<1>3. ASSUME NEW c \in Commands, SY!Ran(c) PROVE SyncInv'
    BY <1>3, SyncInvRan
<1>4. ASSUME SY!Down PROVE SyncInv'
    BY <1>4, SyncInvAsk DEF SY!Down
<1>5. ASSUME SY!UpAgain PROVE SyncInv'
    BY <1>5, SyncInvUpAgain
<1>6. ASSUME NEW w \in SY!Whoever, SY!Lock(w) PROVE SyncInv'
    BY <1>6, SyncInvLock
<1>7. ASSUME SY!ListHere \/ SY!ListThere \/ SY!RemoveHere \/ SY!RemoveThere PROVE SyncInv'
    BY <1>7, SyncInvListHere, SyncInvListThere, SyncInvRemoveHere, SyncInvRemoveThere
<1>8. ASSUME SY!CopyFails PROVE SyncInv'
    BY <1>8, SyncInvFail DEF SY!CopyFails
<1>9. ASSUME SY!Record PROVE SyncInv'
    BY <1>9, SyncInvRecord
<1>10. CASE UNCHANGED SY!vars
    BY <1>10 DEF SY!vars, SY!sides, SY!record, SY!ghosts, SyncInv, SY!TypeOK, SyncHeld,
           SyncFirst, Listings, NotBack,
                 Copied, OneByOne, SyncActive, Seen, SyncPending, SyncSent
<1> QED
    BY <1>1, <1>2, <1>3, <1>4, <1>5, <1>6, <1>7, <1>8, <1>9, <1>10 DEF SY!Next,
           SY!SyncStep

\* The inductive invariant holds, for any files, commands and failures.
THEOREM SyncInvAlways == ASSUME Calm PROVE SY!Spec => []SyncInv
<1>1. SY!Init => SyncInv
    BY SyncInvInit
<1>2. SyncInv /\ [SY!Next]_(SY!vars) => SyncInv'
    BY SyncInvNext
<1> QED
    BY <1>1, <1>2, PTL DEF SY!Spec

-----------------------------------------------------------------------------
\* What changes a side without an edit is a removal or a copy.
LEMMA Moves ==
    ASSUME Calm, SyncInv, SY!Next, SY!SyncMoves
    PROVE  \/ UNCHANGED SY!sides
           \/ SY!RemoveHere
           \/ SY!RemoveThere /\ ~SY!Fail
           \/ \E f \in Files : SY!Copy(f)
<1>1. clock' # clock + 1
    BY DEF SY!SyncMoves, SyncInv, SY!TypeOK
<1>2. ASSUME NEW f \in Files, SY!EditHere(f) \/ SY!EditThere(f) PROVE FALSE
    BY <1>1, <1>2 DEF SY!EditHere, SY!EditThere, SY!Edit
<1>3. ASSUME NEW c \in Commands, SY!Dispatch(c) \/ SY!Ran(c) PROVE UNCHANGED SY!sides
    BY <1>3 DEF SY!Dispatch, SY!Ran
<1>4. ASSUME SY!Down \/ SY!UpAgain PROVE UNCHANGED SY!sides
    BY <1>4 DEF SY!Down, SY!UpAgain
<1>5. ASSUME NEW w \in SY!Whoever, SY!Lock(w) PROVE UNCHANGED SY!sides
    BY <1>5 DEF SY!Lock
<1>6. ASSUME SY!ListHere \/ SY!ListThere \/ SY!CopyFails \/ SY!Record
      PROVE  UNCHANGED SY!sides
    BY <1>6 DEF SY!ListHere, SY!ListThere, SY!CopyFails, SY!Record
<1>7. ASSUME SY!RemoveThere, SY!Fail PROVE UNCHANGED SY!sides
  <2>1. sync' = SY!Idle /\ SY!Idle.step # "copy"
      BY <1>7 DEF SY!Fail, SY!Unlock, SY!Idle
  <2>2. sync' # [sync EXCEPT !.step = "copy"]
      BY <2>1 DEF SyncInv, SyncHeld, SyncRecord
  <2> QED
      BY <1>7, <2>2 DEF SY!RemoveThere, SY!sides
<1> QED
    BY <1>2, <1>3, <1>4, <1>5, <1>6, <1>7 DEF SY!Next, SY!SyncStep

\* Of a single command, no deletion and no copy of a sync loses what only one side
\* has had.
LEMMA KeptStep ==
    ASSUME Calm, SyncInv, SY!Next, SY!SyncMoves, ~met, NEW f \in Files
    PROVE  /\ here'[f] < here[f] => here[f] <= both[f]
           /\ there'[f] < there[f] => there[f] <= both[f]
<1>1. /\ here \in [Files -> 0 .. clock] /\ there \in [Files -> 0 .. clock]
      /\ both \in [Files -> 0 .. clock] /\ clock \in Nat
    BY DEF SyncInv, SY!TypeOK
<1>2. CASE UNCHANGED SY!sides
    BY <1>1, <1>2 DEF SY!sides
<1>3. CASE SY!RemoveHere
  <2>1. there' = there
      BY <1>3 DEF SY!RemoveHere
  <2>2. here'[f] = IF f \in SY!GoneThere THEN 0 ELSE here[f]
      BY <1>3, RemovedHere
  <2>3. f \in SY!GoneThere => here[f] <= both[f]
      BY <1>3, RemovedHere
  <2> QED
      BY <1>1, <2>1, <2>2, <2>3
<1>4. CASE SY!RemoveThere /\ ~SY!Fail
  <2>1. here' = here /\ there[f] <= both[f]
      BY <1>4, RemovedThere
  <2> QED
      BY <1>1, <2>1
<1>5. CASE \E g \in Files : SY!Copy(g)
  <2>1. PICK g \in Files : SY!Copy(g)
      BY <1>5
  <2>2. here'[f] >= here[f] /\ there'[f] >= there[f]
    <3>1. CASE f = g
      <4>1. CASE sync.does = "push"
          BY <1>1, <2>1, <3>1, <4>1, Over
      <4>2. CASE sync.does = "pull"
          BY <1>1, <2>1, <3>1, <4>2, Over
      <4> QED
          BY <2>1, <4>1, <4>2, Over
    <3>2. CASE f # g
        BY <1>1, <2>1, <3>2, Over
    <3> QED
        BY <3>1, <3>2
  <2>3. here'[f] \in 0 .. clock /\ there'[f] \in 0 .. clock
      BY <2>1, Over
  <2> QED
      BY <1>1, <2>2, <2>3
<1> QED
    BY <1>2, <1>3, <1>4, <1>5, Moves

\* For any files and edits, as long as commands come one at a time and nothing
\* fails, a sync deletes or replaces only what the other side has had (sync.go:29,
\* 223).
THEOREM SyncKeepsConflicts == ASSUME Calm PROVE SY!Spec => SY!ConflictIsKept
<1>1. SyncInv /\ [SY!Next]_(SY!vars) =>
         [SY!SyncMoves /\ ~met => \A f \in Files :
            /\ here'[f] < here[f] => here[f] <= both[f]
            /\ there'[f] < there[f] => there[f] <= both[f]]_(SY!vars)
    BY KeptStep
<1> QED
    BY <1>1, SyncInvAlways, PTL DEF SY!Spec, SY!ConflictIsKept

\* A copy to the machine of a file in the record that is missing there is of one
\* that changed here after it.
LEMMA StaysStep ==
    ASSUME Calm, SyncInv, SY!Next, SY!SyncMoves, NEW f \in manifest, there[f] = 0, there'[f] # 0
    PROVE  there'[f] > last
<1>1. /\ here \in [Files -> 0 .. clock] /\ there \in [Files -> 0 .. clock]
      /\ clock \in Nat /\ last \in 0 .. clock /\ f \in Files
    BY DEF SyncInv, SY!TypeOK
<1>2. CASE UNCHANGED SY!sides
    BY <1>2 DEF SY!sides
<1>3. CASE SY!RemoveHere
    BY <1>3 DEF SY!RemoveHere
<1>4. CASE SY!RemoveThere /\ ~SY!Fail
    BY <1>1, <1>4, RemovedThere
<1>5. CASE \E g \in Files : SY!Copy(g)
  <2>1. PICK g \in Files : SY!Copy(g)
      BY <1>5
  <2>2. f = g
      BY <1>1, <2>1, Over
  <2>3. sync.does = "push"
      BY <2>1, Over
  <2>4. sync.step = "copy" /\ f \in sync.todo /\ there'[f] \in {here[f], there[f]}
      BY <2>1, <2>2, <2>3, Over
  <2>5. here[f] = 0 \/ here[f] > last
      BY <2>3, <2>4 DEF SyncInv, NotBack
  <2> QED
      BY <1>1, <2>4, <2>5
<1> QED
    BY <1>2, <1>3, <1>4, <1>5, Moves

\* For any files, commands and failures, what was deleted on the machine does not
\* come back there from the copy of it here (sync.go:143).
THEOREM SyncDeletedThereStays == ASSUME Calm PROVE SY!Spec => SY!DeletedThereStays
<1>1. ASSUME SyncInv, SY!Next, SY!SyncMoves, NEW f \in manifest, there[f] = 0, there'[f] # 0
      PROVE  ~(there'[f] = removed[f].there /\ there'[f] <= last)
  <2>1. there'[f] > last
      BY <1>1, StaysStep
  <2>2. there'[f] \in Nat /\ last \in Nat
    <3>1. SY!TypeOK'
        BY <1>1, SyncInvNext DEF SyncInv
    <3> QED
        BY <1>1, <3>1 DEF SyncInv, SY!TypeOK
  <2> QED
      BY <2>1, <2>2
<1>2. SyncInv /\ [SY!Next]_(SY!vars) =>
         [SY!SyncMoves => \A f \in manifest :
            there[f] = 0 /\ there'[f] # 0
                => ~(there'[f] = removed[f].there /\ there'[f] <= last)]_(SY!vars)
    BY <1>1
<1> QED
    BY <1>2, SyncInvAlways, PTL DEF SY!Spec, SY!DeletedThereStays

\* A sync ends with both sides as its last copy left them.
LEMMA EndsStep ==
    ASSUME Calm, SyncInv, SY!Next, sync.step = "copy", sync' = SY!Idle
    PROVE  UNCHANGED SY!sides
<1>1. sync # SY!Idle /\ sync' # sync
    BY DEF SY!Idle
<1>2. ASSUME NEW f \in Files, SY!EditHere(f) \/ SY!EditThere(f) \/ SY!Copy(f) PROVE FALSE
  <2>1. SY!Copy(f) => sync'.step = "copy"
      BY DEF SY!Copy, SyncInv, SyncHeld, SyncRecord
  <2> QED
      BY <1>1, <1>2, <2>1 DEF SY!EditHere, SY!EditThere, SY!Edit, SY!Idle
<1>3. ASSUME NEW c \in Commands, SY!Dispatch(c) \/ SY!Ran(c) PROVE FALSE
    BY <1>1, <1>3 DEF SY!Dispatch, SY!Ran
<1>4. ASSUME SY!Down \/ SY!UpAgain PROVE FALSE
    BY <1>1, <1>4 DEF SY!Down, SY!UpAgain
<1>5. ASSUME NEW w \in SY!Whoever, SY!Lock(w) PROVE FALSE
    BY <1>1, <1>5 DEF SY!Lock
<1>6. ASSUME SY!ListHere \/ SY!ListThere \/ SY!RemoveHere \/ SY!RemoveThere PROVE FALSE
    BY <1>6 DEF SY!ListHere, SY!ListThere, SY!RemoveHere, SY!RemoveThere
<1>7. ASSUME SY!CopyFails \/ SY!Record PROVE UNCHANGED SY!sides
    BY <1>7 DEF SY!CopyFails, SY!Record
<1> QED
    BY <1>2, <1>3, <1>4, <1>5, <1>6, <1>7 DEF SY!Next, SY!SyncStep

\* For any files and commands, whatever others were syncing and what failed, a push
\* that comes to its end leaves on the machine what is here, or newer, and a pull
\* the other way round (sync.go:93, 102, 111).
THEOREM SyncBringsItOver == ASSUME Calm PROVE SY!Spec => SY!SyncedIsThere
<1>1. ASSUME SyncInv, SY!Next, sync.step = "copy", sync.todo = {}, sync' = SY!Idle
      PROVE  IF sync.does = "push" THEN \A f \in Files : there'[f] >= here[f]
             ELSE \A f \in Files : here'[f] >= there[f]
  <2>1. here' = here /\ there' = there
      BY <1>1, EndsStep DEF SY!sides
  <2>2. sync.does \in {"push", "pull"}
      BY <1>1 DEF SyncInv, SyncHeld
  <2> QED
      BY <1>1, <2>1, <2>2 DEF SyncInv, Copied
<1>2. SyncInv /\ [SY!Next]_(SY!vars) =>
         [\A w \in SY!Whoever :
            sync.by = w /\ sync.step = "copy" /\ sync.todo = {} /\ sync' = SY!Idle
            => IF sync.does = "push" THEN \A f \in Files : there'[f] >= here[f]
               ELSE \A f \in Files : here'[f] >= there[f]]_(SY!vars)
    BY <1>1
<1> QED
    BY <1>2, SyncInvAlways, PTL DEF SY!Spec, SY!SyncedIsThere
===============================================================================
