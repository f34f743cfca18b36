--------------------------------- MODULE Sync ---------------------------------
(***************************************************************************)
(* A synced directory (internal/daemon/sync.go): a copy here, the original *)
(* on its machine, and the two made the same around every command that is  *)
(* dispatched there (backend.go:264). Commands run at once, people edit    *)
(* both sides, and any step that needs the machine may fail.               *)
(*                                                                         *)
(* A file is its modification time: 0 where there is none, and every edit  *)
(* takes the next tick of one clock (rsync -a carries times across).       *)
(***************************************************************************)
EXTENDS Naturals, FiniteSets

CONSTANTS
    Files,
    Commands,   \* dispatched to the machine of the directory
    Closer,     \* the flush when the pod goes down
    Starter,    \* the first copy, at `up`
    MaxEdits,   \* bound on edits, of both sides together
    FaultKinds, \* "fail": a step over the network fails; "busy": files change
                \* while they are being synced; "again": the pod comes up again
    None

VARIABLES
    clock,
    here, there, \* the two sides
    manifest,    \* st.manifest
    last,        \* st.last
    sync,        \* the push or pull under st.mu, with its two listings
    at,          \* where each dispatch is
    both,        \* the newest of each file that both sides had, or one had newer
    removed,     \* the time each file had when it was deleted, on each side
    met          \* commands ran at once, others worked there, or a sync failed

sides == <<here, there>>
record == <<manifest, last>>
ghosts == <<both, removed, met>>
vars == <<clock, sides, record, sync, at, ghosts>>

Whoever == Commands \cup {Closer, Starter}
Idle == [by |-> None, does |-> "nothing", step |-> "none", here |-> [f \in Files |-> 0],
         there |-> [f \in Files |-> 0], todo |-> {}]

Listed(files) == {f \in Files : files[f] # 0}
Newest(a, b) == IF a > b THEN a ELSE b

Oldest(a, b) == IF a < b THEN a ELSE b

\* What one side has and the other has or has newer, they have had.
SeeBoth(f) == both' = [both EXCEPT ![f] = Newest(@, Oldest(here'[f], there'[f]))]

Quiet == sync = Idle \/ "busy" \in FaultKinds

-----------------------------------------------------------------------------
(* People and commands                                                     *)

Edit(side, other, f, isHere) ==
    /\ clock < MaxEdits /\ clock' = clock + 1 /\ Quiet
    /\ \/ side' = [side EXCEPT ![f] = clock + 1] /\ UNCHANGED removed
       \/ /\ side[f] # 0 /\ side' = [side EXCEPT ![f] = 0]
          /\ removed' = [removed EXCEPT ![f][IF isHere THEN "here" ELSE "there"] = side[f]]
    /\ UNCHANGED <<other, record, sync, at, both>>

\* Something in the pod writes or deletes a file of the copy.
EditHere(f) == /\ at[Starter] = "over" /\ at[Closer] = "none"
               /\ Edit(here, there, f, TRUE) /\ UNCHANGED met

\* A command that runs there does, or somebody who works there.
EditThere(f) == /\ Edit(there, here, f, FALSE)
                /\ met' = (met \/ \A c \in Commands : at[c] # "run")

Underway == \E c \in Commands : at[c] \in {"push", "run", "pull"}

\* A command is dispatched: the directory is pushed first.
Dispatch(c) ==
    /\ at[Starter] = "over" /\ at[Closer] = "none" /\ at[c] = "none"
    /\ at' = [at EXCEPT ![c] = "push"]
    /\ met' = (met \/ Underway)
    /\ UNCHANGED <<clock, sides, record, sync, both, removed>>

\* It has run, and what it did is pulled.
Ran(c) ==
    /\ at[c] = "run" /\ at' = [at EXCEPT ![c] = "pull"]
    /\ UNCHANGED <<clock, sides, record, sync, ghosts>>

Down ==
    /\ at[Starter] = "over" /\ at[Closer] = "none"
    /\ at' = [at EXCEPT ![Closer] = "push"]
    /\ met' = (met \/ Underway)
    /\ UNCHANGED <<clock, sides, record, sync, both, removed>>

\* startSync for the next pod of the name: an empty record, and the directory
\* the last one left.
UpAgain ==
    /\ "again" \in FaultKinds /\ at[Closer] = "over"
    /\ \A c \in Commands : at[c] \in {"none", "over"}
    /\ at' = [at EXCEPT ![Closer] = "none", ![Starter] = "pull"]
    /\ manifest' = {} /\ last' = 0
    /\ UNCHANGED <<clock, sides, sync, ghosts>>

-----------------------------------------------------------------------------
(* push and pull, under st.mu                                              *)

After(who) == CASE at[who] = "push" /\ who \in Commands -> "run"
                [] OTHER -> "over"

\* Mutant: a failure leaves st.mu locked.
UnlockIfDone(done) ==
    /\ sync' = IF done THEN Idle ELSE [sync EXCEPT !.step = "stuck"]
    /\ at' = [at EXCEPT ![sync.by] = After(sync.by)]

\* Done or failed, the lock is released and the dispatch goes on: a failure is
\* only noted. A first copy that fails is the end of the pod.
Unlock(done) ==
    /\ sync' = Idle
    /\ at' = [at EXCEPT ![sync.by] = IF ~done /\ @ = "pull" /\ sync.by = Starter
                                     THEN "failed" ELSE After(sync.by)]

Fail == "fail" \in FaultKinds /\ Unlock(FALSE) /\ met' = TRUE

Lock(who) ==
    /\ sync = Idle /\ at[who] \in {"push", "pull"}
    /\ sync' = [Idle EXCEPT !.by = who, !.does = at[who],
                            !.step = IF at[who] = "push" THEN "here" ELSE "there"]
    /\ UNCHANGED <<clock, sides, record, at, ghosts>>

\* push lists the copy first and pull the machine.
ListHere ==
    /\ sync.step = "here"
    /\ sync' = [sync EXCEPT !.here = here,
                            !.step = IF sync.does = "push" THEN "there" ELSE "remove"]
    /\ UNCHANGED <<clock, sides, record, at, ghosts>>

ListThere ==
    /\ sync.step = "there"
    /\ \/ /\ sync' = [sync EXCEPT !.there = there,
                                  !.step = IF sync.does = "push" THEN "remove" ELSE "here"]
          /\ UNCHANGED <<at, met>>
       \/ Fail
    /\ UNCHANGED <<clock, sides, record, both, removed>>

\* In the record and missing there: deleted there, unless it changed here since.
GoneThere == {f \in manifest : sync.there[f] = 0 /\ sync.here[f] <= last}

\* In the record and missing here: deleted here, unless it changed there since.
GoneHere == {f \in manifest : sync.here[f] = 0 /\ sync.there[f] <= last}

\* Mutant: a push only sends.
RemoveHereOnPull ==
    /\ sync.step = "remove"
    /\ here' = [f \in Files |-> IF f \in GoneThere /\ sync.does = "pull" THEN 0 ELSE here[f]]
    /\ sync' = [sync EXCEPT !.step = IF sync.does = "push" THEN "rm" ELSE "copy",
                            !.todo = Files]
    /\ UNCHANGED <<clock, there, record, at, ghosts>>

\* What was deleted there is deleted here, by push as well as by pull.
RemoveHere ==
    /\ sync.step = "remove"
    /\ here' = [f \in Files |-> IF f \in GoneThere THEN 0 ELSE here[f]]
    /\ sync' = [sync EXCEPT !.step = IF sync.does = "push" THEN "rm" ELSE "copy",
                            !.here = [f \in Files |-> IF f \in GoneThere THEN 0 ELSE @[f]],
                            !.todo = Files]
    /\ UNCHANGED <<clock, there, record, at, ghosts>>

RemoveThere ==
    /\ sync.step = "rm"
    /\ \/ /\ there' = [f \in Files |-> IF f \in GoneHere THEN 0 ELSE there[f]]
          /\ sync' = [sync EXCEPT !.step = "copy"]
          /\ UNCHANGED <<at, met>>
       \/ Fail /\ UNCHANGED there
    /\ UNCHANGED <<clock, here, record, both, removed>>

\* Mutant: rsync without --update.
CopyAlways(f, from, to) == [to EXCEPT ![f] = IF from[f] # 0 THEN from[f] ELSE @]

\* rsync -a --update: a file the other side has newer is left alone.
CopyNewer(f, from, to) == [to EXCEPT ![f] = Newest(from[f], @)]

\* Mutant: only what is in the record is copied.
CopyRecorded(f) ==
    /\ sync.step = "copy" /\ f \in sync.todo
    /\ IF sync.does = "push"
       THEN /\ there' = IF f \in manifest THEN CopyNewer(f, here, there) ELSE there
            /\ UNCHANGED here
       ELSE here' = CopyNewer(f, there, here) /\ UNCHANGED there
    /\ sync' = [sync EXCEPT !.todo = @ \ {f}]
    /\ SeeBoth(f)
    /\ UNCHANGED <<clock, record, at, removed, met>>

Copy(f) ==
    /\ sync.step = "copy" /\ f \in sync.todo
    /\ IF sync.does = "push"
       THEN there' = CopyNewer(f, here, there) /\ UNCHANGED here
       ELSE here' = CopyNewer(f, there, here) /\ UNCHANGED there
    /\ sync' = [sync EXCEPT !.todo = @ \ {f}]
    /\ SeeBoth(f)
    /\ UNCHANGED <<clock, record, at, removed, met>>

CopyFails ==
    /\ sync.step = "copy" /\ Fail
    /\ UNCHANGED <<clock, sides, record, both, removed>>

\* The record is what was listed on the side that was copied from.
Record ==
    /\ sync.step = "copy" /\ sync.todo = {}
    /\ manifest' = IF sync.does = "push" THEN Listed(sync.here) ELSE Listed(sync.there)
    /\ last' = clock
    /\ Unlock(TRUE)
    /\ UNCHANGED <<clock, sides, ghosts>>

-----------------------------------------------------------------------------
\* The machine has some files, the pod is coming up.
Init ==
    /\ clock = 1
    /\ here = [f \in Files |-> 0] /\ there \in [Files -> {0, 1}]
    /\ manifest = {} /\ last = 0
    /\ sync = Idle
    /\ at = [w \in Whoever |-> IF w = Starter THEN "pull" ELSE "none"]
    /\ both = [f \in Files |-> 0] /\ met = FALSE
    /\ removed = [f \in Files |-> [here |-> 0, there |-> 0]]

SyncStep ==
    \/ \E who \in Whoever : Lock(who)
    \/ ListHere \/ ListThere \/ RemoveHere \/ RemoveThere \/ CopyFails \/ Record
    \/ \E f \in Files : Copy(f)

Next ==
    \/ \E f \in Files : EditHere(f) \/ EditThere(f)
    \/ \E c \in Commands : Dispatch(c) \/ Ran(c)
    \/ Down \/ UpAgain
    \/ SyncStep

Spec == Init /\ [][Next]_vars

\* A sync under way runs on, and whoever waits for the lock gets it: a Go mutex
\* is fair to those who have waited long.
Fairness ==
    /\ WF_vars(SyncStep)
    /\ \A w \in Whoever : SF_vars(Lock(w))

FairSpec == Spec /\ Fairness

-----------------------------------------------------------------------------
TypeOK ==
    /\ clock \in Nat /\ last \in 0 .. clock /\ manifest \subseteq Files
    /\ here \in [Files -> 0 .. clock] /\ there \in [Files -> 0 .. clock]
    /\ sync.by \in Whoever \cup {None} /\ sync.todo \subseteq Files
    /\ sync.step \in {"none", "here", "there", "remove", "rm", "copy"}
    /\ at \in [Whoever -> {"none", "push", "run", "pull", "over", "failed"}]
    /\ both \in [Files -> 0 .. clock]

SyncMoves == clock' = clock

\* "A file changed on one side since the last sync and deleted on the other is a
\* conflict, and it is kept": what a sync deletes or replaces by older, the other
\* side has had, or it had something newer (sync.go:29, 223). Commands come one at
\* a time, nobody else works on the machine, and no sync fails.
ConflictIsKept ==
    [][SyncMoves /\ ~met => \A f \in Files :
          /\ here'[f] < here[f] => here[f] <= both[f]
          /\ there'[f] < there[f] => there[f] <= both[f]]_vars

\* The same of commands that run at once, and of people who work on the machine.
ConflictAlwaysKept ==
    [][SyncMoves => \A f \in Files :
          /\ here'[f] < here[f] => here[f] <= both[f]
          /\ there'[f] < there[f] => there[f] <= both[f]]_vars

\* A file that was deleted on the machine does not come back there, from the
\* push of any command, when a sync that succeeded had seen it (sync.go:143).
DeletedThereStays ==
    [][SyncMoves => \A f \in manifest :
          there[f] = 0 /\ there'[f] # 0 => ~(there'[f] = removed[f].there /\ there'[f] <= last)]_vars

\* The same for a file deleted here: "a file in that record and missing on one
\* side was deleted there" (sync.go:27).
DeletedHereStays ==
    [][SyncMoves => \A f \in Files :
          here[f] = 0 /\ here'[f] # 0 => here'[f] # removed[f].here]_vars

\* A push that succeeded leaves on the machine whatever is here, or newer, and a
\* pull the other way round, whatever other commands were syncing: the command
\* sees the edits before it, its caller what it did, and going down loses
\* nothing (sync.go:93, 102, 111).
SyncedIsThere ==
    [][\A w \in Whoever :
          sync.by = w /\ sync.step = "copy" /\ sync.todo = {} /\ sync' = Idle
          => IF sync.does = "push" THEN \A f \in Files : there'[f] >= here[f]
             ELSE \A f \in Files : here'[f] >= there[f]]_vars

\* Every dispatch gets its turn and its end, whoever failed before it.
EveryDispatchRuns ==
    <>[](\A c \in Commands : at[c] \notin {"push", "pull"})
=============================================================================
