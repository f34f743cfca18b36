--------------------------- MODULE NodeServer_proofs ---------------------------
(***************************************************************************)
(* What holds of the process that keeps a pod on a node, for any number of *)
(* mounts, requests and servers started one after the other.               *)
(*                                                                         *)
(* An expired lease leaves nothing that was finished, and no directory is  *)
(* erased with a finished mount below it: what the last steps of a server  *)
(* and of nodedown leave behind (Left, Clears).                            *)
(*                                                                         *)
(* The end of serve discards nothing it has not said: a mountpoint is one  *)
(* mount's, wherever it is seen, so whoever is to be flushed is known by   *)
(* the path it is at (OnePlace); and what a request is making is not       *)
(* written before its bind, after which there are no processes to write    *)
(* (NotYet).                                                               *)
(*                                                                         *)
(* What the node reports is what its pod has: the two lists differ by what *)
(* the one request that is about a path has half done (Counts).            *)
(***************************************************************************)
EXTENDS NodeServer, FiniteSetTheorems, WellFoundedInduction, TLAPS

\* Nobody starts a server while nodedown is at work.
InTurn == "overtake" \notin FaultKinds

\* What is left when the directory goes was not finished as the server began to stop.
Left ==
    /\ server \in {"swept", "erased"} => mounted \subseteq late
    /\ server = "erased" => ~dir
    /\ watch = "over" => expired

\* Every step leaves no more than that.
LEMMA LeftNext == Left /\ [Next]_vars => Left'
<1> SUFFICES ASSUME Left, [Next]_vars PROVE Left'
    OBVIOUS
<1> USE DEF Left
<1>1. CASE UNCHANGED vars
    BY <1>1 DEF vars, memory, kernel, history
<1>2. CASE Start
    BY <1>2 DEF Start
<1>3. CASE Crash \/ Renew \/ RunOut
    BY <1>3 DEF Crash, Renew, RunOut, kernel, history
<1>4. CASE Build \/ Listen \/ Kill \/ Unmount \/ (\E m \in Mounts : StopFlush(m))
    BY <1>4 DEF Build, Listen, Kill, Unmount, StopFlush, Unmounting, kernel, history
<1>5. CASE Sweep \/ Erase \/ Exit
    BY <1>5 DEF Sweep, Erase, Exit, Unmounting, memory, kernel, history
<1>6. CASE LeaseWatch
    BY <1>6 DEF LeaseWatch, Notice, Expire, WatchFlush, Close, kernel, history
<1>7. CASE Down
    BY <1>7 DEF Down, Dial, Wait, Clear, EraseDown, Close, Unmounting, memory, kernel,
           history
<1>8. ASSUME NEW p \in Paths, Write(p) PROVE Left'
    BY <1>8 DEF Write, memory, history, kernel
<1>9. ASSUME NEW m \in Mounts, Upload(m) PROVE Left'
    BY <1>9 DEF Upload, memory, history, kernel
<1>10. ASSUME NEW w \in Workers, MountFuse(w) PROVE Left'
    BY <1>10 DEF MountFuse, Listening
<1>11. ASSUME NEW w \in Workers, Request(w), ~MountFuse(w) PROVE Left'
  <2>1. CASE Enter(w) \/ Bind(w) \/ Remember(w) \/ Fail(w)
      BY <2>1 DEF Enter, Bind, Remember, Fail, kernel, history
  <2>2. CASE Find(w) \/ Flush(w)
    <3>1. UNCHANGED <<server, mounted, late, dir, watch, expired>>
        BY <2>2 DEF Find, Flush, kernel, history
    <3> QED
        BY <3>1
  <2>4. CASE Unbind(w) \/ Forget(w)
      BY <2>4 DEF Unbind, Forget, kernel, history
  <2>3. CASE Undo(w) \/ Release(w)
      BY <2>3 DEF Undo, Release, Unmounting, history
  <2> QED
      BY <1>11, <2>1, <2>2, <2>3, <2>4 DEF Request
<1>12. ASSUME NEW h \in Handlers, NEW p \in Paths, NEW op, Ask(h, op, p) PROVE Left'
    BY <1>12 DEF Ask, kernel
<1> QED
    BY <1>1, <1>2, <1>3, <1>4, <1>5, <1>6, <1>7, <1>8, <1>9, <1>10, <1>11, <1>12
       DEF Next, Serve

\* Nothing is left before there is a server.
LEMMA LeftInit == Init => Left
BY DEF Init, Left

\* A server that ends after its lease ran out leaves no directory, and no mount that was
\* finished when it began to stop (node.go:346).
THEOREM NodeServerExpiryLeavesNothing == Spec => ExpiryLeavesNothing
<1>1. Left /\ [Next]_vars => [Exit /\ watch = "over" => ~dir' /\ mounted' \subseteq late']_vars
    BY DEF Left, Exit, kernel, history
<1> QED
    BY <1>1, LeftInit, LeftNext, PTL DEF Spec, ExpiryLeavesNothing

\* And nodedown is only under way when no server listens.
Clears ==
    /\ down \in {"waiting", "clear", "erase"} => ~Listening
    /\ down = "erase" => mounted \subseteq late

\* Every step keeps to that.
LEMMA ClearsNext == InTurn /\ Clears /\ [Next]_vars => Clears'
<1> SUFFICES ASSUME InTurn, Clears, [Next]_vars PROVE Clears'
    OBVIOUS
<1> USE DEF Clears, Listening
<1>1. CASE UNCHANGED vars
    BY <1>1 DEF vars, memory, kernel, history
<1>2. CASE Start
    BY <1>2 DEF Start, InTurn
<1>3. CASE Crash \/ Renew \/ RunOut
    BY <1>3 DEF Crash, Renew, RunOut, kernel, history
<1>4. CASE Build \/ Listen \/ Kill \/ Unmount \/ (\E m \in Mounts : StopFlush(m))
    BY <1>4 DEF Build, Listen, Kill, Unmount, StopFlush, Unmounting, kernel, history
<1>5. CASE Sweep \/ Erase \/ Exit
    BY <1>5 DEF Sweep, Erase, Exit, Unmounting, memory, kernel, history
<1>6. CASE LeaseWatch
    BY <1>6 DEF LeaseWatch, Notice, Expire, WatchFlush, Close, kernel, history
<1>7. CASE Down
    BY <1>7 DEF Down, Dial, Wait, Clear, EraseDown, Close, Unmounting, memory, kernel,
           history
<1>8. ASSUME NEW p \in Paths, Write(p) PROVE Clears'
    BY <1>8 DEF Write, memory, history, kernel
<1>9. ASSUME NEW m \in Mounts, Upload(m) PROVE Clears'
    BY <1>9 DEF Upload, memory, history, kernel
<1>10. ASSUME NEW w \in Workers, MountFuse(w) PROVE Clears'
    BY <1>10 DEF MountFuse
<1>11. ASSUME NEW w \in Workers, Request(w), ~MountFuse(w) PROVE Clears'
  <2>1. CASE Enter(w) \/ Bind(w) \/ Remember(w) \/ Fail(w)
      BY <2>1 DEF Enter, Bind, Remember, Fail, kernel, history
  <2>2. CASE Find(w) \/ Flush(w) \/ Unbind(w) \/ Forget(w)
      BY <2>2 DEF Find, Flush, Unbind, Forget, kernel, history
  <2>3. CASE Undo(w) \/ Release(w)
      BY <2>3 DEF Undo, Release, Unmounting, history
  <2> QED
      BY <1>11, <2>1, <2>2, <2>3 DEF Request
<1>12. ASSUME NEW h \in Handlers, NEW p \in Paths, NEW op, Ask(h, op, p) PROVE Clears'
    BY <1>12 DEF Ask, kernel
<1> QED
    BY <1>1, <1>2, <1>3, <1>4, <1>5, <1>6, <1>7, <1>8, <1>9, <1>10, <1>11, <1>12
       DEF Next, Serve

\* No run directory is removed with a mount below it that is not just being made
\* (serve's own sweep, node.go:347, and nodedown's).
THEOREM NodeServerEraseSparesMounts == ASSUME InTurn PROVE Spec => EraseSparesMounts
<1>1. Left /\ Clears /\ Next => (dir /\ ~dir' => mounted \subseteq InFlight \cup late)
  <2> SUFFICES ASSUME Left, Clears, Next, dir, ~dir' PROVE mounted \subseteq late
      OBVIOUS
  <2>1. CASE Start
      BY <2>1 DEF Start
  <2>2. CASE Crash \/ Renew \/ RunOut
      BY <2>2 DEF Crash, Renew, RunOut, kernel
  <2>3. CASE Serve
    <3>1. CASE Erase
        BY <3>1 DEF Erase, Left
    <3>2. CASE Build \/ Listen \/ Kill \/ Unmount \/ Sweep \/ Exit \/ (\E m \in Mounts : StopFlush(m))
        BY <3>2 DEF Build, Listen, Kill, Unmount, Sweep, Exit, StopFlush, kernel
    <3> QED
        BY <2>3, <3>1, <3>2 DEF Serve
  <2>4. CASE LeaseWatch
      BY <2>4 DEF LeaseWatch, Notice, Expire, WatchFlush, kernel
  <2>5. CASE Down
      BY <2>5 DEF Down, Dial, Wait, Clear, EraseDown, kernel, Clears
  <2>6. ASSUME NEW p \in Paths, Write(p) PROVE FALSE
      BY <2>6 DEF Write, kernel
  <2>7. ASSUME NEW m \in Mounts, Upload(m) PROVE FALSE
      BY <2>7 DEF Upload, kernel
  <2>8. ASSUME NEW w \in Workers, Request(w) PROVE FALSE
      BY <2>8 DEF Request, MountFuse, Enter, Bind, Undo, Remember, Fail, Find, Flush,
             Unbind, Release, Forget, kernel
  <2>9. ASSUME NEW h \in Handlers, NEW p \in Paths, NEW op, Ask(h, op, p) PROVE FALSE
      BY <2>9 DEF Ask, kernel
  <2> QED
      BY <2>1, <2>2, <2>3, <2>4, <2>5, <2>6, <2>7, <2>8, <2>9 DEF Next
<1>2. Init => Clears
    BY DEF Init, Clears
<1> QED
    BY <1>1, <1>2, ClearsNext, LeftInit, LeftNext, PTL DEF Spec, EraseSparesMounts

--------------------------------------------------------------------------------
(* Mounts, requests and entries.                                          *)

\* The specs are of this node, and a request is not serve itself.
WellMade ==
    /\ MaxMounts \in Nat /\ Specs \subseteq Seq(Paths)
    /\ Own \subseteq Paths /\ IsFiniteSet(Own)
    /\ None \notin Paths /\ Builder \notin Handlers

\* What a request may be doing.
JobState == [op : {"none", "add", "remove"}, at : Paths \cup {None},
             m : Mounts \cup {Native, None}, step : Steps]

\* What it does when it does nothing.
Over == {"idle", "done"}

\* A request that does something is about a path.
Jobs(j) == /\ j \in [Workers -> JobState]
           /\ \A w \in Workers : /\ j[w].step = "idle" => j[w] = Idle
                                 /\ j[w].step = "done" => j[w] = Done
                                 /\ j[w].step \notin Over => j[w].at \in Paths

\* What the lists and the counters are.
Types ==
    /\ seq \in 0 .. MaxMounts /\ todo \in Seq(Paths)
    /\ fsm \in Seq(Entry) /\ held \in Seq(Entry) /\ Jobs(job)
    /\ bound \in [Paths -> Seq(Mounts \cup {Native})]
    /\ mounted \subseteq 1 .. seq /\ dirty \subseteq mounted

-----------------------------------------------------------------------------
\* The least of a set of numbers.
LEMMA Least == ASSUME NEW S \in SUBSET Nat, S # {} PROVE \E n \in S : \A m \in S : n <= m
<1> DEFINE T == {0 .. n : n \in S}
<1>1. \A n \in S : 0 .. n \subseteq Nat /\ IsFiniteSet(0 .. n)
    BY FS_Interval
<1>2. T \subseteq FiniteSubsetsOf(Nat)
    BY <1>1 DEF FiniteSubsetsOf
<1>3. T # {}
    OBVIOUS
<1> HIDE DEF T
<1>4. PICK x \in T : \A y \in T : ~(<<y, x>> \in StrictSubsetOrdering(Nat))
    BY <1>2, <1>3, WFMin, FS_StrictSubsetOrderingWellFounded
<1>5. PICK n \in S : x = 0 .. n
    BY DEF T
<1>6. ASSUME NEW m \in S, m < n PROVE FALSE
  <2>1. 0 .. m \in T
      BY DEF T
  <2>2. 0 .. m \subseteq 0 .. n /\ n \notin 0 .. m /\ n \in 0 .. n
      BY <1>6
  <2>3. 0 .. m \in SUBSET Nat /\ 0 .. n \in SUBSET Nat
      BY <1>1
  <2>4. <<0 .. m, 0 .. n>> \in StrictSubsetOrdering(Nat)
      BY <2>2, <2>3 DEF StrictSubsetOrdering
  <2> QED
      BY <1>4, <1>5, <2>1, <2>4
<1> QED
    BY <1>6

\* And the greatest, of numbers with a bound.
LEMMA Greatest == ASSUME NEW n \in Nat, NEW S \in SUBSET (1 .. n), S # {}
                  PROVE  \E i \in S : \A j \in S : j <= i
<1> DEFINE B == {k \in Nat : \A j \in S : j <= k}
<1>1. n \in B
    OBVIOUS
<1>2. PICK k \in B : \A l \in B : k <= l
    BY <1>1, Least
<1>3. k \in Nat /\ \A j \in S : j <= k
    OBVIOUS
<1>4. ASSUME k \notin S PROVE FALSE
  <2>1. \A j \in S : j <= k - 1 /\ j >= 1
      BY <1>3, <1>4
  <2>2. k - 1 \in Nat
    <3>1. PICK j \in S : TRUE
        OBVIOUS
    <3> QED
        BY <1>3, <2>1, <3>1
  <2> QED
      BY <1>2, <2>1, <2>2
<1> QED
    BY <1>3, <1>4

\* What leaves a list leaves the rest of it as it was, one place further down behind it.
LEMMA First ==
    ASSUME NEW S, NEW s \in Seq(S), NEW is \in SUBSET (DOMAIN s)
    PROVE  /\ WithoutFirst(s, is) \in Seq(S)
           /\ is = {} => WithoutFirst(s, is) = s
           /\ is # {} => \E k \in is :
                /\ \A j \in is : k <= j
                /\ Len(WithoutFirst(s, is)) = Len(s) - 1
                /\ \A i \in 1 .. Len(s) - 1 :
                       WithoutFirst(s, is)[i] = IF i < k THEN s[i] ELSE s[i + 1]
<1>1. CASE is = {}
    BY <1>1 DEF WithoutFirst
<1>2. CASE is # {}
  <2> DEFINE k == CHOOSE i \in is : \A j \in is : i <= j
  <2>0. DOMAIN s = 1 .. Len(s) /\ Len(s) \in Nat
      OBVIOUS
  <2>1. is \in SUBSET Nat
      BY <2>0
  <2>2. k \in is /\ \A j \in is : k <= j
      BY <1>2, <2>1, Least
  <2>3. WithoutFirst(s, is) = SubSeq(s, 1, k - 1) \o SubSeq(s, k + 1, Len(s))
      BY <1>2 DEF WithoutFirst, RemoveAt
  <2> HIDE DEF k
  <2>4. k \in 1 .. Len(s)
      BY <2>0, <2>2
  <2> DEFINE a == SubSeq(s, 1, k - 1)
             b == SubSeq(s, k + 1, Len(s))
  <2>5. /\ a \in Seq(S) /\ Len(a) = k - 1 /\ \A i \in 1 .. k - 1 : a[i] = s[i]
      BY <2>4
  <2>6. /\ b \in Seq(S) /\ Len(b) = Len(s) - k
        /\ \A i \in 1 .. Len(s) - k : b[i] = s[i + k]
      BY <2>4
  <2> HIDE DEF a, b
  <2>7. /\ a \o b \in Seq(S) /\ Len(a \o b) = Len(s) - 1
        /\ \A i \in 1 .. Len(s) - 1 : (a \o b)[i] = IF i < k THEN s[i] ELSE s[i + 1]
    <3>1. /\ a \o b \in Seq(S) /\ Len(a \o b) = Len(s) - 1
          /\ \A i \in 1 .. Len(s) - 1 :
                 (a \o b)[i] = IF i <= k - 1 THEN a[i] ELSE b[i - (k - 1)]
        BY <2>4, <2>5, <2>6
    <3>2. ASSUME NEW i \in 1 .. Len(s) - 1
          PROVE  (a \o b)[i] = IF i < k THEN s[i] ELSE s[i + 1]
      <4>1. CASE i < k
          BY <2>4, <2>5, <3>1, <4>1
      <4>2. CASE ~(i < k)
        <5>1. i - (k - 1) \in 1 .. Len(s) - k /\ i - (k - 1) + k = i + 1
            BY <2>4, <4>2
        <5>2. b[i - (k - 1)] = s[i + 1]
            BY <2>6, <5>1
        <5> QED
            BY <2>4, <3>1, <4>2, <5>2
      <4> QED
          BY <4>1, <4>2
    <3> QED
        BY <3>1, <3>2
  <2> QED
      BY <1>2, <2>2, <2>3, <2>7 DEF a, b
<1> QED
    BY <1>1, <1>2

\* What is left in a list was in it.
LEMMA Fewer ==
    ASSUME NEW S, NEW s \in Seq(S), NEW is \in SUBSET (DOMAIN s), NEW i \in DOMAIN WithoutFirst(s, is)
    PROVE  \E j \in DOMAIN s : WithoutFirst(s, is)[i] = s[j]
<1>1. CASE is = {}
    BY <1>1, First
<1>2. CASE is # {}
  <2> DEFINE t == WithoutFirst(s, is)
  <2>1. t \in Seq(S) /\ Len(t) = Len(s) - 1
      BY <1>2, First
  <2>2. i \in 1 .. Len(s) - 1
      BY <2>1
  <2>3. t[i] = s[i] \/ t[i] = s[i + 1]
      BY <1>2, <2>2, First
  <2>4. i \in DOMAIN s /\ i + 1 \in DOMAIN s
      BY <2>2
  <2> QED
      BY <2>3, <2>4
<1> QED
    BY <1>1, <1>2

-----------------------------------------------------------------------------
\* A request goes on, or is answered.
LEMMA Going ==
    ASSUME WellMade, Types, NEW w \in Workers, NEW step \in Steps \ Over,
           job[w].step \notin Over, Go(w, step)
    PROVE  /\ Jobs(job') /\ job'[w] = [job[w] EXCEPT !.step = step]
           /\ job'[w].step = step /\ job'[w].at = job[w].at /\ job'[w].m = job[w].m
           /\ \A v \in Workers \ {w} : job'[v] = job[v]
<1>1. job \in [Workers -> JobState] /\ job[w] \in JobState /\ job[w].at \in Paths
    BY DEF Types, Jobs
<1>2. job' = [job EXCEPT ![w] = [job[w] EXCEPT !.step = step]]
    BY <1>1 DEF Go
<1> DEFINE j == [job[w] EXCEPT !.step = step]
<1>3. j \in JobState /\ j.step = step /\ j.at = job[w].at /\ j.m = job[w].m
    BY <1>1 DEF JobState
<1> HIDE DEF j
<1>4. job' \in [Workers -> JobState] /\ job'[w] = j /\ \A v \in Workers \ {w} : job'[v] = job[v]
    BY <1>1, <1>2, <1>3 DEF j
<1>5. \A v \in Workers \ {w} : /\ job[v].step = "idle" => job[v] = Idle
                               /\ job[v].step = "done" => job[v] = Done
                               /\ job[v].step \notin Over => job[v].at \in Paths
    BY DEF Types, Jobs
<1>6. Jobs(job')
    BY <1>1, <1>3, <1>4, <1>5 DEF Jobs, Over
<1> QED
    BY <1>3, <1>4, <1>6 DEF j

\* It is over, and about nothing.
LEMMA Answering ==
    ASSUME WellMade, Types, NEW w \in Workers, Answer(w)
    PROVE  /\ Jobs(job') /\ job'[w].step \in Over /\ job'[w].at = None
           /\ \A v \in Workers \ {w} : job'[v] = job[v]
<1> DEFINE j == IF w = Builder THEN Idle ELSE Done
<1>1. j \in JobState /\ j.step \in Over /\ j.at = None /\ (j.step = "idle" => j = Idle)
      /\ (j.step = "done" => j = Done)
    BY DEF JobState, Idle, Done, Steps, Over
<1>2. job' = [job EXCEPT ![w] = j]
    BY DEF Answer
<1> HIDE DEF j
<1>3. job' \in [Workers -> JobState] /\ job'[w] = j /\ \A v \in Workers \ {w} : job'[v] = job[v]
    BY <1>1, <1>2 DEF Types, Jobs
<1>4. \A v \in Workers \ {w} : /\ job[v].step = "idle" => job[v] = Idle
                               /\ job[v].step = "done" => job[v] = Done
                               /\ job[v].step \notin Over => job[v].at \in Paths
    BY DEF Types, Jobs
<1> QED
    BY <1>1, <1>3, <1>4 DEF Jobs

\* Nobody does anything.
LEMMA Idling == Jobs([w \in Workers |-> Idle])
<1>1. Idle \in JobState /\ Idle.step = "idle"
    BY DEF JobState, Idle, Steps
<1> QED
    BY <1>1 DEF Jobs, Over

\* A request that is asked for.
LEMMA Asking ==
    ASSUME WellMade, Types, NEW w \in Workers, NEW j \in JobState, j.step \notin Over,
           j.at \in Paths, job' = [job EXCEPT ![w] = j]
    PROVE  Jobs(job') /\ job'[w] = j /\ \A v \in Workers \ {w} : job'[v] = job[v]
<1>3. job' \in [Workers -> JobState] /\ job'[w] = j /\ \A v \in Workers \ {w} : job'[v] = job[v]
    BY DEF Types, Jobs
<1>4. \A v \in Workers \ {w} : /\ job[v].step = "idle" => job[v] = Idle
                               /\ job[v].step = "done" => job[v] = Done
                               /\ job[v].step \notin Over => job[v].at \in Paths
    BY DEF Types, Jobs
<1> QED
    BY <1>3, <1>4 DEF Jobs, Over

-----------------------------------------------------------------------------
\* What a request's step does to it, whichever it is.
LEMMA Requests ==
    ASSUME WellMade, Types, NEW w \in Workers, Request(w)
    PROVE  /\ job[w].step \notin Over /\ job[w].at \in Paths
           /\ \/ /\ Fail(w) /\ w = Builder /\ job' = [x \in Workers |-> Idle]
              \/ /\ \A v \in Workers \ {w} : job'[v] = job[v]
                 /\ \/ job'[w].step \in Over /\ job'[w].at = None
                    \/ job'[w].step \notin Over /\ job'[w].at = job[w].at
           /\ Jobs(job')
<1>1. job[w].step \notin Over
    BY DEF Request, MountFuse, Enter, Bind, Undo, Remember, Fail, Find, Flush, Unbind,
           Release, Forget, Over
<1>2. job[w].at \in Paths
    BY <1>1 DEF Types, Jobs
<1>3. CASE \E s \in Steps \ Over : Go(w, s)
    BY <1>1, <1>2, <1>3, Going
<1>4. CASE Answer(w)
    BY <1>1, <1>2, <1>4, Answering
<1>5. CASE Fail(w) /\ w = Builder
    BY <1>1, <1>2, <1>5, Idling DEF Fail
<1>6. CASE MountFuse(w) /\ ~\E s \in Steps \ Over : Go(w, s)
  <2> DEFINE j == [job[w] EXCEPT !.m = seq + 1, !.step = "enter"]
  <2>1. job' = [job EXCEPT ![w].m = seq + 1, ![w].step = "enter"] /\ seq + 1 \in Mounts
    <3>1. "failed" \in Steps \ Over
        BY DEF Steps, Over
    <3>2. ~Go(w, "failed")
        BY <1>6, <3>1
    <3>3. job' = [job EXCEPT ![w].m = seq + 1, ![w].step = "enter"] /\ seq < MaxMounts
        BY <1>6, <3>2 DEF MountFuse
    <3>4. seq + 1 \in Mounts
        BY <3>3 DEF Types, WellMade, Mounts
    <3> QED
        BY <3>3, <3>4
  <2>2. job \in [Workers -> JobState] /\ job[w] \in JobState
      BY DEF Types, Jobs
  <2>3. job' = [job EXCEPT ![w] = j]
      BY <2>1, <2>2 DEF JobState
  <2>4. j \in JobState /\ j.step = "enter" /\ j.at = job[w].at
      BY <2>1, <2>2 DEF JobState, Steps
  <2> HIDE DEF j
  <2> QED
      BY <1>1, <1>2, <2>3, <2>4, Asking DEF Over
<1>7. CASE Find(w)
  <2> DEFINE is == {i \in DOMAIN fsm : fsm[i].at = job[w].at}
             m  == IF is = {} THEN Native ELSE fsm[CHOOSE i \in is : \A j \in is : j <= i].m
             s  == IF \A i \in DOMAIN held : held[i].at # job[w].at THEN "failed"
                   ELSE IF m = Native \/ job[w].at \in ReadOnly THEN "unbind"
                   ELSE "flush"
             j == [job[w] EXCEPT !.m = m, !.step = s]
  <2>1. m \in Mounts \cup {Native}
    <3>1. fsm \in Seq(Entry) /\ is \in SUBSET (1 .. Len(fsm)) /\ Len(fsm) \in Nat
        BY DEF Types
    <3>2. is # {} => (CHOOSE i \in is : \A k \in is : k <= i) \in is
        BY <3>1, Greatest
    <3>3. \A i \in DOMAIN fsm : fsm[i] \in Entry /\ fsm[i].m \in Mounts \cup {Native}
      <4>1. \A i \in DOMAIN fsm : fsm[i] \in Entry
          BY <3>1
      <4> QED
          BY <4>1 DEF Entry
    <3>4. CASE is = {}
        BY <3>4
    <3>5. CASE is # {}
      <4>1. m = fsm[CHOOSE i \in is : \A k \in is : k <= i].m
          BY <3>5
      <4>2. is \subseteq DOMAIN fsm
          OBVIOUS
      <4> QED
          BY <3>2, <3>3, <3>5, <4>1, <4>2
    <3> QED
        BY <3>4, <3>5
  <2>2. job' = [job EXCEPT ![w].m = m, ![w].step = s]
      BY <1>7 DEF Find
  <2>3. s \in {"failed", "unbind", "flush"}
      OBVIOUS
  <2> HIDE DEF m, s
  <2>4. job \in [Workers -> JobState] /\ job[w] \in JobState
      BY DEF Types, Jobs
  <2>5. job' = [job EXCEPT ![w] = j]
      BY <2>2, <2>4 DEF JobState
  <2>6. j \in JobState /\ j.step = s /\ j.at = job[w].at
      BY <2>1, <2>3, <2>4 DEF JobState, Steps
  <2> HIDE DEF j
  <2> QED
      BY <1>1, <1>2, <2>3, <2>5, <2>6, Asking DEF Over
<1>8. {"bind", "remember", "undo", "failed", "unbind", "remove", "forget"} \subseteq Steps \ Over
    BY DEF Steps, Over
<1> QED
    BY <1>3, <1>4, <1>5, <1>6, <1>7, <1>8
       DEF Request, Enter, Bind, Undo, Remember, Fail, Flush, Unbind, Release, Forget

-----------------------------------------------------------------------------
\* The entries of the node's own directories, one for each.
LEMMA OwnEntries ==
    ASSUME WellMade
    PROVE  LET s == SetToSeq({[at |-> p, m |-> Native] : p \in Own}) IN
           /\ s \in Seq(Entry)
           /\ \A p \in Own : \E i \in DOMAIN s : {j \in DOMAIN s : s[j].at = p} = {i}
           /\ \A p \in Paths \ Own : {j \in DOMAIN s : s[j].at = p} = {}
<1> DEFINE S == {[at |-> p, m |-> Native] : p \in Own}
           f == [p \in Own |-> [at |-> p, m |-> Native]]
           s == SetToSeq(S)
<1>1. f \in Bijection(Own, S)
    BY DEF Bijection, Injection, Surjection, IsInjective
<1>2. IsFiniteSet(S)
    BY <1>1, FS_Bijection DEF WellMade, ExistsBijection
<1>3. \A x \in S : x \in Entry /\ x.at \in Own /\ x = [at |-> x.at, m |-> Native]
    BY DEF Entry, WellMade
<1>4. ASSUME NEW p \in Own PROVE \E x \in S : x.at = p
  <2>1. [at |-> p, m |-> Native] \in S /\ [at |-> p, m |-> Native].at = p
      OBVIOUS
  <2> QED
      BY <2>1
<1> HIDE DEF S, f
<1>5. /\ Cardinality(S) \in Nat
      /\ \E g \in [1 .. Cardinality(S) -> S] : IsInjective(g)
    BY <1>2, FS_CardinalityType DEF ExistsBijection, Bijection, Injection
<1>6. s \in [1 .. Cardinality(S) -> S] /\ IsInjective(s)
    BY <1>5 DEF SetToSeq
<1> HIDE DEF s
<1>7. s \in Injection(1 .. Cardinality(S), S)
    BY <1>6 DEF Injection
<1>8. IsFiniteSet(1 .. Cardinality(S)) /\ Cardinality(1 .. Cardinality(S)) = Cardinality(S)
    BY <1>5, FS_Interval
<1>9. s \in Surjection(1 .. Cardinality(S), S)
    BY <1>2, <1>7, <1>8, FS_Injection
<1>10. s \in Seq(S) /\ s \in Seq(Entry) /\ DOMAIN s = 1 .. Cardinality(S)
    BY <1>3, <1>5, <1>6
<1>11. \A x \in S : \E i \in DOMAIN s : s[i] = x
    BY <1>9, <1>10 DEF Surjection
<1>12. \A i, j \in DOMAIN s : s[i].at = s[j].at => i = j
  <2> SUFFICES ASSUME NEW i \in DOMAIN s, NEW j \in DOMAIN s, s[i].at = s[j].at PROVE i = j
      OBVIOUS
  <2>1. s[i] \in S /\ s[j] \in S
      BY <1>6, <1>10
  <2>2. s[i] = s[j]
      BY <1>3, <2>1
  <2> QED
      BY <1>6, <2>2 DEF IsInjective
<1>13. ASSUME NEW p \in Own PROVE \E i \in DOMAIN s : {j \in DOMAIN s : s[j].at = p} = {i}
  <2>1. PICK x \in S : x.at = p
      BY <1>4
  <2>2. PICK i \in DOMAIN s : s[i] = x
      BY <1>11
  <2>3. {j \in DOMAIN s : s[j].at = p} = {i}
      BY <1>12, <2>1, <2>2
  <2> QED
      BY <2>3
<1>14. ASSUME NEW p \in Paths \ Own PROVE {j \in DOMAIN s : s[j].at = p} = {}
    BY <1>3, <1>6, <1>10
<1> QED
    BY <1>10, <1>13, <1>14 DEF s, S

-----------------------------------------------------------------------------
\* The mount m is for the path p: in the manager, in a request or in the pod.
Makes(w) == job[w].step \in Making
At(m, p) ==
    \/ \E i \in DOMAIN fsm : fsm[i].m = m /\ fsm[i].at = p
    \/ \E w \in Workers : Makes(w) /\ job[w].m = m /\ job[w].at = p
    \/ \E i \in DOMAIN bound[p] : bound[p][i] = m

\* A mountpoint is one mount's, and what is read only is not written.
OnePlace ==
    \A m \in Mounts, p \in Paths : At(m, p) =>
        /\ m \in 1 .. seq
        /\ \A q \in Paths : At(m, q) => p = q
        /\ m \in dirty => p \notin ReadOnly

\* What a request is making is not in the pod before its bind.
Fresh(w) ==
    Makes(w) =>
        /\ job[w].m \in Mounts
        /\ \A v \in Workers : Makes(v) /\ job[v].m = job[w].m => v = w
        /\ job[w].step \in {"enter", "bind"} =>
               /\ job[w].m \notin dirty
               /\ \A p \in Paths : \A i \in DOMAIN bound[p] : bound[p][i] # job[w].m
NotYet == \A w \in Workers : Fresh(w)

\* What the end of serve knows of and is not written is still to be flushed, or was
\* said to have failed.
ToFlush ==
    server = "killed" =>
        \A i \in DOMAIN fsm : fsm[i].m \in dirty => fsm[i].m \in stopping \cup said

\* With these, nothing the end of serve unmounts has data that nobody was told of.
Discards == Types /\ OnePlace /\ NotYet /\ ToFlush /\ "stop" \notin lost

\* Every step keeps the types: a mountpoint that is made is a new one.
LEMMA TypesNext == ASSUME WellMade, Types, NotYet, [Next]_vars PROVE Types'
<1>0. /\ seq \in 0 .. MaxMounts /\ todo \in Seq(Paths)
      /\ fsm \in Seq(Entry) /\ held \in Seq(Entry) /\ Jobs(job)
      /\ bound \in [Paths -> Seq(Mounts \cup {Native})]
      /\ mounted \subseteq 1 .. seq /\ dirty \subseteq mounted
    BY DEF Types
<1>a. Unbound \in [Paths -> Seq(Mounts \cup {Native})]
    BY DEF Unbound
<1>1. CASE UNCHANGED vars
    BY <1>0, <1>1 DEF vars, memory, kernel, data, Types
<1>2. CASE Start
  <2>1. held' \in Seq(Entry)
      BY <1>2, OwnEntries DEF Start
  <2>2. bound' \in [Paths -> Seq(Mounts \cup {Native})]
    <3>1. <<Native>> \in Seq(Mounts \cup {Native}) /\ <<>> \in Seq(Mounts \cup {Native})
        OBVIOUS
    <3>2. bound' = [p \in Paths |-> IF p \in Own THEN <<Native>> ELSE <<>>]
        BY <1>2 DEF Start
    <3> QED
        BY <3>1, <3>2
  <2>3. Jobs(job')
      BY <1>2, Idling DEF Start
  <2>4. seq' = 0 /\ todo' \in Seq(Paths) /\ fsm' = <<>> /\ mounted' = {} /\ dirty' = {}
      BY <1>0, <1>2 DEF Start, Unmounting, WellMade
  <2> QED
      BY <2>1, <2>2, <2>3, <2>4 DEF Types, WellMade
<1>3. CASE Crash \/ Renew \/ RunOut
  <2>1. bound' \in [Paths -> Seq(Mounts \cup {Native})] /\ Jobs(job')
      BY <1>0, <1>a, <1>3, Idling DEF Crash, Renew, RunOut, kernel
  <2> QED
      BY <1>0, <1>3, <2>1 DEF Crash, Renew, RunOut, kernel, data, Types
<1>4. CASE Build
  <2> DEFINE j == [op |-> "add", at |-> Head(todo), m |-> None, step |-> "fuse"]
  <2>1. Head(todo) \in Paths /\ Tail(todo) \in Seq(Paths)
      BY <1>0, <1>4 DEF Build
  <2>2. j \in JobState /\ j.step = "fuse" /\ j.at \in Paths
      BY <2>1 DEF JobState, Steps
  <2>3. job' = [job EXCEPT ![Builder] = j]
      BY <1>4 DEF Build
  <2> HIDE DEF j
  <2>4. Jobs(job')
      BY <2>2, <2>3, Asking DEF Over, Workers
  <2> QED
      BY <1>0, <1>4, <2>1, <2>4 DEF Build, kernel, data, Types
<1>5. CASE Listen \/ Kill \/ Unmount \/ (\E m \in Mounts : StopFlush(m)) \/ Sweep \/ Erase
  <2>1. /\ UNCHANGED <<seq, todo, held, job>> /\ fsm' \in {fsm, <<>>}
        /\ bound' \in {bound, Unbound} /\ mounted' \subseteq mounted /\ dirty' \subseteq mounted'
      BY <1>0, <1>5 DEF Listen, Kill, Unmount, StopFlush, Sweep, Erase, Unmounting,
             memory, kernel, data
  <2>2. fsm' \in Seq(Entry) /\ bound' \in [Paths -> Seq(Mounts \cup {Native})]
    <3>1. <<>> \in Seq(Entry)
        OBVIOUS
    <3>2. fsm' = fsm \/ fsm' = <<>>
        BY <2>1
    <3>3. fsm' \in Seq(Entry)
        BY <1>0, <3>1, <3>2
    <3> QED
        BY <1>0, <1>a, <2>1, <3>3
  <2>3. mounted' \subseteq 1 .. seq'
      BY <1>0, <2>1
  <2> QED
      BY <1>0, <2>1, <2>2, <2>3 DEF Types
<1>6. CASE Exit
  <2>1. Jobs(job')
      BY <1>6, Idling DEF Exit
  <2> QED
      BY <1>0, <1>6, <2>1 DEF Exit, kernel, data, Types
<1>7. CASE LeaseWatch
    BY <1>0, <1>7 DEF LeaseWatch, Notice, Expire, WatchFlush, kernel, data, Types
<1>8. CASE Down
  <2>1. /\ UNCHANGED <<seq, todo, held, job, fsm, bound>>
        /\ mounted' \subseteq mounted /\ dirty' \subseteq mounted'
      BY <1>0, <1>8 DEF Down, Dial, Wait, Clear, EraseDown, Unmounting, memory, kernel,
             data
  <2> QED
      BY <1>0, <2>1 DEF Types
<1>9. ASSUME NEW p \in Paths, Write(p) PROVE Types'
    BY <1>0, <1>9 DEF Write, memory, kernel, Types
<1>10. ASSUME NEW m \in Mounts, Upload(m) PROVE Types'
    BY <1>0, <1>10 DEF Upload, memory, kernel, Types
<1>11. ASSUME NEW w \in Workers, Request(w) PROVE Types'
  <2>0. Jobs(job') /\ job[w].at \in Paths
      BY <1>11, Requests
  <2>1. CASE MountFuse(w)
      BY <1>0, <2>0, <2>1 DEF MountFuse, data, Types, WellMade
  <2>2. CASE Enter(w)
    <3>1. [at |-> job[w].at, m |-> job[w].m] \in Entry
        BY <2>0, <2>2 DEF Enter, NotYet, Fresh, Makes, Making, Entry
    <3>2. fsm' \in Seq(Entry)
        BY <1>0, <2>2, <3>1 DEF Enter
    <3> QED
        BY <1>0, <2>0, <2>2, <3>2 DEF Enter, kernel, data, Types
  <2>3. CASE Bind(w)
    <3>1. bound' \in [Paths -> Seq(Mounts \cup {Native})]
      <4>1. CASE Alive
        <5>1. Append(bound[job[w].at], job[w].m) \in Seq(Mounts \cup {Native})
            BY <1>0, <2>0, <2>3 DEF Bind, NotYet, Fresh, Makes, Making
        <5>2. bound' = [bound EXCEPT ![job[w].at] = Append(bound[job[w].at], job[w].m)]
            BY <2>3, <4>1 DEF Bind
        <5> QED
            BY <1>0, <5>1, <5>2
      <4> QED
          BY <1>0, <2>3, <4>1 DEF Bind
    <3> QED
        BY <1>0, <2>0, <2>3, <3>1 DEF Bind, data, Types
  <2>4. CASE Undo(w) \/ Release(w)
    <3> DEFINE is == {i \in DOMAIN fsm : fsm[i].m = job[w].m}
    <3>1. fsm' = WithoutFirst(fsm, is)
        BY <2>4 DEF Undo, Release
    <3>2. fsm' \in Seq(Entry)
        BY <1>0, <3>1, First
    <3>3. mounted' \subseteq mounted /\ dirty' \subseteq mounted'
        BY <1>0, <2>4 DEF Undo, Release, Unmounting
    <3> QED
        BY <1>0, <2>0, <2>4, <3>2, <3>3 DEF Undo, Release, Types
  <2>5. CASE Remember(w)
    <3>1. [at |-> job[w].at, m |-> job[w].m] \in Entry
        BY <2>0, <2>5 DEF Remember, NotYet, Fresh, Makes, Making, Entry
    <3>2. held' \in Seq(Entry)
        BY <1>0, <2>5, <3>1 DEF Remember
    <3> QED
        BY <1>0, <2>0, <2>5, <3>2 DEF Remember, kernel, data, Types
  <2>6. CASE Fail(w)
      BY <1>0, <1>a, <2>0, <2>6 DEF Fail, data, Types
  <2>7. CASE Find(w) \/ Flush(w)
    <3>1. UNCHANGED <<seq, todo, fsm, held, bound, mounted, dirty>>
        BY <2>7 DEF Find, Flush, kernel, data
    <3> QED
        BY <1>0, <2>0, <3>1 DEF Types
  <2>8. CASE Unbind(w)
    <3>1. bound' \in [Paths -> Seq(Mounts \cup {Native})]
      <4>1. CASE Alive /\ bound[job[w].at] # <<>>
        <5>1. Front(bound[job[w].at]) \in Seq(Mounts \cup {Native})
            BY <1>0, <2>0, <4>1 DEF Front
        <5>2. bound' = [bound EXCEPT ![job[w].at] = Front(bound[job[w].at])]
            BY <2>8, <4>1 DEF Unbind
        <5> QED
            BY <1>0, <5>1, <5>2
      <4>2. CASE ~(Alive /\ bound[job[w].at] # <<>>)
          BY <1>0, <2>8, <4>2 DEF Unbind
      <4> QED
          BY <4>1, <4>2
    <3> QED
        BY <1>0, <2>0, <2>8, <3>1 DEF Unbind, data, Types
  <2>9. CASE Forget(w)
    <3> DEFINE is == {i \in DOMAIN held : held[i].at = job[w].at}
    <3>1. held' = WithoutFirst(held, is)
        BY <2>9 DEF Forget
    <3>2. held' \in Seq(Entry)
        BY <1>0, <3>1, First
    <3> QED
        BY <1>0, <2>0, <2>9, <3>2 DEF Forget, kernel, data, Types
  <2> QED
      BY <1>11, <2>1, <2>2, <2>3, <2>4, <2>5, <2>6, <2>7, <2>8, <2>9 DEF Request
<1>12. ASSUME NEW h \in Handlers, NEW p \in Paths, NEW op \in {"add", "remove"}, Ask(h, op, p)
       PROVE  Types'
  <2> DEFINE j == [op |-> op, at |-> p, m |-> None, step |-> IF op = "add" THEN "fuse" ELSE "find"]
  <2>1. j \in JobState /\ j.step \in {"fuse", "find"} /\ j.at \in Paths
      BY DEF JobState, Steps
  <2>2. job' = [job EXCEPT ![h] = j]
      BY <1>12 DEF Ask
  <2> HIDE DEF j
  <2>3. Jobs(job')
      BY <2>1, <2>2, Asking DEF Over, Workers
  <2> QED
      BY <1>0, <1>12, <2>3 DEF Ask, kernel, data, Types
<1> QED
    BY <1>1, <1>2, <1>3, <1>4, <1>5, <1>6, <1>7, <1>8, <1>9, <1>10, <1>11, <1>12
       DEF Next, Serve

\* A step that makes nothing, writes nothing and lists nothing.
LEMMA Fading ==
    ASSUME WellMade, Discards, Types', seq' = seq,
           \A i \in DOMAIN fsm' : \E j \in DOMAIN fsm : fsm'[i] = fsm[j],
           \A w \in Workers : Makes(w)' =>
               /\ Makes(w) /\ job'[w].m = job[w].m /\ job'[w].at = job[w].at
               /\ job'[w].step \in {"enter", "bind"} => job[w].step \in {"enter", "bind"},
           \A p \in Paths : \A i \in DOMAIN bound'[p] :
               \E j \in DOMAIN bound[p] : bound'[p][i] = bound[p][j],
           dirty' \subseteq dirty,
           server' = "killed" => /\ server = "killed"
                                 /\ \A m \in dirty' : m \in stopping \cup said => m \in stopping' \cup said',
           "stop" \notin lost'
    PROVE  Discards'
<1>1. \A m \in Mounts, p \in Paths : At(m, p)' => At(m, p)
    BY DEF At
<1>2. OnePlace'
    BY <1>1 DEF Discards, OnePlace
<1>3. NotYet'
  <2> SUFFICES ASSUME NEW w \in Workers, Makes(w)' PROVE Fresh(w)'
      BY DEF NotYet, Fresh
  <2>1. Makes(w) /\ Fresh(w) /\ job'[w].m = job[w].m
      BY DEF Discards, NotYet
  <2>2. \A v \in Workers : Makes(v)' /\ job'[v].m = job'[w].m => v = w
      BY <2>1 DEF Fresh
  <2>3. job'[w].step \in {"enter", "bind"} =>
           /\ job'[w].m \notin dirty'
           /\ \A p \in Paths : \A i \in DOMAIN bound'[p] : bound'[p][i] # job'[w].m
      BY <2>1 DEF Fresh
  <2> QED
      BY <2>1, <2>2, <2>3 DEF Fresh
<1>4. ToFlush'
    BY DEF Discards, ToFlush
<1> QED
    BY <1>2, <1>3, <1>4 DEF Discards

\* The steps of a request that fade.
LEMMA FadeRequest ==
    ASSUME WellMade, Discards, Types', NEW w \in Workers, Request(w), ~MountFuse(w), ~Enter(w), ~Bind(w)
    PROVE  Discards'
<1>0. Types /\ NotYet
    BY DEF Discards
<1>1. /\ Jobs(job') /\ job[w].at \in Paths
      /\ \/ job' = [x \in Workers |-> Idle]
         \/ /\ \A v \in Workers \ {w} : job'[v] = job[v]
            /\ job'[w].step \notin Making
  <2>1. CASE Undo(w) \/ Flush(w) \/ Unbind(w) \/ Release(w)
    <3>1. PICK s \in {"failed", "unbind", "remove", "forget"} : Go(w, s)
        BY <2>1 DEF Undo, Flush, Unbind, Release
    <3>2. s \in Steps \ Over /\ s \notin Making /\ job[w].step \notin Over
        BY <2>1 DEF Steps, Over, Making, Undo, Flush, Unbind, Release
    <3> QED
        BY <1>0, <3>1, <3>2, Going, Requests
  <2>2. CASE Remember(w) \/ Forget(w) \/ Fail(w)
    <3>1. Over \cap Making = {}
        BY DEF Over, Making
    <3>2. Answer(w) \/ job' = [x \in Workers |-> Idle]
        BY <2>2 DEF Remember, Forget, Fail
    <3> QED
        BY <1>0, <3>1, <3>2, Answering, Requests
  <2>3. CASE Find(w)
    <3>1. job \in [Workers -> JobState] /\ job[w] \in JobState
        BY <1>0 DEF Types, Jobs
    <3>2. \E m, s : job' = [job EXCEPT ![w].m = m, ![w].step = s] /\ s \in {"failed", "unbind", "flush"}
        BY <2>3 DEF Find
    <3>3. job'[w].step \in {"failed", "unbind", "flush"} /\ \A v \in Workers \ {w} : job'[v] = job[v]
        BY <3>1, <3>2 DEF JobState
    <3> QED
        BY <1>0, <3>3, Requests DEF Making
  <2> QED
      BY <2>1, <2>2, <2>3 DEF Request
<1>2. \A v \in Workers : Makes(v)' => Makes(v) /\ job'[v] = job[v]
    BY <1>1 DEF Makes, Making, Idle
<1>3. /\ seq' = seq /\ dirty' \subseteq dirty /\ "stop" \notin lost' /\ stopping' = stopping /\ said' = said
      /\ server' = "killed" => server = "killed"
  <2>1. CASE Undo(w) \/ Release(w)
      BY <2>1 DEF Undo, Release, Unmounting, Discards, history
  <2>2. CASE Remember(w) \/ Fail(w)
      BY <2>2 DEF Remember, Fail, Discards, data
  <2>3. CASE Find(w)
      BY <2>3 DEF Find, Discards, data
  <2>4. CASE Flush(w) \/ Unbind(w) \/ Forget(w)
      BY <2>4 DEF Flush, Unbind, Forget, Discards, data
  <2> QED
      BY <2>1, <2>2, <2>3, <2>4 DEF Request
<1>4. \A i \in DOMAIN fsm' : \E j \in DOMAIN fsm : fsm'[i] = fsm[j]
  <2>1. CASE Undo(w) \/ Release(w)
    <3> DEFINE is == {i \in DOMAIN fsm : fsm[i].m = job[w].m}
    <3>1. fsm' = WithoutFirst(fsm, is) /\ fsm \in Seq(Entry)
        BY <1>0, <2>1 DEF Undo, Release, Types
    <3>2. is \in SUBSET (DOMAIN fsm)
        OBVIOUS
    <3> HIDE DEF is
    <3> QED
        BY <3>1, <3>2, Fewer
  <2>2. CASE fsm' = fsm
      BY <2>2
  <2> QED
      BY <2>1, <2>2 DEF Request, Remember, Fail, Find, Flush, Unbind, Forget
<1>5. \A p \in Paths : \A i \in DOMAIN bound'[p] : \E j \in DOMAIN bound[p] : bound'[p][i] = bound[p][j]
  <2>1. CASE Unbind(w) /\ Alive /\ bound[job[w].at] # <<>>
    <3> DEFINE b == bound[job[w].at]
    <3>1. bound' = [bound EXCEPT ![job[w].at] = Front(b)] /\ b # <<>> /\ b \in Seq(Mounts \cup {Native})
        BY <1>0, <1>1, <2>1 DEF Unbind, Types
    <3>2. \A i \in DOMAIN Front(b) : i \in DOMAIN b /\ Front(b)[i] = b[i]
        BY <3>1 DEF Front
    <3> QED
        BY <1>0, <1>1, <3>1, <3>2 DEF Types
  <2>2. CASE bound' = bound
      BY <2>2
  <2>3. CASE Fail(w) /\ bound' = Unbound
      BY <2>3 DEF Unbound
  <2> QED
      BY <2>1, <2>2, <2>3 DEF Request, Undo, Release, Remember, Fail, Find, Flush, Unbind,
             Forget, kernel
<1> QED
    BY <1>2, <1>3, <1>4, <1>5, Fading

\* Every step: a mount is made, entered and bound by one request, and then only fades.
LEMMA DiscardsNext == ASSUME WellMade, Discards, [Next]_vars PROVE Discards'
<1>0. Types /\ NotYet /\ Types'
    BY TypesNext DEF Discards
<1>f. ASSUME UNCHANGED <<seq, bound>>, fsm' = fsm \/ fsm' = <<>>,
             job' = job \/ (\A w \in Workers : job'[w] = job[w] \/ ~Makes(w)'),
             dirty' \subseteq dirty,
             server' = "killed" => server = "killed" /\ (\A m \in dirty' : m \in stopping \cup said => m \in stopping' \cup said'),
             "stop" \notin lost'
      PROVE  Discards'
  <2>1. \A w \in Workers : Makes(w)' => Makes(w) /\ job'[w] = job[w]
      BY <1>f DEF Makes
  <2>2. \A i \in DOMAIN fsm' : \E j \in DOMAIN fsm : fsm'[i] = fsm[j]
      BY <1>f
  <2> QED
      BY <1>0, <1>f, <2>1, <2>2, Fading
<1>1. CASE UNCHANGED vars
    BY <1>1, <1>f DEF vars, memory, kernel, data, Discards
<1>2. CASE Start
  <2>1. /\ seq' = 0 /\ fsm' = <<>> /\ job' = [w \in Workers |-> Idle] /\ dirty' = {}
        /\ bound' = [p \in Paths |-> IF p \in Own THEN <<Native>> ELSE <<>>]
        /\ server' = "building" /\ "stop" \notin lost'
      BY <1>0, <1>2 DEF Start, Unmounting, Types, Discards
  <2>2. \A w \in Workers : ~Makes(w)'
      BY <2>1 DEF Makes, Making, Idle
  <2>3. \A m \in Mounts, p \in Paths : ~At(m, p)'
    <3>1. \A p \in Paths : \A i \in DOMAIN bound'[p] : bound'[p][i] = Native
        BY <2>1
    <3> QED
        BY <2>1, <2>2, <3>1 DEF At, Mounts, Native
  <2> QED
      BY <1>0, <2>1, <2>2, <2>3 DEF Discards, OnePlace, NotYet, Fresh, ToFlush
<1>3. CASE Crash
  <2>1. /\ seq' = seq /\ fsm' = fsm /\ job' = [w \in Workers |-> Idle] /\ dirty' = dirty
        /\ bound' = Unbound /\ server' = "gone" /\ "stop" \notin lost'
      BY <1>3 DEF Crash, data, Discards
  <2>2. \A w \in Workers : ~Makes(w)'
      BY <2>1 DEF Makes, Making, Idle
  <2>3. \A p \in Paths : \A i \in DOMAIN bound'[p] : FALSE
      BY <2>1 DEF Unbound
  <2> QED
      BY <1>0, <2>1, <2>2, <2>3, Fading
<1>4. CASE Renew \/ RunOut \/ Listen \/ Sweep \/ Erase
    BY <1>4, <1>f DEF Renew, RunOut, Listen, Sweep, Erase, Unmounting, memory, kernel,
           data, Discards
<1>5. CASE Exit
  <2>1. \A w \in Workers : ~Makes(w)'
      BY <1>5 DEF Exit, Makes, Making, Idle
  <2> QED
      BY <1>5, <1>f, <2>1 DEF Exit, kernel, data, Discards
<1>6. CASE Build
  <2>1. \A w \in Workers : job'[w] = job[w] \/ ~Makes(w)'
      BY <1>0, <1>6 DEF Build, Makes, Making, Types, Jobs
  <2> QED
      BY <1>6, <1>f, <2>1 DEF Build, kernel, data, Discards
<1>7. CASE Kill
  <2>1. /\ UNCHANGED <<seq, fsm, job, dirty, lost>> /\ bound' = Unbound
        /\ stopping' = IdsOf(Writable(fsm)) /\ server' = "killed"
      BY <1>7 DEF Kill, data
  <2>2. /\ \A m, p : At(m, p)' => At(m, p) \/ p \notin Paths
        /\ \A w \in Workers : Makes(w)' = Makes(w)
      BY <2>1 DEF At, Makes, Unbound
  <2>3. OnePlace'
      BY <2>1, <2>2 DEF OnePlace, Discards
  <2>4. NotYet'
    <3>1. \A p \in Paths : DOMAIN bound'[p] = {}
        BY <2>1 DEF Unbound
    <3>2. ASSUME NEW w \in Workers, Makes(w) PROVE Fresh(w)'
        BY <1>0, <2>1, <2>2, <3>1, <3>2 DEF NotYet, Fresh
    <3> QED
        BY <2>2, <3>2 DEF NotYet, Fresh
  <2>5. ASSUME NEW i \in DOMAIN fsm, fsm[i].m \in dirty PROVE fsm[i].m \in stopping'
    <3>1. fsm[i] \in Entry
        BY <1>0 DEF Types
    <3>2. fsm[i].at \in Paths /\ fsm[i].m \in Mounts
      <4>1. dirty \subseteq Mounts
          BY <1>0 DEF Types, Mounts, WellMade
      <4> QED
          BY <2>5, <3>1, <4>1 DEF Entry
    <3>3. At(fsm[i].m, fsm[i].at)
        BY DEF At
    <3>4. fsm[i].at \notin ReadOnly
        BY <2>5, <3>2, <3>3 DEF OnePlace, Discards
    <3> QED
        BY <2>1, <3>4 DEF IdsOf, Writable, Range
  <2> QED
      BY <1>0, <2>1, <2>3, <2>4, <2>5 DEF Discards, ToFlush
<1>8. ASSUME NEW m \in Mounts, StopFlush(m) PROVE Discards'
  <2>1. \A x \in dirty' : x \in stopping \cup said => x \in stopping' \cup said'
      BY <1>8 DEF StopFlush, Flushed
  <2> QED
      BY <1>8, <1>f, <2>1 DEF StopFlush, kernel, Discards
<1>9. CASE Unmount
  <2>1. IdsOf(Range(fsm)) \cap dirty \subseteq said
      BY <1>9 DEF Unmount, Discards, ToFlush, IdsOf, Range
  <2> QED
      BY <1>9, <1>f, <2>1 DEF Unmount, Unmounting, Discards
<1>10. CASE LeaseWatch
    BY <1>10, <1>f DEF LeaseWatch, Notice, Expire, WatchFlush, Close, kernel, data,
           Discards
<1>11. CASE Down
    BY <1>11, <1>f DEF Down, Dial, Wait, Clear, EraseDown, Close, Unmounting, memory,
           kernel, data, Discards
<1>12. ASSUME NEW m \in Mounts, Upload(m) PROVE Discards'
    BY <1>12, <1>f DEF Upload, memory, kernel, Discards
<1>13. ASSUME NEW h \in Handlers, NEW p \in Paths, NEW op \in {"add", "remove"}, Ask(h, op, p)
       PROVE  Discards'
  <2>1. \A w \in Workers : job'[w] = job[w] \/ ~Makes(w)'
      BY <1>0, <1>13 DEF Ask, Makes, Making, Types, Jobs
  <2> QED
      BY <1>13, <1>f, <2>1 DEF Ask, kernel, data, Discards
<1>14. ASSUME NEW p \in Paths, Write(p) PROVE Discards'
  <2> DEFINE m == Last(bound[p])
  <2>1. /\ dirty' = dirty \cup {m} /\ m \in mounted /\ p \notin ReadOnly /\ bound[p] # <<>>
        /\ UNCHANGED <<server, seq, fsm, job, bound, stopping, said, lost>> /\ Alive
      BY <1>14 DEF Write, memory, kernel
  <2>2. m \in Mounts /\ \E i \in DOMAIN bound[p] : bound[p][i] = m
    <3>1. bound[p] \in Seq(Mounts \cup {Native}) /\ mounted \subseteq Mounts
        BY <1>0 DEF Types, Mounts, WellMade
    <3>2. Len(bound[p]) \in DOMAIN bound[p]
        BY <2>1, <3>1
    <3> QED
        BY <2>1, <3>1, <3>2 DEF Last
  <2>3. At(m, p)
      BY <2>2 DEF At
  <2> HIDE DEF m
  <2>4. \A n, q : At(n, q)' = At(n, q)
      BY <2>1 DEF At, Makes
  <2>5. OnePlace'
      BY <2>1, <2>2, <2>3, <2>4 DEF OnePlace, Discards
  <2>6. NotYet'
      BY <2>1, <2>2 DEF NotYet, Fresh, Makes, Discards
  <2> QED
      BY <1>0, <2>1, <2>5, <2>6 DEF Discards, ToFlush, Alive
<1>15. ASSUME NEW w \in Workers, MountFuse(w) PROVE Discards'
  <2>0. job \in [Workers -> JobState] /\ job[w].step = "fuse"
      BY <1>0, <1>15 DEF Types, Jobs, MountFuse
  <2>1. /\ seq' = seq + 1 /\ seq \in Nat /\ seq + 1 \in Mounts /\ seq + 1 \notin dirty
        /\ UNCHANGED <<server, fsm, bound, stopping, dirty, said, lost>>
      BY <1>0, <1>15 DEF MountFuse, data, Types, WellMade, Mounts
  <2>2. /\ \A v \in Workers \ {w} : job'[v] = job[v]
        /\ \/ job'[w].step = "enter" /\ job'[w].m = seq + 1 /\ job'[w].at = job[w].at
           \/ job'[w].step = "failed"
    <3>1. CASE Go(w, "failed")
        BY <2>0, <3>1 DEF Go, JobState
    <3>2. CASE job' = [job EXCEPT ![w].m = seq + 1, ![w].step = "enter"]
        BY <2>0, <3>2 DEF JobState
    <3> QED
        BY <1>15, <3>1, <3>2 DEF MountFuse
  <2>3. \A m \in Mounts, p \in Paths : At(m, p)' => At(m, p) \/ (m = seq + 1 /\ p = job[w].at /\ Makes(w)')
    <3> SUFFICES ASSUME NEW m \in Mounts, NEW p \in Paths, At(m, p)'
                 PROVE  At(m, p) \/ (m = seq + 1 /\ p = job[w].at /\ Makes(w)')
        OBVIOUS
    <3>1. CASE \E i \in DOMAIN fsm' : fsm'[i].m = m /\ fsm'[i].at = p
        BY <2>1, <3>1 DEF At
    <3>2. CASE \E i \in DOMAIN bound'[p] : bound'[p][i] = m
        BY <2>1, <3>2 DEF At
    <3>3. ASSUME NEW v \in Workers, Makes(v)', job'[v].m = m, job'[v].at = p
          PROVE  At(m, p) \/ (m = seq + 1 /\ p = job[w].at /\ Makes(w)')
      <4>1. CASE v = w
        <5>1. job'[w].step # "failed"
            BY <3>3, <4>1 DEF Makes, Making
        <5> QED
            BY <2>2, <3>3, <4>1, <5>1
      <4>2. CASE v # w
        <5>1. job'[v] = job[v]
            BY <2>2, <4>2
        <5>2. Makes(v) /\ job[v].m = m /\ job[v].at = p
            BY <3>3, <5>1 DEF Makes
        <5> QED
            BY <5>2 DEF At
      <4> QED
          BY <4>1, <4>2
    <3> QED
        BY <3>1, <3>2, <3>3 DEF At
  <2>4. \A p \in Paths : ~At(seq + 1, p)
      BY <2>1 DEF Discards, OnePlace
  <2>5. OnePlace'
      BY <2>1, <2>3, <2>4 DEF Discards, OnePlace
  <2>6. \A v \in Workers \ {w} : Makes(v) => job[v].m # seq + 1
    <3>1. \A v \in Workers : Makes(v) => job[v].at \in Paths
        BY <1>0 DEF Types, Jobs, Makes, Making, Over
    <3> QED
        BY <2>4, <3>1 DEF At
  <2>7. \A p \in Paths : \A i \in DOMAIN bound[p] : bound[p][i] # seq + 1
      BY <2>4 DEF At
  <2>8. NotYet'
    <3> SUFFICES ASSUME NEW v \in Workers, Makes(v)' PROVE Fresh(v)'
        BY DEF NotYet, Fresh
    <3>1. CASE v = w
        BY <2>1, <2>2, <2>6, <2>7, <3>1 DEF Fresh, Makes, Making
    <3>2. CASE v # w
      <4>1. Fresh(v) /\ Makes(v) /\ job[v].m # seq + 1
          BY <2>2, <2>6, <3>2 DEF Discards, NotYet, Makes
      <4> QED
          BY <2>1, <2>2, <3>2, <4>1 DEF Fresh, Makes, Making
    <3> QED
        BY <3>1, <3>2
  <2> QED
      BY <1>0, <2>1, <2>5, <2>8 DEF Discards, ToFlush
<1>16. ASSUME NEW w \in Workers, Enter(w) PROVE Discards'
  <2>0. job \in [Workers -> JobState] /\ job[w].step = "enter" /\ Makes(w) /\ Fresh(w)
      BY <1>0, <1>16 DEF Types, Jobs, Enter, Makes, Making, NotYet
  <2> DEFINE x == [at |-> job[w].at, m |-> job[w].m]
  <2>1. /\ fsm' = Append(fsm, x)
        /\ UNCHANGED <<server, seq, bound, dirty, stopping, said, lost>>
        /\ \A v \in Workers \ {w} : job'[v] = job[v]
        /\ job'[w].step = "bind" /\ job'[w].m = job[w].m /\ job'[w].at = job[w].at
      BY <1>16, <2>0 DEF Enter, kernel, data, Go, JobState
  <2>2. /\ fsm \in Seq(Entry) /\ x \in Entry /\ x.at = job[w].at /\ x.m = job[w].m
    <3>1. job[w].at \in Paths /\ job[w].m \in Mounts
        BY <1>0, <2>0 DEF Types, Jobs, Over, Fresh
    <3> QED
        BY <1>0, <3>1 DEF Types, Entry
  <2> HIDE DEF x
  <2>3. \A i \in DOMAIN fsm' : (i \in DOMAIN fsm /\ fsm'[i] = fsm[i]) \/ fsm'[i] = x
      BY <2>1, <2>2
  <2>4. \A v \in Workers : Makes(v)' = Makes(v) /\ job'[v].m = job[v].m /\ job'[v].at = job[v].at
                            /\ (job'[v].step \in {"enter", "bind"} => job[v].step \in {"enter", "bind"})
      BY <2>0, <2>1 DEF Makes, Making
  <2>5. \A m \in Mounts, p \in Paths : At(m, p)' => At(m, p)
      BY <2>0, <2>1, <2>2, <2>3, <2>4 DEF At
  <2>6. OnePlace'
      BY <2>1, <2>5 DEF OnePlace, Discards
  <2>7. NotYet'
      BY <1>0, <2>1, <2>4 DEF NotYet, Fresh
  <2>8. ToFlush'
    <3>1. x.m \notin dirty
        BY <2>0, <2>2 DEF Fresh
    <3> QED
        BY <2>1, <2>3, <3>1 DEF ToFlush, Discards
  <2> QED
      BY <1>0, <2>1, <2>6, <2>7, <2>8 DEF Discards
<1>17. ASSUME NEW w \in Workers, Bind(w) PROVE Discards'
  <2>0. job \in [Workers -> JobState] /\ job[w].step = "bind" /\ Makes(w) /\ Fresh(w)
      BY <1>0, <1>17 DEF Types, Jobs, Bind, Makes, Making, NotYet
  <2> DEFINE p == job[w].at
             m == job[w].m
  <2>1. /\ UNCHANGED <<server, seq, fsm, dirty, stopping, said, lost>>
        /\ \A v \in Workers \ {w} : job'[v] = job[v]
        /\ job'[w].step \in {"remember", "undo"} /\ job'[w].m = m /\ job'[w].at = p
      BY <1>17, <2>0 DEF Bind, data, Go, JobState
  <2>2. p \in Paths /\ m \in Mounts /\ bound[p] \in Seq(Mounts \cup {Native})
      BY <1>0, <2>0 DEF Types, Jobs, Over, Fresh
  <2>3. \A q \in Paths : \A i \in DOMAIN bound'[q] :
           (i \in DOMAIN bound[q] /\ bound'[q][i] = bound[q][i]) \/ (q = p /\ bound'[q][i] = m)
    <3>1. CASE bound' = bound
        BY <3>1
    <3>2. CASE bound' = [bound EXCEPT ![p] = Append(bound[p], m)]
      <4>1. \A q \in Paths \ {p} : bound'[q] = bound[q]
          BY <1>0, <3>2 DEF Types
      <4>2. bound'[p] = Append(bound[p], m)
          BY <1>0, <2>2, <3>2 DEF Types
      <4>3. \A i \in DOMAIN bound'[p] : (i \in DOMAIN bound[p] /\ bound'[p][i] = bound[p][i]) \/ bound'[p][i] = m
          BY <2>2, <4>2
      <4> QED
          BY <4>1, <4>3
    <3> QED
        BY <1>17, <3>1, <3>2 DEF Bind
  <2> HIDE DEF p, m
  <2>4. \A v \in Workers : Makes(v)' = Makes(v) /\ job'[v].m = job[v].m /\ job'[v].at = job[v].at
                            /\ (job'[v].step \in {"enter", "bind"} => v # w /\ job'[v] = job[v])
      BY <2>0, <2>1 DEF Makes, Making, p, m
  <2>5. \A n \in Mounts, q \in Paths : At(n, q)' => At(n, q)
      BY <2>0, <2>1, <2>3, <2>4 DEF At, p, m
  <2>6. OnePlace'
      BY <2>1, <2>5 DEF OnePlace, Discards
  <2>7. NotYet'
    <3> SUFFICES ASSUME NEW v \in Workers, Makes(v)' PROVE Fresh(v)'
        BY DEF NotYet, Fresh
    <3>1. Fresh(v) /\ Makes(v)
        BY <1>0, <2>4 DEF NotYet
    <3>2. v # w => job[v].m # m
        BY <2>0, <3>1 DEF Fresh, m
    <3> QED
        BY <2>1, <2>3, <2>4, <3>1, <3>2 DEF Fresh
  <2> QED
      BY <1>0, <2>1, <2>6, <2>7 DEF Discards, ToFlush
<1>18. ASSUME NEW w \in Workers, Request(w) PROVE Discards'
    BY <1>0, <1>15, <1>16, <1>17, <1>18, FadeRequest
<1> QED
    BY <1>1, <1>2, <1>3, <1>4, <1>5, <1>6, <1>7, <1>8, <1>9, <1>10, <1>11, <1>12, <1>13,
           <1>14, <1>18
       DEF Next, Serve

\* Before the first server there is nothing.
LEMMA DiscardsInit == ASSUME WellMade, Init PROVE Discards
<1>1. Jobs(job)
    BY Idling DEF Init
<1>2. bound \in [Paths -> Seq(Mounts \cup {Native})] /\ \A p \in Paths : DOMAIN bound[p] = {}
    BY DEF Init, Unbound
<1>3. Types
    BY <1>1, <1>2 DEF Init, Types, WellMade
<1>4. \A w \in Workers : ~Makes(w)
    BY DEF Init, Makes, Making, Idle
<1>5. \A m, p : p \in Paths => ~At(m, p)
    BY <1>2, <1>4 DEF At, Init
<1> QED
    BY <1>3, <1>4, <1>5 DEF Init, Discards, OnePlace, NotYet, Fresh, ToFlush

\* The end of serve discards nothing that it has not said, also with requests under way
\* as the pod goes (node.go:332).
THEOREM NodeServerStopDiscardsNothing == ASSUME WellMade PROVE Spec => []StopDiscardsNothing
<1>1. Init => Discards
    BY DiscardsInit
<1>2. Discards /\ [Next]_vars => Discards'
    BY DiscardsNext
<1>3. Discards => StopDiscardsNothing
    BY DEF Discards, StopDiscardsNothing
<1> QED
    BY <1>1, <1>2, <1>3, PTL DEF Spec

-----------------------------------------------------------------------------
\* What a list has at a path.
EntriesIn(s, p) == {i \in DOMAIN s : s[i].at = p}

\* The worker that is about a path is the only one that is.
Alone(p) == \A w, v \in Workers : job[w].at = p /\ job[v].at = p => w = v

\* A path has as many binds as entries, but for the one request that is about it.
Counted(p) ==
    /\ Alone(p)
    /\ Len(bound[p]) + Cardinality(Short(p)) = Cardinality(EntriesIn(held, p)) + Cardinality(Extra(p))

\* While the server listens, for every path that no two requests were about at once.
Counts ==
    /\ Discards
    /\ server = "building" => \A h \in Handlers : job[h] = Idle
    /\ server = "serving" => job[Builder] = Idle
    /\ Listening => \A p \in Paths \ crossed : Counted(p)

\* They can be counted.
LEMMA EntriesFinite ==
    ASSUME NEW s \in Seq(Entry), NEW p
    PROVE  IsFiniteSet(EntriesIn(s, p)) /\ Cardinality(EntriesIn(s, p)) \in Nat
<1>1. EntriesIn(s, p) \subseteq 1 .. Len(s) /\ Len(s) \in Nat
    BY DEF EntriesIn
<1>2. IsFiniteSet(1 .. Len(s))
    BY <1>1, FS_Interval
<1> QED
    BY <1>1, <1>2, FS_Subset, FS_CardinalityType

\* An entry more at one path.
LEMMA OneMore ==
    ASSUME NEW s \in Seq(Entry), NEW e \in Entry, NEW p
    PROVE  Cardinality(EntriesIn(Append(s, e), p)) =
               Cardinality(EntriesIn(s, p)) + IF e.at = p THEN 1 ELSE 0
<1> DEFINE t == Append(s, e)
<1>1. /\ DOMAIN t = DOMAIN s \cup {Len(s) + 1} /\ Len(s) + 1 \notin DOMAIN s
      /\ \A i \in DOMAIN s : t[i] = s[i]
      /\ t[Len(s) + 1] = e
    OBVIOUS
<1> HIDE DEF t
<1>2. CASE e.at = p
  <2>1. EntriesIn(t, p) = EntriesIn(s, p) \cup {Len(s) + 1} /\ Len(s) + 1 \notin EntriesIn(s, p)
      BY <1>1, <1>2 DEF EntriesIn
  <2> QED
      BY <1>2, <2>1, EntriesFinite, FS_AddElement DEF t
<1>3. CASE e.at # p
  <2>1. EntriesIn(t, p) = EntriesIn(s, p)
      BY <1>1, <1>3 DEF EntriesIn
  <2> QED
      BY <1>3, <2>1, EntriesFinite DEF t
<1> QED
    BY <1>2, <1>3

\* An entry less at one path, and as many at the others.
LEMMA OneLess ==
    ASSUME NEW s \in Seq(Entry), NEW q, EntriesIn(s, q) # {}, NEW p
    PROVE  LET t == WithoutFirst(s, EntriesIn(s, q)) IN
           Cardinality(EntriesIn(s, p)) = Cardinality(EntriesIn(t, p)) + IF p = q THEN 1 ELSE 0
<1> DEFINE t == WithoutFirst(s, EntriesIn(s, q))
<1>0. EntriesIn(s, q) \in SUBSET (DOMAIN s) /\ DOMAIN s = 1 .. Len(s) /\ Len(s) \in Nat
    BY DEF EntriesIn
<1>1. t \in Seq(Entry) /\ Len(t) = Len(s) - 1
    BY <1>0, First
<1>2. PICK k \in EntriesIn(s, q) :
          \A i \in 1 .. Len(s) - 1 : t[i] = IF i < k THEN s[i] ELSE s[i + 1]
    BY <1>0, First
<1> HIDE DEF t
<1>3. k \in 1 .. Len(s) /\ s[k].at = q /\ DOMAIN t = 1 .. Len(s) - 1
  <2>1. k \in DOMAIN s /\ s[k].at = q
      BY DEF EntriesIn
  <2> QED
      BY <1>0, <1>1, <2>1
<1> DEFINE A == EntriesIn(t, p)
           B == EntriesIn(s, p) \ {k}
           g == [i \in A |-> IF i < k THEN i ELSE i + 1]
<1>4. \A i \in A : i \in 1 .. Len(s) - 1 /\ g[i] \in B
  <2> TAKE i \in A
  <2>1. i \in 1 .. Len(s) - 1 /\ t[i].at = p
      BY <1>3 DEF EntriesIn
  <2>2. CASE i < k
      BY <1>0, <1>2, <1>3, <2>1, <2>2 DEF EntriesIn
  <2>3. CASE ~(i < k)
      BY <1>0, <1>2, <1>3, <2>1, <2>3 DEF EntriesIn
  <2> QED
      BY <2>1, <2>2, <2>3
<1>5. ASSUME NEW j \in B PROVE \E i \in A : g[i] = j
  <2>1. j \in 1 .. Len(s) /\ s[j].at = p /\ j # k
      BY <1>0 DEF EntriesIn
  <2>2. CASE j < k
    <3>1. j \in 1 .. Len(s) - 1 /\ t[j] = s[j]
        BY <1>2, <1>3, <2>1, <2>2
    <3>2. j \in A
        BY <1>3, <2>1, <3>1 DEF EntriesIn
    <3> QED
        BY <2>2, <3>2
  <2>3. CASE j > k
    <3>1. j - 1 \in 1 .. Len(s) - 1 /\ ~(j - 1 < k) /\ t[j - 1] = s[j - 1 + 1] /\ j - 1 + 1 = j
        BY <1>2, <1>3, <2>1, <2>3
    <3>2. j - 1 \in A
        BY <1>3, <2>1, <3>1 DEF EntriesIn
    <3> QED
        BY <3>1, <3>2
  <2> QED
      BY <1>3, <2>1, <2>2, <2>3
<1>6. \A i, j \in A : g[i] = g[j] => i = j
    BY <1>3, <1>4
<1>7. g \in Bijection(A, B)
    BY <1>4, <1>5, <1>6 DEF Bijection, Injection, Surjection, IsInjective
<1> HIDE DEF g
<1>8. IsFiniteSet(A) /\ Cardinality(A) \in Nat /\ IsFiniteSet(EntriesIn(s, p))
      /\ Cardinality(EntriesIn(s, p)) \in Nat
    BY <1>1, EntriesFinite
<1>9. Cardinality(B) = Cardinality(A)
    BY <1>7, <1>8, FS_Bijection DEF ExistsBijection
<1> SUFFICES Cardinality(EntriesIn(s, p)) = Cardinality(A) + IF p = q THEN 1 ELSE 0
    BY DEF t
<1>10. CASE p = q
  <2>1. k \in EntriesIn(s, p) /\ Cardinality(EntriesIn(s, p)) # 0
      BY <1>8, <1>10, FS_EmptySet
  <2>2. Cardinality(B) = Cardinality(EntriesIn(s, p)) - 1
      BY <1>8, <2>1, FS_RemoveElement
  <2>3. Cardinality(EntriesIn(s, p)) = Cardinality(A) + 1
      BY <1>8, <1>9, <2>2
  <2> QED
      BY <1>10, <2>3
<1>11. CASE p # q
  <2>1. k \notin EntriesIn(s, p)
      BY <1>3, <1>11 DEF EntriesIn
  <2>2. B = EntriesIn(s, p)
      BY <2>1
  <2>3. Cardinality(EntriesIn(s, p)) = Cardinality(A)
      BY <1>9, <2>2
  <2> HIDE DEF A
  <2> QED
      BY <1>8, <1>11, <2>3
<1> QED
    BY <1>10, <1>11

-----------------------------------------------------------------------------
\* Nothing happens at a path.
LEMMA Still ==
    ASSUME NEW p \in Paths, Counted(p), bound'[p] = bound[p],
           Cardinality(EntriesIn(held', p)) = Cardinality(EntriesIn(held, p)),
           \A w \in Workers : job'[w] = job[w] \/ (job'[w].at # p /\ job[w].at # p)
    PROVE  Counted(p)'
<1>1. Short(p)' = Short(p) /\ Extra(p)' = Extra(p)
    BY DEF Short, Extra
<1>2. \A w \in Workers : job'[w].at = p => job[w].at = p
    OBVIOUS
<1>3. Alone(p)'
    BY <1>2 DEF Alone, Counted
<1> QED
    BY <1>1, <1>3 DEF Counted

\* The request that is about a path, as far as it has come.
LEMMA OneRequest ==
    ASSUME WellMade, NEW p \in Paths, NEW w \in Workers, Alone(p), job[w].at = p
    PROVE  /\ Cardinality(Extra(p)) = IF job[w].step = "remember" THEN 1 ELSE 0
           /\ Cardinality(Short(p)) = IF job[w].step \in {"remove", "forget"} THEN 1 ELSE 0
<1>1. \A v \in Workers : job[v].at = p => v = w
    BY DEF Alone
<1>2. Extra(p) = IF job[w].step = "remember" THEN {w} ELSE {}
    BY <1>1 DEF Extra
<1>3. Short(p) = IF job[w].step \in {"remove", "forget"} THEN {w} ELSE {}
    BY <1>1 DEF Short
<1> QED
    BY <1>2, <1>3, FS_Singleton, FS_EmptySet

\* A step of the request about a path, at that path.
LEMMA CountedHere ==
    ASSUME WellMade, Types, Types', NEW p \in Paths, Counted(p), NEW w \in Workers, Request(w),
           job[w].at = p, Listening, Listening'
    PROVE  Counted(p)'
<1> DEFINE L == Len(bound[p])
           E == Cardinality(EntriesIn(held, p))
           is == EntriesIn(held, p)
<1>1. /\ L \in Nat /\ E \in Nat /\ Len(bound'[p]) \in Nat
      /\ held \in Seq(Entry) /\ bound[p] \in Seq(Mounts \cup {Native})
    BY EntriesFinite DEF Types
<1>2. Alone(p) /\ L + Cardinality(Short(p)) = E + Cardinality(Extra(p))
    BY DEF Counted
<1>3. /\ Cardinality(Extra(p)) = IF job[w].step = "remember" THEN 1 ELSE 0
      /\ Cardinality(Short(p)) = IF job[w].step \in {"remove", "forget"} THEN 1 ELSE 0
    BY <1>2, OneRequest
<1>4. Alive
    BY DEF Listening, Alive
<1>5. \A v \in Workers \ {w} : job'[v] = job[v] /\ job'[v].at # p
  <2>1. ~(Fail(w) /\ w = Builder)
      BY DEF Fail, Listening
  <2> QED
      BY <1>2, <2>1, Requests DEF Alone
<1>6. ASSUME NEW step \in Steps \ Over, Go(w, step)
      PROVE  /\ Alone(p)'
             /\ Cardinality(Extra(p)') = IF step = "remember" THEN 1 ELSE 0
             /\ Cardinality(Short(p)') = IF step \in {"remove", "forget"} THEN 1 ELSE 0
  <2>1. job'[w].at = p /\ job'[w].step = step
      BY <1>6, Going, Requests
  <2>2. Alone(p)'
      BY <1>5 DEF Alone
  <2>3. Extra(p)' = IF step = "remember" THEN {w} ELSE {}
      BY <1>5, <2>1 DEF Extra
  <2>4. Short(p)' = IF step \in {"remove", "forget"} THEN {w} ELSE {}
      BY <1>5, <2>1 DEF Short
  <2> QED
      BY <2>2, <2>3, <2>4, FS_Singleton, FS_EmptySet
<1>7. ASSUME Answer(w)
      PROVE  Alone(p)' /\ Cardinality(Extra(p)') = 0 /\ Cardinality(Short(p)') = 0
  <2>1. \A v \in Workers : job'[v].at # p
      BY <1>5, <1>7, Answering DEF WellMade
  <2>2. Extra(p)' = {} /\ Short(p)' = {}
      BY <2>1 DEF Extra, Short
  <2> QED
      BY <2>1, <2>2, FS_EmptySet DEF Alone
<1>8. CASE /\ UNCHANGED <<bound, held>>
           /\ job[w].step \notin {"remember", "remove", "forget"}
           /\ job'[w].step \notin {"remember", "remove", "forget"}
  <2>1. Extra(p)' = {} /\ Short(p)' = {}
      BY <1>5, <1>8 DEF Extra, Short
  <2>2. Alone(p)'
      BY <1>5 DEF Alone
  <2> QED
      BY <1>1, <1>2, <1>3, <1>8, <2>1, <2>2, FS_EmptySet DEF Counted, EntriesIn
<1>9. job \in [Workers -> JobState] /\ job[w] \in JobState
    BY DEF Types, Jobs
<1>10. CASE MountFuse(w) \/ Find(w)
  <2>1. job'[w].step \in {"enter", "failed", "unbind", "flush"}
    <3>1. CASE MountFuse(w)
      <4>1. CASE Go(w, "failed")
          BY <1>9, <4>1 DEF Go, JobState
      <4>2. CASE job' = [job EXCEPT ![w].m = seq + 1, ![w].step = "enter"]
          BY <1>9, <4>2 DEF JobState
      <4> QED
          BY <3>1, <4>1, <4>2 DEF MountFuse
    <3>2. CASE Find(w)
      <4>1. PICK m, st : job' = [job EXCEPT ![w].m = m, ![w].step = st] /\ st \in {"failed", "unbind", "flush"}
          BY <3>2 DEF Find
      <4> QED
          BY <1>9, <4>1 DEF JobState
    <3> QED
        BY <1>10, <3>1, <3>2
  <2>2. job[w].step \in {"fuse", "find"} /\ UNCHANGED <<bound, held>>
      BY <1>10 DEF MountFuse, Find, kernel
  <2> QED
      BY <1>8, <2>1, <2>2
<1>11. CASE Enter(w) \/ Undo(w) \/ Flush(w)
  <2>1. /\ job[w].step \in {"enter", "undo", "flush"} /\ UNCHANGED <<bound, held>>
        /\ \E step \in {"bind", "failed", "unbind"} : Go(w, step)
      BY <1>11 DEF Enter, Undo, Flush, kernel
  <2>2. job'[w].step \in {"bind", "failed", "unbind"}
      BY <1>9, <2>1 DEF Go, JobState
  <2> QED
      BY <1>8, <2>1, <2>2
<1>12. CASE Fail(w)
  <2>1. w # Builder /\ Answer(w) /\ UNCHANGED <<bound, held>> /\ job[w].step = "failed"
      BY <1>12 DEF Fail, Listening
  <2> QED
      BY <1>1, <1>2, <1>3, <1>7, <2>1 DEF Counted, EntriesIn
<1>13. CASE Bind(w)
  <2>1. /\ bound' = [bound EXCEPT ![p] = Append(bound[p], job[w].m)] /\ Go(w, "remember")
        /\ job[w].step = "bind" /\ held' = held
      BY <1>4, <1>13 DEF Bind
  <2>2. Len(bound'[p]) = L + 1
      BY <1>1, <2>1 DEF Types
  <2>3. Alone(p)' /\ Cardinality(Extra(p)') = 1 /\ Cardinality(Short(p)') = 0
    <3>1. "remember" \in Steps \ Over
        BY DEF Steps, Over
    <3> QED
        BY <1>6, <2>1, <3>1
  <2> QED
      BY <1>1, <1>2, <1>3, <2>1, <2>2, <2>3 DEF Counted, EntriesIn
<1>14. CASE Remember(w)
  <2>1. /\ held' = Append(held, [at |-> p, m |-> job[w].m]) /\ Answer(w)
        /\ job[w].step = "remember" /\ bound' = bound
      BY <1>14 DEF Remember, kernel
  <2>2. Len(held') = Len(held) + 1 /\ held'[Len(held) + 1] = [at |-> p, m |-> job[w].m]
      BY <1>1, <2>1
  <2>3. [at |-> p, m |-> job[w].m] \in Entry
    <3>1. held' \in Seq(Entry) /\ Len(held) + 1 \in 1 .. Len(held')
        BY <1>1, <2>2 DEF Types
    <3> QED
        BY <2>2, <3>1
  <2>4. Cardinality(EntriesIn(held', p)) = E + 1
      BY <1>1, <2>1, <2>3, OneMore
  <2>5. Alone(p)' /\ Cardinality(Extra(p)') = 0 /\ Cardinality(Short(p)') = 0
      BY <1>7, <2>1
  <2>6. Len(bound'[p]) + 0 = E + 1 + 0
      BY <1>1, <1>2, <1>3, <2>1
  <2> HIDE DEF E
  <2> QED
      BY <2>4, <2>5, <2>6 DEF Counted
<1>15. CASE Unbind(w)
  <2>1. job[w].step = "unbind" /\ held' = held
      BY <1>15 DEF Unbind
  <2>2. CASE bound[p] # <<>>
    <3>1. bound' = [bound EXCEPT ![p] = Front(bound[p])] /\ Go(w, "remove")
        BY <1>4, <1>15, <2>2 DEF Unbind
    <3>2. Len(bound'[p]) = L - 1
      <4>1. bound'[p] = Front(bound[p])
          BY <3>1 DEF Types
      <4>2. L \in Nat \ {0}
          BY <1>1, <2>2
      <4> QED
          BY <1>1, <4>1, <4>2 DEF Front
    <3>3. Alone(p)' /\ Cardinality(Extra(p)') = 0 /\ Cardinality(Short(p)') = 1
      <4>1. "remove" \in Steps \ Over
          BY DEF Steps, Over
      <4> QED
          BY <1>6, <3>1, <4>1
    <3> QED
        BY <1>1, <1>2, <1>3, <2>1, <3>2, <3>3 DEF Counted, EntriesIn
  <2>3. CASE bound[p] = <<>>
    <3>1. Go(w, "failed") /\ bound' = bound
        BY <1>15, <2>3 DEF Unbind
    <3>2. job'[w].step = "failed"
        BY <1>9, <3>1 DEF Go, JobState
    <3> QED
        BY <1>8, <2>1, <3>1, <3>2
  <2> QED
      BY <2>2, <2>3
<1>16. CASE Release(w)
  <2>1. Go(w, "forget") /\ UNCHANGED <<bound, held>> /\ job[w].step = "remove"
      BY <1>16 DEF Release
  <2>2. Alone(p)' /\ Cardinality(Extra(p)') = 0 /\ Cardinality(Short(p)') = 1
    <3>1. "forget" \in Steps \ Over
        BY DEF Steps, Over
    <3> QED
        BY <1>6, <2>1, <3>1
  <2> QED
      BY <1>1, <1>2, <1>3, <2>1, <2>2 DEF Counted, EntriesIn
<1>17. CASE Forget(w)
  <2>1. /\ held' = WithoutFirst(held, is) /\ Answer(w)
        /\ job[w].step = "forget" /\ bound' = bound
      BY <1>17 DEF Forget, kernel, EntriesIn
  <2>2. E = L + 1
      BY <1>1, <1>2, <1>3, <2>1
  <2>3. is # {}
    <3>1. Cardinality(is) # 0
        BY <1>1, <2>2
    <3> QED
        BY <3>1, FS_EmptySet
  <2>4. E = Cardinality(EntriesIn(held', p)) + 1
      BY <1>1, <2>1, <2>3, OneLess
  <2>5. Cardinality(EntriesIn(held', p)) \in Nat
      BY EntriesFinite DEF Types
  <2> QED
      BY <1>1, <1>2, <1>3, <1>7, <2>1, <2>2, <2>4, <2>5 DEF Counted, EntriesIn
<1> QED
    BY <1>10, <1>11, <1>12, <1>13, <1>14, <1>15, <1>16, <1>17 DEF Request

\* And at every other path it does nothing.
LEMMA CountedThere ==
    ASSUME WellMade, Types, Types', NEW p \in Paths, Counted(p), NEW w \in Workers, Request(w),
           job[w].at # p, Listening, Listening'
    PROVE  Counted(p)'
<1>1. ~(Fail(w) /\ w = Builder)
    BY DEF Fail, Listening
<1>2. /\ job[w].at \in Paths /\ job'[w].at # p
      /\ \A v \in Workers \ {w} : job'[v] = job[v]
    BY <1>1, Requests DEF WellMade
<1>3. bound'[p] = bound[p]
  <2>1. CASE Bind(w)
      BY <1>2, <2>1 DEF Bind, Types
  <2>2. CASE Unbind(w)
      BY <1>2, <2>2 DEF Unbind, Types
  <2>3. CASE bound' = bound
      BY <2>3
  <2> QED
      BY <1>1, <2>1, <2>2, <2>3
         DEF Request, MountFuse, Enter, Undo, Remember, Fail, Find, Flush, Release,
                Forget, kernel
<1>4. Cardinality(EntriesIn(held', p)) = Cardinality(EntriesIn(held, p))
  <2>0. held \in Seq(Entry) /\ Cardinality(EntriesIn(held, p)) \in Nat
      BY EntriesFinite DEF Types
  <2>1. CASE Remember(w)
    <3> DEFINE e == [at |-> job[w].at, m |-> job[w].m]
    <3>1. held' = Append(held, e) /\ e.at # p
        BY <2>1 DEF Remember
    <3>2. e \in Entry
      <4>1. held' \in Seq(Entry) /\ Len(held) + 1 \in 1 .. Len(held') /\ held'[Len(held) + 1] = e
          BY <2>0, <3>1 DEF Types
      <4> QED
          BY <4>1
    <3> HIDE DEF e
    <3>3. Cardinality(EntriesIn(held', p)) = Cardinality(EntriesIn(held, p)) + 0
        BY <2>0, <3>1, <3>2, OneMore
    <3> QED
        BY <2>0, <3>3
  <2>2. CASE Forget(w)
    <3> DEFINE q == job[w].at
    <3>1. held' = WithoutFirst(held, EntriesIn(held, q)) /\ EntriesIn(held, q) \in SUBSET (DOMAIN held)
        BY <2>2 DEF Forget, EntriesIn
    <3>2. CASE EntriesIn(held, q) = {}
        BY <2>0, <3>1, <3>2, First
    <3>3. CASE EntriesIn(held, q) # {}
      <4>1. Cardinality(EntriesIn(held, p)) = Cardinality(EntriesIn(held', p)) + 0
          BY <2>0, <3>1, <3>3, OneLess
      <4>2. Cardinality(EntriesIn(held', p)) \in Nat
          BY EntriesFinite DEF Types
      <4> QED
          BY <4>1, <4>2
    <3> QED
        BY <3>2, <3>3
  <2>3. CASE held' = held
      BY <2>3
  <2> QED
      BY <2>1, <2>2, <2>3
         DEF Request, MountFuse, Enter, Bind, Undo, Fail, Find, Flush, Unbind, Release
<1> QED
    BY <1>2, <1>3, <1>4, Still

\* Every step keeps the count.
LEMMA CountsNext == ASSUME WellMade, Counts, [Next]_vars PROVE Counts'
<1>0. Discards /\ Discards' /\ Types /\ Types'
    BY DiscardsNext DEF Counts, Discards
<1>f. ASSUME UNCHANGED <<held, bound, job, crossed>>,
             server' \in {"building", "serving"} => server' = server
      PROVE  Counts'
  <2>1. ASSUME Listening', NEW p \in Paths \ crossed' PROVE Counted(p)'
      BY <1>f, <2>1, Still DEF Listening, Counts
  <2> QED
      BY <1>0, <1>f, <2>1 DEF Counts
<1>n. ASSUME server' \notin {"building", "serving"} PROVE Counts'
    BY <1>0, <1>n DEF Counts, Listening
<1>1. CASE UNCHANGED vars
    BY <1>1, <1>f DEF vars, memory, kernel, history
<1>2. CASE Start
  <2>1. /\ server' = "building" /\ job' = [w \in Workers |-> Idle]
        /\ bound' = [p \in Paths |-> IF p \in Own THEN <<Native>> ELSE <<>>]
        /\ held' = SetToSeq({[at |-> p, m |-> Native] : p \in Own})
      BY <1>2 DEF Start
  <2>2. ASSUME NEW p \in Paths PROVE Counted(p)'
    <3>1. \A w \in Workers : job'[w].at # p
        BY <2>1 DEF Idle, WellMade
    <3>2. Alone(p)' /\ Cardinality(Extra(p)') = 0 /\ Cardinality(Short(p)') = 0
      <4>1. Extra(p)' = {} /\ Short(p)' = {}
          BY <3>1 DEF Extra, Short
      <4> QED
          BY <3>1, <4>1, FS_EmptySet DEF Alone
    <3>3. CASE p \in Own
      <4>1. Len(bound'[p]) = 1
          BY <2>1, <3>3
      <4>2. \E i : EntriesIn(held', p) = {i}
          BY <2>1, <3>3, OwnEntries DEF EntriesIn
      <4>3. Cardinality(EntriesIn(held', p)) = 1
          BY <4>2, FS_Singleton
      <4> QED
          BY <3>2, <4>1, <4>3 DEF Counted, EntriesIn
    <3>4. CASE p \notin Own
      <4>1. Len(bound'[p]) = 0
          BY <2>1, <3>4
      <4>2. EntriesIn(held', p) = {}
          BY <2>1, <3>4, OwnEntries DEF EntriesIn
      <4>3. Cardinality(EntriesIn(held', p)) = 0
          BY <4>2, FS_EmptySet
      <4> QED
          BY <3>2, <4>1, <4>3 DEF Counted, EntriesIn
    <3> QED
        BY <3>3, <3>4
  <2> QED
      BY <1>0, <2>1, <2>2 DEF Counts, Workers
<1>3. CASE Crash \/ Exit \/ Kill \/ Unmount \/ Sweep \/ Erase
    BY <1>3, <1>n DEF Crash, Exit, Kill, Unmount, Sweep, Erase
<1>4. CASE Renew \/ RunOut
    BY <1>4, <1>f DEF Renew, RunOut, kernel, history
<1>5. CASE Listen
  <2>1. /\ server = "building" /\ server' = "serving" /\ UNCHANGED <<held, bound, job, crossed>>
        /\ job[Builder] = Idle
      BY <1>5 DEF Listen, kernel, history
  <2>2. ASSUME NEW p \in Paths \ crossed' PROVE Counted(p)'
      BY <2>1, <2>2, Still DEF Listening, Counts
  <2> QED
      BY <1>0, <2>1, <2>2 DEF Counts
<1>6. CASE Build
  <2>1. /\ server = "building" /\ server' = "building" /\ UNCHANGED <<held, bound, crossed>>
        /\ job[Builder] = Idle /\ \A h \in Handlers : job[h] = Idle
        /\ \A w \in Workers \ {Builder} : job'[w] = job[w]
        /\ job'[Builder].step = "fuse"
    <3>1. job \in [Workers -> JobState] /\ Builder \in Workers
        BY <1>0 DEF Types, Jobs, Workers
    <3> QED
        BY <1>6, <3>1 DEF Build, kernel, history, Counts
  <2>2. ASSUME NEW p \in Paths \ crossed' PROVE Counted(p)'
    <3>0. Counted(p)
        BY <2>1, <2>2 DEF Counts, Listening
    <3>1. \A w \in Workers : job[w].at # p
        BY <2>1 DEF Workers, Idle, WellMade
    <3>2. \A w \in Workers \ {Builder} : job'[w].at # p
        BY <2>1, <3>1
    <3>3. Extra(p) = {} /\ Short(p) = {} /\ Extra(p)' = {} /\ Short(p)' = {}
        BY <2>1, <3>1, <3>2 DEF Extra, Short
    <3>4. Alone(p)'
        BY <3>2 DEF Alone
    <3> QED
        BY <2>1, <3>0, <3>3, <3>4 DEF Counted
  <2>3. \A h \in Handlers : job'[h] = Idle
      BY <2>1 DEF Workers, WellMade
  <2> QED
      BY <1>0, <2>1, <2>2, <2>3 DEF Counts
<1>7. ASSUME NEW m \in Mounts, StopFlush(m) PROVE Counts'
    BY <1>7, <1>n DEF StopFlush
<1>8. CASE LeaseWatch
    BY <1>8, <1>f, <1>n DEF LeaseWatch, Notice, Expire, WatchFlush, Close, kernel, history
<1>9. CASE Down
    BY <1>9, <1>f, <1>n DEF Down, Dial, Wait, Clear, EraseDown, Close, memory, kernel,
           history
<1>10. ASSUME NEW p \in Paths, Write(p) PROVE Counts'
    BY <1>10, <1>f DEF Write, memory, kernel, history
<1>11. ASSUME NEW m \in Mounts, Upload(m) PROVE Counts'
    BY <1>11, <1>f DEF Upload, memory, kernel, history
<1>12. ASSUME NEW w \in Workers, Request(w) PROVE Counts'
  <2>1. CASE server' \notin {"building", "serving"}
      BY <1>n, <2>1
  <2>2. CASE server' \in {"building", "serving"}
    <3>1. server' = server /\ crossed' = crossed
        BY <1>12, <2>2 DEF Request, MountFuse, Enter, Bind, Undo, Remember, Fail, Find,
               Flush,
                           Unbind, Release, Forget, history
    <3>2. Listening /\ Listening'
        BY <2>2, <3>1 DEF Listening
    <3>3. ASSUME NEW p \in Paths \ crossed' PROVE Counted(p)'
      <4>1. Counted(p)
          BY <3>1, <3>2, <3>3 DEF Counts
      <4> QED
          BY <1>0, <1>12, <3>2, <4>1, CountedHere, CountedThere
    <3>4. job[w].step \notin Over /\ \A v \in Workers \ {w} : job'[v] = job[v]
      <4>1. ~Fail(w) \/ w # Builder
          BY <2>2 DEF Fail
      <4> QED
          BY <1>0, <1>12, <4>1, Requests
    <3>5. job[w] # Idle
        BY <3>4 DEF Idle, Over
    <3>6. server' = "building" => \A h \in Handlers : job'[h] = Idle
        BY <3>1, <3>4, <3>5 DEF Counts, Workers
    <3>7. server' = "serving" => job'[Builder] = Idle
        BY <3>1, <3>4, <3>5 DEF Counts, Workers
    <3> QED
        BY <1>0, <3>3, <3>6, <3>7 DEF Counts
  <2> QED
      BY <2>1, <2>2
<1>13. ASSUME NEW h \in Handlers, NEW q \in Paths, NEW op \in {"add", "remove"}, Ask(h, op, q)
       PROVE  Counts'
  <2>1. /\ server = "serving" /\ server' = "serving" /\ UNCHANGED <<held, bound>>
        /\ job[h] = Idle /\ job[Builder] = Idle /\ job'[h].at = q
        /\ job'[h].step \in {"fuse", "find"}
        /\ \A w \in Workers \ {h} : job'[w] = job[w]
        /\ crossed' = IF \E w \in Handlers : job[w].at = q THEN crossed \cup {q} ELSE crossed
    <3>1. job \in [Workers -> JobState] /\ h \in Workers
        BY <1>0 DEF Types, Jobs, Workers
    <3> QED
        BY <1>13, <3>1 DEF Ask, kernel, Counts
  <2>2. ASSUME NEW p \in Paths \ crossed' PROVE Counted(p)'
    <3>0. Counted(p) /\ job[h].at # p
        BY <2>1, <2>2 DEF Counts, Listening, Idle, WellMade
    <3>1. CASE p # q
        BY <2>1, <3>0, <3>1, Still
    <3>2. CASE p = q
      <4>1. \A w \in Handlers : job[w].at # p
          BY <2>1, <2>2, <3>2
      <4>2. \A w \in Workers : job[w].at # p
          BY <2>1, <4>1 DEF Workers, Idle, WellMade
      <4>3. Extra(p) = {} /\ Short(p) = {} /\ Extra(p)' = {} /\ Short(p)' = {}
          BY <2>1, <4>2 DEF Extra, Short
      <4>4. Alone(p)'
          BY <2>1, <4>2 DEF Alone
      <4> QED
          BY <2>1, <3>0, <4>3, <4>4 DEF Counted
    <3> QED
        BY <3>1, <3>2
  <2>3. job'[Builder] = Idle
      BY <2>1 DEF Workers, WellMade
  <2> QED
      BY <1>0, <2>1, <2>2, <2>3 DEF Counts
<1> QED
    BY <1>1, <1>2, <1>3, <1>4, <1>5, <1>6, <1>7, <1>8, <1>9, <1>10, <1>11, <1>12, <1>13
       DEF Next, Serve

\* A node reports as many mounts at each path as its pod has there, unless two requests
\* were about it at once (node.go:70).
THEOREM NodeServerHeldIsBound == ASSUME WellMade PROVE Spec => []HeldIsBound
<1>1. Init => Counts
    BY DiscardsInit DEF Init, Counts, Listening
<1>2. Counts /\ [Next]_vars => Counts'
    BY CountsNext
<1>3. Counts => HeldIsBound
    BY DEF Counts, HeldIsBound, Counted, EntriesIn, Listening
<1> QED
    BY <1>1, <1>2, <1>3, PTL DEF Spec
================================================================================
