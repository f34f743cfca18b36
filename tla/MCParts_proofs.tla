----------------------------- MODULE MCParts_proofs -----------------------------
(***************************************************************************)
(* The theorems about the daemon, its pods, events and tunnels, the node's *)
(* server, synced directories and dispatched commands, the mounts of a pod *)
(* and what is shown of it, of the instances that MCParts checks: a step   *)
(* of the one that runs is a step of its component, and every other step   *)
(* leaves it alone.                                                        *)
(***************************************************************************)
EXTENDS MCParts, FiniteSetTheorems, TLAPS

DMP == INSTANCE Daemon_proofs WITH
    Ups <- {"u1", "u2"}, FaultKinds <- {"slow", "start", "attach", "forward", "die"},
    ask <- ask_PL, mounts <- mounts_PL,
    Clients <- {"c1", "c2"}, Daemons <- {"d1", "d2", "d3"}, StartFaults <- {"kill"},
    ended <- ended_DS,
    Events <- {"e1", "e2", "e3"}, Followers <- {"f1"}, Buffer <- 1, HistoryMax <- 2,
    BusFaults <- {},
    Hosts <- {"h1", "h2"}, Srcs <- {"s1", "s2"}, Ports <- {"h1", "h2"},
    HostOf <- [p \in {"h1", "h2"} |-> p], LocalOf <- [p \in {"h1", "h2"} |-> 1],
    Reconcilers <- {"r1", "r2"}, MaxMounts <- 2, MaxServers <- 2,
    TunnelFaults <- {"write", "blip"}, up <- up_TU, mounted <- mounted_TU,
    server <- server_TU, dirty <- dirty_TU
NSP == INSTANCE NodeServer_proofs WITH
    Paths <- {"p", "q"}, Own <- {"p"}, Specs <- {<<>>, <<"q">>}, ReadOnly <- {},
    Handlers <- NodeRequests, Builder <- "builder", MaxMounts <- 1, MaxStarts <- 1,
    FaultKinds <- {"slow", "add", "crash"}, server <- server_NS, mounted <- mounted_NS,
    dirty <- dirty_NS
DIP == INSTANCE Dispatch_proofs WITH
    Pids <- {"p1"}, HostCallers <- {}, FaultKinds <- {"kill", "link"}, proc <- proc_DI,
    ask <- ask_DI, ended <- ended_DI, told <- told_DI, ran <- ran_DI,
    Files <- {"f"}, Closer <- "closer", Starter <- "starter",
    SyncFaults <- {"fail", "again"}
SRP == INSTANCE Screen_proofs WITH
    Size <- 3, MaxOSC <- 4, MaxChunk <- 3, MaxBytes <- 5,
    Sessions <- {1, 2}, Cmds <- Programs, What <- [c \in Programs |-> "make"],
    MaxMoves <- 1, over <- over_CK, ui <- ui_CK,
    Pids <- 1 .. 4, ended <- ended_ET,
    Config <- Planned, Mounts <- Asked, Unmounts <- Dropped, Machines <- {},
    MountSessions <- {"s"}, Places <- {<<"b", "f">>, <<"c", "e">>},
    FaultKinds <- {"add", "bind", "unbind"}, Pod <- "pod", told <- told_MT

\* What the theorems ask of the constants.
LEMMA Names ==
    /\ DMP!Requests /\ DIP!Calm /\ DMP!OneAtATime /\ DMP!Room /\ DMP!OneByOne
    /\ DIP!Distinct /\ DIP!Waits
    /\ SRP!Sized
    /\ NSP!InTurn /\ NSP!WellMade
<1>1. DMP!Requests /\ DIP!Calm /\ DMP!OneAtATime /\ DIP!Distinct /\ DIP!Waits
    BY PartsAssumption
       DEF DMP!Requests, DIP!Calm, DMP!OneAtATime, DIP!Distinct, DIP!Waits, DIP!Records,
           DIP!Results
<1>2. DMP!Room /\ DMP!OneByOne
    BY PartsAssumption DEF DMP!Room, DMP!OneByOne, DMP!TU!Servers
<1>s. SRP!Sized
    BY DEF SRP!Sized
<1>3. NSP!InTurn
    BY DEF NSP!InTurn
<1>4. IsFiniteSet({"p"})
    BY FS_Singleton
<1>5. {<<>>, <<"q">>} \subseteq Seq({"p", "q"})
  <2>1. <<>> \in Seq({"p", "q"}) /\ <<"q">> \in Seq({"p", "q"})
      OBVIOUS
  <2> QED
      BY <2>1
<1>6. NSP!WellMade
    BY PartsAssumption, <1>4, <1>5 DEF NSP!WellMade, NSP!IsFiniteSet, IsFiniteSet
<1> QED
    BY <1>1, <1>2, <1>s, <1>3, <1>6

\* A path that lies below another begins with its first name.
LEMMA FirstName ==
    ASSUME NEW S, NEW p \in Seq(S), NEW q \in Seq(S), q # <<>>, SRP!MO!Under(p, q)
    PROVE  p[1] = q[1] /\ Len(q) <= Len(p)
<1>1. Len(q) \in Nat /\ Len(p) \in Nat /\ 1 <= Len(q) /\ Len(q) <= Len(p)
    BY DEF SRP!MO!Under
<1>2. SubSeq(p, 1, Len(q))[1] = p[1]
    BY <1>1
<1> QED
    BY <1>1, <1>2 DEF SRP!MO!Under

\* Nor of what is mounted: one id is one mount, no directory of the config comes after one
\* that lies in it, and no two mounts are asked for at one path.
LEMMA MountNames == SRP!Composed
<1> DEFINE x1 == [id |-> "x1", at |-> <<"b">>, owner |-> "m1", src |-> <<"x">>]
           l1 == [id |-> "l", at |-> <<"c">>, owner |-> "pod", src |-> <<"l">>]
           x2 == [id |-> "x2", at |-> <<"c", "e">>, owner |-> "m2", src |-> <<"x">>]
           y1 == [id |-> "r1", at |-> <<"d">>, owner |-> "m1", src |-> <<"x", "y">>]
           y2 == [id |-> "r2", at |-> <<"b", "f">>, owner |-> "m2", src |-> <<"y">>]
           Q == {"b", "c", "d", "e", "f", "l", "x", "y"}
<1>1. Planned = <<x1, l1, x2>> /\ DOMAIN Planned = 1 .. 3
    BY DEF Planned
<1>2. DOMAIN Asked = {"r1", "r2"} /\ SRP!MO!Rec("r1") = y1 /\ SRP!MO!Rec("r2") = y2
    BY DEF Asked, SRP!MO!Rec
<1>3. /\ DOMAIN Dropped = {"u1", "u2"}
      /\ Dropped["u1"] = [owner |-> "m1"] /\ Dropped["u2"] = [at |-> <<"b", "f">>]
    BY DEF Dropped
<1>4. SRP!In(Planned) = {x1, l1, x2}
  <2>1. 1 .. 3 = {1, 2, 3}
      OBVIOUS
  <2> QED
      BY <1>1, <2>1 DEF SRP!In
<1>5. {SRP!MO!Rec(r) : r \in DOMAIN Asked} = {y1, y2}
    BY <1>2
<1>6. SRP!Given = {x1, l1, x2, y1, y2}
    BY <1>4, <1>5 DEF SRP!Given
<1>7. None \notin SRP!Given
  <2>1. {[id |-> r, at |-> Asked[r].at, owner |-> Asked[r].owner, src |-> Asked[r].src] :
            r \in {"r1", "r2"}} = {SRP!MO!Rec(r) : r \in DOMAIN Asked}
      BY <1>2 DEF SRP!MO!Rec
  <2>2. {Planned[i] : i \in 1 .. 3} = SRP!In(Planned)
      BY <1>1 DEF SRP!In
  <2> QED
      BY <2>1, <2>2, <1>4, <1>5, <1>6, MountsAssumption
<1>8. SRP!MO!Ids(Planned) = {"x1", "l", "x2"}
  <2>1. SRP!MO!Ids(Planned) = {x.id : x \in SRP!In(Planned)}
      BY DEF SRP!MO!Ids, SRP!In
  <2> QED
      BY <2>1, <1>4
<1>9. SRP!MO!Owners = {"m1", "m2", "pod"}
  <2>1. {Planned[i].owner : i \in DOMAIN Planned} = {x.owner : x \in SRP!In(Planned)}
      BY DEF SRP!In
  <2>2. {x.owner : x \in SRP!In(Planned)} = {"m1", "m2", "pod"}
      BY <1>4
  <2>3. Asked["r1"].owner = "m1" /\ Asked["r2"].owner = "m2"
      BY DEF Asked
  <2>4. {Asked[r].owner : r \in DOMAIN Asked} = {"m1", "m2"}
      BY <1>2, <2>3
  <2> QED
      BY <2>1, <2>2, <2>4 DEF SRP!MO!Owners
<1>a. /\ x1.at \in Seq(Q) /\ x1.src \in Seq(Q) /\ l1.at \in Seq(Q) /\ l1.src \in Seq(Q)
      /\ x2.at \in Seq(Q) /\ x2.src \in Seq(Q) /\ y1.at \in Seq(Q) /\ y1.src \in Seq(Q)
      /\ y2.at \in Seq(Q) /\ y2.src \in Seq(Q)
      /\ <<"b", "f">> \in Seq(Q) /\ <<"c", "e">> \in Seq(Q)
    OBVIOUS
<1>10. SRP!Named
  <2>1. \A x \in {x1, l1, x2, y1, y2} :
            /\ x.at \in SRP!Paths /\ x.src \in SRP!Paths
            /\ x.at \in Seq(Q) /\ x.src \in Seq(Q)
    <3>1. \A x \in {x1, l1, x2, y1, y2} : x.at \in SRP!Paths /\ x.src \in SRP!Paths
        BY <1>6 DEF SRP!Paths
    <3> QED
        BY <3>1, <1>a
  <2>2. \A x \in {x1, l1, x2, y1, y2} :
            /\ x.id \in {"r1", "r2", "x1", "l", "x2"}
            /\ x.owner \in {"m1", "m2", "pod"}
      OBVIOUS
  <2>3. \A x, y \in {x1, l1, x2, y1, y2} : x.id = y.id => x = y
      OBVIOUS
  <2>4. \A r \in DOMAIN Asked : SRP!MO!Rec(r) \notin SRP!In(Planned) /\ Asked[r].owner # "pod"
    <3>1. y1 \notin {x1, l1, x2} /\ y2 \notin {x1, l1, x2}
        OBVIOUS
    <3>2. Asked["r1"].owner = "m1" /\ Asked["r2"].owner = "m2"
        BY DEF Asked
    <3> QED
        BY <1>2, <1>4, <3>1, <3>2
  <2>5. {<<"b", "f">>, <<"c", "e">>} \subseteq SRP!Paths
      BY DEF SRP!Paths
  <2>6. DOMAIN Asked \cap DOMAIN Dropped = {}
      BY <1>2, <1>3
  <2>7. ASSUME NEW p \in SRP!Paths, p \in Seq(Q) PROVE p \in Seq(SRP!Words)
    <3>1. \A i \in 1 .. Len(p) : p[i] \in SRP!Words
        BY <2>7 DEF SRP!Words, SRP!In
    <3> QED
        BY <2>7, <3>1
  <2> HIDE DEF x1, l1, x2, y1, y2
  <2>8. \A x \in SRP!Given : /\ x.at \in Seq(SRP!Words) /\ x.src \in Seq(SRP!Words)
                             /\ x.id \in DOMAIN Asked \cup SRP!MO!Ids(Planned)
                             /\ x.owner \in SRP!MO!Owners
      BY <1>2, <1>6, <1>8, <1>9, <2>1, <2>2, <2>7
  <2>9. {<<"b", "f">>, <<"c", "e">>} \subseteq Seq(SRP!Words)
      BY <1>a, <2>5, <2>7
  <2> QED
      BY <1>6, <1>7, <2>3, <2>4, <2>6, <2>8, <2>9 DEF SRP!Named
<1>b. /\ x1.at # <<>> /\ l1.at # <<>> /\ x2.at # <<>> /\ Len(l1.at) = 1 /\ Len(x2.at) = 2
      /\ x1.at[1] = "b" /\ l1.at[1] = "c" /\ x2.at[1] = "c"
    OBVIOUS
<1>c. x1 # l1 /\ x1 # x2 /\ l1 # x2
    OBVIOUS
<1>d. x1.owner = "m1" /\ l1.owner = "pod" /\ x2.owner = "m2"
    OBVIOUS
<1>e. x1.at # <<"b", "f">> /\ l1.at # <<"b", "f">> /\ x2.at # <<"b", "f">>
    OBVIOUS
<1> HIDE DEF x1, l1, x2, Q
<1>f. \A x, y \in {x1, l1, x2} :
          SRP!MO!Under(x.at, y.at) => x = y \/ (x = x2 /\ y = l1)
  <2> SUFFICES ASSUME NEW x \in {x1, l1, x2}, NEW y \in {x1, l1, x2},
                      SRP!MO!Under(x.at, y.at)
               PROVE  x = y \/ (x = x2 /\ y = l1)
      OBVIOUS
  <2>1. x.at[1] = y.at[1] /\ Len(y.at) <= Len(x.at)
      BY <1>a, <1>b, FirstName
  <2>2. "b" # "c" /\ ~(2 <= 1)
      OBVIOUS
  <2>3. CASE x = x1
      BY <1>b, <2>1, <2>2, <2>3
  <2>4. CASE x = l1
      BY <1>b, <2>1, <2>2, <2>4
  <2>5. CASE x = x2
      BY <1>b, <2>1, <2>2, <2>5
  <2> QED
      BY <2>3, <2>4, <2>5
<1>11. SRP!Ordered
  <2>1. Planned \in Seq({x1, l1, x2}) /\ SRP!Single(Planned)
      BY <1>1, <1>c DEF SRP!Single
  <2> DEFINE own == {i \in DOMAIN Planned : Planned[i].owner = "pod"}
             k == SRP!MO!Kept(Planned, own)
             t == SRP!MO!Kept(Planned, DOMAIN Planned \ own)
             c == k \o t
  <2>2. own = {2} /\ DOMAIN Planned \ own = {1, 3}
    <3>1. 1 .. 3 = {1, 2, 3}
        OBVIOUS
    <3>2. Planned[1] = x1 /\ Planned[2] = l1 /\ Planned[3] = x2
        BY <1>1
    <3> QED
        BY <1>1, <1>d, <3>1, <3>2
  <2>3. /\ k \in Seq({x1, l1, x2})
        /\ SRP!In(k) = {Planned[i] : i \in {j \in DOMAIN Planned : j \in own}}
        /\ t \in Seq({x1, l1, x2})
        /\ SRP!In(t) = {Planned[i] : i \in {j \in DOMAIN Planned : j \in DOMAIN Planned \ own}}
        /\ SRP!Single(k) /\ SRP!Single(t)
      BY <2>1, SRP!KeptIs
  <2>4. Planned[2] = l1 /\ Planned[1] = x1 /\ Planned[3] = x2
      BY <1>1
  <2>5. SRP!In(k) = {l1} /\ SRP!In(t) = {x1, x2}
    <3>1. {j \in DOMAIN Planned : j \in own} = {2}
        BY <2>2
    <3>2. {j \in DOMAIN Planned : j \in DOMAIN Planned \ own} = {1, 3}
        BY <2>2
    <3>3. {Planned[i] : i \in {2}} = {l1} /\ {Planned[i] : i \in {1, 3}} = {x1, x2}
        BY <2>4
    <3> QED
        BY <2>3, <3>1, <3>2, <3>3
  <2>6. SRP!MO!Planned = c
      BY DEF SRP!MO!Planned
  <2> HIDE DEF own, k, t
  <2>7. ASSUME NEW i \in DOMAIN c, NEW j \in DOMAIN c, i < j
        PROVE  ~SRP!MO!Under(c[i].at, c[j].at)
    <3>1. DOMAIN c = 1 .. Len(k) + Len(t) /\ Len(k) \in Nat /\ Len(t) \in Nat
        BY <2>3
    <3>2. \A n \in 1 .. Len(k) : c[n] = k[n] /\ k[n] = l1
      <4>1. \A n \in 1 .. Len(k) : c[n] = k[n] /\ k[n] \in SRP!In(k)
          BY <2>3 DEF SRP!In
      <4> QED
          BY <4>1, <2>5
    <3>3. \A n \in Len(k) + 1 .. Len(k) + Len(t) :
              n - Len(k) \in 1 .. Len(t) /\ c[n] = t[n - Len(k)] /\ c[n] \in {x1, x2}
      <4>1. \A n \in Len(k) + 1 .. Len(k) + Len(t) :
                n - Len(k) \in 1 .. Len(t) /\ c[n] = t[n - Len(k)]
          BY <2>3, <3>1
      <4>2. \A n \in 1 .. Len(t) : t[n] \in SRP!In(t)
          BY <2>3 DEF SRP!In
      <4> QED
          BY <4>1, <4>2, <2>5
    <3>4. i \in 1 .. Len(k) => j \notin 1 .. Len(k)
        BY <2>3, <2>7, <3>1, <3>2 DEF SRP!Single
    <3>5. c[i] \in {x1, l1, x2} /\ c[j] \in {x1, x2}
        BY <2>7, <3>1, <3>2, <3>3, <3>4
    <3>6. c[i] # c[j]
      <4>1. CASE i \in 1 .. Len(k)
          BY <4>1, <3>2, <3>5, <1>c
      <4>2. CASE i \in Len(k) + 1 .. Len(k) + Len(t)
        <5>1. /\ j \in Len(k) + 1 .. Len(k) + Len(t) /\ i - Len(k) # j - Len(k)
              /\ i - Len(k) \in DOMAIN t /\ j - Len(k) \in DOMAIN t
            BY <2>3, <2>7, <3>1, <3>3, <4>2
        <5> QED
            BY <5>1, <4>2, <3>3, <2>3 DEF SRP!Single
      <4> QED
          BY <3>1, <4>1, <4>2
    <3> QED
        BY <1>c, <1>f, <3>5, <3>6
  <2> QED
      BY <1>4, <2>1, <2>6, <2>7 DEF SRP!Ordered
<1>12. SRP!OneAtOnce
  <2>1. \A u \in DOMAIN Dropped, x, y \in SRP!In(Planned) :
            SRP!MO!Hit(u, x) /\ x # y => ~SRP!MO!Under(y.at, x.at)
    <3>1. "at" \notin DOMAIN Dropped["u1"] /\ Dropped["u1"].owner = "m1"
        BY <1>3
    <3>2. "at" \in DOMAIN Dropped["u2"] /\ Dropped["u2"].at = <<"b", "f">>
        BY <1>3
    <3>3. \A x \in {x1, l1, x2} : SRP!MO!Hit("u1", x) => x = x1
        BY <3>1, <1>d DEF SRP!MO!Hit
    <3>4. \A x \in {x1, l1, x2} : ~SRP!MO!Hit("u2", x)
        BY <3>2, <1>e DEF SRP!MO!Hit
    <3> QED
        BY <1>3, <1>4, <1>c, <1>f, <3>3, <3>4
  <2>2. Asked["r1"].at # Asked["r2"].at
      BY DEF Asked
  <2>3. \A r, q \in DOMAIN Asked : Asked[r].at = Asked[q].at => r = q
      BY <1>2, <2>2
  <2> QED
      BY <2>1, <2>3 DEF SRP!OneAtOnce
<1> QED
    BY <1>10, <1>11, <1>12 DEF SRP!Composed


---------------------------------------------------------------------------------
\* The part of a behaviour that is about the pods of one name is a behaviour of
\* PodLifecycle.
LEMMA PodPart == PartSpec => DMP!Spec
<1>1. PartInit => DMP!Init
    BY DEF PartInit, PL!Init, DMP!Init, PL!Nothing, DMP!Nothing
<1>2. [PartNext]_everything => [DMP!Next]_(DMP!vars)
  <2>1. PL!Next => DMP!Next
      BY DEF PL!Next, DMP!Next, PL!Up, DMP!Up, PL!UpStep, DMP!UpStep, PL!Die,
             DMP!Die, PL!ReadEnds, DMP!ReadEnds, PL!Close, DMP!Close, PL!Down,
             DMP!Down, PL!DownDone, DMP!DownDone, PL!Answer, DMP!Answer, PL!lists,
             DMP!lists, PL!Go, DMP!Go, PL!Ending, DMP!Ending, PL!life, DMP!life,
             PL!names, DMP!names, PL!Wait, DMP!Wait, PL!Listen, DMP!Listen,
             PL!Start, DMP!Start, PL!Attach, DMP!Attach, PL!Forward, DMP!Forward,
             PL!List, DMP!List, PL!Finish, DMP!Finish, PL!asks, DMP!asks, PL!Take,
             DMP!Take, PL!CloseStop, DMP!CloseStop, PL!CloseRelease,
             DMP!CloseRelease, PL!CloseKill, DMP!CloseKill, PL!CloseUnmount,
             DMP!CloseUnmount, PL!CloseFailed, DMP!CloseFailed
  <2> QED
      BY <2>1 DEF PartNext, everything, lifecycle, DMP!vars, DMP!lists, DMP!asks,
             DMP!life, DMP!names
<1> QED
    BY <1>1, <1>2, PTL DEF PartSpec, DMP!Spec

\* The part that is about the synced directory is a behaviour of Sync.
LEMMA SyncPart == PartSpec => DIP!SY!Spec
<1>1. PartInit => DIP!SY!Init
    BY DEF PartInit, SY!Init, DIP!SY!Init, SY!Idle, DIP!SY!Idle, SY!Whoever,
           DIP!SY!Whoever
<1>2. [PartNext]_everything => [DIP!SY!Next]_(DIP!SY!vars)
  <2>1. SY!Next => DIP!SY!Next
      BY DEF SY!Next, DIP!SY!Next, SY!EditHere, DIP!SY!EditHere, SY!EditThere,
             DIP!SY!EditThere, SY!Dispatch, DIP!SY!Dispatch, SY!Ran, DIP!SY!Ran, SY!Down,
             DIP!SY!Down, SY!UpAgain, DIP!SY!UpAgain, SY!SyncStep, DIP!SY!SyncStep, SY!Edit,
             DIP!SY!Edit, SY!Underway, DIP!SY!Underway, SY!sides, DIP!SY!sides, SY!record,
             DIP!SY!record, SY!ghosts, DIP!SY!ghosts, SY!Whoever, DIP!SY!Whoever, SY!Lock,
             DIP!SY!Lock, SY!ListHere, DIP!SY!ListHere, SY!ListThere, DIP!SY!ListThere,
             SY!RemoveHere, DIP!SY!RemoveHere, SY!RemoveThere, DIP!SY!RemoveThere,
             SY!CopyFails, DIP!SY!CopyFails, SY!Record, DIP!SY!Record, SY!Copy, DIP!SY!Copy,
             SY!Quiet, DIP!SY!Quiet, SY!Idle, DIP!SY!Idle, SY!Fail, DIP!SY!Fail,
             SY!GoneThere, DIP!SY!GoneThere, SY!GoneHere, DIP!SY!GoneHere, SY!Listed,
             DIP!SY!Listed, SY!Unlock, DIP!SY!Unlock, SY!CopyNewer, DIP!SY!CopyNewer,
             SY!SeeBoth, DIP!SY!SeeBoth, SY!After, DIP!SY!After, SY!Newest, DIP!SY!Newest,
             SY!Oldest, DIP!SY!Oldest
  <2> QED
      BY <2>1 DEF PartNext, everything, syncDir, DIP!SY!vars, DIP!SY!sides, DIP!SY!record,
             DIP!SY!ghosts
<1> QED
    BY <1>1, <1>2, PTL DEF PartSpec, DIP!SY!Spec

\* The part that is about dispatched commands is a behaviour of Dispatch.
LEMMA DispatchPart == PartSpec => DIP!Spec
<1>1. PartInit => DIP!Init
    BY DEF PartInit, DI!Init, DIP!Init, DI!Records, DIP!Records
<1>2. [PartNext]_everything => [DIP!Next]_(DIP!vars)
  <2>1. DI!Next => DIP!Next
      BY DEF DI!Next, DIP!Next, DI!Caller, DIP!Caller, DI!Daemon, DIP!Daemon,
             DI!ForwardSignal, DIP!ForwardSignal, DI!Machine, DIP!Machine, DI!Watch,
             DIP!Watch, DI!WatchTells, DIP!WatchTells, DI!Start, DIP!Start, DI!Run,
             DIP!Run, DI!ExecVp, DIP!ExecVp, DI!Exit, DIP!Exit, DI!Kill, DIP!Kill,
             DI!Interrupt, DIP!Interrupt, DI!RecordLine, DIP!RecordLine, DI!Refuse,
             DIP!Refuse, DI!Record, DIP!Record, DI!Begin, DIP!Begin, DI!Finish,
             DIP!Finish, DI!Retry, DIP!Retry, DI!NoRetry, DIP!NoRetry, DI!tracker,
             DIP!tracker, DI!far, DIP!far, DI!Launch, DIP!Launch, DI!End, DIP!End,
             DI!LinkDrops, DIP!LinkDrops, DI!Gone, DIP!Gone, DI!Retire, DIP!Retire,
             DI!caller, DIP!caller, DI!Tell, DIP!Tell, DI!Line, DIP!Line, DI!Sent,
             DIP!Sent, DI!Alive, DIP!Alive, DI!RecordExec, DIP!RecordExec,
             DI!Answer, DIP!Answer, DI!Track, DIP!Track, DI!FinishExec,
             DIP!FinishExec, DI!Again, DIP!Again, DI!Records, DIP!Records,
             DI!Running, DIP!Running
  <2> QED
      BY <2>1 DEF PartNext, everything, dispatch, DIP!vars, DIP!caller, DIP!tracker,
             DIP!far
<1> QED
    BY <1>1, <1>2, PTL DEF PartSpec, DIP!Spec

\* The part that is about the daemons is a behaviour of DaemonStart.
LEMMA DaemonPart == PartSpec => DMP!DS!Spec
<1>1. PartInit => DMP!DS!Init
    BY DEF PartInit, DS!Init, DMP!DS!Init
<1>2. [PartNext]_everything => [DMP!DS!Next]_(DMP!DS!vars)
  <2>1. DS!Next => DMP!DS!Next
      BY DEF DS!Next, DMP!DS!Next, DS!Connect, DMP!DS!Connect, DS!Retry, DMP!DS!Retry,
             DS!GiveUp, DMP!DS!GiveUp, DS!ByHand, DMP!DS!ByHand, DS!Live, DMP!DS!Live,
             DS!Remove, DMP!DS!Remove, DS!Listen, DMP!DS!Listen, DS!WriteVersion,
             DMP!DS!WriteVersion, DS!Stop, DMP!DS!Stop, DS!Exit, DMP!DS!Exit, DS!Kill,
             DMP!DS!Kill, DS!Answers, DMP!DS!Answers, DS!Begin, DMP!DS!Begin, DS!Go, DMP!DS!Go,
             DS!Alone, DMP!DS!Alone, DS!Starting, DMP!DS!Starting, DS!Ending, DMP!DS!Ending
  <2> QED
      BY <2>1 DEF PartNext, everything, daemonStart, DMP!DS!vars
<1> QED
    BY <1>1, <1>2, PTL DEF PartSpec, DMP!DS!Spec

\* The part that is about the events is a behaviour of EventBus.
LEMMA EventPart == PartSpec => DMP!EB!Spec
<1>1. PartInit => DMP!EB!Init
    BY DEF PartInit, EB!Init, DMP!EB!Init
<1>2. [PartNext]_everything => [DMP!EB!Next]_(DMP!EB!vars)
  <2>1. EB!Next => DMP!EB!Next
      BY DEF EB!Next, DMP!EB!Next, EB!Publishing, DMP!EB!Publishing, EB!Following,
             DMP!EB!Following, EB!Enter, DMP!EB!Enter, EB!Offer, DMP!EB!Offer,
             EB!Subscribe, DMP!EB!Subscribe, EB!History, DMP!EB!History, EB!Replay,
             DMP!EB!Replay, EB!Receive, DMP!EB!Receive, EB!Leave, DMP!EB!Leave,
             EB!follower, DMP!EB!follower, EB!Offered, DMP!EB!Offered, EB!bus,
             DMP!EB!bus, EB!Set, DMP!EB!Set
  <2> QED
      BY <2>1 DEF PartNext, everything, eventBus, DMP!EB!vars, DMP!EB!bus,
             DMP!EB!follower
<1> QED
    BY <1>1, <1>2, PTL DEF PartSpec, DMP!EB!Spec

\* The part that is about servers and forwards is a behaviour of Tunnels.
LEMMA TunnelPart == PartSpec => DMP!TU!Spec
<1>1. PartInit => DMP!TU!Init
    BY DEF PartInit, TU!Init, DMP!TU!Init, TU!Servers, DMP!TU!Servers, TU!Idle,
           DMP!TU!Idle, TU!NoOp, DMP!TU!NoOp
<1>2. [PartNext]_everything => [DMP!TU!Next]_(DMP!TU!vars)
  <2>1. TU!Next => DMP!TU!Next
      BY DEF TU!Next, DMP!TU!Next, TU!Reconciling, DMP!TU!Reconciling, TU!Operation,
             DMP!TU!Operation, TU!Forwarding, DMP!TU!Forwarding, TU!Write, DMP!TU!Write,
             TU!WriteBack, DMP!TU!WriteBack, TU!Blip, DMP!TU!Blip, TU!Begin,
             DMP!TU!Begin, TU!Release, DMP!TU!Release, TU!Lookup, DMP!TU!Lookup,
             TU!StartServer, DMP!TU!StartServer, TU!StartFails, DMP!TU!StartFails,
             TU!Store, DMP!TU!Store, TU!Linked, DMP!TU!Linked, TU!Forward,
             DMP!TU!Forward, TU!Remember, DMP!TU!Remember, TU!Take, DMP!TU!Take,
             TU!Mount, DMP!TU!Mount, TU!NodeDrop, DMP!TU!NodeDrop, TU!CloseNode,
             DMP!TU!CloseNode, TU!Unmount, DMP!TU!Unmount, TU!Stopped, DMP!TU!Stopped,
             TU!NodeDropped, DMP!TU!NodeDropped, TU!Close, DMP!TU!Close,
             TU!CloseNodeDown, DMP!TU!CloseNodeDown, TU!StopRelays, DMP!TU!StopRelays,
             TU!Closed, DMP!TU!Closed, TU!Ask, DMP!TU!Ask, TU!Open, DMP!TU!Open,
             TU!OpenFails, DMP!TU!OpenFails, TU!Listed, DMP!TU!Listed, TU!Answers,
             DMP!TU!Answers, TU!relay, DMP!TU!relay, TU!forwards, DMP!TU!forwards,
             TU!machines, DMP!TU!machines, TU!Idle, DMP!TU!Idle, TU!Alone, DMP!TU!Alone,
             TU!Servers, DMP!TU!Servers, TU!Step, DMP!TU!Step, TU!NoOp, DMP!TU!NoOp,
             TU!DropNode, DMP!TU!DropNode, TU!Stop, DMP!TU!Stop, TU!NodeDown,
             DMP!TU!NodeDown, TU!Taken, DMP!TU!Taken, TU!Cancelled, DMP!TU!Cancelled
  <2> QED
      BY <2>1 DEF PartNext, everything, tunnels, DMP!TU!vars, DMP!TU!relay,
             DMP!TU!machines, DMP!TU!forwards
<1> QED
    BY <1>1, <1>2, PTL DEF PartSpec, DMP!TU!Spec

\* The part that is about a shell's output is a behaviour of Scrollback.
LEMMA ScrollPart == PartSpec => SRP!Spec
<1>1. PartInit => SRP!Init
    BY DEF PartInit, SC!Init, SRP!Init
<1>2. [PartNext]_everything => [SRP!Next]_(SRP!vars)
  <2>1. SC!Next => SRP!Next
      BY DEF SC!Next, SRP!Next, SC!Chunks, SRP!Chunks, SC!Output, SRP!Output, SC!Bytes,
             SRP!Bytes, SC!Feed, SRP!Feed, SC!Write, SRP!Write, SC!Held, SRP!Held,
             SC!Piece, SRP!Piece, SC!From, SRP!From, SC!ParseOSC, SRP!ParseOSC,
             SC!PutAll, SRP!PutAll, SC!OscEnd, SRP!OscEnd, SC!Put, SRP!Put, SC!Ends,
             SRP!Ends, SC!Last, SRP!Last
  <2> QED
      BY <2>1 DEF PartNext, everything, scrollback, SRP!vars
<1> QED
    BY <1>1, <1>2, PTL DEF PartSpec, SRP!Spec

\* The part that is about the cockpit is a behaviour of Cockpit.
LEMMA CockpitPart == PartSpec => SRP!CK!Spec
<1>1. PartInit => SRP!CK!Init
    BY DEF PartInit, CK!Init, SRP!CK!Init, CK!Listed, SRP!CK!Listed, CK!Cardinality,
           SRP!CK!Cardinality
<1>2. [PartNext]_everything => [SRP!CK!Next]_(SRP!CK!vars)
  <2>1. CK!Next => SRP!CK!Next
      BY DEF CK!Next, SRP!CK!Next, CK!Open, SRP!CK!Open, CK!End, SRP!CK!End, CK!Run,
             SRP!CK!Run, CK!Exit, SRP!CK!Exit, CK!Refresh, SRP!CK!Refresh, CK!TakeState,
             SRP!CK!TakeState, CK!Add, SRP!CK!Add, CK!MoveSelection,
             SRP!CK!MoveSelection, CK!AskBackend, SRP!CK!AskBackend, CK!Cancel,
             SRP!CK!Cancel, CK!Answer, SRP!CK!Answer, CK!Attach, SRP!CK!Attach,
             CK!AttachEnds, SRP!CK!AttachEnds, CK!Load, SRP!CK!Load, CK!State,
             SRP!CK!State, CK!Clamp, SRP!CK!Clamp, CK!Match, SRP!CK!Match, CK!Selected,
             SRP!CK!Selected, CK!LoadIfRoom, SRP!CK!LoadIfRoom, CK!Listed,
             SRP!CK!Listed, CK!Running, SRP!CK!Running, CK!Newest, SRP!CK!Newest,
             CK!Alike, SRP!CK!Alike, CK!Cardinality, SRP!CK!Cardinality
  <2> QED
      BY <2>1 DEF PartNext, everything, cockpit, SRP!CK!vars
<1> QED
    BY <1>1, <1>2, PTL DEF PartSpec, SRP!CK!Spec

\* The part that is about the tree is a behaviour of ExecTree.
LEMMA TreePart == PartSpec => SRP!ET!Spec
<1>1. PartInit => SRP!ET!Init
    BY DEF PartInit, ET!Init, SRP!ET!Init
<1>2. [PartNext]_everything => [SRP!ET!Next]_(SRP!ET!vars)
  <2>1. ET!Next => SRP!ET!Next
      BY DEF ET!Next, SRP!ET!Next, ET!Exit, SRP!ET!Exit, ET!Exec, SRP!ET!Exec,
             ET!Tracked, SRP!ET!Tracked, ET!Without, SRP!ET!Without, ET!RemoveAt,
             SRP!ET!RemoveAt
  <2> QED
      BY <2>1 DEF PartNext, everything, execTree, SRP!ET!vars
<1> QED
    BY <1>1, <1>2, PTL DEF PartSpec, SRP!ET!Spec

\* The part that is about the mounts of a pod is a behaviour of MountTable.
LEMMA MountPart == PartSpec => SRP!MO!Spec
<1>1. PartInit => SRP!MO!Init
    BY DEF PartInit, MT!Init, SRP!MO!Init, MT!Planned, SRP!MO!Planned, MT!Served,
           SRP!MO!Served, MT!Kept, SRP!MO!Kept
<1>2. [PartNext]_everything => [SRP!MO!Next]_(SRP!MO!vars)
  <2>1. MT!Next => SRP!MO!Next
      BY DEF MT!Next, SRP!MO!Next, MT!Check, SRP!MO!Check, MT!Add, SRP!MO!Add,
             MT!AppendRec, SRP!MO!AppendRec, MT!Bind, SRP!MO!Bind, MT!Drop, SRP!MO!Drop,
             MT!Find, SRP!MO!Find, MT!LookForSessions, SRP!MO!LookForSessions,
             MT!Unbind, SRP!MO!Unbind, MT!Release, SRP!MO!Release, MT!Forget,
             SRP!MO!Forget, MT!Strand, SRP!MO!Strand, MT!Rebuild, SRP!MO!Rebuild,
             MT!Store, SRP!MO!Store, MT!Reconcile, SRP!MO!Reconcile, MT!Cd, SRP!MO!Cd,
             MT!Owners, SRP!MO!Owners, MT!Use, SRP!MO!Use, MT!Alone, SRP!MO!Alone,
             MT!Clash, SRP!MO!Clash, MT!Rec, SRP!MO!Rec, MT!Answer, SRP!MO!Answer,
             MT!Go, SRP!MO!Go, MT!sessions, SRP!MO!sessions, MT!Without, SRP!MO!Without,
             MT!Kept, SRP!MO!Kept, MT!Hit, SRP!MO!Hit, MT!Under, SRP!MO!Under,
             MT!IsMountpoint, SRP!MO!IsMountpoint, MT!Detach, SRP!MO!Detach, MT!Known,
             SRP!MO!Known, MT!Underway, SRP!MO!Underway, MT!Shown, SRP!MO!Shown,
             MT!Newest, SRP!MO!Newest
  <2> QED
      BY <2>1 DEF PartNext, everything, mountTable, SRP!MO!vars, SRP!MO!sessions
<1> QED
    BY <1>1, <1>2, PTL DEF PartSpec, SRP!MO!Spec

\* The part that is about the node's server is a behaviour of NodeServer.
LEMMA NodePart == PartSpec => NSP!Spec
<1>1. PartInit => NSP!Init
    BY DEF PartInit, NS!Init, NSP!Init, NS!Workers, NSP!Workers, NS!Idle, NSP!Idle,
           NS!Unbound, NSP!Unbound
<1>2. [PartNext]_everything => [NSP!Next]_(NSP!vars)
  <2>1. NS!Start => NSP!Start
      BY DEF NS!Start, NSP!Start, NS!Listening, NSP!Listening, NS!Unmounting,
             NSP!Unmounting, NS!Native, NSP!Native, NS!Workers, NSP!Workers, NS!Idle,
             NSP!Idle, NS!SetToSeq, NSP!SetToSeq, NS!Cardinality, NSP!Cardinality,
             NS!IsInjective, NSP!IsInjective
  <2>2. (NS!Crash \/ NS!Renew \/ NS!RunOut) => (NSP!Crash \/ NSP!Renew \/ NSP!RunOut)
      BY DEF NS!Crash, NSP!Crash, NS!Renew, NSP!Renew, NS!RunOut, NSP!RunOut,
             NS!Unbound, NSP!Unbound, NS!Workers, NSP!Workers, NS!Idle, NSP!Idle,
             NS!InFlight, NSP!InFlight, NS!data, NSP!data, NS!kernel, NSP!kernel,
             NS!history, NSP!history, NS!Making, NSP!Making
  <2>3. NS!Serve => NSP!Serve
      BY DEF NS!Serve, NSP!Serve, NS!Build, NSP!Build, NS!Listen, NSP!Listen, NS!Kill,
             NSP!Kill, NS!Unmount, NSP!Unmount, NS!Sweep, NSP!Sweep, NS!Erase,
             NSP!Erase, NS!Exit, NSP!Exit, NS!Mounts, NSP!Mounts, NS!StopFlush,
             NSP!StopFlush, NS!Idle, NSP!Idle, NS!kernel, NSP!kernel, NS!data, NSP!data,
             NS!history, NSP!history, NS!Unbound, NSP!Unbound, NS!IdsOf, NSP!IdsOf,
             NS!Writable, NSP!Writable, NS!Unmounting, NSP!Unmounting, NS!memory,
             NSP!memory, NS!Workers, NSP!Workers, NS!Flushed, NSP!Flushed,
             NS!FlushFails, NSP!FlushFails, NS!Range, NSP!Range
  <2>4. NS!LeaseWatch => NSP!LeaseWatch
      BY DEF NS!LeaseWatch, NSP!LeaseWatch, NS!Notice, NSP!Notice, NS!Expire,
             NSP!Expire, NS!Mounts, NSP!Mounts, NS!WatchFlush, NSP!WatchFlush, NS!IdsOf,
             NSP!IdsOf, NS!Writable, NSP!Writable, NS!kernel, NSP!kernel, NS!data,
             NSP!data, NS!history, NSP!history, NS!Close, NSP!Close, NS!Flushed,
             NSP!Flushed, NS!FlushFails, NSP!FlushFails, NS!InFlight, NSP!InFlight,
             NS!Workers, NSP!Workers, NS!Making, NSP!Making, NS!Range, NSP!Range
  <2>5. NS!Down => NSP!Down
      BY DEF NS!Down, NSP!Down, NS!Dial, NSP!Dial, NS!Wait, NSP!Wait, NS!Clear,
             NSP!Clear, NS!EraseDown, NSP!EraseDown, NS!Close, NSP!Close, NS!memory,
             NSP!memory, NS!kernel, NSP!kernel, NS!data, NSP!data, NS!history,
             NSP!history, NS!Unmounting, NSP!Unmounting, NS!InFlight, NSP!InFlight,
             NS!Workers, NSP!Workers, NS!Making, NSP!Making
  <2>6. \A p \in {"p", "q"} : NS!Write(p) => NSP!Write(p)
      BY DEF NS!Write, NSP!Write, NS!Alive, NSP!Alive, NS!memory, NSP!memory, NS!kernel,
             NSP!kernel, NS!history, NSP!history, NS!Last, NSP!Last
  <2>7. \A m \in 1 .. 1 : NS!Upload(m) => NSP!Upload(m)
      BY DEF NS!Upload, NSP!Upload, NS!memory, NSP!memory, NS!kernel, NSP!kernel,
             NS!history, NSP!history
  <2>8. ASSUME NEW w \in NodeRequests \cup {"builder"}, NS!Request(w) PROVE NSP!Request(w)
    <3>1. NS!MountFuse(w) => NSP!MountFuse(w)
        BY DEF NS!MountFuse, NSP!MountFuse, NS!Listening, NSP!Listening, NS!Go, NSP!Go,
               NS!data, NSP!data
    <3>2. NS!Enter(w) => NSP!Enter(w)
        BY DEF NS!Enter, NSP!Enter, NS!Go, NSP!Go, NS!kernel, NSP!kernel, NS!data,
               NSP!data, NS!history, NSP!history
    <3>3. NS!Bind(w) => NSP!Bind(w)
        BY DEF NS!Bind, NSP!Bind, NS!Alive, NSP!Alive, NS!Go, NSP!Go, NS!data, NSP!data,
               NS!history, NSP!history
    <3>4. NS!Undo(w) => NSP!Undo(w)
        BY DEF NS!Undo, NSP!Undo, NS!WithoutFirst, NSP!WithoutFirst, NS!Unmounting,
               NSP!Unmounting, NS!Go, NSP!Go, NS!history, NSP!history, NS!RemoveAt,
               NSP!RemoveAt
    <3>5. NS!Remember(w) => NSP!Remember(w)
        BY DEF NS!Remember, NSP!Remember, NS!Answer, NSP!Answer, NS!kernel, NSP!kernel,
               NS!data, NSP!data, NS!history, NSP!history, NS!Idle, NSP!Idle, NS!Done,
               NSP!Done
    <3>6. NS!Fail(w) => NSP!Fail(w)
        BY DEF NS!Fail, NSP!Fail, NS!Unbound, NSP!Unbound, NS!Workers, NSP!Workers,
               NS!Idle, NSP!Idle, NS!Answer, NSP!Answer, NS!data, NSP!data, NS!history,
               NSP!history, NS!Done, NSP!Done
    <3>7. NS!Find(w) => NSP!Find(w)
        BY DEF NS!Find, NSP!Find, NS!Native, NSP!Native, NS!kernel, NSP!kernel, NS!data,
               NSP!data, NS!history, NSP!history
    <3>8. NS!Flush(w) => NSP!Flush(w)
        BY DEF NS!Flush, NSP!Flush, NS!Flushed, NSP!Flushed, NS!Go, NSP!Go,
               NS!FlushFails, NSP!FlushFails, NS!kernel, NSP!kernel, NS!data, NSP!data,
               NS!history, NSP!history
    <3>9. NS!Unbind(w) => NSP!Unbind(w)
        BY DEF NS!Unbind, NSP!Unbind, NS!Alive, NSP!Alive, NS!Go, NSP!Go, NS!data,
               NSP!data, NS!history, NSP!history, NS!Front, NSP!Front
    <3>10. NS!Release(w) => NSP!Release(w)
        BY DEF NS!Release, NSP!Release, NS!WithoutFirst, NSP!WithoutFirst,
               NS!Unmounting, NSP!Unmounting, NS!Go, NSP!Go, NS!history, NSP!history,
               NS!RemoveAt, NSP!RemoveAt
    <3>11. NS!Forget(w) => NSP!Forget(w)
        BY DEF NS!Forget, NSP!Forget, NS!WithoutFirst, NSP!WithoutFirst, NS!Answer,
               NSP!Answer, NS!kernel, NSP!kernel, NS!data, NSP!data, NS!history,
               NSP!history, NS!Idle, NSP!Idle, NS!Done, NSP!Done, NS!RemoveAt,
               NSP!RemoveAt
    <3> QED
        BY <2>8, <3>1, <3>2, <3>3, <3>4, <3>5, <3>6, <3>7, <3>8, <3>9, <3>10, <3>11 DEF
           NS!Request, NSP!Request
  <2>9. \A h \in NodeRequests, p \in {"p", "q"}, o \in {"add", "remove"} : NS!Ask(h, o, p) => NSP!Ask(h, o, p)
      BY DEF NS!Ask, NSP!Ask, NS!Idle, NSP!Idle, NS!kernel, NSP!kernel, NS!data,
             NSP!data
  <2>10. NS!Next => NSP!Next
      BY <2>1, <2>2, <2>3, <2>4, <2>5, <2>6, <2>7, <2>8, <2>9 DEF NS!Next, NSP!Next,
             NS!Mounts, NSP!Mounts, NS!Workers, NSP!Workers
  <2> QED
      BY <2>10 DEF PartNext, everything, nodeServer, NSP!vars, NSP!memory, NSP!kernel,
             NSP!data, NSP!history
<1> QED
    BY <1>1, <1>2, PTL DEF PartSpec, NSP!Spec

-----------------------------------------------------------------------------
\* A pod keeps its socket and its mounts, is closed once, and leaves nothing when
\* it fails (daemon.go:463, 686, 797); the daemon that serves is the one clients
\* find, whatever was killed there before (cmd/vibepod's runDaemon).
THEOREM PartsEachNameHasOne == PartSpec => []EachNameHasOne
<1>1. PartSpec => []DMP!Inv
    BY Names, PodPart, DMP!InvAlways, PTL
<1>2. PartSpec => []DMP!StartInv
    BY Names, DaemonPart, DMP!StartInvAlways, PTL
<1>3. DMP!Inv => PL!KeepsItsOwn /\ PL!ClosedOnce /\ PL!FailedLeavesNothing
    BY DEF DMP!Inv, DMP!KeptFree, DMP!Counted, DMP!Takes, DMP!Released, PL!KeepsItsOwn,
           PL!ClosedOnce, PL!FailedLeavesNothing
<1>4. DMP!StartInv => DS!ServesWhereItIsFound /\ DS!StartsOverTheStale
    BY DEF DMP!StartInv, DMP!DS!ServesWhereItIsFound, DMP!DS!StartsOverTheStale,
           DS!ServesWhereItIsFound, DS!StartsOverTheStale
<1>5. DMP!Inv /\ DMP!StartInv => EachNameHasOne
    BY <1>3, <1>4 DEF EachNameHasOne
<1> QED
    BY <1>1, <1>2, <1>5, PTL

\* A sync deletes or replaces only what the other side has had, when commands come
\* one at a time (sync.go:29).
THEOREM PartsConflictIsKept == PartSpec => ConflictIsKept
<1>1. PartSpec => DIP!SY!ConflictIsKept
    BY Names, SyncPart, DIP!SyncKeepsConflicts, PTL
<1> QED
    BY <1>1, PTL DEF ConflictIsKept, SY!ConflictIsKept, SY!SyncMoves, SY!vars,
           SY!sides, SY!record, SY!ghosts, DIP!SY!ConflictIsKept, DIP!SY!SyncMoves,
           DIP!SY!vars, DIP!SY!sides, DIP!SY!record, DIP!SY!ghosts

\* A file deleted on the machine stays deleted there (sync.go:143).
THEOREM PartsDeletedThereStays == PartSpec => DeletedThereStays
<1>1. PartSpec => DIP!SY!DeletedThereStays
    BY Names, SyncPart, DIP!SyncDeletedThereStays, PTL
<1> QED
    BY <1>1, PTL DEF DeletedThereStays, SY!DeletedThereStays, SY!SyncMoves, SY!vars,
           SY!sides, SY!record, SY!ghosts, DIP!SY!DeletedThereStays, DIP!SY!SyncMoves,
           DIP!SY!vars, DIP!SY!sides, DIP!SY!record, DIP!SY!ghosts

\* A sync that succeeded brought everything over (sync.go:93).
THEOREM PartsSyncedIsThere == PartSpec => SyncedIsThere
<1>1. PartSpec => DIP!SY!SyncedIsThere
    BY Names, SyncPart, DIP!SyncBringsItOver, PTL
<1> QED
    BY <1>1, PTL DEF SyncedIsThere, SY!SyncedIsThere, SY!Whoever, SY!Idle, SY!vars,
           SY!sides, SY!record, SY!ghosts, DIP!SY!SyncedIsThere, DIP!SY!Whoever, DIP!SY!Idle,
           DIP!SY!vars, DIP!SY!sides, DIP!SY!record, DIP!SY!ghosts

\* What runs for a caller that waits is listed, its end is told once, and it runs once
\* (tracker.go:12, 98, DESIGN.md:836).
THEOREM PartsRunsOnceToldOnce == PartSpec => []RunsOnceToldOnce
<1>1. PartSpec => [](DIP!RunningIsShown /\ DIP!ToldOnce /\ DIP!NothingRunsTwice)
  <2>1. PartSpec => []DIP!RunningIsShown
      BY Names, DispatchPart, DIP!DispatchRunningIsShown, PTL
  <2>2. PartSpec => []DIP!ToldOnce
      BY Names, DispatchPart, DIP!DispatchToldOnce, PTL
  <2>3. PartSpec => []DIP!NothingRunsTwice
    <3>1. "own127" \notin {"kill", "link"}
        OBVIOUS
    <3> QED
        BY <3>1, Names, DispatchPart, DIP!DispatchRunsOnce, PTL
  <2> QED
      BY <2>1, <2>2, <2>3, PTL
<1>2. DIP!RunningIsShown /\ DIP!ToldOnce /\ DIP!NothingRunsTwice => RunsOnceToldOnce
    BY DEF RunsOnceToldOnce, DI!RunningIsShown, DIP!RunningIsShown, DI!ToldOnce,
           DIP!ToldOnce, DI!NothingRunsTwice, DIP!NothingRunsTwice, DI!Alive,
           DIP!Alive, DI!Sent, DIP!Sent, DI!Line, DIP!Line
<1> QED
    BY <1>1, <1>2, PTL

\* A follower that keeps up is sent every event once (stream.go:33).
THEOREM PartsNothingFallsBetween == PartSpec => []NothingFallsBetween
<1>1. PartSpec => []DMP!EB!NothingFallsBetween
    BY Names, EventPart, DMP!EventBusNothingFallsBetween, PTL
<1>2. DMP!EB!NothingFallsBetween => NothingFallsBetween
    BY DEF NothingFallsBetween, EB!NothingFallsBetween, DMP!EB!NothingFallsBetween,
           EB!Caught, DMP!EB!Caught, EB!Set, DMP!EB!Set
<1> QED
    BY <1>1, <1>2, PTL

\* The list, the binds, the routes and the sessions agree, and so does what the node
\* pods were told (mount.go mount, unmount; route.go).
THEOREM PartsTableIsThePods == PartSpec => []TableIsThePods
<1>1. PartSpec => []SRP!Agreed
    BY MountNames, MountPart, SRP!MountTableIsThePods, PTL
<1>2. SRP!Agreed => TableIsThePods
    BY DEF TableIsThePods, SRP!Agreed, MT!RuntimeMountsStandAlone,
           SRP!MO!RuntimeMountsStandAlone, MT!ListedIsMounted, SRP!MO!ListedIsMounted,
           MT!RoutesShowThePod, SRP!MO!RoutesShowThePod, MT!NobodyIsStranded,
           SRP!MO!NobodyIsStranded, MT!UnmountedEverywhere, SRP!MO!UnmountedEverywhere,
           MT!Under, SRP!MO!Under, MT!Quiet, SRP!MO!Quiet, MT!Ids, SRP!MO!Ids,
           MT!Served, SRP!MO!Served, MT!Settled, SRP!MO!Settled, MT!Shown, SRP!MO!Shown,
           MT!Owner, SRP!MO!Owner, MT!Dir, SRP!MO!Dir, MT!Known, SRP!MO!Known,
           MT!Underway, SRP!MO!Underway, MT!Half, SRP!MO!Half, MT!Newest, SRP!MO!Newest,
           MT!First, SRP!MO!First
<1> QED
    BY <1>1, <1>2, PTL

\* What serves and what is forwarded is what the pod has mounted (relay.go:26, 64,
\* ports.go:26).
THEOREM PartsTunnelsFollowMounts == PartSpec => []TunnelsFollowMounts
<1>1. PartSpec => []DMP!TunnelInv
    BY Names, TunnelPart, DMP!TunnelsInv, PTL
<1>2. DMP!TunnelInv => TunnelsFollowMounts
  <2>1. DMP!TunnelInv => /\ DMP!TU!NothingOutlivesThePod /\ DMP!TU!ServedWhileMounted
                         /\ DMP!TU!NodeReadsItsMount /\ DMP!TU!OneForwardPerPort
      BY Names, DMP!TunnelInvHolds
  <2> QED
      BY <2>1 DEF TunnelsFollowMounts, TU!NothingOutlivesThePod,
             DMP!TU!NothingOutlivesThePod, TU!ServedWhileMounted,
             DMP!TU!ServedWhileMounted, TU!NodeReadsItsMount, DMP!TU!NodeReadsItsMount,
             TU!OneForwardPerPort, DMP!TU!OneForwardPerPort, TU!Quiet, DMP!TU!Quiet,
             TU!Servers, DMP!TU!Servers, TU!Answers, DMP!TU!Answers, TU!NoOp, DMP!TU!NoOp,
             TU!Idle, DMP!TU!Idle
<1> QED
    BY <1>1, <1>2, PTL

\* What a node reports is what its pod has, and serve's end discards nothing it has not
\* logged (node.go:70, 332).
THEOREM PartsNodeKeepsCount == PartSpec => []NodeKeepsCount
<1>1. PartSpec => [](NSP!HeldIsBound /\ NSP!StopDiscardsNothing)
  <2>1. PartSpec => []NSP!HeldIsBound
      BY Names, NodePart, NSP!NodeServerHeldIsBound, PTL
  <2>2. PartSpec => []NSP!StopDiscardsNothing
      BY Names, NodePart, NSP!NodeServerStopDiscardsNothing, PTL
  <2> QED
      BY <2>1, <2>2, PTL
<1>2. NSP!HeldIsBound /\ NSP!StopDiscardsNothing => NodeKeepsCount
  <2>1. \A p \in {"p", "q"} : NS!Short(p) = NSP!Short(p) /\ NS!Extra(p) = NSP!Extra(p)
      BY DEF NS!Short, NSP!Short, NS!Extra, NSP!Extra, NS!Workers, NSP!Workers
  <2>2. \A S : NS!Cardinality(S) = NSP!Cardinality(S)
      BY DEF NS!Cardinality, NSP!Cardinality
  <2>3. NSP!HeldIsBound => NS!HeldIsBound
      BY <2>1, <2>2 DEF NS!HeldIsBound, NSP!HeldIsBound
  <2> QED
      BY <2>3 DEF NodeKeepsCount, NS!StopDiscardsNothing, NSP!StopDiscardsNothing
<1> QED
    BY <1>1, <1>2, PTL

\* No finished mount is below a directory that is erased (node.go's sweep and nodedown).
THEOREM PartsEraseSparesMounts == PartSpec => EraseSparesMounts
<1>1. PartSpec => NSP!EraseSparesMounts
    BY Names, NodePart, NSP!NodeServerEraseSparesMounts, PTL
<1> QED
    BY <1>1, PTL DEF EraseSparesMounts, NS!EraseSparesMounts, NSP!EraseSparesMounts,
           NS!InFlight, NSP!InFlight, NS!vars, NSP!vars, NS!Workers, NSP!Workers,
           NS!Making, NSP!Making, NS!memory, NSP!memory, NS!kernel, NSP!kernel, NS!data,
           NSP!data, NS!history, NSP!history

\* A lease that ran out leaves nothing on the machine (node.go:346).
THEOREM PartsExpiryLeavesNothing == PartSpec => ExpiryLeavesNothing
<1>1. PartSpec => NSP!ExpiryLeavesNothing
    BY NodePart, NSP!NodeServerExpiryLeavesNothing, PTL
<1> QED
    BY <1>1, PTL DEF ExpiryLeavesNothing, NS!ExpiryLeavesNothing, NSP!ExpiryLeavesNothing,
           NS!Exit, NSP!Exit, NS!vars, NSP!vars, NS!Workers, NSP!Workers, NS!Idle,
           NSP!Idle, NS!kernel, NSP!kernel, NS!data, NSP!data, NS!history, NSP!history,
           NS!memory, NSP!memory

\* Of a ring of 3 bytes, a limit of 4, and what may be written of 5: a replay is
\* the tail of what was written, and markers are found wherever the reads cut them
\* (Ring.Write, Parser.Feed).
THEOREM PartsBytesAreWhole == PartSpec => []BytesAreWhole
<1>1. PartSpec => [](SRP!TypeOK /\ SRP!SnapshotIsTheTail /\ SRP!ChunksDoNotMatter
                     /\ SRP!LittleIsHeldBack)
    BY Names, ScrollPart, SRP!ScrollbackIsWhole, PTL
<1>2. SRP!SnapshotIsTheTail /\ SRP!ChunksDoNotMatter /\ SRP!LittleIsHeldBack => BytesAreWhole
    BY DEF BytesAreWhole, SC!SnapshotIsTheTail, SRP!SnapshotIsTheTail,
           SC!ChunksDoNotMatter, SRP!ChunksDoNotMatter, SC!LittleIsHeldBack,
           SRP!LittleIsHeldBack, SC!Snapshot, SRP!Snapshot, SC!From, SRP!From,
           SC!Terminal, SRP!Terminal, SC!Blank, SRP!Blank, SC!See, SRP!See, SC!Wait,
           SRP!Wait, SC!Text, SRP!Text, SC!Ended, SRP!Ended, SC!Whole, SRP!Whole,
           SC!Last, SRP!Last
<1> QED
    BY <1>1, <1>2, PTL

\* Each command has one line in the cockpit's log, and one that no tracked command
\* started is shown with those it started (cockpit.add, tracker.go's tree).
THEOREM PartsCommandsAreShown == PartSpec => []CommandsAreShown
<1>1. PartSpec => []SRP!CK!EachHasItsLine
    BY CockpitPart, SRP!CockpitEachHasItsLine, PTL
<1>2. PartSpec => [](SRP!ET!TypeOK /\ SRP!ET!RootsShowTheirOwn)
    BY TreePart, SRP!ExecTreeRootsShowTheirOwn, PTL
<1>3. SRP!CK!EachHasItsLine /\ SRP!ET!RootsShowTheirOwn => CommandsAreShown
    BY DEF CommandsAreShown, CK!EachHasItsLine, SRP!CK!EachHasItsLine, CK!Cardinality,
           SRP!CK!Cardinality, ET!RootsShowTheirOwn, SRP!ET!RootsShowTheirOwn,
           ET!Tracked, SRP!ET!Tracked, ET!Tree, SRP!ET!Tree, ET!Bare, SRP!ET!Bare,
           ET!Place, SRP!ET!Place
<1> QED
    BY <1>1, <1>2, <1>3, PTL
================================================================================
