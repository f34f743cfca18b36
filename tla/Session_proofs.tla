---------------------------- MODULE Session_proofs ----------------------------
(***************************************************************************)
(* What a session promises for all machines, clients, moves and shells:    *)
(* its end is its first shell's, the code of it is left for everyone, and  *)
(* a client that watches has missed nothing.                               *)
(*                                                                         *)
(* None of the three is inductive. That a session ends with its first      *)
(* shell rests on that shell keeping its machine to itself (FirstStands);  *)
(* that its code is left, on its being left once (CodeOnce); and that      *)
(* nothing is missed, on every byte of the shown shell that a client has   *)
(* not seen being in the hands of somebody who will write it (Covered).    *)
(***************************************************************************)
EXTENDS Session, TLAPS

Opened(sh) == shell[sh].pump # "none"

\* A shell that is named anywhere has been opened, a chunk that is forwarded has
\* been read, and a move knows where it goes.
InUse ==
    /\ primary \in {None, 1} /\ Opened(1)
    /\ cur # None => Opened(cur)
    /\ \A b \in Machines : shells[b] # None => Opened(shells[b])
    /\ \A sh \in ShellIds : shell[sh].pump = "forward" => shell[sh].ring > 0
    /\ \A t \in Movers :
          /\ mover[t].sh # None => Opened(mover[t].sh)
          /\ mover[t].pc \in {"switch", "open"} => mover[t].to \in Machines
          /\ mover[t].pc = "show" => mover[t].sh # None
          /\ mover[t].pc # "draw" => mover[t].todo = {}

\* Until the session is closed, its first shell is the one at home, and no move
\* opens another there; and only the first shell's pump ends the session.
FirstStands ==
    /\ shell[1].at = Home
    /\ \A sh \in ShellIds : shell[sh].pump \in {"wait", "release"} => sh = 1
    /\ ended \/ shell[1].pump \in {"wait", "release"} => ~shell[1].running
    /\ ended => shell[1].pump \in {"release", "over"}
    /\ shell[1].pump = "release" => ended
    /\ Interactive =>
          /\ shells[Home] = 1
          /\ \A sh \in ShellIds \ {1} : shell[sh].at # Home
          /\ \A t \in Movers : mover[t].pc = "open" => mover[t].to # Home
          /\ shell[1].pump \notin {"fall", "note"}
          /\ shell[1].pump = "over" => ended

Relaying == {c \in Clients : client[c].pc = "relay"}

\* Before the session ends there is no code; after it, there is one.
CodeOnce ==
    IF ended THEN \/ done /\ Relaying = {}
                  \/ ~done /\ \E c \in Clients : Relaying = {c}
    ELSE ~done /\ Relaying = {}

\* A byte that somebody is about to write to a client: it, a move, the pump of a
\* shell that ended, or the pump of the shell being shown.
OnTheWay(c, x) ==
    \/ client[c].pc = "show" /\ x \in client[c].snap
    \/ \E t \in Movers : c \in mover[t].todo /\ x \in mover[t].snap
    \/ \E sh \in ShellIds : shell[sh].pump \in {"fall", "note"}
                            /\ c \in shell[sh].todo /\ x \in shell[sh].snap
    \/ shell[cur].pump = "forward" /\ x = <<cur, shell[cur].ring>>

\* A client that watches a terminal it can still be written to.
Watching(c) == /\ c \in clients \cap Framed /\ client[c].pc \in {"show", "watch"}
               /\ ~client[c].gone /\ ~client[c].stop

\* Such a client has, or will be sent, all the shown shell has written.
Covered ==
    \A c \in Clients : Watching(c) /\ cur # None =>
        \A n \in 1..shell[cur].ring :
            <<cur, n>> \in client[c].seen \/ OnTheWay(c, <<cur, n>>)

Inv == TypeOK /\ InUse /\ FirstStands /\ CodeOnce /\ Covered

-----------------------------------------------------------------------------
\* What is in a shell's scrollback are bytes of its own.
LEMMA SnapshotIs ==
    ASSUME SessionAssumption, shell \in [ShellIds -> Shell], NEW sh \in ShellIds
    PROVE  /\ Snapshot(sh) \subseteq Bytes
           /\ \A n \in 1..shell[sh].ring : <<sh, n>> \in Snapshot(sh)
           /\ \A x \in Snapshot(sh) : \E n \in 1..shell[sh].ring : x = <<sh, n>>
BY DEF SessionAssumption, Snapshot, Bytes, Chunks, Shell

\* In the initial state its one shell has written nothing, and nobody watches.
LEMMA InvInit == Init => Inv
<1> SUFFICES ASSUME Init PROVE Inv
    OBVIOUS
<1> USE SessionAssumption DEF SessionAssumption
<1>1. 1 \in ShellIds /\ None \notin ShellIds /\ None \notin Machines
    BY DEF ShellIds
<1>2. TypeOK
  <2>1. shell \in [ShellIds -> Shell]
      BY DEF Init, Shell, Started, NoShell
  <2>2. mover \in [Movers -> Mover]
      BY DEF Init, Mover, AtRest
  <2>3. client \in [Clients -> Client]
      BY DEF Init, Client, Unwatched
  <2>4. shells \in [Machines -> ShellIds \cup {None}]
        /\ \A b \in Machines : shells[b] # None => shell[shells[b]].at = b
      BY <1>1 DEF Init, Started
  <2>5. /\ cur \in ShellIds /\ primary \in ShellIds /\ clients = {}
        /\ done = FALSE /\ ended = FALSE /\ listed = TRUE
        /\ backend \in Machines /\ faults = 0
      BY <1>1 DEF Init
  <2> QED
    <3>1. shells \in [Machines -> ShellIds \cup {None}]
        BY <2>4
    <3>2. cur \in ShellIds \cup {None} /\ primary \in ShellIds \cup {None}
        BY <2>5
    <3>3. clients \in SUBSET Clients /\ done \in BOOLEAN /\ ended \in BOOLEAN /\ listed \in BOOLEAN
        BY <2>5
    <3>4. backend \in Machines \cup {None} /\ faults \in 0..MaxFaults
        BY <2>5
    <3>5. \A b \in Machines : shells[b] # None => MachineOf(shells[b]) = b
        BY <2>4 DEF MachineOf
    <3> QED
      BY <2>1, <2>2, <2>3, <3>1, <3>2, <3>3, <3>4, <3>5 DEF TypeOK
<1>3. InUse
    BY <1>1 DEF Init, InUse, Opened, Started, NoShell, AtRest
<1>4. FirstStands
    BY <1>1 DEF Init, FirstStands, Interactive, Started, NoShell, AtRest
<1>5. CodeOnce
    BY DEF Init, CodeOnce, Relaying, Unwatched
<1>6. Covered
    BY DEF Init, Covered, Watching
<1> QED
    BY <1>2, <1>3, <1>4, <1>5, <1>6 DEF Inv

-----------------------------------------------------------------------------
\* A step that leaves all but where commands run keeps everything.
LEMMA InvMove == ASSUME Inv, NEW t \in Movers, NEW b \in Machines, Move(t, b) PROVE Inv'
<1> USE DEF Inv
<1>1. /\ mover' \in [Movers -> Mover]
      /\ \A u \in Movers : mover'[u].todo = mover[u].todo /\ mover'[u].snap = mover[u].snap
      /\ \A u \in Movers : mover'[u].sh = mover[u].sh
      /\ \A u \in Movers \ {t} : mover'[u] = mover[u]
      /\ \/ mover'[t] = mover[t]
         \/ mover'[t].pc = "switch" /\ mover'[t].to = b
  <2> DEFINE m == [mover[t] EXCEPT !.pc = "switch", !.to = b]
  <2>1. mover \in [Movers -> Mover] /\ mover[t] \in Mover
      BY DEF TypeOK
  <2>2. /\ m \in Mover /\ m.pc = "switch" /\ m.to = b
        /\ m.todo = mover[t].todo /\ m.snap = mover[t].snap /\ m.sh = mover[t].sh
      BY <2>1 DEF Mover
  <2>3. mover' = mover \/ mover' = [mover EXCEPT ![t] = m]
      BY <2>1 DEF Move
  <2> HIDE DEF m
  <2> QED
      BY <2>1, <2>2, <2>3
<1>2. TypeOK'
    BY <1>1 DEF Move, TypeOK, MachineOf, sess
<1>3. InUse'
    BY <1>1 DEF Move, InUse, Opened, sess
<1>4. FirstStands'
    BY <1>1 DEF Move, FirstStands, Interactive, sess
<1>5. CodeOnce'
    BY DEF Move, CodeOnce, Relaying, sess
<1>6. Covered'
    BY <1>1 DEF Move, Covered, Watching, OnTheWay, sess
<1> QED
    BY <1>2, <1>3, <1>4, <1>5, <1>6

\* A move to the machine shown is over; to another, it shows the shell there, or
\* opens one, and not at home while the first shell stands there.
LEMMA InvSwitch == ASSUME Inv, NEW t \in Movers, Switch(t) PROVE Inv'
<1> USE DEF Inv
<1> DEFINE b == mover[t].to
<1>1. mover \in [Movers -> Mover] /\ mover[t] \in Mover /\ b \in Machines
    BY DEF TypeOK, InUse, Switch
<1>2. PICK m \in Mover : /\ mover' = [mover EXCEPT ![t] = m] /\ m.todo = {}
                         /\ \/ m = AtRest
                            \/ m.sh = shells[b] /\ m.sh = None /\ m.pc = "open" /\ m.to = b
                            \/ m.sh = shells[b] /\ m.sh # None /\ m.pc = "show"
  <2> DEFINE m == [mover[t] EXCEPT !.sh = shells[b],
                                   !.pc = IF shells[b] = None THEN "open" ELSE "show"]
  <2>1. AtRest \in Mover /\ AtRest.todo = {}
      BY DEF Mover, AtRest
  <2>2. /\ m \in Mover /\ m.todo = {} /\ m.sh = shells[b] /\ m.to = b
        /\ m.pc = IF shells[b] = None THEN "open" ELSE "show"
      BY <1>1 DEF Mover, TypeOK, InUse, Switch
  <2>3. mover' = [mover EXCEPT ![t] = m] \/ mover' = [mover EXCEPT ![t] = AtRest]
      BY <1>1 DEF Switch, Idle
  <2> HIDE DEF m
  <2> QED
      BY <2>1, <2>2, <2>3
<1>3. /\ mover' \in [Movers -> Mover] /\ mover'[t] = m
      /\ \A u \in Movers \ {t} : mover'[u] = mover[u]
      /\ mover[t].todo = {}
    BY <1>1, <1>2 DEF Switch, InUse
<1>4. TypeOK'
    BY <1>3 DEF Switch, TypeOK, MachineOf, sess, pod
<1>5. InUse'
    BY <1>1, <1>2, <1>3 DEF Switch, InUse, Opened, sess, AtRest
<1>6. FirstStands'
  <2>1. primary # None /\ m.pc = "open" => m.to # Home
      BY <1>1, <1>2, SessionAssumption
         DEF FirstStands, Interactive, AtRest, SessionAssumption, ShellIds
  <2> QED
      BY <1>3, <2>1 DEF Switch, FirstStands, Interactive, sess
<1>7. CodeOnce'
    BY DEF Switch, CodeOnce, Relaying, sess
<1>8. Covered'
    BY <1>2, <1>3 DEF Switch, Covered, Watching, OnTheWay, sess
<1> QED
    BY <1>4, <1>5, <1>6, <1>7, <1>8

\* A new shell is on the machine the move is for, and nobody is shown it yet.
LEMMA InvOpen == ASSUME Inv, NEW t \in Movers, Open(t) PROVE Inv'
<1> USE DEF Inv
<1> DEFINE b == mover[t].to
<1>1. /\ mover \in [Movers -> Mover] /\ mover[t] \in Mover /\ b \in Machines
      /\ shell \in [ShellIds -> Shell] /\ shells \in [Machines -> ShellIds \cup {None}]
      /\ 1 \in ShellIds /\ None \notin ShellIds
    BY SessionAssumption DEF TypeOK, InUse, Open, SessionAssumption, ShellIds
<1>2. PICK sh \in ShellIds : /\ shell[sh].pump = "none"
                             /\ shell' = [shell EXCEPT ![sh] = Started(b)]
                             /\ shells' = [shells EXCEPT ![b] = sh]
                             /\ mover' = [mover EXCEPT ![t].pc = "show", ![t].sh = sh]
    BY DEF Open
<1>3. PICK m \in Mover : /\ mover' = [mover EXCEPT ![t] = m]
                         /\ m.pc = "show" /\ m.sh = sh /\ m.todo = {}
  <2> DEFINE m == [mover[t] EXCEPT !.pc = "show", !.sh = sh]
  <2>1. m \in Mover /\ m.pc = "show" /\ m.sh = sh /\ m.todo = {}
      BY <1>1 DEF Mover, InUse, Open
  <2>2. mover' = [mover EXCEPT ![t] = m]
      BY <1>1, <1>2
  <2> QED
      BY <2>1, <2>2
<1>4. PICK r \in Shell : /\ shell' = [shell EXCEPT ![sh] = r]
                         /\ r.at = b /\ r.pump = "read" /\ r.todo = {}
  <2>1. Started(b) \in Shell /\ Started(b).at = b /\ Started(b).pump = "read"
        /\ Started(b).todo = {}
      BY <1>1, SessionAssumption DEF Started, Shell, SessionAssumption
  <2> QED
      BY <1>2, <2>1
<1>5. /\ mover' \in [Movers -> Mover] /\ mover'[t] = m
      /\ \A u \in Movers \ {t} : mover'[u] = mover[u]
      /\ mover[t].todo = {}
      /\ shell' \in [ShellIds -> Shell] /\ shell'[sh] = r
      /\ \A i \in ShellIds \ {sh} : shell'[i] = shell[i]
      /\ shells' \in [Machines -> ShellIds \cup {None}] /\ shells'[b] = sh
      /\ \A a \in Machines \ {b} : shells'[a] = shells[a]
  <2>1. mover' = [mover EXCEPT ![t] = m] /\ mover[t].todo = {}
      BY <1>3 DEF Open, InUse
  <2>2. shell' = [shell EXCEPT ![sh] = r] /\ shells' = [shells EXCEPT ![b] = sh]
      BY <1>2, <1>4
  <2> QED
      BY <1>1, <2>1, <2>2
<1>6. sh # 1 /\ sh # cur /\ primary # sh /\ \A a \in Machines : shells[a] # sh
    BY <1>1, <1>2 DEF InUse, Opened
<1>7. TypeOK'
  <2>1. \A a \in Machines : shells'[a] # None => shell'[shells'[a]].at = a
      BY <1>1, <1>4, <1>5, <1>6 DEF TypeOK, MachineOf
  <2> QED
      BY <1>5, <2>1 DEF Open, TypeOK, MachineOf, pod
<1>8. InUse'
    BY <1>1, <1>3, <1>4, <1>5, <1>6 DEF Open, InUse, Opened, TypeOK
<1>9. FirstStands'
  <2>1. primary # None => b # Home
      BY DEF Open, FirstStands, Interactive
  <2> QED
      BY <1>1, <1>3, <1>4, <1>5, <1>6, <2>1, SessionAssumption
         DEF Open, FirstStands, Interactive, SessionAssumption
<1>10. CodeOnce'
    BY DEF Open, CodeOnce, Relaying
<1>11. Covered'
    BY <1>2, <1>4, <1>5, <1>6 DEF Open, Covered, Watching, OnTheWay, TypeOK
<1> QED
    BY <1>7, <1>8, <1>9, <1>10, <1>11

\* A move that draws for some clients has their list, and keeps its shell until
\* there is nobody left on it.
LEMMA DrawingIs ==
    ASSUME mover \in [Movers -> Mover], NEW t \in Movers, NEW todo \in SUBSET Clients,
           NEW snap \in SUBSET Bytes, Drawing(t, todo, snap)
    PROVE  /\ mover' \in [Movers -> Mover]
           /\ \A u \in Movers \ {t} : mover'[u] = mover[u]
           /\ mover'[t].todo = todo /\ mover'[t].sh \in {mover[t].sh, None}
           /\ IF todo = {} THEN mover'[t].pc = "idle"
              ELSE mover'[t].pc = "draw" /\ mover'[t].snap = snap
<1> DEFINE m == [mover[t] EXCEPT !.pc = "draw", !.todo = todo, !.snap = snap]
<1>1. /\ AtRest \in Mover /\ AtRest.todo = {} /\ AtRest.sh = None /\ AtRest.pc = "idle"
      /\ m \in Mover /\ m.todo = todo /\ m.sh = mover[t].sh /\ m.pc = "draw"
      /\ m.snap = snap
    BY DEF AtRest, Mover
<1>2. mover' = [mover EXCEPT ![t] = IF todo = {} THEN AtRest ELSE m]
    BY DEF Drawing, Idle
<1> HIDE DEF m
<1> QED
    BY <1>1, <1>2

\* What a write does to a client: no more is on its screen than before, or all
\* of it is; only Sent minds that the terminal is gone.
LEMMA Written ==
    ASSUME client \in [Clients -> Client], NEW c \in Clients, NEW bytes \in SUBSET Bytes,
           NEW new \in {Shown(c, bytes), Sent(c, bytes)}
    PROVE  /\ new \in Client
           /\ new.pc = client[c].pc /\ new.gone = client[c].gone
           /\ new.snap = client[c].snap
           /\ client[c].seen \subseteq new.seen
           /\ ~new.stop => ~client[c].stop
           /\ ~new.gone /\ c \in Framed => bytes \subseteq new.seen
<1>1. Shown(c, bytes) \in Client
      /\ Shown(c, bytes).pc = client[c].pc /\ Shown(c, bytes).gone = client[c].gone
      /\ Shown(c, bytes).snap = client[c].snap /\ Shown(c, bytes).stop = client[c].stop
      /\ client[c].seen \subseteq Shown(c, bytes).seen
      /\ (~client[c].gone /\ c \in Framed => bytes \subseteq Shown(c, bytes).seen)
    BY DEF Shown, Client
<1> DEFINE s == Shown(c, bytes)
           u == [s EXCEPT !.stop = @ \/ client[c].gone]
<1>2. client[c].gone \in BOOLEAN /\ client[c].stop \in BOOLEAN
    BY DEF Client
<1>3. u \in Client /\ u.pc = s.pc /\ u.gone = s.gone /\ u.snap = s.snap /\ u.seen = s.seen
      /\ u.stop = (s.stop \/ client[c].gone)
    BY <1>1, <1>2 DEF Client
<1>4. Sent(c, bytes) = u
    BY DEF Sent
<1> HIDE DEF s, u
<1>5. CASE new = Shown(c, bytes)
    BY <1>1, <1>5
<1>6. CASE new = Sent(c, bytes)
    BY <1>1, <1>2, <1>3, <1>4, <1>6 DEF s
<1> QED
    BY <1>5, <1>6

\* A step that renames no shell and moves nobody keeps what is in use so.
LEMMA InUseKept ==
    ASSUME TypeOK, InUse, UNCHANGED <<shells, cur, primary, mover>>,
           \A i \in ShellIds : shell[i].pump # "none" => shell'[i].pump # "none",
           \A i \in ShellIds : shell'[i].pump = "forward" => shell'[i].ring > 0
    PROVE  InUse'
<1>1. 1 \in ShellIds /\ mover \in [Movers -> Mover]
    BY SessionAssumption DEF ShellIds, SessionAssumption, TypeOK
<1>2. \A t \in Movers : mover[t].sh \in ShellIds \cup {None}
    BY <1>1 DEF Mover
<1> QED
    BY <1>1, <1>2 DEF InUse, Opened, TypeOK

\* A shell that cannot be opened leaves everything as it was.
LEMMA InvOpenFails == ASSUME Inv, NEW t \in Movers, OpenFails(t) PROVE Inv'
<1> USE DEF Inv
<1>1. mover \in [Movers -> Mover] /\ mover[t].todo = {}
    BY DEF TypeOK, InUse, OpenFails
<1>2. /\ mover' \in [Movers -> Mover]
      /\ \A u \in Movers \ {t} : mover'[u] = mover[u]
      /\ mover'[t].todo = {} /\ mover'[t].sh \in {mover[t].sh, None}
      /\ mover'[t].pc = "idle"
    BY <1>1, DrawingIs DEF OpenFails, Drawing
<1>3. TypeOK'
    BY <1>2, SessionAssumption
       DEF OpenFails, Fault, TypeOK, MachineOf, sess, pod, SessionAssumption
<1>4. InUse'
    BY <1>2 DEF OpenFails, InUse, Opened, sess
<1>5. FirstStands'
    BY <1>2 DEF OpenFails, FirstStands, Interactive, sess
<1>6. CodeOnce'
    BY DEF OpenFails, CodeOnce, Relaying, sess
<1>7. Covered'
    BY <1>1, <1>2 DEF OpenFails, Covered, Watching, OnTheWay, sess
<1> QED
    BY <1>3, <1>4, <1>5, <1>6, <1>7

\* A shell that comes to be shown is drawn, all of it, for whoever watches.
LEMMA InvShow == ASSUME Inv, NEW t \in Movers, Show(t) PROVE Inv'
<1> USE DEF Inv
<1>sh. PICK sh \in ShellIds : sh = mover[t].sh
    BY DEF TypeOK, InUse, Show, Mover
<1>1. /\ mover \in [Movers -> Mover] /\ mover[t].todo = {} /\ mover[t] \in Mover
      /\ Opened(sh) /\ cur' = sh
      /\ shell \in [ShellIds -> Shell] /\ clients \in SUBSET Clients
    BY <1>sh DEF TypeOK, InUse, Show
<1>2. /\ mover' \in [Movers -> Mover]
      /\ \A u \in Movers \ {t} : mover'[u] = mover[u]
      /\ mover'[t].todo = clients /\ mover'[t].sh \in {sh, None}
      /\ clients = {} => mover'[t].pc = "idle"
      /\ clients # {} => mover'[t].pc = "draw" /\ mover'[t].snap = Snapshot(sh)
    BY <1>sh, <1>1, DrawingIs, SnapshotIs, SessionAssumption DEF Show
<1>3. TypeOK'
    BY <1>1, <1>2 DEF Show, TypeOK, MachineOf, pod
<1>4. InUse'
    BY <1>1, <1>2 DEF Show, InUse, Opened
<1>5. FirstStands'
    BY <1>1, <1>2 DEF Show, FirstStands, Interactive
<1>6. CodeOnce'
    BY DEF Show, CodeOnce, Relaying
<1>7. Covered'
  <2> SUFFICES ASSUME NEW c \in Clients, Watching(c)', NEW n \in 1..shell[sh].ring
               PROVE  OnTheWay(c, <<sh, n>>)'
      BY <1>1 DEF Show, Covered
  <2>1. c \in mover'[t].todo /\ clients # {}
      BY <1>2 DEF Show, Watching
  <2>2. <<sh, n>> \in mover'[t].snap
      BY <1>1, <1>2, <2>1, SnapshotIs, SessionAssumption
  <2> QED
      BY <2>1, <2>2 DEF OnTheWay
<1> QED
    BY <1>3, <1>4, <1>5, <1>6, <1>7

\* A client that has been drawn for has on its screen what was to be drawn.
LEMMA InvDraw ==
    ASSUME Inv, NEW t \in Movers, NEW c \in Clients, Draw(t, c) PROVE Inv'
<1> USE DEF Inv
<1>d. PICK todo \in SUBSET Clients, snap \in SUBSET Bytes :
          todo = mover[t].todo \ {c} /\ snap = mover[t].snap
    BY DEF TypeOK, Mover
<1>1. /\ mover \in [Movers -> Mover] /\ mover[t] \in Mover
      /\ client \in [Clients -> Client]
    BY DEF TypeOK, Mover
<1>2. /\ mover' \in [Movers -> Mover]
      /\ \A u \in Movers \ {t} : mover'[u] = mover[u]
      /\ mover'[t].todo = todo /\ mover'[t].sh \in {mover[t].sh, None}
      /\ todo = {} => mover'[t].pc = "idle"
      /\ todo # {} => mover'[t].pc = "draw" /\ mover'[t].snap = snap
  <2>1. Drawing(t, todo, snap)
      BY <1>d DEF Draw
  <2> QED
      BY <1>1, <2>1, DrawingIs
<1>3. /\ client' \in [Clients -> Client]
      /\ \A d \in Clients \ {c} : client'[d] = client[d]
      /\ client'[c].pc = client[c].pc /\ client'[c].gone = client[c].gone
      /\ client'[c].snap = client[c].snap /\ (~client'[c].stop => ~client[c].stop)
      /\ client[c].seen \subseteq client'[c].seen
      /\ ~client'[c].gone /\ c \in Framed => snap \subseteq client'[c].seen
  <2>1. client' = [client EXCEPT ![c] = Sent(c, snap)]
      BY <1>d DEF Draw
  <2> QED
      BY <1>1, <2>1, Written
<1>4. TypeOK'
    BY <1>2, <1>3 DEF Draw, TypeOK, MachineOf, sess, pod
<1>5. InUse'
    BY <1>2 DEF Draw, InUse, Opened, sess
<1>6. FirstStands'
    BY <1>2 DEF Draw, FirstStands, Interactive, sess
<1>7. CodeOnce'
  <2>1. Relaying' = Relaying
      BY <1>3 DEF Relaying
  <2> QED
      BY <2>1 DEF Draw, CodeOnce, sess
<1>8. Covered'
  <2> SUFFICES ASSUME NEW d \in Clients, Watching(d)', cur # None,
                      NEW n \in 1..shell[cur].ring
               PROVE  \/ <<cur, n>> \in client'[d].seen
                      \/ OnTheWay(d, <<cur, n>>)'
      BY DEF Draw, Covered, sess
  <2>1. Watching(d) /\ client[d].seen \subseteq client'[d].seen
      BY <1>3 DEF Draw, Watching, sess
  <2>2. <<cur, n>> \in client[d].seen \/ OnTheWay(d, <<cur, n>>)
      BY <2>1 DEF Covered
  <2>3. CASE <<cur, n>> \in client[d].seen
      BY <2>1, <2>3
  <2>4. CASE OnTheWay(d, <<cur, n>>)
    <3>1. CASE d = c /\ <<cur, n>> \in snap
        BY <1>3, <3>1 DEF Watching
    <3>2. CASE ~(d = c /\ <<cur, n>> \in snap)
        BY <1>d, <1>2, <1>3, <2>4, <3>2 DEF Draw, OnTheWay, sess
    <3> QED
        BY <3>1, <3>2
  <2> QED
      BY <2>2, <2>3, <2>4
<1> QED
    BY <1>4, <1>5, <1>6, <1>7, <1>8

-----------------------------------------------------------------------------
\* What a shell writes, and that it exits, is in nobody's hands before it is read.
LEMMA InvWriteExit ==
    ASSUME Inv, NEW sh \in ShellIds, Write(sh) \/ Exit(sh) PROVE Inv'
<1> USE DEF Inv
<1>1. PICK r \in Shell :
        /\ shell' = [shell EXCEPT ![sh] = r]
        /\ r.at = shell[sh].at /\ r.ring = shell[sh].ring /\ r.pump = shell[sh].pump
        /\ r.todo = shell[sh].todo /\ r.snap = shell[sh].snap
        /\ ~shell[sh].running => ~r.running
  <2>1. /\ shell \in [ShellIds -> Shell] /\ MaxChunks \in Nat
        /\ shell[sh] \in Shell /\ shell[sh].out \in 0..MaxChunks
      BY SessionAssumption DEF TypeOK, SessionAssumption, Shell
  <2>2. CASE Write(sh)
    <3> DEFINE r == [shell[sh] EXCEPT !.out = @ + 1]
    <3>1. shell' = [shell EXCEPT ![sh] = r]
        BY <2>2 DEF Write
    <3>2. shell[sh].out + 1 \in 0..MaxChunks
        BY <2>1, <2>2 DEF Write
    <3>3. /\ r \in Shell /\ r.at = shell[sh].at /\ r.ring = shell[sh].ring
          /\ r.pump = shell[sh].pump /\ r.todo = shell[sh].todo /\ r.snap = shell[sh].snap
          /\ r.running = shell[sh].running
        BY <2>1, <3>2 DEF Shell
    <3> HIDE DEF r
    <3> QED
        BY <3>1, <3>3
  <2>3. CASE Exit(sh)
    <3> DEFINE r == [shell[sh] EXCEPT !.running = FALSE]
    <3>1. shell' = [shell EXCEPT ![sh] = r]
        BY <2>3 DEF Exit
    <3>2. /\ r \in Shell /\ r.at = shell[sh].at /\ r.ring = shell[sh].ring
          /\ r.pump = shell[sh].pump /\ r.todo = shell[sh].todo /\ r.snap = shell[sh].snap
          /\ ~r.running
        BY <2>1 DEF Shell
    <3> HIDE DEF r
    <3> QED
        BY <3>1, <3>2
  <2> QED
      BY <2>2, <2>3
<1>2. /\ shell' \in [ShellIds -> Shell] /\ shell'[sh] = r
      /\ \A i \in ShellIds \ {sh} : shell'[i] = shell[i]
      /\ UNCHANGED <<sess, pod, mover, client, faults>>
      /\ 1 \in ShellIds /\ cur \in ShellIds \cup {None}
    BY <1>1, SessionAssumption DEF TypeOK, Write, Exit, ShellIds, SessionAssumption
<1>3. TypeOK'
    BY <1>1, <1>2 DEF TypeOK, MachineOf, sess, pod
<1>4. InUse'
    BY <1>1, <1>2 DEF InUse, Opened, sess, TypeOK, Mover
<1>5. FirstStands'
    BY <1>1, <1>2 DEF FirstStands, Interactive, sess
<1>6. CodeOnce'
    BY <1>2 DEF CodeOnce, Relaying, sess
<1>7. Covered'
    BY <1>1, <1>2 DEF Covered, Watching, OnTheWay, sess
<1> QED
    BY <1>3, <1>4, <1>5, <1>6, <1>7

\* A chunk that is read is the pump's to forward.
LEMMA InvRead == ASSUME Inv, NEW sh \in ShellIds, Read(sh) PROVE Inv'
<1> USE DEF Inv
<1> DEFINE r == [shell[sh] EXCEPT !.ring = @ + 1, !.pump = "forward"]
<1>1. /\ shell \in [ShellIds -> Shell] /\ shell[sh] \in Shell /\ MaxChunks \in Nat
      /\ 1 \in ShellIds /\ cur \in ShellIds \cup {None} /\ shell[sh].pump = "read"
    BY SessionAssumption DEF TypeOK, SessionAssumption, Read, ShellIds
<1>2. /\ r \in Shell /\ r.ring = shell[sh].ring + 1 /\ r.pump = "forward"
      /\ r.at = shell[sh].at /\ r.running = shell[sh].running
      /\ shell[sh].ring \in Nat
    BY <1>1 DEF Read, Shell
<1>3. shell' = [shell EXCEPT ![sh] = r]
    BY DEF Read
<1> HIDE DEF r
<1>4. /\ shell' \in [ShellIds -> Shell] /\ shell'[sh] = r
      /\ \A i \in ShellIds \ {sh} : shell'[i] = shell[i]
      /\ UNCHANGED <<sess, pod, mover, client, faults>>
    BY <1>1, <1>2, <1>3 DEF Read
<1>5. TypeOK'
    BY <1>2, <1>4 DEF TypeOK, MachineOf, sess, pod
<1>6. InUse'
  <2>1. /\ \A i \in ShellIds : shell[i].pump # "none" => shell'[i].pump # "none"
        /\ \A i \in ShellIds : shell'[i].pump = "forward" => shell'[i].ring > 0
      BY <1>2, <1>4 DEF InUse
  <2> QED
      BY <1>4, <2>1, InUseKept DEF sess
<1>7. FirstStands'
    BY <1>1, <1>2, <1>4 DEF FirstStands, Interactive, sess
<1>8. CodeOnce'
    BY <1>4 DEF CodeOnce, Relaying, sess
<1>9. Covered'
  <2> SUFFICES ASSUME NEW c \in Clients, Watching(c)', cur # None,
                      NEW n \in 1..shell'[cur].ring
               PROVE  \/ <<cur, n>> \in client[c].seen
                      \/ OnTheWay(c, <<cur, n>>)'
      BY <1>4 DEF Covered, sess
  <2>1. Watching(c)
      BY <1>4 DEF Watching, sess
  <2>2. CASE cur = sh /\ n = shell[sh].ring + 1
      BY <1>2, <1>4, <2>2 DEF OnTheWay, sess
  <2>3. CASE ~(cur = sh /\ n = shell[sh].ring + 1)
    <3>1. n \in 1..shell[cur].ring
        BY <1>1, <1>2, <1>4, <2>3
    <3>2. <<cur, n>> \in client[c].seen \/ OnTheWay(c, <<cur, n>>)
        BY <2>1, <3>1 DEF Covered
    <3>3. OnTheWay(c, <<cur, n>>) => OnTheWay(c, <<cur, n>>)'
        BY <1>1, <1>2, <1>4 DEF OnTheWay, sess
    <3> QED
        BY <3>2, <3>3
  <2> QED
      BY <2>2, <2>3
<1> QED
    BY <1>5, <1>6, <1>7, <1>8, <1>9

\* A chunk that has been forwarded is on every screen that watches its shell.
LEMMA InvForward == ASSUME Inv, NEW sh \in ShellIds, Forward(sh) PROVE Inv'
<1> USE DEF Inv
<1> DEFINE r == [shell[sh] EXCEPT !.pump = "read"]
<1>1. /\ shell \in [ShellIds -> Shell] /\ shell[sh] \in Shell /\ shell[sh].ring \in Chunks
      /\ 1 \in ShellIds /\ cur \in ShellIds \cup {None} /\ shell[sh].pump = "forward"
      /\ client \in [Clients -> Client]
    BY SessionAssumption
       DEF TypeOK, Forward, ShellIds, Chunks, Shell, InUse, SessionAssumption
<1>2. /\ r \in Shell /\ r.ring = shell[sh].ring /\ r.pump = "read"
      /\ r.at = shell[sh].at /\ r.running = shell[sh].running
    BY <1>1 DEF Shell
<1>3. shell' = [shell EXCEPT ![sh] = r]
    BY DEF Forward
<1> HIDE DEF r
<1>4. /\ shell' \in [ShellIds -> Shell] /\ shell'[sh] = r
      /\ \A i \in ShellIds \ {sh} : shell'[i] = shell[i]
      /\ UNCHANGED <<sess, pod, mover, faults>>
    BY <1>1, <1>2, <1>3 DEF Forward
<1>5. PICK b \in SUBSET Bytes : b = {<<sh, shell[sh].ring>>}
  <2>1. {<<sh, shell[sh].ring>>} \in SUBSET Bytes
      BY <1>1 DEF Bytes
  <2> QED
      BY <2>1
<1>6. \A c \in Clients :
         /\ client'[c] \in Client
         /\ client'[c].pc = client[c].pc /\ client'[c].gone = client[c].gone
         /\ client'[c].snap = client[c].snap /\ (~client'[c].stop => ~client[c].stop)
         /\ client[c].seen \subseteq client'[c].seen
         /\ ~client'[c].gone /\ c \in Framed /\ cur = sh /\ c \in clients =>
                <<sh, shell[sh].ring>> \in client'[c].seen
  <2> SUFFICES ASSUME NEW c \in Clients
               PROVE  /\ client'[c] \in Client
                      /\ client'[c].pc = client[c].pc /\ client'[c].gone = client[c].gone
                      /\ client'[c].snap = client[c].snap
                      /\ (~client'[c].stop => ~client[c].stop)
                      /\ client[c].seen \subseteq client'[c].seen
                      /\ ~client'[c].gone /\ c \in Framed /\ cur = sh /\ c \in clients =>
                            <<sh, shell[sh].ring>> \in client'[c].seen
      OBVIOUS
  <2>1. client'[c] = IF cur # sh \/ c \notin clients THEN client[c] ELSE Sent(c, b)
      BY <1>5 DEF Forward
  <2>2. CASE cur # sh \/ c \notin clients
      BY <1>1, <2>1, <2>2
  <2>3. CASE ~(cur # sh \/ c \notin clients)
      BY <1>1, <1>5, <2>1, <2>3, Written
  <2> QED
      BY <2>2, <2>3
<1>7. client' \in [Clients -> Client]
    BY <1>6 DEF Forward
<1>8. TypeOK'
    BY <1>2, <1>4, <1>7 DEF TypeOK, MachineOf, sess, pod
<1>9. InUse'
  <2>1. /\ \A i \in ShellIds : shell[i].pump # "none" => shell'[i].pump # "none"
        /\ \A i \in ShellIds : shell'[i].pump = "forward" => shell'[i].ring > 0
      BY <1>2, <1>4 DEF InUse
  <2> QED
      BY <1>4, <2>1, InUseKept DEF sess
<1>10. FirstStands'
    BY <1>1, <1>2, <1>4 DEF FirstStands, Interactive, sess
<1>11. CodeOnce'
  <2>1. Relaying' = Relaying
      BY <1>6 DEF Relaying
  <2> QED
      BY <1>4, <2>1 DEF CodeOnce, sess
<1>12. Covered'
  <2> SUFFICES ASSUME NEW c \in Clients, Watching(c)', cur # None,
                      NEW n \in 1..shell'[cur].ring
               PROVE  \/ <<cur, n>> \in client'[c].seen
                      \/ OnTheWay(c, <<cur, n>>)'
      BY <1>4 DEF Covered, sess
  <2>1. Watching(c) /\ n \in 1..shell[cur].ring
      BY <1>1, <1>2, <1>4, <1>6 DEF Watching, sess
  <2>2. <<cur, n>> \in client[c].seen \/ OnTheWay(c, <<cur, n>>)
      BY <2>1 DEF Covered
  <2>3. CASE cur = sh /\ n = shell[sh].ring
      BY <1>6, <2>1, <2>3 DEF Watching
  <2>4. CASE ~(cur = sh /\ n = shell[sh].ring)
      BY <1>1, <1>2, <1>4, <1>6, <2>1, <2>2, <2>4 DEF OnTheWay, sess
  <2> QED
      BY <2>3, <2>4
<1> QED
    BY <1>8, <1>9, <1>10, <1>11, <1>12

\* The first shell ends: whoever watches now is to be let go.
LEMMA InvEndPrimary == ASSUME Inv, NEW sh \in ShellIds, EndPrimary(sh) PROVE Inv'
<1> USE DEF Inv
<1> DEFINE r == [shell[sh] EXCEPT !.pump = "wait", !.todo = clients]
<1>1. /\ shell \in [ShellIds -> Shell] /\ clients \in SUBSET Clients
      /\ cur \in ShellIds \cup {None} /\ mover \in [Movers -> Mover]
      /\ shell[sh].pump = "read" /\ ~shell[sh].running /\ sh = 1
    BY SessionAssumption DEF TypeOK, EndPrimary, Drained, InUse, SessionAssumption
<1>2. /\ r \in Shell /\ r.ring = shell[sh].ring /\ r.pump = "wait"
      /\ r.at = shell[sh].at /\ r.running = shell[sh].running
  <2>1. shell[sh] \in Shell /\ clients \in SUBSET Clients /\ primary \in ShellIds \cup {None}
      BY DEF TypeOK
  <2> QED
      BY <2>1 DEF Shell
<1>3. shell' = [shell EXCEPT ![sh] = r]
    BY DEF EndPrimary
<1> HIDE DEF r
<1>4. /\ shell' \in [ShellIds -> Shell] /\ shell'[sh] = r
      /\ \A i \in ShellIds \ {sh} : shell'[i] = shell[i]
      /\ UNCHANGED <<sess, pod, mover, client, faults>>
    BY <1>1, <1>2, <1>3 DEF EndPrimary
<1>5. TypeOK'
    BY <1>2, <1>4 DEF TypeOK, MachineOf, sess, pod
<1>6. InUse'
  <2>1. /\ \A i \in ShellIds : shell[i].pump # "none" => shell'[i].pump # "none"
        /\ \A i \in ShellIds : shell'[i].pump = "forward" => shell'[i].ring > 0
      BY <1>2, <1>4 DEF InUse
  <2> QED
      BY <1>4, <2>1, InUseKept DEF sess
<1>7. FirstStands'
    BY <1>1, <1>2, <1>4 DEF FirstStands, Interactive, sess
<1>8. CodeOnce'
    BY <1>4 DEF CodeOnce, Relaying, sess
<1>9. Covered'
    BY <1>1, <1>2, <1>4 DEF Covered, Watching, OnTheWay, sess
<1> QED
    BY <1>5, <1>6, <1>7, <1>8, <1>9

\* It is over once, and then its one code is there.
LEMMA InvEnded == ASSUME Inv, NEW sh \in ShellIds, Ended(sh) PROVE Inv'
<1> USE DEF Inv
<1> DEFINE r == [shell[sh] EXCEPT !.pump = "release"]
<1>1. /\ shell \in [ShellIds -> Shell] /\ cur \in ShellIds \cup {None}
      /\ mover \in [Movers -> Mover]
      /\ shell[sh].pump = "wait" /\ sh = 1 /\ ~shell[sh].running /\ ~ended
    BY DEF TypeOK, Ended, FirstStands
<1>2. /\ r \in Shell /\ r.ring = shell[sh].ring /\ r.pump = "release"
      /\ r.at = shell[sh].at /\ r.running = shell[sh].running
  <2>1. shell[sh] \in Shell /\ clients \in SUBSET Clients /\ primary \in ShellIds \cup {None}
      BY DEF TypeOK
  <2> QED
      BY <2>1 DEF Shell
<1>3. shell' = [shell EXCEPT ![sh] = r]
    BY DEF Ended
<1> HIDE DEF r
<1>4. /\ shell' \in [ShellIds -> Shell] /\ shell'[sh] = r
      /\ \A i \in ShellIds \ {sh} : shell'[i] = shell[i]
      /\ UNCHANGED <<shells, cur, primary, clients, pod, mover, client, faults>>
      /\ ended' = TRUE /\ done' = TRUE
    BY <1>1, <1>2, <1>3 DEF Ended
<1>5. TypeOK'
    BY <1>2, <1>4 DEF TypeOK, MachineOf, pod
<1>6. InUse'
  <2>1. /\ \A i \in ShellIds : shell[i].pump # "none" => shell'[i].pump # "none"
        /\ \A i \in ShellIds : shell'[i].pump = "forward" => shell'[i].ring > 0
      BY <1>2, <1>4 DEF InUse
  <2> QED
      BY <1>4, <2>1, InUseKept DEF sess
<1>7. FirstStands'
    BY <1>1, <1>2, <1>4 DEF FirstStands, Interactive
<1>8. CodeOnce'
    BY <1>1, <1>4 DEF CodeOnce, Relaying
<1>9. Covered'
    BY <1>1, <1>2, <1>4 DEF Covered, Watching, OnTheWay
<1> QED
    BY <1>5, <1>6, <1>7, <1>8, <1>9

\* A client that is let go has nothing more coming.
LEMMA InvRelease == ASSUME Inv, NEW sh \in ShellIds, Release(sh) PROVE Inv'
<1> USE DEF Inv
<1> DEFINE r == [shell[sh] EXCEPT !.pump = "over", !.todo = {}]
<1>1. /\ shell \in [ShellIds -> Shell] /\ cur \in ShellIds \cup {None}
      /\ mover \in [Movers -> Mover] /\ client \in [Clients -> Client]
      /\ shell[sh].pump = "release" /\ sh = 1 /\ ~shell[sh].running /\ ended
    BY DEF TypeOK, Release, FirstStands
<1>2. /\ r \in Shell /\ r.ring = shell[sh].ring /\ r.pump = "over"
      /\ r.at = shell[sh].at /\ r.running = shell[sh].running
  <2>1. shell[sh] \in Shell /\ clients \in SUBSET Clients /\ primary \in ShellIds \cup {None}
      BY DEF TypeOK
  <2> QED
      BY <2>1 DEF Shell
<1>3. shell' = [shell EXCEPT ![sh] = r]
    BY DEF Release
<1> HIDE DEF r
<1>4. /\ shell' \in [ShellIds -> Shell] /\ shell'[sh] = r
      /\ \A i \in ShellIds \ {sh} : shell'[i] = shell[i]
      /\ UNCHANGED <<sess, pod, mover, faults>>
    BY <1>1, <1>2, <1>3 DEF Release
<1>5. \A c \in Clients :
         /\ client'[c] \in Client /\ client'[c].pc = client[c].pc
         /\ client'[c].stop \/ client'[c] = client[c]
  <2> SUFFICES ASSUME NEW c \in Clients
               PROVE  /\ client'[c] \in Client /\ client'[c].pc = client[c].pc
                      /\ client'[c].stop \/ client'[c] = client[c]
      OBVIOUS
  <2> DEFINE u == [client[c] EXCEPT !.stop = TRUE]
  <2>1. u \in Client /\ u.pc = client[c].pc /\ u.stop
      BY <1>1 DEF Client
  <2>2. client'[c] \in {u, client[c]}
      BY DEF Release
  <2> HIDE DEF u
  <2> QED
      BY <1>1, <2>1, <2>2
<1>6. client' \in [Clients -> Client]
    BY <1>5 DEF Release
<1>7. TypeOK'
    BY <1>2, <1>4, <1>6 DEF TypeOK, MachineOf, sess, pod
<1>8. InUse'
  <2>1. /\ \A i \in ShellIds : shell[i].pump # "none" => shell'[i].pump # "none"
        /\ \A i \in ShellIds : shell'[i].pump = "forward" => shell'[i].ring > 0
      BY <1>2, <1>4 DEF InUse
  <2> QED
      BY <1>4, <2>1, InUseKept DEF sess
<1>9. FirstStands'
    BY <1>1, <1>2, <1>4 DEF FirstStands, Interactive, sess
<1>10. CodeOnce'
  <2>1. Relaying' = Relaying
      BY <1>5 DEF Relaying
  <2> QED
      BY <1>4, <2>1 DEF CodeOnce, sess
<1>11. Covered'
  <2> SUFFICES ASSUME NEW c \in Clients, Watching(c)', cur # None,
                      NEW n \in 1..shell[cur].ring
               PROVE  \/ <<cur, n>> \in client'[c].seen
                      \/ OnTheWay(c, <<cur, n>>)'
      BY <1>1, <1>2, <1>4 DEF Covered, sess
  <2>1. client'[c] = client[c] /\ Watching(c)
      BY <1>4, <1>5 DEF Watching, sess
  <2>2. <<cur, n>> \in client[c].seen \/ OnTheWay(c, <<cur, n>>)
      BY <2>1 DEF Covered
  <2> QED
      BY <1>1, <1>2, <1>4, <2>1, <2>2 DEF OnTheWay, sess
<1> QED
    BY <1>7, <1>8, <1>9, <1>10, <1>11

\* Another shell ends: if it was shown, all of the first is drawn for everyone.
LEMMA InvEndOther == ASSUME Inv, NEW sh \in ShellIds, EndOther(sh) PROVE Inv'
<1> USE DEF Inv
<1>1. /\ shell \in [ShellIds -> Shell] /\ cur \in ShellIds \cup {None}
      /\ shells \in [Machines -> ShellIds \cup {None}] /\ primary \in ShellIds \cup {None}
      /\ mover \in [Movers -> Mover] /\ clients \in SUBSET Clients
      /\ shell[sh].pump = "read" /\ ~shell[sh].running /\ ~(sh = 1 /\ ended)
      /\ primary # sh /\ primary \in {1, None} /\ 1 \in ShellIds /\ None \notin ShellIds
    BY SessionAssumption
       DEF TypeOK, EndOther, Drained, FirstStands, InUse, ShellIds, SessionAssumption
<1>2. PICK snap \in SUBSET Bytes : snap = IF primary = None THEN {} ELSE Snapshot(primary)
    BY <1>1, SnapshotIs, SessionAssumption
<1> DEFINE r == [shell[sh] EXCEPT !.pump = "fall", !.todo = clients,
                                  !.back = primary, !.snap = snap]
<1>3. /\ r \in Shell /\ r.ring = shell[sh].ring /\ r.pump = "fall"
      /\ r.todo = clients /\ r.snap = snap
      /\ r.at = shell[sh].at /\ r.running = shell[sh].running
  <2>1. shell[sh] \in Shell /\ clients \in SUBSET Clients /\ primary \in ShellIds \cup {None}
      BY DEF TypeOK
  <2> QED
      BY <2>1 DEF Shell
<1>4. shell' = [shell EXCEPT ![sh] = r]
    BY <1>2 DEF EndOther
<1> HIDE DEF r
<1>5. /\ shell' \in [ShellIds -> Shell] /\ shell'[sh] = r
      /\ \A i \in ShellIds \ {sh} : shell'[i] = shell[i]
      /\ UNCHANGED <<primary, clients, done, ended, pod, mover, client, faults>>
  <2>1. UNCHANGED <<primary, clients, done, ended, pod, mover, client, faults>>
      BY DEF EndOther
  <2> QED
      BY <1>1, <1>3, <1>4, <2>1
<1>6. /\ shells' \in [Machines -> ShellIds \cup {None}]
      /\ \A b \in Machines : shells'[b] =
            IF b = shell[sh].at THEN None ELSE shells[b]
    BY <1>1 DEF EndOther, MachineOf
<1>7. cur' \in ShellIds \cup {None} /\ cur' = IF cur = sh THEN primary ELSE cur
    BY <1>1 DEF EndOther
<1>8. TypeOK'
    BY <1>3, <1>5, <1>6, <1>7 DEF TypeOK, MachineOf, pod
<1>9. InUse'
    BY <1>1, <1>3, <1>5, <1>6, <1>7 DEF InUse, Opened, TypeOK, Mover
<1>10. FirstStands'
  <2>1. CASE sh = 1
      BY <1>1, <1>3, <1>5, <2>1 DEF FirstStands, Interactive
  <2>2. CASE sh # 1
    <3>1. primary # None => shells'[Home] = 1
        BY <1>6, <2>2, SessionAssumption DEF FirstStands, Interactive, SessionAssumption
    <3> QED
        BY <1>1, <1>3, <1>5, <2>2, <3>1 DEF FirstStands, Interactive
  <2> QED
      BY <2>1, <2>2
<1>11. CodeOnce'
    BY <1>5 DEF CodeOnce, Relaying
<1>12. Covered'
  <2>1. CASE cur # sh
      BY <1>1, <1>3, <1>5, <1>7, <2>1 DEF Covered, Watching, OnTheWay
  <2>2. CASE cur = sh
    <3> SUFFICES ASSUME NEW c \in Clients, Watching(c)', primary # None,
                        NEW n \in 1..shell[primary].ring
                 PROVE  OnTheWay(c, <<primary, n>>)'
        BY <1>1, <1>5, <1>7, <2>2 DEF Covered
    <3>1. <<primary, n>> \in snap /\ c \in clients
        BY <1>1, <1>2, <1>5, SnapshotIs, SessionAssumption DEF Watching
    <3> QED
        BY <1>3, <1>5, <3>1 DEF OnTheWay
  <2> QED
      BY <2>1, <2>2
<1> QED
    BY <1>8, <1>9, <1>10, <1>11, <1>12

\* It has said where commands run from now on, and still has everyone to tell.
LEMMA InvFallBack == ASSUME Inv, NEW sh \in ShellIds, FallBack(sh) PROVE Inv'
<1> USE DEF Inv
<1> DEFINE r == [shell[sh] EXCEPT !.pump = "note"]
<1>1. /\ shell \in [ShellIds -> Shell] /\ shell[sh].pump = "fall"
      /\ cur \in ShellIds \cup {None} /\ 1 \in ShellIds
    BY SessionAssumption DEF TypeOK, FallBack, SessionAssumption, ShellIds
<1>2. /\ r \in Shell /\ r.ring = shell[sh].ring /\ r.pump = "note"
      /\ r.todo = shell[sh].todo /\ r.snap = shell[sh].snap
      /\ r.at = shell[sh].at /\ r.running = shell[sh].running
  <2>1. shell[sh] \in Shell
      BY DEF TypeOK
  <2> QED
      BY <2>1 DEF Shell
<1>3. shell' = [shell EXCEPT ![sh] = r]
    BY DEF FallBack
<1> HIDE DEF r
<1>4. /\ shell' \in [ShellIds -> Shell] /\ shell'[sh] = r
      /\ \A i \in ShellIds \ {sh} : shell'[i] = shell[i]
      /\ UNCHANGED <<sess, listed, mover, client, faults>>
    BY <1>1, <1>2, <1>3 DEF FallBack
<1>5. backend' \in Machines \cup {None}
    BY SessionAssumption
       DEF TypeOK, FallBack, Fallback, MachineOf, SessionAssumption, Shell
<1>6. TypeOK'
    BY <1>2, <1>4, <1>5 DEF TypeOK, MachineOf, sess
<1>7. InUse'
  <2>1. /\ \A i \in ShellIds : shell[i].pump # "none" => shell'[i].pump # "none"
        /\ \A i \in ShellIds : shell'[i].pump = "forward" => shell'[i].ring > 0
      BY <1>2, <1>4 DEF InUse
  <2> QED
      BY <1>4, <2>1, InUseKept DEF sess
<1>8. FirstStands'
    BY <1>1, <1>2, <1>4 DEF FirstStands, Interactive, sess
<1>9. CodeOnce'
    BY <1>4 DEF CodeOnce, Relaying, sess
<1>10. Covered'
    BY <1>1, <1>2, <1>4 DEF Covered, Watching, OnTheWay, sess
<1> QED
    BY <1>6, <1>7, <1>8, <1>9, <1>10

\* A client that has been told of the end has on its screen what was to be drawn.
LEMMA InvNote ==
    ASSUME Inv, NEW sh \in ShellIds, NEW c \in Clients, Note(sh, c) PROVE Inv'
<1> USE DEF Inv
<1> DEFINE r == [shell[sh] EXCEPT !.todo = @ \ {c}]
<1>1. /\ shell \in [ShellIds -> Shell] /\ shell[sh].pump = "note"
      /\ cur \in ShellIds \cup {None} /\ 1 \in ShellIds
      /\ client \in [Clients -> Client]
    BY SessionAssumption DEF TypeOK, Note, SessionAssumption, ShellIds
<1>2. /\ r \in Shell /\ r.ring = shell[sh].ring /\ r.pump = "note"
      /\ r.todo = shell[sh].todo \ {c} /\ r.snap = shell[sh].snap
      /\ r.at = shell[sh].at /\ r.running = shell[sh].running
  <2>1. shell[sh] \in Shell
      BY DEF TypeOK
  <2> QED
      BY <1>1, <2>1 DEF Shell
<1>3. shell' = [shell EXCEPT ![sh] = r]
    BY DEF Note
<1> HIDE DEF r
<1>4. /\ shell' \in [ShellIds -> Shell] /\ shell'[sh] = r
      /\ \A i \in ShellIds \ {sh} : shell'[i] = shell[i]
      /\ UNCHANGED <<sess, pod, mover, faults>>
    BY <1>1, <1>2, <1>3 DEF Note
<1>5. /\ client' \in [Clients -> Client]
      /\ \A d \in Clients \ {c} : client'[d] = client[d]
      /\ client'[c].pc = client[c].pc /\ client'[c].gone = client[c].gone
      /\ client'[c].snap = client[c].snap /\ (~client'[c].stop => ~client[c].stop)
      /\ client[c].seen \subseteq client'[c].seen
      /\ ~client'[c].gone /\ c \in Framed => shell[sh].snap \subseteq client'[c].seen
  <2>1. PICK snap \in SUBSET Bytes : snap = shell[sh].snap
      BY <1>1 DEF Shell
  <2>2. client' = [client EXCEPT ![c] = Shown(c, snap)]
      BY <2>1 DEF Note
  <2> QED
      BY <1>1, <2>1, <2>2, Written
<1>6. TypeOK'
    BY <1>2, <1>4, <1>5 DEF TypeOK, MachineOf, sess, pod
<1>7. InUse'
  <2>1. /\ \A i \in ShellIds : shell[i].pump # "none" => shell'[i].pump # "none"
        /\ \A i \in ShellIds : shell'[i].pump = "forward" => shell'[i].ring > 0
      BY <1>2, <1>4 DEF InUse
  <2> QED
      BY <1>4, <2>1, InUseKept DEF sess
<1>8. FirstStands'
    BY <1>1, <1>2, <1>4 DEF FirstStands, Interactive, sess
<1>9. CodeOnce'
  <2>1. Relaying' = Relaying
      BY <1>5 DEF Relaying
  <2> QED
      BY <1>4, <2>1 DEF CodeOnce, sess
<1>10. Covered'
  <2> SUFFICES ASSUME NEW d \in Clients, Watching(d)', cur # None,
                      NEW n \in 1..shell[cur].ring
               PROVE  \/ <<cur, n>> \in client'[d].seen
                      \/ OnTheWay(d, <<cur, n>>)'
      BY <1>1, <1>2, <1>4 DEF Covered, sess
  <2>1. Watching(d) /\ client[d].seen \subseteq client'[d].seen
      BY <1>4, <1>5 DEF Watching, sess
  <2>2. <<cur, n>> \in client[d].seen \/ OnTheWay(d, <<cur, n>>)
      BY <2>1 DEF Covered
  <2>3. CASE d = c /\ <<cur, n>> \in shell[sh].snap
      BY <1>5, <2>3 DEF Watching
  <2>4. CASE ~(d = c /\ <<cur, n>> \in shell[sh].snap)
      BY <1>1, <1>2, <1>4, <1>5, <2>1, <2>2, <2>4 DEF OnTheWay, sess
  <2> QED
      BY <2>3, <2>4
<1> QED
    BY <1>6, <1>7, <1>8, <1>9, <1>10

\* A pump with nobody left to tell is over, and so its shell was not the first.
LEMMA InvNoted == ASSUME Inv, NEW sh \in ShellIds, Noted(sh) PROVE Inv'
<1> USE DEF Inv
<1> DEFINE r == [shell[sh] EXCEPT !.pump = "over", !.back = None, !.snap = {}]
<1>1. /\ shell \in [ShellIds -> Shell] /\ shell[sh].pump = "note" /\ shell[sh].todo = {}
      /\ cur \in ShellIds \cup {None} /\ 1 \in ShellIds
    BY SessionAssumption DEF TypeOK, Noted, SessionAssumption, ShellIds
<1>2. /\ r \in Shell /\ r.ring = shell[sh].ring /\ r.pump = "over"
      /\ r.at = shell[sh].at /\ r.running = shell[sh].running
  <2>1. shell[sh] \in Shell
      BY DEF TypeOK
  <2> QED
      BY <2>1 DEF Shell
<1>3. shell' = [shell EXCEPT ![sh] = r]
    BY DEF Noted
<1> HIDE DEF r
<1>4. /\ shell' \in [ShellIds -> Shell] /\ shell'[sh] = r
      /\ \A i \in ShellIds \ {sh} : shell'[i] = shell[i]
      /\ UNCHANGED <<sess, pod, mover, client, faults>>
    BY <1>1, <1>2, <1>3 DEF Noted
<1>5. TypeOK'
    BY <1>2, <1>4 DEF TypeOK, MachineOf, sess, pod
<1>6. InUse'
  <2>1. /\ \A i \in ShellIds : shell[i].pump # "none" => shell'[i].pump # "none"
        /\ \A i \in ShellIds : shell'[i].pump = "forward" => shell'[i].ring > 0
      BY <1>2, <1>4 DEF InUse
  <2> QED
      BY <1>4, <2>1, InUseKept DEF sess
<1>7. FirstStands'
    BY <1>1, <1>2, <1>4 DEF FirstStands, Interactive, sess
<1>8. CodeOnce'
    BY <1>4 DEF CodeOnce, Relaying, sess
<1>9. Covered'
    BY <1>1, <1>2, <1>4 DEF Covered, Watching, OnTheWay, sess
<1> QED
    BY <1>5, <1>6, <1>7, <1>8, <1>9

-----------------------------------------------------------------------------
\* A client that goes on to another step is otherwise as it was.
LEMMA Labelled ==
    ASSUME client \in [Clients -> Client], NEW c \in Clients,
           NEW label \in {"found", "relay", "leave", "detach", "close", "out"}, At(c, label)
    PROVE  /\ client' \in [Clients -> Client] /\ client'[c].pc = label
           /\ \A d \in Clients \ {c} : client'[d] = client[d]
<1> DEFINE u == [client[c] EXCEPT !.pc = label]
<1>1. u \in Client /\ u.pc = label
    BY DEF Client
<1>2. client' = [client EXCEPT ![c] = u]
    BY DEF At
<1> HIDE DEF u
<1> QED
    BY <1>1, <1>2

\* A step of a client that then does not watch leaves the others covered.
LEMMA CoveredKept ==
    ASSUME Covered, NEW c \in Clients, ~Watching(c)', clients' \subseteq clients,
           \A d \in Clients \ {c} : client'[d] = client[d],
           UNCHANGED <<cur, shell, mover>>
    PROVE  Covered'
<1> SUFFICES ASSUME NEW d \in Clients, Watching(d)', cur # None,
                    NEW n \in 1..shell[cur].ring
             PROVE  <<cur, n>> \in client'[d].seen \/ OnTheWay(d, <<cur, n>>)'
    BY DEF Covered
<1>1. d # c
    OBVIOUS
<1>2. Watching(d) /\ client'[d] = client[d]
    BY <1>1 DEF Watching
<1>3. <<cur, n>> \in client[d].seen \/ OnTheWay(d, <<cur, n>>)
    BY <1>2 DEF Covered
<1> QED
    BY <1>2, <1>3 DEF OnTheWay

\* A client that only goes on to another step, in which it holds no code.
LEMMA InvGoOn ==
    ASSUME Inv, NEW c \in Clients, Find(c) \/ Detach(c) \/ Dropped(c) \/ Unlist(c)
    PROVE  Inv'
<1> USE DEF Inv
<1>1. PICK label \in {"found", "detach", "close"} : At(c, label)
    BY DEF Find, Detach, Dropped, Unlist
<1>2. /\ client' \in [Clients -> Client] /\ client'[c].pc = label
      /\ \A d \in Clients \ {c} : client'[d] = client[d]
    BY <1>1, Labelled DEF TypeOK
<1>3. UNCHANGED <<sess, shell, mover, faults>> /\ client[c].pc # "relay"
    BY DEF Find, Detach, Dropped, Unlist
<1>4. listed' \in BOOLEAN /\ backend' \in Machines \cup {None}
    BY DEF Find, Detach, Dropped, Unlist, pod, TypeOK
<1>5. TypeOK'
    BY <1>2, <1>3, <1>4 DEF TypeOK, MachineOf, sess
<1>6. InUse'
    BY <1>3 DEF InUse, Opened, sess
<1>7. FirstStands'
    BY <1>3 DEF FirstStands, Interactive, sess
<1>8. CodeOnce'
  <2>1. Relaying' = Relaying
      BY <1>2, <1>3 DEF Relaying
  <2> QED
      BY <1>3, <2>1 DEF CodeOnce, sess
<1>9. Covered'
  <2>1. ~Watching(c)'
      BY <1>2 DEF Watching
  <2> QED
      BY <1>2, <1>3, <2>1, CoveredKept DEF sess
<1> QED
    BY <1>5, <1>6, <1>7, <1>8, <1>9

\* The one code is taken by one client,
LEMMA InvTakeEnd == ASSUME Inv, NEW c \in Clients, TakeEnd(c) PROVE Inv'
<1> USE DEF Inv
<1>1. /\ client' \in [Clients -> Client] /\ client'[c].pc = "relay"
      /\ \A d \in Clients \ {c} : client'[d] = client[d]
    BY Labelled DEF TypeOK, TakeEnd
<1>2. /\ UNCHANGED <<shells, cur, primary, clients, ended, pod, shell, mover, faults>>
      /\ done /\ done' = FALSE
    BY DEF TakeEnd
<1>3. TypeOK'
    BY <1>1, <1>2 DEF TypeOK, MachineOf, pod
<1>4. InUse'
    BY <1>2 DEF InUse, Opened
<1>5. FirstStands'
    BY <1>2 DEF FirstStands, Interactive
<1>6. CodeOnce'
  <2>1. ended /\ Relaying = {}
      BY <1>2 DEF CodeOnce
  <2>2. Relaying' = {c}
      BY <1>1, <2>1 DEF Relaying
  <2> QED
      BY <1>2, <2>1, <2>2 DEF CodeOnce
<1>7. Covered'
  <2>1. ~Watching(c)'
      BY <1>1 DEF Watching
  <2> QED
      BY <1>1, <1>2, <2>1, CoveredKept
<1> QED
    BY <1>3, <1>4, <1>5, <1>6, <1>7

\* and it is put back by that one.
LEMMA InvRelay == ASSUME Inv, NEW c \in Clients, Relay(c) PROVE Inv'
<1> USE DEF Inv
<1>1. /\ client' \in [Clients -> Client] /\ client'[c].pc = "leave"
      /\ \A d \in Clients \ {c} : client'[d] = client[d]
    BY Labelled DEF TypeOK, Relay
<1>2. /\ UNCHANGED <<shells, cur, primary, clients, ended, pod, shell, mover, faults>>
      /\ done' = TRUE
    BY DEF Relay
<1>3. TypeOK'
    BY <1>1, <1>2 DEF TypeOK, MachineOf, pod
<1>4. InUse'
    BY <1>2 DEF InUse, Opened
<1>5. FirstStands'
    BY <1>2 DEF FirstStands, Interactive
<1>6. CodeOnce'
  <2>1. c \in Relaying
      BY DEF Relay, Relaying
  <2>2. ended /\ Relaying = {c}
      BY <2>1 DEF CodeOnce
  <2>3. Relaying' = {}
      BY <1>1, <2>2 DEF Relaying
  <2> QED
      BY <1>2, <2>2, <2>3 DEF CodeOnce
<1>7. Covered'
  <2>1. ~Watching(c)'
      BY <1>1 DEF Watching
  <2> QED
      BY <1>1, <1>2, <2>1, CoveredKept
<1> QED
    BY <1>3, <1>4, <1>5, <1>6, <1>7

\* A client attaches to what is shown, and is to be sent all of it.
LEMMA InvAttach == ASSUME Inv, NEW c \in Clients, Attach(c) PROVE Inv'
<1> USE DEF Inv
<1>1. /\ client \in [Clients -> Client] /\ clients \in SUBSET Clients
      /\ cur \in ShellIds \cup {None} /\ shell \in [ShellIds -> Shell]
      /\ client[c].pc = "found" /\ clients' = clients \cup {c}
      /\ UNCHANGED <<shells, cur, primary, done, ended, pod, shell, mover, faults>>
    BY DEF TypeOK, Attach
<1>2. PICK snap \in SUBSET Bytes :
         snap = IF cur = None \/ c \notin Framed THEN {} ELSE Snapshot(cur)
    BY <1>1, SnapshotIs, SessionAssumption
<1> DEFINE u == [client[c] EXCEPT !.pc = "show", !.snap = snap]
<1>3. u \in Client /\ u.pc = "show" /\ u.snap = snap
    BY <1>1 DEF Client
<1>4. client' = [client EXCEPT ![c] = u]
    BY <1>2 DEF Attach
<1> HIDE DEF u
<1>5. /\ client' \in [Clients -> Client] /\ client'[c] = u
      /\ \A d \in Clients \ {c} : client'[d] = client[d]
    BY <1>1, <1>3, <1>4
<1>6. TypeOK'
    BY <1>1, <1>5 DEF TypeOK, MachineOf, pod
<1>7. InUse'
    BY <1>1 DEF InUse, Opened
<1>8. FirstStands'
    BY <1>1 DEF FirstStands, Interactive
<1>9. CodeOnce'
  <2>1. Relaying' = Relaying
      BY <1>1, <1>3, <1>5 DEF Relaying
  <2> QED
      BY <1>1, <2>1 DEF CodeOnce
<1>10. Covered'
  <2> SUFFICES ASSUME NEW d \in Clients, Watching(d)', cur # None,
                      NEW n \in 1..shell[cur].ring
               PROVE  <<cur, n>> \in client'[d].seen \/ OnTheWay(d, <<cur, n>>)'
      BY <1>1 DEF Covered
  <2>1. CASE d = c
    <3>1. <<cur, n>> \in snap
        BY <1>1, <1>2, <2>1, SnapshotIs, SessionAssumption DEF Watching
    <3> QED
        BY <1>1, <1>3, <1>5, <2>1, <3>1 DEF OnTheWay
  <2>2. CASE d # c
    <3>1. Watching(d) /\ client'[d] = client[d]
        BY <1>1, <1>5, <2>2 DEF Watching
    <3>2. <<cur, n>> \in client[d].seen \/ OnTheWay(d, <<cur, n>>)
        BY <3>1 DEF Covered
    <3> QED
        BY <1>1, <3>1, <3>2 DEF OnTheWay
  <2> QED
      BY <2>1, <2>2
<1> QED
    BY <1>6, <1>7, <1>8, <1>9, <1>10

\* What it was to be sent is on its screen.
LEMMA InvRedraw == ASSUME Inv, NEW c \in Clients, Redraw(c) PROVE Inv'
<1> USE DEF Inv
<1>1. /\ client \in [Clients -> Client] /\ cur \in ShellIds \cup {None}
      /\ client[c].pc = "show"
      /\ UNCHANGED <<sess, pod, shell, mover, faults>>
    BY DEF TypeOK, Redraw
<1>2. PICK snap \in SUBSET Bytes : snap = client[c].snap
    BY <1>1 DEF Client
<1>3. PICK s \in Client :
         /\ s = Shown(c, snap)
         /\ s.gone = client[c].gone /\ client[c].seen \subseteq s.seen
         /\ ~s.stop => ~client[c].stop
         /\ ~s.gone /\ c \in Framed => snap \subseteq s.seen
    BY <1>1, Written
<1> DEFINE u == [s EXCEPT !.pc = "watch", !.snap = {}]
<1>4. u \in Client /\ u.pc = "watch" /\ u.gone = s.gone /\ u.stop = s.stop /\ u.seen = s.seen
    BY DEF Client
<1>5. client' = [client EXCEPT ![c] = u]
    BY <1>2, <1>3 DEF Redraw
<1> HIDE DEF u
<1>6. /\ client' \in [Clients -> Client] /\ client'[c] = u
      /\ \A d \in Clients \ {c} : client'[d] = client[d]
    BY <1>1, <1>4, <1>5
<1>7. TypeOK'
    BY <1>1, <1>6 DEF TypeOK, MachineOf, sess, pod
<1>8. InUse'
    BY <1>1 DEF InUse, Opened, sess
<1>9. FirstStands'
    BY <1>1 DEF FirstStands, Interactive, sess
<1>10. CodeOnce'
  <2>1. Relaying' = Relaying
      BY <1>1, <1>4, <1>6 DEF Relaying
  <2> QED
      BY <1>1, <2>1 DEF CodeOnce, sess
<1>11. Covered'
  <2> SUFFICES ASSUME NEW d \in Clients, Watching(d)', cur # None,
                      NEW n \in 1..shell[cur].ring
               PROVE  <<cur, n>> \in client'[d].seen \/ OnTheWay(d, <<cur, n>>)'
      BY <1>1 DEF Covered, sess
  <2>1. Watching(d) /\ client[d].seen \subseteq client'[d].seen
      BY <1>1, <1>3, <1>4, <1>6 DEF Watching, sess
  <2>2. <<cur, n>> \in client[d].seen \/ OnTheWay(d, <<cur, n>>)
      BY <2>1 DEF Covered
  <2>3. CASE d = c /\ <<cur, n>> \in snap
      BY <1>3, <1>4, <1>6, <2>3 DEF Watching
  <2>4. CASE ~(d = c /\ <<cur, n>> \in snap)
      BY <1>1, <1>2, <1>6, <2>1, <2>2, <2>4 DEF OnTheWay, sess
  <2> QED
      BY <2>3, <2>4
<1> QED
    BY <1>7, <1>8, <1>9, <1>10, <1>11

\* A client that leaves takes nothing from the others that is to be sent to them.
LEMMA InvLeave == ASSUME Inv, NEW c \in Clients, Leave(c) PROVE Inv'
<1> USE DEF Inv
<1>1. /\ client \in [Clients -> Client] /\ mover \in [Movers -> Mover]
      /\ shell \in [ShellIds -> Shell] /\ clients \in SUBSET Clients
      /\ cur \in ShellIds \cup {None} /\ 1 \in ShellIds /\ clients' = clients \ {c}
      /\ UNCHANGED <<shells, cur, primary, done, ended, pod, faults>>
    BY SessionAssumption DEF TypeOK, Leave, SessionAssumption, ShellIds
<1>2. \A t \in Movers :
         /\ mover'[t] \in Mover /\ mover'[t].todo = mover[t].todo \ {c}
         /\ \/ mover'[t].todo = {} /\ mover'[t].pc = "idle" /\ mover'[t].sh = None
            \/ /\ mover'[t].pc = mover[t].pc /\ mover'[t].to = mover[t].to
               /\ mover'[t].sh = mover[t].sh /\ mover'[t].snap = mover[t].snap
  <2> SUFFICES ASSUME NEW t \in Movers
               PROVE /\ mover'[t] \in Mover /\ mover'[t].todo = mover[t].todo \ {c}
                     /\ \/ /\ mover'[t].todo = {} /\ mover'[t].pc = "idle"
                           /\ mover'[t].sh = None
                        \/ /\ mover'[t].pc = mover[t].pc /\ mover'[t].to = mover[t].to
                           /\ mover'[t].sh = mover[t].sh
                           /\ mover'[t].snap = mover[t].snap
      OBVIOUS
  <2> DEFINE m == [mover[t] EXCEPT !.todo = @ \ {c}]
  <2>1. /\ m \in Mover /\ m.todo = mover[t].todo \ {c} /\ m.pc = mover[t].pc
        /\ m.to = mover[t].to /\ m.sh = mover[t].sh /\ m.snap = mover[t].snap
      BY <1>1 DEF Mover
  <2>2. AtRest \in Mover /\ AtRest.todo = {} /\ AtRest.pc = "idle" /\ AtRest.sh = None
      BY DEF AtRest, Mover
  <2>3. mover'[t] = IF mover[t].todo = {c} THEN AtRest ELSE m
      BY DEF Leave
  <2> HIDE DEF m
  <2> QED
      BY <2>1, <2>2, <2>3
<1>3. \A sh \in ShellIds :
         /\ shell'[sh] \in Shell /\ shell'[sh].todo = shell[sh].todo \ {c}
         /\ shell'[sh].pump = shell[sh].pump /\ shell'[sh].ring = shell[sh].ring
         /\ shell'[sh].at = shell[sh].at /\ shell'[sh].snap = shell[sh].snap
         /\ shell'[sh].running = shell[sh].running
  <2> SUFFICES ASSUME NEW sh \in ShellIds
               PROVE  LET r == [shell[sh] EXCEPT !.todo = @ \ {c}]
                      IN  /\ r \in Shell /\ r.todo = shell[sh].todo \ {c}
                          /\ r.pump = shell[sh].pump /\ r.ring = shell[sh].ring
                          /\ r.at = shell[sh].at /\ r.snap = shell[sh].snap
                          /\ r.running = shell[sh].running
      BY DEF Leave
  <2> QED
      BY <1>1 DEF Shell
<1>4. mover' \in [Movers -> Mover] /\ shell' \in [ShellIds -> Shell]
    BY <1>2, <1>3 DEF Leave
<1>5. PICK u \in Client : /\ client' = [client EXCEPT ![c] = u]
                          /\ u.pc \notin {"show", "watch", "relay"}
  <2> DEFINE u == [Unwatched EXCEPT !.pc = IF client[c].pc = "leave" THEN "end" ELSE "away"]
  <2>1. u \in Client /\ u.pc \in {"end", "away"}
      BY DEF Unwatched, Client
  <2>2. client' = [client EXCEPT ![c] = u]
      BY DEF Leave
  <2> HIDE DEF u
  <2> QED
      BY <2>1, <2>2
<1>6. /\ client' \in [Clients -> Client] /\ client'[c] = u
      /\ \A d \in Clients \ {c} : client'[d] = client[d]
      /\ client[c].pc # "relay"
    BY <1>1, <1>5 DEF Leave
<1>7. TypeOK'
    BY <1>1, <1>3, <1>4, <1>6 DEF TypeOK, MachineOf, pod
<1>8. InUse'
  <2>1. \A t \in Movers : mover[t].sh \in ShellIds \cup {None}
      BY <1>1 DEF Mover
  <2> QED
      BY <1>1, <1>2, <1>3, <2>1 DEF InUse, Opened, TypeOK
<1>9. FirstStands'
    BY <1>1, <1>2, <1>3 DEF FirstStands, Interactive
<1>10. CodeOnce'
  <2>1. Relaying' = Relaying
      BY <1>5, <1>6 DEF Relaying
  <2> QED
      BY <1>1, <2>1 DEF CodeOnce
<1>11. Covered'
  <2> SUFFICES ASSUME NEW d \in Clients, Watching(d)', cur # None,
                      NEW n \in 1..shell'[cur].ring
               PROVE  <<cur, n>> \in client'[d].seen \/ OnTheWay(d, <<cur, n>>)'
      BY <1>1 DEF Covered
  <2>1. d # c
      BY <1>1 DEF Watching
  <2>2. Watching(d) /\ client'[d] = client[d] /\ n \in 1..shell[cur].ring
      BY <1>1, <1>3, <1>6, <2>1 DEF Watching
  <2>3. <<cur, n>> \in client[d].seen \/ OnTheWay(d, <<cur, n>>)
      BY <2>2 DEF Covered
  <2>4. OnTheWay(d, <<cur, n>>) => OnTheWay(d, <<cur, n>>)'
    <3>1. \A t \in Movers : d \in mover[t].todo =>
              d \in mover'[t].todo /\ mover'[t].snap = mover[t].snap
        BY <1>2, <2>1
    <3>2. \A sh \in ShellIds : d \in shell[sh].todo => d \in shell'[sh].todo
        BY <1>3, <2>1
    <3> QED
        BY <1>1, <1>3, <2>2, <3>1, <3>2 DEF OnTheWay
  <2> QED
      BY <2>2, <2>3, <2>4
<1> QED
    BY <1>7, <1>8, <1>9, <1>10, <1>11

\* A closed session names no shell any more; what it had opened stays where it is.
LEMMA CloseKeeps ==
    ASSUME Inv, CloseAll, UNCHANGED mover,
           client' \in [Clients -> Client], Relaying' = Relaying,
           listed' \in BOOLEAN, backend' \in Machines \cup {None}, faults' \in 0..MaxFaults
    PROVE  Inv'
<1> USE DEF Inv
<1>1. /\ shell \in [ShellIds -> Shell] /\ 1 \in ShellIds /\ mover \in [Movers -> Mover]
      /\ shells' = [b \in Machines |-> None] /\ cur' = None /\ primary' = None
      /\ UNCHANGED <<clients, done, ended>>
    BY SessionAssumption DEF TypeOK, CloseAll, SessionAssumption, ShellIds
<1>2. \A sh \in ShellIds :
         /\ shell'[sh] \in Shell /\ shell'[sh].at = shell[sh].at
         /\ shell'[sh].pump = shell[sh].pump /\ shell'[sh].ring = shell[sh].ring
         /\ ~shell[sh].running => ~shell'[sh].running
  <2> SUFFICES ASSUME NEW sh \in ShellIds
               PROVE  /\ shell'[sh] \in Shell /\ shell'[sh].at = shell[sh].at
                      /\ shell'[sh].pump = shell[sh].pump
                      /\ shell'[sh].ring = shell[sh].ring
                      /\ ~shell[sh].running => ~shell'[sh].running
      OBVIOUS
  <2> DEFINE r == [shell[sh] EXCEPT !.running = FALSE]
  <2>1. /\ r \in Shell /\ r.at = shell[sh].at /\ r.pump = shell[sh].pump
        /\ r.ring = shell[sh].ring /\ ~r.running
      BY <1>1 DEF Shell
  <2>2. shell'[sh] \in {r, shell[sh]}
      BY DEF CloseAll
  <2> HIDE DEF r
  <2> QED
      BY <1>1, <2>1, <2>2
<1>3. shell' \in [ShellIds -> Shell]
    BY <1>2 DEF CloseAll
<1>4. TypeOK'
    BY <1>1, <1>3 DEF TypeOK
<1>5. InUse'
  <2>1. \A t \in Movers : mover[t].sh \in ShellIds \cup {None}
      BY <1>1 DEF Mover
  <2> QED
      BY <1>1, <1>2, <2>1 DEF InUse, Opened
<1>6. FirstStands'
    BY <1>1, <1>2 DEF FirstStands, Interactive
<1>7. CodeOnce'
    BY <1>1 DEF CodeOnce
<1>8. Covered'
    BY <1>1 DEF Covered
<1> QED
    BY <1>4, <1>5, <1>6, <1>7, <1>8

\* The last client closes the session, or the pod's end does.
LEMMA InvClose ==
    ASSUME Inv, PodDown \/ \E c \in Clients : Close(c) PROVE Inv'
<1>1. CASE PodDown
  <2>1. CloseAll /\ UNCHANGED mover /\ client' = client /\ Relaying' = Relaying
        /\ UNCHANGED <<listed, backend>> /\ faults' \in 0..MaxFaults
      BY <1>1, SessionAssumption
         DEF PodDown, Fault, pod, Relaying, Inv, TypeOK, SessionAssumption
  <2> QED
      BY <2>1, CloseKeeps DEF Inv, TypeOK
<1>2. ASSUME NEW c \in Clients, Close(c) PROVE Inv'
  <2>1. /\ client' \in [Clients -> Client] /\ client'[c].pc = "out"
        /\ \A d \in Clients \ {c} : client'[d] = client[d]
      BY <1>2, Labelled DEF Close, Inv, TypeOK
  <2>2. Relaying' = Relaying
      BY <1>2, <2>1 DEF Close, Relaying
  <2> QED
      BY <1>2, <2>1, <2>2, CloseKeeps DEF Close, Inv, TypeOK, pod
<1> QED
    BY <1>1, <1>2

\* A terminal that vanishes is owed nothing.
LEMMA InvGone == ASSUME Inv, NEW c \in Clients, Gone(c) PROVE Inv'
<1> USE DEF Inv
<1> DEFINE u == [client[c] EXCEPT !.gone = TRUE]
<1>1. client \in [Clients -> Client]
    BY DEF TypeOK
<1>2. u \in Client /\ u.gone /\ u.pc = client[c].pc
    BY <1>1 DEF Client
<1>3. client' = [client EXCEPT ![c] = u]
    BY DEF Gone
<1> HIDE DEF u
<1>4. /\ client' \in [Clients -> Client] /\ client'[c] = u
      /\ \A d \in Clients \ {c} : client'[d] = client[d]
      /\ UNCHANGED <<sess, pod, shell, mover>> /\ faults' \in 0..MaxFaults
  <2>1. UNCHANGED <<sess, pod, shell, mover>>
      BY DEF Gone
  <2>2. faults' \in 0..MaxFaults
      BY SessionAssumption DEF Gone, Fault, TypeOK, SessionAssumption
  <2> QED
      BY <1>1, <1>2, <1>3, <2>1, <2>2
<1>5. TypeOK'
    BY <1>4 DEF TypeOK, MachineOf, sess, pod
<1>6. InUse'
    BY <1>4 DEF InUse, Opened, sess
<1>7. FirstStands'
    BY <1>4 DEF FirstStands, Interactive, sess
<1>8. CodeOnce'
  <2>1. Relaying' = Relaying
      BY <1>2, <1>4 DEF Relaying
  <2> QED
      BY <1>4, <2>1 DEF CodeOnce, sess
<1>9. Covered'
  <2>1. ~Watching(c)'
      BY <1>2, <1>4 DEF Watching
  <2> QED
      BY <1>4, <2>1, CoveredKept DEF sess
<1> QED
    BY <1>5, <1>6, <1>7, <1>8, <1>9

-----------------------------------------------------------------------------
\* Every step of a session keeps the invariant.
LEMMA InvNext == Inv /\ [Next]_vars => Inv'
<1> SUFFICES ASSUME Inv, [Next]_vars PROVE Inv'
    OBVIOUS
<1>1. ASSUME NEW t \in Movers, Moves(t) \/ \E b \in Machines : Move(t, b) PROVE Inv'
    BY <1>1, InvMove, InvSwitch, InvOpen, InvOpenFails, InvShow, InvDraw DEF Moves
<1>2. ASSUME NEW sh \in ShellIds, Pump(sh) PROVE Inv'
    BY <1>2, InvRead, InvForward, InvEndPrimary, InvEnded, InvRelease, InvEndOther,
       InvFallBack, InvNoted, InvNote DEF Pump
<1>3. ASSUME NEW sh \in ShellIds, Write(sh) \/ Exit(sh) PROVE Inv'
    BY <1>3, InvWriteExit
<1>4. ASSUME NEW c \in Clients, Watch(c) PROVE Inv'
    BY <1>4, InvAttach, InvRedraw, InvTakeEnd, InvRelay, InvGoOn, InvLeave, InvClose
       DEF Watch
<1>5. ASSUME NEW c \in Clients, Find(c) \/ Detach(c) \/ Gone(c) PROVE Inv'
    BY <1>5, InvGoOn, InvGone
<1>6. CASE PodDown
    BY <1>6, InvClose
<1>7. CASE UNCHANGED vars
  <2>1. UNCHANGED <<shells, cur, primary, clients, done, ended, backend, listed,
                    shell, mover, faults, client>>
      BY <1>7 DEF vars, sess, pod
  <2> QED
      BY <2>1 DEF Inv, TypeOK, MachineOf, InUse, Opened, FirstStands, Interactive,
                  CodeOnce, Relaying, Covered, Watching, OnTheWay
<1> QED
    BY <1>1, <1>2, <1>3, <1>4, <1>5, <1>6, <1>7 DEF Next

\* The invariant holds of every session.
THEOREM InvAlways == Spec => []Inv
BY InvInit, InvNext, PTL DEF Spec

\* Every state of a session is one its types name, and a machine's shell is a
\* shell on that machine (session.go, the fields of session and terminal).
THEOREM TypeCorrect == Spec => []TypeOK
<1>1. Inv => TypeOK
    BY DEF Inv
<1> QED
    BY <1>1, InvAlways, PTL

\* However many machines are visited, and however moves, ends and closes fall
\* together, a session ends with its first shell and with no other (session.go:318).
THEOREM SessionEndsWithPrimary == Spec => []EndsWithPrimary
<1>1. Inv => EndsWithPrimary
    BY SessionAssumption
       DEF Inv, InUse, FirstStands, EndsWithPrimary, Interactive, MachineOf
<1> QED
    BY <1>1, InvAlways, PTL

\* However many clients wait for the end of a session, its one code is in the
\* channel or with the one that puts it back (session.go:414).
THEOREM SessionCodeIsLeft == Spec => []CodeIsLeft
<1>1. Inv => CodeIsLeft
    BY DEF Inv, CodeOnce, CodeIsLeft, Relaying
<1> QED
    BY <1>1, InvAlways, PTL

\* However many clients, moves and shells overlap, a framed client that watches
\* and has nothing more coming has all the shown shell has written (session.go:278).
THEOREM SessionNothingMissed == Spec => []NothingMissed
<1>1. Inv => NothingMissed
  <2> SUFFICES ASSUME Inv, NEW c \in clients \cap Framed, client[c].pc = "watch",
                      ~client[c].gone, ~client[c].stop, ~ToDraw(c), cur # None,
                      shell[cur].pump # "forward", NEW x \in Snapshot(cur)
               PROVE  x \in client[c].seen
      BY DEF NothingMissed
  <2>1. c \in Clients /\ Watching(c) /\ cur \in ShellIds /\ shell \in [ShellIds -> Shell]
      BY DEF Inv, TypeOK, Watching
  <2>2. PICK n \in 1..shell[cur].ring : x = <<cur, n>>
      BY <2>1, SnapshotIs, SessionAssumption
  <2>3. x \in client[c].seen \/ OnTheWay(c, x)
      BY <2>1, <2>2 DEF Inv, Covered
  <2>4. ~OnTheWay(c, x)
    <3>1. \A t \in Movers : c \notin mover[t].todo
        BY DEF ToDraw
    <3>2. \A sh \in ShellIds : shell[sh].pump \in {"fall", "note"} => c \notin shell[sh].todo
      <4> SUFFICES ASSUME NEW sh \in ShellIds, shell[sh].pump \in {"fall", "note"},
                          c \in shell[sh].todo
                   PROVE  ToDraw(c)
          OBVIOUS
      <4> QED
          BY DEF ToDraw
    <3> QED
        BY <3>1, <3>2 DEF OnTheWay
  <2> QED
      BY <2>3, <2>4
<1> QED
    BY <1>1, InvAlways, PTL
=============================================================================
