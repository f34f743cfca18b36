----------------------------- MODULE Screen_proofs -----------------------------
(***************************************************************************)
(* What is shown of a pod and in it, for any number of commands and mounts *)
(* and any output.                                                         *)
(*                                                                         *)
(* The bytes (Scrollback): the ring keeps the tail of what was written,    *)
(* and the parser gives back what a terminal would make of the bytes, one  *)
(* at a time, wherever the reads cut them. Ring, parser and terminal are   *)
(* recursive functions of sequences; that there are such functions, and    *)
(* what they do, follows by induction on lengths (NatInduct, Recursion).   *)
(*                                                                         *)
(* The cockpit's log (Cockpit): each command has one line once everything  *)
(* was followed. The news of a command are in the stream, in the order     *)
(* they came, or in its line (Followed).                                   *)
(*                                                                         *)
(* `vp tree` (ExecTree): a command that no tracked one started is shown    *)
(* with those it started. Placing a record never takes one away            *)
(* (PlaceKeeps).                                                           *)
(*                                                                         *)
(* The files (MountTable): while mounts come and go, the list, the binds,  *)
(* the FUSE mounts, the routes and the nodes come to agree (MountInv).     *)
(***************************************************************************)
EXTENDS Scrollback, SequenceTheorems, FiniteSetTheorems, WellFoundedInduction, TLAPS

CONSTANTS
    Sessions, Cmds, What, MaxLoads, MaxMoves,       \* Cockpit
    Pids,                                           \* ExecTree
    Config, Mounts, Unmounts, Machines,             \* MountTable
    MountSessions, Places, FaultKinds, Pod,
    None

VARIABLES
    live, over, runs, events, ui, loads, attached,  \* Cockpit
    activity, moves,
    order, ppid, ended,                             \* ExecTree
    list, kernel, fuse, tbl, told, req, cwd, on     \* MountTable

CK == INSTANCE Cockpit
ET == INSTANCE ExecTree
MO == INSTANCE MountTable WITH Sessions <- MountSessions

-------------------------------------------------------------------------------
(* Induction, and the functions it gives.                                    *)

\* The order of the naturals, as a relation.
Less == {ss \in Nat \X Nat : ss[1] < ss[2]}

\* It has no infinite descent.
LEMMA LessIsWellFounded == IsWellFoundedOn(Less, Nat)
    BY NatLessThanWellFounded DEF OpToRel, Less

\* A set of naturals that is not empty has a least member.
LEMMA NatMin ==
    ASSUME NEW T, T \subseteq Nat, T # {}
    PROVE  \E x \in T : \A y \in T : x <= y
<1>1. PICK x \in T : \A y \in T : ~(<<y, x>> \in Less)
    BY LessIsWellFounded, WFMin
<1>2. \A y \in T : x <= y
  <2> TAKE y \in T
  <2>1. x \in Nat /\ y \in Nat
      OBVIOUS
  <2>2. ~(<<y, x>> \in Less)
      BY <1>1
  <2>3. ~(y < x)
      BY <2>1, <2>2 DEF Less
  <2> QED
      BY <2>1, <2>3
<1> QED
    BY <1>1, <1>2

\* Induction, of a set of naturals.
LEMMA NatInduct ==
    ASSUME NEW S, 0 \in S, \A n \in Nat : n \in S => n + 1 \in S
    PROVE  Nat \subseteq S
<1> SUFFICES ASSUME Nat \ S # {} PROVE FALSE
    OBVIOUS
<1>1. PICK x \in Nat \ S : \A y \in Nat \ S : x <= y
    BY NatMin
<1>2. x # 0 /\ x - 1 \in Nat
    OBVIOUS
<1>3. x - 1 \in S
    BY <1>1, <1>2
<1> QED
    BY <1>2, <1>3

\* What a recursion on S needs to end: each argument that is not a base case leads to one
\* of smaller measure, and each step stays in A.
Descends(S, A, m, Stop, base, next, step) ==
    /\ m \in [S -> Nat]
    /\ \A d \in S : d \in Stop => base[d] \in A
    /\ \A d \in S : d \notin Stop => next[d] \in S /\ m[next[d]] < m[d]
    /\ \A d \in S : d \notin Stop => \A a \in A : step[d][a] \in A

\* There is a function that does what the recursion says.
Solvable(S, A, Stop, base, next, step) ==
    \E f \in [S -> A] : \A d \in S :
        f[d] = IF d \in Stop THEN base[d] ELSE step[d][f[next[d]]]

\* A recursion that ends defines a function.
LEMMA Recursion ==
    ASSUME NEW S, NEW A, NEW m, NEW Stop, NEW base, NEW next, NEW step,
           Descends(S, A, m, Stop, base, next, step)
    PROVE  Solvable(S, A, Stop, base, next, step)
<1> USE DEF Descends
<1> DEFINE D(n) == {d \in S : m[d] < n}
           Eq(f, d) == f[d] = IF d \in Stop THEN base[d] ELSE step[d][f[next[d]]]
           Good(n) == {f \in [D(n) -> A] : \A d \in D(n) : Eq(f, d)}
<1>1. \A d \in S : m[d] \in Nat
    OBVIOUS
<1>2. \A n \in Nat : Good(n) # {}
  <2> DEFINE T == {n \in Nat : Good(n) # {}}
  <2>1. 0 \in T
    <3>1. D(0) = {}
        BY <1>1
    <3>2. [d \in D(0) |-> base[d]] \in Good(0)
        BY <3>1
    <3> QED
        BY <3>2
  <2>2. ASSUME NEW n \in Nat, n \in T
        PROVE  n + 1 \in T
    <3>1. PICK f \in [D(n) -> A] : \A d \in D(n) : Eq(f, d)
        BY <2>2
    <3> DEFINE g == [d \in D(n + 1) |-> IF d \in Stop THEN base[d] ELSE step[d][f[next[d]]]]
    <3>2. \A d \in D(n + 1) : d \notin Stop => next[d] \in D(n)
      <4> TAKE d \in D(n + 1)
      <4> HAVE d \notin Stop
      <4>1. next[d] \in S /\ m[next[d]] < m[d] /\ m[d] < n + 1 /\ m[d] \in Nat /\ m[next[d]] \in Nat
          BY <1>1
      <4> QED
          BY <4>1
    <3>3. \A d \in D(n) : d \in D(n + 1) /\ g[d] = f[d]
      <4> TAKE d \in D(n)
      <4>1. d \in D(n + 1)
          BY <1>1
      <4> QED
          BY <4>1, <3>1
    <3>4. g \in [D(n + 1) -> A]
      <4> SUFFICES ASSUME NEW d \in D(n + 1)
                   PROVE  (IF d \in Stop THEN base[d] ELSE step[d][f[next[d]]]) \in A
          OBVIOUS
      <4>1. CASE d \in Stop
          BY <4>1
      <4>2. CASE d \notin Stop
        <5>1. f[next[d]] \in A
            BY <3>1, <3>2, <4>2
        <5> QED
            BY <5>1, <4>2
      <4> QED
          BY <4>1, <4>2
    <3>5. \A d \in D(n + 1) : Eq(g, d)
        BY <3>2, <3>3
    <3>6. g \in Good(n + 1)
        BY <3>4, <3>5
    <3>7. n + 1 \in Nat
        OBVIOUS
    <3> HIDE DEF Good
    <3> QED
        BY <3>6, <3>7
  <2> QED
    <3>1. Nat \subseteq T
        BY <2>1, <2>2, NatInduct
    <3> QED
        BY <3>1
<1>3. ASSUME NEW n \in Nat, NEW k \in Nat, NEW f \in Good(n), NEW g \in Good(k)
      PROVE  \A d \in D(n) \cap D(k) : f[d] = g[d]
  <2> DEFINE T == {j \in Nat : \A d \in D(j) : d \in D(n) /\ d \in D(k) => f[d] = g[d]}
  <2>1. 0 \in T
      BY <1>1
  <2>2. ASSUME NEW j \in Nat, j \in T
        PROVE  j + 1 \in T
    <3> SUFFICES ASSUME NEW d \in D(j + 1), d \in D(n), d \in D(k)
                 PROVE  f[d] = g[d]
        OBVIOUS
    <3>1. Eq(f, d) /\ Eq(g, d)
        OBVIOUS
    <3>2. CASE d \in Stop
        BY <3>1, <3>2
    <3>3. CASE d \notin Stop
      <4>1. next[d] \in S /\ m[next[d]] < m[d] /\ m[d] \in Nat /\ m[next[d]] \in Nat
            /\ m[d] < j + 1 /\ m[d] < n /\ m[d] < k
          BY <1>1, <3>3
      <4>2. next[d] \in D(j) /\ next[d] \in D(n) /\ next[d] \in D(k)
          BY <4>1
      <4>3. f[next[d]] = g[next[d]]
          BY <4>2, <2>2
      <4> QED
          BY <4>3, <3>1, <3>3
    <3> QED
        BY <3>2, <3>3
  <2>3. Nat \subseteq T
      BY <2>1, <2>2, NatInduct
  <2> TAKE d \in D(n) \cap D(k)
  <2>4. n \in T /\ d \in D(n) /\ d \in D(k)
      BY <2>3
  <2> QED
      BY <2>4
<1> DEFINE h == [n \in Nat |-> CHOOSE f : f \in Good(n)]
<1>4. \A n \in Nat : h[n] \in Good(n)
    BY <1>2
<1> HIDE DEF h
<1> DEFINE F == [d \in S |-> h[m[d] + 1][d]]
<1>5. \A d \in S : d \in D(m[d] + 1) /\ m[d] + 1 \in Nat /\ Eq(h[m[d] + 1], d) /\ h[m[d] + 1][d] \in A
  <2> TAKE d \in S
  <2>1. m[d] + 1 \in Nat /\ d \in D(m[d] + 1)
      BY <1>1
  <2>2. h[m[d] + 1] \in Good(m[d] + 1)
      BY <2>1, <1>4
  <2> QED
      BY <2>1, <2>2
<1>6. F \in [S -> A]
    BY <1>5
<1>7. \A d \in S : Eq(F, d)
  <2> SUFFICES ASSUME NEW d \in S PROVE Eq(F, d)
      OBVIOUS
  <2>1. F[d] = h[m[d] + 1][d] /\ Eq(h[m[d] + 1], d)
      BY <1>5
  <2>2. CASE d \in Stop
      BY <2>1, <2>2
  <2>3. CASE d \notin Stop
    <3>1. next[d] \in S /\ m[next[d]] < m[d] /\ m[d] \in Nat /\ m[next[d]] \in Nat
        BY <1>1, <2>3
    <3>2. next[d] \in D(m[d] + 1) /\ next[d] \in D(m[next[d]] + 1)
          /\ m[d] + 1 \in Nat /\ m[next[d]] + 1 \in Nat
        BY <3>1
    <3>3. h[m[d] + 1] \in Good(m[d] + 1) /\ h[m[next[d]] + 1] \in Good(m[next[d]] + 1)
        BY <3>2, <1>4
    <3>4. h[m[d] + 1][next[d]] = h[m[next[d]] + 1][next[d]]
      <4> HIDE DEF D, Good
      <4>1. next[d] \in D(m[d] + 1) \cap D(m[next[d]] + 1)
          BY <3>2
      <4>2. \A n, k \in Nat : \A f \in Good(n), g \in Good(k) :
                \A e \in D(n) \cap D(k) : f[e] = g[e]
          BY <1>3
      <4> QED
          BY <4>1, <4>2, <3>2, <3>3
    <3>5. F[next[d]] = h[m[d] + 1][next[d]]
        BY <3>1, <3>4
    <3> QED
        BY <2>1, <2>3, <3>5
  <2> QED
      BY <2>2, <2>3
<1> QED
    BY <1>6, <1>7 DEF Solvable

\* The same of a recursion that counts to n.
Steps(A, n, a0, step) == a0 \in A /\ \A i \in 1 .. n : \A a \in A : step[i][a] \in A

Iterated(A, n, a0, step) ==
    \E f \in [0 .. n -> A] :
        f = [i \in 0 .. n |-> IF i = 0 THEN a0 ELSE step[i][f[i - 1]]]

\* A recursion that counts to n defines a function.
LEMMA Iteration ==
    ASSUME NEW A, NEW n \in Nat, NEW a0, NEW step, Steps(A, n, a0, step)
    PROVE  Iterated(A, n, a0, step)
<1> USE DEF Steps
<1> DEFINE S == 0 .. n
           Stop == {0}
           m == [i \in 0 .. n |-> i]
           base == [i \in 0 .. n |-> a0]
           next == [i \in 0 .. n |-> i - 1]
<1>1. m \in [S -> Nat]
    OBVIOUS
<1>2. \A i \in S : i \in Stop => base[i] \in A
    OBVIOUS
<1>3. \A i \in S : i \notin Stop => next[i] \in S /\ m[next[i]] < m[i]
    OBVIOUS
<1>4. \A i \in S : i \notin Stop => \A a \in A : step[i][a] \in A
    OBVIOUS
<1>5. \A i \in S : base[i] = a0 /\ next[i] = i - 1
    OBVIOUS
<1> HIDE DEF S, Stop, m, base, next
<1>6. PICK f \in [S -> A] : \A i \in S :
          f[i] = IF i \in Stop THEN base[i] ELSE step[i][f[next[i]]]
  <2>1. Descends(S, A, m, Stop, base, next, step)
      BY <1>1, <1>2, <1>3, <1>4 DEF Descends
  <2>2. Solvable(S, A, Stop, base, next, step)
      BY <2>1, Recursion
  <2> QED
      BY <2>2 DEF Solvable
<1>7. \A i \in S : f[i] = IF i = 0 THEN a0 ELSE step[i][f[i - 1]]
    BY <1>5, <1>6 DEF Stop
<1> QED
    BY <1>7 DEF S, Iterated

-------------------------------------------------------------------------------
(* The bytes.                                                                *)

Sized == Size \in Nat \ {0} /\ MaxOSC \in Nat \ {0} /\ MaxChunk \in Nat

RingType == [buf : [1 .. Size -> Bytes], pos : 1 .. Size, full : BOOLEAN]

\* The byte at place i of the ring is the one the ring's shape says it is.
Place(r, w, i) ==
    IF ~r.full THEN i
    ELSE IF i < r.pos THEN Len(w) - r.pos + 1 + i
    ELSE Len(w) - Size - r.pos + 1 + i

\* The ring is where the last bytes written say it is, and has them.
Keeps(r, w) ==
    /\ r \in RingType
    /\ IF r.full THEN Len(w) >= Size ELSE r.pos = Len(w) + 1
    /\ \A i \in 1 .. Size : (r.full \/ i < r.pos) => r.buf[i] = w[Place(r, w, i)]

\* One more byte is put where it belongs.
LEMMA PutKeeps ==
    ASSUME Sized, NEW w \in Seq(Bytes), NEW b \in Bytes, NEW r, Keeps(r, w)
    PROVE  Keeps(Put(r, b), Append(w, b))
<1> DEFINE q == Put(r, b)
           v == Append(w, b)
<1>1. Len(w) \in Nat /\ Len(v) = Len(w) + 1 /\ v[Len(w) + 1] = b
      /\ \A i \in 1 .. Len(w) : v[i] = w[i]
    OBVIOUS
<1>2. r \in RingType /\ Size \in Nat /\ Size >= 1
    BY DEF Keeps, Sized
<1>3. /\ q.buf = [r.buf EXCEPT ![r.pos] = b]
      /\ q.pos = IF r.pos = Size THEN 1 ELSE r.pos + 1
      /\ q.full = (r.full \/ r.pos = Size)
      /\ q = [buf |-> q.buf, pos |-> q.pos, full |-> q.full]
    BY DEF Put
<1>4. r.buf \in [1 .. Size -> Bytes] /\ r.pos \in 1 .. Size /\ r.full \in BOOLEAN
    BY <1>2 DEF RingType
<1> HIDE DEF q, v
<1>5. q \in RingType
  <2>1. q.buf \in [1 .. Size -> Bytes] /\ q.pos \in 1 .. Size /\ q.full \in BOOLEAN
      BY <1>2, <1>3, <1>4
  <2> QED
      BY <2>1, <1>3 DEF RingType
<1>6. IF q.full THEN Len(v) >= Size ELSE q.pos = Len(v) + 1
  <2>1. CASE r.full
    <3>1. q.full = TRUE /\ Len(w) >= Size
        BY <2>1, <1>3 DEF Keeps
    <3> QED
        BY <3>1, <1>1, <1>2
  <2>2. CASE ~r.full /\ r.pos = Size
    <3>1. q.full = TRUE /\ Size = Len(w) + 1
        BY <2>2, <1>3 DEF Keeps
    <3> QED
        BY <3>1, <1>1, <1>2
  <2>3. CASE ~r.full /\ r.pos # Size
    <3>1. q.full = FALSE /\ r.pos = Len(w) + 1 /\ q.pos = r.pos + 1
        BY <2>3, <1>3 DEF Keeps
    <3> QED
        BY <3>1, <1>1, <1>2
  <2> QED
      BY <2>1, <2>2, <2>3
<1>7. ASSUME NEW i \in 1 .. Size, q.full \/ i < q.pos
      PROVE  q.buf[i] = v[Place(q, v, i)]
  <2>1. CASE i = r.pos
    <3>1. q.buf[i] = b
        BY <2>1, <1>3, <1>4
    <3>2. Place(q, v, i) = Len(w) + 1
        BY <2>1, <1>1, <1>2, <1>3, <1>4, <1>7 DEF Place, Keeps
    <3> QED
        BY <3>1, <3>2, <1>1
  <2>2. CASE i # r.pos
    <3>1. q.buf[i] = r.buf[i]
        BY <2>2, <1>3, <1>4
    <3>2. r.full \/ i < r.pos
        BY <2>2, <1>2, <1>3, <1>4, <1>7
    <3>3. r.buf[i] = w[Place(r, w, i)]
        BY <3>2 DEF Keeps
    <3>4. Place(q, v, i) = Place(r, w, i) /\ Place(r, w, i) \in 1 .. Len(w)
      <4>1. CASE r.full
        <5>1. q.full = TRUE /\ Len(w) >= Size
            BY <4>1, <1>3 DEF Keeps
        <5>2. Place(r, w, i) = IF i < r.pos THEN Len(w) - r.pos + 1 + i ELSE Len(w) - Size - r.pos + 1 + i
            BY <4>1 DEF Place
        <5>3. Place(q, v, i) = IF i < q.pos THEN Len(v) - q.pos + 1 + i ELSE Len(v) - Size - q.pos + 1 + i
            BY <5>1 DEF Place
        <5>4. CASE r.pos = Size
          <6>1. q.pos = 1
              BY <5>4, <1>3
          <6> QED
              BY <6>1, <5>1, <5>2, <5>3, <5>4, <2>2, <1>1, <1>2, <1>4
        <5>5. CASE r.pos # Size
          <6>1. q.pos = r.pos + 1
              BY <5>5, <1>3
          <6> QED
            <7>1. CASE i < r.pos
              <8>1. i < q.pos
                  BY <7>1, <6>1, <1>4
              <8> QED
                  BY <8>1, <7>1, <6>1, <5>1, <5>2, <5>3, <1>1, <1>2, <1>4
            <7>2. CASE ~(i < r.pos)
              <8>1. ~(i < q.pos) /\ i > r.pos
                  BY <7>2, <6>1, <2>2, <1>2, <1>4
              <8>2. Place(r, w, i) = Len(w) - Size - r.pos + 1 + i
                  BY <7>2, <5>2
              <8>3. Place(q, v, i) = (Len(w) + 1) - Size - (r.pos + 1) + 1 + i
                  BY <8>1, <6>1, <5>3, <1>1
              <8>4. r.pos \in Int /\ i \in Int /\ r.pos >= 1 /\ i <= Size /\ Len(w) >= Size /\ i > r.pos
                  BY <8>1, <5>1, <1>2, <1>4
              <8> HIDE DEF Place
              <8>5. Place(q, v, i) = Place(r, w, i)
                <9>1. Len(w) \in Int /\ Size \in Int
                    BY <1>1, <1>2
                <9>2. \A a, c, p, j \in Int : (a + 1) - c - (p + 1) + 1 + j = a - c - p + 1 + j
                    OBVIOUS
                <9> QED
                    BY <8>2, <8>3, <8>4, <9>1, <9>2
              <8>6. Place(r, w, i) \in 1 .. Len(w)
                  BY <8>2, <8>4, <1>1, <1>2
              <8> QED
                  BY <8>5, <8>6
            <7> QED
                BY <7>1, <7>2
        <5> QED
            BY <5>4, <5>5
      <4>2. CASE ~r.full /\ r.pos = Size
        <5>1. q.full = TRUE /\ Size = Len(w) + 1 /\ q.pos = 1
            BY <4>2, <1>3 DEF Keeps
        <5>2. Place(r, w, i) = i
            BY <4>2 DEF Place
        <5>3. Place(q, v, i) = IF i < q.pos THEN Len(v) - q.pos + 1 + i ELSE Len(v) - Size - q.pos + 1 + i
            BY <5>1 DEF Place
        <5> QED
            BY <5>1, <5>2, <5>3, <4>2, <3>2, <2>2, <1>1, <1>2, <1>4
      <4>3. CASE ~r.full /\ r.pos # Size
        <5>1. q.full = FALSE /\ r.pos = Len(w) + 1
            BY <4>3, <1>3 DEF Keeps
        <5>2. Place(r, w, i) = i /\ Place(q, v, i) = i
            BY <4>3, <5>1 DEF Place
        <5> QED
            BY <5>1, <5>2, <4>3, <3>2, <1>1, <1>2, <1>4
      <4> QED
          BY <4>1, <4>2, <4>3
    <3> QED
        BY <3>1, <3>3, <3>4, <1>1
  <2> QED
      BY <2>1, <2>2
<1>8. Keeps(q, v)
    BY <1>5, <1>6, <1>7 DEF Keeps
<1> QED
    BY <1>8 DEF q, v

\* One more of a sequence.
LEMMA PrefixGrows ==
    ASSUME NEW S, NEW v \in Seq(S), NEW k \in Nat, k < Len(v)
    PROVE  /\ SubSeq(v, 1, k) \in Seq(S) /\ Len(SubSeq(v, 1, k)) = k
           /\ SubSeq(v, 1, k + 1) = Append(SubSeq(v, 1, k), v[k + 1])
           /\ v[k + 1] \in S
    OBVIOUS

\* What PutAll computes.
LEMMA PutAllKeeps ==
    ASSUME Sized, NEW w \in Seq(Bytes), NEW p \in Seq(Bytes), NEW r, Keeps(r, w)
    PROVE  Keeps(PutAll(r, p), w \o p)
<1> DEFINE put[i \in 0 .. Len(p)] == IF i = 0 THEN r ELSE Put(put[i - 1], p[i])
           Eq(f, i) == f[i] = IF i = 0 THEN r ELSE Put(f[i - 1], p[i])
<1>0. Len(p) \in Nat /\ \A i \in 1 .. Len(p) : p[i] \in Bytes
    OBVIOUS
<1>1. \A i \in 0 .. Len(p) : Eq(put, i)
  <2> DEFINE step == [i \in 1 .. Len(p) |-> [a \in RingType |-> Put(a, p[i])]]
             Def(f) == f = [i \in 0 .. Len(p) |-> IF i = 0 THEN r ELSE Put(f[i - 1], p[i])]
  <2>1. \A a \in RingType, b \in Bytes : Put(a, b) \in RingType
      BY DEF RingType, Put, Sized
  <2>2. r \in RingType
      BY DEF Keeps
  <2>3. \A i \in 1 .. Len(p) : \A a \in RingType :
            step[i][a] = Put(a, p[i]) /\ step[i][a] \in RingType
      BY <1>0, <2>1
  <2> DEFINE n == Len(p)
  <2>n. n \in Nat /\ \A i \in 1 .. n : \A a \in RingType : step[i][a] \in RingType
      BY <1>0, <2>3
  <2> HIDE DEF step
  <2>4. PICK f \in [0 .. Len(p) -> RingType] :
            f = [i \in 0 .. Len(p) |-> IF i = 0 THEN r ELSE step[i][f[i - 1]]]
    <3> HIDE DEF n
    <3>1. \E f \in [0 .. n -> RingType] :
              f = [i \in 0 .. n |-> IF i = 0 THEN r ELSE step[i][f[i - 1]]]
      <4>1. Steps(RingType, n, r, step)
          BY <2>n, <2>2 DEF Steps
      <4>2. Iterated(RingType, n, r, step)
          BY <4>1, <2>n, Iteration
      <4> QED
          BY <4>2 DEF Iterated
    <3> QED
        BY <3>1 DEF n
  <2>5. \A i \in 0 .. Len(p) : f[i] = IF i = 0 THEN r ELSE Put(f[i - 1], p[i])
    <3> SUFFICES ASSUME NEW i \in 0 .. Len(p)
                 PROVE  f[i] = IF i = 0 THEN r ELSE Put(f[i - 1], p[i])
        OBVIOUS
    <3>1. CASE i = 0
        BY <3>1, <2>4
    <3>2. CASE i # 0
      <4>1. i \in 1 .. Len(p) /\ i - 1 \in 0 .. Len(p)
          BY <1>0, <3>2
      <4>2. f[i - 1] \in RingType
          BY <4>1
      <4>3. f[i] = step[i][f[i - 1]]
          BY <2>4, <3>2
      <4> QED
          BY <4>1, <4>2, <4>3, <2>3, <3>2
    <3> QED
        BY <3>1, <3>2
  <2>6. Def(f)
      BY <2>5
  <2>7. put = CHOOSE g : Def(g)
      OBVIOUS
  <2> HIDE DEF put
  <2>8. Def(put)
      BY <2>6, <2>7
  <2> QED
      BY <2>8
<1> HIDE DEF put
<1> DEFINE v == w \o p
           n == Len(w)
<1>2. v \in Seq(Bytes) /\ Len(v) = n + Len(p) /\ SubSeq(v, 1, n) = w /\ n \in Nat
      /\ \A i \in 1 .. Len(p) : v[n + i] = p[i]
    OBVIOUS
<1> HIDE DEF v
<1> DEFINE T == {i \in Nat : i <= Len(p) => Keeps(put[i], SubSeq(v, 1, n + i))}
<1>3. 0 \in T
  <2>1. put[0] = r /\ n + 0 = n
      BY <1>0, <1>1, <1>2
  <2> QED
      BY <2>1, <1>2
<1>4. ASSUME NEW i \in Nat, i \in T PROVE i + 1 \in T
  <2> SUFFICES ASSUME i + 1 <= Len(p)
               PROVE  Keeps(put[i + 1], SubSeq(v, 1, n + (i + 1)))
      OBVIOUS
  <2>1. put[i + 1] = Put(put[i], p[i + 1])
      BY <1>0, <1>1
  <2>2. Keeps(put[i], SubSeq(v, 1, n + i))
      BY <1>0, <1>4
  <2>3. /\ SubSeq(v, 1, n + i) \in Seq(Bytes)
        /\ SubSeq(v, 1, (n + i) + 1) = Append(SubSeq(v, 1, n + i), v[(n + i) + 1])
      BY <1>0, <1>2, PrefixGrows
  <2>4. v[(n + i) + 1] = p[i + 1] /\ p[i + 1] \in Bytes /\ n + (i + 1) = (n + i) + 1
      BY <1>0, <1>2
  <2> QED
      BY <2>1, <2>2, <2>3, <2>4, PutKeeps
<1>5. Nat \subseteq T
    BY <1>3, <1>4, NatInduct
<1>6. Keeps(put[Len(p)], SubSeq(v, 1, n + Len(p)))
    BY <1>0, <1>5
<1>7. SubSeq(v, 1, n + Len(p)) = v
    BY <1>2
<1>8. PutAll(r, p) = put[Len(p)]
    BY DEF PutAll, put
<1> QED
    BY <1>6, <1>7, <1>8 DEF v

\* Neither a short write nor one as long as the ring loses a byte.
LEMMA WriteKeeps ==
    ASSUME Sized, NEW w \in Seq(Bytes), NEW p \in Seq(Bytes), NEW r, Keeps(r, w)
    PROVE  Keeps(Write(r, p), w \o p)
<1>1. CASE Len(p) >= Size
  <2> DEFINE q == Write(r, p)
             v == w \o p
             k == Len(p) - Size + 1
  <2>1. q = [buf |-> SubSeq(p, k, Len(p)), pos |-> 1, full |-> TRUE]
      BY <1>1 DEF Write, From
  <2>2. Size \in Nat /\ Size >= 1 /\ Len(p) \in Nat /\ Len(w) \in Nat /\ Len(v) = Len(w) + Len(p)
      BY DEF Sized
  <2>3. k \in 1 .. Len(p) /\ Len(p) - k + 1 = Size
      BY <1>1, <2>2
  <2>4. SubSeq(p, k, Len(p)) \in [1 .. Size -> Bytes]
        /\ \A i \in 1 .. Size : SubSeq(p, k, Len(p))[i] = p[k + i - 1]
    <3> DEFINE t == SubSeq(p, k, Len(p))
    <3>1. \A i \in k .. Len(p) : p[i] \in Bytes
        BY <2>2, <2>3
    <3>2. k \in Int /\ Len(p) \in Int /\ k <= Len(p)
        BY <2>2, <2>3
    <3> HIDE DEF k
    <3>3. /\ t \in Seq(Bytes)
          /\ Len(t) = IF k <= Len(p) THEN Len(p) - k + 1 ELSE 0
          /\ \A i \in 1 .. Len(p) - k + 1 : t[i] = p[k + i - 1]
        BY <3>1, <3>2, SubSeqProperties
    <3> HIDE DEF t
    <3>4. t \in Seq(Bytes) /\ Len(t) = Size /\ \A i \in 1 .. Size : t[i] = p[k + i - 1]
        BY <3>2, <3>3, <2>3
    <3>5. t \in [1 .. Size -> Bytes]
        BY <3>4
    <3> QED
        BY <3>4, <3>5 DEF t
  <2>5. q \in RingType /\ q.pos = 1 /\ q.full = TRUE /\ q.buf = SubSeq(p, k, Len(p))
      BY <2>1, <2>2, <2>4 DEF RingType
  <2>6. ASSUME NEW i \in 1 .. Size
        PROVE  q.buf[i] = v[Place(q, v, i)]
    <3>1. Place(q, v, i) = Len(w) + (k + i - 1) /\ k + i - 1 \in 1 .. Len(p)
        BY <2>2, <2>3, <2>5 DEF Place
    <3>2. v[Len(w) + (k + i - 1)] = p[k + i - 1]
        BY <2>2, <3>1
    <3> QED
        BY <2>4, <2>5, <3>1, <3>2
  <2>7. Len(v) >= Size
      BY <1>1, <2>2
  <2> HIDE DEF q, v
  <2>8. Keeps(q, v)
      BY <2>5, <2>6, <2>7 DEF Keeps
  <2> QED
      BY <2>8 DEF q, v
<1>2. CASE ~(Len(p) >= Size)
    BY <1>2, PutAllKeeps DEF Write
<1> QED
    BY <1>1, <1>2

\* What is read off such a ring is the tail of what was written.
LEMMA SnapshotOfKept ==
    ASSUME Sized, NEW w \in Seq(Bytes), NEW r, Keeps(r, w)
    PROVE  Snapshot(r) = IF Len(w) <= Size THEN w ELSE From(w, Len(w) - Size + 1)
<1>1. /\ r \in RingType /\ r.buf \in [1 .. Size -> Bytes] /\ r.pos \in 1 .. Size
      /\ r.full \in BOOLEAN /\ Size \in Nat /\ Size >= 1 /\ Len(w) \in Nat
    BY DEF Keeps, Sized, RingType
<1>2. \A i \in 1 .. Size : (r.full \/ i < r.pos) => r.buf[i] = w[Place(r, w, i)]
    BY DEF Keeps
<1>3. r.buf \in Seq(Bytes) /\ Len(r.buf) = Size
    BY <1>1
<1> DEFINE b == r.buf
           p == r.pos
           n == Len(w)
           head == SubSeq(b, 1, p - 1)
<1>4. head \in Seq(Bytes) /\ Len(head) = p - 1 /\ \A i \in 1 .. p - 1 : head[i] = b[i]
    BY <1>1, <1>3
<1>5. CASE ~r.full
  <2>1. p = n + 1
      BY <1>5, <1>1 DEF Keeps
  <2>2. \A i \in 1 .. n : b[i] = w[i]
    <3> TAKE i \in 1 .. n
    <3>1. i \in 1 .. Size /\ i < p
        BY <1>1, <2>1
    <3>2. Place(r, w, i) = i
        BY <1>5 DEF Place
    <3> QED
        BY <1>2, <3>1, <3>2
  <2>3. head = w
      BY <1>1, <1>4, <2>1, <2>2, SeqEqual
  <2>4. n <= Size
      BY <1>1, <2>1
  <2> QED
      BY <1>5, <2>3, <2>4 DEF Snapshot
<1>6. CASE r.full
  <2>1. n >= Size
      BY <1>6 DEF Keeps
  <2> DEFINE tail == SubSeq(b, p, Size)
             all == tail \o head
             last == SubSeq(w, n - Size + 1, n)
  <2>2. tail \in Seq(Bytes) /\ Len(tail) = Size - p + 1
        /\ \A i \in 1 .. Size - p + 1 : tail[i] = b[p + i - 1]
      BY <1>1, <1>3
  <2>3. last \in Seq(Bytes) /\ Len(last) = Size
        /\ \A i \in 1 .. Size : last[i] = w[n - Size + i]
      BY <1>1, <2>1
  <2>p. p \in Int /\ 1 <= p /\ p <= Size
      BY <1>1
  <2> HIDE DEF head, tail, p
  <2>c. /\ all \in Seq(Bytes) /\ Len(all) = Len(tail) + Len(head)
        /\ \A i \in 1 .. Len(tail) + Len(head) :
               all[i] = IF i <= Len(tail) THEN tail[i] ELSE head[i - Len(tail)]
      BY <1>4, <2>2, ConcatProperties
  <2> HIDE DEF all
  <2>4. all \in Seq(Bytes) /\ Len(all) = Size
      BY <1>1, <1>4, <2>2, <2>p, <2>c
  <2>5. ASSUME NEW i \in 1 .. Size PROVE all[i] = last[i]
    <3>1. CASE i <= Size - p + 1
      <4>1. all[i] = tail[i] /\ i \in 1 .. Size - p + 1
          BY <3>1, <1>1, <1>4, <2>2, <2>p, <2>c
      <4>2. p + i - 1 \in 1 .. Size /\ ~(p + i - 1 < p)
          BY <3>1, <1>1, <2>p
      <4>3. Place(r, w, p + i - 1) = n - Size - p + 1 + (p + i - 1)
          BY <4>2, <1>6 DEF Place, p
      <4>4. n - Size - p + 1 + (p + i - 1) = n - Size + i
          BY <1>1, <2>p
      <4> QED
          BY <4>1, <4>2, <4>3, <4>4, <1>2, <1>6, <2>2, <2>3
    <3>2. CASE ~(i <= Size - p + 1)
      <4> DEFINE j == i - (Size - p + 1)
      <4>1. all[i] = head[j] /\ j \in 1 .. p - 1
          BY <3>2, <1>1, <1>4, <2>2, <2>p, <2>c
      <4>2. j \in 1 .. Size /\ j < p
          BY <4>1, <1>1, <2>p
      <4>3. Place(r, w, j) = n - p + 1 + j
          BY <4>2, <1>6 DEF Place, p
      <4>4. n - p + 1 + j = n - Size + i
          BY <1>1, <2>p
      <4> QED
          BY <4>1, <4>2, <4>3, <4>4, <1>2, <1>4, <1>6, <2>3
    <3> QED
        BY <3>1, <3>2
  <2>6. all = last
      BY <2>3, <2>4, <2>5, SeqEqual
  <2>7. Snapshot(r) = all
      BY <1>6, <1>3 DEF Snapshot, From, all, head, tail, p
  <2>8. Len(w) <= Size => last = w
    <3> HAVE Len(w) <= Size
    <3>1. n = Size
        BY <1>1, <2>1
    <3> QED
        BY <3>1, <1>1
  <2> QED
      BY <2>6, <2>7, <2>8 DEF From
<1> QED
    BY <1>1, <1>5, <1>6

\* What Feed gives back, and what it holds.
Piecewise == [out : Seq(Bytes \cup {"MARK"}), pend : Seq(Bytes)]

\* oscEnd finds the first end, or there is none.
LEMMA OscEndIsFirst ==
    ASSUME NEW d \in Seq(Bytes)
    PROVE  \/ OscEnd(d) = 0 /\ Ends(d) = {}
           \/ OscEnd(d) \in Ends(d) /\ \A j \in Ends(d) : OscEnd(d) <= j
<1>1. CASE Ends(d) = {}
    BY <1>1 DEF OscEnd
<1>2. CASE Ends(d) # {}
  <2>1. Ends(d) \subseteq Nat
      BY DEF Ends
  <2>2. PICK i \in Ends(d) : \A j \in Ends(d) : i <= j
      BY <1>2, <2>1, NatMin
  <2>3. OscEnd(d) = CHOOSE k \in Ends(d) : \A j \in Ends(d) : k <= j
      BY <1>2 DEF OscEnd
  <2> QED
      BY <2>2, <2>3
<1> QED
    BY <1>1, <1>2

\* A piece is a byte, an escape and the byte after it, or a sequence up to its end.
LEMMA PieceIs ==
    ASSUME NEW d \in Seq(Bytes), d # <<>>, ~(Head(d) = "esc" /\ Held(d))
    PROVE  \/ d[1] # "esc" /\ Piece(d) = 1
           \/ d[1] = "esc" /\ Len(d) > 1 /\ d[2] # "]" /\ Piece(d) = 2
           \/ d[1] = "esc" /\ Len(d) > 1 /\ d[2] = "]" /\ Piece(d) = OscEnd(d)
              /\ OscEnd(d) \in Ends(d) /\ \A j \in Ends(d) : OscEnd(d) <= j
           \/ d[1] = "esc" /\ Len(d) > 1 /\ d[2] = "]" /\ Piece(d) = 2 /\ Ends(d) = {}
              /\ ~(Len(d) <= MaxOSC)
<1>1. Len(d) \in Nat /\ Len(d) >= 1 /\ Head(d) = d[1]
    OBVIOUS
<1>2. CASE d[1] # "esc"
    BY <1>1, <1>2 DEF Piece
<1>3. CASE d[1] = "esc" /\ Len(d) = 1
  <2>1. d = <<"esc">>
      BY <1>3
  <2> QED
      BY <2>1, <1>1 DEF Held
<1>4. CASE d[1] = "esc" /\ Len(d) > 1 /\ d[2] # "]"
    BY <1>1, <1>4 DEF Piece
<1>5. CASE d[1] = "esc" /\ Len(d) > 1 /\ d[2] = "]" /\ OscEnd(d) # 0
    BY <1>1, <1>5, OscEndIsFirst DEF Piece
<1>6. CASE d[1] = "esc" /\ Len(d) > 1 /\ d[2] = "]" /\ OscEnd(d) = 0
  <2>1. Ends(d) = {}
      BY <1>6, OscEndIsFirst DEF Ends
  <2>2. ~(Len(d) <= MaxOSC)
      BY <1>1, <1>6 DEF Held
  <2>3. Piece(d) = 2
      BY <1>1, <1>6 DEF Piece
  <2> QED
      BY <1>6, <2>1, <2>2, <2>3
<1>7. d[1] # "esc" \/ (d[1] = "esc" /\ Len(d) = 1) \/ (d[1] = "esc" /\ Len(d) > 1)
  <2>1. \A k \in Nat : k >= 1 => (k = 1 \/ k > 1)
      OBVIOUS
  <2> QED
      BY <1>1, <2>1
<1> HIDE DEF Piece, OscEnd
<1> QED
    BY <1>2, <1>3, <1>4, <1>5, <1>6, <1>7, Zenon

\* A piece has at least one byte, and no more than there are.
LEMMA PieceFits ==
    ASSUME NEW d \in Seq(Bytes), d # <<>>, ~(Head(d) = "esc" /\ Held(d))
    PROVE  Piece(d) \in 1 .. Len(d)
<1>1. Len(d) \in Nat /\ Len(d) >= 1
    OBVIOUS
<1>2. OscEnd(d) \in Ends(d) => OscEnd(d) \in 1 .. Len(d)
    BY <1>1 DEF Ends
<1> QED
    BY <1>1, <1>2, PieceIs

\* What is made of the piece at the head.
Made(d) == LET n == Piece(d)
               piece == SubSeq(d, 1, n)
           IN  IF n > 2 THEN ParseOSC(piece) ELSE piece

\* What it means that f does as Feed: the equation of its recursion.
Feeds(f) ==
    \A d \in Seq(Bytes) :
        f[d] = IF d = <<>> THEN [out |-> <<>>, pend |-> <<>>]
               ELSE IF Head(d) = "esc" /\ Held(d) THEN [out |-> <<>>, pend |-> d]
               ELSE [f[From(d, Piece(d) + 1)] EXCEPT !.out = Made(d) \o @]

\* What is made of a piece, and what is left after it.
LEMMA MadeType ==
    ASSUME NEW d \in Seq(Bytes), d # <<>>, ~(Head(d) = "esc" /\ Held(d))
    PROVE  Made(d) \in Seq(Bytes \cup {"MARK"}) /\ From(d, Piece(d) + 1) \in Seq(Bytes)
           /\ Len(From(d, Piece(d) + 1)) = Len(d) - Piece(d)
           /\ SubSeq(d, 1, Piece(d)) \in Seq(Bytes) /\ Len(SubSeq(d, 1, Piece(d))) = Piece(d)
<1> DEFINE n == Piece(d)
<1>1. n \in 1 .. Len(d) /\ Len(d) \in Nat
    BY PieceFits
<1> HIDE DEF n
<1>2. SubSeq(d, 1, n) \in Seq(Bytes) /\ Len(SubSeq(d, 1, n)) = n
      /\ SubSeq(d, n + 1, Len(d)) \in Seq(Bytes) /\ Len(SubSeq(d, n + 1, Len(d))) = Len(d) - n
    BY <1>1
<1>3. SubSeq(d, 1, n) \in Seq(Bytes \cup {"MARK"}) /\ <<"MARK">> \in Seq(Bytes \cup {"MARK"})
    BY <1>2, SeqMonotonic
<1>4. Made(d) \in Seq(Bytes \cup {"MARK"})
    BY <1>3 DEF Made, ParseOSC, n
<1> QED
    BY <1>2, <1>4 DEF From, n

\* Putting something before what was given back.
LEMMA PieceField ==
    ASSUME NEW a \in Piecewise, NEW x \in Seq(Bytes \cup {"MARK"})
    PROVE  [a EXCEPT !.out = x] \in Piecewise
    BY DEF Piecewise

\* Feed is defined by a recursion that ends: a piece is never empty.
LEMMA FeedIs == Feeds([d \in Seq(Bytes) |-> Feed(d)])
<1> DEFINE scan[d \in Seq(Bytes)] ==
               IF d = <<>> THEN [out |-> <<>>, pend |-> <<>>]
               ELSE IF Head(d) = "esc" /\ Held(d) THEN [out |-> <<>>, pend |-> d]
               ELSE LET n == Piece(d)
                        rest == scan[From(d, n + 1)]
                        piece == SubSeq(d, 1, n)
                    IN  [rest EXCEPT !.out = (IF n > 2 THEN ParseOSC(piece) ELSE piece) \o @]
           Def(f) == f = [d \in Seq(Bytes) |->
               IF d = <<>> THEN [out |-> <<>>, pend |-> <<>>]
               ELSE IF Head(d) = "esc" /\ Held(d) THEN [out |-> <<>>, pend |-> d]
               ELSE LET n == Piece(d)
                        rest == f[From(d, n + 1)]
                        piece == SubSeq(d, 1, n)
                    IN  [rest EXCEPT !.out = (IF n > 2 THEN ParseOSC(piece) ELSE piece) \o @]]
           Stop == {d \in Seq(Bytes) : d = <<>> \/ (Head(d) = "esc" /\ Held(d))}
           base == [d \in Seq(Bytes) |-> IF d = <<>> THEN [out |-> <<>>, pend |-> <<>>]
                                         ELSE [out |-> <<>>, pend |-> d]]
           next == [d \in Seq(Bytes) |-> From(d, Piece(d) + 1)]
           step == [d \in Seq(Bytes) |->
                       [a \in Piecewise |-> [a EXCEPT !.out = Made(d) \o @]]]
           size == [d \in Seq(Bytes) |-> Len(d)]
<1>1. \A d \in Seq(Bytes) : Feed(d) = scan[d]
    BY DEF Feed
<1>2. scan = CHOOSE f : Def(f)
    OBVIOUS
<1> HIDE DEF scan
<1>3. \A d \in Seq(Bytes) : d \notin Stop =>
          /\ d # <<>> /\ ~(Head(d) = "esc" /\ Held(d))
          /\ Piece(d) \in 1 .. Len(d) /\ Len(d) \in Nat
          /\ Made(d) \in Seq(Bytes \cup {"MARK"})
          /\ From(d, Piece(d) + 1) \in Seq(Bytes)
          /\ Len(From(d, Piece(d) + 1)) = Len(d) - Piece(d)
    BY PieceFits, MadeType
<1>4. Descends(Seq(Bytes), Piecewise, size, Stop, base, next, step)
  <2>1. size \in [Seq(Bytes) -> Nat]
      OBVIOUS
  <2>2. \A d \in Seq(Bytes) : base[d] \in Piecewise
    <3>1. <<>> \in Seq(Bytes) /\ <<>> \in Seq(Bytes \cup {"MARK"})
        OBVIOUS
    <3> QED
        BY <3>1 DEF Piecewise
  <2>3. \A d \in Seq(Bytes) : d \notin Stop => next[d] \in Seq(Bytes) /\ size[next[d]] < size[d]
    <3> TAKE d \in Seq(Bytes)
    <3> HAVE d \notin Stop
    <3>1. next[d] = From(d, Piece(d) + 1) /\ size[d] = Len(d)
        OBVIOUS
    <3>2. next[d] \in Seq(Bytes) /\ Len(next[d]) = Len(d) - Piece(d)
          /\ Piece(d) \in 1 .. Len(d) /\ Len(d) \in Nat
        BY <3>1, <1>3
    <3>3. size[next[d]] = Len(next[d])
        BY <3>2
    <3> QED
        BY <3>1, <3>2, <3>3
  <2>4. \A d \in Seq(Bytes) : d \notin Stop => \A a \in Piecewise : step[d][a] \in Piecewise
    <3> TAKE d \in Seq(Bytes)
    <3> HAVE d \notin Stop
    <3> TAKE a \in Piecewise
    <3>1. Made(d) \o a.out \in Seq(Bytes \cup {"MARK"})
        BY <1>3 DEF Piecewise
    <3>2. step[d][a] = [a EXCEPT !.out = Made(d) \o @]
        OBVIOUS
    <3> HIDE DEF step
    <3>3. [a EXCEPT !.out = Made(d) \o @] \in Piecewise
        BY <3>1, PieceField
    <3> QED
        BY <3>2, <3>3
  <2> HIDE DEF Stop, base, next, step, size
  <2> QED
      BY <2>1, <2>2, <2>3, <2>4 DEF Descends
<1>5. Solvable(Seq(Bytes), Piecewise, Stop, base, next, step)
  <2> HIDE DEF Stop, base, next, step, size
  <2> QED
      BY <1>4, Recursion
<1>6. PICK f \in [Seq(Bytes) -> Piecewise] :
          \A d \in Seq(Bytes) :
          f[d] = IF d \in Stop THEN base[d] ELSE step[d][f[next[d]]]
    BY <1>5 DEF Solvable
<1>7. Feeds(f)
  <2> SUFFICES ASSUME NEW d \in Seq(Bytes)
               PROVE  f[d] = IF d = <<>> THEN [out |-> <<>>, pend |-> <<>>]
                             ELSE IF Head(d) = "esc" /\ Held(d) THEN [out |-> <<>>, pend |-> d]
                             ELSE [f[From(d, Piece(d) + 1)] EXCEPT !.out = Made(d) \o @]
      BY DEF Feeds
  <2>1. CASE d \in Stop
    <3>1. f[d] = base[d]
        BY <1>6, <2>1
    <3> QED
        BY <3>1, <2>1
  <2>2. CASE d \notin Stop
    <3>1. f[d] = step[d][f[next[d]]] /\ next[d] = From(d, Piece(d) + 1)
        BY <1>6, <2>2
    <3>2. next[d] \in Seq(Bytes) /\ f[next[d]] \in Piecewise
        BY <3>1, <1>3, <2>2
    <3>3. step[d][f[next[d]]] = [f[next[d]] EXCEPT !.out = Made(d) \o @]
        BY <3>2
    <3> HIDE DEF next, step
    <3> QED
        BY <3>1, <3>3, <1>3, <2>2
  <2> QED
      BY <2>1, <2>2
<1>8. \A g : Def(g) <=> (g = [d \in Seq(Bytes) |-> g[d]] /\ Feeds(g))
    BY DEF Feeds, Made
<1>9. Def(f)
    BY <1>7, <1>8
<1>10. Def(scan)
    BY <1>2, <1>9
<1>11. Feeds(scan) /\ scan = [d \in Seq(Bytes) |-> scan[d]]
    BY <1>8, <1>10
<1>12. scan = [d \in Seq(Bytes) |-> Feed(d)]
    BY <1>1, <1>11
<1> QED
    BY <1>11, <1>12

\* Feed gives bytes and markers, and holds bytes.
LEMMA FeedType ==
    ASSUME NEW x \in Seq(Bytes)
    PROVE  Feed(x) \in Piecewise
<1> DEFINE f == [d \in Seq(Bytes) |-> Feed(d)]
           T == {n \in Nat : \A d \in Seq(Bytes) : Len(d) < n => f[d] \in Piecewise}
<1>1. Feeds(f)
    BY FeedIs
<1>2. \A d \in Seq(Bytes) : Len(d) \in Nat
    OBVIOUS
<1> HIDE DEF f
<1>3. 0 \in T
    BY <1>2
<1>4. ASSUME NEW n \in Nat, n \in T PROVE n + 1 \in T
  <2> SUFFICES ASSUME NEW d \in Seq(Bytes), Len(d) < n + 1
               PROVE  f[d] \in Piecewise
      OBVIOUS
  <2>1. CASE d = <<>> \/ (Head(d) = "esc" /\ Held(d))
    <3>1. <<>> \in Seq(Bytes) /\ <<>> \in Seq(Bytes \cup {"MARK"})
        OBVIOUS
    <3>2. f[d] = [out |-> <<>>, pend |-> <<>>] \/ f[d] = [out |-> <<>>, pend |-> d]
        BY <2>1, <1>1 DEF Feeds
    <3>3. [out |-> <<>>, pend |-> <<>>] \in Piecewise /\ [out |-> <<>>, pend |-> d] \in Piecewise
        BY <3>1 DEF Piecewise
    <3> QED
        BY <3>2, <3>3
  <2>2. CASE d # <<>> /\ ~(Head(d) = "esc" /\ Held(d))
    <3> DEFINE rest == From(d, Piece(d) + 1)
    <3>1. /\ Piece(d) \in 1 .. Len(d) /\ Len(d) \in Nat
          /\ Made(d) \in Seq(Bytes \cup {"MARK"})
          /\ rest \in Seq(Bytes) /\ Len(rest) = Len(d) - Piece(d)
        BY <2>2, PieceFits, MadeType
    <3> HIDE DEF rest
    <3>2. f[rest] \in Piecewise
        BY <1>4, <3>1
    <3>3. f[d] = [f[rest] EXCEPT !.out = Made(d) \o @]
        BY <1>1, <2>2 DEF Feeds, rest
    <3>4. Made(d) \o f[rest].out \in Seq(Bytes \cup {"MARK"})
        BY <3>1, <3>2 DEF Piecewise
    <3> QED
        BY <3>2, <3>3, <3>4 DEF Piecewise
  <2> QED
      BY <2>1, <2>2
<1>5. Nat \subseteq T
    BY <1>3, <1>4, NatInduct
<1>6. Len(x) + 1 \in T /\ Len(x) < Len(x) + 1
    BY <1>2, <1>5
<1> QED
    BY <1>6 DEF f

\* The states of a terminal.
Terminals == [held : Seq(Bytes), most : Nat, out : Seq(Bytes \cup {"MARK"})]

\* A terminal that is given a byte is a terminal.
LEMMA SeeType ==
    ASSUME NEW t \in Terminals, NEW b \in Bytes
    PROVE  See(t, b) \in Terminals
<1> DEFINE h == Append(t.held, b)
<1>1. /\ h \in Seq(Bytes) /\ Len(h) \in Nat /\ t.most \in Nat /\ t.out \in Seq(Bytes \cup {"MARK"})
      /\ <<>> \in Seq(Bytes) /\ h \in Seq(Bytes \cup {"MARK"})
      /\ <<"MARK">> \in Seq(Bytes \cup {"MARK"})
    BY SeqMonotonic DEF Terminals
<1> HIDE DEF h
<1>2. t.out \o h \in Seq(Bytes \cup {"MARK"}) /\ t.out \o <<"MARK">> \in Seq(Bytes \cup {"MARK"})
    BY <1>1
<1>3. Text(t, b) \in Terminals
    BY <1>1, <1>2 DEF Text, Terminals, h
<1>4. Wait(t, b) \in Terminals
    BY <1>1, <1>2 DEF Wait, Terminals, h
<1>5. Ended(t, b) \in Terminals
  <2>1. t.out \o Whole(h) \in Seq(Bytes \cup {"MARK"})
      BY <1>2 DEF Whole
  <2> QED
      BY <1>1, <2>1 DEF Ended, Terminals, h
<1> QED
    BY <1>3, <1>4, <1>5 DEF See

\* f[i] is the terminal after i bytes of w.
Runs(f, w) ==
    /\ f \in [0 .. Len(w) -> Terminals]
    /\ f[0] = Blank
    /\ \A i \in 1 .. Len(w) : f[i] = See(f[i - 1], w[i])

\* A terminal is what it becomes of its bytes, one after the other.
LEMMA TerminalRuns ==
    ASSUME NEW w \in Seq(Bytes)
    PROVE  \E f : Runs(f, w) /\ Terminal(w) = f[Len(w)]
<1> DEFINE n == Len(w)
           t[i \in 0 .. Len(w)] == IF i = 0 THEN Blank ELSE See(t[i - 1], w[i])
           step == [i \in 1 .. n |-> [a \in Terminals |-> See(a, w[i])]]
           Def(f) == f = [i \in 0 .. Len(w) |-> IF i = 0 THEN Blank ELSE See(f[i - 1], w[i])]
<1>1. n \in Nat /\ \A i \in 1 .. n : w[i] \in Bytes
    OBVIOUS
<1>2. Blank \in Terminals
  <2>1. <<>> \in Seq(Bytes) /\ <<>> \in Seq(Bytes \cup {"MARK"})
      OBVIOUS
  <2> QED
      BY <2>1 DEF Blank, Terminals
<1>3. \A i \in 1 .. n : \A a \in Terminals : step[i][a] = See(a, w[i]) /\ step[i][a] \in Terminals
    BY <1>1, SeeType
<1>4. t = CHOOSE f : Def(f)
    OBVIOUS
<1>5. Terminal(w) = t[Len(w)]
    BY DEF Terminal
<1> HIDE DEF t, step
<1>6. PICK f \in [0 .. n -> Terminals] :
          f = [i \in 0 .. n |-> IF i = 0 THEN Blank ELSE step[i][f[i - 1]]]
  <2> HIDE DEF n
  <2>1. Steps(Terminals, n, Blank, step)
      BY <1>2, <1>3 DEF Steps
  <2>2. Iterated(Terminals, n, Blank, step)
      BY <2>1, <1>1, Iteration
  <2> QED
      BY <2>2 DEF Iterated
<1>7. ASSUME NEW i \in 1 .. n
      PROVE  f[i] = See(f[i - 1], w[i])
  <2>1. i - 1 \in 0 .. n /\ i \in 0 .. n /\ i # 0
      BY <1>1
  <2>2. f[i] = step[i][f[i - 1]] /\ f[i - 1] \in Terminals
      BY <1>6, <2>1
  <2> QED
      BY <2>2, <1>3
<1>8. f[0] = Blank
    BY <1>1, <1>6
<1>9. Def(f)
  <2>1. \A i \in 0 .. n : f[i] = IF i = 0 THEN Blank ELSE See(f[i - 1], w[i])
    <3> TAKE i \in 0 .. n
    <3>1. i = 0 \/ i \in 1 .. n
        BY <1>1
    <3> QED
        BY <3>1, <1>7, <1>8
  <2> QED
      BY <2>1
<1>10. Def(t)
    BY <1>4, <1>9
<1>11. \A i \in 0 .. n : t[i] = IF i = 0 THEN Blank ELSE See(t[i - 1], w[i])
    BY <1>10
<1>12. DOMAIN t = 0 .. n
    BY <1>10
<1>13. \A i \in 0 .. n : t[i] = f[i]
  <2> DEFINE T == {i \in Nat : i <= n => t[i] = f[i]}
  <2>1. 0 \in T
      BY <1>1, <1>8, <1>11
  <2>2. ASSUME NEW i \in Nat, i \in T PROVE i + 1 \in T
    <3> SUFFICES ASSUME i + 1 <= n PROVE t[i + 1] = f[i + 1]
        OBVIOUS
    <3>1. i + 1 \in 1 .. n /\ i + 1 # 0 /\ (i + 1) - 1 = i /\ i <= n
        BY <1>1
    <3> QED
        BY <3>1, <2>2, <1>7, <1>11
  <2>3. Nat \subseteq T
      BY <2>1, <2>2, NatInduct
  <2> QED
      BY <2>3, <1>1
<1>14. Runs(f, w)
    BY <1>6, <1>7, <1>8 DEF Runs
<1>15. Terminal(w) = f[Len(w)]
    BY <1>1, <1>5, <1>13
<1> QED
    BY <1>14, <1>15

\* A terminal after one more byte.
LEMMA TerminalStep ==
    ASSUME NEW w \in Seq(Bytes), NEW b \in Bytes
    PROVE  Terminal(Append(w, b)) = See(Terminal(w), b) /\ Terminal(w) \in Terminals
<1> DEFINE v == Append(w, b)
           n == Len(w)
<1>1. n \in Nat /\ v \in Seq(Bytes) /\ Len(v) = n + 1 /\ v[n + 1] = b
      /\ \A i \in 1 .. n : v[i] = w[i]
    OBVIOUS
<1>2. PICK f : Runs(f, w) /\ Terminal(w) = f[n]
    BY TerminalRuns
<1> HIDE DEF v
<1>3. PICK g : Runs(g, v) /\ Terminal(v) = g[n + 1]
    BY <1>1, TerminalRuns
<1> DEFINE T == {i \in Nat : i <= n => f[i] = g[i]}
<1>4. 0 \in T
    BY <1>2, <1>3 DEF Runs
<1>5. ASSUME NEW i \in Nat, i \in T PROVE i + 1 \in T
  <2> SUFFICES ASSUME i + 1 <= n PROVE f[i + 1] = g[i + 1]
      OBVIOUS
  <2>1. i + 1 \in 1 .. n /\ i + 1 \in 1 .. n + 1 /\ (i + 1) - 1 = i /\ i <= n
      BY <1>1
  <2>2. f[i + 1] = See(f[i], w[i + 1]) /\ g[i + 1] = See(g[i], v[i + 1])
      BY <2>1, <1>1, <1>2, <1>3 DEF Runs
  <2> QED
      BY <2>1, <2>2, <1>1, <1>5
<1>6. Nat \subseteq T
    BY <1>4, <1>5, NatInduct
<1>7. f[n] = g[n]
    BY <1>1, <1>6
<1>8. g[n + 1] = See(g[n], b)
  <2>1. n + 1 \in 1 .. n + 1 /\ (n + 1) - 1 = n
      BY <1>1
  <2> QED
      BY <2>1, <1>1, <1>3 DEF Runs
<1>9. f[n] \in Terminals
    BY <1>1, <1>2 DEF Runs
<1> QED
    BY <1>2, <1>3, <1>7, <1>8, <1>9 DEF v

\* A terminal before any byte.
LEMMA TerminalBlank == Terminal(<<>>) = Blank
<1>1. <<>> \in Seq(Bytes) /\ Len(<<>>) = 0
    OBVIOUS
<1>2. PICK f : Runs(f, <<>>) /\ Terminal(<<>>) = f[Len(<<>>)]
    BY <1>1, TerminalRuns
<1> QED
    BY <1>1, <1>2 DEF Runs

\* The terminal after the bytes of w and k more, of d.
After(w, d, k) == Terminal(SubSeq(w \o d, 1, Len(w) + k))

\* It starts after w, ends after w and d, and takes a byte of d at a time.
LEMMA AfterSteps ==
    ASSUME NEW w \in Seq(Bytes), NEW d \in Seq(Bytes)
    PROVE  /\ After(w, d, 0) = Terminal(w) /\ After(w, d, Len(d)) = Terminal(w \o d)
           /\ \A k \in 0 .. Len(d) : After(w, d, k) \in Terminals
                                     /\ After(w, d, k) = Terminal(w \o SubSeq(d, 1, k))
           /\ \A k \in Nat : k < Len(d) => After(w, d, k + 1) = See(After(w, d, k), d[k + 1])
<1> DEFINE v == w \o d
           n == Len(w)
<1>1. /\ v \in Seq(Bytes) /\ Len(v) = n + Len(d) /\ SubSeq(v, 1, n) = w /\ n \in Nat
      /\ SubSeq(v, 1, n + Len(d)) = v /\ Len(d) \in Nat
      /\ \A k \in 1 .. Len(d) : v[n + k] = d[k] /\ d[k] \in Bytes
    OBVIOUS
<1>2. \A k \in 0 .. Len(d) : SubSeq(v, 1, n + k) = w \o SubSeq(d, 1, k)
  <2> TAKE k \in 0 .. Len(d)
  <2> DEFINE a == SubSeq(v, 1, n + k)
             e == SubSeq(d, 1, k)
             b == w \o e
  <2>1. e \in Seq(Bytes) /\ Len(e) = k /\ \A i \in 1 .. k : e[i] = d[i]
      BY <1>1
  <2>2. a \in Seq(Bytes) /\ Len(a) = n + k /\ \A i \in 1 .. n + k : a[i] = v[i]
      BY <1>1
  <2> HIDE DEF e
  <2>3. b \in Seq(Bytes) /\ Len(b) = n + k
        /\ \A i \in 1 .. n + k : b[i] = IF i <= n THEN w[i] ELSE e[i - n]
    <3>1. /\ b \in Seq(Bytes) /\ Len(b) = Len(w) + Len(e)
          /\ \A i \in 1 .. Len(w) + Len(e) :
                 b[i] = IF i <= Len(w) THEN w[i] ELSE e[i - Len(w)]
        BY <2>1, ConcatProperties
    <3> HIDE DEF b
    <3> QED
        BY <3>1, <2>1
  <2>4. \A i \in 1 .. n + k : a[i] = b[i]
    <3> TAKE i \in 1 .. n + k
    <3>1. v[i] = IF i <= n THEN w[i] ELSE d[i - n]
        BY <1>1
    <3>2. ~(i <= n) => i - n \in 1 .. k
        BY <1>1
    <3> HIDE DEF a, b, v
    <3> QED
        BY <3>1, <3>2, <2>1, <2>2, <2>3
  <2> HIDE DEF a, b
  <2>5. a = b
      BY <2>2, <2>3, <2>4, SeqEqual
  <2> QED
      BY <2>5 DEF a, b, e
<1> HIDE DEF v
<1>3. \A k \in 0 .. Len(d) : After(w, d, k) = Terminal(SubSeq(v, 1, n + k))
    BY DEF After, v
<1>4. \A k \in Nat : k < Len(d) =>
          After(w, d, k + 1) = See(After(w, d, k), d[k + 1]) /\ After(w, d, k) \in Terminals
  <2> TAKE k \in Nat
  <2> HAVE k < Len(d)
  <2>1. n + k \in Nat /\ n + k < Len(v) /\ k \in 0 .. Len(d) /\ k + 1 \in 0 .. Len(d)
        /\ n + (k + 1) = (n + k) + 1
      BY <1>1
  <2>2. SubSeq(v, 1, (n + k) + 1) = Append(SubSeq(v, 1, n + k), v[(n + k) + 1])
        /\ SubSeq(v, 1, n + k) \in Seq(Bytes)
      BY <1>1, <2>1, PrefixGrows
  <2>3. v[(n + k) + 1] = d[k + 1] /\ d[k + 1] \in Bytes
      BY <1>1, <2>1
  <2> DEFINE u == SubSeq(v, 1, n + k)
             b == d[k + 1]
  <2>4. Terminal(Append(u, b)) = See(Terminal(u), b) /\ Terminal(u) \in Terminals
    <3>1. u \in Seq(Bytes) /\ b \in Bytes
        BY <2>2, <2>3
    <3> HIDE DEF u, b
    <3> QED
        BY <3>1, TerminalStep
  <2>5. After(w, d, k) = Terminal(u) /\ After(w, d, k + 1) = Terminal(Append(u, b))
    <3>1. After(w, d, k + 1) = Terminal(SubSeq(v, 1, n + (k + 1)))
        BY <2>1, <1>3
    <3>2. SubSeq(v, 1, n + (k + 1)) = Append(u, b)
        BY <2>1, <2>2, <2>3
    <3> QED
        BY <3>1, <3>2, <2>1, <1>3
  <2> QED
      BY <2>4, <2>5
<1>5. After(w, d, Len(d)) \in Terminals
  <2>0. Len(d) \in 0 .. Len(d)
      BY <1>1
  <2>1. After(w, d, Len(d)) = Terminal(v) /\ v \in Seq(Bytes)
    <3>1. After(w, d, Len(d)) = Terminal(SubSeq(v, 1, n + Len(d)))
        BY <2>0, <1>3
    <3>2. SubSeq(v, 1, n + Len(d)) = v
        BY <1>1
    <3> QED
        BY <3>1, <3>2, <1>1
  <2>2. "t" \in Bytes
      BY DEF Bytes
  <2> QED
      BY <2>1, <2>2, TerminalStep
<1>6. \A k \in 0 .. Len(d) : After(w, d, k) \in Terminals
  <2> TAKE k \in 0 .. Len(d)
  <2>1. k = Len(d) \/ (k \in Nat /\ k < Len(d))
      BY <1>1
  <2> QED
      BY <2>1, <1>4, <1>5
<1>7. After(w, d, 0) = Terminal(w)
  <2>1. 0 \in 0 .. Len(d) /\ n + 0 = n
      BY <1>1
  <2>2. After(w, d, 0) = Terminal(SubSeq(v, 1, n + 0))
      BY <2>1, <1>3
  <2>3. SubSeq(v, 1, n) = w
      BY <1>1
  <2> QED
      BY <2>1, <2>2, <2>3
<1>8. After(w, d, Len(d)) = Terminal(w \o d)
  <2>1. Len(d) \in 0 .. Len(d)
      BY <1>1
  <2>2. After(w, d, Len(d)) = Terminal(SubSeq(v, 1, n + Len(d)))
      BY <2>1, <1>3
  <2>3. SubSeq(v, 1, n + Len(d)) = v
      BY <1>1
  <2> QED
      BY <2>2, <2>3 DEF v
<1> QED
    BY <1>2, <1>3, <1>4, <1>6, <1>7, <1>8

\* The longest that was held never gets shorter.
LEMMA MostGrows ==
    ASSUME NEW w \in Seq(Bytes), NEW d \in Seq(Bytes)
    PROVE  Terminal(w \o d).most \in Nat /\ Terminal(w).most \in Nat
           /\ Terminal(w).most <= Terminal(w \o d).most
<1> DEFINE n == Len(d)
           A(k) == After(w, d, k)
<1>1. n \in Nat /\ \A k \in 1 .. n : d[k] \in Bytes
    OBVIOUS
<1>2. /\ A(0) = Terminal(w) /\ A(n) = Terminal(w \o d)
      /\ \A k \in 0 .. n : A(k) \in Terminals
      /\ \A k \in Nat : k < n => A(k + 1) = See(A(k), d[k + 1])
    BY AfterSteps
<1>3. ASSUME NEW t \in Terminals, NEW b \in Bytes
      PROVE  t.most \in Nat /\ t.most <= See(t, b).most
  <2>1. t.most \in Nat /\ Append(t.held, b) \in Seq(Bytes)
      BY DEF Terminals
  <2>2. Text(t, b).most = t.most /\ Ended(t, b).most = t.most
      BY DEF Text, Ended
  <2>3. t.most <= Wait(t, b).most
      BY <2>1 DEF Wait
  <2> QED
      BY <2>1, <2>2, <2>3 DEF See
<1> HIDE DEF A
<1> DEFINE T == {k \in Nat : k <= n => A(0).most <= A(k).most}
<1>4. \A k \in 0 .. n : A(k).most \in Nat
    BY <1>2 DEF Terminals
<1>5. 0 \in T
    BY <1>1, <1>4
<1>6. ASSUME NEW k \in Nat, k \in T PROVE k + 1 \in T
  <2> SUFFICES ASSUME k + 1 <= n PROVE A(0).most <= A(k + 1).most
      OBVIOUS
  <2>1. k < n /\ k \in 0 .. n /\ k + 1 \in 0 .. n /\ k + 1 \in 1 .. n /\ 0 \in 0 .. n
      BY <1>1
  <2>2. A(k).most <= A(k + 1).most
      BY <2>1, <1>1, <1>2, <1>3
  <2>3. A(0).most <= A(k).most
      BY <2>1, <1>6
  <2>4. A(0).most \in Nat /\ A(k).most \in Nat /\ A(k + 1).most \in Nat
      BY <2>1, <1>4
  <2> QED
      BY <2>2, <2>3, <2>4
<1>7. Nat \subseteq T
    BY <1>5, <1>6, NatInduct
<1>8. A(0).most <= A(n).most
    BY <1>1, <1>7
<1> QED
    BY <1>1, <1>2, <1>4, <1>8

\* A sequence that goes on is held.
LEMMA HeldOn ==
    ASSUME NEW w \in Seq(Bytes), NEW d \in Seq(Bytes), Terminal(w).held = <<>>,
           d[1] = "esc", NEW m \in Nat, m >= 1, m <= Len(d), m = 1 \/ d[2] = "]",
           \A j \in Ends(d) : m < j
    PROVE  LET t == After(w, d, m) IN
           t.held = SubSeq(d, 1, m) /\ t.out = Terminal(w).out /\ m <= t.most
<1> DEFINE n == Len(d)
           A(k) == After(w, d, k)
           T == {k \in Nat : (k >= 1 /\ k <= m) =>
                   A(k).held = SubSeq(d, 1, k) /\ A(k).out = Terminal(w).out /\ k <= A(k).most}
<1>1. n \in Nat /\ \A k \in 1 .. n : d[k] \in Bytes
    OBVIOUS
<1>2. /\ A(0) = Terminal(w)
      /\ \A k \in 0 .. n : A(k) \in Terminals
      /\ \A k \in Nat : k < n => A(k + 1) = See(A(k), d[k + 1])
    BY AfterSteps
<1>3. ASSUME NEW t \in Terminals, NEW b \in Bytes
      PROVE  /\ Wait(t, b).held = Append(t.held, b) /\ Wait(t, b).out = t.out
             /\ Len(Append(t.held, b)) <= Wait(t, b).most /\ Len(t.held) \in Nat
             /\ Len(Append(t.held, b)) = Len(t.held) + 1
  <2>1. t.most \in Nat /\ t.held \in Seq(Bytes)
      BY DEF Terminals
  <2> DEFINE h == Append(t.held, b)
  <2>2. Len(h) \in Nat /\ Len(t.held) \in Nat /\ Len(h) = Len(t.held) + 1
      BY <2>1
  <2> HIDE DEF h
  <2> QED
      BY <2>1, <2>2 DEF Wait, h
<1> HIDE DEF A
<1>4. 0 \in T
    OBVIOUS
<1>5. ASSUME NEW k \in Nat, k \in T PROVE k + 1 \in T
  <2> DEFINE G(j) == A(j).held = SubSeq(d, 1, j) /\ A(j).out = Terminal(w).out /\ j <= A(j).most
  <2>0. SUFFICES ASSUME k + 1 <= m PROVE G(k + 1)
    <3>1. k + 1 \in Nat
        OBVIOUS
    <3> HIDE DEF G
    <3>2. (k + 1 >= 1 /\ k + 1 <= m) => G(k + 1)
        BY <2>0
    <3> QED
        BY <3>1, <3>2 DEF G
  <2>1. k < n /\ k \in 0 .. n /\ k + 1 \in 1 .. n
      BY <1>1, <2>0
  <2> DEFINE b == d[k + 1]
             t == A(k)
  <2>2. t \in Terminals /\ b \in Bytes /\ A(k + 1) = See(t, b)
      BY <2>1, <1>1, <1>2
  <2>3. SubSeq(d, 1, k + 1) = Append(SubSeq(d, 1, k), b) /\ SubSeq(d, 1, k) \in Seq(Bytes)
        /\ Len(SubSeq(d, 1, k)) = k
      BY <2>1, <1>1
  <2>4. t.held = SubSeq(d, 1, k) /\ t.out = Terminal(w).out
    <3>1. CASE k = 0
      <4>1. SubSeq(d, 1, 0) = <<>>
          OBVIOUS
      <4> QED
          BY <4>1, <3>1, <1>2
    <3>2. CASE k # 0
        BY <3>2, <1>5, <2>0
    <3> QED
        BY <3>1, <3>2
  <2>5. A(k + 1) = Wait(t, b)
    <3>1. CASE k = 0
      <4>1. t.held = <<>> /\ b = "esc"
          BY <3>1, <2>4, <1>2
      <4> QED
          BY <4>1, <2>2 DEF See
    <3>2. CASE k = 1
      <4>1. t.held = <<"esc">> /\ b = "]"
          BY <3>2, <2>4, <1>1, <2>0, <2>1
      <4>2. t.held # <<>>
          BY <4>1
      <4> QED
          BY <4>1, <4>2, <2>2 DEF See
    <3>3. CASE k >= 2
      <4>1. t.held \in Seq(Bytes) /\ Len(t.held) = k /\ Last(t.held) = d[k]
          BY <3>3, <2>1, <2>3, <2>4, <1>1 DEF Last
      <4>2. t.held # <<>> /\ t.held # <<"esc">>
        <5>1. Len(<<>>) = 0 /\ Len(<<"esc">>) = 1 /\ k # 0 /\ k # 1
            BY <3>3
        <5> QED
            BY <4>1, <5>1
      <4>3. d[2] = "]" /\ m >= 3
          BY <3>3, <2>0
      <4>4. k + 1 \notin Ends(d)
          BY <3>3, <2>0
      <4>5. b # "bel" /\ ~(b = "\\" /\ d[k] = "esc")
        <5>1. k + 1 \in 3 .. Len(d) /\ (k + 1) - 1 = k
            BY <3>3, <2>1, <1>1
        <5>2. b # "bel" /\ ~(k + 1 > 3 /\ b = "\\" /\ d[k] = "esc")
            BY <4>4, <5>1 DEF Ends
        <5>3. k = 2 \/ k + 1 > 3
            BY <3>3
        <5> QED
            BY <5>2, <5>3, <4>3
      <4> QED
          BY <4>1, <4>2, <4>5, <2>2 DEF See
    <3> QED
        BY <3>1, <3>2, <3>3
  <2> HIDE DEF b, t
  <2> QED
      BY <2>2, <2>3, <2>4, <2>5, <1>3
<1>6. Nat \subseteq T
    BY <1>4, <1>5, NatInduct
<1>7. A(m).held = SubSeq(d, 1, m) /\ A(m).out = Terminal(w).out /\ m <= A(m).most
    BY <1>6
<1> QED
    BY <1>7 DEF A

\* What ends a sequence, and what becomes of it, are the same to both.
LEMMA WholeIsParsed ==
    ASSUME NEW s \in Seq(Bytes), Len(s) >= 3,
           \/ s[Len(s)] = "bel"
           \/ Len(s) > 3 /\ s[Len(s)] = "\\" /\ s[Len(s) - 1] = "esc"
    PROVE  Whole(s) = ParseOSC(s)
<1> DEFINE n == Len(s)
           rest == SubSeq(s, 3, n)
           k == n - (IF Last(s) = "bel" THEN 1 ELSE 2)
           body == SubSeq(s, 3, k)
<1>1. n \in Nat /\ n >= 3 /\ Last(s) = s[n] /\ \A i \in 1 .. n : s[i] \in Bytes
    BY DEF Last
<1>2. rest \in Seq(Bytes) /\ Len(rest) = n - 2 /\ \A i \in 1 .. n - 2 : rest[i] = s[2 + i]
    BY <1>1
<1>3. k \in Int /\ k <= n /\ k >= 1
    BY <1>1
<1> HIDE DEF rest, n
<1>a. Len(rest) = 2 => n = 4
  <2>1. \A j \in Nat : j - 2 = 2 => j = 4
      OBVIOUS
  <2> QED
      BY <2>1, <1>1, <1>2
<1>b. Len(rest) = 3 => n = 5
  <2>1. \A j \in Nat : j - 2 = 3 => j = 5
      OBVIOUS
  <2> QED
      BY <2>1, <1>1, <1>2
<1>c. rest[1] = s[3]
  <2>1. 1 \in 1 .. n - 2 /\ 2 + 1 = 3
      BY <1>1
  <2> QED
      BY <2>1, <1>2
<1>d. n >= 4 => rest[2] = s[4]
  <2> HAVE n >= 4
  <2>1. 2 \in 1 .. n - 2 /\ 2 + 2 = 4
      BY <1>1
  <2> QED
      BY <2>1, <1>2
<1>e. n >= 5 => rest[3] = s[5]
  <2> HAVE n >= 5
  <2>1. 3 \in 1 .. n - 2 /\ 2 + 3 = 5
      BY <1>1
  <2> QED
      BY <2>1, <1>2
<1>4. rest = <<"m", "bel">> <=> n = 4 /\ s[3] = "m" /\ s[4] = "bel"
  <2>1. ASSUME rest = <<"m", "bel">> PROVE n = 4 /\ s[3] = "m" /\ s[4] = "bel"
    <3>1. Len(rest) = 2 /\ rest[1] = "m" /\ rest[2] = "bel"
        BY <2>1
    <3> QED
        BY <3>1, <1>1, <1>2, <1>a, <1>b, <1>c, <1>d, <1>e
  <2>2. ASSUME n = 4, s[3] = "m", s[4] = "bel" PROVE rest = <<"m", "bel">>
    <3>1. Len(rest) = 2 /\ rest[1] = "m" /\ rest[2] = "bel"
        BY <2>2, <1>1, <1>2, <1>c, <1>d, <1>e
    <3> QED
        BY <3>1, <1>2
  <2> QED
      BY <2>1, <2>2
<1>5. rest = <<"m", "esc", "\\">> <=> n = 5 /\ s[3] = "m" /\ s[4] = "esc" /\ s[5] = "\\"
  <2>1. ASSUME rest = <<"m", "esc", "\\">>
        PROVE  n = 5 /\ s[3] = "m" /\ s[4] = "esc" /\ s[5] = "\\"
    <3>1. Len(rest) = 3 /\ rest[1] = "m" /\ rest[2] = "esc" /\ rest[3] = "\\"
        BY <2>1
    <3> QED
        BY <3>1, <1>1, <1>2, <1>a, <1>b, <1>c, <1>d, <1>e
  <2>2. ASSUME n = 5, s[3] = "m", s[4] = "esc", s[5] = "\\"
        PROVE  rest = <<"m", "esc", "\\">>
    <3>1. Len(rest) = 3 /\ rest[1] = "m" /\ rest[2] = "esc" /\ rest[3] = "\\"
        BY <2>2, <1>1, <1>2, <1>c, <1>d, <1>e
    <3> QED
        BY <3>1, <1>2
  <2> QED
      BY <2>1, <2>2
<1>6. body = <<"m">> <=> k = 3 /\ s[3] = "m"
  <2> HIDE DEF k
  <2>1. body \in Seq(Bytes) /\ Len(body) = (IF 3 <= k THEN k - 2 ELSE 0)
        /\ (k >= 3 => body[1] = s[3])
    <3>1. \A i \in 3 .. k : s[i] \in Bytes
        BY <1>1, <1>3
    <3>2. /\ body \in Seq(Bytes)
          /\ Len(body) = IF 3 <= k THEN k - 3 + 1 ELSE 0
          /\ \A i \in 1 .. k - 3 + 1 : body[i] = s[3 + i - 1]
        BY <3>1, <1>3, SubSeqProperties
    <3> HIDE DEF body
    <3> QED
        BY <3>2, <1>3
  <2> HIDE DEF body
  <2>2. ASSUME body = <<"m">> PROVE k = 3 /\ s[3] = "m"
    <3>1. Len(body) = 1 /\ body[1] = "m"
        BY <2>2
    <3>2. k >= 3 /\ k - 2 = 1
        BY <3>1, <2>1, <1>3
    <3> QED
        BY <3>1, <3>2, <2>1, <1>3
  <2>3. ASSUME k = 3, s[3] = "m" PROVE body = <<"m">>
    <3>1. Len(body) = 1 /\ body[1] = "m"
        BY <2>1, <2>3
    <3> QED
        BY <3>1, <2>1
  <2> QED
      BY <2>2, <2>3
<1>7. rest \in {<<"m", "bel">>, <<"m", "esc", "\\">>} <=> body = <<"m">>
  <2>1. CASE s[n] = "bel"
    <3>1. k = n - 1
        BY <2>1, <1>1
    <3> HIDE DEF k, body
    <3> QED
        BY <2>1, <3>1, <1>1, <1>4, <1>5, <1>6
  <2>2. CASE s[n] = "\\" /\ n > 3 /\ s[n - 1] = "esc"
    <3>1. k = n - 2
        BY <2>2, <1>1
    <3> HIDE DEF k, body
    <3> QED
        BY <2>2, <3>1, <1>1, <1>4, <1>5, <1>6
  <2> QED
      BY <2>1, <2>2 DEF n
<1> QED
    BY <1>7 DEF Whole, ParseOSC, rest, n

\* A byte that starts no sequence is text.
LEMMA OneByte ==
    ASSUME NEW d \in Seq(Bytes), Len(d) >= 1
    PROVE  SubSeq(d, 1, 1) = <<d[1]>>
<1>1. SubSeq(d, 1, 0) = <<>> /\ 0 \in Nat /\ 0 < Len(d) /\ 0 + 1 = 1
    OBVIOUS
<1>2. SubSeq(d, 1, 0 + 1) = Append(SubSeq(d, 1, 0), d[0 + 1])
    BY <1>1, PrefixGrows
<1>3. SubSeq(d, 1, 1) = Append(<<>>, d[1])
    BY <1>1, <1>2
<1>4. \A x : Append(<<>>, x) = <<x>>
    OBVIOUS
<1> QED
    BY <1>3, <1>4

\* What text adds to what a terminal has given.
LEMMA TextIs ==
    ASSUME NEW t, NEW b
    PROVE  Text(t, b).held = <<>> /\ Text(t, b).out = t.out \o Append(t.held, b)
    BY DEF Text

\* A piece means the same to the parser and to the terminal.
LEMMA PieceIsSeen ==
    ASSUME MaxOSC \in Nat, NEW w \in Seq(Bytes), NEW d \in Seq(Bytes), Terminal(w).held = <<>>,
           d # <<>>, ~(Head(d) = "esc" /\ Held(d)), Terminal(w \o d).most <= MaxOSC
    PROVE  LET t == After(w, d, Piece(d)) IN
           t.held = <<>> /\ t.out = Terminal(w).out \o Made(d)
<1> DEFINE n == Len(d)
           A(k) == After(w, d, k)
           out == Terminal(w).out
<1>1. n \in Nat /\ n >= 1 /\ \A k \in 1 .. n : d[k] \in Bytes
    OBVIOUS
<1>2. /\ A(0) = Terminal(w) /\ A(n) = Terminal(w \o d)
      /\ \A k \in 0 .. n : A(k) \in Terminals
      /\ \A k \in Nat : k < n => A(k + 1) = See(A(k), d[k + 1])
    BY AfterSteps
<1>3. out \in Seq(Bytes \cup {"MARK"})
  <2>1. A(0) \in Terminals
      BY <1>1, <1>2
  <2> QED
      BY <2>1, <1>2 DEF Terminals
<1>4. ASSUME NEW k \in Nat, k < n, k >= 1,
             A(k).held = SubSeq(d, 1, k), A(k).out = out
      PROVE  /\ Append(A(k).held, d[k + 1]) = SubSeq(d, 1, k + 1)
             /\ A(k + 1) = See(A(k), d[k + 1]) /\ Last(A(k).held) = d[k]
             /\ Len(A(k).held) = k /\ A(k).held \in Seq(Bytes)
  <2>1. SubSeq(d, 1, k + 1) = Append(SubSeq(d, 1, k), d[k + 1]) /\ SubSeq(d, 1, k) \in Seq(Bytes)
        /\ Len(SubSeq(d, 1, k)) = k /\ Last(SubSeq(d, 1, k)) = d[k]
      BY <1>1, <1>4 DEF Last
  <2> QED
      BY <2>1, <1>2, <1>4
<1>5. CASE d[1] # "esc" /\ Piece(d) = 1
  <2>0. 0 < n /\ 0 \in Nat /\ 0 + 1 = 1
      BY <1>1
  <2> HIDE DEF n, A
  <2>5. A(0 + 1) = See(A(0), d[0 + 1])
      BY <2>0, <1>2
  <2>6. A(1) = See(A(0), d[1])
      BY <2>5, <2>0
  <2>1. A(1) = See(Terminal(w), d[1])
      BY <2>6, <1>2
  <2> USE DEF n, A
  <2>2. A(1) = Text(Terminal(w), d[1])
      BY <2>1, <1>5 DEF See
  <2>3. Made(d) = <<d[1]>>
    <3>1. Made(d) = SubSeq(d, 1, 1)
        BY <1>5 DEF Made
    <3>2. SubSeq(d, 1, 1) = <<d[1]>>
        BY <1>1, OneByte
    <3> QED
        BY <3>1, <3>2
  <2>4. Append(<<>>, d[1]) = <<d[1]>>
      BY <1>1
  <2> QED
      BY <2>2, <2>3, <2>4, <1>5 DEF Text
<1>6. CASE d[1] = "esc" /\ n > 1 /\ d[2] # "]" /\ Piece(d) = 2
  <2>1. \A j \in Ends(d) : 1 < j
      BY DEF Ends
  <2> DEFINE m == 1
  <2>m. m \in Nat /\ m >= 1 /\ m <= n /\ m = 1 /\ m < n /\ \A j \in Ends(d) : m < j
      BY <2>1, <1>1, <1>6
  <2>n. m + 1 = 2
      OBVIOUS
  <2> HIDE DEF m
  <2>2. A(m).held = SubSeq(d, 1, m) /\ A(m).out = out
      BY <2>m, <1>6, HeldOn
  <2>3. Append(A(1).held, d[2]) = SubSeq(d, 1, 2) /\ A(2) = See(A(1), d[2])
      BY <2>2, <2>m, <2>n, <1>4
  <2>4. SubSeq(d, 1, 1) = <<"esc">> /\ <<"esc">> # <<>>
    <3>1. SubSeq(d, 1, 1) = <<d[1]>>
        BY <1>1, OneByte
    <3> QED
        BY <3>1, <1>6
  <2>5. A(2) = Text(A(1), d[2])
      BY <2>2, <2>3, <2>4, <1>6 DEF See, m
  <2>6. Made(d) = SubSeq(d, 1, 2)
      BY <1>6 DEF Made
  <2>7. A(2).held = <<>> /\ A(2).out = out \o SubSeq(d, 1, 2)
    <3>1. A(1).out = out
        BY <2>2 DEF m
    <3> HIDE DEF A, out
    <3>2. A(2).held = <<>> /\ A(2).out = A(1).out \o Append(A(1).held, d[2])
      <4> DEFINE t == A(1)
                 b == d[2]
                 v == A(2)
      <4>1. v = Text(t, b)
          BY <2>5
      <4> HIDE DEF t, b, v
      <4>2. v.held = <<>> /\ v.out = t.out \o Append(t.held, b)
          BY <4>1, TextIs
      <4> QED
          BY <4>2 DEF t, b, v
    <3> QED
        BY <3>1, <3>2, <2>3
  <2> QED
      BY <2>6, <2>7, <1>6
<1>7. CASE /\ d[1] = "esc" /\ n > 1 /\ d[2] = "]" /\ Piece(d) = OscEnd(d)
           /\ OscEnd(d) \in Ends(d) /\ \A j \in Ends(d) : OscEnd(d) <= j
  <2> DEFINE e == OscEnd(d)
             k == e - 1
             s == SubSeq(d, 1, e)
  <2>1. e \in 3 .. n /\ (d[e] = "bel" \/ (e > 3 /\ d[e] = "\\" /\ d[e - 1] = "esc"))
      BY <1>7 DEF Ends
  <2>2. Ends(d) \subseteq Nat
      BY DEF Ends
  <2> HIDE DEF e
  <2>3. k \in Nat /\ k >= 2 /\ k < n /\ k + 1 = e /\ \A j \in Ends(d) : k < j
      BY <2>1, <2>2, <1>1, <1>7 DEF e
  <2>4. A(k).held = SubSeq(d, 1, k) /\ A(k).out = out
    <3> HIDE DEF k
    <3> QED
        BY <2>3, <1>7, HeldOn
  <2>5. /\ Append(A(k).held, d[e]) = s
        /\ A(e) = See(A(k), d[e]) /\ Last(A(k).held) = d[k]
        /\ Len(A(k).held) = k /\ A(k).held \in Seq(Bytes)
    <3> HIDE DEF k
    <3>1. k >= 1
        BY <2>3
    <3> QED
        BY <3>1, <2>3, <2>4, <1>4
  <2>6. A(k).held # <<>> /\ A(k).held # <<"esc">>
    <3>1. Len(<<>>) = 0 /\ Len(<<"esc">>) = 1 /\ k # 0 /\ k # 1
        BY <2>3
    <3> QED
        BY <3>1, <2>5
  <2>7. d[e] = "bel" \/ (d[e] = "\\" /\ Last(A(k).held) = "esc")
      BY <2>1, <2>5
  <2>8. A(e) = Ended(A(k), d[e])
      BY <2>5, <2>6, <2>7 DEF See
  <2>9. s \in Seq(Bytes) /\ Len(s) = e /\ s[e] = d[e] /\ s[e - 1] = d[e - 1] /\ e >= 3
      BY <2>1, <1>1
  <2> HIDE DEF s, k
  <2>10. Whole(s) = ParseOSC(s)
      BY <2>1, <2>9, WholeIsParsed
  <2>11. Made(d) = ParseOSC(s)
    <3>1. e > 2
        BY <2>1
    <3> QED
        BY <3>1, <1>7 DEF Made, s, e
  <2>12. A(e).held = <<>> /\ A(e).out = out \o Whole(s)
      BY <2>4, <2>5, <2>8 DEF Ended
  <2> QED
      BY <2>10, <2>11, <2>12, <1>7 DEF e
<1>8. CASE d[1] = "esc" /\ n > 1 /\ d[2] = "]" /\ Piece(d) = 2 /\ Ends(d) = {} /\ ~(n <= MaxOSC)
  <2>1. n <= A(n).most
      BY <1>1, <1>8, HeldOn
  <2>2. A(n).most <= MaxOSC /\ A(n).most \in Nat
      BY <1>2, MostGrows
  <2> QED
      BY <2>1, <2>2, <1>1, <1>8
<1>9. \/ d[1] # "esc" /\ Piece(d) = 1
      \/ d[1] = "esc" /\ n > 1 /\ d[2] # "]" /\ Piece(d) = 2
      \/ d[1] = "esc" /\ n > 1 /\ d[2] = "]" /\ Piece(d) = OscEnd(d)
         /\ OscEnd(d) \in Ends(d) /\ \A j \in Ends(d) : OscEnd(d) <= j
      \/ d[1] = "esc" /\ n > 1 /\ d[2] = "]" /\ Piece(d) = 2 /\ Ends(d) = {} /\ ~(n <= MaxOSC)
    BY PieceIs
<1> HIDE DEF A, out, n
<1>10. A(Piece(d)).held = <<>> /\ A(Piece(d)).out = out \o Made(d)
    BY <1>5, <1>6, <1>7, <1>8, <1>9, Zenon DEF A, out, n
<1> QED
    BY <1>10 DEF A, out

\* What Feed gives, in each of the three cases of a step of it.
LEMMA FeedCases ==
    ASSUME NEW d \in Seq(Bytes)
    PROVE  /\ d = <<>> => Feed(d).out = <<>> /\ Feed(d).pend = <<>>
           /\ d # <<>> /\ Head(d) = "esc" /\ Held(d) => Feed(d).out = <<>> /\ Feed(d).pend = d
           /\ d # <<>> /\ ~(Head(d) = "esc" /\ Held(d)) =>
                 LET rest == From(d, Piece(d) + 1)
                 IN  /\ Feed(d).out = Made(d) \o Feed(rest).out /\ Feed(d).pend = Feed(rest).pend
                     /\ Feed(rest) \in Piecewise
<1> DEFINE f == [x \in Seq(Bytes) |-> Feed(x)]
<1>1. Feeds(f)
    BY FeedIs
<1>2. \A x \in Seq(Bytes) : f[x] = Feed(x)
    OBVIOUS
<1> HIDE DEF f
<1>3. ASSUME d = <<>> PROVE Feed(d).out = <<>> /\ Feed(d).pend = <<>>
  <2>1. f[d] = [out |-> <<>>, pend |-> <<>>]
      BY <1>1, <1>3 DEF Feeds
  <2>2. Feed(d) = [out |-> <<>>, pend |-> <<>>]
      BY <2>1, <1>2
  <2> QED
      BY <2>2
<1>4. ASSUME d # <<>>, Head(d) = "esc", Held(d)
      PROVE  Feed(d).out = <<>> /\ Feed(d).pend = d
  <2>1. f[d] = [out |-> <<>>, pend |-> d]
      BY <1>1, <1>4 DEF Feeds
  <2>2. Feed(d) = [out |-> <<>>, pend |-> d]
      BY <2>1, <1>2
  <2> QED
      BY <2>2
<1>5. ASSUME d # <<>>, ~(Head(d) = "esc" /\ Held(d))
      PROVE  LET rest == From(d, Piece(d) + 1)
             IN  /\ Feed(d).out = Made(d) \o Feed(rest).out /\ Feed(d).pend = Feed(rest).pend
                 /\ Feed(rest) \in Piecewise
  <2> DEFINE rest == From(d, Piece(d) + 1)
  <2>1. rest \in Seq(Bytes)
      BY <1>5, MadeType
  <2>2. f[d] = [f[rest] EXCEPT !.out = Made(d) \o @]
      BY <1>1, <1>5 DEF Feeds
  <2> HIDE DEF rest
  <2>3. Feed(rest) \in Piecewise
      BY <2>1, FeedType
  <2>4. Feed(d) = [Feed(rest) EXCEPT !.out = Made(d) \o @]
      BY <2>1, <2>2, <1>2
  <2>5. Feed(d).out = Made(d) \o Feed(rest).out /\ Feed(d).pend = Feed(rest).pend
      BY <2>3, <2>4 DEF Piecewise
  <2> QED
      BY <2>3, <2>5 DEF rest
<1> QED
    BY <1>3, <1>4, <1>5

\* A terminal that has seen w and then d, against Feed of d.
Agree(w, d) ==
    LET t == Terminal(w \o d) IN
    t.most <= MaxOSC => t.out = Terminal(w).out \o Feed(d).out /\ t.held = Feed(d).pend

\* Three sequences are joined the same either way.
Joins(a, b, c) == (a \o b) \o c = a \o (b \o c)

\* They are, whatever they are of.
LEMMA Associates ==
    ASSUME NEW X, NEW a \in Seq(X), NEW b \in Seq(X), NEW c \in Seq(X)
    PROVE  Joins(a, b, c)
    BY ConcatAssociative DEF Joins

\* From where nothing is held, the parser makes of any bytes what a terminal does.
LEMMA FeedIsSeen ==
    ASSUME MaxOSC \in Nat, NEW w0 \in Seq(Bytes), NEW d0 \in Seq(Bytes), Terminal(w0).held = <<>>
    PROVE  Agree(w0, d0)
<1> DEFINE T == {n \in Nat : \A d, w \in Seq(Bytes) :
                    Len(d) < n /\ Terminal(w).held = <<>> => Agree(w, d)}
<1>2. \A d \in Seq(Bytes) : Len(d) \in Nat
    OBVIOUS
<1>4. 0 \in T
    BY <1>2
<1>5. ASSUME NEW n \in Nat, n \in T PROVE n + 1 \in T
  <2> SUFFICES ASSUME NEW d \in Seq(Bytes), NEW w \in Seq(Bytes), Len(d) < n + 1,
                      Terminal(w).held = <<>>
               PROVE  Agree(w, d)
      OBVIOUS
  <2> DEFINE t == Terminal(w \o d)
             out == Terminal(w).out
             A(k) == After(w, d, k)
  <2>1. /\ A(0) = Terminal(w) /\ A(Len(d)) = t
        /\ \A k \in 0 .. Len(d) : A(k) \in Terminals /\ A(k) = Terminal(w \o SubSeq(d, 1, k))
      BY AfterSteps
  <2>2. out \in Seq(Bytes \cup {"MARK"})
    <3>1. A(0) \in Terminals
        BY <1>2, <2>1
    <3> QED
        BY <3>1, <2>1 DEF Terminals
  <2> SUFFICES ASSUME t.most <= MaxOSC
               PROVE  t.out = out \o Feed(d).out /\ t.held = Feed(d).pend
      BY DEF Agree
  <2>3. CASE d = <<>>
    <3>1. Feed(d).out = <<>> /\ Feed(d).pend = <<>>
        BY <2>3, FeedCases
    <3>2. t = Terminal(w)
        BY <2>3
    <3> HIDE DEF t, out
    <3> QED
        BY <3>1, <3>2, <2>2, ConcatEmptySeq DEF out
  <2>4. CASE d # <<>> /\ Head(d) = "esc" /\ Held(d)
    <3>1. Feed(d).out = <<>> /\ Feed(d).pend = d
        BY <2>4, FeedCases
    <3> DEFINE m == Len(d)
    <3>2. m \in Nat /\ m >= 1 /\ d[1] = "esc" /\ SubSeq(d, 1, m) = d
        BY <2>4, <1>2
    <3>3. m = 1 \/ d[2] = "]"
        BY <2>4 DEF Held
    <3>4. \A j \in Ends(d) : m < j
      <4>1. CASE d = <<"esc">>
          BY <4>1 DEF Ends
      <4>2. CASE OscEnd(d) = 0
        <5>1. Ends(d) = {}
            BY <4>2, OscEndIsFirst DEF Ends
        <5> QED
            BY <5>1
      <4> QED
          BY <2>4, <4>1, <4>2 DEF Held
    <3>5. m <= Len(d)
        BY <3>2
    <3> HIDE DEF m, A, t, out
    <3>6. A(m).held = SubSeq(d, 1, m) /\ A(m).out = out
        BY <3>2, <3>3, <3>4, <3>5, HeldOn DEF A, out
    <3>7. t.held = d /\ t.out = out
        BY <3>2, <3>6, <2>1 DEF m
    <3> QED
        BY <3>1, <3>7, <2>2, ConcatEmptySeq
  <2>5. CASE d # <<>> /\ ~(Head(d) = "esc" /\ Held(d))
    <3> DEFINE k == Piece(d)
               p == SubSeq(d, 1, k)
               rest == From(d, k + 1)
               v == w \o p
    <3>1. /\ k \in 1 .. Len(d) /\ Len(d) \in Nat
          /\ Made(d) \in Seq(Bytes \cup {"MARK"})
          /\ rest \in Seq(Bytes) /\ Len(rest) = Len(d) - k /\ p \in Seq(Bytes)
      <4>1. d # <<>> /\ ~(Head(d) = "esc" /\ Held(d))
          BY <2>5
      <4>2. k \in 1 .. Len(d)
          BY <4>1, PieceFits
      <4> QED
          BY <4>1, <4>2, <1>2, MadeType
    <3>2. A(k).held = <<>> /\ A(k).out = out \o Made(d)
        BY <2>5, PieceIsSeen
    <3>3. A(k) = Terminal(v)
        BY <2>1, <3>1
    <3>4. p \o rest = d
      <4> HIDE DEF k
      <4>1. SubSeq(d, 1, k) \o SubSeq(d, k + 1, Len(d)) = SubSeq(d, 1, Len(d))
        <5>1. 1 \in 1 .. Len(d) + 1 /\ k \in 1 - 1 .. Len(d) /\ Len(d) \in k .. Len(d)
            BY <3>1
        <5> QED
            BY <5>1, ConcatAdjacentSubSeq
      <4>2. SubSeq(d, 1, Len(d)) = d
          BY SubSeqFull
      <4> QED
          BY <4>1, <4>2 DEF From
    <3> HIDE DEF p, rest, k, A, t, out
    <3>5. v \in Seq(Bytes) /\ v \o rest = w \o d
      <4>1. w \in Seq(Bytes) /\ p \in Seq(Bytes) /\ rest \in Seq(Bytes)
          BY <3>1
      <4>2. (w \o p) \o rest = w \o (p \o rest)
        <5>1. Joins(w, p, rest)
            BY <4>1, Associates
        <5> QED
            BY <5>1 DEF Joins
      <4> QED
          BY <4>1, <4>2, <3>4
    <3> HIDE DEF v
    <3>6. Agree(v, rest)
      <4>1. Len(rest) < n
          BY <3>1
      <4>2. Terminal(v).held = <<>>
          BY <3>2, <3>3
      <4> QED
          BY <4>1, <4>2, <3>1, <3>5, <1>5
    <3>7. t.out = Terminal(v).out \o Feed(rest).out /\ t.held = Feed(rest).pend
        BY <3>5, <3>6 DEF Agree, t
    <3>8. Feed(d).out = Made(d) \o Feed(rest).out /\ Feed(d).pend = Feed(rest).pend
          /\ Feed(rest) \in Piecewise
        BY <2>5, FeedCases DEF rest, k
    <3>9. Feed(rest).out \in Seq(Bytes \cup {"MARK"})
        BY <3>8 DEF Piecewise
    <3>10. (out \o Made(d)) \o Feed(rest).out = out \o (Made(d) \o Feed(rest).out)
      <4> DEFINE X == Bytes \cup {"MARK"}
                 o == Feed(rest).out
                 mid == Made(d)
      <4>1. out \in Seq(X) /\ mid \in Seq(X) /\ o \in Seq(X)
          BY <2>2, <3>1, <3>9
      <4> HIDE DEF X, o, mid
      <4>2. (out \o mid) \o o = out \o (mid \o o)
        <5>1. Joins(out, mid, o)
            BY <4>1, Associates
        <5> QED
            BY <5>1 DEF Joins
      <4> QED
          BY <4>2 DEF o, mid
    <3> QED
        BY <3>2, <3>3, <3>7, <3>8, <3>10
  <2> QED
      BY <2>3, <2>4, <2>5
<1>6. Nat \subseteq T
    BY <1>4, <1>5, NatInduct
<1>7. Len(d0) + 1 \in T /\ Len(d0) < Len(d0) + 1
    BY <1>2, <1>6
<1> QED
    BY <1>7

\* What a terminal holds is the end of what it has seen, and from where it began
\* it has held nothing and given nothing.
LEMMA HeldIsTheEnd ==
    ASSUME NEW w \in Seq(Bytes)
    PROVE  \E v \in Seq(Bytes) : /\ w = v \o Terminal(w).held
                                 /\ Terminal(v).held = <<>>
                                 /\ Terminal(v).out = Terminal(w).out
<1> DEFINE n == Len(w)
           P(k) == SubSeq(w, 1, k)
           Tail0(u) == \E v \in Seq(Bytes) : /\ u = v \o Terminal(u).held
                                             /\ Terminal(v).held = <<>>
                                             /\ Terminal(v).out = Terminal(u).out
           T == {k \in Nat : k <= n => Tail0(P(k))}
<1>1. n \in Nat /\ P(n) = w /\ P(0) = <<>> /\ <<>> \in Seq(Bytes)
    OBVIOUS
<1>2. 0 \in T
  <2>1. Terminal(<<>>).held = <<>>
      BY TerminalBlank DEF Blank
  <2>2. <<>> = <<>> \o <<>>
      BY <1>1, ConcatEmptySeq
  <2>3. Tail0(<<>>)
      BY <2>1, <2>2, <1>1
  <2> QED
      BY <2>3, <1>1
<1>3. ASSUME NEW k \in Nat, k \in T PROVE k + 1 \in T
  <2>0. SUFFICES ASSUME k + 1 <= n PROVE Tail0(P(k + 1))
      OBVIOUS
  <2> DEFINE u == P(k)
             b == w[k + 1]
             x == P(k + 1)
             t == Terminal(u)
  <2>1. u \in Seq(Bytes) /\ x = Append(u, b) /\ b \in Bytes
      BY <1>1, <2>0, PrefixGrows
  <2>2. Tail0(u)
      BY <1>1, <1>3, <2>0
  <2> HIDE DEF u, x, b
  <2>3. Terminal(x) = See(t, b) /\ t \in Terminals /\ x \in Seq(Bytes)
      BY <2>1, TerminalStep
  <2>4. CASE See(t, b).held = <<>>
    <3>1. x = x \o <<>>
        BY <2>3, ConcatEmptySeq
    <3> QED
        BY <3>1, <2>3, <2>4 DEF x
  <2>5. CASE See(t, b) = Wait(t, b)
    <3>1. PICK v \in Seq(Bytes) : u = v \o t.held /\ Terminal(v).held = <<>> /\ Terminal(v).out = t.out
        BY <2>2
    <3>2. Wait(t, b).held = Append(t.held, b) /\ Wait(t, b).out = t.out
        BY DEF Wait
    <3>3. t.held \in Seq(Bytes)
        BY <2>3 DEF Terminals
    <3> DEFINE h == t.held
    <3> HIDE DEF h, t
    <3>4. Append(v \o h, b) = v \o Append(h, b)
      <4>1. h \in Seq(Bytes) /\ v \o h \in Seq(Bytes) /\ <<b>> \in Seq(Bytes)
          BY <3>3, <2>1 DEF h
      <4>2. Append(v \o h, b) = (v \o h) \o <<b>> /\ Append(h, b) = h \o <<b>>
          BY <4>1, <2>1, AppendIsConcat
      <4>3. (v \o h) \o <<b>> = v \o (h \o <<b>>)
        <5>1. Joins(v, h, <<b>>)
            BY <4>1, Associates
        <5> QED
            BY <5>1 DEF Joins
      <4> QED
          BY <4>2, <4>3
    <3>5. x = v \o Terminal(x).held
        BY <3>1, <3>2, <3>4, <2>1, <2>3, <2>5 DEF h
    <3>6. Terminal(v).out = Terminal(x).out
        BY <3>1, <3>2, <2>3, <2>5
    <3> QED
        BY <3>1, <3>5, <3>6 DEF x
  <2>6. See(t, b).held = <<>> \/ See(t, b) = Wait(t, b)
      BY DEF See, Text, Ended
  <2> QED
      BY <2>4, <2>5, <2>6
<1>4. Nat \subseteq T
    BY <1>2, <1>3, NatInduct
<1>5. Tail0(P(n))
  <2>1. n \in T
      BY <1>1, <1>4
  <2>2. n <= n
      BY <1>1
  <2> HIDE DEF Tail0, P, n
  <2> QED
      BY <2>1, <2>2
<1> QED
    BY <1>1, <1>5

\* The parser has given what a terminal would have, unless one held too much.
ParserInv ==
    /\ written \in Seq(Bytes) /\ pend \in Seq(Bytes)
    /\ parsed \in Seq(Bytes \cup {"MARK"})
    /\ ChunksDoNotMatter
    /\ LittleIsHeldBack

\* Whatever a read returns.
LEMMA ParserStep ==
    ASSUME Sized, ParserInv, Next
    PROVE  ParserInv'
<1>1. PICK chunk \in Chunks : Output(chunk)
    BY DEF Next
<1>2. chunk \in Seq(Bytes)
  <2>1. PICK n \in 1 .. MaxChunk : chunk \in [1 .. n -> Bytes]
      BY DEF Chunks
  <2> QED
      BY <2>1 DEF Sized
<1> DEFINE d == pend \o chunk
           t == Terminal(written)
           t2 == Terminal(written \o chunk)
           fed == Feed(d)
<1>3. d \in Seq(Bytes)
    BY <1>2 DEF ParserInv
<1>4. fed \in Piecewise
    BY <1>3, FeedType
<1>5. written' = written \o chunk /\ pend' = fed.pend /\ parsed' = parsed \o fed.out
    BY <1>1 DEF Output
<1>6. written' \in Seq(Bytes) /\ pend' \in Seq(Bytes) /\ parsed' \in Seq(Bytes \cup {"MARK"})
    BY <1>2, <1>4, <1>5 DEF ParserInv, Piecewise
<1>7. ChunksDoNotMatter'
  <2> SUFFICES ASSUME t2.most <= MaxOSC
               PROVE  parsed \o fed.out = t2.out /\ fed.pend = t2.held
      BY <1>5 DEF ChunksDoNotMatter
  <2> HIDE DEF d, t, t2, fed
  <2>1. t.most <= MaxOSC
    <3>1. t.most \in Nat /\ t2.most \in Nat /\ t.most <= t2.most
        BY <1>2, MostGrows DEF ParserInv, t, t2
    <3> QED
        BY <3>1 DEF Sized
  <2>2. parsed = t.out /\ pend = t.held
      BY <2>1 DEF ParserInv, ChunksDoNotMatter, t
  <2>3. PICK v \in Seq(Bytes) : written = v \o t.held /\ Terminal(v).held = <<>>
                                /\ Terminal(v).out = t.out
      BY HeldIsTheEnd DEF ParserInv, t
  <2>4. written \o chunk = v \o d
    <3>1. v \in Seq(Bytes) /\ t.held \in Seq(Bytes) /\ chunk \in Seq(Bytes)
        BY <1>2, <2>2 DEF ParserInv
    <3>2. (v \o t.held) \o chunk = v \o (t.held \o chunk)
      <4>1. Joins(v, t.held, chunk)
          BY <3>1, Associates
      <4> QED
          BY <4>1 DEF Joins
    <3> QED
        BY <3>2, <2>2, <2>3 DEF d
  <2>5. Agree(v, d)
      BY <1>3, <2>3, FeedIsSeen DEF Sized
  <2> QED
      BY <2>2, <2>3, <2>4, <2>5 DEF Agree, t2, fed
<1>8. LittleIsHeldBack'
  <2>1. \A x \in Seq(Bytes) : Len(Feed(x).pend) <= MaxOSC
    <3> DEFINE T == {n \in Nat : \A x \in Seq(Bytes) : Len(x) < n => Len(Feed(x).pend) <= MaxOSC}
    <3>1. \A x \in Seq(Bytes) : Len(x) \in Nat
        OBVIOUS
    <3>2. 0 \in T
        BY <3>1
    <3>3. ASSUME NEW n \in Nat, n \in T PROVE n + 1 \in T
      <4> SUFFICES ASSUME NEW x \in Seq(Bytes), Len(x) < n + 1
                   PROVE  Len(Feed(x).pend) <= MaxOSC
          OBVIOUS
      <4>1. CASE x = <<>>
        <5>1. Feed(x).pend = <<>>
            BY <4>1, FeedCases
        <5>2. Len(<<>>) = 0
            OBVIOUS
        <5> QED
            BY <5>1, <5>2 DEF Sized
      <4>2. CASE x # <<>> /\ Head(x) = "esc" /\ Held(x)
        <5>1. Feed(x).pend = x
            BY <4>2, FeedCases
        <5>2. Len(<<"esc">>) = 1
            OBVIOUS
        <5>3. Len(x) <= MaxOSC
          <6>1. CASE x = <<"esc">>
              BY <6>1, <5>2 DEF Sized
          <6>2. CASE Len(x) <= MaxOSC
              BY <6>2
          <6> QED
              BY <6>1, <6>2, <4>2 DEF Held
        <5> QED
            BY <5>1, <5>3
      <4>3. CASE x # <<>> /\ ~(Head(x) = "esc" /\ Held(x))
        <5> DEFINE rest == From(x, Piece(x) + 1)
        <5>1. Piece(x) \in 1 .. Len(x) /\ rest \in Seq(Bytes) /\ Len(rest) = Len(x) - Piece(x)
          <6>1. x # <<>> /\ ~(Head(x) = "esc" /\ Held(x))
              BY <4>3
          <6>2. Piece(x) \in 1 .. Len(x)
              BY <6>1, PieceFits
          <6> QED
              BY <6>1, <6>2, MadeType
        <5> HIDE DEF rest
        <5>3. Feed(x).pend = Feed(rest).pend
            BY <4>3, FeedCases DEF rest
        <5>4. Len(rest) < n
            BY <5>1, <3>1
        <5> QED
            BY <5>1, <5>3, <5>4, <3>3
      <4> QED
          BY <4>1, <4>2, <4>3
    <3>4. Nat \subseteq T
        BY <3>2, <3>3, NatInduct
    <3> TAKE x \in Seq(Bytes)
    <3>5. Len(x) + 1 \in T /\ Len(x) < Len(x) + 1
        BY <3>1, <3>4
    <3> QED
        BY <3>1, <3>5
  <2> QED
      BY <2>1, <1>3, <1>5 DEF LittleIsHeldBack
<1> QED
    BY <1>6, <1>7, <1>8 DEF ParserInv

\* The ring has the tail of what was written.
RingInv == Keeps(ring, written)

\* Whatever a read returns.
LEMMA RingStep ==
    ASSUME Sized, written \in Seq(Bytes), RingInv, Next
    PROVE  RingInv'
<1>1. PICK chunk \in Chunks : Output(chunk)
    BY DEF Next
<1>2. chunk \in Seq(Bytes)
  <2>1. PICK n \in 1 .. MaxChunk : chunk \in [1 .. n -> Bytes]
      BY DEF Chunks
  <2> QED
      BY <2>1 DEF Sized
<1> QED
    BY <1>1, <1>2, WriteKeeps DEF Output, RingInv

\* For any size of the ring, any limit and any chunks.
THEOREM ScrollbackIsWhole ==
    ASSUME Sized
    PROVE  Spec => [](TypeOK /\ SnapshotIsTheTail /\ ChunksDoNotMatter /\ LittleIsHeldBack)
<1> DEFINE I == ParserInv /\ RingInv
<1>1. Init => I
  <2> SUFFICES ASSUME Init PROVE I
      OBVIOUS
  <2>1. <<>> \in Seq(Bytes) /\ <<>> \in Seq(Bytes \cup {"MARK"}) /\ Len(<<>>) = 0
      OBVIOUS
  <2>2. ParserInv
      BY <2>1, TerminalBlank DEF Init, ParserInv, ChunksDoNotMatter, LittleIsHeldBack,
             Blank, Sized
  <2>3. ring \in RingType /\ ring.pos = 1 /\ ring.full = FALSE
      BY DEF Init, RingType, Bytes, Sized
  <2>4. RingInv
    <3>1. \A i \in 1 .. Size : ~(ring.full \/ i < ring.pos)
        BY <2>3 DEF Sized
    <3>2. ring.pos = Len(written) + 1
        BY <2>1, <2>3 DEF Init
    <3> QED
        BY <2>3, <3>1, <3>2 DEF RingInv, Keeps
  <2> QED
      BY <2>2, <2>4
<1>2. I /\ [Next]_vars => I'
  <2> SUFFICES ASSUME I, [Next]_vars PROVE I'
      OBVIOUS
  <2>1. CASE Next
      BY <2>1, ParserStep, RingStep DEF ParserInv
  <2>2. CASE UNCHANGED vars
      BY <2>2 DEF vars, ParserInv, RingInv, ChunksDoNotMatter, LittleIsHeldBack
  <2> QED
      BY <2>1, <2>2
<1>3. I => TypeOK /\ SnapshotIsTheTail /\ ChunksDoNotMatter /\ LittleIsHeldBack
  <2> SUFFICES ASSUME I PROVE TypeOK /\ SnapshotIsTheTail /\ ChunksDoNotMatter /\ LittleIsHeldBack
      OBVIOUS
  <2>1. SnapshotIsTheTail
      BY SnapshotOfKept DEF SnapshotIsTheTail, ParserInv, RingInv
  <2>2. TypeOK
      BY DEF TypeOK, ParserInv, RingInv, Keeps, RingType
  <2> QED
      BY <2>1, <2>2 DEF ParserInv
<1> QED
    BY <1>1, <1>2, <1>3, PTL DEF Spec

-------------------------------------------------------------------------------
(* The log.                                                                  *)

\* An event, or a line of the log.
Item == [cmd : Cmds, running : BOOLEAN]

\* Where a sequence of items speaks of a command.
Of(s, c) == {i \in DOMAIN s : s[i].cmd = c}

\* Where a command is after an item was appended.
LEMMA OfAppended ==
    ASSUME NEW s \in Seq(Item), NEW e \in Item, NEW c
    PROVE  /\ Append(s, e) \in Seq(Item)
           /\ Of(Append(s, e), c) = IF e.cmd = c THEN Of(s, c) \cup {Len(s) + 1} ELSE Of(s, c)
           /\ \A i \in Of(s, c) : i \in 1 .. Len(s) /\ Append(s, e)[i] = s[i]
           /\ Append(s, e)[Len(s) + 1] = e
<1> DEFINE t == Append(s, e)
<1>1. t \in Seq(Item) /\ Len(t) = Len(s) + 1 /\ Len(s) \in Nat /\ t[Len(s) + 1] = e
      /\ DOMAIN t = 1 .. Len(s) + 1 /\ DOMAIN s = 1 .. Len(s)
      /\ \A i \in 1 .. Len(s) : t[i] = s[i]
    OBVIOUS
<1> HIDE DEF t
<1>2. \A i \in 1 .. Len(s) + 1 : i \in 1 .. Len(s) \/ i = Len(s) + 1
    BY <1>1
<1>3. ~(Len(s) + 1 \in 1 .. Len(s))
    BY <1>1
<1>4. Of(t, c) = IF e.cmd = c THEN Of(s, c) \cup {Len(s) + 1} ELSE Of(s, c)
    BY <1>1, <1>2, <1>3 DEF Of
<1> QED
    BY <1>1, <1>4 DEF Of, t

\* Where a command is after the first item was taken.
LEMMA OfTail ==
    ASSUME NEW s \in Seq(Item), s # <<>>, NEW c
    PROVE  /\ Tail(s) \in Seq(Item) /\ Head(s) \in Item /\ Head(s) = s[1]
           /\ \A i : i \in Of(s, c) /\ i # 1 => i - 1 \in Of(Tail(s), c) /\ Tail(s)[i - 1] = s[i]
           /\ \A i \in Of(Tail(s), c) : i + 1 \in Of(s, c) /\ i \in Nat \ {0}
           /\ Of(s, c) \subseteq Nat \ {0}
           /\ Head(s).cmd = c <=> 1 \in Of(s, c)
<1> DEFINE t == Tail(s)
<1>1. t \in Seq(Item) /\ Len(t) = Len(s) - 1 /\ Len(s) \in Nat \ {0} /\ Head(s) = s[1]
      /\ DOMAIN t = 1 .. Len(s) - 1 /\ DOMAIN s = 1 .. Len(s) /\ Head(s) \in Item
      /\ \A i \in 1 .. Len(s) - 1 : t[i] = s[i + 1]
    OBVIOUS
<1> HIDE DEF t
<1>2. ASSUME NEW i, i \in Of(s, c), i # 1
      PROVE  i - 1 \in Of(t, c) /\ t[i - 1] = s[i]
  <2>1. i \in 1 .. Len(s) /\ i - 1 \in 1 .. Len(s) - 1 /\ (i - 1) + 1 = i /\ s[i].cmd = c
      BY <1>1, <1>2 DEF Of
  <2> QED
      BY <2>1, <1>1 DEF Of
<1>3. ASSUME NEW i \in Of(t, c)
      PROVE  i + 1 \in Of(s, c) /\ i \in Nat \ {0}
  <2>1. i \in 1 .. Len(s) - 1 /\ i + 1 \in 1 .. Len(s) /\ t[i] = s[i + 1] /\ t[i].cmd = c
      BY <1>1, <1>3 DEF Of
  <2> QED
      BY <2>1, <1>1 DEF Of
<1>4. 1 \in 1 .. Len(s) /\ Of(s, c) \subseteq Nat \ {0}
    BY <1>1 DEF Of
<1> QED
    BY <1>1, <1>2, <1>3, <1>4 DEF Of, t

\* An exit is matched by its own running line when there is one.
LEMMA MatchIsItsOwn ==
    ASSUME activity \in Seq(Item), NEW c, NEW j, Of(activity, c) = {j}, activity[j].running
    PROVE  CK!Match(c) = j /\ j \in 1 .. Len(activity)
<1>1. CK!Running(c) = {j}
    BY DEF CK!Running, Of
<1>2. j \in DOMAIN activity /\ DOMAIN activity = 1 .. Len(activity) /\ Len(activity) \in Nat
    BY DEF Of
<1>3. CK!Newest({j}) = j
  <2>1. \A k \in {j} : k <= j
      BY <1>2
  <2> QED
      BY <2>1 DEF CK!Newest
<1> QED
    BY <1>1, <1>2, <1>3 DEF CK!Match

\* Where the news of a command is: on its way, or in its line.
Followed(k, ev, act, c) ==
    \/ k = "new" /\ Of(ev, c) = {} /\ Of(act, c) = {}
    \/ /\ k = "running" /\ Of(act, c) = {}
       /\ \E i : Of(ev, c) = {i} /\ ev[i].running
    \/ /\ k = "running" /\ Of(ev, c) = {}
       /\ \E j : Of(act, c) = {j} /\ act[j].running
    \/ /\ k = "ended" /\ Of(act, c) = {}
       /\ \E i, j : Of(ev, c) = {i, j} /\ i < j /\ ev[i].running /\ ~ev[j].running
    \/ /\ k = "ended"
       /\ \E i : Of(ev, c) = {i} /\ ~ev[i].running
       /\ \E j : Of(act, c) = {j} /\ act[j].running
    \/ /\ k = "ended" /\ Of(ev, c) = {}
       /\ \E j : Of(act, c) = {j} /\ ~act[j].running

\* Each command's news is somewhere.
LogInv ==
    /\ runs \in [Cmds -> {"new", "running", "ended"}]
    /\ events \in Seq(Item) /\ activity \in Seq(Item)
    /\ \A c \in Cmds : Followed(runs[c], events, activity, c)

\* A command that starts is in the stream.
LEMMA RunFollowed ==
    ASSUME LogInv, NEW c \in Cmds, CK!Run(c)
    PROVE  LogInv'
<1> DEFINE e == [cmd |-> c, running |-> TRUE]
<1>1. e \in Item /\ e.cmd = c /\ e.running
    BY DEF Item
<1>2. events' = Append(events, e) /\ activity' = activity /\ runs[c] = "new"
      /\ runs' = [runs EXCEPT ![c] = "running"]
    BY DEF CK!Run
<1>3. runs' \in [Cmds -> {"new", "running", "ended"}] /\ runs'[c] = "running"
      /\ \A d \in Cmds : d # c => runs'[d] = runs[d]
    BY <1>2 DEF LogInv
<1> HIDE DEF e
<1>4. ASSUME NEW d \in Cmds
      PROVE  Followed(runs'[d], events', activity', d)
  <2>1. /\ Of(events', d) = IF e.cmd = d THEN Of(events, d) \cup {Len(events) + 1} ELSE Of(events, d)
        /\ \A i \in Of(events, d) : events'[i] = events[i]
        /\ events'[Len(events) + 1] = e
      BY <1>1, <1>2, OfAppended DEF LogInv
  <2>2. Followed(runs[d], events, activity, d)
      BY DEF LogInv
  <2>3. CASE d = c
    <3>1. Of(events, c) = {} /\ Of(activity, c) = {}
        BY <2>2, <2>3, <1>2 DEF Followed
    <3> QED
        BY <3>1, <2>1, <2>3, <1>1, <1>2, <1>3 DEF Followed
  <2>4. CASE d # c
      BY <2>1, <2>2, <2>4, <1>1, <1>2, <1>3 DEF Followed
  <2> QED
      BY <2>3, <2>4
<1>5. events' \in Seq(Item)
    BY <1>1, <1>2, OfAppended DEF LogInv
<1> QED
    BY <1>2, <1>3, <1>4, <1>5 DEF LogInv

\* So is its end, after its start.
LEMMA ExitFollowed ==
    ASSUME LogInv, NEW c \in Cmds, CK!Exit(c)
    PROVE  LogInv'
<1> DEFINE e == [cmd |-> c, running |-> FALSE]
           n == Len(events) + 1
<1>1. e \in Item /\ e.cmd = c /\ e.running = FALSE
    BY DEF Item
<1>2. events' = Append(events, e) /\ activity' = activity /\ runs[c] = "running"
      /\ runs' = [runs EXCEPT ![c] = "ended"]
    BY DEF CK!Exit
<1>3. runs' \in [Cmds -> {"new", "running", "ended"}] /\ runs'[c] = "ended"
      /\ \A d \in Cmds : d # c => runs'[d] = runs[d]
    BY <1>2 DEF LogInv
<1> HIDE DEF e
<1>4. ASSUME NEW d \in Cmds
      PROVE  Followed(runs'[d], events', activity', d)
  <2>1. /\ Of(events', d) = IF e.cmd = d THEN Of(events, d) \cup {n} ELSE Of(events, d)
        /\ \A i \in Of(events, d) : i < n /\ events'[i] = events[i]
        /\ events'[n] = e
    <3>1. Len(events) \in Nat
        BY DEF LogInv
    <3>2. /\ Of(events', d) = IF e.cmd = d THEN Of(events, d) \cup {n} ELSE Of(events, d)
          /\ \A i \in Of(events, d) : i \in 1 .. Len(events) /\ events'[i] = events[i]
          /\ events'[n] = e
        BY <1>1, <1>2, OfAppended DEF LogInv
    <3> QED
        BY <3>1, <3>2
  <2>2. Followed(runs[d], events, activity, d)
      BY DEF LogInv
  <2> HIDE DEF n
  <2>3. CASE d = c
    <3>1. CASE Of(events, c) = {} /\ \E j : Of(activity, c) = {j} /\ activity[j].running
      <4>1. Of(events', c) = {n} /\ ~events'[n].running
          BY <3>1, <2>1, <2>3, <1>1
      <4> QED
          BY <4>1, <3>1, <2>3, <1>2, <1>3 DEF Followed
    <3>2. CASE Of(activity, c) = {} /\ \E i : Of(events, c) = {i} /\ events[i].running
      <4>1. PICK i : Of(events, c) = {i} /\ events[i].running
          BY <3>2
      <4>2. Of(events', c) = {i, n} /\ i < n /\ events'[i].running /\ ~events'[n].running
          BY <4>1, <2>1, <2>3, <1>1
      <4> QED
          BY <4>2, <3>2, <2>3, <1>2, <1>3 DEF Followed
    <3> QED
        BY <3>1, <3>2, <2>2, <2>3, <1>2 DEF Followed
  <2>4. CASE d # c
    <3>1. Of(events', d) = Of(events, d) /\ activity' = activity /\ runs'[d] = runs[d]
        BY <2>1, <2>4, <1>1, <1>2, <1>3
    <3> QED
        BY <3>1, <2>1, <2>2 DEF Followed
  <2> QED
      BY <2>3, <2>4
<1>5. events' \in Seq(Item)
    BY <1>1, <1>2, OfAppended DEF LogInv
<1> QED
    BY <1>2, <1>3, <1>4, <1>5 DEF LogInv

\* The events of a command after the first event is taken, were it not its own.
LEMMA OthersStay ==
    ASSUME events \in Seq(Item), events # <<>>, NEW d, Head(events).cmd # d
    PROVE  /\ Of(events, d) = {} => Of(Tail(events), d) = {}
           /\ \A i : Of(events, d) = {i} =>
                 Of(Tail(events), d) = {i - 1} /\ Tail(events)[i - 1] = events[i]
           /\ \A i, j : Of(events, d) = {i, j} /\ i < j =>
                 /\ Of(Tail(events), d) = {i - 1, j - 1} /\ i - 1 < j - 1
                 /\ Tail(events)[i - 1] = events[i] /\ Tail(events)[j - 1] = events[j]
<1> DEFINE t == Tail(events)
<1>1. /\ \A i : i \in Of(events, d) /\ i # 1 => i - 1 \in Of(t, d) /\ t[i - 1] = events[i]
      /\ \A i \in Of(t, d) : i + 1 \in Of(events, d) /\ i \in Nat \ {0}
      /\ Of(events, d) \subseteq Nat \ {0}
      /\ 1 \notin Of(events, d)
    BY OfTail
<1> HIDE DEF t
<1>2. \A i \in Of(t, d) : i = (i + 1) - 1
    BY <1>1
<1>3. ASSUME NEW i, Of(events, d) = {i}
      PROVE  Of(t, d) = {i - 1} /\ t[i - 1] = events[i]
    BY <1>1, <1>2, <1>3
<1>4. ASSUME NEW i, NEW j, Of(events, d) = {i, j}, i < j
      PROVE  /\ Of(t, d) = {i - 1, j - 1} /\ i - 1 < j - 1
             /\ t[i - 1] = events[i] /\ t[j - 1] = events[j]
  <2>1. i \in Nat \ {0} /\ j \in Nat \ {0} /\ i # 1 /\ j # 1
      BY <1>1, <1>4
  <2>2. i - 1 \in Of(t, d) /\ j - 1 \in Of(t, d) /\ t[i - 1] = events[i] /\ t[j - 1] = events[j]
      BY <1>1, <1>4, <2>1
  <2>3. \A k \in Of(t, d) : k = i - 1 \/ k = j - 1
      BY <1>1, <1>2, <1>4
  <2> QED
      BY <1>4, <2>1, <2>2, <2>3
<1>5. Of(events, d) = {} => Of(t, d) = {}
    BY <1>1
<1> QED
    BY <1>3, <1>4, <1>5 DEF t

\* And where it was its own.
LEMMA OwnGoes ==
    ASSUME events \in Seq(Item), events # <<>>, NEW c, Head(events).cmd = c
    PROVE  /\ \A i : Of(events, c) = {i} => i = 1 /\ Of(Tail(events), c) = {}
           /\ \A i, j : Of(events, c) = {i, j} /\ i < j =>
                 /\ i = 1 /\ Of(Tail(events), c) = {j - 1} /\ Tail(events)[j - 1] = events[j]
<1> DEFINE t == Tail(events)
<1>1. /\ \A i : i \in Of(events, c) /\ i # 1 => i - 1 \in Of(t, c) /\ t[i - 1] = events[i]
      /\ \A i \in Of(t, c) : i + 1 \in Of(events, c) /\ i \in Nat \ {0}
      /\ Of(events, c) \subseteq Nat \ {0}
      /\ 1 \in Of(events, c)
    BY OfTail
<1> HIDE DEF t
<1>2. \A i \in Of(t, c) : i = (i + 1) - 1 /\ i + 1 # 1
    BY <1>1
<1>3. ASSUME NEW i, Of(events, c) = {i}
      PROVE  i = 1 /\ Of(t, c) = {}
    BY <1>1, <1>2, <1>3
<1>4. ASSUME NEW i, NEW j, Of(events, c) = {i, j}, i < j
      PROVE  i = 1 /\ Of(t, c) = {j - 1} /\ t[j - 1] = events[j]
  <2>1. i \in Nat \ {0} /\ j \in Nat \ {0}
      BY <1>1, <1>4
  <2>2. i = 1
      BY <1>1, <1>4, <2>1
  <2>3. j # 1
      BY <1>4, <2>1, <2>2
  <2>4. \A k \in Of(t, c) : k = j - 1
      BY <1>1, <1>2, <1>4, <2>2
  <2> QED
      BY <1>1, <1>4, <2>2, <2>3, <2>4
<1> QED
    BY <1>3, <1>4 DEF t

\* Another command's event is taken, and its line is what changes.
LEMMA FollowedElsewhere ==
    ASSUME NEW k, NEW ev, NEW act, NEW evs, NEW acts, NEW d, Followed(k, ev, act, d),
           Of(ev, d) = {} => Of(evs, d) = {},
           \A i : Of(ev, d) = {i} => Of(evs, d) = {i - 1} /\ evs[i - 1] = ev[i],
           \A i, j : Of(ev, d) = {i, j} /\ i < j =>
               /\ Of(evs, d) = {i - 1, j - 1} /\ i - 1 < j - 1
               /\ evs[i - 1] = ev[i] /\ evs[j - 1] = ev[j],
           Of(acts, d) = Of(act, d), \A i \in Of(act, d) : acts[i] = act[i]
    PROVE  Followed(k, evs, acts, d)
<1>1. \A j : Of(act, d) = {j} => Of(acts, d) = {j} /\ acts[j] = act[j]
    OBVIOUS
<1>2. CASE \E i, j : Of(ev, d) = {i, j} /\ i < j /\ ev[i].running /\ ~ev[j].running
                    /\ k = "ended" /\ Of(act, d) = {}
  <2>1. \E i, j : Of(evs, d) = {i, j} /\ i < j /\ evs[i].running /\ ~evs[j].running
    <3>1. PICK i, j : Of(ev, d) = {i, j} /\ i < j /\ ev[i].running /\ ~ev[j].running
        BY <1>2
    <3>2. /\ Of(evs, d) = {i - 1, j - 1} /\ i - 1 < j - 1
          /\ evs[i - 1] = ev[i] /\ evs[j - 1] = ev[j]
        BY <3>1
    <3> QED
        BY <3>1, <3>2
  <2> QED
      BY <2>1, <1>2 DEF Followed
<1>3. CASE \E i : Of(ev, d) = {i}
  <2>1. PICK i : Of(ev, d) = {i} /\ Of(evs, d) = {i - 1} /\ evs[i - 1] = ev[i]
      BY <1>3
  <2>2. \A x : Of(ev, d) = {x} => x = i
      BY <2>1
  <2>3. CASE k = "running" /\ Of(act, d) = {} /\ ev[i].running
      BY <2>1, <2>3 DEF Followed
  <2>4. CASE k = "ended" /\ ~ev[i].running /\ \E j : Of(act, d) = {j} /\ act[j].running
      BY <2>1, <2>4, <1>1 DEF Followed
  <2>5. CASE \E x, y : Of(ev, d) = {x, y} /\ x < y /\ ev[x].running /\ ~ev[y].running
                      /\ k = "ended" /\ Of(act, d) = {}
      BY <2>5, <1>2
  <2> QED
      BY <2>1, <2>2, <2>3, <2>4, <2>5 DEF Followed
<1>4. CASE Of(ev, d) = {}
  <2>1. Of(evs, d) = {}
      BY <1>4
  <2> QED
      BY <2>1, <1>1, <1>4 DEF Followed
<1> QED
    BY <1>2, <1>3, <1>4 DEF Followed

\* An event that is taken from the stream is in its command's line.
LEMMA AddFollowed ==
    ASSUME LogInv, CK!Add
    PROVE  LogInv'
<1> DEFINE e == Head(events)
           c == e.cmd
           at == IF e.running THEN 0 ELSE CK!Match(c)
<1>1. /\ events # <<>> /\ events' = Tail(events) /\ runs' = runs
      /\ activity' = IF at = 0 THEN Append(activity, e) ELSE [activity EXCEPT ![at] = e]
    BY DEF CK!Add
<1>2. e \in Item /\ e = events[1] /\ events' \in Seq(Item) /\ 1 \in Of(events, c)
    BY <1>1, OfTail DEF LogInv
<1>3. c \in Cmds /\ e.running \in BOOLEAN
    BY <1>2 DEF Item
<1> HIDE DEF e, c
<1>4. Followed(runs[c], events, activity, c)
    BY <1>3 DEF LogInv
<1>5. \/ e.running /\ Of(activity, c) = {}
      \/ ~e.running /\ \E j : Of(activity, c) = {j} /\ activity[j].running
  <2>1. \A i : Of(events, c) = {i} => i = 1
      BY <1>1, OwnGoes DEF c, e, LogInv
  <2>2. \A i, j : Of(events, c) = {i, j} /\ i < j => i = 1
      BY <1>1, OwnGoes DEF c, e, LogInv
  <2> QED
      BY <2>1, <2>2, <1>2, <1>4 DEF Followed
<1>6. \A d \in Cmds \ {c} :
          /\ Of(events, d) = {} => Of(events', d) = {}
          /\ \A i : Of(events, d) = {i} => Of(events', d) = {i - 1} /\ events'[i - 1] = events[i]
          /\ \A i, j : Of(events, d) = {i, j} /\ i < j =>
                 /\ Of(events', d) = {i - 1, j - 1} /\ i - 1 < j - 1
                 /\ events'[i - 1] = events[i] /\ events'[j - 1] = events[j]
    BY <1>1, OthersStay DEF c, e, LogInv
<1>7. /\ \A i : Of(events, c) = {i} => i = 1 /\ Of(events', c) = {}
      /\ \A i, j : Of(events, c) = {i, j} /\ i < j =>
             i = 1 /\ Of(events', c) = {j - 1} /\ events'[j - 1] = events[j]
    BY <1>1, OwnGoes DEF c, e, LogInv
<1>8. CASE e.running
  <2>1. activity' = Append(activity, e)
      BY <1>1, <1>8
  <2>2. /\ activity' \in Seq(Item)
        /\ \A d \in Cmds \ {c} : Of(activity', d) = Of(activity, d)
                                 /\ \A i \in Of(activity, d) : activity'[i] = activity[i]
        /\ Of(activity', c) = {Len(activity) + 1} /\ activity'[Len(activity) + 1].running
      BY <2>1, <1>2, <1>5, <1>8, OfAppended DEF LogInv, c
  <2>3. ASSUME NEW d \in Cmds
        PROVE  Followed(runs[d], events', activity', d)
    <3>1. Followed(runs[d], events, activity, d)
        BY DEF LogInv
    <3>2. CASE d # c
      <4>1. d \in Cmds \ {c}
          BY <3>2
      <4>2. /\ Of(events, d) = {} => Of(events', d) = {}
            /\ \A i : Of(events, d) = {i} =>
                   Of(events', d) = {i - 1} /\ events'[i - 1] = events[i]
            /\ \A i, j : Of(events, d) = {i, j} /\ i < j =>
                   /\ Of(events', d) = {i - 1, j - 1} /\ i - 1 < j - 1
                   /\ events'[i - 1] = events[i] /\ events'[j - 1] = events[j]
          BY <4>1, <1>6
      <4>3. Of(activity', d) = Of(activity, d)
            /\ \A i \in Of(activity, d) : activity'[i] = activity[i]
          BY <4>1, <2>2
      <4> QED
          BY <4>2, <4>3, <3>1, FollowedElsewhere
    <3>3. CASE d = c
      <4>1. CASE runs[c] = "running" /\ Of(events, c) = {1}
          BY <4>1, <3>3, <2>2, <1>7 DEF Followed
      <4>2. CASE runs[c] = "ended" /\ \E j : Of(events, c) = {1, j} /\ 1 < j /\ ~events[j].running
        <5>1. PICK j : Of(events, c) = {1, j} /\ 1 < j /\ ~events[j].running
            BY <4>2
        <5>2. Of(events', c) = {j - 1} /\ ~events'[j - 1].running
            BY <5>1, <1>7
        <5> QED
            BY <5>2, <4>2, <3>3, <2>2 DEF Followed
      <4> QED
          BY <4>1, <4>2, <1>2, <1>4, <1>5, <1>7, <1>8 DEF Followed
    <3> QED
        BY <3>2, <3>3
  <2> QED
      BY <2>2, <2>3, <1>1, <1>2 DEF LogInv
<1>9. CASE ~e.running
  <2>1. PICK j : Of(activity, c) = {j} /\ activity[j].running
      BY <1>5, <1>9
  <2>2. CK!Match(c) = j /\ j \in 1 .. Len(activity)
      BY <2>1, MatchIsItsOwn DEF LogInv
  <2>3. activity' = [activity EXCEPT ![j] = e]
      BY <2>2, <1>1, <1>9
  <2>4. activity' \in Seq(Item) /\ DOMAIN activity' = DOMAIN activity /\ activity'[j] = e
        /\ \A i \in DOMAIN activity : i # j => activity'[i] = activity[i]
      BY <2>2, <2>3, <1>2 DEF LogInv
  <2>5. /\ \A d \in Cmds \ {c} : Of(activity', d) = Of(activity, d)
                                 /\ \A i \in Of(activity, d) : activity'[i] = activity[i]
        /\ Of(activity', c) = {j} /\ ~activity'[j].running
    <3>1. \A i \in DOMAIN activity : i = j <=> activity[i].cmd = c
        BY <2>1 DEF Of
    <3>2. \A i \in DOMAIN activity : i = j <=> activity'[i].cmd = c
        BY <3>1, <2>4 DEF c
    <3> QED
        BY <3>1, <3>2, <2>1, <2>4, <1>9 DEF Of
  <2>6. ASSUME NEW d \in Cmds
        PROVE  Followed(runs[d], events', activity', d)
    <3>1. Followed(runs[d], events, activity, d)
        BY DEF LogInv
    <3>2. CASE d # c
      <4>1. d \in Cmds \ {c}
          BY <3>2
      <4>2. /\ Of(events, d) = {} => Of(events', d) = {}
            /\ \A i : Of(events, d) = {i} =>
                   Of(events', d) = {i - 1} /\ events'[i - 1] = events[i]
            /\ \A x, y : Of(events, d) = {x, y} /\ x < y =>
                   /\ Of(events', d) = {x - 1, y - 1} /\ x - 1 < y - 1
                   /\ events'[x - 1] = events[x] /\ events'[y - 1] = events[y]
          BY <4>1, <1>6
      <4>3. Of(activity', d) = Of(activity, d)
            /\ \A i \in Of(activity, d) : activity'[i] = activity[i]
          BY <4>1, <2>5
      <4> QED
          BY <4>2, <4>3, <3>1, FollowedElsewhere
    <3>3. CASE d = c
      <4>1. runs[c] = "ended" /\ Of(events, c) = {1}
          BY <1>2, <1>4, <1>7, <1>9, <2>1 DEF Followed
      <4> QED
          BY <4>1, <3>3, <2>5, <1>7 DEF Followed
    <3> QED
        BY <3>2, <3>3
  <2> QED
      BY <2>4, <2>6, <1>1, <1>2 DEF LogInv
<1> QED
    BY <1>3, <1>8, <1>9

\* For any commands, sessions and loads.
THEOREM CockpitEachHasItsLine == CK!Spec => []CK!EachHasItsLine
<1>1. CK!Init => LogInv
  <2> SUFFICES ASSUME CK!Init PROVE LogInv
      OBVIOUS
  <2>1. <<>> \in Seq(Item) /\ \A c : Of(<<>>, c) = {}
      BY DEF Of
  <2> QED
      BY <2>1 DEF CK!Init, LogInv, Followed
<1>2. LogInv /\ [CK!Next]_(CK!vars) => LogInv'
  <2> SUFFICES ASSUME LogInv, [CK!Next]_(CK!vars) PROVE LogInv'
      OBVIOUS
  <2>1. CASE \E c \in Cmds : CK!Run(c) \/ CK!Exit(c)
      BY <2>1, RunFollowed, ExitFollowed
  <2>2. CASE CK!Add
      BY <2>2, AddFollowed
  <2>3. CASE UNCHANGED <<runs, events, activity>>
    <3>1. runs' = runs /\ events' = events /\ activity' = activity
        BY <2>3
    <3> QED
        BY <3>1 DEF LogInv
  <2>4. (\E s \in Sessions : CK!Open(s) \/ CK!End(s)) \/ CK!Refresh \/ (\E l \in loads : CK!TakeState(l))
        \/ CK!MoveSelection(1) \/ CK!MoveSelection(-1) \/ CK!AskBackend \/ CK!Cancel \/ CK!Answer \/ CK!Attach
        \/ CK!AttachEnds \/ UNCHANGED CK!vars
        => UNCHANGED <<runs, events, activity>>
      BY DEF CK!Open, CK!End, CK!Refresh, CK!TakeState, CK!MoveSelection, CK!AskBackend,
             CK!Cancel, CK!Answer, CK!Attach,
             CK!AttachEnds, CK!vars
  <2> QED
      BY <2>1, <2>2, <2>3, <2>4 DEF CK!Next
<1>3. LogInv => CK!EachHasItsLine
  <2> SUFFICES ASSUME LogInv, events = <<>>, NEW c \in Cmds
               PROVE  Cardinality({i \in DOMAIN activity :
                          activity[i] = [cmd |-> c, running |-> runs[c] = "running"]})
                          = IF runs[c] = "new" THEN 0 ELSE 1
      BY DEF CK!EachHasItsLine, CK!Cardinality, Cardinality
  <2> DEFINE L == {i \in DOMAIN activity :
                      activity[i] = [cmd |-> c, running |-> runs[c] = "running"]}
  <2>1. Of(events, c) = {} /\ Followed(runs[c], events, activity, c)
      BY DEF LogInv, Of
  <2>2. L \subseteq Of(activity, c)
      BY DEF Of
  <2>3. CASE runs[c] = "new"
    <3>1. L = {}
        BY <2>1, <2>2, <2>3 DEF Followed
    <3> QED
        BY <3>1, <2>3, FS_EmptySet
  <2>4. CASE runs[c] # "new"
    <3>1. PICK j : Of(activity, c) = {j} /\ (activity[j].running <=> runs[c] = "running")
        BY <2>1, <2>4 DEF Followed
    <3>2. j \in DOMAIN activity /\ activity[j] \in Item /\ activity[j].cmd = c
        BY <3>1 DEF Of, LogInv
    <3>3. activity[j] = [cmd |-> c, running |-> runs[c] = "running"]
        BY <3>1, <3>2 DEF Item
    <3>4. L = {j}
        BY <2>2, <3>1, <3>2, <3>3
    <3> QED
        BY <3>4, <2>4, FS_Singleton
  <2> QED
      BY <2>3, <2>4
<1> QED
    BY <1>1, <1>2, <1>3, PTL DEF CK!Spec

-------------------------------------------------------------------------------
(* The tree.                                                                 *)

\* The trees that are made on the way.
Trees == [under : [Pids -> SUBSET (Pids \X (Pids \cup {None}))], roots : SUBSET Pids,
          shown : {{}}]

\* Each pid is listed once.
OrderInv ==
    /\ order \in Seq(Pids) /\ \A i, j \in DOMAIN order : order[i] = order[j] => i = j
    /\ ppid \in [Pids -> Pids \cup {None}]

\* A pid is taken out of the order, and the rest stays.
LEMMA WithoutIs ==
    ASSUME OrderInv, NEW p \in Pids
    PROVE  LET w == ET!Without(order, p) IN
           /\ w \in Seq(Pids) /\ \A i, j \in DOMAIN w : w[i] = w[j] => i = j
           /\ {w[i] : i \in DOMAIN w} = ET!Tracked \ {p}
<1> DEFINE n == Len(order)
           w == ET!Without(order, p)
<1>1. n \in Nat /\ DOMAIN order = 1 .. n /\ \A i \in 1 .. n : order[i] \in Pids
    BY DEF OrderInv
<1>2. CASE p \notin ET!Tracked
  <2>1. w = order
      BY <1>2 DEF ET!Without
  <2> QED
      BY <2>1, <1>2 DEF OrderInv, ET!Tracked
<1>3. CASE p \in ET!Tracked
  <2> DEFINE k == CHOOSE i \in DOMAIN order : order[i] = p
             a == SubSeq(order, 1, k - 1)
             b == SubSeq(order, k + 1, n)
  <2>1. k \in 1 .. n /\ order[k] = p
      BY <1>1, <1>3 DEF ET!Tracked
  <2>2. w = a \o b
      BY <1>3 DEF ET!Without, ET!RemoveAt
  <2> HIDE DEF k, n, w
  <2>3. /\ a \in Seq(Pids) /\ Len(a) = k - 1 /\ \A i \in 1 .. k - 1 : a[i] = order[i]
        /\ b \in Seq(Pids) /\ Len(b) = n - k /\ \A i \in 1 .. n - k : b[i] = order[k + i]
    <3>1. order \in Seq(Pids) /\ Len(order) = n
        BY DEF OrderInv, n
    <3>2. 1 \in 1 .. Len(order) + 1 /\ k - 1 \in 1 - 1 .. Len(order)
          /\ k + 1 \in 1 .. Len(order) + 1 /\ n \in (k + 1) - 1 .. Len(order)
        BY <1>1, <2>1, <3>1
    <3>3. /\ a \in Seq(Pids) /\ Len(a) = (k - 1) - 1 + 1
          /\ \A i \in 1 .. (k - 1) - 1 + 1 : a[i] = order[1 + i - 1]
        BY <3>1, <3>2, SubSeqProperties
    <3>4. /\ b \in Seq(Pids) /\ Len(b) = n - (k + 1) + 1
          /\ \A i \in 1 .. n - (k + 1) + 1 : b[i] = order[k + 1 + i - 1]
        BY <3>1, <3>2, SubSeqProperties
    <3> QED
        BY <3>3, <3>4, <1>1, <2>1
  <2> HIDE DEF a, b
  <2>4. /\ w \in Seq(Pids) /\ DOMAIN w = 1 .. n - 1
        /\ \A i \in 1 .. n - 1 : w[i] = order[IF i < k THEN i ELSE i + 1]
    <3>1. /\ w \in Seq(Pids) /\ Len(w) = Len(a) + Len(b)
          /\ \A i \in 1 .. Len(a) + Len(b) : w[i] = IF i <= Len(a) THEN a[i] ELSE b[i - Len(a)]
        BY <2>2, <2>3, ConcatProperties
    <3>2. Len(a) + Len(b) = n - 1
        BY <1>1, <2>1, <2>3
    <3>3. ASSUME NEW i \in 1 .. n - 1 PROVE w[i] = order[IF i < k THEN i ELSE i + 1]
      <4>1. CASE i < k
          BY <4>1, <3>1, <3>2, <3>3, <2>1, <2>3, <1>1
      <4>2. CASE ~(i < k)
        <5>1. i - Len(a) \in 1 .. n - k /\ k + (i - Len(a)) = i + 1 /\ ~(i <= Len(a))
            BY <4>2, <3>3, <2>1, <2>3, <1>1
        <5> QED
            BY <5>1, <4>2, <3>1, <3>2, <3>3, <2>3
      <4> QED
          BY <4>1, <4>2
    <3> QED
        BY <3>1, <3>2, <3>3
  <2>5. \A i, j \in DOMAIN order : order[i] = order[j] => i = j
      BY DEF OrderInv
  <2> DEFINE m(i) == IF i < k THEN i ELSE i + 1
  <2>m. \A i \in 1 .. n - 1 : m(i) \in 1 .. n /\ m(i) # k /\ w[i] = order[m(i)]
        /\ \A j \in 1 .. n - 1 : m(i) = m(j) => i = j
      BY <2>1, <2>4, <1>1
  <2> HIDE DEF m
  <2>6. ASSUME NEW i \in DOMAIN w, NEW j \in DOMAIN w, w[i] = w[j]
        PROVE  i = j
    <3>1. i \in 1 .. n - 1 /\ j \in 1 .. n - 1
        BY <2>4
    <3>2. order[m(i)] = order[m(j)] /\ m(i) \in DOMAIN order /\ m(j) \in DOMAIN order
        BY <3>1, <2>m, <2>6, <1>1
    <3>3. m(i) = m(j)
        BY <3>2, <2>5
    <3> QED
        BY <3>1, <3>3, <2>m
  <2>7. \A i \in DOMAIN w : w[i] \in ET!Tracked /\ w[i] # p
    <3> TAKE i \in DOMAIN w
    <3>1. m(i) \in DOMAIN order /\ m(i) # k /\ w[i] = order[m(i)] /\ k \in DOMAIN order
        BY <2>1, <2>4, <2>m, <1>1
    <3>2. order[m(i)] # order[k]
        BY <3>1, <2>5
    <3> QED
        BY <3>1, <3>2, <2>1 DEF ET!Tracked
  <2>8. ASSUME NEW q \in ET!Tracked, q # p
        PROVE  \E i \in DOMAIN w : w[i] = q
    <3>1. PICK j \in 1 .. n : order[j] = q
        BY <1>1 DEF ET!Tracked
    <3>2. CASE j < k
        BY <3>1, <3>2, <2>1, <2>4, <1>1
    <3>3. CASE j > k
      <4>1. j - 1 \in 1 .. n - 1 /\ ~(j - 1 < k) /\ (j - 1) + 1 = j
          BY <3>1, <3>3, <2>1, <1>1
      <4> QED
          BY <4>1, <3>1, <2>4
    <3> QED
        BY <3>1, <3>2, <3>3, <2>1, <2>8, <1>1
  <2> QED
      BY <2>4, <2>6, <2>7, <2>8 DEF w
<1> QED
    BY <1>2, <1>3

\* A pid that was not listed is put last.
LEMMA AppendedIs ==
    ASSUME NEW w \in Seq(Pids), NEW p \in Pids, \A i, j \in DOMAIN w : w[i] = w[j] => i = j,
           p \notin {w[i] : i \in DOMAIN w}
    PROVE  LET x == Append(w, p) IN
           /\ x \in Seq(Pids) /\ \A i, j \in DOMAIN x : x[i] = x[j] => i = j
           /\ {x[i] : i \in DOMAIN x} = {w[i] : i \in DOMAIN w} \cup {p}
<1> DEFINE x == Append(w, p)
           n == Len(w)
<1>1. x \in Seq(Pids) /\ n \in Nat /\ DOMAIN x = 1 .. n + 1 /\ x[n + 1] = p
      /\ DOMAIN w = 1 .. n /\ \A i \in 1 .. n : x[i] = w[i]
    OBVIOUS
<1> HIDE DEF x, n
<1>2. \A i \in 1 .. n + 1 : i \in 1 .. n \/ i = n + 1
    BY <1>1
<1>3. 1 .. n \subseteq 1 .. n + 1 /\ n + 1 \in 1 .. n + 1
    BY <1>1
<1>4. \A i \in 1 .. n : x[i] # p
    BY <1>1
<1> QED
    BY <1>1, <1>2, <1>3, <1>4 DEF x

\* Whatever starts, is replaced or ends.
LEMMA OrderStep ==
    ASSUME OrderInv, ET!Tracked \cap ended = {}, ended \subseteq Pids, ET!Next
    PROVE  OrderInv' /\ (ET!Tracked \cap ended = {})' /\ ended' \subseteq Pids
<1>1. CASE \E p \in Pids : ET!Exit(p)
  <2>1. PICK p \in Pids : ET!Exit(p)
      BY <1>1
  <2>2. order' = ET!Without(order, p) /\ ended' = ended \cup {p} /\ ppid' = ppid
      BY <2>1 DEF ET!Exit
  <2> DEFINE w == ET!Without(order, p)
  <2>w. /\ w \in Seq(Pids) /\ \A i, j \in DOMAIN w : w[i] = w[j] => i = j
        /\ {w[i] : i \in DOMAIN w} = ET!Tracked \ {p}
      BY WithoutIs
  <2>v. order' = w
      BY <2>2
  <2> HIDE DEF w
  <2>3. ET!Tracked' = ET!Tracked \ {p} /\ OrderInv'
    <3>1. ET!Tracked' = {w[i] : i \in DOMAIN w}
        BY <2>v DEF ET!Tracked
    <3> QED
        BY <3>1, <2>w, <2>v, <2>2 DEF OrderInv
  <2> QED
      BY <2>2, <2>3
<1>2. CASE \E p \in Pids : \E parent \in Pids \cup {None} : ET!Exec(p, parent)
  <2>1. PICK p \in Pids, parent \in Pids \cup {None} : ET!Exec(p, parent)
      BY <1>2
  <2> DEFINE w == ET!Without(order, p)
  <2>2. order' = Append(w, p) /\ ended' = ended /\ p \notin ended
        /\ ppid' = [ppid EXCEPT ![p] = parent]
      BY <2>1 DEF ET!Exec
  <2>3. /\ w \in Seq(Pids) /\ \A i, j \in DOMAIN w : w[i] = w[j] => i = j
        /\ {w[i] : i \in DOMAIN w} = ET!Tracked \ {p}
      BY WithoutIs
  <2> HIDE DEF w
  <2>4. p \notin {w[i] : i \in DOMAIN w}
      BY <2>3
  <2>5. /\ order' \in Seq(Pids) /\ \A i, j \in DOMAIN order' : order'[i] = order'[j] => i = j
        /\ ET!Tracked' = {w[i] : i \in DOMAIN w} \cup {p}
      BY <2>2, <2>3, <2>4, AppendedIs DEF ET!Tracked
  <2>6. ppid' \in [Pids -> Pids \cup {None}]
      BY <2>2 DEF OrderInv
  <2> QED
      BY <2>2, <2>3, <2>5, <2>6 DEF OrderInv
<1> QED
    BY <1>1, <1>2 DEF ET!Next

\* Placing a record makes a tree.
LEMMA PlaceType ==
    ASSUME OrderInv, NEW t \in Trees, NEW p \in ET!Tracked
    PROVE  ET!Place(t, p) \in Trees
<1>1. p \in Pids /\ ET!Tracked \subseteq Pids /\ ppid[p] \in Pids \cup {None}
    BY DEF OrderInv, ET!Tracked
<1>2. CASE ppid[p] \in ET!Tracked
  <2> DEFINE u == [t.under EXCEPT ![ppid[p]] = @ \cup {<<p, ppid[p]>>} \cup t.under[p]]
  <2>1. u \in [Pids -> SUBSET (Pids \X (Pids \cup {None}))]
      BY <1>1, <1>2 DEF Trees
  <2>2. ET!Place(t, p) = [t EXCEPT !.under = u]
      BY <1>2 DEF ET!Place
  <2> HIDE DEF u
  <2>3. ET!Place(t, p) = [under |-> u, roots |-> t.roots, shown |-> t.shown]
      BY <2>2 DEF Trees
  <2> QED
      BY <2>1, <2>3 DEF Trees
<1>3. CASE ppid[p] \notin ET!Tracked
  <2>1. ET!Place(t, p) = [under |-> t.under, roots |-> t.roots \cup {p}, shown |-> t.shown]
      BY <1>3 DEF ET!Place, Trees
  <2> QED
      BY <2>1, <1>1 DEF Trees
<1> QED
    BY <1>2, <1>3

\* Placing keeps what was placed, and shows the new one.
LEMMA PlaceKeeps ==
    ASSUME OrderInv, NEW t \in Trees, NEW p \in ET!Tracked
    PROVE  /\ t.roots \subseteq ET!Place(t, p).roots
           /\ \A q \in Pids : t.under[q] \subseteq ET!Place(t, p).under[q]
           /\ ppid[p] \notin ET!Tracked => p \in ET!Place(t, p).roots
           /\ ppid[p] \in ET!Tracked => <<p, ppid[p]>> \in ET!Place(t, p).under[ppid[p]]
<1>1. p \in Pids /\ ET!Tracked \subseteq Pids
    BY DEF OrderInv, ET!Tracked
<1>2. CASE ppid[p] \in ET!Tracked
  <2> DEFINE u == [t.under EXCEPT ![ppid[p]] = @ \cup {<<p, ppid[p]>>} \cup t.under[p]]
  <2>1. ET!Place(t, p) = [t EXCEPT !.under = u]
      BY <1>2 DEF ET!Place
  <2>2. (\A q \in Pids : t.under[q] \subseteq u[q]) /\ <<p, ppid[p]>> \in u[ppid[p]]
      BY <1>1, <1>2 DEF Trees
  <2> HIDE DEF u
  <2>3. ET!Place(t, p).under = u /\ ET!Place(t, p).roots = t.roots
      BY <2>1 DEF Trees
  <2> QED
      BY <2>2, <2>3, <1>2
<1>3. CASE ppid[p] \notin ET!Tracked
  <2>1. ET!Place(t, p).under = t.under /\ ET!Place(t, p).roots = t.roots \cup {p}
      BY <1>3 DEF ET!Place, Trees
  <2> QED
      BY <2>1, <1>3
<1> QED
    BY <1>2, <1>3

\* By the time all are placed, a root is among the roots and its children are under it.
LEMMA TreeShows ==
    ASSUME OrderInv
    PROVE  ET!RootsShowTheirOwn
<1> DEFINE n == Len(order)
           tree[i \in 0 .. Len(order)] == IF i = 0 THEN ET!Bare ELSE ET!Place(tree[i - 1], order[i])
           step == [i \in 1 .. n |-> [t \in Trees |-> ET!Place(t, order[i])]]
           Def(f) == f = [i \in 0 .. Len(order) |->
                             IF i = 0 THEN ET!Bare ELSE ET!Place(f[i - 1], order[i])]
<1>1. n \in Nat /\ \A i \in 1 .. n : order[i] \in ET!Tracked
    BY DEF OrderInv, ET!Tracked
<1>2. ET!Bare \in Trees
    BY DEF ET!Bare, Trees
<1>3. \A i \in 1 .. n : \A t \in Trees : step[i][t] = ET!Place(t, order[i]) /\ step[i][t] \in Trees
    BY <1>1, PlaceType
<1>4. ET!Tree = tree[n].shown \cup UNION {{<<p, ppid[p]>>} \cup tree[n].under[p] : p \in tree[n].roots}
    BY DEF ET!Tree
<1>5. tree = CHOOSE f : Def(f)
    OBVIOUS
<1> HIDE DEF step, tree, n
<1>6. PICK f \in [0 .. n -> Trees] :
          f = [i \in 0 .. n |-> IF i = 0 THEN ET!Bare ELSE step[i][f[i - 1]]]
  <2>1. Steps(Trees, n, ET!Bare, step)
      BY <1>2, <1>3 DEF Steps
  <2>2. Iterated(Trees, n, ET!Bare, step)
      BY <2>1, <1>1, Iteration
  <2> QED
      BY <2>2 DEF Iterated
<1>7. ASSUME NEW i \in 1 .. n
      PROVE  f[i] = ET!Place(f[i - 1], order[i]) /\ f[i - 1] \in Trees
  <2>1. i \in 0 .. n /\ i - 1 \in 0 .. n /\ i # 0
      BY <1>1
  <2>2. f[i] = step[i][f[i - 1]] /\ f[i - 1] \in Trees
      BY <1>6, <2>1
  <2> QED
      BY <2>2, <1>3
<1>8. f[0] = ET!Bare
    BY <1>1, <1>6
<1>9. \E g : Def(g)
  <2>1. \A i \in 0 .. n : f[i] = IF i = 0 THEN ET!Bare ELSE ET!Place(f[i - 1], order[i])
    <3> TAKE i \in 0 .. n
    <3>1. i = 0 \/ i \in 1 .. n
        BY <1>1
    <3> QED
        BY <3>1, <1>7, <1>8
  <2>2. f = [i \in 0 .. n |-> IF i = 0 THEN ET!Bare ELSE ET!Place(f[i - 1], order[i])]
      BY <2>1, <1>6
  <2> QED
      BY <2>2 DEF n
<1>10. Def(tree)
    BY <1>5, <1>9
<1>11. /\ tree[0] = ET!Bare /\ \A i \in 1 .. n : tree[i] = ET!Place(tree[i - 1], order[i])
  <2>1. tree = [i \in 0 .. n |-> IF i = 0 THEN ET!Bare ELSE ET!Place(tree[i - 1], order[i])]
      BY <1>10 DEF n
  <2> HIDE DEF Def
  <2>2. \A i \in 1 .. n : i \in 0 .. n /\ i # 0
      BY <1>1
  <2> QED
      BY <2>1, <2>2, <1>1
<1> HIDE DEF Def
<1> DEFINE Shows(t, i) ==
               /\ ppid[order[i]] \notin ET!Tracked => order[i] \in t.roots
               /\ ppid[order[i]] \in ET!Tracked =>
                      <<order[i], ppid[order[i]]>> \in t.under[ppid[order[i]]]
           T == {k \in Nat : k <= n => tree[k] \in Trees /\ \A i \in 1 .. k : Shows(tree[k], i)}
<1>12. 0 \in T
    BY <1>2, <1>11
<1>13. ASSUME NEW k \in Nat, k \in T PROVE k + 1 \in T
  <2>0. SUFFICES ASSUME k + 1 <= n
                 PROVE  tree[k + 1] \in Trees /\ \A i \in 1 .. k + 1 : Shows(tree[k + 1], i)
      OBVIOUS
  <2>1. k + 1 \in 1 .. n /\ (k + 1) - 1 = k
      BY <1>1, <2>0
  <2>2. tree[k] \in Trees /\ \A i \in 1 .. k : Shows(tree[k], i)
      BY <1>13, <1>1, <2>0
  <2>3. tree[k + 1] = ET!Place(tree[k], order[k + 1]) /\ order[k + 1] \in ET!Tracked
      BY <2>1, <1>1, <1>11
  <2>4. /\ tree[k + 1] \in Trees
        /\ tree[k].roots \subseteq tree[k + 1].roots
        /\ \A q \in Pids : tree[k].under[q] \subseteq tree[k + 1].under[q]
        /\ Shows(tree[k + 1], k + 1)
      BY <2>2, <2>3, PlaceType, PlaceKeeps
  <2>5. ASSUME NEW i \in 1 .. k + 1 PROVE Shows(tree[k + 1], i)
    <3>1. CASE i = k + 1
        BY <3>1, <2>4
    <3>2. CASE i \in 1 .. k
      <4>1. ET!Tracked \subseteq Pids
          BY DEF OrderInv, ET!Tracked
      <4> QED
          BY <4>1, <3>2, <2>2, <2>4
    <3> QED
        BY <3>1, <3>2
  <2> QED
      BY <2>4, <2>5
<1>14. tree[n] \in Trees /\ \A i \in 1 .. n : Shows(tree[n], i)
  <2>1. Nat \subseteq T
      BY <1>12, <1>13, NatInduct
  <2>2. n \in T /\ n <= n
      BY <2>1, <1>1
  <2> HIDE DEF Shows
  <2> QED
      BY <2>2
<1>15. \A p \in ET!Tracked : \E i \in 1 .. n : order[i] = p
    BY DEF ET!Tracked, OrderInv, n
<1>16. ASSUME NEW p \in ET!Tracked, ppid[p] \notin ET!Tracked \/ ppid[ppid[p]] \notin ET!Tracked
       PROVE  <<p, ppid[p]>> \in ET!Tree
  <2>1. PICK i \in 1 .. n : order[i] = p
      BY <1>15
  <2>2. CASE ppid[p] \notin ET!Tracked
    <3>1. p \in tree[n].roots
        BY <2>1, <2>2, <1>14
    <3> QED
        BY <3>1, <1>4
  <2>3. CASE ppid[p] \in ET!Tracked
    <3>1. <<p, ppid[p]>> \in tree[n].under[ppid[p]]
        BY <2>1, <2>3, <1>14
    <3>2. PICK j \in 1 .. n : order[j] = ppid[p]
        BY <2>3, <1>15
    <3>3. ppid[p] \in tree[n].roots
        BY <3>2, <2>3, <1>14, <1>16
    <3> QED
        BY <3>1, <3>3, <1>4
  <2> QED
      BY <2>2, <2>3
<1> QED
    BY <1>16 DEF ET!RootsShowTheirOwn

\* For any processes.
THEOREM ExecTreeRootsShowTheirOwn == ET!Spec => [](ET!TypeOK /\ ET!RootsShowTheirOwn)
<1> DEFINE I == OrderInv /\ ET!Tracked \cap ended = {} /\ ended \subseteq Pids
<1>1. ET!Init => I
    BY DEF ET!Init, OrderInv, ET!Tracked
<1>2. I /\ [ET!Next]_(ET!vars) => I'
  <2>1. I /\ ET!Next => I'
      BY OrderStep
  <2>2. I /\ UNCHANGED ET!vars => I'
      BY DEF ET!vars, OrderInv, ET!Tracked
  <2> QED
      BY <2>1, <2>2
<1>3. I => ET!TypeOK /\ ET!RootsShowTheirOwn
    BY TreeShows DEF ET!TypeOK, OrderInv
<1> QED
    BY <1>1, <1>2, <1>3, PTL DEF ET!Spec

-------------------------------------------------------------------------------
(* The mounts of a pod.                                                        *)

\* What a sequence holds.
In(s) == {s[i] : i \in DOMAIN s}

\* Nothing is twice in it.
Single(s) == \A i, j \in DOMAIN s : s[i] = s[j] => i = j

\* The mounts there may be.
Given == {MO!Rec(r) : r \in DOMAIN Mounts} \cup In(Config)

\* All that may be asked for.
Reqs == DOMAIN Mounts \cup DOMAIN Unmounts

\* The paths there may be, and the names in them.
Paths == {x.at : x \in Given} \cup {x.src : x \in Given} \cup Places
Words == UNION {In(p) : p \in Paths}

\* One id is one mount, and a path a sequence of names.
Named ==
    /\ \A x \in Given : /\ x.at \in Seq(Words) /\ x.src \in Seq(Words)
                        /\ x.id \in DOMAIN Mounts \cup MO!Ids(Config)
                        /\ x.owner \in MO!Owners
    /\ \A x, y \in Given : x.id = y.id => x = y
    /\ \A r \in DOMAIN Mounts : MO!Rec(r) \notin In(Config) /\ Mounts[r].owner # Pod
    /\ DOMAIN Mounts \cap DOMAIN Unmounts = {} /\ None \notin Given
    /\ Places \subseteq Seq(Words)

\* The config names each path once, a directory before what lies in it.
Ordered ==
    /\ Config \in Seq(In(Config)) /\ Single(Config)
    /\ \A i, j \in DOMAIN MO!Planned : i < j => ~MO!Under(MO!Planned[i].at, MO!Planned[j].at)

\* What is unmounted of the config has nothing of it below; requests come one by one,
\* and when a mount may fail to be bound, nobody else asks for its path.
OneAtOnce ==
    /\ "together" \notin FaultKinds
    /\ \A u \in DOMAIN Unmounts, x, y \in In(Config) :
          MO!Hit(u, x) /\ x # y => ~MO!Under(y.at, x.at)
    /\ "bind" \in FaultKinds =>
          \A r, q \in DOMAIN Mounts : Mounts[r].at = Mounts[q].at => r = q

\* What the proof asks of a pod and of what is asked of it.
Composed == Named /\ Ordered /\ OneAtOnce

\* The steps of a mount, of an unmount, and of both.
MountSteps == {"none", "add", "append", "bind", "drop", "rebuild", "store", "reconcile",
               "ok", "refused", "failed", "dropped"}
Unmounting == {"sessions", "unbind", "release", "forget"}
UnmountSteps == Unmounting \cup {"none", "rebuild", "store", "reconcile", "strand", "ok",
                                 "refused", "failed"}

\* Where a request is.
Step(r) == req[r].step

\* What the variables hold; no mount is listed twice, nor bound twice.
Types ==
    /\ {list, kernel, tbl, told} \subseteq Seq(Given)
    /\ Single(list) /\ Single(kernel)
    /\ fuse \subseteq DOMAIN Mounts \cup MO!Ids(Config)
    /\ req \in [Reqs -> [step : MountSteps \cup UnmountSteps, hit : Seq(Given),
                         all : Seq(Given), rules : Seq(Given)]]
    /\ \A r \in DOMAIN Mounts : Step(r) \in MountSteps
    /\ \A u \in DOMAIN Unmounts : Step(u) \in UnmountSteps
    /\ cwd \in [MountSessions -> Places \cup {<<>>}]
    /\ on \in [MountSessions -> MO!Owners \cup {Pod}]

\* What is listed beside a runtime mount stands alone, and so does a runtime mount that
\* has been checked.
Apart ==
    /\ \A x, y \in In(list) : x.id \in DOMAIN Mounts /\ x # y => ~MO!Clash(x, y)
    /\ \A r \in DOMAIN Mounts :
          /\ Step(r) \in {"add", "append"} => \A x \in In(list) : ~MO!Clash(MO!Rec(r), x)
          /\ Step(r) \in {"none", "add", "append", "refused", "failed", "dropped"} => MO!Rec(r) \notin In(list)
          /\ Step(r) \notin {"none", "refused"} => \A x \in In(list) : x \in In(Config) => ~MO!Clash(MO!Rec(r), x)
    /\ \A r, q \in DOMAIN Mounts :
          Step(r) \in {"add", "append"} /\ Step(q) \in {"add", "append"} => r = q

\* What an unmount is to remove.
Hits ==
    /\ \A u, v \in DOMAIN Unmounts : Step(u) \in Unmounting /\ Step(v) \in Unmounting => u = v
    /\ \A u \in DOMAIN Unmounts :
          /\ Step(u) \in Unmounting =>
                /\ req[u].hit # <<>> /\ Single(req[u].hit)
                /\ In(req[u].hit) \subseteq In(req[u].all)
                /\ \A x \in In(req[u].hit) :
                      /\ MO!Hit(u, x)
                      /\ \/ x \in In(list)
                         \/ x.id \in DOMAIN Mounts /\ Step(x.id) = "dropped"
          /\ Step(u) \in {"release", "forget"} => Head(req[u].hit) \in In(list)
          /\ Step(u) \in {"rebuild", "store", "reconcile", "strand", "ok"} => req[u].hit = <<>> /\ req[u].all # <<>>
          /\ Len(req[u].hit) <= Len(req[u].all)
    /\ \A r \in DOMAIN Mounts : Step(r) \in {"drop", "dropped"} => "bind" \in FaultKinds

\* A mount is listed and bound, or somebody is about to do the rest.
Binding(x) == x.id \in DOMAIN Mounts /\ Step(x.id) \in {"bind", "drop"}

\* An unmount is done with its bind, and not yet with its entry.
Leaving(x) == \E u \in DOMAIN Unmounts : Step(u) \in {"release", "forget"} /\ x = Head(req[u].hit)

\* Of two binds, the later never hides the earlier.
Binds ==
    /\ In(kernel) \subseteq In(list)
    /\ \A x \in In(list) : ~(Binding(x) /\ Leaving(x))
    /\ \A x \in In(list) : x \in In(kernel) <=> ~Binding(x) /\ ~Leaving(x)
    /\ \A i, j \in DOMAIN kernel : i < j => ~MO!Under(kernel[i].at, kernel[j].at)
    /\ \A r \in DOMAIN Mounts : Step(r) \in {"bind", "drop"} => MO!Rec(r) \in In(list)

\* And it is served, unless it is the pod's own.
Serves ==
    /\ \A r \in DOMAIN Mounts : Step(r) = "append" => r \in fuse
    /\ \A id \in fuse : \/ \E x \in In(list) : x.id = id /\ x.owner # Pod
                        \/ id \in DOMAIN Mounts /\ Step(id) = "append"
    /\ \A x \in In(list) : x.owner # Pod =>
          (x.id \in fuse <=>
             /\ ~(x.id \in DOMAIN Mounts /\ Step(x.id) = "drop")
             /\ ~\E u \in DOMAIN Unmounts : Step(u) = "forget" /\ x = Head(req[u].hit))

\* Who has changed the list and has not yet made a table of it, and who never will.
Behind(r) ==
    \/ r \in DOMAIN Mounts /\ Step(r) \in {"bind", "drop", "dropped", "rebuild"}
    \/ /\ r \in DOMAIN Unmounts /\ Len(req[r].hit) < Len(req[r].all)
       /\ Step(r) \in {"unbind", "release", "forget", "failed", "rebuild"}

\* An unmount has failed half way.
Broken == \E r \in Reqs : MO!Half(r)

\* The table is the list, but for those.
Fresh ==
    /\ \A r, q \in Reqs : Step(r) = "store" /\ Step(q) = "store" => r = q
    /\ \A r \in Reqs : Step(r) = "store" /\ (\A q \in Reqs : ~Behind(q)) => req[r].rules = list
    /\ (\A r \in Reqs : Step(r) # "store" /\ ~Behind(r)) => tbl = list

\* An unmount that is at one of these steps has removed a mount of the machine m.
Removed(u, steps) == Step(u) \in steps /\ Len(req[u].hit) < Len(req[u].all)

\* And the machine m has a mount it was to remove.
Lost(m, steps) == \E u \in DOMAIN Unmounts : Removed(u, steps) /\ \E x \in In(req[u].all) : x.owner = m

\* From its first change to the list, until a table is made, stored, and the sessions
\* are sent back.
Before == {"unbind", "release", "forget", "rebuild"}
Routing == Before \cup {"store"}
Ending == Before \cup {"store", "reconcile", "strand"}

\* A machine the pod knows: itself, one that is declared, or one with a mount.
Has(m) == m = Pod \/ m \in Machines \/ \E x \in In(list) : x.owner = m

\* Whoever is on a machine that is gone is about to be sent back.
Stays ==
    Broken \/
    /\ \A r \in Reqs : Step(r) = "store" =>
          \A x \in In(req[r].rules) : Has(x.owner) \/ Lost(x.owner, Before)
    /\ \A x \in In(tbl) : Has(x.owner) \/ Lost(x.owner, Routing)
    /\ \A s \in MountSessions : Has(on[s]) \/ Lost(on[s], Ending)

\* What the nodes have that is listed no longer, they are about to be told of.
Tells ==
    \/ Broken
    \/ In(told) \subseteq In(list)
    \/ \E u \in DOMAIN Unmounts : Removed(u, Before \cup {"store", "reconcile"})

\* The invariant.
MountInv == Types /\ Apart /\ Hits /\ Binds /\ Serves /\ Fresh /\ Stays /\ Tells

\* k is what s has at the places of which up to n, in its order.
Picks(k, s, which, n, e) ==
    /\ e \in [1 .. Len(k) -> 1 .. n]
    /\ \A i \in 1 .. Len(k) : k[i] = s[e[i]] /\ e[i] \in which
    /\ \A i, j \in 1 .. Len(k) : i < j => e[i] < e[j]
    /\ \A j \in 1 .. n : j \in which => \E i \in 1 .. Len(k) : e[i] = j

\* There is a way to have taken it so.
Picked(k, s, which, n) == \E e : Picks(k, s, which, n, e)

\* One place more, taken or not.
LEMMA PickOne ==
    ASSUME NEW S, NEW s \in Seq(S), NEW which, NEW n \in Nat, n + 1 \in 1 .. Len(s),
           NEW k \in Seq(S), Picked(k, s, which, n)
    PROVE  /\ n + 1 \in which => Picked(Append(k, s[n + 1]), s, which, n + 1)
           /\ n + 1 \notin which => Picked(k, s, which, n + 1)
<1>1. PICK e : Picks(k, s, which, n, e)
    BY DEF Picked
<1>2. Len(k) \in Nat /\ DOMAIN k = 1 .. Len(k)
    OBVIOUS
<1>3. ASSUME n + 1 \in which PROVE Picked(Append(k, s[n + 1]), s, which, n + 1)
  <2> DEFINE t == Append(k, s[n + 1])
             d == [i \in 1 .. Len(k) + 1 |-> IF i <= Len(k) THEN e[i] ELSE n + 1]
  <2>1. /\ Len(t) = Len(k) + 1 /\ t[Len(k) + 1] = s[n + 1]
        /\ \A i \in 1 .. Len(k) : t[i] = k[i]
      OBVIOUS
  <2>0. ASSUME NEW i \in 1 .. Len(k) PROVE d[i] = e[i] /\ e[i] \in 1 .. n
    <3>1. i \in 1 .. Len(k) + 1 /\ i <= Len(k)
        BY <1>2
    <3>2. d[i] = e[i]
        BY <3>1
    <3> QED
        BY <3>2, <1>1 DEF Picks
  <2>2. \A i \in 1 .. Len(k) : d[i] = e[i] /\ e[i] \in 1 .. n
      BY <2>0
  <2>3. d[Len(k) + 1] = n + 1
      BY <1>2
  <2>4. d \in [1 .. Len(k) + 1 -> 1 .. n + 1]
    <3>1. ASSUME NEW i \in 1 .. Len(k) + 1 PROVE d[i] \in 1 .. n + 1
      <4>1. i \in 1 .. Len(k) \/ i = Len(k) + 1
          BY <1>2
      <4> QED
          BY <4>1, <2>0, <2>3
    <3> QED
        BY <3>1
  <2> HIDE DEF t, d
  <2>5. \A i \in 1 .. Len(k) + 1 : t[i] = s[d[i]] /\ d[i] \in which
      BY <1>1, <1>2, <1>3, <2>1, <2>2, <2>3 DEF Picks
  <2>6. \A i, j \in 1 .. Len(k) + 1 : i < j => d[i] < d[j]
    <3> TAKE i, j \in 1 .. Len(k) + 1
    <3> HAVE i < j
    <3>1. i \in 1 .. Len(k) /\ (j \in 1 .. Len(k) \/ j = Len(k) + 1)
        BY <1>2
    <3>2. d[i] = e[i] /\ e[i] \in 1 .. n
        BY <3>1, <2>2
    <3>3. CASE j \in 1 .. Len(k)
      <4>1. e[i] < e[j]
          BY <1>1, <3>1, <3>3 DEF Picks
      <4>2. d[j] = e[j]
          BY <3>3, <2>2
      <4> QED
          BY <4>1, <4>2, <3>2
    <3>4. CASE j = Len(k) + 1
        BY <3>2, <3>4, <2>3
    <3> QED
        BY <3>1, <3>3, <3>4
  <2>7. \A j \in 1 .. n + 1 : j \in which => \E i \in 1 .. Len(k) + 1 : d[i] = j
    <3> TAKE j \in 1 .. n + 1
    <3> HAVE j \in which
    <3>1. CASE j = n + 1
        BY <2>3, <1>2, <3>1
    <3>2. CASE j \in 1 .. n
      <4>1. PICK i \in 1 .. Len(k) : e[i] = j
          BY <3>2, <1>1 DEF Picks
      <4>2. d[i] = j /\ i \in 1 .. Len(k) + 1
          BY <4>1, <2>0, <1>2
      <4> QED
          BY <4>2
    <3> QED
        BY <3>1, <3>2
  <2>8. Picks(t, s, which, n + 1, d)
      BY <2>1, <2>4, <2>5, <2>6, <2>7 DEF Picks
  <2> QED
      BY <2>8 DEF Picked, t
<1>4. ASSUME n + 1 \notin which PROVE Picked(k, s, which, n + 1)
  <2>1. e \in [1 .. Len(k) -> 1 .. n + 1]
      BY <1>1 DEF Picks
  <2>2. \A j \in 1 .. n + 1 : j \in which => \E i \in 1 .. Len(k) : e[i] = j
      BY <1>1, <1>4 DEF Picks
  <2>3. Picks(k, s, which, n + 1, e)
      BY <1>1, <2>1, <2>2 DEF Picks
  <2> QED
      BY <2>3 DEF Picked
<1> QED
    BY <1>3, <1>4

\* Keeping places of a sequence gives what is there (mount.go removeMount).
LEMMA KeptPicks ==
    ASSUME NEW S, NEW s \in Seq(S), NEW which
    PROVE  MO!Kept(s, which) \in Seq(S) /\ Picked(MO!Kept(s, which), s, which, Len(s))
<1> DEFINE n == Len(s)
           step == [i \in 1 .. n |-> [a \in Seq(S) |-> IF i \in which THEN Append(a, s[i]) ELSE a]]
           f == [i \in 0 .. n |-> CHOOSE x : x = i]
<1>0. n \in Nat /\ \A i \in 1 .. n : s[i] \in S
    OBVIOUS
<1>1. Steps(Seq(S), n, <<>>, step)
  <2>1. \A i \in 1 .. n : \A a \in Seq(S) : step[i][a] \in Seq(S)
      BY <1>0
  <2>2. <<>> \in Seq(S)
      OBVIOUS
  <2> QED
      BY <2>1, <2>2 DEF Steps
<1>2. Iterated(Seq(S), n, <<>>, step)
    BY <1>0, <1>1, Iteration
<1>3. PICK g \in [0 .. n -> Seq(S)] :
          g = [i \in 0 .. n |-> IF i = 0 THEN <<>> ELSE step[i][g[i - 1]]]
    BY <1>2 DEF Iterated
<1>4. g = [i \in 0 .. n |-> IF i = 0 THEN <<>>
                            ELSE IF i \in which THEN Append(g[i - 1], s[i]) ELSE g[i - 1]]
  <2>1. ASSUME NEW i \in 0 .. n, i # 0 PROVE i \in 1 .. n /\ g[i - 1] \in Seq(S)
    <3>1. i \in 1 .. n /\ i - 1 \in 0 .. n
        BY <1>0, <2>1
    <3> QED
        BY <1>3, <3>1
  <2>2. \A i \in 0 .. n : g[i] = IF i = 0 THEN <<>>
                            ELSE IF i \in which THEN Append(g[i - 1], s[i]) ELSE g[i - 1]
      BY <1>3, <2>1
  <2> QED
      BY <1>3, <2>2
<1> DEFINE Eq(h) == h = [i \in 0 .. Len(s) |-> IF i = 0 THEN <<>>
                            ELSE IF i \in which THEN Append(h[i - 1], s[i]) ELSE h[i - 1]]
           h == CHOOSE x : Eq(x)
<1>5. Eq(h)
    BY <1>4
<1>6. MO!Kept(s, which) = h[Len(s)]
    BY DEF MO!Kept
<1> HIDE DEF h, step
<1>7. h[0] = <<>>
    BY <1>5, <1>0
<1>8. \A i \in 0 .. n : i # 0 => h[i] = IF i \in which THEN Append(h[i - 1], s[i]) ELSE h[i - 1]
    BY <1>5, <1>0
<1> HIDE DEF Eq
<1> DEFINE T == {i \in Nat : i <= n => h[i] \in Seq(S) /\ Picked(h[i], s, which, i)}
<1>9. 0 \in T
  <2>1. Picks(<<>>, s, which, 0, <<>>)
      BY DEF Picks
  <2>2. Picked(<<>>, s, which, 0) /\ <<>> \in Seq(S)
      BY <2>1 DEF Picked
  <2> QED
      BY <2>2, <1>7
<1>10. ASSUME NEW i \in Nat, i \in T PROVE i + 1 \in T
  <2> SUFFICES ASSUME i + 1 <= n PROVE h[i + 1] \in Seq(S) /\ Picked(h[i + 1], s, which, i + 1)
      OBVIOUS
  <2>1. i + 1 \in 1 .. Len(s) /\ h[i] \in Seq(S) /\ Picked(h[i], s, which, i)
      BY <1>0, <1>10
  <2>2. h[i + 1] = IF i + 1 \in which THEN Append(h[i], s[i + 1]) ELSE h[i]
    <3>1. i + 1 \in 0 .. n /\ i + 1 # 0 /\ (i + 1) - 1 = i
        BY <1>0
    <3> QED
        BY <3>1, <1>8
  <2>3. /\ i + 1 \in which => Picked(Append(h[i], s[i + 1]), s, which, i + 1)
        /\ i + 1 \notin which => Picked(h[i], s, which, i + 1)
      BY <2>1, PickOne
  <2>4. s[i + 1] \in S
      BY <2>1
  <2> QED
      BY <2>1, <2>2, <2>3, <2>4
<1> HIDE DEF T
<1>11. Nat \subseteq T
    BY <1>9, <1>10, NatInduct
<1> QED
    BY <1>0, <1>6, <1>11 DEF T

\* As sets: what is kept is in its places, in its order, once if it was once.
LEMMA KeptIs ==
    ASSUME NEW S, NEW s \in Seq(S), NEW which
    PROVE  /\ MO!Kept(s, which) \in Seq(S)
           /\ In(MO!Kept(s, which)) = {s[i] : i \in {j \in DOMAIN s : j \in which}}
           /\ Single(s) => Single(MO!Kept(s, which))
           /\ \A i, j \in DOMAIN MO!Kept(s, which) : i < j =>
                 \E a, b \in DOMAIN s : /\ a < b /\ a \in which /\ b \in which
                                        /\ MO!Kept(s, which)[i] = s[a]
                                        /\ MO!Kept(s, which)[j] = s[b]
<1> DEFINE k == MO!Kept(s, which)
<1>1. k \in Seq(S) /\ Picked(k, s, which, Len(s))
    BY KeptPicks
<1> HIDE DEF k
<1>2. PICK e : Picks(k, s, which, Len(s), e)
    BY <1>1 DEF Picked
<1>3. DOMAIN k = 1 .. Len(k) /\ DOMAIN s = 1 .. Len(s) /\ Len(k) \in Nat
    BY <1>1
<1>4. In(k) = {s[i] : i \in {j \in DOMAIN s : j \in which}}
  <2>1. ASSUME NEW i \in DOMAIN k
        PROVE  k[i] \in {s[j] : j \in {l \in DOMAIN s : l \in which}}
    <3>1. k[i] = s[e[i]] /\ e[i] \in which /\ e[i] \in DOMAIN s
        BY <1>2, <1>3 DEF Picks
    <3> QED
        BY <3>1
  <2>2. ASSUME NEW j \in DOMAIN s, j \in which PROVE s[j] \in In(k)
    <3>1. PICK i \in DOMAIN k : e[i] = j
        BY <1>2, <1>3, <2>2 DEF Picks
    <3>2. k[i] = s[j]
        BY <1>2, <1>3, <3>1 DEF Picks
    <3> QED
        BY <3>2 DEF In
  <2> QED
      BY <2>1, <2>2 DEF In
<1>5. ASSUME Single(s) PROVE Single(k)
  <2> SUFFICES ASSUME NEW i \in DOMAIN k, NEW j \in DOMAIN k, k[i] = k[j] PROVE i = j
      BY DEF Single
  <2>1. e[i] = e[j]
      BY <1>2, <1>3, <1>5 DEF Picks, Single
  <2>2. ~(i < j) /\ ~(j < i)
      BY <1>2, <1>3, <2>1 DEF Picks
  <2> QED
      BY <2>2, <1>3
<1>6. ASSUME NEW i \in DOMAIN k, NEW j \in DOMAIN k, i < j
      PROVE \E a, b \in DOMAIN s : /\ a < b /\ a \in which /\ b \in which
                                   /\ k[i] = s[a] /\ k[j] = s[b]
  <2>1. /\ e[i] < e[j] /\ e[i] \in which /\ e[j] \in which /\ e[i] \in DOMAIN s
        /\ e[j] \in DOMAIN s
        /\ k[i] = s[e[i]] /\ k[j] = s[e[j]]
      BY <1>2, <1>3, <1>6 DEF Picks
  <2> QED
      BY <2>1
<1> QED
    BY <1>1, <1>4, <1>5, <1>6 DEF k

\* A sequence without a mount.
LEMMA LeftIs ==
    ASSUME NEW S, NEW s \in Seq(S), NEW id
    PROVE  /\ MO!Without(s, id) \in Seq(S) /\ In(MO!Without(s, id)) = {x \in In(s) : x.id # id}
           /\ Single(s) => Single(MO!Without(s, id))
<1> DEFINE which == {i \in DOMAIN s : s[i].id # id}
<1>1. MO!Without(s, id) = MO!Kept(s, which)
    BY DEF MO!Without
<1>2. {s[i] : i \in {j \in DOMAIN s : j \in which}} = {x \in In(s) : x.id # id}
    BY DEF In
<1> HIDE DEF which
<1> QED
    BY <1>1, <1>2, KeptIs

\* And with one more.
LEMMA AppendIs ==
    ASSUME NEW S, NEW s \in Seq(S), NEW x \in S
    PROVE  /\ Append(s, x) \in Seq(S) /\ In(Append(s, x)) = In(s) \cup {x}
           /\ Single(s) /\ x \notin In(s) => Single(Append(s, x))
<1> DEFINE t == Append(s, x)
<1>1. /\ t \in Seq(S) /\ DOMAIN s = 1 .. Len(s) /\ DOMAIN t = 1 .. Len(s) + 1
      /\ Len(s) \in Nat
      /\ \A i \in 1 .. Len(s) : t[i] = s[i]
      /\ t[Len(s) + 1] = x
    OBVIOUS
<1> HIDE DEF t
<1>2. In(t) = In(s) \cup {x}
  <2>1. ASSUME NEW i \in DOMAIN t PROVE t[i] \in In(s) \cup {x}
    <3>1. i \in 1 .. Len(s) \/ i = Len(s) + 1
        BY <1>1
    <3> QED
        BY <3>1, <1>1 DEF In
  <2>2. ASSUME NEW i \in DOMAIN s PROVE s[i] \in In(t)
    <3>1. i \in DOMAIN t /\ t[i] = s[i]
        BY <1>1
    <3> QED
        BY <3>1 DEF In
  <2>3. x \in In(t)
    <3>1. Len(s) + 1 \in DOMAIN t
        BY <1>1
    <3> QED
        BY <3>1, <1>1 DEF In
  <2> QED
      BY <2>1, <2>2, <2>3 DEF In
<1>3. ASSUME Single(s), x \notin In(s) PROVE Single(t)
  <2> SUFFICES ASSUME NEW i \in DOMAIN t, NEW j \in DOMAIN t, t[i] = t[j] PROVE i = j
      BY DEF Single
  <2>1. (i \in 1 .. Len(s) \/ i = Len(s) + 1) /\ (j \in 1 .. Len(s) \/ j = Len(s) + 1)
      BY <1>1
  <2>2. \A l \in 1 .. Len(s) : t[l] # x
      BY <1>1, <1>3 DEF In
  <2>3. CASE i \in 1 .. Len(s) /\ j \in 1 .. Len(s)
      BY <2>3, <1>1, <1>3 DEF Single
  <2> QED
      BY <2>1, <2>2, <2>3, <1>1
<1> QED
    BY <1>1, <1>2, <1>3 DEF t

\* What is left after the first.
LEMMA TailIs ==
    ASSUME NEW S, NEW s \in Seq(S), s # <<>>, Single(s)
    PROVE  /\ Tail(s) \in Seq(S) /\ Head(s) \in In(s) /\ Len(Tail(s)) = Len(s) - 1
           /\ In(Tail(s)) = In(s) \ {Head(s)} /\ Single(Tail(s))
<1> DEFINE t == Tail(s)
<1>1. /\ t \in Seq(S) /\ DOMAIN s = 1 .. Len(s) /\ DOMAIN t = 1 .. Len(s) - 1
      /\ Len(s) \in Nat \ {0} /\ Len(t) = Len(s) - 1 /\ Head(s) = s[1]
      /\ \A i \in 1 .. Len(s) - 1 : t[i] = s[i + 1]
    OBVIOUS
<1> HIDE DEF t
<1>2. Head(s) \in In(s)
  <2>1. 1 \in DOMAIN s
      BY <1>1
  <2> QED
      BY <2>1, <1>1 DEF In
<1>3. In(t) = In(s) \ {Head(s)}
  <2>1. ASSUME NEW i \in DOMAIN t PROVE t[i] \in In(s) \ {Head(s)}
    <3>1. i + 1 \in DOMAIN s /\ 1 \in DOMAIN s /\ i + 1 # 1 /\ t[i] = s[i + 1]
        BY <1>1
    <3> QED
        BY <3>1, <1>1 DEF In, Single
  <2>2. ASSUME NEW i \in DOMAIN s, s[i] # Head(s) PROVE s[i] \in In(t)
    <3>1. i # 1 /\ i - 1 \in DOMAIN t
        BY <1>1, <2>2
    <3>2. t[i - 1] = s[i]
      <4>1. i - 1 \in 1 .. Len(s) - 1 /\ (i - 1) + 1 = i
          BY <1>1, <3>1
      <4> QED
          BY <4>1, <1>1
    <3> QED
        BY <3>1, <3>2 DEF In
  <2> QED
      BY <2>1, <2>2 DEF In
<1>4. Single(t)
  <2> SUFFICES ASSUME NEW i \in DOMAIN t, NEW j \in DOMAIN t, t[i] = t[j] PROVE i = j
      BY DEF Single
  <2>1. i + 1 \in DOMAIN s /\ j + 1 \in DOMAIN s /\ s[i + 1] = s[j + 1]
      BY <1>1
  <2>2. i + 1 = j + 1
      BY <2>1 DEF Single
  <2> QED
      BY <2>2, <1>1
<1> QED
    BY <1>1, <1>2, <1>3, <1>4 DEF t

\* A path lies below itself, and of two that lie above a third the shorter lies above
\* the longer.
LEMMA UnderItself == ASSUME NEW p \in Seq(Words) PROVE MO!Under(p, p)
<1>1. SubSeq(p, 1, Len(p)) = p /\ Len(p) \in Nat
    OBVIOUS
<1> QED
    BY <1>1 DEF MO!Under

\* Of two directories above one path, the longer lies below the shorter.
LEMMA UnderBoth ==
    ASSUME NEW p \in Seq(Words), NEW a \in Seq(Words), NEW b \in Seq(Words),
           MO!Under(p, a), MO!Under(p, b), Len(a) <= Len(b)
    PROVE  MO!Under(b, a)
<1>1. /\ Len(a) \in Nat /\ Len(b) \in Nat /\ Len(p) \in Nat
      /\ Len(a) <= Len(p) /\ Len(b) <= Len(p)
      /\ a = SubSeq(p, 1, Len(a)) /\ b = SubSeq(p, 1, Len(b))
    BY DEF MO!Under
<1> DEFINE m == Len(a)
           n == Len(b)
<1> HIDE DEF m, n
<1>2. SubSeq(SubSeq(p, 1, n), 1, m) = SubSeq(p, 1, m)
  <2>1. m \in Nat /\ n \in Nat /\ m <= n /\ n <= Len(p)
      BY <1>1 DEF m, n
  <2> QED
      BY <2>1
<1>3. SubSeq(b, 1, Len(a)) = a
    BY <1>1, <1>2 DEF m, n
<1> QED
    BY <1>3 DEF MO!Under

\* A request goes to another step, and nothing else of any.
Moved(r, step) ==
    /\ Step(r)' = step /\ req'[r].hit = req[r].hit /\ req'[r].all = req[r].all
    /\ req'[r].rules = req[r].rules
    /\ \A q \in Reqs : q # r => req'[q] = req[q]

\* What is known of the requests, whatever they are at.
ReqType == [Reqs -> [step : MountSteps \cup UnmountSteps, hit : Seq(Given),
                     all : Seq(Given), rules : Seq(Given)]]

\* A request that goes to a step is there, and nothing else of it changed.
LEMMA Goes ==
    ASSUME req \in ReqType, NEW r \in Reqs, NEW step \in MountSteps \cup UnmountSteps,
           MO!Go(r, step) \/ MO!Answer(r, step)
    PROVE  Moved(r, step) /\ req' \in ReqType
<1>1. req' = [req EXCEPT ![r].step = step]
    BY DEF MO!Go, MO!Answer
<1>2. req[r] \in [step : MountSteps \cup UnmountSteps, hit : Seq(Given),
                  all : Seq(Given), rules : Seq(Given)]
    BY DEF ReqType
<1>3. req'[r] = [req[r] EXCEPT !.step = step] /\ \A q \in Reqs : q # r => req'[q] = req[q]
    BY <1>1 DEF ReqType
<1>4. /\ req'[r].step = step /\ req'[r].hit = req[r].hit /\ req'[r].all = req[r].all
      /\ req'[r].rules = req[r].rules
      /\ req'[r] \in [step : MountSteps \cup UnmountSteps, hit : Seq(Given),
                      all : Seq(Given), rules : Seq(Given)]
    BY <1>2, <1>3
<1>5. req' \in ReqType
    BY <1>1, <1>3, <1>4 DEF ReqType
<1> QED
    BY <1>3, <1>4, <1>5 DEF Moved, Step

\* Requests, to set three fields of one of which.
Asked(R, S, H) == [R -> [step : S, hit : H, all : H, rules : H]]
Sets(f, g, u, st, h) == g = [f EXCEPT ![u].step = st, ![u].hit = h, ![u].all = h]
IsSet(f, g, R, u, st, h) ==
    /\ g[u].step = st /\ g[u].hit = h /\ g[u].all = h /\ g[u].rules = f[u].rules
    /\ \A q \in R : q # u => g[q] = f[q]

\* Only that one is changed, and it stays a request.
LEMMA ThreeFields ==
    ASSUME NEW R, NEW S, NEW H, NEW f \in Asked(R, S, H),
           NEW u \in R, NEW st \in S, NEW h \in H, NEW g, Sets(f, g, u, st, h)
    PROVE  IsSet(f, g, R, u, st, h) /\ g \in Asked(R, S, H)
<1> USE DEF Asked, Sets
<1>1. /\ g[u] = [f[u] EXCEPT !.step = st, !.hit = h, !.all = h]
      /\ \A q \in R : q # u => g[q] = f[q]
    OBVIOUS
<1>2. f[u] \in [step : S, hit : H, all : H, rules : H]
    OBVIOUS
<1>3. g[u] = [step |-> st, hit |-> h, all |-> h, rules |-> f[u].rules]
    BY <1>1, <1>2
<1>4. g[u] \in [step : S, hit : H, all : H, rules : H]
    BY <1>2, <1>3
<1>5. g \in [R -> [step : S, hit : H, all : H, rules : H]]
    BY <1>1, <1>4
<1> QED
    BY <1>1, <1>3, <1>5 DEF IsSet

\* An unmount that begins holds what it is to remove.
LEMMA Finds ==
    ASSUME req \in ReqType, NEW u \in Reqs, NEW h \in Seq(Given),
           req' = [req EXCEPT ![u].step = "sessions", ![u].hit = h, ![u].all = h]
    PROVE  /\ Step(u)' = "sessions" /\ req'[u].hit = h /\ req'[u].all = h
           /\ req'[u].rules = req[u].rules
           /\ \A q \in Reqs : q # u => req'[q] = req[q]
           /\ req' \in ReqType
<1> DEFINE S == MountSteps \cup UnmountSteps
           g == req'
<1>1. /\ "sessions" \in S /\ req \in Asked(Reqs, S, Seq(Given))
      /\ Sets(req, g, u, "sessions", h)
    BY DEF UnmountSteps, Unmounting, ReqType, Asked, Sets
<1> HIDE DEF S, g
<1>2. IsSet(req, g, Reqs, u, "sessions", h) /\ g \in Asked(Reqs, S, Seq(Given))
    BY <1>1, ThreeFields
<1> QED
    BY <1>2 DEF S, g, ReqType, Step, IsSet, Asked

\* An unmount that has removed a mount is to remove the others.
LEMMA Forgets ==
    ASSUME req \in ReqType, NEW u \in Reqs, Single(req[u].hit), req[u].hit # <<>>,
           MO!Forget(u)
    PROVE  /\ Step(u)' = IF Len(req[u].hit) = 1 THEN "rebuild" ELSE "unbind"
           /\ req'[u].hit = Tail(req[u].hit)
           /\ req'[u].all = req[u].all /\ req'[u].rules = req[u].rules
           /\ \A q \in Reqs : q # u => req'[q] = req[q]
           /\ req' \in ReqType
<1> DEFINE st == IF Len(req[u].hit) = 1 THEN "rebuild" ELSE "unbind"
<1>1. req' = [req EXCEPT ![u].hit = Tail(@), ![u].step = st]
    BY DEF MO!Forget
<1>2. req[u] \in [step : MountSteps \cup UnmountSteps, hit : Seq(Given),
                  all : Seq(Given), rules : Seq(Given)]
    BY DEF ReqType
<1>3. st \in MountSteps \cup UnmountSteps /\ Tail(req[u].hit) \in Seq(Given)
  <2>1. Tail(req[u].hit) \in Seq(Given)
      BY <1>2, TailIs
  <2> QED
      BY <2>1 DEF UnmountSteps, Unmounting
<1> HIDE DEF st
<1>4. /\ req'[u] = [req[u] EXCEPT !.hit = Tail(req[u].hit), !.step = st]
      /\ \A q \in Reqs : q # u => req'[q] = req[q]
    BY <1>1 DEF ReqType
<1>5. /\ req'[u].step = st /\ req'[u].hit = Tail(req[u].hit) /\ req'[u].all = req[u].all
      /\ req'[u].rules = req[u].rules
      /\ req'[u] \in [step : MountSteps \cup UnmountSteps, hit : Seq(Given),
                      all : Seq(Given), rules : Seq(Given)]
    BY <1>2, <1>3, <1>4
<1>6. req' \in ReqType
    BY <1>1, <1>4, <1>5 DEF ReqType
<1> QED
    BY <1>4, <1>5, <1>6 DEF Step, st

\* A table is made of the list as it is.
LEMMA Rebuilds ==
    ASSUME req \in ReqType, NEW r \in Reqs, list \in Seq(Given), MO!Rebuild(r)
    PROVE  /\ Step(r)' = "store" /\ req'[r].hit = req[r].hit /\ req'[r].all = req[r].all
           /\ req'[r].rules = list
           /\ \A q \in Reqs : q # r => req'[q] = req[q]
           /\ req' \in ReqType
<1>1. req' = [req EXCEPT ![r].step = "store", ![r].rules = list]
    BY DEF MO!Rebuild
<1>2. req[r] \in [step : MountSteps \cup UnmountSteps, hit : Seq(Given),
                  all : Seq(Given), rules : Seq(Given)]
    BY DEF ReqType
<1>3. /\ req'[r] = [req[r] EXCEPT !.step = "store", !.rules = list]
      /\ \A q \in Reqs : q # r => req'[q] = req[q]
    BY <1>1 DEF ReqType
<1>4. /\ req'[r].step = "store" /\ req'[r].hit = req[r].hit /\ req'[r].all = req[r].all
      /\ req'[r].rules = list
      /\ req'[r] \in [step : MountSteps \cup UnmountSteps, hit : Seq(Given),
                      all : Seq(Given), rules : Seq(Given)]
    BY <1>2, <1>3 DEF MountSteps
<1>5. req' \in ReqType
    BY <1>3, <1>4, <1>1 DEF ReqType
<1> QED
    BY <1>3, <1>4, <1>5 DEF Step

\* The types hold after a step.
LEMMA TypesNext == ASSUME Composed, MountInv, MO!Next PROVE Types'
<1>0. /\ list \in Seq(Given) /\ kernel \in Seq(Given) /\ tbl \in Seq(Given)
      /\ told \in Seq(Given) /\ Single(list) /\ Single(kernel)
      /\ fuse \subseteq DOMAIN Mounts \cup MO!Ids(Config) /\ req \in ReqType
      /\ \A r \in DOMAIN Mounts : Step(r) \in MountSteps
      /\ \A u \in DOMAIN Unmounts : Step(u) \in UnmountSteps
      /\ cwd \in [MountSessions -> Places \cup {<<>>}]
      /\ on \in [MountSessions -> MO!Owners \cup {Pod}]
      /\ \A r \in DOMAIN Mounts : MO!Rec(r) \in Given /\ MO!Rec(r).id = r /\ r \in Reqs /\ r \notin DOMAIN Unmounts
      /\ \A u \in DOMAIN Unmounts : u \in Reqs /\ u \notin DOMAIN Mounts
      /\ \A x \in Given : x.id \in DOMAIN Mounts \cup MO!Ids(Config) /\ x.owner \in MO!Owners
    BY DEF Composed, Named, MountInv, Types, ReqType, Reqs, Given, MO!Rec
<1> DEFINE Out == /\ list \in Seq(Given) /\ kernel \in Seq(Given) /\ tbl \in Seq(Given)
                  /\ told \in Seq(Given) /\ Single(list) /\ Single(kernel)
                  /\ fuse \subseteq DOMAIN Mounts \cup MO!Ids(Config)
                  /\ cwd \in [MountSessions -> Places \cup {<<>>}]
                  /\ on \in [MountSessions -> MO!Owners \cup {Pod}]
           Asks == /\ req \in ReqType
                   /\ \A r \in DOMAIN Mounts : Step(r) \in MountSteps
                   /\ \A u \in DOMAIN Unmounts : Step(u) \in UnmountSteps
<1> SUFFICES Out' /\ Asks'
    BY DEF Types, ReqType
<1>1. ASSUME NEW r \in DOMAIN Mounts, NEW step \in MountSteps,
             MO!Go(r, step) \/ MO!Answer(r, step)
      PROVE Asks'
  <2>1. Moved(r, step) /\ req' \in ReqType
      BY <1>0, <1>1, Goes
  <2> QED
      BY <2>1, <1>0 DEF Moved, Step
<1>2. ASSUME NEW u \in DOMAIN Unmounts, NEW step \in UnmountSteps,
             MO!Go(u, step) \/ MO!Answer(u, step)
      PROVE Asks'
  <2>1. Moved(u, step) /\ req' \in ReqType
      BY <1>0, <1>2, Goes
  <2> QED
      BY <2>1, <1>0 DEF Moved, Step
<1>3. ASSUME NEW r \in DOMAIN Mounts, MO!Check(r) \/ MO!Add(r) PROVE Out' /\ Asks'
  <2>1. Out'
      BY <1>0, <1>3 DEF MO!Check, MO!Add, MO!sessions
  <2>2. \E step \in MountSteps : MO!Go(r, step) \/ MO!Answer(r, step)
      BY <1>3 DEF MO!Check, MO!Add, MountSteps
  <2> QED
      BY <2>1, <2>2, <1>1
<1>4. ASSUME NEW r \in DOMAIN Mounts, MO!AppendRec(r) PROVE Out' /\ Asks'
  <2>1. MO!Rec(r) \notin In(list)
      BY <1>4 DEF MountInv, Apart, MO!AppendRec, Step
  <2>2. list' \in Seq(Given) /\ Single(list')
      BY <2>1, <1>0, <1>4, AppendIs DEF MO!AppendRec
  <2>3. Out'
      BY <2>2, <1>0, <1>4 DEF MO!AppendRec, MO!sessions
  <2>4. \E step \in MountSteps : MO!Go(r, step)
      BY <1>4 DEF MO!AppendRec, MountSteps
  <2> QED
      BY <2>3, <2>4, <1>1
<1>5. ASSUME NEW r \in DOMAIN Mounts, MO!Bind(r) PROVE Out' /\ Asks'
  <2>1. MO!Rec(r) \notin In(kernel)
      BY <1>0, <1>5 DEF MountInv, Binds, Binding, MO!Bind, Step
  <2>2. kernel' \in Seq(Given) /\ Single(kernel')
    <3>1. CASE kernel' = Append(kernel, MO!Rec(r))
        BY <3>1, <2>1, <1>0, AppendIs
    <3>2. CASE kernel' = kernel
        BY <3>2, <1>0
    <3> QED
        BY <3>1, <3>2, <1>5 DEF MO!Bind
  <2>3. Out'
      BY <2>2, <1>0, <1>5 DEF MO!Bind, MO!sessions
  <2>4. \E step \in MountSteps : MO!Go(r, step)
      BY <1>5 DEF MO!Bind, MountSteps
  <2> QED
      BY <2>3, <2>4, <1>1
<1>6. ASSUME NEW r \in DOMAIN Mounts, MO!Drop(r) PROVE Out' /\ Asks'
  <2>1. list' \in Seq(Given) /\ Single(list')
      BY <1>0, <1>6, LeftIs DEF MO!Drop
  <2>2. Out'
      BY <2>1, <1>0, <1>6 DEF MO!Drop, MO!sessions
  <2>3. \E step \in MountSteps : MO!Answer(r, step)
      BY <1>6 DEF MO!Drop, MountSteps
  <2> QED
      BY <2>2, <2>3, <1>1
<1>7. ASSUME NEW u \in DOMAIN Unmounts, MO!Find(u) PROVE Out' /\ Asks'
  <2>1. Out'
      BY <1>0, <1>7 DEF MO!Find, MO!sessions
  <2> DEFINE h == MO!Kept(list, {i \in DOMAIN list : MO!Hit(u, list[i])})
  <2>2. h \in Seq(Given)
      BY <1>0, KeptIs
  <2>3. CASE h = <<>>
    <3>1. \E step \in UnmountSteps : MO!Answer(u, step)
        BY <2>3, <1>7 DEF MO!Find, UnmountSteps
    <3> QED
        BY <2>1, <3>1, <1>2
  <2>4. CASE h # <<>>
    <3>1. req' = [req EXCEPT ![u].step = "sessions", ![u].hit = h, ![u].all = h]
        BY <2>4, <1>7 DEF MO!Find
    <3> HIDE DEF h
    <3>2. Step(u)' = "sessions" /\ (\A q \in Reqs : q # u => req'[q] = req[q]) /\ req' \in ReqType
        BY <3>1, <2>2, <1>0, Finds
    <3>3. Asks'
        BY <3>2, <1>0 DEF Step, UnmountSteps, Unmounting
    <3> QED
        BY <2>1, <3>3
  <2> QED
      BY <2>3, <2>4
<1>8. ASSUME NEW u \in DOMAIN Unmounts, MO!LookForSessions(u) \/ MO!Release(u)
      PROVE  Out' /\ Asks'
  <2>1. Out'
      BY <1>0, <1>8 DEF MO!LookForSessions, MO!Release, MO!sessions
  <2>2. \E step \in UnmountSteps : MO!Go(u, step) \/ MO!Answer(u, step)
      BY <1>8 DEF MO!LookForSessions, MO!Release, UnmountSteps, Unmounting
  <2> QED
      BY <2>1, <2>2, <1>2
<1>9. ASSUME NEW u \in DOMAIN Unmounts, MO!Unbind(u) PROVE Out' /\ Asks'
  <2>1. kernel' \in Seq(Given) /\ Single(kernel')
    <3>1. CASE kernel' = kernel
        BY <3>1, <1>0
    <3>2. CASE kernel' = MO!Detach(kernel, Head(req[u].hit).at)
        BY <3>2, <1>0, KeptIs DEF MO!Detach
    <3> QED
        BY <3>1, <3>2, <1>9 DEF MO!Unbind
  <2>2. Out'
      BY <2>1, <1>0, <1>9 DEF MO!Unbind, MO!sessions
  <2>3. \E step \in UnmountSteps : MO!Go(u, step) \/ MO!Answer(u, step)
      BY <1>9 DEF MO!Unbind, UnmountSteps, Unmounting
  <2> QED
      BY <2>2, <2>3, <1>2
<1>10. ASSUME NEW u \in DOMAIN Unmounts, MO!Forget(u) PROVE Out' /\ Asks'
  <2>1. list' \in Seq(Given) /\ Single(list')
      BY <1>0, <1>10, LeftIs DEF MO!Forget
  <2>2. Out'
      BY <2>1, <1>0, <1>10 DEF MO!Forget, MO!sessions
  <2>3. Single(req[u].hit) /\ req[u].hit # <<>>
      BY <1>10 DEF MountInv, Hits, MO!Forget, Step, Unmounting
  <2>4. Step(u)' \in {"rebuild", "unbind"} /\ (\A q \in Reqs : q # u => req'[q] = req[q]) /\ req' \in ReqType
      BY <2>3, <1>0, <1>10, Forgets
  <2>5. Asks'
      BY <2>4, <1>0 DEF Step, UnmountSteps, Unmounting
  <2> QED
      BY <2>2, <2>5
<1>11. ASSUME NEW u \in DOMAIN Unmounts, MO!Strand(u) PROVE Out' /\ Asks'
  <2>1. Out'
      BY <1>0, <1>11 DEF MO!Strand
  <2>2. \E step \in UnmountSteps : MO!Answer(u, step)
      BY <1>11 DEF MO!Strand, UnmountSteps
  <2> QED
      BY <2>1, <2>2, <1>2
<1>12. ASSUME NEW r \in Reqs, MO!Rebuild(r) PROVE Out' /\ Asks'
  <2>1. Out'
      BY <1>0, <1>12 DEF MO!Rebuild, MO!sessions
  <2>2. Step(r)' = "store" /\ (\A q \in Reqs : q # r => req'[q] = req[q]) /\ req' \in ReqType
      BY <1>0, <1>12, Rebuilds
  <2>3. Asks'
      BY <2>2, <1>0 DEF Step, UnmountSteps, MountSteps
  <2> QED
      BY <2>1, <2>3
<1>13. ASSUME NEW r \in Reqs, MO!Store(r) PROVE Out' /\ Asks'
  <2>1. req[r].rules \in Seq(Given)
      BY <1>0 DEF ReqType
  <2>2. Out'
      BY <2>1, <1>0, <1>13 DEF MO!Store, MO!sessions
  <2>3. "reconcile" \in MountSteps \cap UnmountSteps /\ MO!Go(r, "reconcile")
      BY <1>13 DEF MO!Store, MountSteps, UnmountSteps
  <2>4. Asks'
      BY <2>3, <1>1, <1>2 DEF Reqs
  <2> QED
      BY <2>2, <2>4
<1>14. ASSUME NEW r \in Reqs, MO!Reconcile(r) PROVE Out' /\ Asks'
  <2>1. Out'
      BY <1>0, <1>14 DEF MO!Reconcile, MO!sessions
  <2>2. CASE r \in DOMAIN Mounts
    <3>1. "ok" \in MountSteps /\ MO!Answer(r, "ok")
        BY <2>2, <1>14 DEF MO!Reconcile, MountSteps
    <3> QED
        BY <2>1, <2>2, <3>1, <1>1
  <2>3. CASE r \notin DOMAIN Mounts
    <3>1. "strand" \in UnmountSteps /\ MO!Go(r, "strand") /\ r \in DOMAIN Unmounts
        BY <2>3, <1>14 DEF MO!Reconcile, UnmountSteps, Reqs
    <3> QED
        BY <2>1, <3>1, <1>2
  <2> QED
      BY <2>2, <2>3
<1>15. ASSUME NEW s \in MountSessions,
              (\E p \in Places : MO!Cd(s, p)) \/ (\E m \in MO!Owners : MO!Use(s, m))
       PROVE Out' /\ Asks'
    BY <1>0, <1>15 DEF MO!Cd, MO!Use, Step
<1> HIDE DEF Out, Asks
<1> QED
    BY <1>3, <1>4, <1>5, <1>6, <1>7, <1>8, <1>9, <1>10, <1>11, <1>12, <1>13, <1>14, <1>15
       DEF MO!Next, Reqs

-------------------------------------------------------------------------------
(* What each step does, with the sequences as sets.                            *)

\* What each step does, said of sets. First, of a mount.
DoCheck(r) ==
    /\ Step(r) = "none" /\ UNCHANGED <<list, kernel, fuse, tbl, told, cwd, on>>
    /\ \/ Moved(r, "refused")
       \/ /\ Moved(r, "add") /\ \A x \in In(list) : ~MO!Clash(MO!Rec(r), x)
          /\ \A q \in Reqs : Step(q) \notin {"add", "append"}
DoAdd(r) ==
    /\ Step(r) = "add" /\ UNCHANGED <<list, kernel, tbl, told, cwd, on>>
    /\ \/ fuse' = fuse \cup {r} /\ Moved(r, "append")
       \/ fuse' = fuse /\ Moved(r, "failed")
DoAppend(r) ==
    /\ Step(r) = "append" /\ UNCHANGED <<kernel, fuse, tbl, told, cwd, on>>
    /\ In(list') = In(list) \cup {MO!Rec(r)} /\ Moved(r, "bind")
DoBind(r) ==
    /\ Step(r) = "bind" /\ UNCHANGED <<list, tbl, told, cwd, on>>
    /\ \/ /\ kernel' = Append(kernel, MO!Rec(r)) /\ In(kernel') = In(kernel) \cup {MO!Rec(r)}
          /\ Moved(r, "rebuild") /\ fuse' = fuse
       \/ "bind" \in FaultKinds /\ Moved(r, "drop") /\ fuse' = fuse \ {r} /\ kernel' = kernel
DoDrop(r) ==
    /\ Step(r) = "drop" /\ UNCHANGED <<kernel, fuse, tbl, told, cwd, on>>
    /\ In(list') = {x \in In(list) : x.id # r} /\ Moved(r, "dropped")

\* Of an unmount.
DoFind(u) ==
    /\ Step(u) = "none" /\ UNCHANGED <<list, kernel, fuse, tbl, told, cwd, on>>
    /\ \A q \in Reqs : Step(q) \notin Unmounting
    /\ \/ Moved(u, "refused")
       \/ /\ Step(u)' = "sessions" /\ req'[u].hit = req'[u].all /\ req'[u].hit # <<>>
          /\ Single(req'[u].hit) /\ In(req'[u].hit) = {x \in In(list) : MO!Hit(u, x)}
          /\ req'[u].rules = req[u].rules /\ \A q \in Reqs : q # u => req'[q] = req[q]
DoLook(u) ==
    /\ Step(u) = "sessions" /\ UNCHANGED <<list, kernel, fuse, tbl, told, cwd, on>>
    /\ Moved(u, "refused") \/ Moved(u, "unbind")
DoUnbind(u) ==
    /\ Step(u) = "unbind" /\ UNCHANGED <<list, fuse, tbl, told, cwd, on>>
    /\ \/ /\ MO!IsMountpoint(kernel, Head(req[u].hit).at)
          /\ kernel' = MO!Detach(kernel, Head(req[u].hit).at) /\ Moved(u, "release")
       \/ kernel' = kernel /\ Moved(u, "failed")
DoRelease(u) ==
    /\ Step(u) = "release" /\ UNCHANGED <<list, kernel, tbl, told, cwd, on>>
    /\ Moved(u, "forget") /\ fuse' = fuse \ {Head(req[u].hit).id}
DoForget(u) ==
    /\ Step(u) = "forget" /\ UNCHANGED <<kernel, fuse, tbl, told, cwd, on>>
    /\ In(list') = {x \in In(list) : x.id # Head(req[u].hit).id}
    /\ \/ Step(u)' = "rebuild" /\ req'[u].hit = <<>>
       \/ Step(u)' = "unbind" /\ req'[u].hit # <<>>
    /\ Single(req'[u].hit) /\ In(req'[u].hit) = In(req[u].hit) \ {Head(req[u].hit)}
    /\ Len(req'[u].hit) = Len(req[u].hit) - 1
    /\ req'[u].all = req[u].all /\ req'[u].rules = req[u].rules
    /\ \A q \in Reqs : q # u => req'[q] = req[q]

\* The sessions of a machine that is gone are sent back to the pod.
DoStrand(u) ==
    /\ Step(u) = "strand" /\ UNCHANGED <<list, kernel, fuse, tbl, told, cwd>>
    /\ Moved(u, "ok")
    /\ \A s \in MountSessions : \/ on'[s] = on[s] /\ MO!Known(tbl, on[s])
                                \/ on'[s] = on[s] /\ \A x \in In(req[u].all) : on[s] # x.owner
                                \/ on'[s] = Pod

\* Of both, once the list is changed.
DoRebuild(r) ==
    /\ Step(r) = "rebuild" /\ UNCHANGED <<list, kernel, fuse, tbl, told, cwd, on>>
    /\ \A q \in Reqs : Step(q) # "store"
    /\ Step(r)' = "store" /\ req'[r].hit = req[r].hit /\ req'[r].all = req[r].all
    /\ req'[r].rules = list /\ \A q \in Reqs : q # r => req'[q] = req[q]
DoStore(r) ==
    /\ Step(r) = "store" /\ UNCHANGED <<list, kernel, fuse, told, cwd, on>>
    /\ tbl' = req[r].rules /\ Moved(r, "reconcile")
DoReconcile(r) ==
    /\ Step(r) = "reconcile" /\ UNCHANGED <<list, kernel, fuse, tbl, cwd, on>>
    /\ told' = list
    /\ \/ r \in DOMAIN Mounts /\ Moved(r, "ok")
       \/ r \in DOMAIN Unmounts /\ Moved(r, "strand")

\* Of a session: it goes to a machine the table knows.
DoSession ==
    /\ UNCHANGED <<list, kernel, fuse, tbl, told, req>>
    /\ \A s \in MountSessions : on'[s] = on[s] \/ MO!Known(tbl, on'[s])

\* Whoever takes it.
DoesMount(r) == DoCheck(r) \/ DoAdd(r) \/ DoAppend(r) \/ DoBind(r) \/ DoDrop(r)
DoesUnmount(u) ==
    DoFind(u) \/ DoLook(u) \/ DoUnbind(u) \/ DoRelease(u) \/ DoForget(u) \/ DoStrand(u)
DoesBoth(r) == DoRebuild(r) \/ DoStore(r) \/ DoReconcile(r)

\* Who is at a step is under way.
LEMMA AloneIs ==
    ASSUME Composed, req \in ReqType, NEW steps, MO!Alone(steps),
           steps \cap {"none", "ok", "refused", "failed", "dropped"} = {}
    PROVE  \A q \in Reqs : Step(q) \notin steps
BY DEF Composed, OneAtOnce, MO!Alone, MO!Underway, Step, ReqType

\* A step does one of these.
LEMMA Effects ==
    ASSUME Composed, MountInv, MO!Next
    PROVE  \/ \E r \in DOMAIN Mounts : DoesMount(r)
           \/ \E u \in DOMAIN Unmounts : DoesUnmount(u)
           \/ \E r \in Reqs : DoesBoth(r)
           \/ DoSession
<1>0. /\ list \in Seq(Given) /\ kernel \in Seq(Given) /\ req \in ReqType
      /\ on \in [MountSessions -> MO!Owners \cup {Pod}]
      /\ Single(list)
      /\ \A r \in DOMAIN Mounts : MO!Rec(r) \in Given /\ r \in Reqs
      /\ \A u \in DOMAIN Unmounts : u \in Reqs
      /\ \A r \in DOMAIN Mounts : {"none", "add", "append", "refused", "failed", "bind", "drop", "rebuild", "dropped", "ok"} \subseteq MountSteps
    BY DEF Composed, Named, MountInv, Types, ReqType, Reqs, Given, MountSteps
<1>s. {"none", "add", "append", "refused", "failed", "bind", "drop", "rebuild", "dropped",
       "ok", "reconcile", "sessions", "unbind", "release", "forget", "strand"} \subseteq MountSteps \cup UnmountSteps
    BY DEF MountSteps, UnmountSteps, Unmounting
<1>g. \A r \in Reqs, st \in MountSteps \cup UnmountSteps : MO!Go(r, st) \/ MO!Answer(r, st) => Moved(r, st)
    BY <1>0, Goes
<1>1. ASSUME NEW r \in DOMAIN Mounts, MO!Check(r) PROVE DoCheck(r)
  <2>1. Step(r) = "none" /\ UNCHANGED <<list, kernel, fuse, tbl, told, cwd, on>> /\ MO!Alone({"add", "append"})
      BY <1>1 DEF MO!Check, Step, MO!sessions
  <2>2. CASE \E i \in DOMAIN list : MO!Clash(MO!Rec(r), list[i])
    <3>1. Moved(r, "refused")
        BY <2>2, <1>0, <1>1, <1>s, <1>g DEF MO!Check
    <3> QED
        BY <3>1, <2>1 DEF DoCheck
  <2>3. CASE ~\E i \in DOMAIN list : MO!Clash(MO!Rec(r), list[i])
    <3>1. Moved(r, "add")
        BY <2>3, <1>0, <1>1, <1>s, <1>g DEF MO!Check
    <3>2. \A q \in Reqs : Step(q) \notin {"add", "append"}
        BY <2>1, <1>0, AloneIs
    <3> QED
        BY <3>1, <3>2, <2>1, <2>3 DEF DoCheck, In
  <2> QED
      BY <2>2, <2>3
<1>2. ASSUME NEW r \in DOMAIN Mounts, MO!Add(r) PROVE DoAdd(r)
  <2>1. Step(r) = "add" /\ UNCHANGED <<list, kernel, tbl, told, cwd, on>>
      BY <1>2 DEF MO!Add, Step, MO!sessions
  <2> QED
      BY <2>1, <1>0, <1>2, <1>s, <1>g DEF MO!Add, DoAdd
<1>3. ASSUME NEW r \in DOMAIN Mounts, MO!AppendRec(r) PROVE DoAppend(r)
  <2>1. Step(r) = "append" /\ UNCHANGED <<kernel, fuse, tbl, told, cwd, on>> /\ Moved(r, "bind")
      BY <1>3, <1>0, <1>s, <1>g DEF MO!AppendRec, Step, MO!sessions
  <2>2. In(list') = In(list) \cup {MO!Rec(r)}
      BY <1>3, <1>0, AppendIs DEF MO!AppendRec
  <2> QED
      BY <2>1, <2>2 DEF DoAppend
<1>4. ASSUME NEW r \in DOMAIN Mounts, MO!Bind(r) PROVE DoBind(r)
  <2>1. Step(r) = "bind" /\ UNCHANGED <<list, tbl, told, cwd, on>>
      BY <1>4 DEF MO!Bind, Step, MO!sessions
  <2>2. In(Append(kernel, MO!Rec(r))) = In(kernel) \cup {MO!Rec(r)}
      BY <1>0, AppendIs
  <2> QED
      BY <2>1, <2>2, <1>0, <1>4, <1>s, <1>g DEF MO!Bind, DoBind
<1>5. ASSUME NEW r \in DOMAIN Mounts, MO!Drop(r) PROVE DoDrop(r)
  <2>1. Step(r) = "drop" /\ UNCHANGED <<kernel, fuse, tbl, told, cwd, on>> /\ Moved(r, "dropped")
      BY <1>5, <1>0, <1>s, <1>g DEF MO!Drop, Step, MO!sessions
  <2>2. In(list') = {x \in In(list) : x.id # r}
      BY <1>5, <1>0, LeftIs DEF MO!Drop
  <2> QED
      BY <2>1, <2>2 DEF DoDrop
<1>6. ASSUME NEW u \in DOMAIN Unmounts, MO!Find(u) PROVE DoFind(u)
  <2>1. /\ Step(u) = "none" /\ UNCHANGED <<list, kernel, fuse, tbl, told, cwd, on>>
        /\ MO!Alone({"sessions", "unbind", "release", "forget"})
      BY <1>6 DEF MO!Find, Step, MO!sessions
  <2>2. \A q \in Reqs : Step(q) \notin Unmounting
      BY <2>1, <1>0, AloneIs DEF Unmounting
  <2> DEFINE which == {i \in DOMAIN list : MO!Hit(u, list[i])}
             h == MO!Kept(list, which)
  <2>3. CASE h = <<>>
    <3>1. Moved(u, "refused")
        BY <2>3, <1>0, <1>6, <1>s, <1>g DEF MO!Find
    <3> QED
        BY <3>1, <2>1, <2>2 DEF DoFind
  <2>4. CASE h # <<>>
    <3>1. req' = [req EXCEPT ![u].step = "sessions", ![u].hit = h, ![u].all = h]
        BY <2>4, <1>6 DEF MO!Find
    <3>2. {list[i] : i \in {j \in DOMAIN list : j \in which}} = {x \in In(list) : MO!Hit(u, x)}
        BY DEF In
    <3> HIDE DEF which
    <3>3. h \in Seq(Given) /\ Single(h) /\ In(h) = {x \in In(list) : MO!Hit(u, x)}
        BY <3>2, <1>0, KeptIs
    <3> HIDE DEF h
    <3>4. /\ Step(u)' = "sessions" /\ req'[u].hit = h /\ req'[u].all = h
          /\ req'[u].rules = req[u].rules
          /\ \A q \in Reqs : q # u => req'[q] = req[q]
        BY <3>1, <3>3, <1>0, Finds
    <3> QED
        BY <3>3, <3>4, <2>1, <2>2, <2>4 DEF DoFind
  <2> QED
      BY <2>3, <2>4
<1>7. ASSUME NEW u \in DOMAIN Unmounts, MO!LookForSessions(u) PROVE DoLook(u)
    BY <1>7, <1>0, <1>s, <1>g DEF MO!LookForSessions, DoLook, Step, MO!sessions
<1>8. ASSUME NEW u \in DOMAIN Unmounts, MO!Unbind(u) PROVE DoUnbind(u)
    BY <1>8, <1>0, <1>s, <1>g DEF MO!Unbind, DoUnbind, Step, MO!sessions
<1>9. ASSUME NEW u \in DOMAIN Unmounts, MO!Release(u) PROVE DoRelease(u)
    BY <1>9, <1>0, <1>s, <1>g DEF MO!Release, DoRelease, Step, MO!sessions
<1>10. ASSUME NEW u \in DOMAIN Unmounts, MO!Forget(u) PROVE DoForget(u)
  <2>1. Step(u) = "forget" /\ UNCHANGED <<kernel, fuse, tbl, told, cwd, on>>
      BY <1>10 DEF MO!Forget, Step, MO!sessions
  <2>2. In(list') = {x \in In(list) : x.id # Head(req[u].hit).id}
      BY <1>10, <1>0, LeftIs DEF MO!Forget
  <2>3. Single(req[u].hit) /\ req[u].hit # <<>> /\ req[u].hit \in Seq(Given)
      BY <2>1, <1>0 DEF MountInv, Hits, Unmounting, ReqType
  <2>4. /\ Step(u)' = IF Len(req[u].hit) = 1 THEN "rebuild" ELSE "unbind"
        /\ req'[u].hit = Tail(req[u].hit)
        /\ req'[u].all = req[u].all /\ req'[u].rules = req[u].rules
        /\ \A q \in Reqs : q # u => req'[q] = req[q]
      BY <2>3, <1>0, <1>10, Forgets
  <2> DEFINE h == req[u].hit
             t == req'[u].hit
  <2>5. t \in Seq(Given) /\ Len(t) = Len(h) - 1 /\ In(t) = In(h) \ {Head(h)} /\ Single(t)
      BY <2>3, <2>4, TailIs
  <2>6. Len(h) \in Nat /\ Len(t) \in Nat /\ (t = <<>> <=> Len(t) = 0)
    <3>1. h \in Seq(Given) /\ t \in Seq(Given)
        BY <2>3, <2>5
    <3> HIDE DEF h, t
    <3> QED
        BY <3>1
  <2>7. t = <<>> <=> Len(h) = 1
      BY <2>5, <2>6
  <2> QED
      BY <2>1, <2>2, <2>4, <2>5, <2>7 DEF DoForget
<1>11. ASSUME NEW u \in DOMAIN Unmounts, MO!Strand(u) PROVE DoStrand(u)
  <2>1. Step(u) = "strand" /\ UNCHANGED <<list, kernel, fuse, tbl, told, cwd>> /\ Moved(u, "ok")
      BY <1>11, <1>0, <1>s, <1>g DEF MO!Strand, Step
  <2>2. ASSUME NEW s \in MountSessions
        PROVE  \/ on'[s] = on[s] /\ MO!Known(tbl, on[s])
               \/ on'[s] = on[s] /\ \A x \in In(req[u].all) : on[s] # x.owner
               \/ on'[s] = Pod
    <3> DEFINE gone == {req[u].all[i].owner : i \in DOMAIN req[u].all}
    <3>1. on'[s] = IF on[s] \in gone /\ ~MO!Known(tbl, on[s]) THEN Pod ELSE on[s]
        BY <1>11 DEF MO!Strand
    <3>2. on[s] \notin gone => \A x \in In(req[u].all) : on[s] # x.owner
        BY DEF In
    <3> HIDE DEF gone
    <3> QED
        BY <3>1, <3>2
  <2> QED
      BY <2>1, <2>2 DEF DoStrand
<1>12. ASSUME NEW r \in Reqs, MO!Rebuild(r) PROVE DoRebuild(r)
  <2>1. \A q \in Reqs : Step(q) # "store"
    <3>1. MO!Alone({"store"})
        BY <1>12 DEF MO!Rebuild
    <3>2. \A q \in Reqs : Step(q) \notin {"store"}
        BY <3>1, <1>0, AloneIs
    <3> QED
        BY <3>2
  <2>2. Step(r) = "rebuild" /\ UNCHANGED <<list, kernel, fuse, tbl, told, cwd, on>>
      BY <1>12 DEF MO!Rebuild, Step, MO!sessions
  <2>3. /\ Step(r)' = "store" /\ req'[r].hit = req[r].hit /\ req'[r].all = req[r].all
        /\ req'[r].rules = list
        /\ \A q \in Reqs : q # r => req'[q] = req[q]
      BY <1>12, <1>0, Rebuilds
  <2> QED
      BY <2>1, <2>2, <2>3 DEF DoRebuild
<1>13. ASSUME NEW r \in Reqs, MO!Store(r) PROVE DoStore(r)
    BY <1>13, <1>0, <1>s, <1>g DEF MO!Store, DoStore, Step, MO!sessions
<1>14. ASSUME NEW r \in Reqs, MO!Reconcile(r) PROVE DoReconcile(r)
  <2>1. Step(r) = "reconcile" /\ UNCHANGED <<list, kernel, fuse, tbl, cwd, on>> /\ told' = list
      BY <1>14 DEF MO!Reconcile, Step, MO!sessions
  <2>2. CASE r \in DOMAIN Mounts
      BY <2>1, <2>2, <1>14, <1>s, <1>g DEF MO!Reconcile, DoReconcile
  <2>3. CASE r \notin DOMAIN Mounts
    <3>1. r \in DOMAIN Unmounts
        BY <2>3 DEF Reqs
    <3> QED
        BY <3>1, <2>1, <2>3, <1>14, <1>s, <1>g DEF MO!Reconcile, DoReconcile
  <2> QED
      BY <2>2, <2>3
<1>15. ASSUME NEW s \in MountSessions, NEW p \in Places, MO!Cd(s, p) PROVE DoSession
    BY <1>15 DEF MO!Cd, DoSession
<1>16. ASSUME NEW s \in MountSessions, NEW m \in MO!Owners, MO!Use(s, m) PROVE DoSession
    BY <1>16, <1>0 DEF MO!Use, DoSession
<1> QED
    BY <1>1, <1>2, <1>3, <1>4, <1>5, <1>6, <1>7, <1>8, <1>9, <1>10, <1>11, <1>12, <1>13,
       <1>14, <1>15, <1>16 DEF MO!Next, Reqs, DoesMount, DoesUnmount, DoesBoth

\* Two mounts clash with each other.
LEMMA Clashing == ASSUME NEW x, NEW y PROVE MO!Clash(x, y) <=> MO!Clash(y, x)
BY DEF MO!Clash

\* A request is to mount or to unmount, and a mount asked for is not the config's.
LEMMA Mine ==
    ASSUME Composed
    PROVE  /\ \A r \in DOMAIN Mounts : /\ MO!Rec(r) \in Given /\ MO!Rec(r).id = r /\ r \in Reqs
                                       /\ r \notin DOMAIN Unmounts
                                       /\ MO!Rec(r) \notin In(Config)
                                       /\ MO!Rec(r).owner # Pod
           /\ \A u \in DOMAIN Unmounts : u \in Reqs /\ u \notin DOMAIN Mounts
           /\ \A x, y \in Given : x.id = y.id => x = y
           /\ \A x \in Given : x.id \in DOMAIN Mounts => x = MO!Rec(x.id)
           /\ \A x \in Given : x.id \notin DOMAIN Mounts => x \in In(Config)
<1>1. \A r \in DOMAIN Mounts : MO!Rec(r) \in Given /\ MO!Rec(r).id = r /\ MO!Rec(r).owner = Mounts[r].owner
    BY DEF Given, MO!Rec
<1>2. \A x \in Given : (\E r \in DOMAIN Mounts : x = MO!Rec(r)) \/ x \in In(Config)
    BY DEF Given
<1>3. \A x, y \in Given : x.id = y.id => x = y
    BY DEF Composed, Named
<1> QED
    BY <1>1, <1>2, <1>3 DEF Composed, Named, Reqs

\* Whatever is listed, bound or routed may be.
LEMMA Inside ==
    ASSUME MountInv
    PROVE  In(list) \subseteq Given /\ In(kernel) \subseteq Given /\ In(tbl) \subseteq Given
BY DEF MountInv, Types, In

\* A runtime mount stays alone: mounts are checked one at a time, against the list.
LEMMA ApartNext == ASSUME Composed, MountInv, MO!Next PROVE Apart'
<1> DEFINE Pairs == \A x, y \in In(list) : x.id \in DOMAIN Mounts /\ x # y => ~MO!Clash(x, y)
           First1(r) == Step(r) \in {"add", "append"} => \A x \in In(list) : ~MO!Clash(MO!Rec(r), x)
           Out(r) == Step(r) \in {"none", "add", "append", "refused", "failed", "dropped"} => MO!Rec(r) \notin In(list)
           Conf(r) == Step(r) \notin {"none", "refused"} => \A x \in In(list) : x \in In(Config) => ~MO!Clash(MO!Rec(r), x)
           Solo(r, q) == Step(r) \in {"add", "append"} /\ Step(q) \in {"add", "append"} => r = q
           M == DOMAIN Mounts
<1>0. /\ Pairs /\ (\A r \in M : First1(r) /\ Out(r) /\ Conf(r)) /\ \A r, q \in M : Solo(r, q)
    BY DEF MountInv, Apart
<1>m. /\ \A r \in M : MO!Rec(r) \in Given /\ MO!Rec(r).id = r /\ r \in Reqs /\ r \notin DOMAIN Unmounts
                      /\ MO!Rec(r) \notin In(Config)
      /\ \A u \in DOMAIN Unmounts : u \in Reqs /\ u \notin M
      /\ In(list) \subseteq Given /\ \A x \in Given : x.id \in M => x = MO!Rec(x.id)
    BY Mine, Inside
<1> SUFFICES Pairs' /\ (\A r \in M : First1(r)' /\ Out(r)' /\ Conf(r)') /\ \A r, q \in M : Solo(r, q)'
    BY DEF Apart
<1>s. ASSUME In(list') \subseteq In(list), NEW r \in M,
             \A q \in M : q # r => Step(q)' = Step(q),
             \/ Step(r)' = Step(r)
             \/ Step(r) = "none" /\ Step(r)' = "refused"
             \/ Step(r) = "add" /\ Step(r)' \in {"append", "failed"}
             \/ Step(r) \in {"bind", "drop", "rebuild", "store", "reconcile"} /\
                Step(r)' \in {"bind", "drop", "rebuild", "store", "reconcile", "ok"}
             \/ Step(r) = "drop" /\ Step(r)' = "dropped" /\ MO!Rec(r) \notin In(list')
      PROVE Pairs' /\ (\A q \in M : First1(q)' /\ Out(q)' /\ Conf(q)') /\ \A p, q \in M : Solo(p, q)'
  <2>1. Pairs'
      BY <1>0, <1>s
  <2>2. ASSUME NEW q \in M PROVE First1(q)' /\ Out(q)' /\ Conf(q)'
    <3>1. First1(q) /\ Out(q) /\ Conf(q)
        BY <1>0
    <3>2. CASE q # r
        BY <3>1, <3>2, <1>s
    <3>3. CASE q = r
        BY <3>1, <3>3, <1>s
    <3> QED
        BY <3>2, <3>3
  <2>3. ASSUME NEW p \in M, NEW q \in M PROVE Solo(p, q)'
    <3>1. Step(p)' \in {"add", "append"} => Step(p) \in {"add", "append"}
        BY <1>s
    <3>2. Step(q)' \in {"add", "append"} => Step(q) \in {"add", "append"}
        BY <1>s
    <3> QED
        BY <3>1, <3>2, <1>0
  <2> QED
      BY <2>1, <2>2, <2>3
<1>t. ASSUME In(list') \subseteq In(list), \A q \in M : Step(q)' = Step(q)
      PROVE Pairs' /\ (\A q \in M : First1(q)' /\ Out(q)' /\ Conf(q)') /\ \A p, q \in M : Solo(p, q)'
  <2>1. Pairs'
      BY <1>0, <1>t
  <2>2. ASSUME NEW q \in M PROVE First1(q)' /\ Out(q)' /\ Conf(q)'
      BY <1>0, <1>t
  <2>3. ASSUME NEW p \in M, NEW q \in M PROVE Solo(p, q)'
      BY <1>0, <1>t
  <2> QED
      BY <2>1, <2>2, <2>3
<1>u. ASSUME NEW r \in Reqs, NEW step, Moved(r, step)
      PROVE  Step(r)' = step /\ \A q \in Reqs : q # r => Step(q)' = Step(q)
    BY <1>u DEF Moved, Step
<1>1. ASSUME NEW r \in M, DoCheck(r)
      PROVE  Pairs' /\ (\A q \in M : First1(q)' /\ Out(q)' /\ Conf(q)') /\ \A p, q \in M : Solo(p, q)'
  <2>1. list' = list /\ Step(r) = "none"
      BY <1>1 DEF DoCheck
  <2>2. CASE Moved(r, "refused")
    <3>1. Step(r)' = "refused" /\ \A q \in M : q # r => Step(q)' = Step(q)
        BY <2>2, <1>u, <1>m
    <3> QED
        BY <2>1, <3>1, <1>s
  <2>3. CASE /\ Moved(r, "add") /\ \A x \in In(list) : ~MO!Clash(MO!Rec(r), x)
             /\ \A q \in Reqs : Step(q) \notin {"add", "append"}
    <3>1. Step(r)' = "add" /\ \A q \in M : q # r => Step(q)' = Step(q)
        BY <2>3, <1>u, <1>m
    <3>2. Pairs'
        BY <2>1, <1>0
    <3>3. ASSUME NEW q \in M PROVE First1(q)' /\ Out(q)' /\ Conf(q)'
        BY <2>1, <2>3, <3>1, <1>0
    <3>4. ASSUME NEW p \in M, NEW q \in M PROVE Solo(p, q)'
        BY <2>3, <3>1, <1>m
    <3> QED
        BY <3>2, <3>3, <3>4
  <2> QED
      BY <2>2, <2>3, <1>1 DEF DoCheck
<1>2. ASSUME NEW r \in M, DoAdd(r)
      PROVE  Pairs' /\ (\A q \in M : First1(q)' /\ Out(q)' /\ Conf(q)') /\ \A p, q \in M : Solo(p, q)'
  <2>1. list' = list /\ Step(r) = "add" /\ Step(r)' \in {"append", "failed"} /\ \A q \in M : q # r => Step(q)' = Step(q)
      BY <1>2, <1>u, <1>m DEF DoAdd
  <2> QED
      BY <2>1, <1>s
<1>3. ASSUME NEW r \in M, DoAppend(r)
      PROVE  Pairs' /\ (\A q \in M : First1(q)' /\ Out(q)' /\ Conf(q)') /\ \A p, q \in M : Solo(p, q)'
  <2>1. /\ Step(r) = "append" /\ Step(r)' = "bind" /\ \A q \in M : q # r => Step(q)' = Step(q)
        /\ In(list') = In(list) \cup {MO!Rec(r)}
      BY <1>3, <1>u, <1>m DEF DoAppend
  <2>2. \A x \in In(list) : ~MO!Clash(MO!Rec(r), x) /\ ~MO!Clash(x, MO!Rec(r))
      BY <2>1, <1>0, Clashing
  <2>3. Pairs'
      BY <2>1, <2>2, <1>0
  <2>4. ASSUME NEW q \in M PROVE First1(q)' /\ Out(q)' /\ Conf(q)'
    <3>1. CASE q = r
        BY <3>1, <2>1, <2>2, <1>m
    <3>2. CASE q # r
      <4>1. Step(q) \notin {"add", "append"} /\ Step(q)' = Step(q)
          BY <3>2, <2>1, <1>0
      <4>2. MO!Rec(q) # MO!Rec(r) /\ MO!Rec(r) \notin In(Config)
          BY <3>2, <1>m
      <4> QED
          BY <4>1, <4>2, <2>1, <1>0
    <3> QED
        BY <3>1, <3>2
  <2>5. ASSUME NEW p \in M, NEW q \in M PROVE Solo(p, q)'
      BY <2>1, <1>0
  <2> QED
      BY <2>3, <2>4, <2>5
<1>4. ASSUME NEW r \in M, DoBind(r)
      PROVE  Pairs' /\ (\A q \in M : First1(q)' /\ Out(q)' /\ Conf(q)') /\ \A p, q \in M : Solo(p, q)'
  <2>1. list' = list /\ Step(r) = "bind" /\ Step(r)' \in {"rebuild", "drop"} /\ \A q \in M : q # r => Step(q)' = Step(q)
      BY <1>4, <1>u, <1>m DEF DoBind
  <2> QED
      BY <2>1, <1>s
<1>5. ASSUME NEW r \in M, DoDrop(r)
      PROVE  Pairs' /\ (\A q \in M : First1(q)' /\ Out(q)' /\ Conf(q)') /\ \A p, q \in M : Solo(p, q)'
  <2>1. /\ Step(r) = "drop" /\ Step(r)' = "dropped" /\ \A q \in M : q # r => Step(q)' = Step(q)
        /\ In(list') = {x \in In(list) : x.id # r}
      BY <1>5, <1>u, <1>m DEF DoDrop
  <2>2. MO!Rec(r) \notin In(list') /\ In(list') \subseteq In(list)
      BY <2>1, <1>m
  <2> QED
      BY <2>1, <2>2, <1>s
<1>6. ASSUME NEW u \in DOMAIN Unmounts, DoesUnmount(u)
      PROVE  Pairs' /\ (\A q \in M : First1(q)' /\ Out(q)' /\ Conf(q)') /\ \A p, q \in M : Solo(p, q)'
  <2>1. In(list') \subseteq In(list)
      BY <1>6 DEF DoesUnmount, DoFind, DoLook, DoUnbind, DoRelease, DoForget, DoStrand
  <2>2. \A q \in M : Step(q)' = Step(q)
      BY <1>6, <1>m DEF DoesUnmount, DoFind, DoLook, DoUnbind, DoRelease, DoForget,
             DoStrand, Moved, Step
  <2> QED
      BY <2>1, <2>2, <1>t
<1>7. ASSUME NEW r \in Reqs, DoesBoth(r)
      PROVE  Pairs' /\ (\A q \in M : First1(q)' /\ Out(q)' /\ Conf(q)') /\ \A p, q \in M : Solo(p, q)'
  <2>1. /\ list' = list /\ Step(r) \in {"rebuild", "store", "reconcile"}
        /\ \A q \in Reqs : q # r => Step(q)' = Step(q)
      BY <1>7, <1>u DEF DoesBoth, DoRebuild, DoStore, DoReconcile, Step
  <2>2. CASE r \in M
    <3>1. Step(r)' \in {"store", "reconcile", "ok"}
        BY <2>2, <1>7, <1>u, <1>m DEF DoesBoth, DoRebuild, DoStore, DoReconcile
    <3> QED
        BY <2>1, <2>2, <3>1, <1>s, <1>m
  <2>3. CASE r \notin M
      BY <2>1, <2>3, <1>t, <1>m
  <2> QED
      BY <2>2, <2>3
<1>8. ASSUME DoSession
      PROVE  Pairs' /\ (\A q \in M : First1(q)' /\ Out(q)' /\ Conf(q)') /\ \A p, q \in M : Solo(p, q)'
    BY <1>8, <1>t DEF DoSession, Step
<1> HIDE DEF Pairs, First1, Out, Conf, Solo
<1> QED
    BY <1>1, <1>2, <1>3, <1>4, <1>5, <1>6, <1>7, <1>8, Effects DEF DoesMount

\* The newest of some binds is one of them.
LEMMA NewestIs ==
    ASSUME NEW n \in Nat, NEW which, which \subseteq 1 .. n, which # {}
    PROVE  MO!Newest(which) \in which /\ \A j \in which : j <= MO!Newest(which)
<1>1. \E i \in which : \A j \in which : j <= i
  <2> DEFINE T == {n - i : i \in which}
  <2>1. T \subseteq Nat /\ T # {}
    <3>1. \A i \in which : n - i \in Nat
        OBVIOUS
    <3> QED
        BY <3>1
  <2>2. PICK m \in T : \A l \in T : m <= l
    <3> HIDE DEF T
    <3> QED
        BY <2>1, NatMin
  <2>3. PICK i \in which : m = n - i
      BY <2>2
  <2>4. ASSUME NEW j \in which PROVE j <= i
    <3>1. n - j \in T
        OBVIOUS
    <3>2. n - i <= n - j
        BY <2>2, <2>3, <3>1
    <3>3. i \in Nat /\ j \in Nat
        OBVIOUS
    <3> HIDE DEF T
    <3> QED
        BY <3>2, <3>3
  <2> QED
      BY <2>4
<1> QED
    BY <1>1 DEF MO!Newest

\* What is bound last at or above a path is what is shown there.
LEMMA ShownIs ==
    ASSUME NEW k \in Seq(Given), NEW p, {i \in DOMAIN k : MO!Under(p, k[i].at)} # {}
    PROVE  LET i == MO!Newest({j \in DOMAIN k : MO!Under(p, k[j].at)})
           IN  /\ i \in DOMAIN k /\ MO!Under(p, k[i].at) /\ MO!Shown(k, p) = k[i]
               /\ \A j \in DOMAIN k : MO!Under(p, k[j].at) => j <= i
<1> DEFINE which == {j \in DOMAIN k : MO!Under(p, k[j].at)}
           i == MO!Newest(which)
<1>1. Len(k) \in Nat /\ which \subseteq 1 .. Len(k) /\ which # {}
    OBVIOUS
<1>2. i \in which /\ \A j \in which : j <= i
  <2> HIDE DEF which
  <2> QED
      BY <1>1, NewestIs
<1>3. MO!Shown(k, p) = k[i]
    BY <1>1 DEF MO!Shown
<1> QED
    BY <1>2, <1>3

\* What an unmount unbinds is what it found.
LEMMA Target ==
    ASSUME Composed, MountInv, NEW u \in DOMAIN Unmounts, Step(u) = "unbind",
           MO!IsMountpoint(kernel, Head(req[u].hit).at)
    PROVE  /\ Head(req[u].hit) \in In(kernel)
           /\ In(MO!Detach(kernel, Head(req[u].hit).at)) = In(kernel) \ {Head(req[u].hit)}
<1> DEFINE h == Head(req[u].hit)
           which == {j \in DOMAIN kernel : MO!Under(h.at, kernel[j].at)}
           i == MO!Newest(which)
           y == kernel[i]
<1>1. /\ req[u].hit \in Seq(Given) /\ req[u].hit # <<>> /\ Single(req[u].hit)
      /\ kernel \in Seq(Given) /\ Single(kernel) /\ In(kernel) \subseteq In(list)
      /\ In(list) \subseteq Given /\ u \in Reqs
    BY Inside, Mine DEF MountInv, Types, Hits, Binds, Unmounting
<1>2. h \in In(req[u].hit) /\ h \in Given
  <2>1. h \in In(req[u].hit)
      BY <1>1, TailIs
  <2> QED
      BY <2>1, <1>1 DEF In
<1>3. MO!Hit(u, h) /\ (h \in In(list) \/ (h.id \in DOMAIN Mounts /\ Step(h.id) = "dropped"))
    BY <1>2 DEF MountInv, Hits, Unmounting
<1>4. h.at \in Seq(Words) /\ MO!Under(h.at, h.at)
    BY <1>2, UnderItself DEF Composed, Named
<1>5. which # {}
  <2>1. MO!Shown(kernel, h.at) # None
      BY DEF MO!IsMountpoint
  <2> QED
      BY <2>1 DEF MO!Shown
<1>6. i \in DOMAIN kernel /\ MO!Shown(kernel, h.at) = y
  <2> HIDE DEF h
  <2> QED
      BY <1>1, <1>5, ShownIs
<1>7. y.at = h.at /\ y \in In(kernel) /\ y \in In(list) /\ y \in Given
    BY <1>1, <1>6 DEF MO!IsMountpoint, In
<1> HIDE DEF h, which, i, y
\* Nothing that is listed lies below it, if it is listed itself.
<1>8. ASSUME NEW x \in In(list), MO!Under(x.at, h.at), h \in In(list) PROVE x = h
  <2> SUFFICES ASSUME x # h PROVE FALSE
      OBVIOUS
  <2>1. x \in Given /\ MO!Clash(x, h) /\ MO!Clash(h, x)
    <3>1. MO!Clash(x, h)
        BY <1>8 DEF MO!Clash
    <3> QED
        BY <3>1, <1>1, Clashing
  <2>2. x.id \notin DOMAIN Mounts /\ h.id \notin DOMAIN Mounts
      BY <2>1, <1>8 DEF MountInv, Apart
  <2>3. x \in In(Config) /\ h \in In(Config)
      BY <2>1, <2>2, <1>2, Mine
  <2> QED
      BY <2>3, <1>3, <1>8 DEF Composed, OneAtOnce
\* What was dropped is not there, nor is anybody else at its path.
<1>d. h \in In(list)
  <2> SUFFICES ASSUME h \notin In(list) PROVE FALSE
      OBVIOUS
  <2>1. h.id \in DOMAIN Mounts /\ Step(h.id) = "dropped" /\ h = MO!Rec(h.id)
      BY <1>2, <1>3, Mine
  <2>2. MO!Under(y.at, h.at) /\ MO!Clash(h, y)
      BY <1>4, <1>7 DEF MO!Clash
  <2>3. y \notin In(Config)
      BY <2>1, <2>2, <1>7 DEF MountInv, Apart
  <2>4. y.id \in DOMAIN Mounts /\ y = MO!Rec(y.id)
      BY <2>3, <1>7, Mine
  <2>5. Mounts[y.id].at = Mounts[h.id].at
    <3>1. MO!Rec(y.id).at = Mounts[y.id].at /\ MO!Rec(h.id).at = Mounts[h.id].at
        BY DEF MO!Rec
    <3> QED
        BY <3>1, <2>1, <2>4, <1>7
  <2>6. "bind" \in FaultKinds
      BY <2>1 DEF MountInv, Hits
  <2>7. y.id = h.id
      BY <2>1, <2>4, <2>5, <2>6 DEF Composed, OneAtOnce
  <2> QED
      BY <2>1, <2>4, <2>7, <1>7
<1>9. y = h
  <2>1. MO!Under(y.at, h.at)
      BY <1>4, <1>7
  <2> QED
      BY <2>1, <1>7, <1>8, <1>d
<1>10. \A x \in In(kernel) : MO!Under(x.at, h.at) => x = h
    BY <1>1, <1>8, <1>d
<1> DEFINE keep == {j \in DOMAIN kernel : j < i \/ ~MO!Under(kernel[j].at, h.at)}
<1>11. MO!Detach(kernel, h.at) = MO!Kept(kernel, keep)
    BY DEF MO!Detach, which, i
<1>12. {kernel[j] : j \in {l \in DOMAIN kernel : l \in keep}} = In(kernel) \ {h}
  <2>1. ASSUME NEW j \in DOMAIN kernel, j \in keep PROVE kernel[j] # h
    <3>1. i \notin keep
        BY <1>1, <1>4, <1>6, <1>9 DEF y
    <3> QED
        BY <2>1, <3>1, <1>1, <1>6, <1>9 DEF y, Single
  <2>2. ASSUME NEW j \in DOMAIN kernel, kernel[j] # h PROVE j \in keep
      BY <2>2, <1>10 DEF In
  <2> HIDE DEF keep
  <2> QED
      BY <2>1, <2>2 DEF In
<1> HIDE DEF keep
<1>13. In(MO!Kept(kernel, keep)) = In(kernel) \ {h}
    BY <1>1, <1>12, KeptIs
<1> QED
    BY <1>7, <1>9, <1>11, <1>13 DEF h

\* What a step of one request leaves of the others.
LEMMA OnlyOne ==
    ASSUME NEW r \in Reqs, NEW step, Moved(r, step)
    PROVE  /\ Step(r)' = step /\ req'[r].hit = req[r].hit /\ req'[r].all = req[r].all
           /\ \A q \in Reqs : q # r => req'[q] = req[q] /\ Step(q)' = Step(q)
BY DEF Moved, Step

\* The first of what is to be removed.
LEMMA HeadIs ==
    ASSUME Composed, MountInv, NEW u \in DOMAIN Unmounts, Step(u) \in Unmounting
    PROVE  /\ Head(req[u].hit) \in In(req[u].hit) /\ Head(req[u].hit) \in Given
           /\ In(req[u].hit) \subseteq Given /\ req[u].hit \in Seq(Given)
<1>1. req[u].hit \in Seq(Given) /\ req[u].hit # <<>> /\ Single(req[u].hit)
    BY Mine DEF MountInv, Types, Hits
<1>2. Head(req[u].hit) \in In(req[u].hit)
    BY <1>1, TailIs
<1> QED
    BY <1>1, <1>2 DEF In

\* What an unmount is to remove stays there: nobody else removes it.
LEMMA HitsNext == ASSUME Composed, MountInv, MO!Next PROVE Hits'
<1> DEFINE M == DOMAIN Mounts
           U == DOMAIN Unmounts
           Solo(u, v) == Step(u) \in Unmounting /\ Step(v) \in Unmounting => u = v
           There(x) == x \in In(list) \/ (x.id \in M /\ Step(x.id) = "dropped")
           Todo(u) == Step(u) \in Unmounting =>
                /\ req[u].hit # <<>> /\ Single(req[u].hit)
                /\ In(req[u].hit) \subseteq In(req[u].all)
                /\ \A x \in In(req[u].hit) : MO!Hit(u, x) /\ There(x)
           Going(u) == Step(u) \in {"release", "forget"} => Head(req[u].hit) \in In(list)
           Done(u) == Step(u) \in {"rebuild", "store", "reconcile", "strand", "ok"} =>
                         req[u].hit = <<>> /\ req[u].all # <<>>
           Fewer(u) == Len(req[u].hit) <= Len(req[u].all)
           Why(r) == Step(r) \in {"drop", "dropped"} => "bind" \in FaultKinds
           All == /\ \A u, v \in U : Solo(u, v)
                  /\ \A u \in U : Todo(u) /\ Going(u) /\ Done(u) /\ Fewer(u)
                  /\ \A r \in M : Why(r)
<1>0. All
    BY DEF MountInv, Hits
<1>m. /\ \A r \in M : MO!Rec(r) \in Given /\ MO!Rec(r).id = r /\ r \in Reqs /\ r \notin U
      /\ \A u \in U : u \in Reqs /\ u \notin M
      /\ In(list) \subseteq Given /\ \A x \in Given : x.id \in M => x = MO!Rec(x.id)
      /\ \A x, y \in Given : x.id = y.id => x = y
    BY Mine, Inside
<1> SUFFICES All'
    BY DEF Hits
\* A step of a mount.
<1>s. ASSUME \A u \in U : req'[u] = req[u], \A x \in In(list) : There(x)',
             \A q \in M : Step(q) = "dropped" => Step(q)' = "dropped",
             \A u \in U : Step(u) \in {"release", "forget"} => Head(req[u].hit) \in In(list'),
             \A q \in M : Why(q)'
      PROVE All'
  <2>1. \A u \in U : Step(u)' = Step(u)
      BY <1>s DEF Step
  <2>2. \A x : There(x) => There(x)'
      BY <1>s
  <2>3. ASSUME NEW u \in U PROVE Todo(u)' /\ Going(u)' /\ Done(u)' /\ Fewer(u)'
    <3>1. Todo(u) /\ Going(u) /\ Done(u) /\ Fewer(u)
        BY <1>0
    <3> HIDE DEF There
    <3> QED
        BY <3>1, <2>1, <2>2, <1>s
  <2>4. ASSUME NEW u \in U, NEW v \in U PROVE Solo(u, v)'
      BY <1>0, <2>1
  <2> QED
      BY <2>3, <2>4, <1>s
\* A step of an unmount, that changes neither the list nor who is dropped.
<1>t. ASSUME NEW u \in U, \A q \in Reqs : q # u => req'[q] = req[q], In(list') = In(list),
             Todo(u)', Going(u)', Done(u)', Fewer(u)',
             Step(u)' \in Unmounting => \A v \in U : v # u => Step(v) \notin Unmounting
      PROVE All'
  <2>1. \A q \in Reqs : q # u => Step(q)' = Step(q)
      BY <1>t DEF Step
  <2>2. \A x : There(x) => There(x)'
      BY <1>t, <1>m, <2>1
  <2>3. ASSUME NEW v \in U PROVE Todo(v)' /\ Going(v)' /\ Done(v)' /\ Fewer(v)'
    <3>1. Todo(v) /\ Going(v) /\ Done(v) /\ Fewer(v)
        BY <1>0
    <3>2. CASE v # u
      <4> HIDE DEF There
      <4> QED
          BY <3>1, <3>2, <2>1, <2>2, <1>t, <1>m
    <3> HIDE DEF Todo, Going, Done, Fewer
    <3>3. CASE v = u
        BY <3>3, <1>t
    <3> QED
        BY <3>2, <3>3
  <2>4. ASSUME NEW v \in U, NEW w \in U PROVE Solo(v, w)'
      BY <1>0, <2>1, <1>t, <1>m
  <2>5. \A r \in M : Why(r)'
      BY <1>0, <2>1, <1>m
  <2> QED
      BY <2>3, <2>4, <2>5
<1>u. \A u, v \in U : Step(u) \in Unmounting /\ v # u => Step(v) \notin Unmounting
    BY <1>0
<1>1. ASSUME NEW r \in M, DoCheck(r) \/ DoAdd(r) \/ DoBind(r) PROVE All'
  <2>1. /\ list' = list /\ Step(r) # "dropped" /\ Step(r)' # "dropped"
        /\ Step(r)' = "drop" => "bind" \in FaultKinds
        /\ \A q \in Reqs : q # r => req'[q] = req[q] /\ Step(q)' = Step(q)
      BY <1>1, <1>m, OnlyOne DEF DoCheck, DoAdd, DoBind
  <2>2. \A q \in M : Why(q)' /\ (Step(q) = "dropped" => Step(q)' = "dropped")
      BY <2>1, <1>0, <1>m
  <2>3. \A u \in U : req'[u] = req[u]
      BY <2>1, <1>m
  <2>4. \A x \in In(list) : There(x)'
      BY <2>1
  <2>5. \A u \in U : Step(u) \in {"release", "forget"} => Head(req[u].hit) \in In(list')
      BY <1>0, <2>1
  <2> HIDE DEF All, Why, There
  <2> QED
      BY <2>2, <2>3, <2>4, <2>5, <1>s
<1>2. ASSUME NEW r \in M, DoAppend(r) PROVE All'
  <2>1. /\ In(list') = In(list) \cup {MO!Rec(r)} /\ Step(r) = "append" /\ Step(r)' = "bind"
        /\ \A q \in Reqs : q # r => req'[q] = req[q] /\ Step(q)' = Step(q)
      BY <1>2, <1>m, OnlyOne DEF DoAppend
  <2>2. \A q \in M : Why(q)' /\ (Step(q) = "dropped" => Step(q)' = "dropped")
      BY <2>1, <1>0, <1>m
  <2>3. \A u \in U : req'[u] = req[u]
      BY <2>1, <1>m
  <2>4. \A x \in In(list) : There(x)'
      BY <2>1
  <2>5. \A u \in U : Step(u) \in {"release", "forget"} => Head(req[u].hit) \in In(list')
      BY <1>0, <2>1
  <2> HIDE DEF All, Why, There
  <2> QED
      BY <2>2, <2>3, <2>4, <2>5, <1>s
<1>3. ASSUME NEW r \in M, DoDrop(r) PROVE All'
  <2>1. /\ In(list') = {x \in In(list) : x.id # r} /\ Step(r) = "drop" /\ Step(r)' = "dropped"
        /\ \A q \in Reqs : q # r => req'[q] = req[q] /\ Step(q)' = Step(q)
      BY <1>3, <1>m, OnlyOne DEF DoDrop
  <2>2. \A q \in M : Why(q)' /\ (Step(q) = "dropped" => Step(q)' = "dropped")
      BY <2>1, <1>0, <1>m
  <2>3. \A u \in U : req'[u] = req[u]
      BY <2>1, <1>m
  <2>4. \A x \in In(list) : There(x)'
      BY <2>1
  <2>5. ASSUME NEW u \in U, Step(u) \in {"release", "forget"}
        PROVE  Head(req[u].hit) \in In(list')
    <3> DEFINE h == Head(req[u].hit)
    <3>1. h \in In(list) /\ Leaving(h)
        BY <1>0, <2>5 DEF Leaving
    <3>2. ~Binding(h)
        BY <3>1 DEF MountInv, Binds
    <3>3. h.id # r
        BY <3>2, <2>1 DEF Binding
    <3> QED
        BY <3>1, <3>3, <2>1
  <2> HIDE DEF All, Why, There
  <2> QED
      BY <2>2, <2>3, <2>4, <2>5, <1>s
<1>4. ASSUME NEW u \in U, DoFind(u) PROVE All'
  <2>1. list' = list /\ Step(u) = "none" /\ \A q \in Reqs : Step(q) \notin Unmounting
      BY <1>4 DEF DoFind
  <2>2. CASE Moved(u, "refused")
    <3>1. /\ Step(u)' = "refused" /\ req'[u].hit = req[u].hit /\ req'[u].all = req[u].all
          /\ \A q \in Reqs : q # u => req'[q] = req[q]
        BY <2>2, <1>m, OnlyOne
    <3>2. Todo(u)' /\ Going(u)' /\ Done(u)' /\ Fewer(u)'
        BY <3>1, <1>0 DEF Unmounting
    <3> HIDE DEF All, Todo, Going, Done, Fewer
    <3> QED
        BY <3>1, <3>2, <2>1, <1>t, <1>m
  <2>3. CASE /\ Step(u)' = "sessions" /\ req'[u].hit = req'[u].all /\ req'[u].hit # <<>>
             /\ Single(req'[u].hit) /\ In(req'[u].hit) = {x \in In(list) : MO!Hit(u, x)}
             /\ req'[u].rules = req[u].rules /\ \A q \in Reqs : q # u => req'[q] = req[q]
    <3>1. Todo(u)' /\ Going(u)' /\ Done(u)'
        BY <2>1, <2>3
    <3>2. Fewer(u)'
      <4>1. req'[u].all \in Seq(Given)
          BY TypesNext, <1>m DEF Types
      <4>2. Len(req'[u].all) \in Nat
          BY <4>1
      <4> QED
          BY <4>2, <2>3
    <3> HIDE DEF All, Todo, Going, Done, Fewer
    <3> QED
        BY <3>1, <3>2, <2>1, <2>3, <1>t, <1>m
  <2> QED
      BY <2>2, <2>3, <1>4 DEF DoFind
<1>5. ASSUME NEW u \in U, DoLook(u) \/ DoRelease(u) PROVE All'
  <2>1. /\ list' = list /\ Step(u) \in {"sessions", "release"} /\ req'[u].hit = req[u].hit
        /\ req'[u].all = req[u].all
        /\ Step(u)' \in {"refused", "unbind", "forget"} /\ (Step(u)' = "forget" => Step(u) = "release")
        /\ \A q \in Reqs : q # u => req'[q] = req[q] /\ Step(q)' = Step(q)
      BY <1>5, <1>m, OnlyOne DEF DoLook, DoRelease
  <2>2. Step(u) \in Unmounting
      BY <2>1 DEF Unmounting
  <2>3. Todo(u)'
      BY <2>1, <2>2, <1>0, <1>m
  <2>4. Going(u)' /\ Done(u)' /\ Fewer(u)'
      BY <2>1, <1>0
  <2> HIDE DEF All, Todo, Going, Done, Fewer
  <2> QED
      BY <2>1, <2>2, <2>3, <2>4, <1>t, <1>u
<1>6. ASSUME NEW u \in U, DoUnbind(u) PROVE All'
  <2>1. /\ list' = list /\ Step(u) = "unbind" /\ req'[u].hit = req[u].hit
        /\ req'[u].all = req[u].all
        /\ Step(u)' \in {"release", "failed"}
        /\ Step(u)' = "release" => MO!IsMountpoint(kernel, Head(req[u].hit).at)
        /\ \A q \in Reqs : q # u => req'[q] = req[q] /\ Step(q)' = Step(q)
      BY <1>6, <1>m, OnlyOne DEF DoUnbind
  <2>2. Step(u) \in Unmounting
      BY <2>1 DEF Unmounting
  <2>3. Todo(u)'
      BY <2>1, <2>2, <1>0, <1>m
  <2>4. Going(u)'
    <3>1. Step(u)' = "release" => Head(req[u].hit) \in In(kernel)
        BY <2>1, Target
    <3>2. In(kernel) \subseteq In(list)
        BY DEF MountInv, Binds
    <3> QED
        BY <3>1, <3>2, <2>1
  <2>5. Done(u)' /\ Fewer(u)'
      BY <2>1, <1>0
  <2> HIDE DEF All, Todo, Going, Done, Fewer
  <2> QED
      BY <2>1, <2>2, <2>3, <2>4, <2>5, <1>t, <1>u
<1>7. ASSUME NEW u \in U, DoForget(u) PROVE All'
  <2> DEFINE h == Head(req[u].hit)
  <2>1. /\ Step(u) = "forget" /\ In(list') = {x \in In(list) : x.id # h.id}
        /\ \/ Step(u)' = "rebuild" /\ req'[u].hit = <<>>
           \/ Step(u)' = "unbind" /\ req'[u].hit # <<>>
        /\ Single(req'[u].hit) /\ In(req'[u].hit) = In(req[u].hit) \ {h}
        /\ Len(req'[u].hit) = Len(req[u].hit) - 1
        /\ req'[u].all = req[u].all
        /\ \A q \in Reqs : q # u => req'[q] = req[q]
      BY <1>7 DEF DoForget
  <2>2. \A q \in Reqs : q # u => Step(q)' = Step(q)
      BY <2>1 DEF Step
  <2>3. Step(u) \in Unmounting /\ h \in In(req[u].hit) /\ h \in Given /\ In(req[u].hit) \subseteq Given
        /\ req[u].hit \in Seq(Given) /\ req[u].all \in Seq(Given)
    <3>1. Step(u) \in Unmounting /\ req[u].all \in Seq(Given)
        BY <2>1, <1>m DEF Unmounting, MountInv, Types
    <3> QED
        BY <3>1, HeadIs
  <2> HIDE DEF h
  <2>4. \A x \in In(req'[u].hit) : MO!Hit(u, x) /\ There(x)'
    <3> TAKE x \in In(req'[u].hit)
    <3>1. x \in In(req[u].hit) /\ x # h /\ x \in Given /\ x.id # h.id
        BY <2>1, <2>3, <1>m
    <3>2. MO!Hit(u, x) /\ There(x)
        BY <3>1, <2>3, <1>0
    <3> QED
        BY <3>1, <3>2, <2>1, <2>2, <1>m
  <2>5. Todo(u)' /\ Going(u)'
      BY <2>1, <2>3, <2>4, <1>0 DEF Unmounting
  <2>6. Done(u)' /\ Fewer(u)'
    <3>1. h \in In(req[u].all)
        BY <2>3, <1>0
    <3>2. req[u].all # <<>>
        BY <3>1 DEF In
    <3>3. Len(req[u].hit) \in Nat /\ Len(req[u].all) \in Nat /\ Fewer(u)
        BY <2>3, <1>0
    <3> QED
        BY <2>1, <3>2, <3>3
  <2>7. ASSUME NEW v \in U, v # u PROVE Todo(v)' /\ Going(v)' /\ Done(v)' /\ Fewer(v)'
    <3>1. req'[v] = req[v] /\ Step(v)' = Step(v) /\ Step(v) \notin Unmounting
        BY <2>1, <2>2, <2>3, <2>7, <1>m, <1>u
    <3> QED
        BY <3>1, <1>0 DEF Unmounting
  <2>8. ASSUME NEW v \in U, NEW w \in U PROVE Solo(v, w)'
      BY <1>0, <2>2, <2>3, <1>m
  <2>9. \A r \in M : Why(r)'
      BY <1>0, <2>2, <1>m
  <2> HIDE DEF Todo, Going, Done, Fewer
  <2> QED
      BY <2>5, <2>6, <2>7, <2>8, <2>9
<1>8. ASSUME NEW r \in Reqs, DoesBoth(r) \/ (r \in U /\ DoStrand(r)) PROVE All'
  <2>1. /\ list' = list /\ Step(r) \in {"rebuild", "store", "reconcile", "strand"}
        /\ Step(r)' \in {"store", "reconcile", "strand", "ok"}
        /\ req'[r].hit = req[r].hit /\ req'[r].all = req[r].all
        /\ \A q \in Reqs : q # r => req'[q] = req[q]
    <3>1. ASSUME NEW step, Moved(r, step)
          PROVE  /\ Step(r)' = step /\ req'[r].hit = req[r].hit /\ req'[r].all = req[r].all
                                                /\ \A q \in Reqs : q # r => req'[q] = req[q]
        BY <3>1, OnlyOne
    <3> QED
        BY <1>8, <3>1 DEF DoesBoth, DoRebuild, DoStore, DoReconcile, DoStrand
  <2>2. \A q \in Reqs : q # r => Step(q)' = Step(q)
      BY <2>1 DEF Step
  <2>3. CASE r \in M
    <3>1. \A q \in M : Why(q)' /\ (Step(q) = "dropped" => Step(q)' = "dropped")
        BY <2>1, <2>2, <2>3, <1>0, <1>m
    <3>2. \A u \in U : req'[u] = req[u]
        BY <2>1, <2>3, <1>m
    <3>3. \A x \in In(list) : There(x)'
        BY <2>1
    <3>4. \A u \in U : Step(u) \in {"release", "forget"} => Head(req[u].hit) \in In(list')
        BY <1>0, <2>1
    <3> HIDE DEF All, Why, There
    <3> QED
        BY <3>1, <3>2, <3>3, <3>4, <1>s
  <2>4. CASE r \in U
    <3>1. Todo(r)' /\ Going(r)' /\ Done(r)' /\ Fewer(r)'
        BY <2>1, <2>4, <1>0 DEF Unmounting
    <3>2. Step(r)' \notin Unmounting
        BY <2>1 DEF Unmounting
    <3> HIDE DEF All, Todo, Going, Done, Fewer
    <3> QED
        BY <2>1, <2>4, <3>1, <3>2, <1>t
  <2> QED
      BY <2>3, <2>4 DEF Reqs
<1>9. ASSUME DoSession PROVE All'
  <2>1. list' = list /\ req' = req
      BY <1>9 DEF DoSession
  <2> QED
      BY <2>1, <1>0 DEF Step
<1> HIDE DEF All
<1> QED
    BY <1>1, <1>2, <1>3, <1>4, <1>5, <1>6, <1>7, <1>8, <1>9, <1>m, Effects DEF DoesMount,
           DoesUnmount

\* What is listed stays bound: an unmount unbinds its own mount.
LEMMA BindsNext == ASSUME Composed, MountInv, MO!Next PROVE Binds'
<1> DEFINE M == DOMAIN Mounts
           U == DOMAIN Unmounts
           Out == {"release", "forget"}
           Bound == In(kernel) \subseteq In(list)
           One(x) == ~(Binding(x) /\ Leaving(x)) /\ (x \in In(kernel) <=> ~Binding(x) /\ ~Leaving(x))
           Order == \A i, j \in DOMAIN kernel : i < j => ~MO!Under(kernel[i].at, kernel[j].at)
           Listed(r) == Step(r) \in {"bind", "drop"} => MO!Rec(r) \in In(list)
           All == Bound /\ (\A x \in In(list) : One(x)) /\ Order /\ \A r \in M : Listed(r)
<1>0. All
    BY DEF MountInv, Binds
<1>m. /\ \A r \in M : MO!Rec(r) \in Given /\ MO!Rec(r).id = r /\ r \in Reqs /\ r \notin U
      /\ \A u \in U : u \in Reqs /\ u \notin M
      /\ In(list) \subseteq Given /\ In(kernel) \subseteq Given
      /\ \A x \in Given : x.id \in M => x = MO!Rec(x.id)
      /\ \A x, y \in Given : x.id = y.id => x = y
      /\ kernel \in Seq(Given)
    BY Mine, Inside DEF MountInv, Types
<1> SUFFICES All'
    BY DEF Binds
<1>l. ASSUME \A v \in U : (Step(v)' \in Out <=> Step(v) \in Out) /\ (Step(v) \in Out => req'[v].hit = req[v].hit)
      PROVE \A x : Leaving(x)' <=> Leaving(x)
    BY <1>l DEF Leaving
<1>b. ASSUME \A q \in M : Step(q)' \in {"bind", "drop"} <=> Step(q) \in {"bind", "drop"}
      PROVE \A x : Binding(x)' <=> Binding(x)
    BY <1>b DEF Binding
<1>q. ASSUME In(list') = In(list), kernel' = kernel,
             \A v \in U : (Step(v)' \in Out <=> Step(v) \in Out) /\ (Step(v) \in Out => req'[v].hit = req[v].hit),
             \A q \in M : Step(q)' \in {"bind", "drop"} <=> Step(q) \in {"bind", "drop"}
      PROVE All'
  <2>1. \A x : (Leaving(x)' <=> Leaving(x)) /\ (Binding(x)' <=> Binding(x))
      BY <1>q, <1>l, <1>b
  <2> QED
      BY <1>0, <1>q, <2>1
<1>1. ASSUME NEW r \in M, DoCheck(r) \/ DoAdd(r) PROVE All'
  <2>1. /\ list' = list /\ kernel' = kernel /\ Step(r) \notin {"bind", "drop"}
        /\ Step(r)' \notin {"bind", "drop"}
        /\ \A q \in Reqs : q # r => req'[q] = req[q] /\ Step(q)' = Step(q)
      BY <1>1, <1>m, OnlyOne DEF DoCheck, DoAdd
  <2>2. \A v \in U : (Step(v)' \in Out <=> Step(v) \in Out) /\ (Step(v) \in Out => req'[v].hit = req[v].hit)
      BY <2>1, <1>m
  <2>3. \A q \in M : Step(q)' \in {"bind", "drop"} <=> Step(q) \in {"bind", "drop"}
      BY <2>1, <1>m
  <2> HIDE DEF All
  <2> QED
      BY <2>1, <2>2, <2>3, <1>q
<1>2. ASSUME NEW r \in M, DoAppend(r) PROVE All'
  <2>1. /\ In(list') = In(list) \cup {MO!Rec(r)} /\ kernel' = kernel /\ Step(r) = "append"
        /\ Step(r)' = "bind"
        /\ \A q \in Reqs : q # r => req'[q] = req[q] /\ Step(q)' = Step(q)
      BY <1>2, <1>m, OnlyOne DEF DoAppend
  <2>2. \A x : Leaving(x)' <=> Leaving(x)
      BY <2>1, <1>l, <1>m
  <2>3. \A x \in Given : Binding(x)' <=> Binding(x) \/ x = MO!Rec(r)
      BY <2>1, <1>m DEF Binding
  <2>4. MO!Rec(r) \notin In(list) /\ MO!Rec(r) \notin In(kernel) /\ ~Leaving(MO!Rec(r))
    <3>1. MO!Rec(r) \notin In(list)
        BY <2>1 DEF MountInv, Apart
    <3>2. \A x : Leaving(x) => x \in In(list)
        BY DEF MountInv, Hits, Leaving
    <3> QED
        BY <3>1, <3>2, <1>0
  <2>5. \A x \in In(list') : One(x)'
      BY <2>1, <2>2, <2>3, <2>4, <1>0, <1>m
  <2>6. \A q \in M : Listed(q)'
      BY <2>1, <1>0, <1>m
  <2>7. Bound' /\ Order'
      BY <2>1, <1>0
  <2> HIDE DEF Bound, One, Order, Listed
  <2> QED
      BY <2>5, <2>6, <2>7
<1>3. ASSUME NEW r \in M, DoBind(r) PROVE All'
  <2>1. /\ list' = list /\ Step(r) = "bind"
        /\ \A q \in Reqs : q # r => req'[q] = req[q] /\ Step(q)' = Step(q)
      BY <1>3, <1>m, OnlyOne DEF DoBind
  <2>2. \A v \in U : (Step(v)' \in Out <=> Step(v) \in Out) /\ (Step(v) \in Out => req'[v].hit = req[v].hit)
      BY <2>1, <1>m
  <2>3. CASE Moved(r, "drop") /\ kernel' = kernel
    <3>1. Step(r)' = "drop"
        BY <2>3 DEF Moved
    <3>2. \A q \in M : Step(q)' \in {"bind", "drop"} <=> Step(q) \in {"bind", "drop"}
        BY <2>1, <3>1, <1>m
    <3> HIDE DEF All
    <3> QED
        BY <2>1, <2>2, <2>3, <3>2, <1>q
  <2>4. CASE /\ kernel' = Append(kernel, MO!Rec(r)) /\ In(kernel') = In(kernel) \cup {MO!Rec(r)} /\ Moved(r, "rebuild")
    <3>1. Step(r)' = "rebuild"
        BY <2>4 DEF Moved
    <3>2. \A x : Leaving(x)' <=> Leaving(x)
        BY <2>2, <1>l
    <3>3. \A x \in Given : Binding(x)' <=> Binding(x) /\ x # MO!Rec(r)
        BY <2>1, <3>1, <1>m DEF Binding
    <3>4. MO!Rec(r) \in In(list) /\ Binding(MO!Rec(r)) /\ ~Leaving(MO!Rec(r)) /\ MO!Rec(r) \notin In(kernel)
        BY <2>1, <1>0, <1>m DEF Binding
    <3>5. \A x \in In(list') : One(x)'
        BY <2>1, <2>4, <3>2, <3>3, <3>4, <1>0, <1>m
    <3>6. Bound' /\ \A q \in M : Listed(q)'
        BY <2>1, <2>4, <3>1, <3>4, <1>0, <1>m
    <3>7. \A x \in In(kernel) : ~MO!Under(x.at, MO!Rec(r).at)
      <4>1. \A x \in In(kernel) : x \in In(list) /\ x # MO!Rec(r) /\ ~MO!Clash(MO!Rec(r), x)
          BY <3>4, <1>0, <1>m DEF MountInv, Apart
      <4> QED
          BY <4>1 DEF MO!Clash
    <3>8. Order'
      <4> SUFFICES ASSUME NEW i \in DOMAIN kernel', NEW j \in DOMAIN kernel', i < j
                   PROVE ~MO!Under(kernel'[i].at, kernel'[j].at)
          OBVIOUS
      <4>1. /\ DOMAIN kernel = 1 .. Len(kernel) /\ Len(kernel) \in Nat
            /\ DOMAIN kernel' = 1 .. Len(kernel) + 1
            /\ \A n \in 1 .. Len(kernel) : kernel'[n] = kernel[n]
            /\ kernel'[Len(kernel) + 1] = MO!Rec(r)
          BY <2>4, <1>m
      <4>2. i \in 1 .. Len(kernel)
          BY <4>1
      <4>3. kernel[i] \in In(kernel) /\ kernel'[i] = kernel[i]
          BY <4>1, <4>2 DEF In
      <4>4. CASE j = Len(kernel) + 1
          BY <4>4, <4>3, <4>1, <3>7
      <4>5. CASE j \in 1 .. Len(kernel)
          BY <4>5, <4>1, <4>2, <1>0
      <4> QED
          BY <4>1, <4>4, <4>5
    <3> HIDE DEF Bound, One, Order, Listed
    <3> QED
        BY <3>5, <3>6, <3>8
  <2> QED
      BY <2>3, <2>4, <1>3 DEF DoBind
<1>4. ASSUME NEW r \in M, DoDrop(r) PROVE All'
  <2>1. /\ In(list') = {x \in In(list) : x.id # r} /\ kernel' = kernel /\ Step(r) = "drop" /\ Step(r)' = "dropped"
        /\ \A q \in Reqs : q # r => req'[q] = req[q] /\ Step(q)' = Step(q)
      BY <1>4, <1>m, OnlyOne DEF DoDrop
  <2>2. \A x : Leaving(x)' <=> Leaving(x)
      BY <2>1, <1>l, <1>m
  <2>3. \A x \in Given : x.id # r => (Binding(x)' <=> Binding(x))
      BY <2>1, <1>m DEF Binding
  <2>4. \A x \in In(kernel) : x.id # r
      BY <2>1, <1>0, <1>m DEF Binding
  <2>5. \A x \in In(list') : One(x)'
      BY <2>1, <2>2, <2>3, <1>0, <1>m
  <2>6. Bound' /\ Order'
      BY <2>1, <2>4, <1>0
  <2>7. \A q \in M : Listed(q)'
      BY <2>1, <1>0, <1>m
  <2> HIDE DEF Bound, One, Order, Listed
  <2> QED
      BY <2>5, <2>6, <2>7
<1>5. ASSUME NEW u \in U, DoFind(u) \/ DoLook(u) \/ DoRelease(u) \/ DoStrand(u) PROVE All'
  <2>1. /\ list' = list /\ kernel' = kernel
        /\ Step(u)' \in Out <=> Step(u) \in Out
        /\ Step(u) \in Out => req'[u].hit = req[u].hit
        /\ \A q \in Reqs : q # u => req'[q] = req[q]
    <3>1. ASSUME NEW step, Moved(u, step)
          PROVE  /\ Step(u)' = step /\ req'[u].hit = req[u].hit
                                                /\ \A q \in Reqs : q # u => req'[q] = req[q]
        BY <3>1, <1>m, OnlyOne
    <3> QED
        BY <1>5, <3>1 DEF DoFind, DoLook, DoRelease, DoStrand
  <2>2. \A v \in U : (Step(v)' \in Out <=> Step(v) \in Out) /\ (Step(v) \in Out => req'[v].hit = req[v].hit)
      BY <2>1, <1>m DEF Step
  <2>3. \A q \in M : Step(q)' \in {"bind", "drop"} <=> Step(q) \in {"bind", "drop"}
      BY <2>1, <1>m DEF Step
  <2> HIDE DEF All
  <2> QED
      BY <2>1, <2>2, <2>3, <1>q
<1>6. ASSUME NEW u \in U, DoUnbind(u) PROVE All'
  <2> DEFINE h == Head(req[u].hit)
  <2>1. /\ list' = list /\ Step(u) = "unbind" /\ req'[u].hit = req[u].hit
        /\ \A q \in Reqs : q # u => req'[q] = req[q] /\ Step(q)' = Step(q)
      BY <1>6, <1>m, OnlyOne DEF DoUnbind
  <2>2. \A q \in M : Step(q)' \in {"bind", "drop"} <=> Step(q) \in {"bind", "drop"}
      BY <2>1, <1>m
  <2>3. CASE kernel' = kernel /\ Moved(u, "failed")
    <3>1. Step(u)' = "failed"
        BY <2>3 DEF Moved
    <3>2. \A v \in U : (Step(v)' \in Out <=> Step(v) \in Out) /\ (Step(v) \in Out => req'[v].hit = req[v].hit)
        BY <2>1, <3>1, <1>m
    <3> HIDE DEF All
    <3> QED
        BY <2>1, <2>2, <2>3, <3>2, <1>q
  <2>4. CASE /\ MO!IsMountpoint(kernel, h.at) /\ kernel' = MO!Detach(kernel, h.at) /\ Moved(u, "release")
    <3>1. Step(u)' = "release"
        BY <2>4 DEF Moved
    <3>2. h \in In(kernel) /\ In(kernel') = In(kernel) \ {h}
        BY <2>1, <2>4, Target
    <3>3. \A x : Binding(x)' <=> Binding(x)
        BY <2>2, <1>b
    <3>4. \A x : Leaving(x)' <=> Leaving(x) \/ x = h
        BY <2>1, <3>1, <1>m DEF Leaving
    <3>5. h \in In(list) /\ ~Binding(h)
        BY <3>2, <1>0
    <3> DEFINE k == kernel
               i == MO!Newest({j \in DOMAIN k : MO!Under(h.at, k[j].at)})
               keep == {j \in DOMAIN k : j < i \/ ~MO!Under(k[j].at, h.at)}
    <3>6. kernel' = MO!Kept(kernel, keep)
        BY <2>4 DEF MO!Detach
    <3> HIDE DEF h, i, keep
    <3>7. \A x \in In(list') : One(x)'
        BY <2>1, <3>2, <3>3, <3>4, <3>5, <1>0
    <3>8. Bound' /\ \A q \in M : Listed(q)'
        BY <2>1, <3>2, <1>0, <1>m
    <3>9. Order'
      <4> SUFFICES ASSUME NEW a \in DOMAIN kernel', NEW b \in DOMAIN kernel', a < b
                   PROVE ~MO!Under(kernel'[a].at, kernel'[b].at)
          OBVIOUS
      <4>1. PICK c \in DOMAIN kernel, d \in DOMAIN kernel :
                c < d /\ kernel'[a] = kernel[c] /\ kernel'[b] = kernel[d]
          BY <3>6, <1>m, KeptIs
      <4> QED
          BY <4>1, <1>0
    <3> HIDE DEF Bound, One, Order, Listed
    <3> QED
        BY <3>7, <3>8, <3>9
  <2> QED
      BY <2>3, <2>4, <1>6 DEF DoUnbind
<1>7. ASSUME NEW u \in U, DoForget(u) PROVE All'
  <2> DEFINE h == Head(req[u].hit)
  <2>1. /\ Step(u) = "forget" /\ In(list') = {x \in In(list) : x.id # h.id} /\ kernel' = kernel
        /\ Step(u)' \in {"rebuild", "unbind"}
        /\ \A q \in Reqs : q # u => req'[q] = req[q]
      BY <1>7 DEF DoForget
  <2>2. \A q \in Reqs : q # u => Step(q)' = Step(q)
      BY <2>1 DEF Step
  <2>3. h \in In(list) /\ Leaving(h) /\ h \in Given /\ \A v \in U : v # u => Step(v) \notin Unmounting
      BY <2>1, <1>m DEF MountInv, Hits, Leaving, Unmounting
  <2>4. \A x : ~Leaving(x)' /\ (Leaving(x) => x = h)
      BY <2>1, <2>2, <2>3, <1>m DEF Leaving, Unmounting
  <2>5. \A x : Binding(x)' <=> Binding(x)
      BY <2>2, <1>b, <1>m
  <2> HIDE DEF h
  <2>6. In(list') = In(list) \ {h}
      BY <2>1, <2>3, <1>m
  <2>7. \A x \in In(list') : One(x)'
      BY <2>1, <2>4, <2>5, <2>6, <1>0
  <2>8. Bound' /\ Order'
      BY <2>1, <2>3, <2>6, <1>0
  <2>9. ASSUME NEW q \in M PROVE Listed(q)'
    <3>1. Step(q)' = Step(q)
        BY <2>2, <1>m
    <3>2. Step(q) \in {"bind", "drop"} => MO!Rec(q) \in In(list) /\ Binding(MO!Rec(q))
        BY <1>0, <1>m DEF Binding
    <3>3. ~Binding(h)
        BY <2>3, <1>0
    <3> QED
        BY <3>1, <3>2, <3>3, <2>6
  <2> HIDE DEF Bound, One, Order, Listed
  <2> QED
      BY <2>7, <2>8, <2>9
<1>8. ASSUME NEW r \in Reqs, DoesBoth(r) PROVE All'
  <2>1. /\ list' = list /\ kernel' = kernel /\ Step(r) \in {"rebuild", "store", "reconcile"}
        /\ Step(r)' \in {"store", "reconcile", "ok", "strand"}
        /\ \A q \in Reqs : q # r => req'[q] = req[q]
    <3>1. ASSUME NEW step, Moved(r, step) PROVE /\ Step(r)' = step
                                                /\ \A q \in Reqs : q # r => req'[q] = req[q]
        BY <3>1, OnlyOne
    <3> QED
        BY <1>8, <3>1 DEF DoesBoth, DoRebuild, DoStore, DoReconcile
  <2>2. \A v \in U : (Step(v)' \in Out <=> Step(v) \in Out) /\ (Step(v) \in Out => req'[v].hit = req[v].hit)
      BY <2>1, <1>m DEF Step
  <2>3. \A q \in M : Step(q)' \in {"bind", "drop"} <=> Step(q) \in {"bind", "drop"}
      BY <2>1, <1>m DEF Step
  <2> HIDE DEF All
  <2> QED
      BY <2>1, <2>2, <2>3, <1>q
<1>9. ASSUME DoSession PROVE All'
  <2>1. list' = list /\ kernel' = kernel /\ req' = req
      BY <1>9 DEF DoSession
  <2> HIDE DEF All
  <2> QED
      BY <2>1, <1>q DEF Step
<1> HIDE DEF All
<1> QED
    BY <1>1, <1>2, <1>3, <1>4, <1>5, <1>6, <1>7, <1>8, <1>9, Effects DEF DoesMount,
           DoesUnmount

\* What is listed stays served, until its unmount releases it.
LEMMA ServesNext == ASSUME Composed, MountInv, MO!Next PROVE Serves'
<1> DEFINE M == DOMAIN Mounts
           U == DOMAIN Unmounts
           Ready(r) == Step(r) = "append" => r \in fuse
           Why(id) == \/ \E x \in In(list) : x.id = id /\ x.owner # Pod
                      \/ id \in M /\ Step(id) = "append"
           Losing(x) == x.id \in M /\ Step(x.id) = "drop"
           Gone(x) == \E u \in U : Step(u) = "forget" /\ x = Head(req[u].hit)
           One(x) == x.owner # Pod => (x.id \in fuse <=> ~Losing(x) /\ ~Gone(x))
           All == (\A r \in M : Ready(r)) /\ (\A id \in fuse : Why(id)) /\ \A x \in In(list) : One(x)
<1>0. All
    BY DEF MountInv, Serves
<1>m. /\ \A r \in M : MO!Rec(r) \in Given /\ MO!Rec(r).id = r /\ r \in Reqs /\ r \notin U /\ MO!Rec(r).owner # Pod
      /\ \A u \in U : u \in Reqs /\ u \notin M
      /\ In(list) \subseteq Given
      /\ \A x \in Given : x.id \in M => x = MO!Rec(x.id)
      /\ \A x, y \in Given : x.id = y.id => x = y
    BY Mine, Inside
<1>o. \A r \in M : /\ Step(r) \in {"add", "append"} => MO!Rec(r) \notin In(list)
                   /\ Step(r) \in {"bind", "drop"} => MO!Rec(r) \in In(list)
    BY DEF MountInv, Apart, Binds
<1>h. \A u \in U : Step(u) \in {"release", "forget"} => Head(req[u].hit) \in In(list)
    BY DEF MountInv, Hits
<1> SUFFICES All'
    BY DEF Serves
<1>g. ASSUME \A v \in U : (Step(v)' = "forget" <=> Step(v) = "forget") /\ (Step(v) = "forget" => req'[v].hit = req[v].hit)
      PROVE \A x : Gone(x)' <=> Gone(x)
    BY <1>g
<1>q. ASSUME In(list') = In(list), fuse' = fuse,
             \A v \in U : (Step(v)' = "forget" <=> Step(v) = "forget") /\ (Step(v) = "forget" => req'[v].hit = req[v].hit),
             \A q \in M : (Step(q)' = "append" <=> Step(q) = "append") /\ (Step(q)' = "drop" <=> Step(q) = "drop")
      PROVE All'
  <2>1. \A x : Gone(x)' <=> Gone(x)
      BY <1>q, <1>g
  <2>2. \A x : Losing(x)' <=> Losing(x)
      BY <1>q
  <2>3. \A x \in In(list') : One(x)'
    <3> HIDE DEF Gone, Losing
    <3> QED
        BY <2>1, <2>2, <1>q, <1>0
  <2> QED
      BY <1>0, <1>q, <2>3
<1>1. ASSUME NEW r \in M, DoCheck(r) PROVE All'
  <2>1. /\ list' = list /\ fuse' = fuse /\ Step(r) \notin {"append", "drop"}
        /\ Step(r)' \notin {"append", "drop"}
        /\ \A q \in Reqs : q # r => req'[q] = req[q] /\ Step(q)' = Step(q)
      BY <1>1, <1>m, OnlyOne DEF DoCheck
  <2>2. \A v \in U : (Step(v)' = "forget" <=> Step(v) = "forget") /\ (Step(v) = "forget" => req'[v].hit = req[v].hit)
      BY <2>1, <1>m
  <2>3. \A q \in M : (Step(q)' = "append" <=> Step(q) = "append") /\ (Step(q)' = "drop" <=> Step(q) = "drop")
      BY <2>1, <1>m
  <2> HIDE DEF All
  <2> QED
      BY <2>1, <2>2, <2>3, <1>q
<1>2. ASSUME NEW r \in M, DoAdd(r) PROVE All'
  <2>1. /\ list' = list /\ Step(r) = "add"
        /\ \/ Step(r)' = "append" /\ fuse' = fuse \cup {r}
           \/ Step(r)' = "failed" /\ fuse' = fuse
        /\ \A q \in Reqs : q # r => req'[q] = req[q] /\ Step(q)' = Step(q)
      BY <1>2, <1>m, OnlyOne DEF DoAdd
  <2>2. \A x : Gone(x)' <=> Gone(x)
      BY <2>1, <1>g, <1>m
  <2>3. \A x : Losing(x)' <=> Losing(x)
      BY <2>1, <1>m
  <2>4. \A x \in In(list) : x.id # r
      BY <2>1, <1>o, <1>m
  <2>5. \A x \in In(list') : One(x)'
    <3> HIDE DEF Gone, Losing
    <3> QED
        BY <2>1, <2>2, <2>3, <2>4, <1>0
  <2>6. \A q \in M : Ready(q)'
      BY <2>1, <1>0, <1>m
  <2>7. \A id \in fuse' : Why(id)'
      BY <2>1, <1>0, <1>m
  <2> QED
      BY <2>5, <2>6, <2>7
<1>3. ASSUME NEW r \in M, DoAppend(r) PROVE All'
  <2>1. /\ In(list') = In(list) \cup {MO!Rec(r)} /\ fuse' = fuse /\ Step(r) = "append"
        /\ Step(r)' = "bind"
        /\ \A q \in Reqs : q # r => req'[q] = req[q] /\ Step(q)' = Step(q)
      BY <1>3, <1>m, OnlyOne DEF DoAppend
  <2>2. \A x : Gone(x)' <=> Gone(x)
      BY <2>1, <1>g, <1>m
  <2>3. \A x : Losing(x)' <=> Losing(x)
      BY <2>1, <1>m
  <2>4. r \in fuse /\ ~Losing(MO!Rec(r)) /\ ~Gone(MO!Rec(r))
      BY <2>1, <1>0, <1>o, <1>h, <1>m
  <2>5. \A x \in In(list') : One(x)'
    <3> HIDE DEF Gone, Losing
    <3> QED
        BY <2>1, <2>2, <2>3, <2>4, <1>0, <1>m
  <2>6. \A q \in M : Ready(q)'
      BY <2>1, <1>0, <1>m
  <2>7. \A id \in fuse' : Why(id)'
      BY <2>1, <1>0, <1>m
  <2> QED
      BY <2>5, <2>6, <2>7
<1>4. ASSUME NEW r \in M, DoBind(r) PROVE All'
  <2>1. /\ list' = list /\ Step(r) = "bind"
        /\ \/ Step(r)' = "rebuild" /\ fuse' = fuse
           \/ Step(r)' = "drop" /\ fuse' = fuse \ {r}
        /\ \A q \in Reqs : q # r => req'[q] = req[q] /\ Step(q)' = Step(q)
      BY <1>4, <1>m, OnlyOne DEF DoBind
  <2>2. \A x : Gone(x)' <=> Gone(x)
      BY <2>1, <1>g, <1>m
  <2>3. \A x \in Given : x # MO!Rec(r) => (Losing(x)' <=> Losing(x))
      BY <2>1, <1>m
  <2>4. Losing(MO!Rec(r))' <=> Step(r)' = "drop"
      BY <1>m
  <2>5. ~Losing(MO!Rec(r))
      BY <2>1, <1>m
  <2>6. ASSUME NEW x \in In(list') PROVE One(x)'
    <3> HIDE DEF Gone, Losing
    <3>1. CASE x = MO!Rec(r)
        BY <3>1, <2>1, <2>2, <2>4, <2>5, <1>0, <1>m
    <3>2. CASE x # MO!Rec(r)
      <4>1. x.id # r /\ x \in Given /\ x \in In(list)
          BY <3>2, <2>1, <1>m
      <4> QED
          BY <4>1, <3>2, <2>1, <2>2, <2>3, <1>0
    <3> QED
        BY <3>1, <3>2
  <2>7. \A q \in M : Ready(q)'
      BY <2>1, <1>0, <1>m
  <2>8. \A id \in fuse' : Why(id)'
      BY <2>1, <1>0, <1>m
  <2> QED
      BY <2>6, <2>7, <2>8
<1>5. ASSUME NEW r \in M, DoDrop(r) PROVE All'
  <2>1. /\ In(list') = {x \in In(list) : x.id # r} /\ fuse' = fuse /\ Step(r) = "drop" /\ Step(r)' = "dropped"
        /\ \A q \in Reqs : q # r => req'[q] = req[q] /\ Step(q)' = Step(q)
      BY <1>5, <1>m, OnlyOne DEF DoDrop
  <2>2. \A x : Gone(x)' <=> Gone(x)
      BY <2>1, <1>g, <1>m
  <2>3. \A x \in Given : x.id # r => (Losing(x)' <=> Losing(x))
      BY <2>1, <1>m
  <2>4. r \notin fuse
      BY <2>1, <1>0, <1>o, <1>m
  <2>5. \A x \in In(list') : One(x)'
    <3> HIDE DEF Gone, Losing
    <3> QED
        BY <2>1, <2>2, <2>3, <1>0, <1>m
  <2>6. \A q \in M : Ready(q)'
      BY <2>1, <1>0, <1>m
  <2>7. \A id \in fuse' : Why(id)'
      BY <2>1, <2>4, <1>0, <1>m
  <2> QED
      BY <2>5, <2>6, <2>7
<1>6. ASSUME NEW u \in U, DoFind(u) \/ DoLook(u) \/ DoUnbind(u) \/ DoStrand(u) PROVE All'
  <2>1. /\ list' = list /\ fuse' = fuse
        /\ Step(u)' # "forget" /\ Step(u) # "forget"
        /\ \A q \in Reqs : q # u => req'[q] = req[q]
    <3>1. ASSUME NEW step, Moved(u, step) PROVE /\ Step(u)' = step
                                                /\ \A q \in Reqs : q # u => req'[q] = req[q]
        BY <3>1, <1>m, OnlyOne
    <3> QED
        BY <1>6, <3>1 DEF DoFind, DoLook, DoUnbind, DoStrand
  <2>2. \A v \in U : (Step(v)' = "forget" <=> Step(v) = "forget") /\ (Step(v) = "forget" => req'[v].hit = req[v].hit)
      BY <2>1, <1>m DEF Step
  <2>3. \A q \in M : Step(q)' = Step(q)
      BY <2>1, <1>m DEF Step
  <2> HIDE DEF All
  <2> QED
      BY <2>1, <2>2, <2>3, <1>q
<1>7. ASSUME NEW u \in U, DoRelease(u) PROVE All'
  <2> DEFINE h == Head(req[u].hit)
  <2>1. /\ list' = list /\ Step(u) = "release" /\ Step(u)' = "forget"
        /\ fuse' = fuse \ {h.id}
        /\ req'[u].hit = req[u].hit
        /\ \A q \in Reqs : q # u => req'[q] = req[q] /\ Step(q)' = Step(q)
      BY <1>7, <1>m, OnlyOne DEF DoRelease
  <2>2. \A x : Gone(x)' <=> Gone(x) \/ x = h
      BY <2>1, <1>m
  <2>3. \A x : Losing(x)' <=> Losing(x)
      BY <2>1, <1>m
  <2>4. h \in In(list) /\ h \in Given
      BY <2>1, <1>h, <1>m
  <2> HIDE DEF h
  <2>5. ASSUME NEW x \in In(list') PROVE One(x)'
    <3> HIDE DEF Gone, Losing
    <3>1. CASE x = h
        BY <3>1, <2>1, <2>2
    <3>2. CASE x # h
      <4>1. x.id # h.id /\ x \in In(list)
          BY <3>2, <2>1, <2>4, <1>m
      <4> QED
          BY <4>1, <3>2, <2>1, <2>2, <2>3, <1>0
    <3> QED
        BY <3>1, <3>2
  <2>6. ASSUME NEW q \in M PROVE Ready(q)'
    <3>1. Step(q)' = Step(q)
        BY <2>1, <1>m
    <3>2. Step(q) = "append" => q # h.id
        BY <2>4, <1>o, <1>m
    <3> QED
        BY <3>1, <3>2, <2>1, <1>0
  <2>7. \A id \in fuse' : Why(id)'
      BY <2>1, <1>0, <1>m
  <2> QED
      BY <2>5, <2>6, <2>7
<1>8. ASSUME NEW u \in U, DoForget(u) PROVE All'
  <2> DEFINE h == Head(req[u].hit)
  <2>1. /\ Step(u) = "forget" /\ In(list') = {x \in In(list) : x.id # h.id} /\ fuse' = fuse
        /\ Step(u)' \in {"rebuild", "unbind"}
        /\ \A q \in Reqs : q # u => req'[q] = req[q]
      BY <1>8 DEF DoForget
  <2>2. \A q \in Reqs : q # u => Step(q)' = Step(q)
      BY <2>1 DEF Step
  <2>3. h \in In(list) /\ Gone(h) /\ h \in Given /\ \A v \in U : v # u => Step(v) \notin Unmounting
      BY <2>1, <1>h, <1>m DEF MountInv, Hits, Unmounting
  <2>4. \A x : ~Gone(x)' /\ (Gone(x) => x = h)
      BY <2>1, <2>2, <2>3, <1>m DEF Unmounting
  <2>5. \A x : Losing(x)' <=> Losing(x)
      BY <2>2, <1>m
  <2> HIDE DEF h
  <2>6. In(list') = In(list) \ {h}
      BY <2>1, <2>3, <1>m
  <2>7. \A x \in In(list') : One(x)'
    <3> HIDE DEF Gone, Losing
    <3> QED
        BY <2>1, <2>4, <2>5, <2>6, <1>0
  <2>8. \A q \in M : Ready(q)'
      BY <2>1, <2>2, <1>0, <1>m
  <2>9. ASSUME NEW id \in fuse' PROVE Why(id)'
    <3>1. h.owner # Pod => id # h.id
        BY <2>1, <2>3, <1>0
    <3>2. CASE \E x \in In(list) : x.id = id /\ x.owner # Pod
      <4>1. PICK x \in In(list) : x.id = id /\ x.owner # Pod
          BY <3>2
      <4>2. x \in In(list')
          BY <4>1, <3>1, <2>6
      <4> QED
          BY <4>1, <4>2
    <3>3. CASE id \in M /\ Step(id) = "append"
        BY <3>3, <2>2, <1>m
    <3> QED
        BY <3>2, <3>3, <2>1, <1>0
  <2> QED
      BY <2>7, <2>8, <2>9
<1>9. ASSUME NEW r \in Reqs, DoesBoth(r) PROVE All'
  <2>1. /\ list' = list /\ fuse' = fuse /\ Step(r) \in {"rebuild", "store", "reconcile"}
        /\ Step(r)' \in {"store", "reconcile", "ok", "strand"}
        /\ \A q \in Reqs : q # r => req'[q] = req[q]
    <3>1. ASSUME NEW step, Moved(r, step) PROVE /\ Step(r)' = step
                                                /\ \A q \in Reqs : q # r => req'[q] = req[q]
        BY <3>1, OnlyOne
    <3> QED
        BY <1>9, <3>1 DEF DoesBoth, DoRebuild, DoStore, DoReconcile
  <2>2. \A v \in U : (Step(v)' = "forget" <=> Step(v) = "forget") /\ (Step(v) = "forget" => req'[v].hit = req[v].hit)
      BY <2>1, <1>m DEF Step
  <2>3. \A q \in M : (Step(q)' = "append" <=> Step(q) = "append") /\ (Step(q)' = "drop" <=> Step(q) = "drop")
      BY <2>1, <1>m DEF Step
  <2> HIDE DEF All
  <2> QED
      BY <2>1, <2>2, <2>3, <1>q
<1>10. ASSUME DoSession PROVE All'
  <2>1. list' = list /\ fuse' = fuse /\ req' = req
      BY <1>10 DEF DoSession
  <2> HIDE DEF All
  <2> QED
      BY <2>1, <1>q DEF Step
<1> HIDE DEF All
<1> QED
    BY <1>1, <1>2, <1>3, <1>4, <1>5, <1>6, <1>7, <1>8, <1>9, <1>10, Effects DEF DoesMount,
           DoesUnmount

\* The table stays the list, or somebody is about to make a new one.
LEMMA FreshNext == ASSUME Composed, MountInv, MO!Next PROVE Fresh'
<1> DEFINE M == DOMAIN Mounts
           U == DOMAIN Unmounts
           One(r, q) == Step(r) = "store" /\ Step(q) = "store" => r = q
           Taken(r) == Step(r) = "store" /\ (\A q \in Reqs : ~Behind(q)) => req[r].rules = list
           Kept1 == (\A r \in Reqs : Step(r) # "store" /\ ~Behind(r)) => tbl = list
           All == (\A r, q \in Reqs : One(r, q)) /\ (\A r \in Reqs : Taken(r)) /\ Kept1
<1>0. All
    BY DEF MountInv, Fresh
<1>m. /\ \A r \in M : r \in Reqs /\ r \notin U
      /\ \A u \in U : u \in Reqs /\ u \notin M
      /\ \A r \in Reqs : r \in M \/ r \in U
    BY Mine DEF Reqs
<1> SUFFICES All'
    BY DEF Fresh
\* A request that makes no table and changes no list.
<1>q. ASSUME NEW r \in Reqs, list' = list, tbl' = tbl, Step(r) # "store",
             Step(r)' # "store",
             Behind(r) => Behind(r)', \A q \in Reqs : q # r => req'[q] = req[q]
      PROVE All'
  <2>1. \A q \in Reqs : q # r => Step(q)' = Step(q) /\ (Behind(q)' <=> Behind(q))
      BY <1>q DEF Step, Behind
  <2> QED
      BY <1>0, <1>q, <2>1
\* One that changes the list is behind.
<1>b. ASSUME NEW r \in Reqs, Step(r)' # "store", Behind(r)',
             \A q \in Reqs : q # r => req'[q] = req[q]
      PROVE All'
  <2>1. \A q \in Reqs : q # r => Step(q)' = Step(q)
      BY <1>b DEF Step
  <2> QED
      BY <1>0, <1>b, <2>1
<1>1. ASSUME NEW r \in M, DoCheck(r) \/ DoAdd(r) \/ DoBind(r) PROVE All'
  <2>1. /\ list' = list /\ tbl' = tbl
        /\ \/ Step(r) \in {"none", "add"} /\ Step(r)' \in {"refused", "add", "append", "failed"}
           \/ Step(r) = "bind" /\ Step(r)' \in {"rebuild", "drop"}
        /\ \A q \in Reqs : q # r => req'[q] = req[q]
      BY <1>1, <1>m, OnlyOne DEF DoCheck, DoAdd, DoBind
  <2>2. Behind(r) => Behind(r)'
      BY <2>1, <1>m DEF Behind
  <2> HIDE DEF All
  <2> QED
      BY <2>1, <2>2, <1>q, <1>m
<1>2. ASSUME NEW r \in M, DoAppend(r) \/ DoDrop(r) PROVE All'
  <2>1. /\ Step(r)' \in {"bind", "dropped"}
        /\ \A q \in Reqs : q # r => req'[q] = req[q]
      BY <1>2, <1>m, OnlyOne DEF DoAppend, DoDrop
  <2>2. Behind(r)'
      BY <2>1, <1>m DEF Behind
  <2> HIDE DEF All
  <2> QED
      BY <2>1, <2>2, <1>b, <1>m
<1>3. ASSUME NEW u \in U, DoFind(u) \/ DoLook(u) \/ DoUnbind(u) \/ DoRelease(u) \/ DoStrand(u)
      PROVE  All'
  <2>1. /\ list' = list /\ tbl' = tbl
        /\ \/ Step(u) \in {"none", "sessions", "strand"}
           \/ Step(u) \in {"unbind", "release"} /\ Step(u)' \in {"release", "forget", "failed"}
              /\ req'[u].hit = req[u].hit /\ req'[u].all = req[u].all
        /\ Step(u)' # "store"
        /\ \A q \in Reqs : q # u => req'[q] = req[q]
    <3>1. ASSUME NEW step, Moved(u, step)
          PROVE  /\ Step(u)' = step /\ req'[u].hit = req[u].hit /\ req'[u].all = req[u].all
                                                /\ \A q \in Reqs : q # u => req'[q] = req[q]
        BY <3>1, <1>m, OnlyOne
    <3>2. CASE DoFind(u)
        BY <3>1, <3>2 DEF DoFind
    <3>3. CASE DoLook(u)
        BY <3>1, <3>3 DEF DoLook
    <3>4. CASE DoUnbind(u) \/ DoRelease(u)
        BY <3>1, <3>4 DEF DoUnbind, DoRelease
    <3>5. CASE DoStrand(u)
        BY <3>1, <3>5 DEF DoStrand
    <3> QED
        BY <3>2, <3>3, <3>4, <3>5, <1>3
  <2>2. Behind(u) => Behind(u)'
      BY <2>1, <1>m DEF Behind
  <2>3. Step(u) # "store" /\ u \in Reqs
      BY <2>1, <1>m
  <2> HIDE DEF All
  <2> QED
      BY <2>1, <2>2, <2>3, <1>q
<1>4. ASSUME NEW u \in U, DoForget(u) PROVE All'
  <2>1. /\ Step(u)' \in {"rebuild", "unbind"} /\ Len(req'[u].hit) = Len(req[u].hit) - 1
        /\ req'[u].all = req[u].all
        /\ \A q \in Reqs : q # u => req'[q] = req[q]
      BY <1>4 DEF DoForget
  <2>2. Len(req[u].hit) <= Len(req[u].all)
      BY DEF MountInv, Hits
  <2>3. Len(req[u].hit) \in Nat /\ Len(req[u].all) \in Nat
    <3>1. req[u].hit \in Seq(Given) /\ req[u].all \in Seq(Given)
        BY <1>m DEF MountInv, Types
    <3> QED
        BY <3>1
  <2>4. Len(req'[u].hit) < Len(req'[u].all)
      BY <2>1, <2>2, <2>3
  <2>5. Behind(u)'
      BY <2>1, <2>4, <1>m DEF Behind
  <2> HIDE DEF All
  <2> QED
      BY <2>1, <2>5, <1>b, <1>m
<1>5. ASSUME NEW r \in Reqs, DoRebuild(r) PROVE All'
  <2>1. /\ list' = list /\ tbl' = tbl /\ (\A q \in Reqs : Step(q) # "store")
        /\ Step(r)' = "store" /\ req'[r].rules = list
        /\ \A q \in Reqs : q # r => req'[q] = req[q]
      BY <1>5 DEF DoRebuild
  <2>2. \A q \in Reqs : q # r => Step(q)' = Step(q)
      BY <2>1 DEF Step
  <2> QED
      BY <2>1, <2>2
<1>6. ASSUME NEW r \in Reqs, DoStore(r) PROVE All'
  <2>1. /\ list' = list /\ tbl' = req[r].rules /\ Step(r) = "store"
        /\ Step(r)' = "reconcile"
        /\ \A q \in Reqs : q # r => req'[q] = req[q] /\ Step(q)' = Step(q)
      BY <1>6, OnlyOne DEF DoStore
  <2>2. \A q \in Reqs : q # r => Step(q) # "store" /\ Step(q)' # "store"
      BY <2>1, <1>0
  <2>3. \A q \in Reqs : q # r => (Behind(q)' <=> Behind(q))
      BY <2>1 DEF Behind
  <2>4. ~Behind(r)
      BY <2>1 DEF Behind
  <2>5. (\A q \in Reqs : ~Behind(q)') => tbl' = list'
      BY <2>1, <2>3, <2>4, <1>0
  <2> QED
      BY <2>1, <2>2, <2>5
<1>7. ASSUME NEW r \in Reqs, DoReconcile(r) PROVE All'
  <2>1. /\ list' = list /\ tbl' = tbl /\ Step(r) = "reconcile"
        /\ Step(r)' \in {"ok", "strand"}
        /\ \A q \in Reqs : q # r => req'[q] = req[q]
    <3>1. ASSUME NEW step, Moved(r, step) PROVE /\ Step(r)' = step
                                                /\ \A q \in Reqs : q # r => req'[q] = req[q]
        BY <3>1, OnlyOne
    <3> QED
        BY <1>7, <3>1 DEF DoReconcile
  <2>2. ~Behind(r)
      BY <2>1 DEF Behind
  <2> HIDE DEF All
  <2> QED
      BY <2>1, <2>2, <1>q
<1>8. ASSUME DoSession PROVE All'
  <2>1. list' = list /\ tbl' = tbl /\ req' = req
      BY <1>8 DEF DoSession
  <2> QED
      BY <2>1, <1>0 DEF Step, Behind
<1> HIDE DEF All
<1> QED
    BY <1>1, <1>2, <1>3, <1>4, <1>5, <1>6, <1>7, <1>8, Effects DEF DoesMount, DoesUnmount,
           DoesBoth

\* An unmount that has failed half way stays so.
LEMMA BrokenNext == ASSUME Composed, MountInv, MO!Next, Broken PROVE Broken'
<1>1. PICK r \in Reqs : MO!Half(r)
    BY DEF Broken
<1>2. Step(r) \in {"dropped", "failed"}
    BY <1>1 DEF MO!Half, Step
<1>3. req'[r] = req[r]
  <2>1. ASSUME NEW q \in Reqs, NEW step, Moved(q, step),
               Step(q) \notin {"dropped", "failed"}
        PROVE  req'[r] = req[r]
      BY <2>1, <1>2, OnlyOne
  <2>2. \A q \in DOMAIN Mounts \cup DOMAIN Unmounts : q \in Reqs
      BY DEF Reqs
  <2>3. ASSUME NEW q \in DOMAIN Mounts, DoesMount(q) PROVE req'[r] = req[r]
      BY <2>1, <2>2, <2>3 DEF DoesMount, DoCheck, DoAdd, DoAppend, DoBind, DoDrop
  <2>4. ASSUME NEW q \in DOMAIN Unmounts, DoesUnmount(q) PROVE req'[r] = req[r]
    <3>1. CASE DoFind(q)
        BY <3>1, <2>1, <2>2, <1>2 DEF DoFind
    <3>2. CASE DoForget(q)
        BY <3>2, <1>2 DEF DoForget
    <3>3. CASE DoLook(q) \/ DoUnbind(q) \/ DoRelease(q) \/ DoStrand(q)
        BY <3>3, <2>1, <2>2 DEF DoLook, DoUnbind, DoRelease, DoStrand
    <3> QED
        BY <3>1, <3>2, <3>3, <2>4 DEF DoesUnmount
  <2>5. ASSUME NEW q \in Reqs, DoesBoth(q) PROVE req'[r] = req[r]
      BY <2>1, <2>5, <1>2 DEF DoesBoth, DoRebuild, DoStore, DoReconcile
  <2>6. ASSUME DoSession PROVE req'[r] = req[r]
      BY <2>6 DEF DoSession
  <2> QED
      BY <2>3, <2>4, <2>5, <2>6, Effects
<1> QED
    BY <1>1, <1>3 DEF MO!Half, Broken

\* An unmount that forgets a mount has removed one.
LEMMA Fewer ==
    ASSUME Composed, MountInv, NEW u \in DOMAIN Unmounts, DoForget(u)
    PROVE  /\ Len(req'[u].hit) < Len(req'[u].all)
           /\ Head(req[u].hit) \in In(req[u].all)
           /\ In(list') = In(list) \ {Head(req[u].hit)}
<1> DEFINE h == Head(req[u].hit)
<1>1. /\ Step(u) = "forget" /\ In(list') = {x \in In(list) : x.id # h.id}
      /\ Len(req'[u].hit) = Len(req[u].hit) - 1 /\ req'[u].all = req[u].all
    BY DEF DoForget
<1>2. /\ Len(req[u].hit) <= Len(req[u].all) /\ Step(u) \in Unmounting
      /\ In(req[u].hit) \subseteq In(req[u].all)
    BY <1>1 DEF MountInv, Hits, Unmounting
<1>3. h \in In(req[u].hit) /\ h \in Given
    BY <1>2, HeadIs
<1>4. In(list) \subseteq Given /\ \A x, y \in Given : x.id = y.id => x = y
    BY Mine, Inside
<1>5. Len(req[u].hit) \in Nat /\ Len(req[u].all) \in Nat
  <2>1. req[u].hit \in Seq(Given) /\ req[u].all \in Seq(Given)
      BY Mine DEF MountInv, Types
  <2> QED
      BY <2>1
<1> HIDE DEF h
<1>6. In(list') = In(list) \ {h}
    BY <1>1, <1>3, <1>4
<1> QED
    BY <1>1, <1>2, <1>3, <1>5, <1>6 DEF h

\* What an unmount has removed is known until it is over; when it fails, it is broken.
LEMMA StillRemoved ==
    ASSUME Composed, MountInv, NEW u \in DOMAIN Unmounts,
           Removed(u, {"unbind", "release", "forget"}),
           DoUnbind(u) \/ DoRelease(u) \/ DoForget(u)
    PROVE  /\ Broken' \/ Step(u)' \in Before
           /\ Len(req'[u].hit) < Len(req'[u].all) /\ req'[u].all = req[u].all
<1>1. u \in Reqs
    BY Mine
<1>2. CASE DoUnbind(u)
  <2>1. Step(u)' \in {"release", "failed"} /\ req'[u].hit = req[u].hit /\ req'[u].all = req[u].all
      BY <1>1, <1>2, OnlyOne DEF DoUnbind
  <2>2. Len(req'[u].hit) < Len(req'[u].all)
      BY <2>1 DEF Removed
  <2>3. Step(u)' = "failed" => Broken'
      BY <1>1, <2>2 DEF Broken, MO!Half, Step
  <2> QED
      BY <2>1, <2>2, <2>3 DEF Before
<1>3. CASE DoRelease(u)
  <2>1. Step(u)' = "forget" /\ req'[u].hit = req[u].hit /\ req'[u].all = req[u].all
      BY <1>1, <1>3, OnlyOne DEF DoRelease
  <2> QED
      BY <2>1 DEF Removed, Before
<1>4. CASE DoForget(u)
  <2>1. Step(u)' \in {"rebuild", "unbind"} /\ req'[u].all = req[u].all
      BY <1>4 DEF DoForget
  <2> QED
      BY <2>1, <1>4, Fewer DEF Before
<1> QED
    BY <1>2, <1>3, <1>4

\* The nodes stay as they are told, or are about to be told again.
LEMMA TellsNext == ASSUME Composed, MountInv, MO!Next PROVE Tells'
<1> DEFINE M == DOMAIN Mounts
           U == DOMAIN Unmounts
           To == Before \cup {"store", "reconcile"}
<1>m. /\ \A r \in M : r \in Reqs /\ r \notin U
      /\ \A u \in U : u \in Reqs /\ u \notin M
      /\ \A r \in Reqs : r \in M \/ r \in U
    BY Mine DEF Reqs
<1>0. Tells
    BY DEF MountInv
<1> SUFFICES ASSUME ~Broken' PROVE Tells'
    BY DEF Tells
<1>1. ~Broken
    BY BrokenNext
<1>2. In(told) \subseteq In(list) \/ \E u \in U : Removed(u, To)
    BY <1>0, <1>1 DEF Tells
<1>q. ASSUME In(list) \subseteq In(list'), told' = told,
             \A u \in U : Removed(u, To) => Removed(u, To)'
      PROVE Tells'
  <2> HIDE DEF To
  <2>1. In(told') \subseteq In(list') \/ \E u \in U : Removed(u, To)'
      BY <1>2, <1>q
  <2> QED
      BY <2>1 DEF Tells, To
<1>u. ASSUME NEW r \in Reqs, In(list) \subseteq In(list'), told' = told,
             \A q \in Reqs : q # r => req'[q] = req[q],
             r \in U => (Removed(r, To) => Removed(r, To)')
      PROVE Tells'
  <2>1. ASSUME NEW v \in U PROVE Removed(v, To) => Removed(v, To)'
    <3>1. CASE v = r
        BY <3>1, <1>u
    <3>2. CASE v # r
        BY <3>2, <1>u, <1>m DEF Removed, Step
    <3> QED
        BY <3>1, <3>2
  <2> HIDE DEF To
  <2> QED
      BY <2>1, <1>q, <1>u
<1>3. ASSUME NEW r \in M, DoCheck(r) \/ DoAdd(r) \/ DoBind(r) \/ DoAppend(r) PROVE Tells'
  <2>1. /\ In(list) \subseteq In(list') /\ told' = told /\ \A q \in Reqs : q # r => req'[q] = req[q]
      BY <1>3, <1>m, OnlyOne DEF DoCheck, DoAdd, DoBind, DoAppend
  <2> QED
      BY <2>1, <1>u, <1>m
<1>4. ASSUME NEW r \in M, DoDrop(r) PROVE Tells'
  <2>1. Step(r)' = "dropped"
      BY <1>4, <1>m, OnlyOne DEF DoDrop
  <2>2. Broken'
      BY <2>1, <1>m DEF Broken, MO!Half, Step
  <2> QED
      BY <2>2
<1>5. ASSUME NEW u \in U, DoFind(u) \/ DoLook(u) \/ DoStrand(u) PROVE Tells'
  <2>1. /\ list' = list /\ told' = told /\ Step(u) \in {"none", "sessions", "strand"}
        /\ \A q \in Reqs : q # u => req'[q] = req[q]
      BY <1>5, <1>m, OnlyOne DEF DoFind, DoLook, DoStrand
  <2>2. ~Removed(u, To)
      BY <2>1 DEF Removed, Before
  <2> QED
      BY <2>1, <2>2, <1>u, <1>m
<1>6. ASSUME NEW u \in U, DoUnbind(u) \/ DoRelease(u) PROVE Tells'
  <2>1. /\ list' = list /\ told' = told /\ Step(u) \in {"unbind", "release"}
        /\ \A q \in Reqs : q # u => req'[q] = req[q]
      BY <1>6, <1>m, OnlyOne DEF DoUnbind, DoRelease
  <2>2. Removed(u, To) => Removed(u, {"unbind", "release", "forget"})
      BY <2>1 DEF Removed
  <2>3. Removed(u, To) => Removed(u, To)'
      BY <2>2, <1>6, StillRemoved DEF Removed
  <2> HIDE DEF To
  <2> QED
      BY <2>1, <2>3, <1>u, <1>m
<1>7. ASSUME NEW u \in U, DoForget(u) PROVE Tells'
  <2>1. Step(u)' \in {"rebuild", "unbind"}
      BY <1>7 DEF DoForget
  <2>2. Removed(u, To)'
      BY <2>1, <1>7, Fewer DEF Removed, Before
  <2> QED
      BY <2>2 DEF Tells
<1>8. ASSUME NEW r \in Reqs, DoRebuild(r) \/ DoStore(r) PROVE Tells'
  <2>1. /\ list' = list /\ told' = told /\ Step(r)' \in {"store", "reconcile"}
        /\ req'[r].hit = req[r].hit /\ req'[r].all = req[r].all
        /\ \A q \in Reqs : q # r => req'[q] = req[q]
      BY <1>8, OnlyOne DEF DoRebuild, DoStore
  <2>2. Removed(r, To) => Removed(r, To)'
      BY <2>1 DEF Removed
  <2> HIDE DEF To
  <2> QED
      BY <2>1, <2>2, <1>u
<1>9. ASSUME NEW r \in Reqs, DoReconcile(r) PROVE Tells'
  <2>1. told' = list /\ list' = list
      BY <1>9 DEF DoReconcile
  <2> QED
      BY <2>1 DEF Tells
<1>10. ASSUME DoSession PROVE Tells'
  <2>1. list' = list /\ told' = told /\ req' = req
      BY <1>10 DEF DoSession
  <2> QED
      BY <2>1, <1>q DEF Removed, Step
<1> QED
    BY <1>3, <1>4, <1>5, <1>6, <1>7, <1>8, <1>9, <1>10, Effects DEF DoesMount,
           DoesUnmount, DoesBoth

\* Nobody goes to a machine that is gone, and who is there is about to be sent back.
LEMMA StaysNext == ASSUME Composed, MountInv, MO!Next PROVE Stays'
<1> DEFINE M == DOMAIN Mounts
           U == DOMAIN Unmounts
           Ok(m, steps) == Has(m) \/ Lost(m, steps)
           Taken(r) == Step(r) = "store" => \A x \in In(req[r].rules) : Ok(x.owner, Before)
           Routed == \A x \in In(tbl) : Ok(x.owner, Routing)
           Stood(s) == Ok(on[s], Ending)
           All == (\A r \in Reqs : Taken(r)) /\ Routed /\ \A s \in MountSessions : Stood(s)
<1>m. /\ \A r \in M : r \in Reqs /\ r \notin U
      /\ \A u \in U : u \in Reqs /\ u \notin M
      /\ \A r \in Reqs : r \in M \/ r \in U
      /\ Before \subseteq Routing /\ Routing \subseteq Ending
    BY Mine DEF Reqs, Routing, Ending
<1> SUFFICES ASSUME ~Broken' PROVE All'
    BY DEF Stays
<1>0. ~Broken /\ All
    BY BrokenNext DEF MountInv, Stays
<1>w. ASSUME NEW m, NEW S, NEW T, S \subseteq T, Lost(m, S) PROVE Lost(m, T)
    BY <1>w DEF Lost, Removed
\* Who is lost to a request stays so while it is at the same or at such a step.
<1>l. ASSUME NEW S, NEW r \in Reqs, \A q \in Reqs : q # r => req'[q] = req[q],
             req'[r].all = req[r].all,
             r \in U => (Removed(r, S) => Removed(r, S)')
      PROVE \A m : Lost(m, S) => Lost(m, S)'
  <2> SUFFICES ASSUME NEW m, Lost(m, S) PROVE Lost(m, S)'
      OBVIOUS
  <2>1. PICK v \in U : Removed(v, S) /\ \E x \in In(req[v].all) : x.owner = m
      BY DEF Lost
  <2>2. Removed(v, S)' /\ req'[v].all = req[v].all
    <3>1. CASE v = r
        BY <3>1, <2>1, <1>l
    <3>2. CASE v # r
        BY <3>2, <2>1, <1>l, <1>m DEF Removed, Step
    <3> QED
        BY <3>1, <3>2
  <2> QED
      BY <2>1, <2>2 DEF Lost
\* A request that leaves the table, and is not at making one.
<1>q. ASSUME NEW r \in Reqs, In(list) \subseteq In(list'), tbl' = tbl, on' = on,
             Step(r)' # "store",
             \A q \in Reqs : q # r => req'[q] = req[q], 
             r \in U => /\ Removed(r, Before) => Removed(r, Before)'
                        /\ Removed(r, Routing) => Removed(r, Routing)'
                        /\ Removed(r, Ending) => Removed(r, Ending)',
             r \in U => (Removed(r, Ending) => req'[r].all = req[r].all)
      PROVE All'
  <2>1. ASSUME NEW S, S \subseteq Ending, r \in U => (Removed(r, S) => Removed(r, S)'),
               NEW m, Ok(m, S)
        PROVE  Ok(m, S)'
    <3>1. CASE Has(m)
        BY <3>1, <1>q DEF Has
    <3>2. CASE Lost(m, S)
      <4>1. PICK v \in U : Removed(v, S) /\ \E x \in In(req[v].all) : x.owner = m
          BY <3>2 DEF Lost
      <4>2. Removed(v, S)' /\ req'[v].all = req[v].all
        <5>1. CASE v = r
          <6>1. Removed(r, Ending)
              BY <5>1, <4>1, <2>1 DEF Removed, Routing, Ending
          <6> QED
              BY <6>1, <5>1, <4>1, <2>1, <1>q
        <5>2. CASE v # r
            BY <5>2, <4>1, <1>q, <1>m DEF Removed, Step
        <5> QED
            BY <5>1, <5>2
      <4>3. Lost(m, S)'
          BY <4>1, <4>2 DEF Lost
      <4> QED
          BY <4>3
    <3> QED
        BY <3>1, <3>2, <2>1
  <2>2. ASSUME NEW m PROVE /\ Ok(m, Before) => Ok(m, Before)'
                           /\ Ok(m, Routing) => Ok(m, Routing)'
                           /\ Ok(m, Ending) => Ok(m, Ending)'
    <3>1. Ok(m, Before) => Ok(m, Before)'
        BY <2>1, <1>q, <1>m
    <3>2. Ok(m, Routing) => Ok(m, Routing)'
      <4> QED
          BY <2>1, <1>q, <1>m
    <3>3. Ok(m, Ending) => Ok(m, Ending)'
      <4> QED
          BY <2>1, <1>q, <1>m
    <3> QED
        BY <3>1, <3>2, <3>3
  <2>3. ASSUME NEW q \in Reqs PROVE Taken(q)'
    <3>1. CASE q = r
        BY <3>1, <1>q
    <3>2. CASE q # r
      <4>1. req'[q] = req[q] /\ Step(q)' = Step(q)
          BY <3>2, <1>q DEF Step
      <4> QED
          BY <4>1, <1>0, <2>2
    <3> QED
        BY <3>1, <3>2
  <2>4. Routed' /\ \A s \in MountSessions : Stood(s)'
    <3>1. ASSUME NEW x \in In(tbl') PROVE Ok(x.owner, Routing)'
      <4>1. Ok(x.owner, Routing)
          BY <1>0, <1>q
      <4> QED
          BY <4>1, <2>2
    <3>2. ASSUME NEW s \in MountSessions PROVE Stood(s)'
      <4>1. PICK m : m = on[s]
          OBVIOUS
      <4>2. Ok(m, Ending)
          BY <4>1, <1>0
      <4>3. Ok(m, Ending)'
          BY <4>2, <2>2
      <4> QED
          BY <4>1, <4>3, <1>q
    <3> QED
        BY <3>1, <3>2
  <2> QED
      BY <2>3, <2>4
<1>1. ASSUME NEW r \in M, DoCheck(r) \/ DoAdd(r) \/ DoBind(r) \/ DoAppend(r) PROVE All'
  <2>1. /\ In(list) \subseteq In(list') /\ tbl' = tbl /\ on' = on /\ Step(r)' # "store"
        /\ \A q \in Reqs : q # r => req'[q] = req[q]
      BY <1>1, <1>m, OnlyOne DEF DoCheck, DoAdd, DoBind, DoAppend
  <2> HIDE DEF All
  <2> QED
      BY <2>1, <1>q, <1>m
<1>2. ASSUME NEW r \in M, DoDrop(r) PROVE All'
  <2>1. Step(r)' = "dropped"
      BY <1>2, <1>m, OnlyOne DEF DoDrop
  <2>2. Broken'
      BY <2>1, <1>m DEF Broken, MO!Half, Step
  <2> QED
      BY <2>2
<1>3. ASSUME NEW u \in U, DoFind(u) \/ DoLook(u) PROVE All'
  <2>1. /\ list' = list /\ tbl' = tbl /\ on' = on /\ Step(u) \in {"none", "sessions"}
        /\ Step(u)' # "store"
        /\ \A q \in Reqs : q # u => req'[q] = req[q]
      BY <1>3, <1>m, OnlyOne DEF DoFind, DoLook
  <2>2. ~Removed(u, Ending) /\ ~Removed(u, Routing) /\ ~Removed(u, Before)
      BY <2>1 DEF Removed, Before, Routing, Ending
  <2> HIDE DEF All
  <2> QED
      BY <2>1, <2>2, <1>q, <1>m
<1>4. ASSUME NEW u \in U, DoUnbind(u) \/ DoRelease(u) PROVE All'
  <2>1. /\ list' = list /\ tbl' = tbl /\ on' = on /\ Step(u) \in {"unbind", "release"}
        /\ Step(u)' # "store" /\ req'[u].all = req[u].all
        /\ \A q \in Reqs : q # u => req'[q] = req[q]
      BY <1>4, <1>m, OnlyOne DEF DoUnbind, DoRelease
  <2>2. ASSUME NEW S, Before \subseteq S, Removed(u, S) PROVE Removed(u, S)'
    <3>1. Removed(u, {"unbind", "release", "forget"})
        BY <2>1, <2>2 DEF Removed, Routing, Ending
    <3> QED
        BY <3>1, <2>2, <1>4, StillRemoved DEF Removed, Routing, Ending
  <2>3. /\ Removed(u, Before) => Removed(u, Before)'
        /\ Removed(u, Routing) => Removed(u, Routing)'
        /\ Removed(u, Ending) => Removed(u, Ending)'
    <3>1. Before \subseteq Routing /\ Before \subseteq Ending /\ Before \subseteq Before
        BY <1>m
    <3> QED
        BY <3>1, <2>2
  <2> HIDE DEF All
  <2> QED
      BY <2>1, <2>3, <1>q, <1>m
<1>5. ASSUME NEW u \in U, DoForget(u) PROVE All'
  <2> DEFINE h == Head(req[u].hit)
  <2>1. /\ tbl' = tbl /\ on' = on /\ Step(u)' \in {"rebuild", "unbind"}
        /\ req'[u].all = req[u].all
        /\ \A q \in Reqs : q # u => req'[q] = req[q]
      BY <1>5 DEF DoForget
  <2>2. /\ Len(req'[u].hit) < Len(req'[u].all) /\ h \in In(req'[u].all)
        /\ In(list') = In(list) \ {h}
      BY <2>1, <1>5, Fewer
  <2>3. ASSUME NEW S, Before \subseteq S, NEW m, Ok(m, S) PROVE Ok(m, S)'
    <3>1. Removed(u, S)'
        BY <2>1, <2>2, <2>3 DEF Removed, Before, Routing, Ending
    <3>2. CASE Has(m)
      <4>1. CASE m = h.owner
          BY <4>1, <3>1, <2>2 DEF Lost
      <4>2. CASE m # h.owner
          BY <4>2, <3>2, <2>2 DEF Has
      <4> QED
          BY <4>1, <4>2
    <3>3. CASE Lost(m, S)
      <4>1. \A n : Lost(n, S) => Lost(n, S)'
          BY <3>1, <2>1, <1>l, <1>m
      <4> QED
          BY <3>3, <4>1
    <3> QED
        BY <3>2, <3>3, <2>3
  <2>4. ASSUME NEW m PROVE /\ Ok(m, Before) => Ok(m, Before)'
                           /\ Ok(m, Routing) => Ok(m, Routing)'
                           /\ Ok(m, Ending) => Ok(m, Ending)'
    <3>1. Before \subseteq Routing /\ Before \subseteq Ending /\ Before \subseteq Before
        BY <1>m
    <3> QED
        BY <3>1, <2>3
  <2>5. ASSUME NEW q \in Reqs PROVE Taken(q)'
    <3>1. CASE q = u
        BY <3>1, <2>1
    <3>2. CASE q # u
      <4>1. req'[q] = req[q] /\ Step(q)' = Step(q)
          BY <3>2, <2>1 DEF Step
      <4> QED
          BY <4>1, <1>0, <2>4
    <3> QED
        BY <3>1, <3>2
  <2>6. Routed' /\ \A s \in MountSessions : Stood(s)'
    <3>1. ASSUME NEW x \in In(tbl') PROVE Ok(x.owner, Routing)'
      <4>1. Ok(x.owner, Routing)
          BY <1>0, <2>1
      <4> QED
          BY <4>1, <2>4
    <3>2. ASSUME NEW s \in MountSessions PROVE Stood(s)'
      <4>1. PICK m : m = on[s]
          OBVIOUS
      <4>2. Ok(m, Ending)
          BY <4>1, <1>0
      <4>3. Ok(m, Ending)'
          BY <4>2, <2>4
      <4> QED
          BY <4>1, <4>3, <2>1
    <3> QED
        BY <3>1, <3>2
  <2> QED
      BY <2>5, <2>6
<1>6. ASSUME NEW u \in U, DoStrand(u) PROVE All'
  <2>1. /\ list' = list /\ tbl' = tbl /\ Step(u) = "strand" /\ Step(u)' = "ok"
        /\ req'[u].all = req[u].all
        /\ \A q \in Reqs : q # u => req'[q] = req[q]
        /\ \A s \in MountSessions : \/ on'[s] = on[s] /\ MO!Known(tbl, on[s])
                                    \/ on'[s] = on[s] /\ \A x \in In(req[u].all) : on[s] # x.owner
                                    \/ on'[s] = Pod
      BY <1>6, <1>m, OnlyOne DEF DoStrand
  <2>2. \A m : (Has(m)' <=> Has(m))
      BY <2>1 DEF Has
  <2>3. ~Removed(u, Before) /\ ~Removed(u, Routing)
      BY <2>1 DEF Removed, Before, Routing, Ending
  <2>4. \A m : (Lost(m, Before) => Lost(m, Before)') /\ (Lost(m, Routing) => Lost(m, Routing)')
    <3> QED
        BY <2>1, <2>3, <1>l, <1>m
  <2>5. ASSUME NEW q \in Reqs PROVE Taken(q)'
    <3>1. CASE q = u
        BY <3>1, <2>1
    <3>2. CASE q # u
      <4>1. req'[q] = req[q] /\ Step(q)' = Step(q)
          BY <3>2, <2>1 DEF Step
      <4> QED
          BY <4>1, <1>0, <2>2, <2>4
    <3> QED
        BY <3>1, <3>2
  <2>6. Routed'
    <3> QED
        BY <1>0, <2>1, <2>2, <2>4
  <2>7. ASSUME NEW s \in MountSessions PROVE Stood(s)'
    <3>0. PICK m : m = on[s]
        OBVIOUS
    <3>1. CASE on'[s] = on[s] /\ MO!Known(tbl, on[s])
      <4>1. Ok(m, Routing)
        <5>1. CASE \E i \in DOMAIN tbl : tbl[i].owner = m
          <6>1. \E x \in In(tbl) : x.owner = m
              BY <5>1 DEF In
          <6> QED
              BY <6>1, <1>0
        <5>2. CASE m = Pod \/ m \in Machines
            BY <5>2 DEF Has
        <5> QED
            BY <5>1, <5>2, <3>0, <3>1 DEF MO!Known
      <4>2. Has(m)' \/ Lost(m, Routing)'
          BY <4>1, <2>2, <2>4
      <4>3. Lost(m, Routing)' => Lost(m, Ending)'
          BY DEF Lost, Removed, Routing, Ending
      <4> QED
          BY <4>2, <4>3, <3>0, <3>1
    <3>2. CASE on'[s] = on[s] /\ \A x \in In(req[u].all) : on[s] # x.owner
      <4>1. Has(m) \/ Lost(m, Ending)
          BY <3>0, <1>0
      <4>2. CASE Has(m)
          BY <4>2, <2>2, <3>0, <3>2
      <4>3. CASE Lost(m, Ending)
        <5>1. PICK v \in U : Removed(v, Ending) /\ \E x \in In(req[v].all) : x.owner = m
            BY <4>3 DEF Lost
        <5>2. v # u /\ req'[v] = req[v]
            BY <5>1, <3>0, <3>2, <2>1, <1>m
        <5>3. Removed(v, Ending)'
            BY <5>1, <5>2 DEF Removed, Step
        <5>4. Lost(m, Ending)'
            BY <5>1, <5>2, <5>3 DEF Lost
        <5> QED
            BY <5>4, <3>0, <3>2
      <4> QED
          BY <4>1, <4>2, <4>3
    <3>3. CASE on'[s] = Pod
        BY <3>3 DEF Has
    <3> QED
        BY <3>1, <3>2, <3>3, <2>1
  <2> QED
      BY <2>5, <2>6, <2>7
<1>7. ASSUME NEW r \in Reqs, DoRebuild(r) PROVE All'
  <2>1. /\ list' = list /\ tbl' = tbl /\ on' = on /\ (\A q \in Reqs : Step(q) # "store")
        /\ Step(r) = "rebuild" /\ Step(r)' = "store" /\ req'[r].rules = list
        /\ req'[r].hit = req[r].hit /\ req'[r].all = req[r].all
        /\ \A q \in Reqs : q # r => req'[q] = req[q]
      BY <1>7 DEF DoRebuild
  <2>2. \A m : (Has(m)' <=> Has(m))
      BY <2>1 DEF Has
  <2>3. (Removed(r, Routing) => Removed(r, Routing)') /\ (Removed(r, Ending) => Removed(r, Ending)')
      BY <2>1 DEF Removed, Routing, Ending
  <2>4. \A m : (Lost(m, Routing) => Lost(m, Routing)') /\ (Lost(m, Ending) => Lost(m, Ending)')
    <3> QED
        BY <2>1, <2>3, <1>l
  <2>5. ASSUME NEW q \in Reqs PROVE Taken(q)'
    <3>1. CASE q = r
      <4>1. \A x \in In(req'[q].rules) : Has(x.owner)'
          BY <3>1, <2>1 DEF Has
      <4> QED
          BY <4>1
    <3>2. CASE q # r
      <4>1. Step(q)' # "store"
          BY <3>2, <2>1 DEF Step
      <4> QED
          BY <4>1
    <3> QED
        BY <3>1, <3>2
  <2>6. Routed' /\ \A s \in MountSessions : Stood(s)'
    <3> QED
        BY <1>0, <2>1, <2>2, <2>4
  <2> QED
      BY <2>5, <2>6
<1>8. ASSUME NEW r \in Reqs, DoStore(r) PROVE All'
  <2>1. /\ list' = list /\ tbl' = req[r].rules /\ on' = on
        /\ Step(r) = "store" /\ Step(r)' = "reconcile"
        /\ req'[r].hit = req[r].hit /\ req'[r].all = req[r].all
        /\ \A q \in Reqs : q # r => req'[q] = req[q]
      BY <1>8, OnlyOne DEF DoStore
  <2>2. \A m : (Has(m)' <=> Has(m))
      BY <2>1 DEF Has
  <2>3. ~Removed(r, Before) /\ (Removed(r, Ending) => Removed(r, Ending)')
      BY <2>1 DEF Removed, Before, Routing, Ending
  <2>4. \A m : (Lost(m, Before) => Lost(m, Before)') /\ (Lost(m, Ending) => Lost(m, Ending)')
    <3> QED
        BY <2>1, <2>3, <1>l
  <2>5. ASSUME NEW q \in Reqs PROVE Step(q)' # "store"
    <3>1. CASE q = r
        BY <3>1, <2>1
    <3>2. CASE q # r
        BY <3>2, <2>1 DEF MountInv, Fresh, Step
    <3> QED
        BY <3>1, <3>2
  <2>6. ASSUME NEW x \in In(tbl') PROVE Ok(x.owner, Routing)'
    <3>1. Has(x.owner) \/ Lost(x.owner, Before)
        BY <2>1, <1>0
    <3>2. Has(x.owner)' \/ Lost(x.owner, Before)'
        BY <3>1, <2>2, <2>4
    <3>3. Lost(x.owner, Before)' => Lost(x.owner, Routing)'
        BY DEF Lost, Removed, Routing, Ending
    <3> QED
        BY <3>2, <3>3
  <2>7. \A s \in MountSessions : Stood(s)'
    <3> QED
        BY <1>0, <2>1, <2>2, <2>4
  <2> QED
      BY <2>5, <2>6, <2>7
<1>9. ASSUME NEW r \in Reqs, DoReconcile(r) PROVE All'
  <2>1. /\ list' = list /\ tbl' = tbl /\ on' = on /\ Step(r) = "reconcile"
        /\ \/ r \in M
           \/ Step(r)' = "strand" /\ req'[r].hit = req[r].hit /\ req'[r].all = req[r].all
        /\ Step(r)' # "store"
        /\ \A q \in Reqs : q # r => req'[q] = req[q]
      BY <1>9, OnlyOne DEF DoReconcile
  <2>2. r \in U => /\ Removed(r, Before) => Removed(r, Before)'
                   /\ Removed(r, Routing) => Removed(r, Routing)'
                   /\ Removed(r, Ending) => Removed(r, Ending)'
      BY <2>1, <1>m DEF Removed, Before, Routing, Ending
  <2>3. r \in U => req'[r].all = req[r].all
      BY <2>1, <1>m
  <2> HIDE DEF All
  <2> QED
      BY <2>1, <2>2, <2>3, <1>q
<1>10. ASSUME DoSession PROVE All'
  <2>1. /\ list' = list /\ tbl' = tbl /\ req' = req
        /\ \A s \in MountSessions : on'[s] = on[s] \/ MO!Known(tbl, on'[s])
      BY <1>10 DEF DoSession
  <2>2. \A m, S : (Has(m)' <=> Has(m)) /\ (Lost(m, S)' <=> Lost(m, S))
      BY <2>1 DEF Has, Lost, Removed, Step
  <2>3. (\A q \in Reqs : Taken(q)') /\ Routed'
    <3> QED
        BY <2>1, <2>2, <1>0 DEF Step
  <2>4. ASSUME NEW s \in MountSessions PROVE Stood(s)'
    <3>1. CASE on'[s] = on[s]
        BY <3>1, <2>2, <1>0
    <3>2. CASE MO!Known(tbl, on'[s])
      <4>0. PICK m : m = on'[s]
          OBVIOUS
      <4>1. Ok(m, Routing)
        <5>1. CASE \E i \in DOMAIN tbl : tbl[i].owner = m
          <6>1. \E x \in In(tbl) : x.owner = m
              BY <5>1 DEF In
          <6> QED
              BY <6>1, <1>0
        <5>2. CASE m = Pod \/ m \in Machines
            BY <5>2 DEF Has
        <5> QED
            BY <5>1, <5>2, <4>0, <3>2 DEF MO!Known
      <4>2. Has(m)' \/ Lost(m, Routing)'
          BY <4>1, <2>2
      <4>3. Lost(m, Routing)' => Lost(m, Ending)'
          BY DEF Lost, Removed, Routing, Ending
      <4> QED
          BY <4>2, <4>3, <4>0
    <3> QED
        BY <3>1, <3>2, <2>1
  <2> QED
      BY <2>3, <2>4
<1> HIDE DEF All
<1> QED
    BY <1>1, <1>2, <1>3, <1>4, <1>5, <1>6, <1>7, <1>8, <1>9, <1>10, Effects DEF DoesMount,
           DoesUnmount, DoesBoth

\* The invariant is kept.
LEMMA MountNext == ASSUME Composed, MountInv, [MO!Next]_(MO!vars) PROVE MountInv'
<1>1. CASE MO!Next
    BY <1>1, TypesNext, ApartNext, HitsNext, BindsNext, ServesNext, FreshNext, StaysNext,
           TellsNext
       DEF MountInv
<1>2. CASE UNCHANGED MO!vars
  <2>1. UNCHANGED <<list, kernel, fuse, tbl, told, req, cwd, on>>
      BY <1>2 DEF MO!vars, MO!sessions
  <2>2. \A r : Step(r)' = Step(r)
      BY <2>1 DEF Step
  <2>3. Types' /\ Apart' /\ Hits'
      BY <2>1, <2>2 DEF MountInv, Types, Apart, Hits, Step
  <2>4. Binds' /\ Serves'
      BY <2>1, <2>2 DEF MountInv, Binds, Serves, Binding, Leaving, Step
  <2>5. Fresh'
      BY <2>1 DEF MountInv, Fresh, Behind, Step
  <2>6. Broken' <=> Broken
      BY <2>1 DEF Broken, MO!Half
  <2>7. \A m, S : (Has(m)' <=> Has(m)) /\ (Lost(m, S)' <=> Lost(m, S))
      BY <2>1 DEF Has, Lost, Removed, Step
  <2>8. Stays'
      BY <2>1, <2>2, <2>6, <2>7 DEF MountInv, Stays
  <2>9. Tells'
      BY <2>1, <2>6 DEF MountInv, Tells, Removed, Step
  <2> QED
      BY <2>3, <2>4, <2>5, <2>8, <2>9 DEF MountInv
<1> QED
    BY <1>1, <1>2

\* One sequence after the other.
LEMMA JoinIs ==
    ASSUME NEW S, NEW s \in Seq(S), NEW t \in Seq(S)
    PROVE  /\ s \o t \in Seq(S) /\ In(s \o t) = In(s) \cup In(t)
           /\ Single(s) /\ Single(t) /\ In(s) \cap In(t) = {} => Single(s \o t)
<1> DEFINE c == s \o t
<1>1. /\ c \in Seq(S) /\ DOMAIN c = 1 .. Len(s) + Len(t) /\ DOMAIN s = 1 .. Len(s)
      /\ DOMAIN t = 1 .. Len(t)
      /\ Len(s) \in Nat /\ Len(t) \in Nat
      /\ \A i \in 1 .. Len(s) + Len(t) : c[i] = IF i <= Len(s) THEN s[i] ELSE t[i - Len(s)]
    OBVIOUS
<1> HIDE DEF c
<1>2. In(c) = In(s) \cup In(t)
  <2>1. ASSUME NEW i \in DOMAIN c PROVE c[i] \in In(s) \cup In(t)
    <3>1. CASE i <= Len(s)
      <4>1. i \in DOMAIN s /\ c[i] = s[i]
          BY <3>1, <1>1
      <4> QED
          BY <4>1 DEF In
    <3>2. CASE ~(i <= Len(s))
      <4>1. i - Len(s) \in DOMAIN t /\ c[i] = t[i - Len(s)]
          BY <3>2, <1>1
      <4> QED
          BY <4>1 DEF In
    <3> QED
        BY <3>1, <3>2
  <2>2. ASSUME NEW i \in DOMAIN s PROVE s[i] \in In(c)
    <3>1. i \in DOMAIN c /\ c[i] = s[i]
        BY <1>1
    <3> QED
        BY <3>1 DEF In
  <2>3. ASSUME NEW i \in DOMAIN t PROVE t[i] \in In(c)
    <3>1. /\ i + Len(s) \in DOMAIN c /\ ~(i + Len(s) <= Len(s)) /\ (i + Len(s)) - Len(s) = i
        BY <1>1
    <3>2. c[i + Len(s)] = t[i]
        BY <3>1, <1>1
    <3> QED
        BY <3>1, <3>2 DEF In
  <2> QED
      BY <2>1, <2>2, <2>3 DEF In
<1>3. ASSUME Single(s), Single(t), In(s) \cap In(t) = {} PROVE Single(c)
  <2> SUFFICES ASSUME NEW i \in DOMAIN c, NEW j \in DOMAIN c, c[i] = c[j] PROVE i = j
      BY DEF Single
  <2>1. CASE i <= Len(s) /\ j <= Len(s)
    <3>1. i \in DOMAIN s /\ j \in DOMAIN s /\ s[i] = s[j]
        BY <2>1, <1>1
    <3> QED
        BY <3>1, <1>3 DEF Single
  <2>2. CASE ~(i <= Len(s)) /\ ~(j <= Len(s))
    <3>1. i - Len(s) \in DOMAIN t /\ j - Len(s) \in DOMAIN t /\ t[i - Len(s)] = t[j - Len(s)]
        BY <2>2, <1>1
    <3>2. i - Len(s) = j - Len(s)
        BY <3>1, <1>3 DEF Single
    <3> QED
        BY <3>2, <1>1
  <2>3. CASE i <= Len(s) /\ ~(j <= Len(s))
    <3>1. i \in DOMAIN s /\ j - Len(s) \in DOMAIN t /\ s[i] = t[j - Len(s)]
        BY <2>3, <1>1
    <3> QED
        BY <3>1, <1>3 DEF In
  <2>4. CASE ~(i <= Len(s)) /\ j <= Len(s)
    <3>1. j \in DOMAIN s /\ i - Len(s) \in DOMAIN t /\ s[j] = t[i - Len(s)]
        BY <2>4, <1>1
    <3> QED
        BY <3>1, <1>3 DEF In
  <2> QED
      BY <2>1, <2>2, <2>3, <2>4
<1> QED
    BY <1>1, <1>2, <1>3 DEF c

\* What is mounted as the pod comes up is what the config names.
LEMMA PlannedIs ==
    ASSUME Composed
    PROVE  MO!Planned \in Seq(Given) /\ In(MO!Planned) = In(Config) /\ Single(MO!Planned)
<1> DEFINE own == {i \in DOMAIN Config : Config[i].owner = Pod}
           rest == DOMAIN Config \ own
           a == MO!Kept(Config, own)
           b == MO!Kept(Config, rest)
<1>1. Config \in Seq(Given) /\ Single(Config)
  <2>1. Config \in Seq(In(Config)) /\ In(Config) \subseteq Given /\ Single(Config)
      BY DEF Composed, Ordered, Given
  <2> QED
      BY <2>1
<1>2. /\ {Config[i] : i \in {j \in DOMAIN Config : j \in own}} = {x \in In(Config) : x.owner = Pod}
      /\ {Config[i] : i \in {j \in DOMAIN Config : j \in rest}} = {x \in In(Config) : x.owner # Pod}
    BY DEF In
<1>3. MO!Planned = a \o b
    BY DEF MO!Planned
<1> HIDE DEF own, rest
<1>4. /\ a \in Seq(Given) /\ In(a) = {x \in In(Config) : x.owner = Pod} /\ Single(a)
      /\ b \in Seq(Given) /\ In(b) = {x \in In(Config) : x.owner # Pod} /\ Single(b)
    BY <1>1, <1>2, KeptIs
<1> HIDE DEF a, b
<1>5. In(a) \cap In(b) = {} /\ In(a) \cup In(b) = In(Config)
    BY <1>4
<1> QED
    BY <1>3, <1>4, <1>5, JoinIs

\* It holds of the pod as it comes up.
LEMMA MountInit == ASSUME Composed, MO!Init PROVE MountInv
<1>1. /\ list = MO!Planned /\ kernel = MO!Planned /\ tbl = MO!Planned /\ told = <<>>
      /\ fuse = MO!Served(MO!Planned)
      /\ cwd = [s \in MountSessions |-> <<>>] /\ on = [s \in MountSessions |-> Pod]
    BY DEF MO!Init
<1>2. /\ req \in [Reqs -> [step : MountSteps \cup UnmountSteps, hit : Seq(Given),
                           all : Seq(Given), rules : Seq(Given)]]
      /\ \A r \in Reqs : Step(r) = "none" /\ req[r].hit = <<>> /\ req[r].all = <<>>
  <2>1. req = [r \in Reqs |-> [step |-> "none", hit |-> <<>>, all |-> <<>>, rules |-> <<>>]]
      BY DEF MO!Init, Reqs
  <2>2. "none" \in MountSteps /\ <<>> \in Seq(Given)
      BY DEF MountSteps
  <2> QED
      BY <2>1, <2>2 DEF Step
<1>3. MO!Planned \in Seq(Given) /\ In(MO!Planned) = In(Config) /\ Single(MO!Planned)
    BY PlannedIs
<1>m. /\ \A r \in DOMAIN Mounts : r \in Reqs /\ MO!Rec(r) \notin In(Config)
      /\ \A u \in DOMAIN Unmounts : u \in Reqs
      /\ \A x \in Given : x.id \in DOMAIN Mounts => x = MO!Rec(x.id)
      /\ In(Config) \subseteq Given
    BY Mine DEF Given
<1>4. \A id : id \in fuse <=> \E x \in In(Config) : x.id = id /\ x.owner # Pod
  <2>1. \A id : id \in MO!Served(MO!Planned) <=> \E x \in In(MO!Planned) : x.id = id /\ x.owner # Pod
      BY DEF MO!Served, In
  <2> QED
      BY <2>1, <1>1, <1>3
<1>5. Types
  <2>1. fuse \subseteq DOMAIN Mounts \cup MO!Ids(Config)
      BY <1>4 DEF MO!Ids, In
  <2>2. {list, kernel, tbl, told} \subseteq Seq(Given)
    <3>1. <<>> \in Seq(Given)
        OBVIOUS
    <3> QED
        BY <3>1, <1>1, <1>3
  <2>3. "none" \in MountSteps /\ "none" \in UnmountSteps
      BY DEF MountSteps, UnmountSteps
  <2> QED
      BY <1>1, <1>2, <1>3, <1>m, <2>1, <2>2, <2>3 DEF Types
<1>6. Apart
  <2>1. \A x \in In(list) : x.id \notin DOMAIN Mounts
      BY <1>1, <1>3, <1>m
  <2>2. \A r \in DOMAIN Mounts : Step(r) = "none" /\ MO!Rec(r) \notin In(list)
      BY <1>1, <1>2, <1>3, <1>m
  <2> QED
      BY <2>1, <2>2 DEF Apart
<1>7. Hits
  <2>1. \A u \in DOMAIN Unmounts : Step(u) = "none" /\ req[u].hit = <<>> /\ req[u].all = <<>>
      BY <1>2, <1>m
  <2>2. \A r \in DOMAIN Mounts : Step(r) = "none"
      BY <1>2, <1>m
  <2>3. Len(<<>>) <= Len(<<>>)
      OBVIOUS
  <2> QED
      BY <2>1, <2>2, <2>3 DEF Hits, Unmounting
<1>8. Binds
  <2>1. \A x : ~Binding(x) /\ ~Leaving(x)
      BY <1>2, <1>m DEF Binding, Leaving
  <2>2. \A i, j \in DOMAIN kernel : i < j => ~MO!Under(kernel[i].at, kernel[j].at)
      BY <1>1 DEF Composed, Ordered
  <2> QED
      BY <1>1, <1>2, <1>m, <2>1, <2>2 DEF Binds
<1>9. Serves
  <2>1. \A x \in In(list) : x.owner # Pod => x.id \in fuse
      BY <1>1, <1>3, <1>4
  <2> QED
      BY <1>1, <1>2, <1>3, <1>4, <1>m, <2>1 DEF Serves
<1>10. Fresh
    BY <1>1, <1>2 DEF Fresh
<1>11. Stays
  <2>1. \A x \in In(tbl) : Has(x.owner)
      BY <1>1 DEF Has
  <2>2. \A s \in MountSessions : Has(on[s])
      BY <1>1 DEF Has
  <2> QED
      BY <1>2, <2>1, <2>2 DEF Stays
<1>12. Tells
  <2>1. In(told) = {}
      BY <1>1 DEF In
  <2> QED
      BY <2>1 DEF Tells
<1> QED
    BY <1>5, <1>6, <1>7, <1>8, <1>9, <1>10, <1>11, <1>12 DEF MountInv

\* It says that a runtime mount stands alone.
LEMMA StandAloneHolds == ASSUME Composed, MountInv PROVE MO!RuntimeMountsStandAlone
<1> SUFFICES ASSUME NEW i \in DOMAIN list, NEW j \in DOMAIN list, i # j, list[i].id \in DOMAIN Mounts
             PROVE  ~MO!Clash(list[i], list[j])
    BY DEF MO!RuntimeMountsStandAlone, MO!Clash
<1>1. list[i] \in In(list) /\ list[j] \in In(list) /\ list[i] # list[j]
    BY DEF MountInv, Types, Single, In
<1> QED
    BY <1>1 DEF MountInv, Apart

\* Nobody is at it: every request is over or has not begun.
Rest == {"none", "ok", "refused", "failed", "dropped"}

\* Nobody is at a step when nothing is under way.
LEMMA QuietIs ==
    ASSUME MountInv, MO!Quiet PROVE DOMAIN req = Reqs /\ \A r \in Reqs : Step(r) \in Rest
BY DEF MountInv, Types, MO!Quiet, MO!Underway, Step, Rest

\* The binds are then those of the list.
LEMMA QuietBound == ASSUME Composed, MountInv, MO!Quiet PROVE In(kernel) = In(list)
<1>1. \A r \in Reqs : Step(r) \in Rest
    BY QuietIs
<1>2. \A x : ~Binding(x) /\ ~Leaving(x)
    BY <1>1, Mine DEF Binding, Leaving, Rest
<1> QED
    BY <1>2 DEF MountInv, Binds

\* So what is listed is bound and served.
LEMMA ListedIsMountedHolds == ASSUME Composed, MountInv PROVE MO!ListedIsMounted
<1> SUFFICES ASSUME MO!Quiet PROVE MO!Ids(kernel) = MO!Ids(list) /\ fuse = MO!Served(list)
    BY DEF MO!ListedIsMounted
<1>1. In(kernel) = In(list)
    BY QuietBound
<1>2. \A s : MO!Ids(s) = {x.id : x \in In(s)}
    BY DEF MO!Ids, In
<1>3. \A r \in Reqs : Step(r) \in Rest
    BY QuietIs
<1>4. \A id \in fuse : \E x \in In(list) : x.id = id /\ x.owner # Pod
    BY <1>3, Mine DEF MountInv, Serves, Rest
<1>5. \A x \in In(list) : x.owner # Pod => x.id \in fuse
    BY <1>3, Mine DEF MountInv, Serves, Rest
<1>6. \A id : id \in MO!Served(list) <=> \E x \in In(list) : x.id = id /\ x.owner # Pod
    BY DEF MO!Served, In
<1>7. fuse = MO!Served(list)
    BY <1>4, <1>5, <1>6
<1> QED
    BY <1>1, <1>2, <1>7

\* And none of them stopped half-way: the table is the list.
LEMMA SettledIs ==
    ASSUME Composed, MountInv, MO!Settled
    PROVE  MO!Quiet /\ ~Broken /\ tbl = list /\ \A r \in Reqs : Step(r) \in Rest
<1>1. MO!Quiet /\ DOMAIN req = Reqs /\ \A r \in Reqs : Step(r) \in Rest
    BY QuietIs DEF MO!Settled
<1>2. \A r \in Reqs : ~MO!Half(r)
    BY <1>1 DEF MO!Settled
<1>3. \A r \in Reqs : Step(r) # "store" /\ ~Behind(r)
    BY <1>1, <1>2 DEF Behind, MO!Half, Rest, Step
<1> QED
    BY <1>1, <1>2, <1>3 DEF Broken, MountInv, Fresh

\* Once all is told, no node has what was unmounted.
LEMMA UnmountedHolds == ASSUME Composed, MountInv PROVE MO!UnmountedEverywhere
<1> SUFFICES ASSUME MO!Settled PROVE \A i \in DOMAIN told : told[i].id \in MO!Ids(list)
    BY DEF MO!UnmountedEverywhere
<1>1. ~Broken /\ \A r \in Reqs : Step(r) \in Rest
    BY SettledIs
<1>2. \A u \in DOMAIN Unmounts : ~Removed(u, Before \cup {"store", "reconcile"})
    BY <1>1, Mine DEF Removed, Before, Rest
<1>3. In(told) \subseteq In(list)
    BY <1>1, <1>2 DEF MountInv, Tells
<1> QED
    BY <1>3 DEF In, MO!Ids

\* No session is on a machine the table does not know.
LEMMA NobodyIsStrandedHolds == ASSUME Composed, MountInv PROVE MO!NobodyIsStranded
<1> SUFFICES ASSUME MO!Settled, NEW s \in MountSessions PROVE MO!Known(tbl, on[s])
    BY DEF MO!NobodyIsStranded
<1>1. ~Broken /\ tbl = list /\ \A r \in Reqs : Step(r) \in Rest
    BY SettledIs
<1>2. ~Lost(on[s], Ending)
    BY <1>1, Mine DEF Lost, Removed, Ending, Before, Rest
<1>3. Has(on[s])
    BY <1>1, <1>2 DEF MountInv, Stays
<1> QED
    BY <1>1, <1>3 DEF Has, MO!Known, In

\* The most specific rule, when one of them is longer than the others.
LEMMA FirstIs ==
    ASSUME NEW t \in Seq(Given), NEW which, which \subseteq DOMAIN t, NEW n \in which,
           Single(t),
           \A x \in Given : x.at \in Seq(Words),
           \A j \in which : t[j] # t[n] => Len(t[j].at) < Len(t[n].at)
    PROVE  t[MO!First(t, which)] = t[n]
<1>1. \A j \in which : j \in Nat /\ t[j] \in Given /\ Len(t[j].at) \in Nat
  <2>1. \A j \in DOMAIN t : j \in Nat /\ t[j] \in Given
      OBVIOUS
  <2>2. \A x \in Given : Len(x.at) \in Nat
      OBVIOUS
  <2> QED
      BY <2>1, <2>2
<1>2. \A j \in which : t[j] = t[n] => j = n
    BY DEF Single
<1> DEFINE Best(i) == \A j \in which :
               Len(t[i].at) > Len(t[j].at) \/ (Len(t[i].at) = Len(t[j].at) /\ i <= j)
<1>3. Best(n)
    BY <1>1, <1>2
<1>4. \E i \in which : Best(i)
    BY <1>3
<1> DEFINE i == MO!First(t, which)
<1>5. i \in which /\ Best(i)
    BY <1>4 DEF MO!First
<1> HIDE DEF i
<1>6. ~(Len(t[i].at) < Len(t[n].at))
    BY <1>1, <1>5
<1> QED
    BY <1>5, <1>6 DEF i

\* The route of a path is that of the mount one sees there: of the binds above it, the
\* newest lies deepest (Binds).
LEMMA RoutesHold == ASSUME Composed, MountInv PROVE MO!RoutesShowThePod
<1> SUFFICES ASSUME MO!Settled, NEW p \in Places
             PROVE  LET shown == MO!Shown(kernel, p)
                    IN  IF shown = None THEN MO!Owner(tbl, p) = Pod
                        ELSE /\ MO!Owner(tbl, p) = shown.owner
                             /\ shown.owner # Pod => MO!Dir(tbl, p, shown.owner) =
                                    shown.src \o SubSeq(p, Len(shown.at) + 1, Len(p))
    BY DEF MO!RoutesShowThePod
<1>1. tbl = list /\ In(kernel) = In(tbl)
    BY SettledIs, QuietBound
<1>2. /\ tbl \in Seq(Given) /\ Single(tbl) /\ kernel \in Seq(Given) /\ Single(kernel)
      /\ \A x \in Given : x.at \in Seq(Words) /\ p \in Seq(Words) /\ None \notin Given
      /\ \A i, j \in DOMAIN kernel : i < j => ~MO!Under(kernel[i].at, kernel[j].at)
    BY <1>1 DEF MountInv, Types, Binds, Composed, Named
<1>3. CASE {j \in DOMAIN kernel : MO!Under(p, kernel[j].at)} = {}
  <2>1. MO!Shown(kernel, p) = None
      BY <1>3 DEF MO!Shown
  <2>2. \A x \in In(tbl) : ~MO!Under(p, x.at)
      BY <1>1, <1>3 DEF In
  <2>3. {i \in DOMAIN tbl : MO!Under(p, tbl[i].at)} = {}
      BY <2>2 DEF In
  <2>4. MO!Owner(tbl, p) = Pod
      BY <2>3 DEF MO!Owner
  <2> QED
      BY <2>1, <2>4
<1>4. CASE {j \in DOMAIN kernel : MO!Under(p, kernel[j].at)} # {}
  <2>1. PICK b \in DOMAIN kernel : /\ MO!Under(p, kernel[b].at) /\ MO!Shown(kernel, p) = kernel[b]
                                   /\ \A j \in DOMAIN kernel : MO!Under(p, kernel[j].at) => j <= b
      BY <1>2, <1>4, ShownIs
  <2> DEFINE y == kernel[b]
  <2>2. y \in In(tbl) /\ y \in Given /\ y # None
    <3>1. y \in In(kernel)
        BY DEF In
    <3>2. y \in Given
        BY <3>1, Inside
    <3> QED
        BY <1>1, <1>2, <3>1, <3>2
  <2>3. PICK n \in DOMAIN tbl : tbl[n] = y
      BY <2>2 DEF In
  <2>4. ASSUME NEW x \in In(tbl), x # y, MO!Under(p, x.at) PROVE Len(x.at) < Len(y.at)
    <3>1. PICK a \in DOMAIN kernel : kernel[a] = x
        BY <1>1, <2>4 DEF In
    <3>2. a < b
      <4>1. a <= b /\ a # b /\ a \in Nat /\ b \in Nat
          BY <1>2, <2>1, <2>4, <3>1
      <4> QED
          BY <4>1
    <3>3. ~MO!Under(x.at, y.at)
        BY <1>2, <3>1, <3>2
    <3>4. x \in Given /\ x.at \in Seq(Words) /\ y.at \in Seq(Words) /\ MO!Under(p, y.at)
        BY <1>1, <1>2, <2>1, <2>2, <3>1
    <3>5. ~(Len(y.at) <= Len(x.at))
        BY <1>2, <2>4, <3>3, <3>4, UnderBoth
    <3>6. Len(y.at) \in Nat /\ Len(x.at) \in Nat
        BY <3>4
    <3> QED
        BY <3>5, <3>6
  <2> HIDE DEF y
  <2>5. ASSUME NEW which, which \subseteq {i \in DOMAIN tbl : MO!Under(p, tbl[i].at)},
               n \in which
        PROVE  which # {} /\ tbl[MO!First(tbl, which)] = y
    <3>1. \A j \in which : j \in DOMAIN tbl /\ tbl[j] \in In(tbl) /\ MO!Under(p, tbl[j].at)
        BY <2>5 DEF In
    <3>2. \A j \in which : tbl[j] # tbl[n] => Len(tbl[j].at) < Len(tbl[n].at)
        BY <2>3, <2>4, <3>1
    <3>3. which \subseteq DOMAIN tbl
        BY <2>5
    <3>4. tbl[MO!First(tbl, which)] = tbl[n]
        BY <1>2, <2>5, <3>2, <3>3, FirstIs
    <3> QED
        BY <2>3, <2>5, <3>4
  <2>6. MO!Under(p, tbl[n].at)
      BY <2>1, <2>3 DEF y
  <2>7. MO!Owner(tbl, p) = y.owner
    <3> DEFINE which == {i \in DOMAIN tbl : MO!Under(p, tbl[i].at)}
    <3>1. n \in which /\ which \subseteq {i \in DOMAIN tbl : MO!Under(p, tbl[i].at)}
        BY <2>6
    <3>2. MO!Owner(tbl, p) = IF which = {} THEN Pod ELSE tbl[MO!First(tbl, which)].owner
        BY DEF MO!Owner
    <3> HIDE DEF which
    <3> QED
        BY <3>1, <3>2, <2>5
  <2>8. ASSUME y.owner # Pod
        PROVE  MO!Dir(tbl, p, y.owner) = y.src \o SubSeq(p, Len(y.at) + 1, Len(p))
    <3> DEFINE which == {i \in DOMAIN tbl : tbl[i].owner = y.owner /\ MO!Under(p, tbl[i].at)}
    <3>1. n \in which /\ which \subseteq {i \in DOMAIN tbl : MO!Under(p, tbl[i].at)}
        BY <2>3, <2>6
    <3>2. MO!Dir(tbl, p, y.owner) =
              IF y.owner = Pod \/ which = {} THEN p
              ELSE tbl[MO!First(tbl, which)].src \o SubSeq(p, Len(tbl[MO!First(tbl, which)].at) + 1, Len(p))
        BY DEF MO!Dir
    <3> HIDE DEF which
    <3>3. which # {} /\ tbl[MO!First(tbl, which)] = y
        BY <3>1, <2>5
    <3> QED
        BY <3>2, <3>3, <2>8
  <2> QED
      BY <2>1, <2>2, <2>7, <2>8 DEF y
<1> QED
    BY <1>3, <1>4

\* And the variables have their types.
LEMMA TypeOKHolds == ASSUME Composed, MountInv PROVE MO!TypeOK
<1>1. \A s \in Seq(Given) : MO!Ids(s) \subseteq DOMAIN Mounts \cup MO!Ids(Config)
  <2>1. \A s \in Seq(Given) : \A i \in DOMAIN s : s[i] \in Given
      OBVIOUS
  <2>2. \A x \in Given : x.id \in DOMAIN Mounts \cup MO!Ids(Config)
      BY DEF Composed, Named
  <2> QED
      BY <2>1, <2>2 DEF MO!Ids
<1>2. /\ fuse \subseteq DOMAIN Mounts \cup MO!Ids(Config)
      /\ list \in Seq(Given) /\ kernel \in Seq(Given) /\ tbl \in Seq(Given)
      /\ cwd \in [MountSessions -> Places \cup {<<>>}]
      /\ on \in [MountSessions -> MO!Owners \cup {Pod}]
      /\ DOMAIN req = Reqs /\ \A r \in Reqs : req[r].step \in MountSteps \cup UnmountSteps
    BY DEF MountInv, Types
<1>3. fuse \cup MO!Ids(list) \cup MO!Ids(kernel) \cup MO!Ids(tbl) \subseteq DOMAIN Mounts \cup MO!Ids(Config)
    BY <1>1, <1>2
<1>4. MountSteps \cup UnmountSteps \subseteq
          {"none", "add", "append", "bind", "drop", "sessions", "unbind", "release", "forget",
           "rebuild", "store", "reconcile", "strand", "ok", "refused", "failed", "dropped"}
    BY DEF MountSteps, UnmountSteps, Unmounting
<1>5. \A r \in DOMAIN req : req[r].step \in
          {"none", "add", "append", "bind", "drop", "sessions", "unbind", "release", "forget",
           "rebuild", "store", "reconcile", "strand", "ok", "refused", "failed", "dropped"}
    BY <1>2, <1>4
<1> QED
    BY <1>2, <1>3, <1>5 DEF MO!TypeOK

\* What the runs check of the mounts.
Agreed == /\ MO!TypeOK /\ MO!RuntimeMountsStandAlone /\ MO!ListedIsMounted /\ MO!RoutesShowThePod
          /\ MO!NobodyIsStranded /\ MO!UnmountedEverywhere

\* Whatever is mounted and unmounted, one request at a time, once nothing is under way
\* the pod has the mounts of the list, bound, served and routed, nobody stands on a machine
\* that is gone, and no node keeps what was unmounted (mount.go mount, unmount).
THEOREM MountTableIsThePods == ASSUME Composed PROVE MO!Spec => []Agreed
<1>1. MO!Init => MountInv
    BY MountInit
<1>2. MountInv /\ [MO!Next]_(MO!vars) => MountInv'
    BY MountNext
<1>3. MountInv => Agreed
    BY StandAloneHolds, ListedIsMountedHolds, UnmountedHolds, NobodyIsStrandedHolds,
           RoutesHold, TypeOKHolds
       DEF Agreed
<1> QED
    BY <1>1, <1>2, <1>3, PTL DEF MO!Spec

=============================================================================
