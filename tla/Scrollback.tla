------------------------------ MODULE Scrollback ------------------------------
(***************************************************************************)
(* A shell's output on its way to a terminal: it is kept, as far back as   *)
(* it fits, in a ring (internal/term/ring.go) that is replayed to whoever  *)
(* attaches, and taken apart by `vp shell` into text and markers           *)
(* (internal/ui/marks.go). Both are fed whatever a read returned, so a     *)
(* chunk may end in the middle of a marker or be longer than the ring.     *)
(*                                                                         *)
(* A byte is "esc", "]", "bel", "\", "m" or "t". An escape sequence "esc   *)
(* ] body end", whose end is "bel" or "esc \", is a marker if its body is  *)
(* "m" and any other's is text.                                            *)
(***************************************************************************)
EXTENDS Integers, Sequences, SequencesExt

CONSTANTS
    Size,       \* the bytes the ring holds
    MaxOSC,     \* how long an unended sequence may grow before it is text
    MaxChunk,   \* how many bytes a read returns at most
    MaxBytes    \* how many bytes are written

VARIABLES
    written,    \* all that was written
    ring,       \* Ring: buf, pos, full
    pend,       \* Parser.pend
    parsed      \* what the parser has given back: bytes of text, and "MARK"

vars == <<written, ring, pend, parsed>>

Bytes == {"esc", "]", "bel", "\\", "m", "t"}
Chunks == UNION {[1 .. n -> Bytes] : n \in 1 .. MaxChunk}

From(s, i) == SubSeq(s, i, Len(s))

(***************************************************************************)
(* The ring.                                                               *)
(***************************************************************************)
Put(r, b) ==
    LET full == r.pos = Size IN
    [buf |-> [r.buf EXCEPT ![r.pos] = b], pos |-> IF full THEN 1 ELSE r.pos + 1,
     full |-> r.full \/ full]

PutAll(r, p) ==
    LET put[i \in 0 .. Len(p)] == IF i = 0 THEN r ELSE Put(put[i - 1], p[i])
    IN  put[Len(p)]

\* Mutant: a write as long as the ring leaves the position where it was.
WriteInPlace(r, p) ==
    IF Len(p) >= Size
    THEN [buf |-> From(p, Len(p) - Size + 1), pos |-> r.pos, full |-> TRUE]
    ELSE PutAll(r, p)

Write(r, p) ==
    IF Len(p) >= Size
    THEN [buf |-> From(p, Len(p) - Size + 1), pos |-> 1, full |-> TRUE]
    ELSE PutAll(r, p)

Snapshot(r) ==
    IF r.full THEN From(r.buf, r.pos) \o SubSeq(r.buf, 1, r.pos - 1)
    ELSE SubSeq(r.buf, 1, r.pos - 1)

(***************************************************************************)
(* The parser.                                                             *)
(***************************************************************************)
\* oscEnd: where the sequence that starts d ends, 0 if that has not arrived.
Ends(d) == {i \in 3 .. Len(d) : \/ d[i] = "bel"
                                \/ i > 3 /\ d[i] = "\\" /\ d[i - 1] = "esc"}
OscEnd(d) == IF Ends(d) = {} THEN 0 ELSE CHOOSE i \in Ends(d) : \A j \in Ends(d) : i <= j

\* parseOSC: the sequence as a marker, or as the text it is.
ParseOSC(seq) ==
    LET body == SubSeq(seq, 3, Len(seq) - (IF Last(seq) = "bel" THEN 1 ELSE 2))
    IN  IF body = <<"m">> THEN <<"MARK">> ELSE seq

\* What has to wait for the next read.
Held(d) ==
    \/ d = <<"esc">>
    \/ Len(d) > 1 /\ d[2] = "]" /\ OscEnd(d) = 0 /\ Len(d) <= MaxOSC

\* The length of the piece at the head of d.
Piece(d) ==
    CASE Head(d) # "esc" -> 1
      [] Head(d) = "esc" /\ Len(d) > 1 /\ d[2] = "]" /\ OscEnd(d) # 0 -> OscEnd(d)
      [] OTHER -> IF Len(d) = 1 THEN 1 ELSE 2

\* Feed, of the bytes held back and the new ones.
Feed(data) ==
    LET scan[d \in Seq(Bytes)] ==
            IF d = <<>> THEN [out |-> <<>>, pend |-> <<>>]
            ELSE IF Head(d) = "esc" /\ Held(d) THEN [out |-> <<>>, pend |-> d]
            ELSE LET n == Piece(d)
                     rest == scan[From(d, n + 1)]
                     piece == SubSeq(d, 1, n)
                 IN  [rest EXCEPT !.out = (IF n > 2 THEN ParseOSC(piece) ELSE piece) \o @]
    IN scan[data]

Output(chunk) ==
    LET fed == Feed(pend \o chunk) IN
    /\ Len(written) + Len(chunk) <= MaxBytes
    /\ written' = written \o chunk
    /\ ring' = Write(ring, chunk)
    /\ pend' = fed.pend /\ parsed' = parsed \o fed.out

Init ==
    /\ written = <<>> /\ pend = <<>> /\ parsed = <<>>
    /\ ring = [buf |-> [i \in 1 .. Size |-> "t"], pos |-> 1, full |-> FALSE]

Next == \E chunk \in Chunks : Output(chunk)

Spec == Init /\ [][Next]_vars

(***************************************************************************)
(* What is shown to hold.                                                  *)
(***************************************************************************)
TypeOK ==
    /\ written \in Seq(Bytes) /\ pend \in Seq(Bytes)
    /\ ring.pos \in 1 .. Size /\ ring.full \in BOOLEAN /\ ring.buf \in [1 .. Size -> Bytes]
    /\ parsed \in Seq(Bytes \cup {"MARK"})

\* What is replayed is the last of what was written, in order, whatever the
\* chunks and wherever the ring has wrapped (Ring.Write, Ring.Snapshot).
SnapshotIsTheTail ==
    Snapshot(ring) = IF Len(written) <= Size THEN written
                     ELSE From(written, Len(written) - Size + 1)

\* A terminal, which is given one byte at a time: what it holds of an unended
\* sequence, the longest it held, and what it has made of the bytes.
Blank == [held |-> <<>>, most |-> 0, out |-> <<>>]

Text(t, b) == [held |-> <<>>, most |-> t.most, out |-> t.out \o Append(t.held, b)]

Wait(t, b) ==
    LET h == Append(t.held, b)
    IN  [held |-> h, most |-> IF t.most > Len(h) THEN t.most ELSE Len(h), out |-> t.out]

Whole(h) == IF SubSeq(h, 3, Len(h)) \in {<<"m", "bel">>, <<"m", "esc", "\\">>}
            THEN <<"MARK">> ELSE h
Ended(t, b) == [held |-> <<>>, most |-> t.most, out |-> t.out \o Whole(Append(t.held, b))]

See(t, b) ==
    IF t.held = <<>> THEN (IF b = "esc" THEN Wait(t, b) ELSE Text(t, b))
    ELSE IF t.held = <<"esc">> THEN (IF b = "]" THEN Wait(t, b) ELSE Text(t, b))
    ELSE IF b = "bel" \/ (b = "\\" /\ Last(t.held) = "esc") THEN Ended(t, b)
    ELSE Wait(t, b)

Terminal(bytes) ==
    LET t[i \in 0 .. Len(bytes)] == IF i = 0 THEN Blank ELSE See(t[i - 1], bytes[i])
    IN  t[Len(bytes)]

\* The pieces are those a terminal would see, wherever the reads cut them, as long
\* as no sequence is longer than one of ours may be (Parser.Feed: "carrying a
\* partial escape sequence across reads").
ChunksDoNotMatter ==
    LET t == Terminal(written) IN t.most <= MaxOSC => (parsed = t.out /\ pend = t.held)

\* A stray start of a sequence holds back no more than MaxOSC bytes ("a program
\* printing a stray ESC ] must not make everything after it vanish").
LittleIsHeldBack == Len(pend) <= MaxOSC
================================================================================
