------------------------------- MODULE ExecTree -------------------------------
(***************************************************************************)
(* What `vp tree` shows of a pod's commands (internal/daemon/tracker.go,   *)
(* tree): the records of the running ones, in the order they started, each *)
(* put under the record of its parent process. A node is put under another *)
(* by copying it, with what is under it by then.                           *)
(***************************************************************************)
EXTENDS Integers, Sequences, SequencesExt

CONSTANTS
    Pids,     \* the processes that report what they run
    None      \* a parent that reports nothing

VARIABLES
    order,    \* the running records' pids, by the start of each
    ppid,     \* per pid, the parent its record names
    ended     \* the pids that are gone; none is used again

vars == <<order, ppid, ended>>

Tracked == {order[i] : i \in DOMAIN order}
Without(s, p) == IF p \in Tracked THEN RemoveAt(s, CHOOSE i \in DOMAIN s : s[i] = p) ELSE s

\* recordExec: a pid may report one command after another, each in its turn.
Exec(p, parent) ==
    /\ p \notin ended
    /\ IF p \in Tracked THEN parent = ppid[p] ELSE parent \in Tracked \cup {None}
    /\ order' = Append(Without(order, p), p)
    /\ ppid' = [ppid EXCEPT ![p] = parent]
    /\ UNCHANGED ended

\* finishExec and watchExits.
Exit(p) ==
    /\ p \in Tracked
    /\ order' = Without(order, p) /\ ended' = ended \cup {p}
    /\ UNCHANGED ppid

(***************************************************************************)
(* The tree, as the pairs of a pid and the one it is shown under.          *)
(***************************************************************************)
\* Mutant: a root is copied when it is met, like any other.
PlaceCopies(t, p) ==
    LET n == {<<p, ppid[p]>>} \cup t.under[p] IN
    IF ppid[p] \in Tracked THEN [t EXCEPT !.under[ppid[p]] = @ \cup n]
    ELSE [t EXCEPT !.shown = @ \cup n]

Place(t, p) ==
    IF ppid[p] \in Tracked
    THEN [t EXCEPT !.under[ppid[p]] = @ \cup {<<p, ppid[p]>>} \cup t.under[p]]
    ELSE [t EXCEPT !.roots = @ \cup {p}]

Bare == [under |-> [p \in Pids |-> {}], roots |-> {}, shown |-> {}]

Tree ==
    LET tree[i \in 0 .. Len(order)] ==
            IF i = 0 THEN Bare ELSE Place(tree[i - 1], order[i])
        t == tree[Len(order)]
    IN  t.shown \cup UNION {{<<p, ppid[p]>>} \cup t.under[p] : p \in t.roots}

Init ==
    /\ order = <<>> /\ ppid = [p \in Pids |-> None] /\ ended = {}

Next == \E p \in Pids : Exit(p) \/ \E parent \in Pids \cup {None} : Exec(p, parent)

Spec == Init /\ [][Next]_vars

(***************************************************************************)
(* What is shown to hold.                                                  *)
(***************************************************************************)
TypeOK ==
    /\ order \in Seq(Pids) /\ ended \subseteq Pids /\ Tracked \cap ended = {}
    /\ ppid \in [Pids -> Pids \cup {None}]

\* Every command with no tracked parent is shown, with those it started under it,
\* whatever ended or was replaced before (tracker.go's tree).
RootsShowTheirOwn ==
    \A p \in Tracked :
        (ppid[p] \notin Tracked \/ ppid[ppid[p]] \notin Tracked) => <<p, ppid[p]>> \in Tree

\* `vp tree` "renders the pod's whole structure".
EveryCommandIsShown == \A p \in Tracked : <<p, ppid[p]>> \in Tree
================================================================================
