----------------------------- MODULE MCNodePods -----------------------------
(***************************************************************************)
(* Instances of NodePods: which mount lists `up` built, which machine owns *)
(* what, and who may see this machine's own directories.                   *)
(***************************************************************************)
EXTENDS NodePods, TLC

NothingExposed == [o \in Local |-> {}]
AllExposed     == [o \in Local |-> Hosts]

\* Every origin its own machine, or all of them one machine's.
OwnMachine == [o \in Origins |-> o]
OneMachine == [o \in Origins |->
    IF o \in Local THEN o ELSE CHOOSE m \in Origins \ Local : TRUE]

Empty   == {[p \in Paths |-> None]}
SomeTrees == {tree \in [Paths -> Origins \cup {None}] :
                 \A p, q \in Paths : p # q /\ tree[p] = tree[q] => tree[p] = None}

\* A record nothing points at is garbage, whatever is still in it.
Seen == <<daemon, [i \in PodIds |-> IF i \in Live THEN view[i] ELSE NewRecord(None)],
          node, link, faults, pc, job, stopped>>

HostSymmetry == Permutations(Hosts)
ThreadSymmetry == Permutations(Threads)
BothSymmetry == Permutations(Hosts) \cup Permutations(Threads)
=============================================================================
