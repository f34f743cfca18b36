-------------------------------- MODULE Calls --------------------------------
(***************************************************************************)
(* What the daemon promises whoever runs something in a pod                *)
(* (internal/daemon/pod.go: runToCompletion), whatever passes between it   *)
(* and vpinit: one process is started for a call, if any; the call comes   *)
(* back once, and with an exit code only when that process has ended.      *)
(***************************************************************************)
CONSTANT Ids      \* the calls

VARIABLES
    asked,        \* per call: "no", "waiting", "done" or "failed"
    process       \* its process: "none", "running" or "ended"

calls == <<asked, process>>

Init == asked = [id \in Ids |-> "no"] /\ process = [id \in Ids |-> "none"]

Ask(id) ==
    /\ asked[id] = "no" /\ asked' = [asked EXCEPT ![id] = "waiting"]
    /\ UNCHANGED process

\* The process may still be started when its call has given up.
Start(id) ==
    /\ asked[id] # "no" /\ process[id] = "none"
    /\ process' = [process EXCEPT ![id] = "running"]
    /\ UNCHANGED asked

\* Processes end: one of its own accord, or all that run, with the pod.
End(S) ==
    /\ S # {} /\ \A id \in S : process[id] = "running"
    /\ process' = [id \in Ids |-> IF id \in S THEN "ended" ELSE process[id]]
    /\ UNCHANGED asked

Return(id) ==
    /\ asked[id] = "waiting" /\ process[id] = "ended"
    /\ asked' = [asked EXCEPT ![id] = "done"]
    /\ UNCHANGED process

Fail(id) ==
    /\ asked[id] \in {"no", "waiting"} /\ asked' = [asked EXCEPT ![id] = "failed"]
    /\ UNCHANGED process

Next == \/ \E id \in Ids : Ask(id) \/ Start(id) \/ Return(id) \/ Fail(id) \/ End({id})
        \/ End({id \in Ids : process[id] = "running"})

Spec == Init /\ [][Next]_calls
==============================================================================
