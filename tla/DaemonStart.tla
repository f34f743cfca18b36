----------------------------- MODULE DaemonStart -----------------------------
(***************************************************************************)
(* How a client comes to the user's daemon, starting one if there is none  *)
(* (cmd/vibepod: connect, runDaemon, live; internal/daemon: Serve). What   *)
(* they meet at is a path in the run directory. A daemon listens on the    *)
(* socket it bound there, and goes on doing so when the path is gone;      *)
(* whoever removes the path removes whatever is there.                     *)
(***************************************************************************)
EXTENDS FiniteSets

CONSTANTS
    Clients,
    Daemons,    \* processes: a bound on how many are started
    FaultKinds, \* "kill": a daemon may be killed; "together": a daemon is started
                \* while another one is starting or ending; "late": a client gives
                \* up on a daemon that is still starting
    None

VARIABLES
    path,    \* host.sock: the daemon that bound the socket there
    version, \* the daemon whose build the version file names
    stage,   \* where each daemon is
    client,  \* where each client is
    spawned, \* the daemon each client started
    ended    \* the daemons that were killed or told to stop

vars == <<path, version, stage, client, spawned, ended>>

Starting == {d \in Daemons : stage[d] \in {"live", "remove", "listen", "version"}}
Ending == {d \in Daemons : stage[d] = "closing"}
Alone == "together" \in FaultKinds \/ Starting \cup Ending = {}

\* The kernel takes connections from the moment the socket is listened on.
Answers(d) == d # None /\ stage[d] \in {"version", "serving"}

Begin(d) == Alone /\ stage[d] = "none" /\ stage' = [stage EXCEPT ![d] = "live"]

Go(d, step) == stage' = [stage EXCEPT ![d] = step]

-----------------------------------------------------------------------------
(* connect                                                                 *)

Connect(c) ==
    /\ client[c] = "none"
    /\ \/ /\ Answers(path)
          /\ client' = [client EXCEPT ![c] = "connected"]
          /\ UNCHANGED <<stage, spawned>>
       \/ /\ ~Answers(path)
          /\ \E d \in Daemons : Begin(d) /\ spawned' = [spawned EXCEPT ![c] = d]
          /\ client' = [client EXCEPT ![c] = "waiting"]
    /\ UNCHANGED <<path, version, ended>>

Retry(c) ==
    /\ client[c] = "waiting" /\ Answers(path)
    /\ client' = [client EXCEPT ![c] = "connected"]
    /\ UNCHANGED <<path, version, stage, spawned, ended>>

\* Five seconds; a daemon that is coming up needs less.
GiveUp(c) ==
    /\ client[c] = "waiting" /\ ~Answers(path)
    /\ stage[spawned[c]] \in {"closing", "over"} \/ "late" \in FaultKinds
    /\ client' = [client EXCEPT ![c] = "failed"]
    /\ UNCHANGED <<path, version, stage, spawned, ended>>

-----------------------------------------------------------------------------
(* runDaemon                                                               *)

\* `vibepod daemon`, by somebody who wants to see what it says.
ByHand(d) ==
    /\ Begin(d)
    /\ UNCHANGED <<path, version, client, spawned, ended>>

\* "A stale file from a crashed daemon does not block startup forever."
Live(d) ==
    /\ stage[d] = "live"
    /\ Go(d, IF Answers(path) THEN "over" ELSE "remove")
    /\ UNCHANGED <<path, version, client, spawned, ended>>

Remove(d) ==
    /\ stage[d] = "remove"
    /\ path' = None
    /\ Go(d, "listen")
    /\ UNCHANGED <<version, client, spawned, ended>>

\* A path that exists cannot be bound.
Listen(d) ==
    /\ stage[d] = "listen"
    /\ Go(d, IF path = None THEN "version" ELSE "over")
    /\ path' = IF path = None THEN d ELSE path
    /\ UNCHANGED <<version, client, spawned, ended>>

WriteVersion(d) ==
    /\ stage[d] = "version"
    /\ version' = d
    /\ Go(d, "serving")
    /\ UNCHANGED <<path, client, spawned, ended>>

\* The listener is closed, which removes the path, and Serve closes the pods.
Stop(d) ==
    /\ stage[d] = "serving" /\ Alone
    /\ path' = None
    /\ Go(d, "closing")
    /\ ended' = ended \cup {d}
    /\ UNCHANGED <<version, client, spawned>>

\* When they are closed, what runDaemon deferred: both files are removed.
Exit(d) ==
    /\ stage[d] = "closing"
    /\ path' = None /\ version' = None
    /\ Go(d, "over")
    /\ UNCHANGED <<client, spawned, ended>>

\* The files stay.
Kill(d) ==
    /\ "kill" \in FaultKinds /\ stage[d] \notin {"none", "over"}
    /\ Go(d, "over")
    /\ ended' = ended \cup {d}
    /\ UNCHANGED <<path, version, client, spawned>>

-----------------------------------------------------------------------------
Init ==
    /\ path = None /\ version = None /\ ended = {}
    /\ stage = [d \in Daemons |-> "none"]
    /\ client = [c \in Clients |-> "none"]
    /\ spawned = [c \in Clients |-> None]

Next ==
    \/ \E c \in Clients : Connect(c) \/ Retry(c) \/ GiveUp(c)
    \/ \E d \in Daemons :
          \/ ByHand(d) \/ Live(d) \/ Remove(d) \/ Listen(d) \/ WriteVersion(d)
          \/ Stop(d) \/ Exit(d) \/ Kill(d)

Spec == Init /\ [][Next]_vars

-----------------------------------------------------------------------------
TypeOK ==
    /\ path \in Daemons \cup {None} /\ version \in Daemons \cup {None}
    /\ stage \in [Daemons -> {"none", "live", "remove", "listen", "version", "serving",
                               "closing", "over"}]
    /\ client \in [Clients -> {"none", "waiting", "connected", "failed"}]
    /\ spawned \in [Clients -> Daemons \cup {None}]
    /\ ended \subseteq Daemons

\* "The vibepod user daemon: one per user" (internal/daemon/daemon.go:1): a daemon
\* that serves is the one clients find, and the build they are told is its build,
\* whatever daemons were killed before it.
ServesWhereItIsFound ==
    \A d \in Daemons : stage[d] = "serving" => path = d /\ version = d

\* "So a stale file from a crashed daemon does not block startup forever"
\* (cmd/vibepod/daemon.go:74): a client is told that its daemon did not come up only
\* of one that was killed or stopped.
StartsOverTheStale ==
    \A c \in Clients : client[c] = "failed" => spawned[c] \in ended
==============================================================================
