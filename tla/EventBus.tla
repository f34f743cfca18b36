------------------------------- MODULE EventBus -------------------------------
(***************************************************************************)
(* The events of the daemon and those who follow them                      *)
(* (internal/event/event.go, internal/daemon/stream.go). Goroutines publish*)
(* at once: the history is kept under the bus's lock, the subscribers are  *)
(* offered the event outside of it. A follower subscribes, replays the     *)
(* history and goes on with what arrives, until its client is gone.        *)
(***************************************************************************)
EXTENDS Naturals, Sequences, FiniteSets

CONSTANTS
    Events,     \* each is published once
    Followers,  \* clients of `vp log -f`
    Buffer,     \* what a channel holds: 256
    HistoryMax, \* b.max
    FaultKinds  \* "leave": a client may go while an event is being offered

VARIABLES
    recent,  \* b.recent
    subs,    \* b.subs
    ch,      \* the channel of each follower
    closed,  \* those that were closed
    pub,     \* where each event is, and who is still to be offered it
    fol,     \* where each follower is
    replay,  \* the part of the history it is still to send
    seen,    \* the events of that history, which it knows by their times
    sent,    \* what its client was sent
    missed,  \* events that found its channel full
    panicked

bus == <<recent, subs, closed>>
follower == <<fol, replay, seen, sent>>
vars == <<bus, ch, pub, follower, missed, panicked>>

Set(s) == {s[i] : i \in DOMAIN s}

-----------------------------------------------------------------------------
(* Publish                                                                 *)

\* The event enters the history, and the subscribers are copied, under the lock.
Enter(e) ==
    /\ pub[e].step = "none"
    /\ LET all == Append(recent, e)
       IN  recent' = SubSeq(all, IF Len(all) > HistoryMax THEN Len(all) - HistoryMax + 1 ELSE 1, Len(all))
    /\ pub' = [pub EXCEPT ![e].step = IF subs = {} THEN "done" ELSE "offer", ![e].to = subs]
    /\ UNCHANGED <<subs, closed, ch, follower, missed, panicked>>

Offered(e, f) ==
    pub' = [pub EXCEPT ![e].to = @ \ {f},
                       ![e].step = IF pub[e].to = {f} THEN "done" ELSE "offer"]

\* An event that finds no room is lost on that subscriber; one that finds the
\* channel closed ends the daemon.
Offer(e, f) ==
    /\ pub[e].step = "offer" /\ f \in pub[e].to
    /\ Offered(e, f)
    /\ IF f \in closed THEN panicked' = TRUE /\ UNCHANGED <<ch, missed>>
       ELSE IF Len(ch[f]) < Buffer
       THEN ch' = [ch EXCEPT ![f] = Append(@, e)] /\ UNCHANGED <<missed, panicked>>
       ELSE missed' = [missed EXCEPT ![f] = @ \cup {e}] /\ UNCHANGED <<ch, panicked>>
    /\ UNCHANGED <<bus, follower>>

-----------------------------------------------------------------------------
(* streamLog                                                               *)

\* Mutant: the history first, and then the subscription.
SubscribeLast(f) ==
    /\ \/ /\ fol[f] = "none" /\ fol' = [fol EXCEPT ![f] = "replayed"]
          /\ replay' = [replay EXCEPT ![f] = recent]
          /\ seen' = [seen EXCEPT ![f] = Set(recent)]
          /\ UNCHANGED subs
       \/ /\ fol[f] = "replayed" /\ fol' = [fol EXCEPT ![f] = "live"]
          /\ subs' = subs \cup {f} /\ UNCHANGED <<replay, seen>>
    /\ UNCHANGED <<recent, closed, ch, pub, sent, missed, panicked>>

\* "Subscribe before replaying history, so nothing falls between the two."
Subscribe(f) ==
    /\ fol[f] = "none" /\ fol' = [fol EXCEPT ![f] = "subscribed"]
    /\ subs' = subs \cup {f}
    /\ UNCHANGED <<recent, closed, ch, pub, replay, seen, sent, missed, panicked>>

History(f) ==
    /\ fol[f] = "subscribed" /\ fol' = [fol EXCEPT ![f] = "live"]
    /\ replay' = [replay EXCEPT ![f] = recent]
    /\ seen' = [seen EXCEPT ![f] = Set(recent)]
    /\ UNCHANGED <<bus, ch, pub, sent, missed, panicked>>

Replay(f) ==
    /\ fol[f] = "live" /\ replay[f] # <<>>
    /\ sent' = [sent EXCEPT ![f] = Append(@, Head(replay[f]))]
    /\ replay' = [replay EXCEPT ![f] = Tail(@)]
    /\ UNCHANGED <<bus, ch, pub, fol, seen, missed, panicked>>

Receive(f) ==
    /\ fol[f] = "live" /\ replay[f] = <<>> /\ ch[f] # <<>>
    /\ sent' = [sent EXCEPT ![f] = IF Head(ch[f]) \in seen[f] THEN @
                                   ELSE Append(@, Head(ch[f]))]
    /\ ch' = [ch EXCEPT ![f] = Tail(@)]
    /\ UNCHANGED <<bus, pub, fol, replay, seen, missed, panicked>>

\* The client is gone when something is to be sent, and streamLog returns.
Leave(f) ==
    /\ fol[f] = "live" /\ (replay[f] # <<>> \/ ch[f] # <<>>)
    /\ "leave" \in FaultKinds \/ \A e \in Events : f \notin pub[e].to
    /\ fol' = [fol EXCEPT ![f] = "gone"]
    /\ subs' = subs \ {f} /\ closed' = closed \cup {f}
    /\ UNCHANGED <<recent, ch, pub, replay, seen, sent, missed, panicked>>

-----------------------------------------------------------------------------
Init ==
    /\ recent = <<>> /\ subs = {} /\ closed = {}
    /\ ch = [f \in Followers |-> <<>>]
    /\ pub = [e \in Events |-> [step |-> "none", to |-> {}]]
    /\ fol = [f \in Followers |-> "none"] /\ replay = [f \in Followers |-> <<>>]
    /\ seen = [f \in Followers |-> {}] /\ sent = [f \in Followers |-> <<>>]
    /\ missed = [f \in Followers |-> {}]
    /\ panicked = FALSE

Publishing(e) == Enter(e) \/ \E f \in Followers : Offer(e, f)
Following(f) == Subscribe(f) \/ History(f) \/ Replay(f) \/ Receive(f) \/ Leave(f)

Next ==
    /\ ~panicked
    /\ (\E e \in Events : Publishing(e)) \/ (\E f \in Followers : Following(f))

Spec == Init /\ [][Next]_vars

-----------------------------------------------------------------------------
TypeOK ==
    /\ recent \in Seq(Events) /\ Len(recent) <= HistoryMax
    /\ subs \subseteq Followers /\ closed \subseteq Followers /\ subs \cap closed = {}
    /\ \A f \in Followers : ch[f] \in Seq(Events) /\ Len(ch[f]) <= Buffer
    /\ \A e \in Events : pub[e].step \in {"none", "offer", "done"}

Caught(f) == fol[f] = "live" /\ replay[f] = <<>> /\ ch[f] = <<>>

\* A follower that kept up was sent every event that is in the history and every
\* one since it asked, and none of them twice: "nothing falls between the two"
\* (stream.go:33).
NothingFallsBetween ==
    \A f \in Followers : Caught(f) /\ missed[f] = {} =>
        /\ \A e \in Set(recent) : f \in pub[e].to \/ e \in Set(sent[f])
        /\ \A i, j \in DOMAIN sent[f] : sent[f][i] = sent[f][j] => i = j

\* Whoever leaves, the daemon goes on: a channel is not closed on a publisher
\* that still has it (event.go:93, 104).
NobodySendsOnClosed == ~panicked
=============================================================================
