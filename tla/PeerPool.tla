------------------------------ MODULE PeerPool ------------------------------
(***************************************************************************)
(* The pool of configured peers (internal/peers) with its Prometheus       *)
(* observer.  Every round of pings asks all peers in parallel: the round   *)
(* of Run at each interval, and one for each POST /peers/refresh.  Rounds  *)
(* overlap, and each stores its results as they arrive.                    *)
(***************************************************************************)
CONSTANTS Peers,      \* the configured peers
          Run,        \* the goroutine of Pool.Run
          Refreshers  \* the requests to refresh that may be under way at once

ASSUME PoolAssumption == Run \notin Refreshers

VARIABLES
    up,        \* the peers that answer, with a name and within the timeout
    ping,      \* per round and peer: where pingOne is
    reachable, \* the peers whose status says so
    gauge      \* the peers whose mcsm_peer_reachable is 1

vars == <<up, ping, reachable, gauge>>

Rounds == Refreshers \cup {Run}

\* NewPool: nobody has been reached yet, and no gauge is set.
Init ==
    /\ up \in SUBSET Peers
    /\ ping = [q \in Rounds |-> [p \in Peers |-> "off"]]
    /\ reachable = {}
    /\ gauge = {}

-----------------------------------------------------------------------------
PingAt(q, p, state) == ping' = [ping EXCEPT ![q][p] = state]

\* PingAll, which waits for all its pings.  Run calls it again and again.
PingAll(q) ==
    /\ \A p \in Peers : ping[q][p] = "off"
    /\ ping' = [ping EXCEPT ![q] = [p \in Peers |-> "ask"]]
    /\ UNCHANGED <<up, reachable, gauge>>

\* Client.Ping succeeds if the peer answers...
Pong(q, p) ==
    /\ ping[q][p] = "ask"
    /\ p \in up
    /\ PingAt(q, p, "good")
    /\ UNCHANGED <<up, reachable, gauge>>

\* ...and fails if it does not, or if the client that asked for the refresh
\* has gone, whose request context the ping runs under.
PingFails(q, p) ==
    /\ ping[q][p] = "ask"
    /\ p \notin up \/ q # Run
    /\ PingAt(q, p, "bad")
    /\ UNCHANGED <<up, reachable, gauge>>

StoreFailure_ErrorOnly(q, p) ==
    /\ ping[q][p] = "bad"
    /\ PingAt(q, p, "tellBad")
    /\ UNCHANGED <<up, reachable, gauge>>

\* The result is stored under the mutex, whatever was stored since the answer...
StoreSuccess(q, p) ==
    /\ ping[q][p] = "good"
    /\ reachable' = reachable \cup {p}
    /\ PingAt(q, p, "tellGood")
    /\ UNCHANGED <<up, gauge>>

StoreFailure(q, p) ==
    /\ ping[q][p] = "bad"
    /\ reachable' = reachable \ {p}
    /\ PingAt(q, p, "tellBad")
    /\ UNCHANGED <<up, gauge>>

ObserveSuccess_Silent(q, p) ==
    /\ ping[q][p] = "tellGood"
    /\ PingAt(q, p, "off")
    /\ UNCHANGED <<up, reachable, gauge>>

\* ...and the observer is told outside of it.
ObserveSuccess(q, p) ==
    /\ ping[q][p] = "tellGood"
    /\ gauge' = gauge \cup {p}
    /\ PingAt(q, p, "off")
    /\ UNCHANGED <<up, reachable>>

ObserveFailure(q, p) ==
    /\ ping[q][p] = "tellBad"
    /\ gauge' = gauge \ {p}
    /\ PingAt(q, p, "off")
    /\ UNCHANGED <<up, reachable>>

PingOne(q, p) ==
    \/ Pong(q, p) \/ PingFails(q, p)
    \/ StoreSuccess(q, p) \/ StoreFailure(q, p)
    \/ ObserveSuccess(q, p) \/ ObserveFailure(q, p)

\* A peer or the network on the way to it fails or recovers.
LinkChanges(p) ==
    /\ up' = IF p \in up THEN up \ {p} ELSE up \cup {p}
    /\ UNCHANGED <<ping, reachable, gauge>>

Next ==
    \/ \E q \in Rounds : PingAll(q) \/ \E p \in Peers : PingOne(q, p)
    \/ \E p \in Peers : LinkChanges(p)

Spec == Init /\ [][Next]_vars

\* Run's ticker ticks and each ping is over within its timeout; nobody has to
\* ask for a refresh.
Fairness ==
    /\ WF_vars(PingAll(Run))
    /\ \A q \in Rounds, p \in Peers : WF_vars(PingOne(q, p))

FairSpec == Spec /\ Fairness

-----------------------------------------------------------------------------
(***************************************************************************)
(* Properties.                                                             *)
(***************************************************************************)
\* A peer that stays up is shown as reachable again and again, in the status and
\* in the gauge, however many refreshes are abandoned by their clients...
UpPeersAreFound ==
    \A p \in Peers : <>[](p \in up) => /\ []<>(p \in reachable)
                                       /\ []<>(p \in gauge)

\* ...and one that stays down ends up unreachable in both, whatever results of
\* overlapping rounds arrive late.
DownPeersAreMissed ==
    \A p \in Peers : <>[](p \notin up) => <>[](p \notin reachable \cup gauge)
=============================================================================
