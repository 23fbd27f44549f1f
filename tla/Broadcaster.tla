----------------------------- MODULE Broadcaster -----------------------------
(***************************************************************************)
(* logtail.Broadcaster and the WebSocket handlers that read from it        *)
(* (handleServerLogsStream).  Publish visits the subscribers one by one    *)
(* under the read lock; Subscribe, Unsubscribe and Close take the write    *)
(* lock.  An entry is the number of its emission; module Tailer emits.     *)
(***************************************************************************)
EXTENDS Naturals, Sequences

CONSTANTS Clients,  \* the handlers, each with one subscription
          Buf,      \* the capacity of a subscriber's channel
          HistoryN  \* the capacity of the tailer's history

ASSUME BroadcasterAssumption == Buf \in Nat \ {0} /\ HistoryN \in Nat \ {0}

VARIABLES
    history,     \* t.history
    published,   \* the last entry Publish was called with
    visiting,    \* the subscribers a running Publish has still to visit
    subscribers, \* b.subscribers
    chan,        \* per client: what is in its channel
    closed,      \* the clients whose channel is closed
    client,      \* per client: where its handler is
    last,        \* per client: the newest entry it has written to its peer
    due,         \* per client: the entry it is to receive next
    lost         \* the clients whose channel was full for some entry

bcastVars == <<history, published, visiting, subscribers, chan, closed,
               client, last, due, lost>>

BcastTypeOK ==
    /\ history \in Seq(Nat)
    /\ Len(history) <= HistoryN
    /\ published \in Nat
    /\ visiting \subseteq subscribers
    /\ subscribers \subseteq Clients
    /\ chan \in [Clients -> Seq(1 .. published)]
    /\ \A c \in Clients : Len(chan[c]) <= Buf
    /\ closed \subseteq Clients
    /\ client \in [Clients -> {"new", "filled", "live", "leaving", "done"}]
    /\ last \in [Clients -> Nat]
    /\ due \in [Clients -> Nat]
    /\ lost \subseteq Clients

BcastInit ==
    /\ history = <<>>
    /\ published = 0
    /\ visiting = {}
    /\ subscribers = {}
    /\ chan = [c \in Clients |-> <<>>]
    /\ closed = {}
    /\ client = [c \in Clients |-> "new"]
    /\ last = [c \in Clients |-> 0]
    /\ due = [c \in Clients |-> 0]
    /\ lost = {}

-----------------------------------------------------------------------------
Push_OffByOne(e) ==
    /\ history' = Append(IF Len(history) > HistoryN THEN Tail(history) ELSE history, e)
    /\ UNCHANGED <<published, visiting, subscribers, chan, closed,
                   client, last, due, lost>>

\* The ring of emit: the oldest entry makes room.
Push(e) ==
    /\ history' = Append(IF Len(history) = HistoryN THEN Tail(history) ELSE history, e)
    /\ UNCHANGED <<published, visiting, subscribers, chan, closed,
                   client, last, due, lost>>

\* Publish takes the read lock, sends to each subscriber without blocking,
\* and releases the lock after the last.
PublishBegin(e) ==
    /\ visiting = {}
    /\ published' = e
    /\ visiting' = subscribers
    /\ UNCHANGED <<history, subscribers, chan, closed, client, last, due, lost>>

PublishTo_Blind(c) ==
    /\ c \in visiting
    /\ visiting' = visiting \ {c}
    /\ chan' = [chan EXCEPT ![c] = IF chan[c] = <<>> THEN <<published>> ELSE @]
    /\ UNCHANGED <<history, published, subscribers, closed, client, last, due, lost>>

PublishTo(c) ==
    /\ c \in visiting
    /\ visiting' = visiting \ {c}
    /\ IF Len(chan[c]) < Buf
       THEN chan' = [chan EXCEPT ![c] = Append(@, published)] /\ lost' = lost
       ELSE chan' = chan /\ lost' = lost \cup {c}
    /\ UNCHANGED <<history, published, subscribers, closed, client, last, due>>

\* Close ends every subscription there is.
CloseAll ==
    /\ visiting = {}
    /\ closed' = closed \cup subscribers
    /\ subscribers' = {}
    /\ UNCHANGED <<history, published, visiting, chan, client, last, due, lost>>

-----------------------------------------------------------------------------
\* The handler writes the n most recent entries (none by default)...
Backfill(c) ==
    /\ client[c] = "new"
    /\ \E n \in 0 .. Len(history) :
         last' = [last EXCEPT ![c] = IF n = 0 THEN 0 ELSE history[Len(history)]]
    /\ client' = [client EXCEPT ![c] = "filled"]
    /\ UNCHANGED <<history, published, visiting, subscribers, chan, closed, due, lost>>

\* ...and only then subscribes.
Subscribe(c) ==
    /\ client[c] = "filled"
    /\ visiting = {}
    /\ subscribers' = subscribers \cup {c}
    /\ client' = [client EXCEPT ![c] = "live"]
    /\ due' = [due EXCEPT ![c] = published + 1]
    /\ UNCHANGED <<history, published, visiting, chan, closed, last, lost>>

Receive(c) ==
    /\ client[c] = "live"
    /\ chan[c] # <<>>
    /\ last' = [last EXCEPT ![c] = Head(chan[c])]
    /\ due' = [due EXCEPT ![c] = Head(chan[c]) + 1]
    /\ chan' = [chan EXCEPT ![c] = Tail(@)]
    /\ UNCHANGED <<history, published, visiting, subscribers, closed, client, lost>>

\* The channel is closed and drained, or the peer is gone.
Leave(c) ==
    /\ client[c] = "live"
    /\ client' = [client EXCEPT ![c] = "leaving"]
    /\ UNCHANGED <<history, published, visiting, subscribers, chan, closed, last, due, lost>>

\* The second result of the receive is ignored.
SeeClosed_Ignored(c) == c \in closed /\ chan[c] = <<>> /\ UNCHANGED bcastVars

SeeClosed(c) == c \in closed /\ chan[c] = <<>> /\ Leave(c)

Unsubscribe_NoLock(c) ==
    /\ client[c] = "leaving"
    /\ closed' = closed \cup {c}
    /\ subscribers' = subscribers \ {c}
    /\ client' = [client EXCEPT ![c] = "done"]
    /\ UNCHANGED <<history, published, visiting, chan, last, due, lost>>

\* The deferred Unsubscribe; what Close has closed is not in the map any more.
Unsubscribe(c) ==
    /\ client[c] = "leaving"
    /\ visiting = {}
    /\ closed' = closed \cup {c}
    /\ subscribers' = subscribers \ {c}
    /\ client' = [client EXCEPT ![c] = "done"]
    /\ UNCHANGED <<history, published, visiting, chan, last, due, lost>>

ClientStep(c) ==
    Backfill(c) \/ Subscribe(c) \/ Receive(c) \/ SeeClosed(c) \/ Unsubscribe(c)
=============================================================================
