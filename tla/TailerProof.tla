----------------------------- MODULE TailerProof -----------------------------
(***************************************************************************)
(* Proofs about modules Tailer and Broadcaster, for any clients, files and *)
(* capacities: no Publish on a closed channel, complete streams, and no    *)
(* line that a waiting tailer is not told of.                              *)
(***************************************************************************)
EXTENDS Tailer, TLAPS, SequenceTheorems

USE BroadcasterAssumption, TailerAssumption

-----------------------------------------------------------------------------
(***************************************************************************)
(* The invariant of the broadcaster.                                       *)
(***************************************************************************)
\* BcastTypeOK, without what the entries in the channels are.
BTyped ==
    /\ history \in Seq(Nat) /\ Len(history) <= HistoryN
    /\ published \in Nat /\ emitted \in Nat
    /\ visiting \subseteq subscribers /\ subscribers \subseteq Clients
    /\ chan \in [Clients -> Seq(Nat)]
    /\ \A c \in Clients : Len(chan[c]) <= Buf
    /\ closed \subseteq Clients
    /\ client \in [Clients -> {"new", "filled", "live", "leaving", "done"}]
    /\ last \in [Clients -> Nat]
    /\ due \in [Clients -> Nat]
    /\ lost \subseteq Clients

\* A channel that Unsubscribe or Close has closed is not in the map, and one
\* that has not come to be is neither.
ClosedIsGone ==
    /\ subscribers \cap closed = {}
    /\ \A c \in Clients :
         client[c] \in {"new", "filled"} => c \notin closed \cup subscribers /\ chan[c] = <<>>

\* emit pushes an entry and publishes it before it pushes the next.
Pace ==
    /\ published <= emitted /\ emitted <= published + 1
    /\ visiting # {} => published = emitted /\ published > 0

\* The last entry that was sent to c, if c was there.
Sent(c) == IF c \in visiting THEN published - 1 ELSE published

\* Nobody has seen an entry that was not emitted, or sees an old one again.
Forward ==
    /\ \A i \in 1 .. Len(history) : history[i] <= emitted
    /\ \A c \in Clients :
         /\ last[c] <= emitted
         /\ \A i \in 1 .. Len(chan[c]) :
              chan[c][i] > 0 /\ chan[c][i] <= Sent(c) /\ last[c] <= chan[c][i]
         /\ \A i, j \in 1 .. Len(chan[c]) : i < j => chan[c][i] < chan[c][j]

\* c has in its channel all that was sent since what it received last.
Keeps(c) ==
    /\ due[c] <= Sent(c) + 1
    /\ Len(chan[c]) = Sent(c) + 1 - due[c]
    /\ \A i \in 1 .. Len(chan[c]) : chan[c][i] = due[c] + i - 1

BInv == BTyped /\ ClosedIsGone /\ Pace /\ Forward /\ \A c \in subscribers \ lost : Keeps(c)

bVars == <<bcastVars, emitted>>

LEMMA InitBcast == Init => BInv
  <1> SUFFICES ASSUME Init PROVE BInv
    OBVIOUS
  <1>1. /\ history = <<>> /\ published = 0 /\ emitted = 0 /\ visiting = {} /\ subscribers = {}
        /\ chan = [c \in Clients |-> <<>>] /\ closed = {} /\ lost = {}
        /\ client = [c \in Clients |-> "new"] /\ last = [c \in Clients |-> 0]
        /\ due = [c \in Clients |-> 0]
    BY DEF Init, BcastInit
  <1>2. BTyped
    BY <1>1 DEF BTyped
  <1>3. ClosedIsGone /\ Pace
    BY <1>1 DEF ClosedIsGone, Pace
  <1>4. Forward
    BY <1>1 DEF Forward
  <1> QED
    BY <1>1, <1>2, <1>3, <1>4 DEF BInv

-----------------------------------------------------------------------------
(***************************************************************************)
(* One lemma per operation.                                                *)
(***************************************************************************)
LEMMA EmitKeeps ==
    ASSUME BInv, Emit
    PROVE  BInv'
  <1>1. /\ visiting = {} /\ published = emitted /\ emitted' = emitted + 1
        /\ UNCHANGED <<published, visiting, subscribers, chan, closed, client, last, due, lost>>
        /\ history' = Append(IF Len(history) = HistoryN THEN Tail(history) ELSE history,
                             emitted + 1)
    BY DEF Emit, Idle, Push
  <1> DEFINE kept == IF Len(history) = HistoryN THEN Tail(history) ELSE history
  <1>2. /\ kept \in Seq(Nat) /\ Len(kept) < HistoryN
        /\ \A i \in 1 .. Len(kept) : kept[i] <= emitted
    <2>1. CASE Len(history) = HistoryN
      <3>1. history \in Seq(Nat) /\ history # <<>>
        BY <2>1 DEF BInv, BTyped
      <3>2. /\ Tail(history) \in Seq(Nat) /\ Len(Tail(history)) = Len(history) - 1
            /\ \A i \in 1 .. Len(Tail(history)) : Tail(history)[i] = history[i + 1]
        BY <3>1, HeadTailProperties
      <3> QED
        BY <2>1, <3>2 DEF BInv, Forward
    <2>2. CASE Len(history) # HistoryN
      BY <2>2 DEF BInv, BTyped, Forward
    <2> QED
      BY <2>1, <2>2
  <1> HIDE DEF kept
  <1>3. /\ history' \in Seq(Nat) /\ Len(history') <= HistoryN
        /\ \A i \in 1 .. Len(history') : history'[i] <= emitted'
    BY <1>1, <1>2, AppendProperties DEF kept, BInv, BTyped
  <1>4. BTyped' /\ ClosedIsGone' /\ Pace'
    BY <1>1, <1>3 DEF BInv, BTyped, ClosedIsGone, Pace
  <1>5. Forward'
    <2>1. emitted \in Nat /\ last \in [Clients -> Nat] /\ Forward
      BY DEF BInv, BTyped
    <2>2. ASSUME NEW c \in Clients
          PROVE  /\ last'[c] <= emitted'
                 /\ \A i \in 1 .. Len(chan'[c]) :
                      chan'[c][i] > 0 /\ chan'[c][i] <= Sent(c)' /\ last'[c] <= chan'[c][i]
                 /\ \A i, j \in 1 .. Len(chan'[c]) : i < j => chan'[c][i] < chan'[c][j]
      <3>1. last[c] <= emitted /\ last[c] <= emitted + 1
        BY <2>1 DEF Forward
      <3>2. Sent(c)' = Sent(c)
        BY <1>1 DEF Sent
      <3> QED
        BY <1>1, <2>1, <3>1, <3>2 DEF Forward
    <2> QED
      BY <1>3, <2>2 DEF Forward
  <1> QED
    BY <1>1, <1>4, <1>5 DEF BInv, Keeps, Sent

LEMMA PublishKeeps ==
    ASSUME BInv, TailPublish
    PROVE  BInv'
  <1>1. /\ visiting = {} /\ published < emitted /\ published' = emitted /\ visiting' = subscribers
        /\ UNCHANGED <<history, subscribers, chan, closed, client, last, due, lost, emitted>>
    BY DEF TailPublish, PublishBegin, tailVars
  <1>2. published' = published + 1
    BY <1>1 DEF BInv, BTyped, Pace
  <1>3. \A c \in Clients : Sent(c)' >= Sent(c) /\ (c \in subscribers => Sent(c)' = Sent(c))
    BY <1>1, <1>2 DEF Sent, BInv, BTyped
  <1>4. \A c \in Clients : Sent(c) \in Int /\ Sent(c)' \in Int
    BY <1>1 DEF Sent, BInv, BTyped
  <1>5. BTyped' /\ ClosedIsGone' /\ Pace'
    BY <1>1, <1>2 DEF BInv, BTyped, ClosedIsGone, Pace
  <1>6. Forward'
    <2> SUFFICES ASSUME NEW c \in Clients, NEW i \in 1 .. Len(chan[c])
                 PROVE  chan[c][i] <= Sent(c)'
      BY <1>1 DEF BInv, Forward
    <2> QED
      BY <1>3, <1>4 DEF BInv, BTyped, Forward
  <1>7. \A c \in subscribers' \ lost' : Keeps(c)'
    BY <1>1, <1>3 DEF BInv, BTyped, Keeps
  <1> QED
    BY <1>5, <1>6, <1>7 DEF BInv

LEMMA SendKeeps ==
    ASSUME BInv, NEW c \in Clients, TailSend(c)
    PROVE  BInv'
  <1>1. /\ c \in visiting /\ visiting' = visiting \ {c}
        /\ UNCHANGED <<history, published, subscribers, closed, client, last, due, emitted>>
        /\ IF Len(chan[c]) < Buf
           THEN chan' = [chan EXCEPT ![c] = Append(@, published)] /\ lost' = lost
           ELSE chan' = chan /\ lost' = lost \cup {c}
    BY DEF TailSend, PublishTo, tailVars
  <1>2. published = emitted /\ published > 0 /\ client[c] \notin {"new", "filled"}
    BY <1>1 DEF BInv, Pace, ClosedIsGone, BTyped
  <1>3. /\ Sent(c) = published - 1 /\ Sent(c)' = published
        /\ \A d \in Clients \ {c} : Sent(d)' = Sent(d)
    BY <1>1 DEF Sent
  <1>4. CASE Len(chan[c]) < Buf
    <2>0. /\ chan[c] \in Seq(Nat) /\ published \in Nat /\ Len(chan[c]) \in Nat /\ Buf \in Nat
          /\ chan \in [Clients -> Seq(Nat)]
          /\ chan' = [chan EXCEPT ![c] = Append(chan[c], published)] /\ lost' = lost
      BY <1>1, <1>4, LenProperties DEF BInv, BTyped
    <2> DEFINE longer == Append(chan[c], published)
    <2>a. /\ longer \in Seq(Nat) /\ Len(longer) = Len(chan[c]) + 1
          /\ \A i \in 1 .. Len(chan[c]) : longer[i] = chan[c][i]
          /\ longer[Len(chan[c]) + 1] = published
      BY <2>0, AppendProperties
    <2>b. chan' = [chan EXCEPT ![c] = longer]
      BY <2>0
    <2> HIDE DEF longer
    <2>1. /\ chan' \in [Clients -> Seq(Nat)] /\ chan'[c] \in Seq(Nat)
          /\ Len(chan'[c]) = Len(chan[c]) + 1
          /\ \A i \in 1 .. Len(chan[c]) : chan'[c][i] = chan[c][i]
          /\ chan'[c][Len(chan[c]) + 1] = published
      BY <2>0, <2>a, <2>b
    <2>2. \A d \in Clients \ {c} : chan'[d] = chan[d]
      BY <1>1, <1>4 DEF BInv, BTyped
    <2>3. BTyped'
      <3>1. \A d \in Clients : Len(chan'[d]) <= Buf
        BY <1>4, <2>0, <2>1, <2>2 DEF BInv, BTyped
      <3> QED
        BY <1>1, <2>0, <3>1 DEF BInv, BTyped
    <2>4. ClosedIsGone' /\ Pace'
      BY <1>1, <1>2, <2>2 DEF BInv, ClosedIsGone, Pace
    <2>5. Forward'
      <3> SUFFICES ASSUME NEW d \in Clients
                   PROVE  /\ \A i \in 1 .. Len(chan'[d]) :
                               chan'[d][i] > 0 /\ chan'[d][i] <= Sent(d)' /\ last[d] <= chan'[d][i]
                          /\ \A i, j \in 1 .. Len(chan'[d]) : i < j => chan'[d][i] < chan'[d][j]
        BY <1>1 DEF BInv, Forward
      <3>1. CASE d # c
        BY <1>3, <2>2, <3>1 DEF BInv, Forward
      <3>2. CASE d = c
        <4>1. /\ Len(chan[c]) \in Nat /\ last[c] <= published /\ last[c] \in Nat
              /\ \A i \in 1 .. Len(chan[c]) : chan[c][i] \in Nat
          BY <1>2, ElementOfSeq DEF BInv, BTyped, Forward
        <4>2. \A i \in 1 .. Len(chan[c]) : chan[c][i] > 0 /\ chan[c][i] < published
                                           /\ last[c] <= chan[c][i]
          BY <1>3, <4>1 DEF BInv, BTyped, Forward
        <4>3. \A i, j \in 1 .. Len(chan[c]) : i < j => chan[c][i] < chan[c][j]
          BY DEF BInv, Forward
        <4>4. \A i \in 1 .. Len(chan'[c]) : i \in 1 .. Len(chan[c]) \/ i = Len(chan[c]) + 1
          BY <2>0, <2>1
        <4>5. \A i \in 1 .. Len(chan'[c]) :
                chan'[c][i] > 0 /\ chan'[c][i] <= published /\ last[c] <= chan'[c][i]
          <5> SUFFICES ASSUME NEW i \in 1 .. Len(chan'[c])
                       PROVE  chan'[c][i] > 0 /\ chan'[c][i] <= published
                              /\ last[c] <= chan'[c][i]
            OBVIOUS
          <5>1. CASE i \in 1 .. Len(chan[c])
            BY <2>0, <2>1, <4>1, <4>2, <5>1
          <5>2. CASE i = Len(chan[c]) + 1
            BY <1>2, <2>0, <2>1, <4>1, <5>2
          <5> QED
            BY <4>4, <5>1, <5>2
        <4>6. \A i, j \in 1 .. Len(chan'[c]) : i < j => chan'[c][i] < chan'[c][j]
          <5> SUFFICES ASSUME NEW i \in 1 .. Len(chan'[c]), NEW j \in 1 .. Len(chan'[c]), i < j
                       PROVE  chan'[c][i] < chan'[c][j]
            OBVIOUS
          <5>1. i \in 1 .. Len(chan[c])
            BY <2>0, <2>1
          <5>2. CASE j \in 1 .. Len(chan[c])
            BY <2>1, <4>3, <5>1, <5>2
          <5>3. CASE j = Len(chan[c]) + 1
            BY <2>1, <4>2, <5>1, <5>3
          <5> QED
            BY <4>4, <5>2, <5>3
        <4> QED
          BY <1>3, <3>2, <4>5, <4>6
      <3> QED
        BY <3>1, <3>2
    <2>6. \A d \in subscribers' \ lost' : Keeps(d)'
      <3> SUFFICES ASSUME NEW d \in subscribers \ lost PROVE Keeps(d)'
        BY <1>1, <1>4
      <3>1. CASE d # c
        BY <1>1, <1>3, <2>2, <3>1 DEF BInv, BTyped, Keeps
      <3>2. CASE d = c
        <4>1. /\ due[c] \in Nat /\ due[c] <= published
              /\ Len(chan[c]) = published - due[c]
              /\ \A i \in 1 .. Len(chan[c]) : chan[c][i] = due[c] + i - 1
          BY <1>3, <2>0, <3>2 DEF BInv, BTyped, Keeps
        <4>2. Len(chan'[c]) = published + 1 - due[c]
          BY <2>0, <2>1, <4>1
        <4>3. \A i \in 1 .. Len(chan'[c]) : chan'[c][i] = due[c] + i - 1
          <5> SUFFICES ASSUME NEW i \in 1 .. Len(chan'[c]) PROVE chan'[c][i] = due[c] + i - 1
            OBVIOUS
          <5>1. CASE i \in 1 .. Len(chan[c])
            BY <2>1, <4>1, <5>1
          <5>2. CASE i = Len(chan[c]) + 1
            BY <2>0, <2>1, <4>1, <5>2
          <5> QED
            BY <2>0, <2>1, <5>1, <5>2
        <4>4. Sent(d)' = published /\ due'[d] = due[c] /\ published \in Nat
          BY <1>1, <1>3, <2>0, <3>2 DEF Sent
        <4> QED
          BY <3>2, <4>1, <4>2, <4>3, <4>4 DEF Keeps
      <3> QED
        BY <3>1, <3>2
    <2> QED
      BY <2>3, <2>4, <2>5, <2>6 DEF BInv
  <1>5. CASE ~(Len(chan[c]) < Buf)
    <2>1. chan' = chan /\ lost' = lost \cup {c}
      BY <1>1, <1>5
    <2>2. BTyped' /\ ClosedIsGone' /\ Pace'
      BY <1>1, <1>2, <2>1 DEF BInv, BTyped, ClosedIsGone, Pace
    <2>3. Forward'
      <3> SUFFICES ASSUME NEW d \in Clients, NEW i \in 1 .. Len(chan[d])
                   PROVE  chan[d][i] <= Sent(d)'
        BY <1>1, <2>1 DEF BInv, Forward
      <3>1. chan[d][i] \in Nat /\ published \in Nat
        BY ElementOfSeq DEF BInv, BTyped
      <3> QED
        BY <1>3, <3>1 DEF BInv, Forward
    <2>4. \A d \in subscribers' \ lost' : Keeps(d)'
      BY <1>1, <1>3, <2>1 DEF BInv, BTyped, Keeps
    <2> QED
      BY <2>2, <2>3, <2>4 DEF BInv
  <1> QED
    BY <1>4, <1>5

LEMMA CloseKeeps ==
    ASSUME BInv, RunEnds
    PROVE  BInv'
  <1>1. /\ visiting = {} /\ closed' = closed \cup subscribers /\ subscribers' = {}
        /\ UNCHANGED <<history, published, visiting, chan, client, last, due, lost, emitted>>
    BY DEF RunEnds, CloseAll
  <1>2. BTyped' /\ ClosedIsGone' /\ Pace'
    BY <1>1 DEF BInv, BTyped, ClosedIsGone, Pace
  <1>3. Forward'
    BY <1>1 DEF BInv, Forward, Sent
  <1> QED
    BY <1>1, <1>2, <1>3 DEF BInv

LEMMA ClientKeeps ==
    ASSUME BInv, NEW c \in Clients, Handler(c) \/ PeerGone(c)
    PROVE  BInv'
  <1>0. /\ UNCHANGED <<emitted, history, published, visiting>>
        /\ ClientStep(c) \/ Leave(c)
    BY DEF Handler, PeerGone, tailVars, ClientStep, Backfill, Subscribe, Receive, SeeClosed,
           Leave, Unsubscribe
  <1>1. UNCHANGED visiting => \A d \in Clients : Sent(d)' = Sent(d)
    BY <1>0 DEF Sent
  <1>2. CASE Backfill(c)
    <2>1. /\ client[c] = "new" /\ client' = [client EXCEPT ![c] = "filled"]
          /\ UNCHANGED <<subscribers, chan, closed, due, lost>>
      BY <1>2 DEF Backfill
    <2>2. PICK n \in 0 .. Len(history) :
            last' = [last EXCEPT ![c] = IF n = 0 THEN 0 ELSE history[Len(history)]]
      BY <1>2 DEF Backfill
    <2> DEFINE e == IF n = 0 THEN 0 ELSE history[Len(history)]
    <2>3. e \in Nat /\ e <= emitted
      <3>1. CASE n = 0
        BY <3>1 DEF BInv, BTyped
      <3>2. CASE n # 0
        <4>1. history \in Seq(Nat) /\ Len(history) \in Nat
          BY LenProperties DEF BInv, BTyped
        <4>2. Len(history) \in 1 .. Len(history)
          BY <3>2, <4>1
        <4> QED
          BY <3>2, <4>1, <4>2, ElementOfSeq DEF BInv, Forward
      <3> QED
        BY <3>1, <3>2
    <2>4. last' = [last EXCEPT ![c] = e]
      BY <2>2
    <2> HIDE DEF e
    <2>5. chan[c] = <<>>
      BY <2>1 DEF BInv, ClosedIsGone
    <2>6. BTyped' /\ ClosedIsGone' /\ Pace'
      BY <1>0, <2>1, <2>3, <2>4, <2>5 DEF BInv, BTyped, ClosedIsGone, Pace
    <2>7. Forward'
      <3>1. Forward /\ last \in [Clients -> Nat]
        BY DEF BInv, BTyped
      <3>2. \A d \in Clients : last'[d] <= emitted /\ (d # c => last'[d] = last[d])
        BY <2>3, <2>4, <3>1 DEF Forward
      <3>3. ASSUME NEW d \in Clients, NEW i \in 1 .. Len(chan[d]) PROVE d # c
        BY <2>5, <3>3
      <3> QED
        BY <1>0, <1>1, <2>1, <3>1, <3>2, <3>3 DEF Forward
    <2>8. \A d \in subscribers' \ lost' : Keeps(d)'
      BY <1>0, <1>1, <2>1 DEF BInv, BTyped, Keeps
    <2> QED
      BY <2>6, <2>7, <2>8 DEF BInv
  <1>3. CASE Subscribe(c)
    <2>1. /\ client[c] = "filled" /\ visiting = {} /\ subscribers' = subscribers \cup {c}
          /\ client' = [client EXCEPT ![c] = "live"]
          /\ due' = [due EXCEPT ![c] = published + 1]
          /\ UNCHANGED <<chan, closed, last, lost>>
      BY <1>3 DEF Subscribe
    <2>2. chan[c] = <<>> /\ c \notin closed
      BY <2>1 DEF BInv, ClosedIsGone
    <2>3. BTyped' /\ ClosedIsGone' /\ Pace'
      BY <1>0, <2>1, <2>2 DEF BInv, BTyped, ClosedIsGone, Pace
    <2>4. Forward'
      BY <1>0, <1>1, <2>1 DEF BInv, Forward
    <2>5. Keeps(c)'
      BY <1>0, <2>1, <2>2 DEF Keeps, Sent, BInv, BTyped
    <2>6. ASSUME NEW d \in subscribers \ lost, d # c PROVE Keeps(d)'
      <3>1. Keeps(d) /\ d \in Clients /\ due'[d] = due[d]
        BY <2>1, <2>6 DEF BInv, BTyped
      <3> QED
        BY <1>0, <1>1, <2>1, <3>1 DEF Keeps
    <2> QED
      BY <2>1, <2>3, <2>4, <2>5, <2>6 DEF BInv
  <1>4. CASE Receive(c)
    <2>1. /\ client[c] = "live" /\ chan[c] # <<>>
          /\ last' = [last EXCEPT ![c] = Head(chan[c])]
          /\ due' = [due EXCEPT ![c] = Head(chan[c]) + 1]
          /\ chan' = [chan EXCEPT ![c] = Tail(chan[c])]
          /\ UNCHANGED <<subscribers, closed, client, lost>>
      BY <1>4 DEF Receive
    <2>2. chan[c] \in Seq(Nat) /\ Len(chan[c]) \in Nat \ {0} /\ Len(chan[c]) <= Buf
      BY <2>1, EmptySeq DEF BInv, BTyped
    <2> DEFINE h == Head(chan[c])
               t == Tail(chan[c])
    <2>3. /\ h \in Nat /\ h = chan[c][1] /\ t \in Seq(Nat) /\ Len(t) = Len(chan[c]) - 1
          /\ \A i \in 1 .. Len(t) : t[i] = chan[c][i + 1]
      BY <2>1, <2>2, HeadTailProperties
    <2>4. /\ last' = [last EXCEPT ![c] = h] /\ due' = [due EXCEPT ![c] = h + 1]
          /\ chan' = [chan EXCEPT ![c] = t]
      BY <2>1
    <2> HIDE DEF h, t
    <2>5. \A i \in 1 .. Len(t) : i \in 1 .. Len(chan[c]) /\ i + 1 \in 1 .. Len(chan[c])
      BY <2>2, <2>3
    <2>6. \A i \in 1 .. Len(chan[c]) : chan[c][i] \in Nat
      BY <2>2, ElementOfSeq
    <2>7. h <= emitted
      <3>1. published \in Nat /\ emitted \in Nat /\ published <= emitted
        BY DEF BInv, BTyped, Pace
      <3>2. Sent(c) \in Int /\ Sent(c) <= published
        BY <3>1 DEF Sent
      <3>3. 1 \in 1 .. Len(chan[c])
        BY <2>2
      <3>4. h <= Sent(c)
        BY <2>3, <3>3 DEF BInv, Forward
      <3> QED
        BY <2>3, <3>1, <3>2, <3>4
    <2>8. BTyped' /\ ClosedIsGone' /\ Pace'
      <3>1. BTyped /\ ClosedIsGone /\ Pace
        BY DEF BInv
      <3>2. chan' \in [Clients -> Seq(Nat)] /\ last' \in [Clients -> Nat]
            /\ due' \in [Clients -> Nat]
        <4>1. t \in Seq(Nat) /\ h \in Nat /\ h + 1 \in Nat
          BY <2>3
        <4>2. /\ chan \in [Clients -> Seq(Nat)] /\ last \in [Clients -> Nat]
              /\ due \in [Clients -> Nat]
          BY <3>1, Zenon DEF BTyped
        <4> QED
          BY <2>4, <4>1, <4>2
      <3>3. \A d \in Clients : Len(chan'[d]) <= Buf
        BY <2>2, <2>3, <2>4, <3>1 DEF BTyped
      <3>4. BTyped'
        BY <1>0, <2>1, <3>1, <3>2, <3>3 DEF BTyped
      <3>5. ClosedIsGone'
        BY <1>0, <2>1, <2>4, <3>1 DEF ClosedIsGone, BTyped
      <3>6. Pace'
        BY <1>0, <2>1, <3>1 DEF Pace
      <3> QED
        BY <3>4, <3>5, <3>6
    <2>9. Forward'
      <3>0. /\ \A i \in 1 .. Len(chan[c]) : chan[c][i] > 0 /\ chan[c][i] <= Sent(c)
            /\ \A i, j \in 1 .. Len(chan[c]) : i < j => chan[c][i] < chan[c][j]
        BY DEF BInv, Forward
      <3>1. \A i \in 1 .. Len(t) : t[i] > 0 /\ t[i] <= Sent(c) /\ h <= t[i]
        <4> SUFFICES ASSUME NEW i \in 1 .. Len(t)
                     PROVE  t[i] > 0 /\ t[i] <= Sent(c) /\ h <= t[i]
          OBVIOUS
        <4>1. 1 \in 1 .. Len(chan[c]) /\ 1 < i + 1
          BY <2>2, <2>3
        <4>2. chan[c][1] < chan[c][i + 1] /\ chan[c][1] \in Nat /\ chan[c][i + 1] \in Nat
          BY <2>5, <2>6, <3>0, <4>1
        <4>3. t[i] = chan[c][i + 1] /\ h = chan[c][1] /\ i + 1 \in 1 .. Len(chan[c])
          BY <2>3, <2>5
        <4>4. chan[c][i + 1] > 0 /\ chan[c][i + 1] <= Sent(c)
          BY <3>0, <4>3
        <4> QED
          BY <4>2, <4>3, <4>4
      <3>2. \A i, j \in 1 .. Len(t) : i < j => t[i] < t[j]
        BY <2>2, <2>3, <2>5, <3>0
      <3>3. /\ chan'[c] = t /\ last'[c] = h
            /\ \A d \in Clients \ {c} : chan'[d] = chan[d] /\ last'[d] = last[d]
        BY <2>4 DEF BInv, BTyped
      <3> QED
        BY <1>0, <1>1, <2>7, <3>1, <3>2, <3>3 DEF BInv, Forward
    <2>10. ASSUME c \in subscribers \ lost PROVE Keeps(c)'
      <3>1. /\ due[c] = h /\ Len(chan[c]) = Sent(c) + 1 - h /\ h <= Sent(c) + 1
            /\ \A i \in 1 .. Len(chan[c]) : chan[c][i] = h + i - 1
        <4>1. Keeps(c)
          BY <2>10 DEF BInv
        <4>2. due[c] \in Nat /\ Len(chan[c]) >= 1 /\ 1 \in 1 .. Len(chan[c])
          BY <2>2 DEF BInv, BTyped
        <4>3. due[c] = h
          BY <2>3, <4>1, <4>2 DEF Keeps
        <4> QED
          BY <4>1, <4>3 DEF Keeps
      <3>2. Sent(c) \in Int
        BY DEF BInv, BTyped, Sent
      <3>3. /\ h + 1 <= Sent(c) + 1 /\ Len(t) = Sent(c) + 1 - (h + 1)
            /\ \A i \in 1 .. Len(t) : t[i] = (h + 1) + i - 1
        <4>1. \A i \in 1 .. Len(t) : t[i] = (h + 1) + i - 1
          <5> SUFFICES ASSUME NEW i \in 1 .. Len(t) PROVE t[i] = (h + 1) + i - 1
            OBVIOUS
          <5>1. t[i] = chan[c][i + 1] /\ chan[c][i + 1] = h + (i + 1) - 1
            BY <2>3, <2>5, <3>1
          <5> QED
            BY <2>3, <5>1
        <4>2. h + 1 <= Sent(c) + 1 /\ Len(t) = Sent(c) + 1 - (h + 1)
          <5>1. /\ Len(chan[c]) = Sent(c) + 1 - h /\ Len(chan[c]) \in Nat \ {0}
                /\ h \in Nat /\ Sent(c) \in Int /\ Len(t) = Len(chan[c]) - 1
            BY <2>2, <2>3, <3>1, <3>2
          <5> QED
            BY <5>1
        <4> QED
          BY <4>1, <4>2
      <3>4. due'[c] = h + 1 /\ chan'[c] = t
        BY <2>4 DEF BInv, BTyped
      <3> QED
        BY <1>0, <1>1, <3>3, <3>4 DEF Keeps
    <2>11. ASSUME NEW d \in (subscribers \ lost) \ {c} PROVE Keeps(d)'
      <3>1. d \in Clients /\ Keeps(d)
        BY DEF BInv, BTyped
      <3>2. chan'[d] = chan[d] /\ due'[d] = due[d]
        BY <2>4, <3>1 DEF BInv, BTyped
      <3> QED
        BY <1>0, <1>1, <3>1, <3>2 DEF Keeps
    <2> QED
      BY <2>1, <2>8, <2>9, <2>10, <2>11 DEF BInv
  <1>5. CASE Leave(c) \/ Unsubscribe(c)
    <2>1. /\ \A d \in Clients \ {c} : client'[d] = client[d]
          /\ client'[c] \in {"leaving", "done"}
          /\ client' \in [Clients -> {"new", "filled", "live", "leaving", "done"}]
          /\ UNCHANGED <<chan, last, due, lost>>
          /\ subscribers' \subseteq subscribers /\ closed' \subseteq closed \cup {c}
          /\ subscribers' \cap closed' = {} /\ visiting \subseteq subscribers'
      BY <1>5 DEF Leave, Unsubscribe, BInv, BTyped, ClosedIsGone
    <2>2. BTyped' /\ ClosedIsGone' /\ Pace'
      BY <1>0, <2>1 DEF BInv, BTyped, ClosedIsGone, Pace
    <2>3. Forward'
      BY <1>0, <1>1, <2>1 DEF BInv, Forward
    <2> QED
      BY <1>0, <1>1, <2>1, <2>2, <2>3 DEF BInv, BTyped, Keeps
  <1> QED
    BY <1>0, <1>2, <1>3, <1>4, <1>5 DEF ClientStep, SeeClosed

LEMMA NextBcast ==
    ASSUME BInv, [Next]_vars
    PROVE  BInv'
  <1>1. CASE UNCHANGED bVars
    <2>1. \A c \in Clients : Sent(c)' = Sent(c)
      BY <1>1 DEF bVars, bcastVars, Sent
    <2>2. BTyped' /\ ClosedIsGone' /\ Pace'
      BY <1>1 DEF bVars, bcastVars, BInv, BTyped, ClosedIsGone, Pace
    <2>3. Forward'
      BY <1>1, <2>1 DEF bVars, bcastVars, BInv, Forward
    <2> QED
      BY <1>1, <2>1, <2>2, <2>3 DEF bVars, bcastVars, BInv, BTyped, Keeps
  <1>2. CASE FillOne \/ ReadLine
    BY <1>2, EmitKeeps DEF FillOne, ReadLine
  <1>3. CASE \/ FileThere \/ SeeCancelled \/ OpenFile \/ OpenFails \/ SeekEnd \/ Watch
             \/ SeeWrite \/ SeeRotation \/ ReadEOF \/ WaitTimesOut
    <2>1. \E p : Step(p)
      BY <1>3 DEF FileThere, SeeCancelled, OpenFile, OpenFails, SeekEnd, Watch, SeeWrite,
                  SeeRotation, ReadEOF, WaitTimesOut
    <2> QED
      BY <1>1, <2>1 DEF Step, bVars
  <1>4. CASE JvmWrites \/ LogTruncated \/ LogRotatedAway \/ LogCreated \/ Cancel
    BY <1>1, <1>4 DEF JvmWrites, LogTruncated, LogRotatedAway, LogCreated, Cancel, tailVars, bVars
  <1>5. CASE UNCHANGED vars
    BY <1>1, <1>5 DEF vars, tailVars, bVars
  <1> QED
    BY <1>2, <1>3, <1>4, <1>5, PublishKeeps, SendKeeps, CloseKeeps, ClientKeeps
       DEF Next, TailStep

\* Publish never sends on a channel that Unsubscribe or Close has closed,
\* whatever the handlers, the tailer and the files do (Broadcaster, Tailer.Run).
THEOREM NoPanicOnPublish == Spec => []NoSendOnClosed
  <1>1. BInv => NoSendOnClosed
    BY DEF BInv, BTyped, ClosedIsGone, NoSendOnClosed
  <1> QED
    BY <1>1, InitBcast, NextBcast, PTL DEF Spec

\* A handler whose channel was never full gets every entry that was published
\* since it subscribed, in order, and no handler gets one older than what it has.
THEOREM StreamsAreComplete == Spec => []CompleteUnlessFull
  <1>1. BInv => CompleteUnlessFull
    <2> SUFFICES ASSUME BInv PROVE CompleteUnlessFull
      OBVIOUS
    <2>1. ASSUME NEW c \in subscribers \ lost
          PROVE  chan[c] = [i \in 1 .. Sent(c) + 1 - due[c] |-> due[c] + i - 1]
      <3>1. Keeps(c) /\ chan[c] \in Seq(Nat)
        BY DEF BInv, BTyped
      <3>2. chan[c] = [i \in 1 .. Len(chan[c]) |-> chan[c][i]]
        BY <3>1, LenProperties
      <3> QED
        BY <3>1, <3>2 DEF Keeps
    <2>2. ASSUME NEW c \in Clients, chan[c] # <<>> PROVE last[c] <= Head(chan[c])
      <3>1. chan[c] \in Seq(Nat) /\ Len(chan[c]) \in Nat \ {0}
        BY <2>2, EmptySeq DEF BInv, BTyped
      <3>2. Head(chan[c]) = chan[c][1] /\ 1 \in 1 .. Len(chan[c])
        BY <2>2, <3>1, HeadTailProperties
      <3> QED
        BY <3>2 DEF BInv, Forward
    <2> QED
      BY <2>1, <2>2 DEF CompleteUnlessFull, Sent
  <1> QED
    BY <1>1, InitBcast, NextBcast, PTL DEF Spec

-----------------------------------------------------------------------------
(***************************************************************************)
(* Type correctness of the tailer and the log.  Only a tailer that has the *)
(* file open reads on.                                                     *)
(***************************************************************************)
FilesTyped ==
    /\ size \in [Inodes -> 0 .. MaxLines]
    /\ path \in Inodes \cup {0} /\ newest \in Inodes \cup {0} /\ fd \in Inodes \cup {0}
    /\ events \in Seq({"write", "gone", "create"})
    /\ pc \in {"wait", "open", "retry", "fill", "watch", "select", "read", "closing", "ended"}
    /\ pc \in {"fill", "watch", "select", "read"} => fd # 0
    /\ pos \in Nat /\ filling \in Nat
    /\ emitted \in 0 .. MaxEmitted
    /\ missed \in BOOLEAN /\ cancelled \in BOOLEAN

LEMMA NotifyTyped ==
    ASSUME FilesTyped, NEW e \in {"write", "gone", "create"}, Notify(e)
    PROVE  events' \in Seq({"write", "gone", "create"}) /\ missed' \in BOOLEAN
  <1>1. events' \in Seq({"write", "gone", "create"})
    BY AppendProperties DEF Notify, FilesTyped
  <1>2. missed' \in BOOLEAN
    BY Zenon DEF Notify
  <1> QED
    BY <1>1, <1>2

LEMMA NextFiles ==
    ASSUME FilesTyped, [Next]_vars
    PROVE  FilesTyped'
  <1> USE DEF FilesTyped, Inodes, fileVars, watchVars
  <1>1. CASE JvmWrites \/ LogTruncated \/ LogRotatedAway \/ LogCreated
    <2>1. events' \in Seq({"write", "gone", "create"}) /\ missed' \in BOOLEAN
      BY <1>1, NotifyTyped DEF JvmWrites, LogTruncated, LogRotatedAway, LogCreated
    <2>2. size' \in [Inodes -> 0 .. MaxLines]
      BY <1>1 DEF JvmWrites, LogTruncated, LogRotatedAway, LogCreated
    <2>3. path' \in Inodes \cup {0} /\ newest' \in Inodes \cup {0}
      BY <1>1 DEF JvmWrites, LogTruncated, LogRotatedAway, LogCreated
    <2> QED
      BY <1>1, <2>1, <2>2, <2>3
         DEF JvmWrites, LogTruncated, LogRotatedAway, LogCreated, tailVars
  <1>2. CASE FileThere \/ OpenFile \/ OpenFails \/ WaitTimesOut
    <2>1. filling' \in Nat
      <3>1. CASE OpenFile
        <4>1. size[path] \in Nat
          BY <3>1 DEF OpenFile
        <4> QED
          BY <3>1, <4>1 DEF OpenFile
      <3>2. CASE ~OpenFile
        BY <1>2, <3>2 DEF FileThere, OpenFails, WaitTimesOut
      <3> QED
        BY <3>1, <3>2
    <2>2. /\ UNCHANGED <<fileVars, watchVars, pos, emitted, cancelled>>
          /\ \/ fd' = fd /\ pc' \in {"open", "retry", "closing"}
             \/ fd' = path /\ path # 0 /\ pc' = "fill"
      BY <1>2 DEF FileThere, OpenFile, OpenFails, WaitTimesOut, Step
    <2> QED
      BY <2>1, <2>2
  <1>3. CASE SeekEnd \/ Watch \/ ReadEOF
    <2>1. CASE SeekEnd
      <3>1. size[fd] \in Nat
        BY <2>1 DEF SeekEnd
      <3> QED
        BY <2>1, <3>1 DEF SeekEnd, Step
    <2>2. CASE Watch
      BY <2>2 DEF Watch, Step
    <2>3. CASE ReadEOF
      BY <2>3 DEF ReadEOF, Step
    <2> QED
      BY <1>3, <2>1, <2>2, <2>3
  <1>4. CASE SeeCancelled \/ SeeRotation
    <2>1. <<>> \in Seq({"write", "gone", "create"})
      BY EmptySeq
    <2>2. /\ UNCHANGED <<fileVars, emitted, cancelled, filling>>
          /\ fd' = 0 /\ pos' = 0 /\ events' = <<>> /\ missed' = FALSE
          /\ pc' \in {"closing", "retry"}
      BY <1>4 DEF SeeCancelled, SeeRotation, Step
    <2> QED
      BY <2>1, <2>2
  <1>5. CASE SeeWrite
    <2>1. Tail(events) \in Seq({"write", "gone", "create"})
      BY <1>5, HeadTailProperties DEF SeeWrite
    <2> QED
      BY <1>5, <2>1 DEF SeeWrite, Step
  <1>6. CASE FillOne \/ ReadLine
    <2>1. emitted' \in 0 .. MaxEmitted
      BY <1>6 DEF FillOne, ReadLine, Emit
    <2>2. UNCHANGED <<fileVars, watchVars, fd, cancelled, pc>> /\ pos' \in Nat /\ filling' \in Nat
      BY <1>6 DEF FillOne, ReadLine
    <2> QED
      BY <2>1, <2>2
  <1>7. CASE TailPublish \/ RunEnds \/ Cancel \/ UNCHANGED vars
    BY <1>7 DEF TailPublish, RunEnds, Cancel, vars, tailVars
  <1>8. ASSUME NEW c \in Clients, TailSend(c) \/ Handler(c) \/ PeerGone(c)
        PROVE  FilesTyped'
    BY <1>8 DEF TailSend, Handler, PeerGone, tailVars
  <1> QED
    BY <1>1, <1>2, <1>3, <1>4, <1>5, <1>6, <1>7, <1>8 DEF Next, TailStep

LEMMA InitFiles == Init => FilesTyped
  <1> SUFFICES ASSUME Init PROVE FilesTyped
    OBVIOUS
  <1>1. <<>> \in Seq({"write", "gone", "create"})
    BY EmptySeq
  <1>2. path \in Inodes \cup {0} /\ newest = path /\ 0 \in 0 .. MaxEmitted
    BY DEF Init
  <1> QED
    BY <1>1, <1>2 DEF Init, FilesTyped

\* Files, tailer, broadcaster and handlers keep their types; in particular no
\* channel holds more than it can.
THEOREM TailerTypeCorrect == Spec => []TypeOK
  <1>1. BInv /\ FilesTyped => TypeOK
    <2> SUFFICES ASSUME BInv, FilesTyped PROVE TypeOK
      OBVIOUS
    <2>1. \A c \in Clients : chan[c] \in Seq(1 .. published)
      <3> SUFFICES ASSUME NEW c \in Clients PROVE chan[c] \in Seq(1 .. published)
        OBVIOUS
      <3>1. chan[c] \in Seq(Nat) /\ published \in Nat
        BY DEF BInv, BTyped
      <3>2. \A i \in 1 .. Len(chan[c]) : chan[c][i] \in 1 .. published
        <4> SUFFICES ASSUME NEW i \in 1 .. Len(chan[c]) PROVE chan[c][i] \in 1 .. published
          OBVIOUS
        <4>1. chan[c][i] \in Nat /\ chan[c][i] > 0 /\ chan[c][i] <= Sent(c)
          BY <3>1, ElementOfSeq DEF BInv, Forward
        <4> QED
          BY <3>1, <4>1 DEF Sent
      <3>3. chan[c] \in Seq(Range(chan[c]))
        BY <3>1, SeqOfRange
      <3>4. Range(chan[c]) = {chan[c][i] : i \in 1 .. Len(chan[c])}
        BY <3>1, RangeEquality
      <3>5. Range(chan[c]) \subseteq 1 .. published
        BY <3>2, <3>4
      <3> HIDE DEF Range
      <3> QED
        BY <3>3, <3>5, SeqMonotonic
    <2>2. BcastTypeOK
      BY <2>1 DEF BInv, BTyped, BcastTypeOK
    <2> QED
      BY <2>2 DEF FilesTyped, BInv, Pace, TypeOK
  <1> QED
    BY <1>1, InitFiles, InitBcast, NextBcast, NextFiles, PTL DEF Spec

-----------------------------------------------------------------------------
(***************************************************************************)
(* No lost wake-up.  An inode is never at the path again once it has left  *)
(* it, and while the tailer reads, what its file has lost is due as a      *)
(* write event; what its file has gained it will read.                     *)
(***************************************************************************)
OldInodes == fd <= newest /\ path <= newest

Noticed ==
    fd = path =>
        /\ pc = "watch" => missed \/ pos = size[fd]
        /\ pc = "select" => missed \/ WriteIsDue \/ pos = size[fd]
        /\ pc = "read" => WriteIsDue \/ pos <= size[fd]

WInv == FilesTyped /\ OldInodes /\ Noticed

\* A write to the log that the tailer watches is, or becomes, due.
LEMMA WriteIsNotified ==
    ASSUME FilesTyped, Notify("write")
    PROVE  /\ pc \in {"select", "read"} => WriteIsDue'
           /\ pc = "watch" /\ fd = path => missed'
  <1>1. ASSUME pc \in {"select", "read"} PROVE WriteIsDue'
    <2>1. events \in Seq({"write", "gone", "create"}) /\ Len(events) \in Nat
      BY LenProperties DEF FilesTyped
    <2>2. CASE events # <<>> /\ events[Len(events)] = "write"
      <3>1. events' = events /\ Len(events) \in 1 .. Len(events)
        BY <1>1, <2>1, <2>2, EmptySeq DEF Notify
      <3> QED
        BY <2>2, <3>1 DEF WriteIsDue
    <2>3. CASE ~(events # <<>> /\ events[Len(events)] = "write")
      <3>1. events' = Append(events, "write")
        BY <1>1, <2>3 DEF Notify
      <3>2. Len(events') \in 1 .. Len(events') /\ events'[Len(events')] = "write"
        BY <2>1, <3>1, AppendProperties
      <3> QED
        BY <3>2 DEF WriteIsDue
    <2> QED
      BY <2>2, <2>3
  <1>2. ASSUME pc = "watch", fd = path PROVE missed'
    BY <1>2 DEF Notify
  <1> QED
    BY <1>1, <1>2

\* The steps of the tailer that leave the log alone.
LEMMA TailNoticed ==
    ASSUME WInv, TailStep \/ WaitTimesOut
    PROVE  OldInodes' /\ Noticed'
  <1> USE DEF WInv, FilesTyped, Inodes, fileVars, watchVars, OldInodes, Noticed
  <1>1. CASE FileThere \/ OpenFails \/ WaitTimesOut \/ SeeCancelled \/ SeeRotation \/ RunEnds
    <2>1. /\ UNCHANGED fileVars /\ fd' \in {fd, 0}
          /\ pc' \in {"open", "retry", "closing", "ended"}
      BY <1>1 DEF FileThere, OpenFails, WaitTimesOut, SeeCancelled, SeeRotation, RunEnds, Step
    <2> QED
      BY <2>1
  <1>2. CASE OpenFile
    BY <1>2 DEF OpenFile, Step
  <1>3. CASE SeekEnd
    BY <1>3 DEF SeekEnd, Step
  <1>4. CASE Watch
    <2>1. /\ UNCHANGED <<fileVars, watchVars>>
          /\ \/ pc = "watch" /\ pc' = "select" /\ UNCHANGED <<fd, pos>>
             \/ pc' = "retry" /\ fd' = 0
      BY <1>4 DEF Watch, Step
    <2> QED
      BY <2>1
  <1>5. CASE SeeWrite
    <2>1. UNCHANGED <<fileVars, fd>> /\ pc' = "read" /\ fd \in Inodes
      BY <1>5 DEF SeeWrite, Step
    <2>2. pos' <= size[fd]
      BY <1>5, <2>1 DEF SeeWrite
    <2> QED
      BY <2>1, <2>2
  <1>6. CASE ReadLine
    <2>1. /\ UNCHANGED <<fileVars, events, pc, fd>> /\ pc = "read" /\ fd \in Inodes
          /\ pos' = pos + 1 /\ pos < size[fd]
      BY <1>6 DEF ReadLine
    <2>2. pos' <= size'[fd']
      BY <2>1
    <2> QED
      BY <2>1, <2>2
  <1>7. CASE ReadEOF
    <2>1. /\ UNCHANGED <<fileVars, events, fd, pos>> /\ pc = "read" /\ pc' = "select"
          /\ fd \in Inodes /\ pos >= size[fd]
      BY <1>7 DEF ReadEOF, Step
    <2>2. WriteIsDue' <=> WriteIsDue
      BY <2>1 DEF WriteIsDue
    <2>3. pos <= size[fd] => pos = size[fd]
      BY <2>1
    <2> QED
      BY <2>1, <2>2, <2>3
  <1>8. CASE UNCHANGED <<fileVars, watchVars, pc, fd, pos>>
    <2>1. WriteIsDue' <=> WriteIsDue
      BY <1>8 DEF WriteIsDue
    <2> QED
      BY <1>8, <2>1
  <1>9. CASE FillOne
    BY <1>9 DEF FillOne
  <1>10. CASE TailPublish \/ \E c \in Clients : TailSend(c)
    BY <1>8, <1>10 DEF TailPublish, TailSend, tailVars
  <1> QED
    BY <1>1, <1>2, <1>3, <1>4, <1>5, <1>6, <1>7, <1>9, <1>10 DEF TailStep

LEMMA NextNoticed ==
    ASSUME WInv, [Next]_vars
    PROVE  WInv'
  <1> USE DEF WInv
  <1>0. FilesTyped'
    BY NextFiles
  <1>1. CASE JvmWrites \/ LogTruncated
    <2>1. /\ Notify("write") /\ UNCHANGED <<path, newest, tailVars>> /\ path # 0
          /\ \E n : size' = [size EXCEPT ![path] = n]
      BY <1>1 DEF JvmWrites, LogTruncated
    <2>2. OldInodes'
      BY <2>1 DEF OldInodes, tailVars
    <2>3. Noticed'
      BY <2>1, WriteIsNotified DEF Noticed, tailVars
    <2> QED
      BY <1>0, <2>2, <2>3
  <1>2. CASE LogRotatedAway \/ LogCreated
    <2>1. /\ UNCHANGED <<size, tailVars>>
          /\ \/ path' = 0 /\ newest' = newest
             \/ path' = newest + 1 /\ newest' = newest + 1
      BY <1>2 DEF LogRotatedAway, LogCreated
    <2>2. OldInodes'
      BY <2>1 DEF OldInodes, tailVars, FilesTyped, Inodes
    <2>3. pc \in {"watch", "select", "read"} => fd' # path'
      BY <2>1 DEF OldInodes, tailVars, FilesTyped, Inodes
    <2>4. Noticed'
      BY <2>1, <2>3 DEF Noticed, tailVars
    <2> QED
      BY <1>0, <2>2, <2>4
  <1>3. CASE UNCHANGED <<fileVars, watchVars, pc, fd, pos>>
    BY <1>0, <1>3 DEF fileVars, watchVars, OldInodes, Noticed, WriteIsDue
  <1>4. CASE Cancel \/ UNCHANGED vars
    BY <1>3, <1>4 DEF Cancel, vars, tailVars
  <1>5. ASSUME NEW c \in Clients, Handler(c) \/ PeerGone(c) PROVE WInv'
    BY <1>3, <1>5 DEF Handler, PeerGone, tailVars
  <1> QED
    BY <1>0, <1>1, <1>2, <1>4, <1>5, TailNoticed DEF Next

\* A tailer that waits for events has read its file, or has an event to wake it,
\* whatever was written, truncated or rotated while it read; except for what
\* was written between its seek and its watch (tailOnce, readUntilEOF).
THEOREM NoLostWakeUp == Spec => []NothingUnnoticed
  <1>1. Init => WInv
    <2>1. Init => FilesTyped
      BY InitFiles
    <2> QED
      BY <2>1 DEF Init, WInv, OldInodes, Noticed, FilesTyped, Inodes
  <1>2. WInv => NothingUnnoticed
    BY DEF WInv, Noticed, NothingUnnoticed
  <1> QED
    BY <1>1, <1>2, NextNoticed, PTL DEF Spec

=============================================================================
