------------------------------- MODULE Events -------------------------------
(***************************************************************************)
(* The slot's event bus (internal/events) and one WebSocket client of it   *)
(* (handleSlotEventsStream).  transition assigns the state under s.mu and  *)
(* publishes the event after unlocking: until then the event is pending    *)
(* with the goroutine that made the transition, and others may overtake    *)
(* it.  Start's own assignments of the state publish nothing.              *)
(***************************************************************************)
EXTENDS Slot, Sequences

CONSTANT SubBuffer  \* the capacity of a subscriber's channel

ASSUME EventsAssumption == SubBuffer \in Nat \ {0}

VARIABLES
    pending, \* the events of transitions, by their goroutine, not published yet
    stream,  \* is the client's handler subscribed?
    queue,   \* the states announced in the subscriber's channel
    seen,    \* the last state written to the client, or None
    dropped, \* did the subscriber miss an event because its channel was full?
    raced    \* were two events pending at once, now or since it subscribed?

busVars == <<pending, stream, queue, seen, dropped, raced>>
slotAndBus == <<vars, busVars>>

\* The goroutines that call transition.
Goroutines == {"watchExit", "healthLoop"} \X Mounts \cup {"stop"} \X Stops

\* A channel that is not subscribed is closed: a send to it would panic.
EventsTypeOK ==
    /\ pending \subseteq [by : Goroutines, to : States]
    /\ stream \in BOOLEAN
    /\ queue \in Seq(States)
    /\ Len(queue) <= SubBuffer
    /\ stream \/ queue = <<>>
    /\ seen \in States \cup {None}
    /\ dropped \in BOOLEAN
    /\ raced \in BOOLEAN

EventsInit ==
    /\ Init
    /\ pending = {}
    /\ stream = FALSE
    /\ queue = <<>>
    /\ seen = None
    /\ dropped = FALSE
    /\ raced = FALSE

-----------------------------------------------------------------------------
\* A goroutine is inside Publish, or before it, and does nothing else.
Publishing(g) == \E e \in pending : e.by = g

Announces_From(g) ==
    /\ pending' = pending \cup {[by |-> g, to |-> state]}
    /\ raced' = (raced \/ pending # {})
    /\ UNCHANGED <<stream, queue, seen, dropped>>

\* What transition does after the critical section of the step it is joined to.
Announces(g) ==
    /\ pending' = pending \cup {[by |-> g, to |-> state']}
    /\ raced' = (raced \/ pending # {})
    /\ UNCHANGED <<stream, queue, seen, dropped>>

WatchAnnounces(m) == WatchTransition(m) /\ Announces(<<"watchExit", m>>)

HealthAnnounces(m) ==
    /\ ~Publishing(<<"healthLoop", m>>)
    /\ HealthToRunning(m) \/ HealthToError(m)
    /\ Announces(<<"healthLoop", m>>)

StopAnnounces(c) ==
    /\ StopTransition(c) \/ StopRevert(c)
    /\ Announces(<<"stop", c>>)

\* Slot's other steps; those of a goroutine that is publishing have to wait.
Silent ==
    /\ \/ \E m \in Mounts :
            \/ StartBegin(m) \/ StartCall(m) \/ JvmExits(m)
            \/ WatchTeardown(m) \/ WatchBlocks(m) \/ Terminate(m)
            \/ /\ ~Publishing(<<"healthLoop", m>>)
               /\ \/ HealthQuit(m) \/ HealthProbe(m) \/ HealthRead(m)
                  \/ HealthReadLate(m) \/ HealthKill(m)
       \/ \E c \in Stops :
            /\ ~Publishing(<<"stop", c>>)
            /\ \/ StopCheck(c) \/ RestartCheck(c) \/ StopArm(c) \/ StopSeesExit(c)
               \/ StopSeesAbort(c) \/ StopEscalate(c) \/ RestartGivesUp(c)
               \/ \E m \in Mounts : RestartStart(c, m)
       \/ AbortStop
    /\ UNCHANGED busVars

\* Bus.Publish never waits: an event that finds the channel full is lost.
Publish(e) ==
    /\ pending' = pending \ {e}
    /\ IF stream /\ Len(queue) < SubBuffer
       THEN queue' = Append(queue, e.to) ELSE UNCHANGED queue
    /\ dropped' = (dropped \/ (stream /\ Len(queue) = SubBuffer))
    /\ raced' = (raced /\ (stream \/ pending' # {}))
    /\ UNCHANGED <<vars, stream, seen>>

-----------------------------------------------------------------------------
\* A client connects, or connects again.
Subscribe ==
    /\ ~stream
    /\ stream' = TRUE
    /\ UNCHANGED <<vars, pending, queue, seen, dropped, raced>>

\* One event received and written as a frame.
Deliver ==
    /\ queue # <<>>
    /\ seen' = Head(queue)
    /\ queue' = Tail(queue)
    /\ UNCHANGED <<vars, pending, stream, dropped, raced>>

\* The client is gone (readDone, a failed write): unsub closes the channel.
Unsubscribe ==
    /\ stream
    /\ stream' = FALSE
    /\ queue' = <<>>
    /\ seen' = None
    /\ dropped' = FALSE
    /\ raced' = (raced /\ pending # {})
    /\ UNCHANGED <<vars, pending>>

EventsNext ==
    \/ Silent
    \/ \E m \in Mounts : WatchAnnounces(m) \/ HealthAnnounces(m)
    \/ \E c \in Stops : StopAnnounces(c)
    \/ \E e \in pending : Publish(e)
    \/ Subscribe \/ Deliver \/ Unsubscribe

EventsSpec == EventsInit /\ [][EventsNext]_slotAndBus

-----------------------------------------------------------------------------
(***************************************************************************)
(* Properties.                                                             *)
(***************************************************************************)
\* docs/api.md 1.10 lets clients observe progress by the events: one that kept
\* up and has read everything knows the slot's state, unless the state is one
\* that Start assigns without an event, or two goroutines published at once.
ClientSeesState ==
    /\ stream /\ seen # None /\ queue = <<>> /\ pending = {}
    /\ ~raced /\ ~dropped
    /\ state \notin {"mounting", "starting"} /\ lastErr # "mount_failed"
    => seen = state
=============================================================================
