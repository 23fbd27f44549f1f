--------------------------- MODULE LifecycleProof ---------------------------
(***************************************************************************)
(* Proofs about the modules that extend Slot.  Session: a slot with its    *)
(* RCON client and Discord bot behaves like module Slot, and what is       *)
(* attached to it belongs to the mounted server, for any sets of mounts,   *)
(* bots and calls.  Events: publishing adds nothing to the lifecycle, and  *)
(* a client that keeps up with the bus knows the state of the slot, for    *)
(* any mounts, calls and channel capacity.                                 *)
(***************************************************************************)
EXTENDS Session, Events, SlotProof, SequenceTheorems

USE SlotAssumption, SessionAssumption
USE DEF vars, fields, procVars, loopVars, stopVars

-----------------------------------------------------------------------------
(***************************************************************************)
(* The lifecycle is Slot's.                                                *)
(***************************************************************************)
LEMMA SessionStepIsSlotStep ==
    ASSUME [SessionNext]_slotAndSession
    PROVE  [Next]_vars
  <1>1. CASE UNCHANGED slotAndSession
    BY <1>1 DEF slotAndSession
  <1>2. CASE SlotOnly
    BY <1>2 DEF SlotOnly, Next, StartCall
  <1>3. ASSUME NEW m \in Mounts, Mounted(m) \/ MountFails(m) PROVE [Next]_vars
    BY <1>3 DEF Mounted, MountFails, Next, StartCall
  <1>4. ASSUME NEW m \in Mounts, WatchesExit(m) PROVE [Next]_vars
    BY <1>4 DEF WatchesExit, Teardown, TakeBot, CloseBot, Settle, Next, WatchExit
  <1>5. ASSUME NEW m \in Mounts, RconConnectLoop(m) \/ StartDiscordBot(m) PROVE [Next]_vars
    BY <1>5 DEF RconConnectLoop, DialQuits, Dials, StoreClient,
                StartDiscordBot, Connects, ConnectFails, StoreBot
  <1> QED
    BY <1>1, <1>2, <1>3, <1>4, <1>5 DEF SessionNext

\* The goroutines that attach the RCON client and the bot (rconConnectLoop,
\* startDiscordBot, closeDiscordBot) add nothing to the lifecycle: whatever is
\* proved of Slot holds with them.
THEOREM SessionImplementsSlot == SessionSpec => Spec
  <1>1. SessionInit => Init
    BY DEF SessionInit
  <1> QED
    BY <1>1, SessionStepIsSlotStep, PTL DEF SessionSpec, Spec

-----------------------------------------------------------------------------
(***************************************************************************)
(* Attachments.  A goroutine that is still attaching belongs to the        *)
(* mounted server, unless its context is cancelled; then what it attaches  *)
(* is among the late ones.                                                 *)
(***************************************************************************)
Unmounted == {"new", "prepare", "locked", "jammed", "spawned"}
Early == Unmounted \cup {"mounted", "blocked"}

Attaching(m) == dial[m] \in {"wait", "store"} \/ discord[m] \in {"connect", "store"}

AttachInv ==
    /\ process \in Mounts => mountedID = process
    /\ \A m \in Mounts : Attaching(m) => process = m \/ m \in ctxDone
    /\ \A m \in Mounts : phase[m] \in Unmounted => ~Attaching(m)
    /\ \A m \in Mounts : phase[m] \in Early => farewell[m] = "no"
    /\ rconClient \in {process, None} \cup late
    /\ bot \in {process, None} \cup late
              \cup {m \in Mounts : TornDown(m) /\ farewell[m] = "no"}

LEMMA SessionStepTyped ==
    ASSUME SessionTypeOK, TypeOK', [SessionNext]_slotAndSession
    PROVE  SessionTypeOK'
  <1> USE DEF SessionTypeOK, TypeOK, sessionVars, rconVars, botVars,
              DialAt, DiscordAt, FarewellAt, Attaches
  <1>1. CASE UNCHANGED sessionVars
    BY <1>1
  <1>2. ASSUME NEW m \in Mounts, Mounted(m) \/ MountFails(m) PROVE SessionTypeOK'
    <2>1. CASE Mounted(m)
      BY <2>1 DEF Mounted
    <2>2. CASE MountFails(m)
      BY <2>2 DEF MountFails
    <2> QED
      BY <1>2, <2>1, <2>2
  <1>3. ASSUME NEW m \in Mounts, Teardown(m) PROVE SessionTypeOK'
    BY <1>3 DEF Teardown
  <1>4. ASSUME NEW m \in Mounts, TakeBot(m) \/ CloseBot(m) PROVE SessionTypeOK'
    BY <1>4 DEF TakeBot, CloseBot
  <1>5. ASSUME NEW m \in Mounts, RconConnectLoop(m) PROVE SessionTypeOK'
    BY <1>5 DEF RconConnectLoop, DialQuits, Dials, StoreClient
  <1>6. ASSUME NEW m \in Mounts, StartDiscordBot(m) PROVE SessionTypeOK'
    BY <1>6 DEF StartDiscordBot, Connects, ConnectFails, StoreBot
  <1>7. \/ UNCHANGED sessionVars
        \/ \E m \in Mounts : \/ Mounted(m) \/ MountFails(m) \/ Teardown(m)
                             \/ TakeBot(m) \/ CloseBot(m)
                             \/ RconConnectLoop(m) \/ StartDiscordBot(m)
    BY DEF SessionNext, SlotOnly, WatchesExit, Settle, slotAndSession
  <1> QED
    BY <1>1, <1>2, <1>3, <1>4, <1>5, <1>6, <1>7

\* What is attached stays right as long as the mount the fields name, the
\* teardowns and the attachments stay as they are.
LEMMA AttachKept ==
    ASSUME AttachInv,
           UNCHANGED <<process, sessionVars>>,
           process \in Mounts => mountedID' = mountedID,
           ctxDone \subseteq ctxDone',
           \A m \in Mounts : phase'[m] \in Unmounted => phase[m] \in Unmounted,
           \A m \in Mounts : phase'[m] \in Early => phase[m] \in Early,
           \A m \in Mounts : TornDown(m) /\ farewell[m] = "no" => TornDown(m)'
    PROVE  AttachInv'
  BY DEF AttachInv, Attaching, sessionVars, rconVars, botVars

LEMMA SlotOnlyAttached ==
    ASSUME AttachInv, SessionTypeOK, SlotOnly
    PROVE  AttachInv'
  <1> USE DEF Unmounted, Early, TornDown, MoveTo, SessionTypeOK, TypeOK
  <1>1. UNCHANGED sessionVars
    BY DEF SlotOnly
  <1>2. ASSUME NEW m \in Mounts,
               \/ StartBegin(m) \/ StartAcquire(m) \/ StartJams(m) \/ StartSpawn(m)
               \/ \E c \in Stops : RestartStart(c, m)
        PROVE  AttachInv'
    <2>1. UNCHANGED <<process, mountedID, ctxDone>>
      BY <1>2 DEF StartBegin, StartAcquire, StartJams, StartSpawn, RestartStart, BeginMount
    <2>2. \E p \in Unmounted : phase[m] \in Unmounted /\ phase' = [phase EXCEPT ![m] = p]
      BY <1>2 DEF StartBegin, StartAcquire, StartJams, StartSpawn, RestartStart, BeginMount
    <2> QED
      BY <1>1, <2>1, <2>2, AttachKept
  <1>3. ASSUME NEW m \in Mounts, JvmExits(m) \/ HealthLoop(m) \/ Terminate(m)
        PROVE  AttachInv'
    <2>1. UNCHANGED <<process, mountedID, ctxDone, phase>>
      BY <1>3 DEF JvmExits, HealthLoop, HealthQuit, HealthProbe, HealthRead, HealthReadLate,
                  HealthToRunning, HealthToError, HealthKill,
                  Terminate, TerminateSeesExit, TerminateKills, TerminateGivesUp
    <2> QED
      BY <1>1, <2>1, AttachKept
  <1>4. ASSUME NEW c \in Stops,
               StopCheck(c) \/ RestartCheck(c) \/ StopCall(c) \/ RestartGivesUp(c)
        PROVE  AttachInv'
    <2>1. UNCHANGED <<process, mountedID, ctxDone, phase>>
      BY <1>4 DEF StopCheck, RestartCheck, CheckStop, StopCall, StopTransition, StopArm,
                  StopSeesExit, StopSeesAbort, StopRevert, StopEscalate, RestartGivesUp
    <2> QED
      BY <1>1, <2>1, AttachKept
  <1>5. CASE AbortStop
    BY <1>1, <1>5, AttachKept DEF AbortStop
  <1> QED
    BY <1>2, <1>3, <1>4, <1>5 DEF SlotOnly

\* A mount begins or fails: no other one is under way, so nothing is attached
\* to the slot but what came late.
LEMMA MountAttached ==
    ASSUME AttachInv, SessionTypeOK, OneOwner, NEW m \in Mounts,
           Mounted(m) \/ MountFails(m)
    PROVE  AttachInv'
  <1> USE DEF SessionTypeOK, TypeOK, Unmounted, Early, TornDown, MoveTo
  <1>1. phase[m] \in {"prepare", "locked", "spawned"}
    BY DEF Mounted, MountFails, StartPublish, StartRefused, StartLaunchFails
  <1>2. process = None
    BY <1>1 DEF OneOwner, Active
  <1>3. \A n \in Mounts : ~TornDown(n)
    BY <1>1 DEF OneOwner, Active
  <1>4. CASE Mounted(m)
    BY <1>1, <1>2, <1>3, <1>4
       DEF AttachInv, Attaching, Mounted, StartPublish, DialAt, DiscordAt
  <1>5. CASE MountFails(m)
    <2>1. process' = None /\ rconClient' = None /\ phase' = [phase EXCEPT ![m] = "gone"]
          /\ UNCHANGED <<mountedID, ctxDone, dial, discord, bot, farewell, late>>
      BY <1>5 DEF MountFails, StartRefused, StartLaunchFails, FailMount, botVars
    <2> QED
      BY <1>1, <1>2, <1>3, <2>1 DEF AttachInv, Attaching
  <1> QED
    BY <1>4, <1>5

LEMMA WatchAttached ==
    ASSUME AttachInv, SessionTypeOK, OneOwner, NEW m \in Mounts, WatchesExit(m)
    PROVE  AttachInv'
  <1> USE DEF SessionTypeOK, TypeOK, Unmounted, Early, TornDown, MoveTo
  <1>1. CASE Teardown(m) /\ WatchTeardown(m)
    <2> DEFINE v == Verdict(ExitValue(m))
    <2>1. v \in {"toIdle", "toKilled", "toCrashed"}
      BY DEF Verdict
    <2>2. /\ phase[m] = "mounted" /\ process = m /\ mountedID = m
          /\ phase' = [phase EXCEPT ![m] = v]
          /\ process' = None /\ ctxDone' = ctxDone \cup {m} /\ rconClient' = None
          /\ UNCHANGED <<dial, discord, bot, farewell, late>>
      BY <1>1 DEF OneOwner, AttachInv, Teardown, WatchTeardown, botVars
    <2> HIDE DEF v
    <2> QED
      BY <2>1, <2>2 DEF AttachInv, Attaching
  <1>2. CASE TakeBot(m)
    BY <1>2 DEF TakeBot, AttachInv, Attaching, FarewellAt, rconVars
  <1>3. CASE CloseBot(m)
    BY <1>3 DEF CloseBot, AttachInv, Attaching, FarewellAt, rconVars
  <1>4. CASE Settle(m)
    <2>1. UNCHANGED <<process, mountedID, ctxDone, sessionVars>>
      BY <1>4 DEF Settle, WatchTransition
    <2>2. farewell[m] = "done" /\ phase' = [phase EXCEPT ![m] = "gone"]
      BY <1>4 DEF Settle, WatchTransition
    <2> QED
      BY <2>1, <2>2, AttachKept
  <1>5. CASE Teardown(m) /\ WatchBlocks(m)
    <2>1. /\ phase[m] = "mounted" /\ process = m /\ rconClient' = None
          /\ phase' = [phase EXCEPT ![m] = "blocked"] /\ ctxDone \subseteq ctxDone'
          /\ UNCHANGED <<process, mountedID, dial, discord, bot, farewell, late>>
      BY <1>5 DEF OneOwner, Teardown, WatchBlocks, botVars
    <2> QED
      BY <2>1 DEF AttachInv, Attaching
  <1> QED
    BY <1>1, <1>2, <1>3, <1>4, <1>5 DEF WatchesExit, Teardown

LEMMA LoopsAttached ==
    ASSUME AttachInv, SessionTypeOK, NEW m \in Mounts,
           RconConnectLoop(m) \/ StartDiscordBot(m)
    PROVE  AttachInv'
  <1> USE DEF SessionTypeOK, TypeOK, AttachInv, Attaching, TornDown,
              DialAt, DiscordAt, Attaches, rconVars, botVars
  <1>1. CASE DialQuits(m) \/ Dials(m)
    BY <1>1 DEF DialQuits, Dials
  <1>2. CASE StoreClient(m)
    BY <1>2 DEF StoreClient
  <1>3. CASE Connects(m) \/ ConnectFails(m)
    BY <1>3 DEF Connects, ConnectFails
  <1>4. CASE StoreBot(m)
    BY <1>4 DEF StoreBot
  <1> QED
    BY <1>1, <1>2, <1>3, <1>4 DEF RconConnectLoop, StartDiscordBot

\* The client that failMount forgets is none of the mounted server, so it came
\* late; every other step closes what it takes from the slot.
LEMMA NothingLeaksKept ==
    ASSUME NothingLeaks, AttachInv, SessionTypeOK, OneOwner, timedOut = {},
           [SessionNext]_slotAndSession
    PROVE  NothingLeaks'
  <1> USE DEF SessionTypeOK, TypeOK, NothingLeaks, rconVars, botVars, sessionVars,
              DialAt, DiscordAt, FarewellAt, Attaches
  <1>1. CASE UNCHANGED sessionVars
    BY <1>1
  <1>2. ASSUME NEW m \in Mounts, Mounted(m) PROVE NothingLeaks'
    <2>1. ~Attaching(m)
      BY <1>2 DEF Mounted, StartPublish, AttachInv, Unmounted
    <2> QED
      BY <1>2, <2>1 DEF Mounted, Attaching
  <1>3. ASSUME NEW m \in Mounts, MountFails(m) PROVE NothingLeaks'
    <2>1. process = None
      BY <1>3 DEF MountFails, StartRefused, StartLaunchFails, OneOwner, Active
    <2> QED
      BY <1>3, <2>1 DEF MountFails, AttachInv
  <1>4. ASSUME NEW m \in Mounts, Teardown(m) PROVE NothingLeaks'
    BY <1>4 DEF Teardown
  <1>5. ASSUME NEW m \in Mounts, TakeBot(m) \/ CloseBot(m) PROVE NothingLeaks'
    BY <1>5 DEF TakeBot, CloseBot
  <1>6. ASSUME NEW m \in Mounts, RconConnectLoop(m) PROVE NothingLeaks'
    BY <1>6 DEF RconConnectLoop, DialQuits, Dials, StoreClient
  <1>7. ASSUME NEW m \in Mounts, StartDiscordBot(m) PROVE NothingLeaks'
    BY <1>7 DEF StartDiscordBot, Connects, ConnectFails, StoreBot
  <1>8. \/ UNCHANGED sessionVars
        \/ \E m \in Mounts : \/ Mounted(m) \/ MountFails(m) \/ Teardown(m)
                             \/ TakeBot(m) \/ CloseBot(m)
                             \/ RconConnectLoop(m) \/ StartDiscordBot(m)
    BY DEF SessionNext, SlotOnly, WatchesExit, Settle, slotAndSession
  <1> QED
    BY <1>1, <1>2, <1>3, <1>4, <1>5, <1>6, <1>7, <1>8

SInv == SessionTypeOK /\ IInv /\ (timedOut = {} => AttachInv /\ NothingLeaks)

LEMMA NextSInv ==
    ASSUME SInv, IInv', [SessionNext]_slotAndSession
    PROVE  SInv'
  <1>1. SessionTypeOK'
    BY SessionStepTyped DEF SInv, IInv
  <1>2. ASSUME timedOut' = {}
        PROVE  timedOut = {} /\ AttachInv /\ NothingLeaks /\ SessionTypeOK /\ OneOwner
    BY <1>2, SessionStepIsSlotStep, TimeoutsStay DEF SInv, IInv
  <1>3. ASSUME timedOut' = {} PROVE NothingLeaks'
    BY <1>2, <1>3, NothingLeaksKept
  <1>4. ASSUME timedOut' = {} PROVE AttachInv'
    <2>1. AttachInv /\ SessionTypeOK /\ OneOwner
      BY <1>2, <1>4
    <2>2. CASE UNCHANGED slotAndSession
      BY <2>1, <2>2, AttachKept DEF slotAndSession, TornDown, sessionVars
    <2>3. CASE SlotOnly
      BY <2>1, <2>3, SlotOnlyAttached
    <2>4. ASSUME NEW m \in Mounts,
                 \/ Mounted(m) \/ MountFails(m) \/ WatchesExit(m)
                 \/ RconConnectLoop(m) \/ StartDiscordBot(m)
          PROVE  AttachInv'
      BY <2>1, <2>4, MountAttached, WatchAttached, LoopsAttached
    <2> QED
      BY <2>2, <2>3, <2>4 DEF SessionNext
  <1> QED
    BY <1>1, <1>3, <1>4 DEF SInv

THEOREM SessionInvariant == SessionSpec => []SInv
  <1>1. SessionInit /\ IInv => SInv
    BY DEF SessionInit, Init, SInv, IInv, SessionTypeOK, AttachInv, Attaching,
           NothingLeaks
  <1>2. SInv /\ IInv' /\ [SessionNext]_slotAndSession => SInv'
    BY NextSInv
  <1>3. SessionSpec => []IInv
    BY SessionImplementsSlot, OwnerInvariant, PTL
  <1> QED
    BY <1>1, <1>2, <1>3, PTL DEF SessionSpec

\* Unless a startup timeout occurred or something was attached after the
\* teardown, s.rconClient and s.bot belong to the mounted server: commands,
\* pollers and notifications of a slot reach no other one, however many mounts
\* follow one another and whatever is being connected meanwhile.
THEOREM AttachmentsBelong == SessionSpec => []AttachmentsAreOfMounted
  <1>1. SInv => AttachmentsAreOfMounted
    BY DEF SInv, AttachInv, AttachmentsAreOfMounted
  <1> QED
    BY <1>1, SessionInvariant, PTL

\* Every RCON connection and Discord session that is still open can be reached
\* by the code that has to close it, with the same exceptions.
THEOREM NoSessionLeaks == SessionSpec => []NothingLeaks
  <1>1. SInv => NothingLeaks
    BY DEF SInv, NothingLeaks
  <1> QED
    BY <1>1, SessionInvariant, PTL

-----------------------------------------------------------------------------
USE EventsAssumption

(***************************************************************************)
(* The lifecycle is Slot's.                                                *)
(***************************************************************************)
LEMMA EventsStepIsSlotStep ==
    ASSUME [EventsNext]_slotAndBus
    PROVE  [Next]_vars
  <1>1. CASE UNCHANGED slotAndBus
    BY <1>1 DEF slotAndBus
  <1>2. CASE Silent
    BY <1>2 DEF Silent, Next, WatchExit, HealthLoop, StopCall
  <1>3. ASSUME NEW m \in Mounts, WatchAnnounces(m) \/ HealthAnnounces(m) PROVE [Next]_vars
    BY <1>3 DEF WatchAnnounces, HealthAnnounces, Next, WatchExit, HealthLoop
  <1>4. ASSUME NEW c \in Stops, StopAnnounces(c) PROVE [Next]_vars
    BY <1>4 DEF StopAnnounces, Next, StopCall
  <1>5. CASE Subscribe \/ Deliver \/ Unsubscribe \/ \E e \in pending : Publish(e)
    BY <1>5 DEF Subscribe, Deliver, Unsubscribe, Publish
  <1> QED
    BY <1>1, <1>2, <1>3, <1>4, <1>5 DEF EventsNext

\* That transition publishes after unlocking (slot.go, events.Bus) holds up a
\* goroutine but adds nothing to the lifecycle: what is proved of Slot holds.
THEOREM EventsImplementSlot == EventsSpec => Spec
  <1>1. EventsInit => Init
    BY DEF EventsInit
  <1> QED
    BY <1>1, EventsStepIsSlotStep, PTL DEF EventsSpec, Spec

-----------------------------------------------------------------------------
(***************************************************************************)
(* The kinds of steps.                                                     *)
(***************************************************************************)
\* The states that are reached without an event, or kept with such an error.
Unannounced == state \in {"mounting", "starting"} \/ lastErr = "mount_failed"

\* A step of the slot that publishes nothing leads to an unannounced state or
\* leaves the state alone.
LEMMA SilentState ==
    ASSUME Silent
    PROVE  UNCHANGED busVars /\ (Unannounced' \/ UNCHANGED <<state, lastErr>>)
  <1>1. UNCHANGED busVars
    BY DEF Silent
  <1>2. ASSUME NEW m \in Mounts,
               StartBegin(m) \/ StartCall(m) \/ \E c \in Stops : RestartStart(c, m)
        PROVE  Unannounced' \/ UNCHANGED <<state, lastErr>>
    BY <1>2 DEF StartBegin, RestartStart, BeginMount, StartCall, StartRefused, StartAcquire,
                StartLaunchFails, StartJams, StartSpawn, StartPublish, FailMount, Unannounced
  <1>3. ASSUME NEW m \in Mounts,
               \/ JvmExits(m) \/ WatchTeardown(m) \/ WatchBlocks(m) \/ Terminate(m)
               \/ HealthQuit(m) \/ HealthProbe(m) \/ HealthRead(m)
               \/ HealthReadLate(m) \/ HealthKill(m)
        PROVE  UNCHANGED <<state, lastErr>>
    BY <1>3 DEF JvmExits, WatchTeardown, WatchBlocks, Terminate, TerminateSeesExit, TerminateKills,
                TerminateGivesUp, HealthQuit, HealthProbe, HealthRead, HealthReadLate,
                HealthKill
  <1>4. ASSUME NEW c \in Stops,
               \/ StopCheck(c) \/ RestartCheck(c) \/ StopArm(c) \/ StopSeesExit(c)
               \/ StopSeesAbort(c) \/ StopEscalate(c) \/ RestartGivesUp(c)
        PROVE  UNCHANGED <<state, lastErr>>
    BY <1>4 DEF StopCheck, RestartCheck, CheckStop, StopArm, StopSeesExit,
                StopSeesAbort, StopEscalate, RestartGivesUp
  <1>5. AbortStop => UNCHANGED <<state, lastErr>>
    BY DEF AbortStop
  <1>6. Unannounced' \/ UNCHANGED <<state, lastErr>>
    BY <1>2, <1>3, <1>4, <1>5 DEF Silent
  <1> QED
    BY <1>1, <1>6

\* Every step is silent, announces the state it makes, or is one of the bus.
BusStep ==
    \/ \E e \in pending : Publish(e)
    \/ Subscribe \/ Deliver \/ Unsubscribe

LEMMA StepKinds ==
    ASSUME [EventsNext]_slotAndBus
    PROVE  \/ UNCHANGED busVars /\ (Unannounced' \/ UNCHANGED <<state, lastErr>>)
           \/ \E g \in Goroutines : Announces(g)
           \/ BusStep /\ UNCHANGED <<state, lastErr>>
  <1>1. CASE UNCHANGED slotAndBus
    BY <1>1 DEF slotAndBus
  <1>2. CASE Silent
    BY <1>2, SilentState
  <1>3. ASSUME NEW m \in Mounts, WatchAnnounces(m) \/ HealthAnnounces(m)
        PROVE  \E g \in Goroutines : Announces(g)
    BY <1>3 DEF WatchAnnounces, HealthAnnounces, Goroutines
  <1>4. ASSUME NEW c \in Stops, StopAnnounces(c)
        PROVE  \E g \in Goroutines : Announces(g)
    BY <1>4 DEF StopAnnounces, Goroutines
  <1>5. CASE BusStep
    BY <1>5 DEF BusStep, Publish, Subscribe, Deliver, Unsubscribe
  <1> QED
    BY <1>1, <1>2, <1>3, <1>4, <1>5 DEF EventsNext, BusStep

-----------------------------------------------------------------------------
(***************************************************************************)
(* Type correctness.                                                       *)
(***************************************************************************)
LEMMA EventsStepTyped ==
    ASSUME EventsTypeOK, TypeOK', [EventsNext]_slotAndBus
    PROVE  EventsTypeOK'
  <1> USE DEF EventsTypeOK
  <1>0. <<>> \in Seq(States) /\ Len(<<>>) <= SubBuffer
    OBVIOUS
  <1>1. CASE UNCHANGED busVars
    BY <1>1 DEF busVars
  <1>2. ASSUME NEW g \in Goroutines, Announces(g) PROVE EventsTypeOK'
    <2>1. state' \in States
      BY DEF TypeOK
    <2> QED
      BY <1>2, <2>1 DEF Announces
  <1>3. ASSUME NEW e \in pending, Publish(e) PROVE EventsTypeOK'
    <2>1. e.to \in States
      OBVIOUS
    <2>2. queue' \in Seq(States) /\ Len(queue') <= SubBuffer
      BY <1>3, <2>1 DEF Publish
    <2>3. stream \/ queue' = <<>>
      BY <1>3 DEF Publish
    <2> QED
      BY <1>3, <2>2, <2>3 DEF Publish
  <1>4. CASE Subscribe \/ Unsubscribe
    BY <1>0, <1>4 DEF Subscribe, Unsubscribe
  <1>5. CASE Deliver
    <2>1. Head(queue) \in States /\ Tail(queue) \in Seq(States) /\ Len(Tail(queue)) <= SubBuffer
      BY <1>5 DEF Deliver
    <2> QED
      BY <1>5, <2>1 DEF Deliver
  <1> QED
    BY <1>1, <1>2, <1>3, <1>4, <1>5, StepKinds DEF BusStep

\* The types of the bus and of its subscriber; a closed channel is never sent to.
THEOREM EventsTyped == EventsSpec => []EventsTypeOK
  <1>1. EventsInit => EventsTypeOK
    <2>1. <<>> \in Seq(States) /\ Len(<<>>) <= SubBuffer
      OBVIOUS
    <2> QED
      BY <2>1, InitTyped DEF EventsInit, EventsTypeOK
  <1>2. EventsTypeOK /\ TypeOK' /\ [EventsNext]_slotAndBus => EventsTypeOK'
    BY EventsStepTyped
  <1> QED
    BY <1>1, <1>2, EventsImplementSlot, TypeCorrect, PTL DEF EventsSpec

-----------------------------------------------------------------------------
(***************************************************************************)
(* Until two events are pending at once, the newest of the events that are *)
(* pending, queued or seen tells the state.                                *)
(***************************************************************************)
NewestTellsState ==
    /\ stream \/ seen = None
    /\ ~raced => \A e, f \in pending : e = f
    /\ ~raced /\ ~Unannounced =>
         /\ \A e \in pending : e.to = state
         /\ pending = {} /\ stream /\ ~dropped =>
              /\ queue # <<>> => queue[Len(queue)] = state
              /\ queue = <<>> => seen \in {state, None}

LEMMA NewestKept ==
    ASSUME EventsTypeOK, NewestTellsState, [EventsNext]_slotAndBus
    PROVE  NewestTellsState'
  <1> USE DEF EventsTypeOK, NewestTellsState
  <1>0. \A s \in Seq(States) : /\ Len(s) \in Nat
                              /\ s = <<>> <=> Len(s) = 0
    BY EmptySeq, LenProperties
  <1>1. CASE UNCHANGED busVars /\ (Unannounced' \/ UNCHANGED <<state, lastErr>>)
    BY <1>1 DEF busVars, Unannounced
  <1>2. ASSUME NEW g \in Goroutines, Announces(g) PROVE NewestTellsState'
    <2>1. raced' = (raced \/ pending # {})
      BY <1>2 DEF Announces
    <2>2. ~raced' => pending = {}
      BY <2>1
    <2>3. pending' = pending \cup {[by |-> g, to |-> state']} /\ UNCHANGED <<stream, seen>>
      BY <1>2 DEF Announces
    <2>4. ~raced' => pending' = {[by |-> g, to |-> state']}
      BY <2>2, <2>3
    <2>5. stream' \/ seen' = None
      BY <2>3
    <2>6. ~raced' => \A e, f \in pending' : e = f
      BY <2>4
    <2>7. ~raced' => pending' # {}
      BY <2>4
    <2>8. ASSUME ~raced', NEW e \in pending' PROVE e.to = state'
      <3>1. e = [by |-> g, to |-> state']
        BY <2>4, <2>8
      <3> QED
        BY <3>1
    <2> QED
      BY <2>5, <2>6, <2>7, <2>8
  <1>3. ASSUME NEW e \in pending, Publish(e), UNCHANGED <<state, lastErr>>
        PROVE  NewestTellsState'
    <2>1. CASE raced'
      BY <1>3, <2>1 DEF Publish
    <2>2. CASE raced /\ ~raced'
      BY <1>3, <2>2 DEF Publish
    <2>3. CASE ~raced
      <3>1. pending' = {} /\ UNCHANGED <<stream, seen>> /\ Unannounced' = Unannounced
        BY <1>3, <2>3 DEF Publish, Unannounced
      <3>2. stream /\ ~dropped' => queue' = Append(queue, e.to) /\ ~dropped
        <4>1. dropped' = (dropped \/ (stream /\ Len(queue) = SubBuffer))
          BY <1>3 DEF Publish
        <4>2. ~dropped' => ~dropped /\ ~(stream /\ Len(queue) = SubBuffer)
          BY <4>1
        <4>3. Len(queue) # SubBuffer => Len(queue) < SubBuffer
          OBVIOUS
        <4>4. stream /\ Len(queue) < SubBuffer => queue' = Append(queue, e.to)
          BY <1>3 DEF Publish
        <4> QED
          BY <4>2, <4>3, <4>4
      <3>3. e.to \in States /\ (~Unannounced => e.to = state)
        BY <2>3
      <3>4. stream /\ ~dropped' => queue' # <<>> /\ queue'[Len(queue')] = e.to
        BY <3>2, <3>3
      <3> QED
        BY <1>3, <3>1, <3>3, <3>4
    <2> QED
      BY <2>1, <2>2, <2>3
  <1>4. CASE (Subscribe \/ Unsubscribe) /\ UNCHANGED <<state, lastErr>>
    BY <1>4 DEF Subscribe, Unsubscribe, Unannounced
  <1>5. CASE Deliver /\ UNCHANGED <<state, lastErr>>
    <2>1. queue \in Seq(States) /\ queue # <<>>
      BY <1>5 DEF Deliver
    <2>2. /\ Len(queue) \in Nat \ {0} /\ Tail(queue) \in Seq(States)
          /\ Len(Tail(queue)) = Len(queue) - 1
          /\ \A i \in 1 .. Len(Tail(queue)) : Tail(queue)[i] = queue[i + 1]
      BY <1>0, <2>1, HeadTailProperties
    <2>3. CASE Len(queue) = 1
      <3>1. Tail(queue) = <<>>
        <4>1. \A s \in Seq(States) : Len(s) = 0 => s = <<>>
          BY EmptySeq
        <4>2. Len(Tail(queue)) = 0
          BY <2>2, <2>3
        <4> QED
          BY <2>2, <4>1, <4>2, Zenon
      <3>2. Head(queue) = queue[Len(queue)]
        BY <2>1, <2>3, HeadTailProperties
      <3> QED
        BY <1>5, <2>1, <3>1, <3>2 DEF Deliver, Unannounced
    <2>4. CASE Len(queue) # 1
      <3>1. Tail(queue) # <<>>
        <4>1. Len(Tail(queue)) # 0
          BY <2>2, <2>4
        <4>2. Len(<<>>) = 0
          OBVIOUS
        <4> QED
          BY <4>1, <4>2
      <3>2. Tail(queue)[Len(Tail(queue))] = queue[Len(queue)]
        BY <2>2, <2>4
      <3> QED
        BY <1>5, <2>1, <3>1, <3>2 DEF Deliver, Unannounced
    <2> QED
      BY <2>3, <2>4
  <1> QED
    BY <1>1, <1>2, <1>3, <1>4, <1>5, StepKinds DEF BusStep

THEOREM NewestInvariant == EventsSpec => []NewestTellsState
  <1>1. EventsInit => NewestTellsState
    BY DEF EventsInit, NewestTellsState
  <1>2. EventsTypeOK /\ NewestTellsState /\ [EventsNext]_slotAndBus => NewestTellsState'
    BY NewestKept
  <1> QED
    BY <1>1, <1>2, EventsTyped, PTL DEF EventsSpec

\* A client of the event stream that kept up and has read everything knows the
\* state of the slot, unless Start made it without an event or two goroutines
\* published at once: for any buffer and however the goroutines interleave.
THEOREM ClientsKnowTheState == EventsSpec => []ClientSeesState
  <1>1. NewestTellsState => ClientSeesState
    BY DEF NewestTellsState, ClientSeesState, Unannounced
  <1> QED
    BY <1>1, NewestInvariant, PTL

=============================================================================
