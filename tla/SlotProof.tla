------------------------------ MODULE SlotProof ------------------------------
(***************************************************************************)
(* Proofs about module Slot, for any sets of mounts and calls.             *)
(***************************************************************************)
EXTENDS Slot, TLAPS

USE SlotAssumption

\* The groups of variables an action leaves alone.
USE DEF vars, fields, procVars, loopVars, stopVars

-----------------------------------------------------------------------------
(***************************************************************************)
(* Type correctness.                                                       *)
(***************************************************************************)

LEMMA InitTyped == Init => TypeOK
  <1> SUFFICES ASSUME Init PROVE TypeOK
    OBVIOUS
  <1>1. \A c \in Stops : stopPc[c] = "waiting" => stopProc[c] \in Mounts
    BY DEF Init
  <1> QED
    BY <1>1 DEF Init, TypeOK, States, ErrorCodes, Reasons

LEMMA StartTyped ==
    ASSUME TypeOK, NEW m \in Mounts,
           StartCall(m) \/ StartBegin(m) \/ JvmExits(m)
    PROVE  TypeOK'
  <1>1. CASE StartBegin(m)
    BY <1>1 DEF TypeOK, StartBegin, BeginMount, MoveTo, States, ErrorCodes
  <1>2. CASE StartRefused(m)
    BY <1>2 DEF TypeOK, StartRefused, FailMount, MoveTo, States, ErrorCodes
  <1>3. CASE StartAcquire(m)
    BY <1>3 DEF TypeOK, StartAcquire, MoveTo
  <1>4. CASE StartLaunchFails(m)
    BY <1>4 DEF TypeOK, StartLaunchFails, FailMount, MoveTo, States, ErrorCodes
  <1>5. CASE StartSpawn(m)
    BY <1>5 DEF TypeOK, StartSpawn, MoveTo
  <1>6. CASE StartPublish(m)
    BY <1>6 DEF TypeOK, StartPublish, MoveTo, States
  <1>7. CASE JvmExits(m)
    BY <1>7 DEF TypeOK, JvmExits, Reasons
  <1>8. CASE StartJams(m)
    BY <1>8 DEF TypeOK, StartJams, MoveTo
  <1> QED
    BY <1>1, <1>2, <1>3, <1>4, <1>5, <1>6, <1>7, <1>8 DEF StartCall

LEMMA WatchTyped ==
    ASSUME TypeOK, NEW m \in Mounts, WatchExit(m) \/ Terminate(m)
    PROVE  TypeOK'
  <1>1. CASE WatchTeardown(m)
    <2>1. Verdict(ExitValue(m)) \in {"toIdle", "toKilled", "toCrashed"}
      BY DEF Verdict
    <2> QED
      BY <1>1, <2>1 DEF TypeOK, WatchTeardown, MoveTo
  <1>2. CASE WatchTransition(m)
    BY <1>2 DEF TypeOK, WatchTransition, Transition, MoveTo, States, ErrorCodes
  <1>3. CASE TerminateSeesExit(m)
    BY <1>3 DEF TypeOK, TerminateSeesExit
  <1>4. CASE TerminateKills(m)
    BY <1>4 DEF TypeOK, TerminateKills
  <1>5. CASE TerminateGivesUp(m)
    BY <1>5 DEF TypeOK, TerminateGivesUp
  <1>6. CASE WatchBlocks(m)
    BY <1>6 DEF TypeOK, WatchBlocks, MoveTo
  <1> QED
    BY <1>1, <1>2, <1>3, <1>4, <1>5, <1>6 DEF WatchExit, Terminate

LEMMA HealthTyped ==
    ASSUME TypeOK, NEW m \in Mounts, HealthLoop(m)
    PROVE  TypeOK'
  <1>1. CASE HealthQuit(m)
    BY <1>1 DEF TypeOK, HealthQuit, HealthAt
  <1>2. CASE HealthProbe(m)
    BY <1>2 DEF TypeOK, HealthProbe, HealthAt
  <1>3. CASE HealthRead(m)
    BY <1>3 DEF TypeOK, HealthRead, HealthAt
  <1>4. CASE HealthReadLate(m)
    BY <1>4 DEF TypeOK, HealthReadLate, HealthAt
  <1>5. CASE HealthToRunning(m)
    BY <1>5 DEF TypeOK, HealthToRunning, Transition, HealthAt, States
  <1>6. CASE HealthToError(m)
    BY <1>6 DEF TypeOK, HealthToError, Transition, HealthAt, States, ErrorCodes
  <1>7. CASE HealthKill(m)
    BY <1>7 DEF TypeOK, HealthKill, SpawnTerminate, LiveJvms, HealthAt
  <1> QED
    BY <1>1, <1>2, <1>3, <1>4, <1>5, <1>6, <1>7 DEF HealthLoop

LEMMA StopTyped ==
    ASSUME TypeOK, NEW c \in Stops,
           \/ StopCheck(c) \/ RestartCheck(c) \/ StopCall(c) \/ RestartGivesUp(c)
           \/ \E m \in Mounts : RestartStart(c, m)
    PROVE  TypeOK'
  <1>1. CASE StopCheck(c) \/ RestartCheck(c)
    BY <1>1 DEF TypeOK, StopCheck, RestartCheck, CheckStop, StopAt
  <1>2. CASE StopTransition(c)
    BY <1>2 DEF TypeOK, StopTransition, Transition, StopAt, States
  <1>3. CASE StopArm(c)
    BY <1>3 DEF TypeOK, StopArm, StopAt
  <1>4. CASE StopSeesExit(c)
    <2>1. stopProc[c] \in Mounts
      BY <1>4 DEF TypeOK, StopSeesExit
    <2> QED
      BY <1>4, <2>1 DEF TypeOK, StopSeesExit, StopAt
  <1>5. CASE StopSeesAbort(c)
    BY <1>5 DEF TypeOK, StopSeesAbort, StopAt
  <1>6. CASE StopRevert(c)
    BY <1>6 DEF TypeOK, StopRevert, Transition, StopAt, States
  <1>7. CASE StopEscalate(c)
    BY <1>7 DEF TypeOK, StopEscalate, SpawnTerminate, LiveJvms, StopAt
  <1>8. CASE RestartGivesUp(c)
    BY <1>8 DEF TypeOK, RestartGivesUp
  <1>9. ASSUME NEW m \in Mounts, RestartStart(c, m) PROVE TypeOK'
    BY <1>9 DEF TypeOK, RestartStart, BeginMount, MoveTo, States, ErrorCodes
  <1> QED
    BY <1>1, <1>2, <1>3, <1>4, <1>5, <1>6, <1>7, <1>8, <1>9 DEF StopCall

\* Every field and every goroutine-local variable keeps its type.
THEOREM TypeCorrect == Spec => []TypeOK
  <1>1. Init => TypeOK
    BY InitTyped
  <1>2. TypeOK /\ [Next]_vars => TypeOK'
    <2> SUFFICES ASSUME TypeOK, [Next]_vars PROVE TypeOK'
      OBVIOUS
    <2>1. CASE UNCHANGED vars
      BY <2>1 DEF TypeOK
    <2>2. ASSUME NEW m \in Mounts, StartBegin(m) \/ StartCall(m) \/ JvmExits(m)
          PROVE  TypeOK'
      BY <2>2, StartTyped
    <2>3. ASSUME NEW m \in Mounts, WatchExit(m) \/ Terminate(m)
          PROVE  TypeOK'
      BY <2>3, WatchTyped
    <2>4. ASSUME NEW m \in Mounts, HealthLoop(m) PROVE TypeOK'
      BY <2>4, HealthTyped
    <2>5. ASSUME NEW c \in Stops,
                 \/ StopCheck(c) \/ RestartCheck(c) \/ StopCall(c) \/ RestartGivesUp(c)
                 \/ \E m \in Mounts : RestartStart(c, m)
          PROVE  TypeOK'
      BY <2>5, StopTyped
    <2>6. CASE AbortStop
      BY <2>6 DEF TypeOK, AbortStop
    <2> QED
      BY <2>1, <2>2, <2>3, <2>4, <2>5, <2>6 DEF Next
  <1> QED
    BY <1>1, <1>2, PTL DEF Spec

-----------------------------------------------------------------------------
(***************************************************************************)
(* Without a startup timeout, the slot belongs to one mount at a time.     *)
(* TerminalIsQuiet is not inductive: that the terminal states are quiet    *)
(* rests on there being one active mount, on that mount being the one the  *)
(* fields name while its JVM may run, and on its lock being held exactly   *)
(* from TryAcquire to the end of watchExit's critical section, which it    *)
(* never reaches when Release waits for ever.                              *)
(***************************************************************************)
Holding == {m \in Mounts : phase[m] \in {"locked", "jammed", "spawned", "mounted", "blocked"}}

OneOwner ==
    /\ \A m, n \in Active : m = n
    /\ state \in CanStartFrom => Active = {}
    /\ \A m \in Mounts : process = m <=> phase[m] \in {"mounted", "blocked"}
    /\ held = Holding
    /\ \A m \in Mounts : Alive(m) => phase[m] \in {"spawned", "mounted"}

IInv == TypeOK /\ (timedOut = {} => OneOwner)

LEMMA InitOwner == Init => IInv
  <1> SUFFICES ASSUME Init PROVE IInv
    OBVIOUS
  <1>1. TypeOK
    BY InitTyped
  <1>2. OneOwner
    BY DEF Init, OneOwner, Active, Holding, Alive
  <1> QED
    BY <1>1, <1>2 DEF IInv

\* A step that leaves phase, held and process alone, ends no mount's JVM but
\* its own and does not make the state terminal, keeps the owner.
LEMMA OwnerKept ==
    ASSUME OneOwner, TypeOK,
           UNCHANGED <<phase, held, process>>,
           \A m \in Mounts : Alive(m)' => Alive(m),
           state' \in CanStartFrom => state \in CanStartFrom
    PROVE  OneOwner'
  BY DEF OneOwner, Active, Holding

LEMMA StartOwner ==
    ASSUME OneOwner, TypeOK, NEW m \in Mounts,
           StartCall(m) \/ BeginMount(m)
    PROVE  OneOwner'
  <1> USE DEF TypeOK, MoveTo
  <1>1. CASE BeginMount(m)
    BY <1>1 DEF OneOwner, BeginMount, Active, Holding, Alive, CanStartFrom
  <1>2. CASE StartRefused(m)
    BY <1>2 DEF OneOwner, StartRefused, FailMount, Active, Holding, Alive
  <1>3. CASE StartAcquire(m)
    BY <1>3 DEF OneOwner, StartAcquire, Active, Holding, Alive
  <1>4. CASE StartLaunchFails(m)
    BY <1>4 DEF OneOwner, StartLaunchFails, FailMount, Active, Holding, Alive
  <1>5. CASE StartSpawn(m)
    BY <1>5 DEF OneOwner, StartSpawn, Active, Holding, Alive
  <1>6. CASE StartPublish(m)
    BY <1>6 DEF OneOwner, StartPublish, Active, Holding, Alive, CanStartFrom
  <1>7. CASE StartJams(m)
    <2>1. MutexFree
      BY <1>7 DEF OneOwner, StartJams, MutexFree, Active
    <2> QED
      BY <1>7, <2>1 DEF OneOwner, StartJams, Active, Holding, Alive
  <1> QED
    BY <1>1, <1>2, <1>3, <1>4, <1>5, <1>6, <1>7 DEF StartCall

LEMMA WatchOwner ==
    ASSUME OneOwner, TypeOK, NEW m \in Mounts, WatchExit(m)
    PROVE  OneOwner'
  <1> USE DEF TypeOK, MoveTo
  <1>1. CASE WatchTeardown(m)
    <2> DEFINE v == Verdict(ExitValue(m))
    <2>1. v \in {"toIdle", "toKilled", "toCrashed"}
      BY DEF Verdict
    <2>2. /\ phase[m] = "mounted" /\ process = m /\ ~Alive(m)
          /\ phase' = [phase EXCEPT ![m] = v]
          /\ held' = held \ {m} /\ process' = None
          /\ UNCHANGED <<state, jvm>>
      BY <1>1 DEF OneOwner, WatchTeardown, Alive, Exited, Reasons
    <2> HIDE DEF v
    <2> QED
      BY <2>1, <2>2 DEF OneOwner, Active, Holding, Alive
  <1>2. CASE WatchTransition(m)
    BY <1>2 DEF OneOwner, WatchTransition, Active, Holding, Alive
  <1>3. CASE WatchBlocks(m)
    <2>1. ~Alive(m)
      BY <1>3 DEF WatchBlocks, Alive, Exited, Reasons
    <2> QED
      BY <1>3, <2>1 DEF OneOwner, WatchBlocks, Active, Holding, Alive
  <1> QED
    BY <1>1, <1>2, <1>3 DEF WatchExit

\* The remaining actions leave phase, held and process alone.
LEMMA OthersKeepOwner ==
    ASSUME OneOwner, TypeOK, timedOut' = {},
           \/ \E m \in Mounts : JvmExits(m) \/ HealthLoop(m) \/ Terminate(m)
           \/ \E c \in Stops : \/ StopCheck(c) \/ RestartCheck(c)
                               \/ StopCall(c) \/ RestartGivesUp(c)
           \/ AbortStop
    PROVE  OneOwner'
  <1> USE DEF TypeOK
  <1>1. ASSUME NEW m \in Mounts, JvmExits(m) PROVE OneOwner'
    <2>1. \A n \in Mounts : Alive(n)' => Alive(n)
      BY <1>1 DEF JvmExits, Alive, Reasons
    <2> QED
      BY <1>1, <2>1, OwnerKept DEF JvmExits
  <1>2. ASSUME NEW m \in Mounts, HealthLoop(m) PROVE OneOwner'
    <2>1. UNCHANGED <<phase, held, process, jvm>>
      BY <1>2 DEF HealthLoop, HealthQuit, HealthProbe, HealthRead, HealthReadLate,
                  HealthToRunning, HealthToError, HealthKill
    <2>2. ~HealthToError(m)
      BY DEF HealthToError
    <2>3. state' \in CanStartFrom => state \in CanStartFrom
      BY <1>2, <2>2 DEF HealthLoop, HealthQuit, HealthProbe, HealthRead,
            HealthReadLate, HealthToRunning, HealthKill, Transition, CanStartFrom
    <2> QED
      BY <2>1, <2>3, OwnerKept DEF Alive
  <1>3. ASSUME NEW m \in Mounts, Terminate(m) PROVE OneOwner'
    <2>1. UNCHANGED <<phase, held, process, state>>
      BY <1>3 DEF Terminate, TerminateSeesExit, TerminateKills, TerminateGivesUp
    <2>2. \A n \in Mounts : Alive(n)' => Alive(n)
      BY <1>3 DEF Terminate, TerminateSeesExit, TerminateKills, TerminateGivesUp, Alive
    <2> QED
      BY <2>1, <2>2, OwnerKept
  <1>4. ASSUME NEW c \in Stops,
               StopCheck(c) \/ RestartCheck(c) \/ StopCall(c) \/ RestartGivesUp(c)
        PROVE  OneOwner'
    <2>1. UNCHANGED <<phase, held, process, jvm>>
      BY <1>4 DEF StopCheck, RestartCheck, CheckStop, StopCall, StopTransition, StopArm,
                  StopSeesExit, StopSeesAbort, StopRevert, StopEscalate, RestartGivesUp
    <2>2. state' \in CanStartFrom => state \in CanStartFrom
      BY <1>4 DEF StopCheck, RestartCheck, CheckStop, StopCall, StopTransition, StopArm,
                  StopSeesExit, StopSeesAbort, StopRevert, StopEscalate, RestartGivesUp,
                  Transition, CanStartFrom
    <2> QED
      BY <2>1, <2>2, OwnerKept DEF Alive
  <1>5. CASE AbortStop
    BY <1>5, OwnerKept DEF AbortStop, Alive
  <1> QED
    BY <1>1, <1>2, <1>3, <1>4, <1>5

\* A startup timeout is never forgotten.
LEMMA TimeoutsStay ==
    ASSUME [Next]_vars, timedOut' = {}
    PROVE  timedOut = {}
  <1>1. CASE UNCHANGED vars
    BY <1>1
  <1>2. ASSUME NEW m \in Mounts, HealthLoop(m) PROVE timedOut = {}
    BY <1>2 DEF HealthLoop, HealthQuit, HealthProbe, HealthRead, HealthReadLate,
                HealthToRunning, HealthToError, HealthKill
  <1>3. ASSUME NEW m \in Mounts,
               \/ StartBegin(m) \/ StartCall(m) \/ JvmExits(m)
               \/ WatchExit(m) \/ Terminate(m)
        PROVE  timedOut = {}
    BY <1>3 DEF StartBegin, BeginMount, StartCall, StartRefused, StartAcquire,
                StartLaunchFails, StartJams, StartSpawn, StartPublish, JvmExits, WatchExit,
                WatchTeardown, WatchBlocks, WatchTransition, Terminate, TerminateSeesExit,
                TerminateKills, TerminateGivesUp
  <1>4. ASSUME NEW c \in Stops,
               \/ StopCheck(c) \/ RestartCheck(c) \/ StopCall(c) \/ RestartGivesUp(c)
               \/ \E m \in Mounts : RestartStart(c, m)
        PROVE  timedOut = {}
    BY <1>4 DEF StopCheck, RestartCheck, CheckStop, StopCall, StopTransition, StopArm,
                StopSeesExit, StopSeesAbort, StopRevert, StopEscalate, RestartGivesUp,
                RestartStart, BeginMount
  <1>5. CASE AbortStop
    BY <1>5 DEF AbortStop
  <1> QED
    BY <1>1, <1>2, <1>3, <1>4, <1>5 DEF Next

LEMMA NextOwner == IInv /\ TypeOK' /\ [Next]_vars => IInv'
  <1> SUFFICES ASSUME IInv, TypeOK', [Next]_vars, timedOut' = {}
               PROVE  OneOwner'
    BY DEF IInv
  <1>1. timedOut = {}
    BY TimeoutsStay
  <1>2. OneOwner /\ TypeOK
    BY <1>1 DEF IInv
  <1>3. CASE UNCHANGED vars
    BY <1>2, <1>3, OwnerKept DEF Alive
  <1>4. ASSUME NEW m \in Mounts, StartBegin(m) \/ StartCall(m) PROVE OneOwner'
    BY <1>2, <1>4, StartOwner DEF StartBegin
  <1>5. ASSUME NEW m \in Mounts, WatchExit(m) PROVE OneOwner'
    BY <1>2, <1>5, WatchOwner
  <1>6. ASSUME NEW c \in Stops, NEW m \in Mounts, RestartStart(c, m) PROVE OneOwner'
    BY <1>2, <1>6, StartOwner DEF RestartStart
  <1>7. CASE \/ \E m \in Mounts : JvmExits(m) \/ HealthLoop(m) \/ Terminate(m)
             \/ \E c \in Stops : \/ StopCheck(c) \/ RestartCheck(c)
                                 \/ StopCall(c) \/ RestartGivesUp(c)
             \/ AbortStop
    BY <1>2, <1>7, OthersKeepOwner
  <1> QED
    BY <1>3, <1>4, <1>5, <1>6, <1>7 DEF Next

THEOREM OwnerInvariant == Spec => []IInv
  BY InitOwner, NextOwner, TypeCorrect, PTL DEF Spec

\* A slot in a terminal state is quiet unless a startup timeout occurred.
THEOREM TerminalSlotIsQuiet == Spec => []TerminalIsQuiet
  <1>1. IInv => TerminalIsQuiet
    BY DEF IInv, OneOwner, TerminalIsQuiet, Active, Holding, LiveJvms, TypeOK
  <1> QED
    BY <1>1, OwnerInvariant, PTL

\* The lock of a mount is held while its JVM runs, and no longer than the
\* mount lasts, unless a startup timeout occurred.
THEOREM JvmRunsUnderLock == Spec => []LockCoversJvm
  <1>1. IInv => LockCoversJvm
    BY DEF IInv, OneOwner, LockCoversJvm, Active, Holding, LiveJvms
  <1> QED
    BY <1>1, OwnerInvariant, PTL

\* Without a startup timeout the handlers of restore, offline backup and update
\* (handlers_backups.go, handlers_update.go) refuse every call: a slot that is
\* terminal has no mounted server left for requireSlotAndServer to find.
THEOREM RestoreNeedsTimeout == Spec => [](timedOut = {} => ~RestoreAdmitted)
  <1>1. TerminalIsQuiet => (timedOut = {} => ~RestoreAdmitted)
    BY DEF TerminalIsQuiet, RestoreAdmitted
  <1> QED
    BY <1>1, TerminalSlotIsQuiet, PTL

-----------------------------------------------------------------------------
(***************************************************************************)
(* Every assignment of crashed or error comes with a reason, and only      *)
(* steps into mounting or idle take the reason away.                       *)
(***************************************************************************)
THEOREM FailuresAreExplained == Spec => []FailureIsExplained
  <1>1. Init => FailureIsExplained
    BY DEF Init, FailureIsExplained
  <1>2. FailureIsExplained /\ [Next]_vars => FailureIsExplained'
    <2> SUFFICES ASSUME FailureIsExplained, [Next]_vars PROVE FailureIsExplained'
      OBVIOUS
    <2> USE DEF FailureIsExplained
    <2>1. CASE UNCHANGED vars
      BY <2>1
    <2>2. ASSUME NEW m \in Mounts,
                 \/ StartBegin(m) \/ StartCall(m) \/ JvmExits(m)
                 \/ WatchExit(m) \/ Terminate(m)
          PROVE  FailureIsExplained'
      BY <2>2 DEF StartBegin, BeginMount, StartCall, StartRefused, StartAcquire,
                  StartLaunchFails, StartJams, StartSpawn, StartPublish, FailMount, JvmExits,
                  WatchExit, WatchTeardown, WatchBlocks, WatchTransition, Transition, Terminate,
                  TerminateSeesExit, TerminateKills, TerminateGivesUp
    <2>3. ASSUME NEW m \in Mounts, HealthLoop(m) PROVE FailureIsExplained'
      BY <2>3 DEF HealthLoop, HealthQuit, HealthProbe, HealthRead, HealthReadLate,
                  HealthToRunning, HealthToError, HealthKill, Transition
    <2>4. ASSUME NEW c \in Stops,
                 \/ StopCheck(c) \/ RestartCheck(c) \/ StopCall(c) \/ RestartGivesUp(c)
                 \/ \E m \in Mounts : RestartStart(c, m)
          PROVE  FailureIsExplained'
      BY <2>4 DEF StopCheck, RestartCheck, CheckStop, StopCall, StopTransition, StopArm,
                  StopSeesExit, StopSeesAbort, StopRevert, StopEscalate, RestartGivesUp,
                  RestartStart, BeginMount, Transition
    <2>5. CASE AbortStop
      BY <2>5 DEF AbortStop
    <2> QED
      BY <2>1, <2>2, <2>3, <2>4, <2>5 DEF Next
  <1> QED
    BY <1>1, <1>2, PTL DEF Spec
=============================================================================
