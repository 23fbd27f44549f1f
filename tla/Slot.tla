-------------------------------- MODULE Slot --------------------------------
(***************************************************************************)
(* One slot of mcsm (internal/slot/slot.go) and the goroutines that share  *)
(* its fields under s.mu: the Start and Stop calls, the Stop goroutine     *)
(* with its grace timer, watchExit, healthLoop, the restart poller, and    *)
(* process.Terminate.  A step of the model is a piece of code between two  *)
(* points where s.mu is not held, so that every interleaving the mutex     *)
(* permits is a behaviour.  watchExit calls Held.Release inside such a     *)
(* piece, and Release may wait for its heartbeat for ever (lock/acquire.go *)
(* 126 and 147, module OwnerLock): s.mu is then never free again, and      *)
(* every step that has to lock it is no longer enabled.                    *)
(*                                                                         *)
(* A mount is one call of Start that got past CanStartFrom, and the JVM,   *)
(* lock.Held and goroutines that call creates.  The fields             *)
(* server, process and lock are always assigned together (Start,           *)
(* failMount, watchExit), so `process' stands for the three; mountedID and *)
(* cancelCtx likewise share `mountedID' (failMount clears neither).  What  *)
(* only reports (slp, timestamps, events) is left out; nothing here reads  *)
(* rconClient, which modules Rcon and Backups model with its users.        *)
(***************************************************************************)
EXTENDS Naturals, FiniteSets

CONSTANTS Mounts,  \* the mounts that may ever be attempted (bounds Start)
          Slow,    \* the mounts that may outlast the startup budget
          Stops,   \* the Stop and Restart calls that may ever be made
          None     \* a nil pointer or an empty id

ASSUME SlotAssumption == None \notin Mounts \cup Stops /\ Slow \subseteq Mounts

VARIABLES
    state,       \* s.state
    lastErr,     \* the code of s.lastErr, or "none"
    process,     \* the mount behind s.process, s.server and s.lock
    mountedID,   \* the mount behind s.mountedID and s.cancelCtx
    stopping,    \* s.stopping
    stopAbort,   \* the Stop call that created the channel s.stopAbort
    phase,       \* per mount: where Start, then watchExit, has got to
    jvm,         \* per mount: the JVM, and its exit reason once it is gone
    received,    \* the mounts whose single exit value was already received
    held,        \* the mounts whose lock.Held is not released
    ctxDone,     \* the mounts whose background context is cancelled
    health,      \* per mount: where healthLoop is
    timedOut,    \* the mounts whose healthLoop declared a startup timeout
    terminators, \* the mounts whose JVM a process.Terminate is ending
    stopPc,      \* per Stop call: where it is
    stopProc,    \* per Stop call: the process it captured
    abortClosed, \* the Stop calls whose abort channel is closed
    polling      \* the restart pollers still waiting for a startable state

fields == <<state, lastErr, process, mountedID, stopping, stopAbort>>
procVars == <<jvm, received, terminators>>
loopVars == <<health, timedOut, ctxDone>>
stopVars == <<stopPc, stopProc, abortClosed, polling>>
vars == <<fields, phase, held, procVars, loopVars, stopVars>>

-----------------------------------------------------------------------------
States == {"idle", "mounting", "starting", "running", "stopping", "crashed", "error"}
CanStartFrom_Stopping == {"idle", "crashed", "error", "stopping"}
CanStartFrom == {"idle", "crashed", "error"}
CanStopFrom == {"running", "starting"}

ErrorCodes == {"none", "mount_failed", "startup_timeout",
               "killed_after_grace", "process_exited_nonzero"}

\* The classification of waitAndPublish.
Reasons == {"normal", "killed", "crashed"}

Alive(m) == jvm[m] \in {"alive", "doomed"}
Exited(m) == jvm[m] \in Reasons
LiveJvms == {m \in Mounts : Alive(m)}

\* What a receive from the exit channel of m returns: the value once, then
\* the zero value of the closed channel.
ExitValue(m) == IF m \in received THEN "zero" ELSE jvm[m]

TypeOK ==
    /\ state \in States
    /\ lastErr \in ErrorCodes
    /\ process \in Mounts \cup {None}
    /\ mountedID \in Mounts \cup {None}
    /\ stopping \in BOOLEAN
    /\ stopAbort \in Stops \cup {None}
    /\ phase \in [Mounts -> {"new", "prepare", "locked", "jammed", "spawned", "mounted",
                             "blocked", "toIdle", "toKilled", "toCrashed", "gone"}]
    /\ jvm \in [Mounts -> {"none", "alive", "doomed"} \cup Reasons]
    /\ received \subseteq Mounts
    /\ held \subseteq Mounts
    /\ ctxDone \subseteq Mounts
    /\ health \in [Mounts -> {"off", "wait", "up", "toRunning", "toError", "kill"}]
    /\ timedOut \subseteq Mounts
    /\ terminators \subseteq Mounts
    /\ stopPc \in [Stops -> {"new", "checked", "marked", "waiting",
                             "reverting", "done"}]
    /\ stopProc \in [Stops -> Mounts \cup {None}]
    /\ \A c \in Stops : stopPc[c] = "waiting" => stopProc[c] \in Mounts
    /\ abortClosed \subseteq Stops
    /\ polling \subseteq Stops

Init ==
    /\ state = "idle"
    /\ lastErr = "none"
    /\ process = None
    /\ mountedID = None
    /\ stopping = FALSE
    /\ stopAbort = None
    /\ phase = [m \in Mounts |-> "new"]
    /\ jvm = [m \in Mounts |-> "none"]
    /\ received = {}
    /\ held = {}
    /\ ctxDone = {}
    /\ health = [m \in Mounts |-> "off"]
    /\ timedOut = {}
    /\ terminators = {}
    /\ stopPc = [c \in Stops |-> "new"]
    /\ stopProc = [c \in Stops |-> None]
    /\ abortClosed = {}
    /\ polling = {}

-----------------------------------------------------------------------------
\* The assignments of transition(to, lastErr), a nil lastErr being "none".
Transition(to, err) ==
    /\ state' = to
    /\ lastErr' = IF err # "none" THEN err
                  ELSE IF to = "idle" THEN "none" ELSE lastErr

\* Definitions named <operator>_<what differs> deviate from the code: each is a
\* plausible mistake that the property named in PROJECT.json must notice.
MoveTo(m, p) == phase' = [phase EXCEPT ![m] = p]

\* No watchExit is blocked in Held.Release, inside its critical section.  A
\* guard of every step that locks s.mu.
MutexFree == \A m \in Mounts : phase[m] # "blocked"

(***************************************************************************)
(* Start.                                                                  *)
(***************************************************************************)
\* The first critical section: the state check and the reset of the fields.
BeginMount(m) ==
    /\ MutexFree
    /\ phase[m] = "new"
    /\ state \in CanStartFrom
    /\ state' = "mounting"
    /\ lastErr' = "none"
    /\ stopping' = FALSE
    /\ MoveTo(m, "prepare")
    /\ UNCHANGED <<process, mountedID, stopAbort, held,
                   procVars, loopVars, stopPc, stopProc, abortClosed>>

\* handleSlotStart calls it (RestartStart is the other caller).
StartBegin(m) == BeginMount(m) /\ UNCHANGED polling

\* failMount forgets whatever s.process, s.server and s.lock held.
FailMount ==
    /\ state' = "error"
    /\ lastErr' = "mount_failed"
    /\ process' = None

\* The server is not found or not accepted, its config cannot be read, its
\* properties cannot be patched, or TryAcquire refuses the lock.
StartRefused(m) ==
    /\ MutexFree
    /\ phase[m] = "prepare"
    /\ FailMount
    /\ MoveTo(m, "gone")
    /\ UNCHANGED <<mountedID, stopping, stopAbort, held,
                   procVars, loopVars, stopVars>>

StartAcquire(m) ==
    /\ phase[m] = "prepare"
    /\ held' = held \cup {m}
    /\ MoveTo(m, "locked")
    /\ UNCHANGED <<fields, procVars, loopVars, stopVars>>

StartLaunchFails_KeepsLock(m) ==
    /\ MutexFree
    /\ phase[m] = "locked"
    /\ FailMount
    /\ MoveTo(m, "gone")
    /\ UNCHANGED <<mountedID, held, stopping, stopAbort, procVars, loopVars, stopVars>>

\* PlanLaunch or process.Start fails: the lock is released, then failMount.
StartLaunchFails(m) ==
    /\ MutexFree
    /\ phase[m] = "locked"
    /\ held' = held \ {m}
    /\ FailMount
    /\ MoveTo(m, "gone")
    /\ UNCHANGED <<mountedID, stopping, stopAbort, procVars, loopVars, stopVars>>

\* That Release, which does not hold s.mu, waits for ever, or failMount does
\* after it because another Release has kept s.mu.
StartJams(m) ==
    /\ phase[m] = "locked"
    /\ MoveTo(m, "jammed")
    /\ held' = held \/ (~MutexFree /\ held' = held \ {m})
    /\ UNCHANGED <<fields, procVars, loopVars, stopVars>>

StartSpawn(m) ==
    /\ phase[m] = "locked"
    /\ jvm' = [jvm EXCEPT ![m] = "alive"]
    /\ MoveTo(m, "spawned")
    /\ UNCHANGED <<fields, held, received, terminators, loopVars, stopVars>>

\* The last critical section, and the goroutines spawned after it.  It
\* does not reset stopping.
StartPublish(m) ==
    /\ MutexFree
    /\ phase[m] = "spawned"
    /\ process' = m
    /\ mountedID' = m
    /\ state' = "starting"
    /\ MoveTo(m, "mounted")
    /\ health' = [health EXCEPT ![m] = "wait"]
    /\ UNCHANGED <<lastErr, stopping, stopAbort, held, procVars,
                   timedOut, ctxDone, stopVars>>

(***************************************************************************)
(* The JVM, and process.waitAndPublish.                                    *)
(***************************************************************************)
\* The JVM ends for any reason of its own; after SIGKILL only as killed.
JvmExits(m) ==
    /\ Alive(m)
    /\ \E r \in IF jvm[m] = "doomed" THEN {"killed"} ELSE Reasons :
         jvm' = [jvm EXCEPT ![m] = r]
    /\ UNCHANGED <<fields, phase, held, received, terminators, loopVars, stopVars>>

(***************************************************************************)
(* watchExit.                                                              *)
(***************************************************************************)
\* What the switch at the end of watchExit will do with this exit value.
Verdict(info) ==
    IF stopping /\ info = "normal" THEN "toIdle"
    ELSE IF stopping /\ info = "killed" THEN "toKilled"
    ELSE "toCrashed"

WatchTeardown_KeepsLock(m) ==
    /\ MutexFree
    /\ phase[m] = "mounted"
    /\ Exited(m)
    /\ received' = received \cup {m}
    /\ MoveTo(m, Verdict(ExitValue(m)))
    /\ ctxDone' = ctxDone \cup ({mountedID} \ {None})
    /\ process' = None
    /\ mountedID' = None
    /\ UNCHANGED <<state, lastErr, held, stopping, stopAbort, jvm, terminators,
                   health, timedOut, stopVars>>

\* The receive and the critical section.  It tears down what the fields hold
\* now, which need not be the mount this watchExit was started for.
WatchTeardown(m) ==
    /\ MutexFree
    /\ phase[m] = "mounted"
    /\ Exited(m)
    /\ received' = received \cup {m}
    /\ MoveTo(m, Verdict(ExitValue(m)))
    /\ ctxDone' = ctxDone \cup ({mountedID} \ {None})
    /\ held' = held \ {process}
    /\ process' = None
    /\ mountedID' = None
    /\ UNCHANGED <<state, lastErr, stopping, stopAbort, jvm, terminators,
                   health, timedOut, stopVars>>

\* The Release in that section waits for ever: the heartbeat had fired before
\* it was cancelled and waits for the mutex of the Held in Refresh.
WatchBlocks(m) ==
    /\ MutexFree
    /\ phase[m] = "mounted"
    /\ Exited(m)
    /\ process # None
    /\ received' = received \cup {m}
    /\ MoveTo(m, "blocked")
    /\ ctxDone' = ctxDone \cup ({mountedID} \ {None})
    /\ UNCHANGED <<fields, held, jvm, terminators, health, timedOut, stopVars>>

\* The transition, after s.mu was released and the Discord session closed.
WatchTransition(m) ==
    /\ MutexFree
    /\ \/ phase[m] = "toIdle" /\ Transition("idle", "none")
       \/ phase[m] = "toKilled" /\ Transition("idle", "killed_after_grace")
       \/ phase[m] = "toCrashed" /\ Transition("crashed", "process_exited_nonzero")
    /\ MoveTo(m, "gone")
    /\ UNCHANGED <<process, mountedID, stopping, stopAbort, held,
                   procVars, loopVars, stopVars>>

(***************************************************************************)
(* healthLoop.  The startup deadline may have passed or not whenever the   *)
(* loop looks at it.                                                       *)
(***************************************************************************)
HealthAt(m, h) == health' = [health EXCEPT ![m] = h]

HealthQuit(m) ==
    /\ health[m] = "wait"
    /\ m \in ctxDone
    /\ HealthAt(m, "off")
    /\ UNCHANGED <<fields, phase, held, procVars, timedOut, ctxDone, stopVars>>

\* A successful probe of the slot's port, without s.mu: any live JVM answers
\* it.  With a cancelled context (select may prefer the tick) it fails.
HealthProbe(m) ==
    /\ health[m] = "wait"
    /\ LiveJvms # {}
    /\ m \notin ctxDone
    /\ HealthAt(m, "up")
    /\ UNCHANGED <<fields, phase, held, procVars, timedOut, ctxDone, stopVars>>

\* The critical section reads the state the loop will act on after unlocking.
HealthRead(m) ==
    /\ MutexFree
    /\ health[m] = "up"
    /\ HealthAt(m, IF state = "starting" THEN "toRunning" ELSE "wait")
    /\ UNCHANGED <<fields, phase, held, procVars, timedOut, ctxDone, stopVars>>

\* A failed probe, which changes nothing unless the deadline has passed.
HealthReadLate(m) ==
    /\ MutexFree
    /\ health[m] = "wait"
    /\ m \in Slow
    /\ state = "starting"
    /\ HealthAt(m, "toError")
    /\ UNCHANGED <<fields, phase, held, procVars, timedOut, ctxDone, stopVars>>

\* The deadline is looked at even after a successful probe.
HealthToRunning(m) ==
    /\ MutexFree
    /\ health[m] = "toRunning"
    /\ Transition("running", "none")
    /\ \/ HealthAt(m, "wait")
       \/ m \in Slow /\ HealthAt(m, "toError")
    /\ UNCHANGED <<process, mountedID, stopping, stopAbort, phase,
                   held, procVars, timedOut, ctxDone, stopVars>>

HealthToError(m) ==
    /\ MutexFree
    /\ health[m] = "toError"
    /\ Transition("error", "startup_timeout")
    /\ timedOut' = timedOut \cup {m}
    /\ HealthAt(m, "kill")
    /\ UNCHANGED <<process, mountedID, stopping, stopAbort, phase,
                   held, procVars, ctxDone, stopVars>>

\* Terminate(p) returns at once if p is nil or already gone, else it signals.
SpawnTerminate(p) == terminators' = terminators \cup ({p} \cap LiveJvms)

HealthKill(m) ==
    /\ MutexFree
    /\ health[m] = "kill"
    /\ SpawnTerminate(process)
    /\ HealthAt(m, "off")
    /\ UNCHANGED <<fields, phase, held, jvm, received, timedOut,
                   ctxDone, stopVars>>

(***************************************************************************)
(* process.Terminate on the JVM of m, after its SIGTERM.  It receives from *)
(* the same exit channel as watchExit.  Two calls on one JVM are one.      *)
(***************************************************************************)
TerminateSeesExit(m) ==
    /\ m \in terminators
    /\ Exited(m)
    /\ received' = received \cup {m}
    /\ terminators' = terminators \ {m}
    /\ UNCHANGED <<fields, phase, held, jvm, loopVars, stopVars>>

TerminateKills_CtxFirst(m) ==
    /\ m \in terminators
    /\ jvm[m] = "alive"
    /\ terminators' = terminators \ {m}
    /\ UNCHANGED <<fields, phase, held, jvm, received, loopVars, stopVars>>

TerminateKills(m) ==
    /\ m \in terminators
    /\ jvm[m] = "alive"
    /\ jvm' = [jvm EXCEPT ![m] = "doomed"]
    /\ UNCHANGED <<fields, phase, held, received, terminators, loopVars, stopVars>>

\* Five seconds after SIGKILL it returns "refused to die".
TerminateGivesUp(m) ==
    /\ m \in terminators
    /\ jvm[m] # "alive"
    /\ terminators' = terminators \ {m}
    /\ UNCHANGED <<fields, phase, held, jvm, received, loopVars, stopVars>>

(***************************************************************************)
(* Stop, AbortStop and Restart.                                            *)
(***************************************************************************)
StopAt(c, p) == stopPc' = [stopPc EXCEPT ![c] = p]

\* The check under RLock; a refused call changes nothing.
CheckStop(c) ==
    /\ MutexFree
    /\ stopPc[c] = "new"
    /\ state \in CanStopFrom
    /\ StopAt(c, "checked")
    /\ UNCHANGED <<fields, phase, held, procVars, loopVars, stopProc, abortClosed>>

\* handleSlotStop calls it through slotMutate (RestartCheck is the other caller).
StopCheck(c) == CheckStop(c) /\ UNCHANGED polling

RestartCheck(c) ==
    /\ mountedID # None
    /\ CheckStop(c)
    /\ polling' = polling \cup {c}

StopTransition(c) ==
    /\ MutexFree
    /\ stopPc[c] = "checked"
    /\ Transition("stopping", "none")
    /\ StopAt(c, "marked")
    /\ UNCHANGED <<process, mountedID, stopping, stopAbort, phase,
                   held, procVars, loopVars, stopProc, abortClosed, polling>>

\* The second critical section.  The goroutine it spawns sends "stop" over
\* RCON, which is one reason for JvmExits, and returns if there is no process.
StopArm(c) ==
    /\ MutexFree
    /\ stopPc[c] = "marked"
    /\ stopping' = TRUE
    /\ stopAbort' = c
    /\ stopProc' = [stopProc EXCEPT ![c] = process]
    /\ StopAt(c, IF process = None THEN "done" ELSE "waiting")
    /\ UNCHANGED <<state, lastErr, process, mountedID, phase, held,
                   procVars, loopVars, abortClosed, polling>>

\* The goroutine's select takes the exit value out of the channel...
StopSeesExit(c) ==
    /\ stopPc[c] = "waiting"
    /\ Exited(stopProc[c])
    /\ received' = received \cup {stopProc[c]}
    /\ StopAt(c, "done")
    /\ UNCHANGED <<fields, phase, held, jvm, terminators, loopVars,
                   stopProc, abortClosed, polling>>

\* ...or sees its abort channel closed, and resets the fields if it still may...
StopSeesAbort(c) ==
    /\ MutexFree
    /\ stopPc[c] = "waiting"
    /\ c \in abortClosed
    /\ IF state = "stopping"
       THEN stopping' = FALSE /\ stopAbort' = None
       ELSE UNCHANGED <<stopping, stopAbort>>
    /\ StopAt(c, "reverting")
    /\ UNCHANGED <<state, lastErr, process, mountedID, phase, held,
                   procVars, loopVars, stopProc, abortClosed, polling>>

\* ...then goes back to running, whatever the state is by now...
StopRevert(c) ==
    /\ MutexFree
    /\ stopPc[c] = "reverting"
    /\ Transition("running", "none")
    /\ StopAt(c, "done")
    /\ UNCHANGED <<process, mountedID, stopping, stopAbort, phase,
                   held, procVars, loopVars, stopProc, abortClosed, polling>>

\* ...or the grace timer fires.
StopEscalate(c) ==
    /\ stopPc[c] = "waiting"
    /\ SpawnTerminate(stopProc[c])
    /\ StopAt(c, "done")
    /\ UNCHANGED <<fields, phase, held, jvm, received, loopVars,
                   stopProc, abortClosed, polling>>

AbortStop_NilChannel ==
    /\ MutexFree
    /\ state = "stopping"
    /\ abortClosed' = abortClosed \cup {stopAbort}
    /\ stopAbort' = None
    /\ UNCHANGED <<state, lastErr, process, mountedID, stopping,
                   phase, held, procVars, loopVars, stopPc, stopProc, polling>>

AbortStop ==
    /\ MutexFree
    /\ state = "stopping"
    /\ stopAbort # None
    /\ abortClosed' = abortClosed \cup {stopAbort}
    /\ stopAbort' = None
    /\ UNCHANGED <<state, lastErr, process, mountedID, stopping,
                   phase, held, procVars, loopVars, stopPc, stopProc, polling>>

\* The poller starts when Stop has returned and a state is startable.
RestartStart(c, m) ==
    /\ c \in polling
    /\ stopPc[c] \notin {"checked", "marked"}
    /\ BeginMount(m)
    /\ polling' = polling \ {c}

\* Two minutes without a startable state, or another Start came first.  The
\* deadline may pass while it sleeps, so this does not need s.mu.
RestartGivesUp(c) ==
    /\ c \in polling
    /\ stopPc[c] \notin {"checked", "marked"}
    /\ polling' = polling \ {c}
    /\ UNCHANGED <<fields, phase, held, procVars, loopVars, stopPc, stopProc, abortClosed>>

(***************************************************************************)
(* Restore, offline backup and update (internal/api) all start with        *)
(* requireSlotAndServer and then a test for a terminal state.              *)
(***************************************************************************)
RestoreAdmitted == process # None /\ state \in CanStartFrom

-----------------------------------------------------------------------------
StartCall(m) ==
    \/ StartRefused(m) \/ StartAcquire(m) \/ StartLaunchFails(m)
    \/ StartJams(m) \/ StartSpawn(m) \/ StartPublish(m)

WatchExit(m) == WatchTeardown(m) \/ WatchBlocks(m) \/ WatchTransition(m)

HealthLoop(m) ==
    \/ HealthQuit(m) \/ HealthProbe(m) \/ HealthRead(m) \/ HealthReadLate(m)
    \/ HealthToRunning(m) \/ HealthToError(m) \/ HealthKill(m)

Terminate(m) == TerminateSeesExit(m) \/ TerminateKills(m) \/ TerminateGivesUp(m)

StopCall(c) ==
    \/ StopTransition(c) \/ StopArm(c) \/ StopSeesExit(c)
    \/ StopSeesAbort(c) \/ StopRevert(c) \/ StopEscalate(c)

Next ==
    \/ \E m \in Mounts : \/ StartBegin(m) \/ StartCall(m) \/ JvmExits(m)
                         \/ WatchExit(m) \/ HealthLoop(m) \/ Terminate(m)
    \/ \E c \in Stops : \/ StopCheck(c) \/ RestartCheck(c) \/ StopCall(c)
                        \/ RestartGivesUp(c)
                        \/ \E m \in Mounts : RestartStart(c, m)
    \/ AbortStop

Spec == Init /\ [][Next]_vars

\* Goroutines are scheduled, timers fire, and a JVM that was sent SIGKILL
\* dies.  A goroutine that waits for a mutex gets it once it is free, which is
\* not so after WatchBlocks: that step alone is enough for WF of WatchExit.
\* Nothing obliges an operator to call, a JVM to exit on its own, or a server
\* to become healthy.
Fairness ==
    /\ \A m \in Mounts :
         /\ WF_vars(StartCall(m))
         /\ WF_vars(jvm[m] = "doomed" /\ JvmExits(m))
         /\ WF_vars(WatchExit(m))
         /\ WF_vars(HealthLoop(m))
         /\ WF_vars(Terminate(m))
    /\ \A c \in Stops : WF_vars(StopCall(c))

FairSpec == Spec /\ Fairness

-----------------------------------------------------------------------------
(***************************************************************************)
(* Properties.                                                             *)
(***************************************************************************)
\* The mounts that Start or watchExit still has work to do for.
Active == {m \in Mounts : phase[m] \notin {"new", "gone"}}

\* Unless a startup timeout left a JVM behind, a slot that reports a terminal
\* state has no JVM, no lock and no mount under way: restore and offline
\* backup (handlers_backups.go) rely on it before they touch the directory.
TerminalIsQuiet ==
    timedOut = {} /\ state \in CanStartFrom =>
        LiveJvms = {} /\ held = {} /\ process = None /\ Active = {}

\* Unless a startup timeout occurred, a JVM runs only while the heartbeat of
\* its own mount keeps owner.json fresh, and no heartbeat outlives its mount.
LockCoversJvm ==
    timedOut = {} => LiveJvms \subseteq held /\ held \subseteq Active

\* A slot shown as crashed or error always says why (docs/api.md, last_error),
\* however many goroutines update the two fields.
FailureIsExplained == state \in {"crashed", "error"} => lastErr # "none"

\* Time and again no JVM that is gone has left its slot unsettled or its lock
\* taken, unless the Release of a lock waits for ever with s.mu locked, or a
\* startup timeout let another mount take over the fields.
ExitFreesLock ==
    []<>(MutexFree =>
           \A m \in Mounts :
             Exited(m) => phase[m] = "gone" /\ (m \notin held \/ timedOut # {}))

\* Every Stop call that found a process comes to see it dead or is aborted,
\* neither of which ends again: whatever the JVM does, and whichever other call
\* takes the abort channel's place, the grace timer and SIGKILL end it.
StopEndsJvm ==
    []<>(\A c \in Stops :
             stopProc[c] # None => c \in abortClosed \/ Exited(stopProc[c]))
=============================================================================
