------------------------------ MODULE Session ------------------------------
(***************************************************************************)
(* What a mounted server's goroutines attach to their slot beside the      *)
(* process and the lock: the RCON client (rconConnectLoop) and the Discord *)
(* bot (startDiscordBot, closeDiscordBot).  Slot is the lifecycle; its     *)
(* steps that touch an attachment are extended here, the others leave the  *)
(* attachments alone.  A connection is named after the mount whose JVM or  *)
(* configuration it was opened for.                                        *)
(***************************************************************************)
EXTENDS Slot

CONSTANT Bots  \* the mounts whose configuration has a Discord token and channels

ASSUME SessionAssumption == Bots \subseteq Mounts

VARIABLES
    rconClient, \* s.rconClient
    conns,      \* the RCON connections mcsm has not closed
    dial,       \* per mount: where rconConnectLoop is
    discord,    \* per mount: where startDiscordBot is
    bot,        \* s.bot
    gateway,    \* the Discord sessions that are open
    farewell,   \* per mount: how far watchExit is with closeDiscordBot
    parting,    \* per mount: the bot its closeDiscordBot took from the slot
    late        \* the mounts that attached something after their teardown

rconVars == <<rconClient, conns, dial>>
botVars == <<discord, bot, gateway, farewell, parting>>
sessionVars == <<rconVars, botVars, late>>
slotAndSession == <<vars, sessionVars>>

SessionTypeOK ==
    /\ TypeOK
    /\ rconClient \in Mounts \cup {None}
    /\ conns \subseteq Mounts
    /\ dial \in [Mounts -> {"off", "wait", "store", "done"}]
    /\ discord \in [Mounts -> {"off", "connect", "store", "done"}]
    /\ bot \in Mounts \cup {None}
    /\ gateway \subseteq Mounts
    /\ farewell \in [Mounts -> {"no", "closing", "done"}]
    /\ parting \in [Mounts -> Mounts \cup {None}]
    /\ \A m \in Mounts : farewell[m] = "closing" => parting[m] # None
    /\ late \subseteq Mounts

SessionInit ==
    /\ Init
    /\ rconClient = None
    /\ conns = {}
    /\ dial = [m \in Mounts |-> "off"]
    /\ discord = [m \in Mounts |-> "off"]
    /\ bot = None
    /\ gateway = {}
    /\ farewell = [m \in Mounts |-> "no"]
    /\ parting = [m \in Mounts |-> None]
    /\ late = {}

-----------------------------------------------------------------------------
(***************************************************************************)
(* The lifecycle's steps that touch an attachment.                         *)
(***************************************************************************)
DialAt(m, p) == dial' = [dial EXCEPT ![m] = p]
DiscordAt(m, p) == discord' = [discord EXCEPT ![m] = p]
Attaches(m) == late' = late \cup ({m} \cap ctxDone)

\* Start spawns the goroutines after its last critical section.
Mounted(m) ==
    /\ StartPublish(m)
    /\ DialAt(m, "wait")
    /\ DiscordAt(m, IF m \in Bots THEN "connect" ELSE "off")
    /\ UNCHANGED <<rconClient, conns, bot, gateway, farewell, parting, late>>

\* failMount forgets the client without closing it.
MountFails(m) ==
    /\ StartRefused(m) \/ StartLaunchFails(m)
    /\ rconClient' = None
    /\ UNCHANGED <<conns, dial, botVars, late>>

Teardown_KeepsClient(m) ==
    /\ WatchTeardown(m) \/ WatchBlocks(m)
    /\ UNCHANGED sessionVars

\* The client is closed before the Release that may block, the bot after it.
Teardown(m) ==
    /\ WatchTeardown(m) \/ WatchBlocks(m)
    /\ conns' = conns \ {rconClient}
    /\ rconClient' = None
    /\ UNCHANGED <<dial, botVars, late>>

(***************************************************************************)
(* closeDiscordBot, which watchExit calls before its transition.           *)
(***************************************************************************)
TornDown(m) == phase[m] \in {"toIdle", "toKilled", "toCrashed"}
FarewellAt(m, p) == farewell' = [farewell EXCEPT ![m] = p]

\* The critical section takes the bot, whichever mount it was opened for...
TakeBot(m) ==
    /\ MutexFree
    /\ TornDown(m)
    /\ farewell[m] = "no"
    /\ parting' = [parting EXCEPT ![m] = bot]
    /\ bot' = None
    /\ FarewellAt(m, IF bot = None THEN "done" ELSE "closing")
    /\ UNCHANGED <<vars, rconVars, discord, gateway, late>>

CloseBot_NotifyOnly(m) ==
    /\ farewell[m] = "closing"
    /\ FarewellAt(m, "done")
    /\ UNCHANGED <<vars, rconVars, discord, bot, gateway, parting, late>>

\* ...and Notify and Close follow without the lock.
CloseBot(m) ==
    /\ farewell[m] = "closing"
    /\ gateway' = gateway \ {parting[m]}
    /\ parting' = [parting EXCEPT ![m] = None]
    /\ FarewellAt(m, "done")
    /\ UNCHANGED <<vars, rconVars, discord, bot, late>>

Settle(m) ==
    /\ farewell[m] = "done"
    /\ WatchTransition(m)
    /\ UNCHANGED sessionVars

(***************************************************************************)
(* rconConnectLoop.                                                        *)
(***************************************************************************)
DialQuits(m) ==
    /\ dial[m] = "wait"
    /\ m \in ctxDone
    /\ DialAt(m, "done")
    /\ UNCHANGED <<vars, rconClient, conns, botVars, late>>

\* The password was made for this mount, so only its own JVM lets it in; Dial
\* runs under the mount's context and fails once that is cancelled.
Dials(m) ==
    /\ dial[m] = "wait"
    /\ m \notin ctxDone
    /\ Alive(m)
    /\ conns' = conns \cup {m}
    /\ DialAt(m, "store")
    /\ UNCHANGED <<vars, rconClient, botVars, late>>

\* The context is not looked at again: the slot may have been torn down since.
StoreClient(m) ==
    /\ MutexFree
    /\ dial[m] = "store"
    /\ conns' = conns \ {rconClient}
    /\ rconClient' = m
    /\ DialAt(m, "done")
    /\ Attaches(m)
    /\ UNCHANGED <<vars, botVars>>

(***************************************************************************)
(* startDiscordBot.  discord.Connect ignores its context.                  *)
(***************************************************************************)
Connects(m) ==
    /\ discord[m] = "connect"
    /\ gateway' = gateway \cup {m}
    /\ DiscordAt(m, "store")
    /\ UNCHANGED <<vars, rconVars, bot, farewell, parting, late>>

ConnectFails(m) ==
    /\ discord[m] = "connect"
    /\ DiscordAt(m, "done")
    /\ UNCHANGED <<vars, rconVars, bot, gateway, farewell, parting, late>>

StoreBot_LeaksOld(m) ==
    /\ MutexFree
    /\ discord[m] = "store"
    /\ bot' = m
    /\ DiscordAt(m, "done")
    /\ Attaches(m)
    /\ UNCHANGED <<vars, rconVars, gateway, farewell, parting>>

\* It closes a bot it finds there, then stores its own.
StoreBot(m) ==
    /\ MutexFree
    /\ discord[m] = "store"
    /\ gateway' = gateway \ {bot}
    /\ bot' = m
    /\ DiscordAt(m, "done")
    /\ Attaches(m)
    /\ UNCHANGED <<vars, rconVars, farewell, parting>>

-----------------------------------------------------------------------------
\* Slot's other steps.
SlotOnly ==
    /\ \/ \E m \in Mounts : \/ StartBegin(m) \/ StartAcquire(m) \/ StartJams(m)
                            \/ StartSpawn(m) \/ JvmExits(m) \/ HealthLoop(m) \/ Terminate(m)
       \/ \E c \in Stops : \/ StopCheck(c) \/ RestartCheck(c) \/ StopCall(c)
                           \/ RestartGivesUp(c)
                           \/ \E m \in Mounts : RestartStart(c, m)
       \/ AbortStop
    /\ UNCHANGED sessionVars

WatchesExit(m) == Teardown(m) \/ TakeBot(m) \/ CloseBot(m) \/ Settle(m)
RconConnectLoop(m) == DialQuits(m) \/ Dials(m) \/ StoreClient(m)
StartDiscordBot(m) == Connects(m) \/ ConnectFails(m) \/ StoreBot(m)

SessionNext ==
    \/ SlotOnly
    \/ \E m \in Mounts : \/ Mounted(m) \/ MountFails(m) \/ WatchesExit(m)
                         \/ RconConnectLoop(m) \/ StartDiscordBot(m)

SessionSpec == SessionInit /\ [][SessionNext]_slotAndSession

SessionFairness ==
    \A m \in Mounts : /\ WF_slotAndSession(WatchesExit(m))
                      /\ WF_slotAndSession(RconConnectLoop(m))
                      /\ WF_slotAndSession(StartDiscordBot(m))

FairSession == SessionSpec /\ SessionFairness

-----------------------------------------------------------------------------
(***************************************************************************)
(* Properties.  They hold for a slot without startup timeouts, whose       *)
(* effect on the lifecycle itself is the subject of Slot.                  *)
(***************************************************************************)
\* Command, the pollers and the backups use s.rconClient, notifyDiscord s.bot,
\* whatever the mount: both belong to the mounted server.  The exceptions are
\* the bot that closeDiscordBot has yet to take, and what a goroutine attached
\* that had passed its last look at the context when the slot was torn down.
AttachmentsAreOfMounted ==
    timedOut = {} =>
        /\ rconClient \in {process, None} \cup late
        /\ bot \in {process, None} \cup late
                  \cup {m \in Mounts : TornDown(m) /\ farewell[m] = "no"}

\* Every open connection can still be reached by the code that has to close it;
\* failMount may forget the client of a torn down mount.
NothingLeaks ==
    timedOut = {} =>
        /\ conns \subseteq {rconClient} \cup {m \in Mounts : dial[m] = "store"} \cup late
        /\ gateway \subseteq {bot} \cup {m \in Mounts : discord[m] = "store"}
                             \cup {parting[m] : m \in {n \in Mounts : farewell[n] = "closing"}}

\* Time and again no server that has exited has a session left, whatever was
\* being connected when it exited, unless something was attached too late or
\* the Release of the lock, which comes before the bot is closed, waits for ever.
SessionsEnd ==
    []<>(MutexFree =>
           \A m \in Mounts :
             Exited(m) => m \notin conns \cup gateway \/ m \in late \/ timedOut # {})
=============================================================================
