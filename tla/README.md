# mcsm in TLA+

Formal models of mcsm, the Minecraft server manager of this repository: TLA+
modules for its concurrent core, TLC configurations that check them on small
instances, and TLAPS proofs of what matters most for every instance.

- [1. The system](#1-the-system)
- [2. Modules and their correspondence to the code](#2-modules-and-their-correspondence-to-the-code)
- [3. Runs](#3-runs)
- [4. Disagreements between code and documentation](#4-disagreements-between-code-and-documentation)
- [5. Fairness](#5-fairness)
- [6. Proofs](#6-proofs)
- [7. What is left out, and why](#7-what-is-left-out-and-why)
- [8. Plan](#8-plan)

To check: `tlc -config MCEvents.cfg MCEvents.tla` (and so on, with the module and
configuration of each row of section 3), `tlapm SlotProof.tla` (and so on for
each `*Proof.tla`).

## 1. The system

One mcsm process (an *instance*) supervises a fixed list of *slots*. A slot
mounts a *server directory* found by discovery, owns it through a lock file that
all instances sharing the disk respect, runs the server's JVM, talks to it over
RCON and follows its log file. An HTTP API drives all of it.

| component | state it keeps | operations | interacts with |
| --- | --- | --- | --- |
| slot (`internal/slot/slot.go`, `state.go`) | state, last error, process, lock, RCON client, bot, mounted server, stop flags; all under `s.mu` | Start, Stop, AbortStop, Restart; goroutines watchExit, healthLoop, rconConnectLoop, startDiscordBot, the Stop goroutine, the restart poller | process, lock, RCON, tailer, bus, Discord |
| process (`internal/process`) | the child, its exit value in a channel of capacity one | Start, Terminate, waitAndPublish | watchExit, Stop and Terminate all receive from the one channel |
| ownership lock (`internal/lock`) | `.mcsm/owner.json` on a shared disk; a heartbeat goroutine per held lock | TryAcquire, Refresh, Release, Remove, Classify | other instances, by the file only |
| discovery (`internal/discovery`, `handlers_discovery.go`) | a cached catalog with the ownership state of each directory | Refresh, Run, Snapshot, unlock | lock file, federation |
| RCON client (`internal/rcon`) | a connection, a mutex, a request counter | Dial, Cmd, Close | backups, Stop, console and player handlers share it |
| backups (`internal/backup`, `handlers_backups.go`) | `<id>.zip.part`, `<id>.zip`, `<id>.json` per backup | Create, List, Get, Delete, Restore | RCON (save-off, save-all flush, save-on), slot state, the server directory |
| log stream (`internal/logtail`, `handlers_ws.go`) | history ring, subscribers, position in the open file | Run, Recent, Since, Subscribe, Unsubscribe | the JVM's log file, WebSocket handlers |
| event bus (`internal/events`) | subscribers | Publish, Subscribe, Close | slot, gameplay, WebSocket handlers |
| Discord bot (`internal/discord`, `slot/discord_adapter.go`) | a gateway session per mount | Connect, Notify, Close | `s.bot` |
| moderation (`handlers_server.go`) and gameplay detection (`internal/gameplay`, slot.go) | sleeping unbans; the lists are the Minecraft server's | ban, unban, op, deop, whitelist, kick, say; the ban for flying | the RCON client of whatever is mounted |
| update (`internal/update`, `handlers_update.go`) | staging file, `paper.jar`, `paper.jar.previous` | Latest, Download, two renames | slot state, Start, restore |
| properties (`internal/serverid`, `handlers_properties.go`) | `server.properties` | read, patch | Start, PATCH handler, restore, the JVM that boots |
| audit log (`internal/audit`) | next id, ring, monthly files | Append, List, gc, recovery at boot | API middleware |
| peers (`internal/peers`) | last status per peer, a gauge | Run, PingAll | other instances over HTTP |
| federation (`handlers_federation.go`) | nothing between requests | fetch and merge of catalogs and slots | discovery, peers |
| the rest | configuration, tokens, metrics, status ping, OpenAPI | stateless or reporting only | |

What is hard here, and what each component must guarantee:

- **Slot.** Six kinds of goroutines write the same fields in short critical
  sections, and several act on what they read in an earlier one. A slot that
  reports a terminal state must be quiet; a JVM must run under its lock; exits,
  stops and mounts must come to an end; client and bot must be the mounted
  server's, and none may be left open; clients of the bus must learn the state.
- **Process.** The exit value is delivered once although three parties wait for
  it. A stopped JVM must die in the end.
- **Lock.** Read and write are not atomic, instances crash while their JVMs live
  on, heartbeats are late, operators steal and unlock. There must be one holder,
  on file, unless the protocol's stated assumptions fail.
- **RCON and backups.** A caller that gives up leaves its reply to the next one;
  every step of a backup can fail; autosave must be off during a copy and come
  back after it; what is listed must be whole.
- **Server directory.** Start, PATCH, update and restore write the same files
  without a lock, and mcsm can die between two renames. No key may be lost, the
  JVM must boot with its own password, and a whole jar must stay to launch.
- **Log stream.** Publishers, subscribers, Close and a file that is appended to,
  truncated and rotated all meet. No send on a closed channel, no loss for a
  client that keeps up, no line left unread, and no handler left waiting.
- **Moderation.** Commands and sleeping unbans go to whatever server is mounted
  by then. A timed ban must end.
- **Audit.** Order of concurrent writes, a crash between them, and a cursor
  over all of it.
- **Peers and federation.** Results out of order, scans that overtake one
  another, clocks that differ. What is shown must become right, and the merge
  must not depend on its order.

Every hazard has an entry in `PROJECT.json`, at the line where it bites, with
the properties that watch it or the reason why none does.

## 2. Modules and their correspondence to the code

Definitions named `<operator>_<difference>` are deliberately wrong variants of
the operator after the underscore's left; nothing uses them except the mutation
check, which substitutes each and expects the property named in `PROJECT.json`
to fail.

### Slot

One step is the code between two points where `s.mu` is not held. A *mount* is
one call of Start that got past `CanStartFrom`; its JVM, its `lock.Held` and its
goroutines carry its name. `process` stands for `s.process`, `s.server` and
`s.lock`, and `mountedID` for `s.mountedID` and `s.cancelCtx`, because the code
always assigns them together.

| code | actions |
| --- | --- |
| Start, slot.go 189-315 | StartBegin, StartRefused, StartAcquire, StartLaunchFails, StartJams, StartSpawn, StartPublish |
| failMount, 318-329 | FailMount |
| watchExit, 715-766 | WatchTeardown, WatchBlocks, WatchTransition |
| healthLoop, 771-834 | HealthQuit, HealthProbe, HealthRead, HealthReadLate, HealthToRunning, HealthToError, HealthKill |
| Stop, 368-426 | StopCheck, StopTransition, StopArm, StopSeesExit, StopSeesAbort, StopRevert, StopEscalate |
| AbortStop, Restart, 435-473 | AbortStop, RestartCheck, RestartStart, RestartGivesUp |
| process.go Terminate, waitAndPublish | TerminateSeesExit, TerminateKills, TerminateGivesUp, JvmExits |
| handlers_backups.go 160-179 | RestoreAdmitted |

watchExit calls Held.Release with `s.mu` locked, and Release can wait for its
heartbeat for ever (module OwnerLock and run release_blocks). WatchBlocks is that
case: `s.mu` is never free again, and MutexFree, the guard of every step that
locks it, stays false. A Start whose launch fails calls Release without `s.mu`,
which can wait as well (StartJams).

Steps merged, and why nothing is lost: watchExit's receive with the critical
section after it (the value does not change in between; a Stop goroutine that
receives first is StopSeesExit before it); watchExit's first read of
`s.process` with the spawn (only a startup timeout of five minutes within that
gap could clear it); a failed health probe with the read that follows it;
Release with the failMount that follows it (the slot is in `mounting`, which
nobody acts on); two Terminate calls on one process (both signal it); the
best-effort RCON `stop` with JvmExits, for which it is one reason. Refused calls
change nothing and are not steps.

`timedOut` is history: the mounts for which a startup timeout was declared. The
safety properties that a startup timeout breaks say so, because the code
declares the slot terminal first and terminates the JVM afterwards.

### Session and Events

Both EXTEND Slot and join its actions with more state; every step of theirs is
a step of Slot or leaves Slot alone, which section 6 proves.

**Session** has what the mounted server's goroutines attach to the slot:

| code | actions |
| --- | --- |
| rconConnectLoop, slot.go 836-866 | DialQuits, Dials, StoreClient |
| startDiscordBot, closeDiscordBot, discord_adapter.go 33-72 | Connects, ConnectFails, StoreBot, TakeBot, CloseBot |
| Start's end, failMount, watchExit | Mounted, MountFails, Teardown, Settle |

watchExit closes the client before the Release that may block, and the bot after
it. A connection is named after its mount. `late` holds the mounts that attached
something after their context was cancelled, which the code does not look at
again between Dial (or Connect) and the critical section.

**Events** has `transition`'s event, which is published after `s.mu` is released
(`pending`), the bus and one client of handleSlotEventsStream. `raced` says that
two events were pending at once: nothing orders them then. Start's own
assignments of `mounting`, `starting` and failMount's of `error` publish nothing.

### OwnerLock

The slots of several instances and one server directory. `owner` and `age` are
`owner.json` (its age in ticks up to just beyond `StaleAfter`), `pc` where
TryAcquire and Release have got to, `beat` the heartbeat goroutine between its
select and its Refresh. ReadClaim and WriteClaim are separate, so two slots can
both read a free file. Crash loses an instance's memory, but its JVM survives as
an `Orphan` that keeps Minecraft's `session.lock`; JvmStarts respects that lock.
`catalog` is what an instance's last discovery scan recorded, by which the
unlock handler decides. The comment at handlers_discovery.go:65 says that a
fresh lock of another instance is never stolen; one that was acquired since the
scan is.

`excused` becomes true when something happens that the code's own comment on
TryAcquire leaves to `session.lock` or to the operator: a write whose check
would no longer pass, the heartbeat of a live holder getting stale, and an
unlock that removes a live holder's file. Until then the protocol must be right
by itself, and *right* is what **Lease** says: the abstract lock that the
package comment promises, with Acquire, Release, the loss of a holder and later
of its claim. ImplementsLease maps the holders, the claim on file and `excused`
to it.

Left out: Read and Remove errors, a garbled file, a failing Refresh, and a second
Held of one slot (section 7).

### Rcon and Backups

Rcon is the client and the server behind it: `current` holds `c.mu`, `inbox`
what the server has yet to execute, `outbox` the replies nobody has read. A
caller that gives up frees the mutex and leaves its reply, which the next one
reads and rejects by its id (Mismatched). `c.mu` is taken without looking at the
context, so a caller whose deadline passes while it waits takes an id and writes
nothing (WriteFails). Backups EXTENDS it with the calls of
`Store.Create` (a program counter each, Issue / CmdOk / CmdFails for the
commands of Pause and Resume, then OpenPart, CopyEnds, Rename, WriteMeta with
their failures, and the deferred Resume in Unwind), with Delete in its two
steps, of which either os.Remove may fail, and with other users of the client.
`leftover` has the ids for which one has failed; a job in `unresumed` never sent
its save-on. Files are sets of the jobs whose data
they hold, so a file that two jobs wrote is visible as such. The wire format and
packets read in part are abstracted. A JVM that exits closes the connection for
good; the next mount has its own client. mcsm may die at any time (McsmDies).

### PropsFile, Update and ServerDir

PropsFile is PatchProperties: a read of the whole file, and a rename of an
edited copy over it. A key's value is named after the writer that set it. Of the
keys that Start patches (`Managed`), `enable-query` is the one a PATCH may set
too. Update is Download with its `.part` file and deferred Remove (CreatePart,
Copied, CopyFails, Stage, StageFails, Clean) and the two renames of
handleUpdateApply (SwapOut, SwapIn, SwapInFails). Paths name inodes, because all
updates share the paths: `os.Create` truncates an inode that somebody else may
be writing to, and a rename takes along whatever is at the path. A release may
come without a SHA-256 sum, and is then not verified: `unsummed` has the inodes
of those downloads. ServerDir composes the two with the Start calls of several
slots (patch first, then lock, then PlanLaunch's test for the jar), the boot of
the JVM, PATCH, Restore and the death of mcsm. The slot is reduced to what these
look at, and the lock to the promise of Lease. `overlapped`, `mixed` and
`meddled` record the overlaps that no code prevents.

### Players

The handlers of handlers_server.go as scripts of one or two commands, of which
the first decides the answer (RequireRunning, First, FirstFails, Second,
Answer), the goroutine of a timed unban (Unban), and the detector's ban
(FlyingKick, RunFlyingBan, DetectorEnds). The lists live on the servers, which
keep them across mounts; a slot mounts one server after the other, and a
command reaches the one mounted by then. An entry of a list remembers who put it
there. `lost` holds the requests whose unban cannot come any more.

### PeerPool and Federation

PeerPool has rounds of pings (`Run`, and one per POST /peers/refresh under way),
each with a goroutine per peer: ask, store under the mutex, tell the observer
outside it. A refresh runs under its request's context, so it can fail for a
peer that is up.

Federation has what one directory's lock file looks like through the catalogs of
several instances, each with a clock of its own: scans (Refresh, and ScanSlowly
with StoreSlowly for one that others overtake), and the request of
handleFederationDiscovery (Ask, PeerAnswers, PeerFails, Fetched, Merge in any
order, Done). The file changes as OwnerLock lets it change.

### Broadcaster and Tailer

Broadcaster is `logtail.Broadcaster` with the WebSocket handlers that read from
it: Publish visits subscribers one at a time under the read lock, the writers
wait for `visiting = {}`. Tailer EXTENDS it with the goroutine that follows the
file (wait, open, backfill, seek, watch, select, read) and an environment that
appends, truncates, rotates and recreates the file. Inodes are distinct from the
path: the tailer may hold one that is no longer there. An entry is the number of
its emission, which makes order and completeness comparisons of numbers.
`missed` records that the file changed between the tailer's seek and its watch,
which no event tells it. Lines are written whole; partial lines and the `since`
parameter are left out.

### Audit

`audit.Logger` with its files, in two steps per entry as in the code: AssignId
is the critical section (id and ring), WriteFile the write outside it, which may
also fail or tear the line when the disk is full. Boot is a crash or stop of
mcsm anywhere followed by New (scanMaxID over the last lines, backfillRing from
the current month); GcFindsOld and GcRemoves are the janitor's Info and Remove.
ListFirst and ListNext are GET /audit with the client that passes `next_cursor`
on until it gets none. Time goes in ticks; `mtime` is a file's modification
time. Of an entry only id, kind, time and boot are kept; the filters by actor
and time select as the one by kind does. A write and the open before it are one
step. `doubtful` has the ids that a boot overlooked: those on file, above
the last lines of all files, which concurrent appends and torn writes can leave
there. They are given again, and so are ids whose lines never reached a file,
although a comment (audit.go:69) promises monotonic ids. `due` is what a client
that pages has still to be given.

## 3. Runs

| run | configuration | instance | what it shows |
| --- | --- | --- | --- |
| slot_calls | MCEvents.cfg | 2 mounts, 1 Stop or Restart call, no slow start, an event channel of 1 | TerminalIsQuiet, LockCoversJvm under every interleaving of the calls and exits; ClientSeesState |
| slot_timeout | MCSlotLive.cfg | 2 mounts in order, the first may time out, and 1 Stop or Restart call, or 1 mount and 2 calls; AbortStop, Releases that may block, fair | TypeOK, ExitFreesLock, StopEndsJvm |
| session | MCSession.cfg | 2 mounts in order with bots, no Stop calls, fair | AttachmentsAreOfMounted, NothingLeaks, SessionsEnd |
| lock_claims | MCOwnerLock.cfg | 3 slots on 2 instances, stale after 2 ticks, fair | TypeOK, HolderIsOnFile, NoHeartbeatAfterRelease, RunningSlotReclaimsFile, ImplementsLease |
| release_blocks | MCOwnerLock_ReleaseReturns.cfg | the same, stale after 1 tick | a counterexample to ReleaseReturns (section 4) |
| backups | MCBackups.cfg | 3 backups (2 share an id): 2 at once, 1 other command, ids wrap at 5; or all at once of a server that does not run, with Deletes and failing os.Remove; mcsm dies, fair | TypeOK, AnswerIsOwn, CopyIsQuiesced, ListMatchesArchives, AutosaveIsOwed, AutosaveReturns |
| server_dir | MCServerDir.cfg | 2 Starts, 2 updates and 1 PATCH, 3 of them in all, 1 restore, mcsm dies | PatchesAreKept, JvmHasItsPassword, JarSurvives, LaunchFindsJar |
| players | MCPlayers.cfg | 2 requests of any handlers, 2 servers, mcsm dies, fair | TimedBanEnds |
| log_stream | MCTailer.cfg | 1 client, buffer and history of 2, 2 inodes, 2 lines a file, 3 entries, fair | TypeOK, NoSendOnClosed, CompleteUnlessFull, NothingUnnoticed, TailCatchesUp, ClientsReleased |
| audit_log | MCAudit.cfg | 3 entries of 2 kinds, 2 concurrent appends, 1 torn file, ring of 2, a month of 3 ticks and the first of the next, a retention of 1, 1 restart, a client at the turn of the month | TypeOK, IdsUnique, RingIsRecent, PagesComplete, GcKeepsYoung |
| peer_pool | PeerPool.cfg | 2 peers, Run and one refresh at a time, fair | UpPeersAreFound, DownPeersAreMissed |
| federation | MCFederation.cfg | 2 instances, one clock fast by 1, 2 ticks, stale after 0, 1 slow scan at a time, fair | FreshestWins, ViewsConverge |

Some runs explore a named CONSTRAINT of their MC module, to leave out what the
properties of that run cannot tell apart or what only multiplies states. Where
liveness is checked as well, a constraint cuts nothing but steps that no fairness
condition is about (a mount, a Restart call, a backup or a scan that begins), so
that every behaviour that is left is a fair one. RestartInTime alone also cuts
the startup timeouts that would come during a Restart, and with them the
behaviours that lead there.

Why the bounds are enough for what is asked:

- *Slot.* The races are between an old mount and a new one, and between a stop
  and everything else. A third mount repeats the relation of the second to the
  first, and the proofs of section 6 cover the safety half for any number of
  mounts and calls. Mounts are interchangeable: slot_calls uses symmetry, and
  where liveness is checked they come in one order (InOrder), the slow one
  first. Beside a second mount, a Restart is a Stop and a Start to the properties of
  slot_timeout, which has one there only while nothing has timed out
  (RestartInTime); slot_calls has all. A second Stop call, which replaces the
  abort channel of the first, comes for one mount only (TwoOfOne): a second mount
  would add another JVM, which a Stop that has captured its process does not
  look at. A channel of one
  overflows with the second event. A client that lost one or saw a race is not
  followed (Watchable), as ClientSeesState says nothing of it.
- *Session.* An attachment that comes too late meets the next mount; both mounts
  have bots, so a bot may meet another. Stop calls only choose the time of an
  exit, which JvmExits allows at any time.
- *OwnerLock.* Two slots of one instance and one of another give every case of
  Classify; two ticks to staleness let a heartbeat arrive in time, late, or not.
- *Backups.* Two jobs of one id and one of another give collision and overlap,
  independently; the third is there for a backup that finds the leftovers of
  two, so it need not overlap the first where commands are sent (Commands). No
  command looks at a file, and Delete and a failing os.Remove touch no command,
  so commands and removals do not come in one behaviour (CommandsOrFiles), and
  without commands all three jobs may overlap (Files). Request ids wrap at 5,
  and AnswerIsOwn asks for nothing once they have wrapped around past an unread
  reply (IdsSuffice), which cannot happen here: behind an unread reply every
  caller reads another's or gives up, and so returns for good, and there are
  four. In the code there are 2^31 - 1 ids; UnreadAreFew of section 6 is the
  general case. AutosaveIsOwed is the part of AutosaveReturns that needs no
  fairness.
- *Server directory.* Two Starts race for the lock, a PATCH can lie between
  them, and two updates share the paths with a restore. Any three of the five
  meet in every order (ThreeAtMost), with the restore; an update needs a mount
  and touches no properties, so more at once adds nothing. The keys are one
  reserved to mcsm, one that Start sets and a PATCH may set too, and one that
  only a PATCH sets.
- *Players.* One request's timer meets the other's ban, unban or failure, on the
  same server or another. Each request makes one ban, so a second one by anybody
  else is the other request's or the detector's.
- *Log stream.* Three entries overflow a buffer and a history of two, two inodes
  give one rotation, and two lines let a file be read in part, grow, shrink
  and grow again. Clients do not affect one another except through the locks of
  the broadcaster.
- *Audit.* Three entries overflow a ring of two, and two appends at a time reach
  the file in either order. The retention is shorter than the month, as the
  default of 30 days is in a month of 31 and as any configuration may have it, so
  that the janitor can take the file that is being written to. The ring sees the
  files only at a boot, so a client pages, and there are entries of a second
  kind, while little is under way there (FewWhilePaging): before and after the
  turn of the month, as the ring of a boot does not look further. One file at a
  time ends within a line (OneTorn). The proofs have neither bound.
- *Peers.* Rounds of Run do not overlap one another, so overlap needs one
  refresher, which can come again and again. Peers do not affect one another
  except by delaying the end of a round.
- *Federation.* One peer gives a view of its own and one that comes from
  elsewhere; the proof covers the merge for any number. A peer one tick fast,
  with two ticks and staleness after none, writes heartbeats from the future,
  and others see its lock as fresh or stale at will. Either instance's scan can be
  overtaken, one at a time (OneSlowScan).

`CHECK_DEADLOCK FALSE` stands where the system may stop: when the bounded calls
were all made, or when the tailer has ended.

The deadlock of Release in section 4 does not end lock_claims: other instances
and time go on.

## 4. Disagreements between code and documentation

One has a run of its own, in which TLC finds the counterexample: **release_blocks**.
"Release stops the heartbeat goroutine and removes owner.json" (acquire.go:118),
but Release waits for the goroutine with `h.mu` held, and a due heartbeat waits
for `h.mu`.

The others are behaviours of the models, which the properties excuse by name
where they meet them:

| what the text says | what the code does |
| --- | --- |
| "the abort is a no-op (the watchExit goroutine wins the race)", slot.go:431-433 | the Stop goroutine sets `running` after watchExit has settled the slot: a running slot without a process, which neither Start nor watchExit leaves |
| stopping → idle on "stop completed", docs/api.md:152-170 | the Stop goroutine can take the only exit value; watchExit then sees the zero value and reports `crashed` |
| stop is refused unless the slot is up (slot.go:369) | a Stop that passed the test sets `stopping` after watchExit has settled the slot |
| "Restore requires the slot to be terminal … extracting over a running server produces an inconsistent world", handlers_backups.go:162 | after a startup timeout the slot is terminal, the server still mounted and the JVM alive, and restore is admitted |
| "save-off then save-all flush before copying, and save-on after", backup.go:89-90 | Pause can fail after save-off, when Resume is not deferred yet; and Resume's deadline of 10 seconds can pass while it waits for the client's mutex, so that save-on is never sent (rcon.go:93-104) |
| "Delete removes both the archive and its metadata", backup.go:305; no "orphaned archives that can't be listed", backup.go:223 | an os.Remove that fails leaves the one without the other; a later Delete may make up for it |
| a jar is "sha256-verified", README.md:125 | a release without a sum is installed unverified (paper.go:162) |
| "the client sees a coherent (no-gap) sequence", handlers_ws.go:46-47 | the history is read before the subscription begins: what is published in between comes neither way |
| frames go on "until the client disconnects or the slot stops", handlers_ws.go:17-19 | a handler that subscribes after the tailer's Close waits until its client disconnects |
| reconnect with `?since=` "to resume without gaps", docs/api.md:722 | the same gap between history and subscription, and the history is bounded |
| stale: "heartbeat is older than 60s and SLP probe failed", docs/api.md:193 | Classify and the unlock handler look at the age only |
| progress is observed on `WS …/events`, docs/api.md 1.10 | Start's assignments of `mounting` and `starting` and failMount's of `error` publish no event |
| "IDs are monotonic across process restarts", audit.go:69-70 | a boot knows the last lines on file only: an id whose line was lost, torn or still to be written is given again, and so is one that is on file out of order |
| "deletes audit files older than retention", audit.go:185 | gc looks at the time of a file first and removes it later; with a retention below the month (the default of 30 days, in a month of 31) the file may be the one that is being written to, and an entry just written goes with it |
| "if Since pre-dates the ring, falls back to reading on-disk files", audit.go:124-125 | List reads the ring alone, so PagesComplete speaks of the ring alone |
| "Backfill the ring from the latest file so /audit returns recent entries even immediately after boot", audit.go:76-77 | the file is the current month's, so after a boot at the turn of a month the ring is empty |
| ban durations `"7d"`, `"4w"`, docs/api.md:552 | time.ParseDuration refuses them and the error is ignored: the ban is permanent, and the answer repeats the duration |
| "if duration is set, schedule an unban command", handlers_server.go:192-193 | the unban pardons whoever is banned then, on the server mounted then, never the IP, and never if the ban was answered with an error |
| "issues a 24-hour ban", slot.go:649 | the ban for flying has no duration |
| "the loser is downgraded to `stale` … with a `conflict_with` field", docs/api.md:947; `peer_conflict`, docs/api.md:109 | neither exists: the older record is dropped |
| `owned-self`: "*this* MCSM instance holds the lock", docs/api.md:191-192 | a peer's record is passed on as that peer classified it, so `owned-self` means the peer |
| "all reachable peers", docs/api.md:947 | every configured peer is asked |

Without a text to contradict, but worth knowing: a bot that connects after its
mount ended stays until another mount's bot or teardown closes it; the detector
of one mount can ban on the server mounted next; a refresh whose client goes away
marks peers unreachable until the next round; and two updates at once can swap
in a jar that neither of them downloaded whole.

Beside the restore after a startup timeout stands theorem RestoreNeedsTimeout:
*without* one the handlers of restore, offline backup and update refuse every
call, because watchExit forgets the mounted server they ask for first.

## 5. Fairness

- *Slot.* Weak fairness of Start's steps, watchExit, healthLoop, Terminate and
  the Stop goroutine: goroutines are scheduled, their timers fire, and who waits
  for `s.mu` gets it once it is free. It need not become free: watchExit may
  block in Release with `s.mu` locked (WatchBlocks), and fairness is kept by that
  step as by the other; from then on nothing that locks `s.mu` is enabled, and
  ExitFreesLock demands nothing. A JVM that was sent SIGKILL dies. Nothing makes
  an operator call, a healthy server appear, or a JVM exit by itself.
- *Session.* Weak fairness of watchExit, rconConnectLoop and startDiscordBot of
  each mount: an attempt to connect ends, one way or the other. watchExit may
  block as above, before it closes the bot. That a JVM exits is not assumed.
- *OwnerLock.* Weak fairness of the heartbeat goroutine and of Release's end:
  tickers tick. Claims, crashes, unlocks, time and exits are not forced.
- *Backups.* A JVM that is up executes its commands; a job that can step does;
  commands with a deadline end. The other commands are finitely many, so weak
  fairness suffices for a job to get `c.mu` (Go's mutex hands over to a waiter
  that starves).
- *Players.* Weak fairness of each handler and of each sleep's end: commands
  have a deadline. No server has to be mounted or to execute a command.
- *Tailer.* Weak fairness of the tailer and of each handler; strong fairness of
  seeing the cancelled context, since Go's select picks at random among the
  ready cases and cannot pass over one for ever. The log file need not appear,
  grow or rotate.
- *PeerPool.* Weak fairness of Run's rounds and of every ping: a ping has a
  timeout. Nobody has to ask for a refresh, and links change at will.
- *Federation.* Weak fairness of a request under way, of each instance's scans
  (Run's ticker) and of a slow scan's end. Claims, releases and time are not
  forced.

## 6. Proofs

TLAPS proves what follows for every value of the constants, from the named
assumptions on them only: they have their types, `None` and the like are nobody,
and what the code bounds is bounded.

**SlotProof.** TypeCorrect (the type invariant) first. TerminalIsQuiet and
LockCoversJvm are not inductive: that no JVM is alive in a terminal state rests
on there being one owner. The strengthening is `IInv == TypeOK /\ (timedOut = {}
=> OneOwner)`, where OneOwner says: at most one mount is active, and none in a
terminal state; `process` names exactly the mount that is `mounted`, or
`blocked` in its Release; the held locks are those of the mounts between
TryAcquire and the end of watchExit's critical section; a live JVM belongs to a
mount that is `spawned` or `mounted`. OwnerInvariant shows it inductive, one
step per action; the step into `timedOut # {}` is trivial for it, and that is
the point where the code gives up the property. TerminalSlotIsQuiet,
JvmRunsUnderLock and RestoreNeedsTimeout follow. FailuresAreExplained has an
induction of its own: every assignment of `crashed` or `error` brings a reason.

**LifecycleProof.** SessionImplementsSlot and EventsImplementSlot: every step of
Session, and of Events, is one of Slot or leaves Slot's variables alone, so all
that SlotProof proves carries over. For Session the invariant says of a
goroutine that is still attaching that its mount is the mounted one or has its
context cancelled; then what it attaches is among the late ones.
AttachmentsBelong and NoSessionLeaks follow. For Events there is EventsTyped,
and NewestTellsState, which adds to ClientSeesState where the newest event is
while it is on its way: pending, last in the channel, or seen.
ClientsKnowTheState follows.

**OwnerLockProof.** LockTypeCorrect, then LockInvariant: TypeOK together with
HolderIsOnFile is inductive (a claim that passes its check when it writes finds
no other holder, because a holder would be on file and fresh; a due heartbeat
belongs to a holder, by the type invariant, and so rewrites its own name).
MutualExclusion follows from it: two holders would both be on file.
OnlyHoldersWrite is the action property, and LeaseIsImplemented the refinement:
under the invariant each step is a step of Lease or changes nothing there.

**ServerDirProof.** DirTypeCorrect. For the properties, PInv: unless writers
overlap, the one at work has read what is on file, and the reserved keys of a
mount whose JVM has yet to boot are its own; a PATCH writes these back as it
read them, so neither half is inductive alone. For the jars, JInv: unless
downloads overlap, the `.part` file is the downloading request's own, is none of
the other files, and holds its bytes alone; what was downloaded without a sum
counts as whole, and nothing is claimed of its bytes. That keeps a truncated
`.part` from being a jar somebody may launch. NoPatchIsLost, PasswordReachesJvm,
JarsStayWhole and JarIsThereOrCut follow.

**TailerProof.** The invariant of the broadcaster under the tailer: closed
channels are not in the map (ClosedIsGone), emit pushes and publishes one entry
at a time (Pace), nobody sees an entry that was not emitted or goes back
(Forward), and a client that lost nothing has in its channel all that was sent
since what it received last (Keeps). NoPanicOnPublish and StreamsAreComplete
follow; TailerTypeCorrect adds the files. NoLostWakeUp rests on Noticed:
while the tailer reads, what its file has lost is due as a write event, and what
the file has gained it reads on to; and on OldInodes, which says that an inode
does not come back to the path.

**BackupsProof.** BackupsTypeCorrect, through the calls that share the RCON
client. ListIsTrue by Follows, which ties the files of an id that one job alone
has to that job's program counter: the archive is complete when its metadata is
being written, metadata comes once, and where an os.Remove has failed nothing is
claimed until another makes up for it. RepliesAreOwn needs an invariant of the
whole queue between client and server, which is `Unread`, the replies before
the requests: they come in the order of their numbers (Rising), a request has the
id of its number as long as fewer than MaxId ids were given after it (InTurn), and
the one that is waited for is the last of the queue and the last that was given an
id (LastIsCurrent), so a reply with its id at the head can only be that one while
IdsSuffice holds. CopiesAreQuiesced uses it: when a backup's save-off is answered
the server has executed it (SaveIsOff), and from then on nothing in the queue
turns autosave on while no other backup is under way (Alone, Paused, Quiet).
IdsSuffice is a hypothesis of both, and UnreadAreFew discharges it when the
commands are finitely many and there are no more callers than ids: the ids given
since the oldest unread request was (Backlog) were given to callers that have
returned for good, since each of them read another's reply, gave up or had no
time to write, and to the one that waits (Counted).
AutosaveIsAlwaysOwed is inductive with the types: a debt ends only with the
save-on it asks for, and that stands behind every save-off in the queue.

**AuditProof.** AuditTypeCorrect. JanitorKeepsYoung, for any retention and any
month: a file was last written in its own month and no entry of it is younger
than that write (Dated). So the file that the gc has found old is that of an
earlier month, or the retention is shorter than the month; in the one case no
write reaches the file before it is removed, in the other no young entry is in
the file when it is found, and the property asks for a write after that before it
lets one go. IdsAreUnique: all ids that are
known, in memory, on file or still to be written, are below `nextId`, unless a
boot overlooked them (Known, IdsUnique itself); what a boot finds was known
before (BootKnown), and what is above the last lines of all files is doubtful from
then on. RingHasNewest: the ring, counted from its end, has the ids below the
next one back to the first of this boot (EndsRecent), and what this boot adds is
newer than what it finds there (Booted, NewerLast). ClientsAreGivenAll: what a
paging client has still to be given is in its place in the ring (InPlace), matches
and is older than its cursor (Awaited): a page takes the newest that are wanted,
and after an entry in its place there are only newer ones.
Where a proof needs the least or greatest element of a set of numbers, it takes
it from the well-foundedness of `<` on Nat, in place of an induction.

**FederationProof.** Every answer is a record or none, and a view is the answer
of somebody that has been merged. That the view is outdated by none of the
merged is inductive because RemoteFresher is a strict order on heartbeats, where
a record without one is below all others. FreshestRecordWins.

Model-checked only: the liveness properties, since fairness and ENABLED are out
of the prover's reach, and with them all of PeerPool and Players, which have no
others; and the counterexample of section 4. Every invariant and action property
of a passing run is stated by a theorem, and the types of ServerDir by
DirTypeCorrect only.

## 7. What is left out, and why

- Pure I/O and stateless code: routing, authentication, envelopes, OpenAPI,
  metrics, configuration, the status ping, the log parser, the command-line
  tools.
- Reporting: slp, timestamps, messages, the pollers of a mounted server, chat,
  death and toxicity events, the bot's commands. No modelled step depends on
  them. say and kick are commands that change no list.
- The contents of a world. ServerDir has the files that several writers share:
  `server.properties` and the jars.
- Several directories with one server id, and the walk over the roots: discovery
  reports the duplicates and changes nothing.
- GET /federation/slots, which concatenates, and a peer's garbled answer, which
  fails like no answer.
- The lock: Read and Remove errors, a garbled file, a failing Refresh. A slot has
  one Held at a time; after a startup timeout the code may have two, of which
  the first released removes the file and the other's next heartbeat writes it
  again.
- Backups: what List returns of a directory whose files change under it.
- Features that the documentation names and the code does not implement
  (idempotency keys, rate limits, automatic mounts).

## 8. Plan

Everything of the plan so far is built: the slot with its session and its
events, the lock with its lease, RCON and backups, the server directory, the
moderation, the log stream, the audit log, the peers and the federation. What
would come next, by what it adds:

1. Audit: that paging ends. Lock: the two Helds that a startup timeout leaves.
2. The part of TimedBanEnds that needs no fairness, as an invariant of Players:
   while a timed ban stands, its unban is still to come or lost.
3. An abstract lossy FIFO per client that Broadcaster and Events both implement.
4. Several directories with one id in discovery, and what a federated view shows
   of them.
