------------------------------ MODULE OwnerLock ------------------------------
(***************************************************************************)
(* The ownership protocol of one server directory (internal/lock and the   *)
(* DELETE lock handler): the slots of several mcsm instances claim the     *)
(* directory by writing .mcsm/owner.json, keep the claim alive with a      *)
(* heartbeat goroutine, steal it when it is stale, and give it up with     *)
(* Release.  The file is all they share; Read and the later write are two  *)
(* steps.  Time is the age of the heartbeat on file, in ticks.             *)
(*                                                                         *)
(* A slot has one Held at a time.  After a startup timeout (slot.go, 813)  *)
(* the code may have two: the heartbeat of a mount that is not torn down   *)
(* yet goes on while the slot mounts anew.  Both write the slot's name,    *)
(* and the one released first removes the file, which the other's next     *)
(* heartbeat writes again.  That is not modelled.                          *)
(***************************************************************************)
EXTENDS Naturals

CONSTANTS Slots,       \* the slots, of all instances
          Instances,   \* the mcsm processes
          InstanceOf,  \* the instance each slot belongs to
          StaleAfter,  \* the age, in ticks, beyond which a heartbeat is stale
          None,        \* no owner.json, or no JVM
          Orphan       \* a JVM whose mcsm died

ASSUME LockAssumption ==
    /\ InstanceOf \in [Slots -> Instances]
    /\ StaleAfter \in Nat
    /\ None \notin Slots /\ Orphan \notin Slots /\ None # Orphan

VARIABLES
    owner,    \* the slot that owner.json names, or None
    age,      \* how long ago its heartbeat was written, up to StaleAfter + 1
    pc,       \* per slot: where TryAcquire and Release have got to
    beat,     \* per slot: where the heartbeat goroutine is
    jvm,      \* the slot whose JVM has the world's session.lock, or Orphan
    catalog,  \* per instance: the ownership state its last scan recorded
    excused   \* has an assumption of the protocol failed by now?

vars == <<owner, age, pc, beat, jvm, catalog, excused>>

LockStates == {"free", "owned-self", "owned-other", "stale"}

TypeOK ==
    /\ owner \in Slots \cup {None}
    /\ age \in 0 .. StaleAfter + 1
    /\ pc \in [Slots -> {"out", "claim", "held", "releasing"}]
    /\ beat \in [Slots -> {"off", "select", "due"}]
    /\ \A s \in Slots : beat[s] # "off" => pc[s] \in {"held", "releasing"}
    /\ jvm \in Slots \cup {None, Orphan}
    /\ catalog \in [Instances -> LockStates \cup {"none"}]
    /\ excused \in BOOLEAN

Init ==
    /\ owner = None
    /\ age = 0
    /\ pc = [s \in Slots |-> "out"]
    /\ beat = [s \in Slots |-> "off"]
    /\ jvm = None
    /\ catalog = [i \in Instances |-> "none"]
    /\ excused = FALSE

-----------------------------------------------------------------------------
\* A slot holds the lock from the write of TryAcquire to the end of Release.
Holders == {s \in Slots : pc[s] \in {"held", "releasing"}}

IsStale == age > StaleAfter

\* Classify: what owner.json means to instance i.
Classify(i) ==
    IF owner = None THEN "free"
    ELSE IF IsStale THEN "stale"
    ELSE IF InstanceOf[owner] = i THEN "owned-self"
    ELSE "owned-other"

MayClaim_OtherSlot(s, force) ==
    \/ Classify(InstanceOf[s]) \in {"free", "owned-self"}
    \/ Classify(InstanceOf[s]) = "stale" /\ force

\* The switch of TryAcquire.
MayClaim(s, force) ==
    \/ Classify(InstanceOf[s]) = "free"
    \/ Classify(InstanceOf[s]) = "owned-self" /\ owner = s
    \/ Classify(InstanceOf[s]) = "stale" /\ force

\* writeOwnerAtomic with a fresh heartbeat for s.
WriteOwner(s) == owner' = s /\ age' = 0
RemoveFile == owner' = None /\ age' = 0

(***************************************************************************)
(* TryAcquire and Release.                                                 *)
(***************************************************************************)
\* Read and Classify; a refused claim changes nothing.
ReadClaim(s) ==
    /\ pc[s] = "out"
    /\ \E force \in BOOLEAN : MayClaim(s, force)
    /\ pc' = [pc EXCEPT ![s] = "claim"]
    /\ UNCHANGED <<owner, age, beat, jvm, catalog, excused>>

WriteClaim_OldHeartbeat(s) ==
    /\ pc[s] = "claim"
    /\ owner' = s
    /\ pc' = [pc EXCEPT ![s] = "held"]
    /\ beat' = [beat EXCEPT ![s] = "select"]
    /\ excused' = (excused \/ ~MayClaim(s, TRUE))
    /\ UNCHANGED <<age, jvm, catalog>>

\* The write does not look at the file again: that is an excuse when the check
\* would no longer pass.
WriteClaim(s) ==
    /\ pc[s] = "claim"
    /\ WriteOwner(s)
    /\ pc' = [pc EXCEPT ![s] = "held"]
    /\ beat' = [beat EXCEPT ![s] = "select"]
    /\ excused' = (excused \/ ~MayClaim(s, TRUE))
    /\ UNCHANGED <<jvm, catalog>>

\* writeOwnerAtomic fails, and TryAcquire with it.
AbandonClaim(s) ==
    /\ pc[s] = "claim"
    /\ pc' = [pc EXCEPT ![s] = "out"]
    /\ UNCHANGED <<owner, age, beat, jvm, catalog, excused>>

\* h.mu is held from here to the end of Release, and the context is cancelled.
\* Slots release when Java did not start or has exited.
ReleaseBegin(s) ==
    /\ pc[s] = "held"
    /\ jvm # s
    /\ pc' = [pc EXCEPT ![s] = "releasing"]
    /\ UNCHANGED <<owner, age, beat, jvm, catalog, excused>>

ReleaseEnd_NoWait(s) ==
    /\ pc[s] = "releasing"
    /\ RemoveFile
    /\ pc' = [pc EXCEPT ![s] = "out"]
    /\ UNCHANGED <<beat, jvm, catalog, excused>>

\* <-h.done, then Remove, whoever the file names by now.
ReleaseEnd(s) ==
    /\ pc[s] = "releasing"
    /\ beat[s] = "off"
    /\ RemoveFile
    /\ pc' = [pc EXCEPT ![s] = "out"]
    /\ UNCHANGED <<beat, jvm, catalog, excused>>

(***************************************************************************)
(* heartbeatLoop.                                                          *)
(***************************************************************************)
\* The select takes the tick, even if the context is cancelled by then.
BeatDue(s) ==
    /\ beat[s] = "select"
    /\ beat' = [beat EXCEPT ![s] = "due"]
    /\ UNCHANGED <<owner, age, pc, jvm, catalog, excused>>

BeatRefresh_NoMutex(s) ==
    /\ beat[s] = "due"
    /\ WriteOwner(s)
    /\ beat' = [beat EXCEPT ![s] = "select"]
    /\ UNCHANGED <<pc, jvm, catalog, excused>>

BeatRefresh_OwnFileOnly(s) ==
    /\ beat[s] = "due"
    /\ pc[s] # "releasing"
    /\ owner = s
    /\ WriteOwner(s)
    /\ beat' = [beat EXCEPT ![s] = "select"]
    /\ UNCHANGED <<pc, jvm, catalog, excused>>

\* Refresh takes h.mu, which Release keeps, and rewrites the file unread.
BeatRefresh(s) ==
    /\ beat[s] = "due"
    /\ pc[s] # "releasing"
    /\ WriteOwner(s)
    /\ beat' = [beat EXCEPT ![s] = "select"]
    /\ UNCHANGED <<pc, jvm, catalog, excused>>

BeatQuit(s) ==
    /\ beat[s] = "select"
    /\ pc[s] = "releasing"
    /\ beat' = [beat EXCEPT ![s] = "off"]
    /\ UNCHANGED <<owner, age, pc, jvm, catalog, excused>>

(***************************************************************************)
(* The JVM: Minecraft's session.lock admits one per world directory.       *)
(***************************************************************************)
JvmStarts(s) ==
    /\ pc[s] = "held"
    /\ jvm = None
    /\ jvm' = s
    /\ UNCHANGED <<owner, age, pc, beat, catalog, excused>>

JvmEnds ==
    /\ jvm # None
    /\ jvm' = None
    /\ UNCHANGED <<owner, age, pc, beat, catalog, excused>>

(***************************************************************************)
(* The operator's DELETE /discovery/{id}/lock, and the scans it relies on. *)
(***************************************************************************)
Scan(i) ==
    /\ catalog' = [catalog EXCEPT ![i] = Classify(i)]
    /\ UNCHANGED <<owner, age, pc, beat, jvm, excused>>

\* The handler decides by the cached catalog, removes the file and rescans.
\* Force is the operator's to give; so is the removal of a live holder's file.
Unlock(i) ==
    /\ \E force \in BOOLEAN :
         catalog[i] = "owned-self" \/ (catalog[i] = "stale" /\ force)
    /\ RemoveFile
    /\ catalog' = [catalog EXCEPT ![i] = "free"]
    /\ excused' = (excused \/ owner \in Holders)
    /\ UNCHANGED <<pc, beat, jvm>>

(***************************************************************************)
(* The environment: an instance dies and comes back knowing nothing (its   *)
(* JVM is in a process group of its own and survives), and time passes.    *)
(***************************************************************************)
Crash(i) ==
    /\ pc' = [s \in Slots |-> IF InstanceOf[s] = i THEN "out" ELSE pc[s]]
    /\ beat' = [s \in Slots |-> IF InstanceOf[s] = i THEN "off" ELSE beat[s]]
    /\ jvm' = IF jvm \in Slots /\ InstanceOf[jvm] = i THEN Orphan ELSE jvm
    /\ catalog' = [catalog EXCEPT ![i] = "none"]
    /\ UNCHANGED <<owner, age, excused>>

\* Beyond StaleAfter + 1 all ages are alike.  A live holder should not get there.
Tick ==
    /\ owner # None
    /\ age <= StaleAfter
    /\ age' = age + 1
    /\ excused' = (excused \/ (age = StaleAfter /\ owner \in Holders))
    /\ UNCHANGED <<owner, pc, beat, jvm, catalog>>

-----------------------------------------------------------------------------
SlotStep(s) ==
    \/ ReadClaim(s) \/ WriteClaim(s) \/ AbandonClaim(s)
    \/ ReleaseBegin(s) \/ ReleaseEnd(s)
    \/ BeatDue(s) \/ BeatRefresh(s) \/ BeatQuit(s) \/ JvmStarts(s)

Next ==
    \/ \E s \in Slots : SlotStep(s)
    \/ \E i \in Instances : Scan(i) \/ Unlock(i) \/ Crash(i)
    \/ JvmEnds
    \/ Tick

Spec == Init /\ [][Next]_vars

\* Goroutines run and tickers tick: nothing here waits for another process.
Fairness ==
    \A s \in Slots : /\ WF_vars(ReleaseEnd(s))
                     /\ WF_vars(BeatDue(s))
                     /\ WF_vars(BeatRefresh(s))
                     /\ WF_vars(BeatQuit(s))

FairSpec == Spec /\ Fairness

-----------------------------------------------------------------------------
(***************************************************************************)
(* Properties.                                                             *)
(***************************************************************************)
\* Two slots own a server directory at once only after a race between read
\* and write, a stalled heartbeat or an operator's unlock: crashes, restarts,
\* steals of stale locks and re-acquisitions cannot bring it about.
AtMostOneHolder ==
    ~excused => \A s, t \in Holders : s = t

\* Under the same proviso the file names the holder and is fresh, so that
\* every other instance classifies the directory as owned-other.
HolderIsOnFile ==
    ~excused => \A s \in Holders : owner = s /\ ~IsStale

\* owner.json only ever comes to name a slot that still holds the lock: no
\* late heartbeat resurrects a lock that Release is giving up or has removed.
NoHeartbeatAfterRelease ==
    [][owner' # owner /\ owner' # None => pc'[owner'] = "held"]_vars

\* Whatever a losing competitor's Release or an operator's unlock did to the
\* file, the heartbeat of the slot that won the world's session.lock puts its
\* name back: TryAcquire's comment leaves races to that second lock.
RunningSlotReclaimsFile ==
    \A s \in Slots :
        jvm = s /\ pc[s] = "held" ~> owner = s \/ jvm # s \/ pc[s] # "held"

-----------------------------------------------------------------------------
(***************************************************************************)
(* The lock implements Lease.  A stale file claims nothing.                *)
(***************************************************************************)
HoldersNow == IF excused THEN {} ELSE Holders
ClaimNow == IF excused \/ IsStale THEN None ELSE owner

L == INSTANCE Lease WITH holders <- HoldersNow, claim <- ClaimNow, broken <- excused

\* Whatever slots read, write, crash and restart in between, all that happens
\* is that a lease is taken, given up, lost with its holder or left to expire.
ImplementsLease == L!LeaseSpec

-----------------------------------------------------------------------------
\* "Release stops the heartbeat goroutine and removes owner.json" (comment of
\* Release): a Release that was begun comes to its end.
ReleaseReturns ==
    \A s \in Slots : pc[s] = "releasing" ~> pc[s] # "releasing"
=============================================================================
