------------------------------ MODULE ServerDir ------------------------------
(***************************************************************************)
(* One server directory and what works on its files at the same time: the  *)
(* Start calls of the slots that want to mount it, the property PATCHes,   *)
(* updates and restores of the slot that has it mounted, and the JVM that  *)
(* reads its properties when it boots.  The slot is reduced to what these  *)
(* look at: MountedServer, a terminal state, and the ownership lock, which *)
(* keeps the promise of Lease.                                             *)
(***************************************************************************)
EXTENDS PropsFile, Update

CONSTANTS Starts,   \* the Start calls, by slots of any instance
          Patches,  \* the PATCH requests
          Body,     \* the keys each PATCH request asks for
          Managed,  \* the keys that Start patches
          Reserved  \* those of them that a PATCH may not have

ASSUME DirAssumption ==
    /\ Writers = Starts \cup Patches /\ Starts \cap Patches = {}
    /\ Body \in [Patches -> SUBSET Keys]
    /\ Reserved \subseteq Managed /\ Managed \subseteq Keys

VARIABLES
    start,   \* per Start call: how far it and its mount have got
    booted,  \* per Start call: the writer of the password its JVM read
    ppc,     \* per PATCH request: where its handler is
    restore, \* where the restore request is
    meddled  \* the mounts whose password another mount or a restore replaced

dirVars == <<start, booted, ppc, restore, meddled>>
vars == <<propsVars, updateVars, dirVars>>

TypeOK ==
    /\ PropsTypeOK /\ UpdateTypeOK
    /\ start \in [Starts -> {"new", "patch", "patched", "locked", "spawned",
                             "up", "late", "gone"}]
    /\ booted \in [Starts -> Starts \cup {Origin, None}]
    /\ ppc \in [Patches -> {"new", "admitted", "patch", "done"}]
    /\ restore \in {"new", "props", "jar", "filling", "done", "torn"}
    /\ meddled \subseteq Starts

Init ==
    /\ PropsInit /\ UpdateInit
    /\ start = [s \in Starts |-> "new"]
    /\ booted = [s \in Starts |-> None]
    /\ ppc = [p \in Patches |-> "new"]
    /\ restore = "new"
    /\ meddled = {}

-----------------------------------------------------------------------------
\* MountedServer returns it between the end of Start and the teardown.
Mounted == \E s \in Starts : start[s] \in {"up", "late"}

\* requireSlotAndServer, and a slot in a terminal state: as watchExit clears
\* s.server first, that is a slot whose startup timed out.
Admitted == \E s \in Starts : start[s] = "late"

Owners == {s \in Starts : start[s] \in {"locked", "spawned", "up", "late"}}

\* The mounts whose JVM has yet to read what Start patched.
Awaiting == {s \in Owners : booted[s] = None}
            \cup {s \in Starts : start[s] = "patched"}

(***************************************************************************)
(* Start.  It patches the properties before it takes the lock.             *)
(***************************************************************************)
StartAt(s, p) == start' = [start EXCEPT ![s] = p]

\* The server is unknown, or the slot does not accept its type or its memory.
StartRefused(s) ==
    /\ start[s] = "new"
    /\ StartAt(s, "gone")
    /\ UNCHANGED <<propsVars, updateVars, booted, ppc, restore, meddled>>

StartReads(s) ==
    /\ start[s] = "new"
    /\ ReadFile(s)
    /\ StartAt(s, "patch")
    /\ UNCHANGED <<updateVars, booted, ppc, restore, meddled>>

StartPatches(s) ==
    /\ start[s] = "patch"
    /\ RenameFile(s, Managed)
    /\ StartAt(s, "patched")
    /\ meddled' = meddled \cup Awaiting
    /\ UNCHANGED <<updateVars, booted, ppc, restore>>

StartPatchFails(s) ==
    /\ start[s] = "patch"
    /\ Abandon(s)
    /\ StartAt(s, "gone")
    /\ UNCHANGED <<updateVars, booted, ppc, restore, meddled>>

StartAcquires(s) ==
    /\ start[s] = "patched"
    /\ StartAt(s, IF Owners = {} THEN "locked" ELSE "gone")
    /\ UNCHANGED <<propsVars, updateVars, booted, ppc, restore, meddled>>

\* PlanLaunch finds paper.jar, and Java is spawned.
StartSpawns(s) ==
    /\ start[s] = "locked"
    /\ jar # NoFile
    /\ StartAt(s, "spawned")
    /\ UNCHANGED <<propsVars, updateVars, booted, ppc, restore, meddled>>

StartLaunchFails(s) ==
    /\ start[s] = "locked"
    /\ StartAt(s, "gone")
    /\ UNCHANGED <<propsVars, updateVars, booted, ppc, restore, meddled>>

StartPublishes(s) ==
    /\ start[s] = "spawned"
    /\ StartAt(s, "up")
    /\ UNCHANGED <<propsVars, updateVars, booted, ppc, restore, meddled>>

\* The JVM reads server.properties, before or after Start has returned.
JvmBoots(s) ==
    /\ start[s] \in {"spawned", "up", "late"}
    /\ booted[s] = None
    /\ \E k \in Reserved : booted' = [booted EXCEPT ![s] = props[k]]
    /\ UNCHANGED <<propsVars, updateVars, start, ppc, restore, meddled>>

StartTimesOut(s) ==
    /\ start[s] = "up"
    /\ StartAt(s, "late")
    /\ UNCHANGED <<propsVars, updateVars, booted, ppc, restore, meddled>>

\* The JVM exits and watchExit releases the lock.
MountEnds(s) ==
    /\ start[s] \in {"up", "late"}
    /\ StartAt(s, "gone")
    /\ UNCHANGED <<propsVars, updateVars, booted, ppc, restore, meddled>>

(***************************************************************************)
(* The handlers.                                                           *)
(***************************************************************************)
Accepted_All(p) == Body[p]

\* The keys that the handler does not reject.
Accepted(p) == Body[p] \ Reserved

PatchAt(p, at) == ppc' = [ppc EXCEPT ![p] = at]

\* The slot's server is looked up once: the mount may end, and another begin,
\* before the file is read.
PatchAdmitted(p) ==
    /\ ppc[p] = "new"
    /\ Mounted
    /\ PatchAt(p, "admitted")
    /\ UNCHANGED <<propsVars, updateVars, start, booted, restore, meddled>>

\* A body that cannot be read, is empty, or has reserved keys only.
PatchIsVoid(p) ==
    /\ ppc[p] = "admitted"
    /\ PatchAt(p, "done")
    /\ UNCHANGED <<propsVars, updateVars, start, booted, restore, meddled>>

PatchReads(p) ==
    /\ ppc[p] = "admitted"
    /\ Accepted(p) # {}
    /\ ReadFile(p)
    /\ PatchAt(p, "patch")
    /\ UNCHANGED <<updateVars, start, booted, restore, meddled>>

PatchWrites(p) ==
    /\ ppc[p] = "patch"
    /\ RenameFile(p, Accepted(p))
    /\ PatchAt(p, "done")
    /\ UNCHANGED <<updateVars, start, booted, restore, meddled>>

PatchFails(p) ==
    /\ ppc[p] = "patch"
    /\ Abandon(p)
    /\ PatchAt(p, "done")
    /\ UNCHANGED <<updateVars, start, booted, restore, meddled>>

UpdateBegins(u) == Admitted /\ Admit(u) /\ UNCHANGED <<propsVars, dirVars>>

UpdateGoesOn(u) == UpdateStep(u) /\ UNCHANGED <<propsVars, dirVars>>

RestoreAt(p) == restore' = p

RestoreBegins ==
    /\ restore = "new"
    /\ Admitted
    /\ RestoreAt("props")
    /\ UNCHANGED <<propsVars, updateVars, start, booted, ppc, meddled>>

\* Files are overwritten one by one: server.properties...
RestoreProps ==
    /\ restore = "props"
    /\ ExtractProps
    /\ RestoreAt("jar")
    /\ meddled' = meddled \cup Awaiting
    /\ UNCHANGED <<updateVars, start, booted, ppc>>

\* ...and paper.jar, in place.
RestoreOpensJar ==
    /\ restore = "jar"
    /\ OpenJar
    /\ RestoreAt("filling")
    /\ UNCHANGED <<propsVars, start, booted, ppc, meddled>>

RestoreFillsJar ==
    /\ restore = "filling"
    /\ FillJar
    /\ RestoreAt("done")
    /\ UNCHANGED <<propsVars, start, booted, ppc, meddled>>

\* The first error ends it; what was extracted stays.
RestoreFails ==
    /\ restore \in {"props", "jar", "filling"}
    /\ RestoreAt(IF restore = "filling" THEN "torn" ELSE "done")
    /\ UNCHANGED <<propsVars, updateVars, start, booted, ppc, meddled>>

\* The instance dies with its requests and mounts; another comes up.
McsmDies ==
    /\ snap' = [w \in Writers |-> None]
    /\ UpdatesDie
    /\ start' = [s \in Starts |-> IF start[s] = "new" THEN "new" ELSE "gone"]
    /\ ppc' = [p \in Patches |-> IF ppc[p] = "new" THEN "new" ELSE "done"]
    /\ RestoreAt(CASE restore = "filling" -> "torn" [] restore = "new" -> "new"
                   [] OTHER -> IF restore = "torn" THEN "torn" ELSE "done")
    /\ UNCHANGED <<props, lastPut, overlapped, booted, meddled>>

-----------------------------------------------------------------------------
Next ==
    \/ \E s \in Starts :
         \/ StartRefused(s) \/ StartReads(s) \/ StartPatches(s) \/ StartPatchFails(s)
         \/ StartAcquires(s) \/ StartSpawns(s) \/ StartLaunchFails(s) \/ StartPublishes(s)
         \/ JvmBoots(s) \/ StartTimesOut(s) \/ MountEnds(s)
    \/ \E p \in Patches :
         PatchAdmitted(p) \/ PatchIsVoid(p) \/ PatchReads(p) \/ PatchWrites(p) \/ PatchFails(p)
    \/ \E u \in Updates : UpdateBegins(u) \/ UpdateGoesOn(u)
    \/ RestoreBegins \/ RestoreProps \/ RestoreOpensJar \/ RestoreFillsJar \/ RestoreFails
    \/ McsmDies

Spec == Init /\ [][Next]_vars

-----------------------------------------------------------------------------
(***************************************************************************)
(* Properties.                                                             *)
(***************************************************************************)
\* No finished Start or PATCH loses a key to one that came later, fails or is
\* cut short, as long as no two of them were at work at once.
PatchesAreKept == ~overlapped => props = lastPut

\* The JVM boots with the password and port its own Start patched in, whatever
\* PATCHes and updates the slot serves in between: only another slot's Start
\* (which patches before it is refused the lock) or a restore can get between.
JvmHasItsPassword ==
    ~overlapped => \A s \in Starts \ meddled : booted[s] \in {s, None}

\* "never leaves a half-written jar around for the JVM to load" (Download):
\* what is at paper.jar, its predecessor and the staging path is a whole jar,
\* and one of the first two is there to launch or to put back, whatever fails
\* or dies.  Only overlapping downloads and a restore break it; and what one
\* download brought for a release without a SHA-256 sum counts as whole.
JarSurvives ==
    ~mixed /\ restore \notin {"filling", "torn"} =>
        /\ \A i \in {jar, prev, staging} \ {NoFile} : Whole(i)
        /\ {jar, prev} # {NoFile}

\* A Start finds no paper.jar only while an update is between its two renames
\* or after one was cut there: no other order of updates, deaths, failures and
\* restores takes it away.
LaunchFindsJar ==
    jar # NoFile \/ \E u \in Updates : upc[u] \in {"swapped", "cut"}
=============================================================================
