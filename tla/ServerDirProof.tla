--------------------------- MODULE ServerDirProof ---------------------------
(***************************************************************************)
(* Proofs about module ServerDir, for any numbers of Start calls, PATCH    *)
(* requests, updates and keys.                                             *)
(***************************************************************************)
EXTENDS ServerDir, TLAPS

USE PropsAssumption, UpdateAssumption, DirAssumption

-----------------------------------------------------------------------------
(***************************************************************************)
(* Type correctness.  A writer between its read and its rename has what it *)
(* read, and reserved keys are never taken from a PATCH.                   *)
(***************************************************************************)
ReservedFromStarts(f) == \A k \in Reserved : f[k] \in Starts \cup {Origin}

WritersKnow ==
    /\ \A s \in Starts : start[s] = "patch" => snap[s] # None
    /\ \A p \in Patches : ppc[p] = "patch" => snap[p] # None
    /\ ReservedFromStarts(props)
    /\ \A w \in AtWork : ReservedFromStarts(snap[w])

TInv == TypeOK /\ WritersKnow

LEMMA InitTyped == Init => TInv
  <1> SUFFICES ASSUME Init PROVE TInv
    OBVIOUS
  <1>1. PropsTypeOK /\ WritersKnow
    BY DEF Init, PropsInit, PropsTypeOK, Files, WritersKnow, AtWork, ReservedFromStarts
  <1>2. UpdateTypeOK
    BY DEF Init, UpdateInit, UpdateTypeOK, Sources, Paths, Downloading
  <1> QED
    BY <1>1, <1>2 DEF Init, TInv, TypeOK

\* What the operations on the two files do to their types.
LEMMA ReadTyped ==
    ASSUME TInv, NEW w \in Writers, ReadFile(w)
    PROVE  /\ PropsTypeOK' /\ snap'[w] # None
           /\ \A v \in Writers \ {w} : snap'[v] = snap[v]
           /\ ReservedFromStarts(props') /\ \A v \in AtWork' : ReservedFromStarts(snap'[v])
  BY DEF TInv, TypeOK, PropsTypeOK, WritersKnow, ReadFile, AtWork, Files, ReservedFromStarts

LEMMA RenameTyped ==
    ASSUME TInv, NEW w \in Writers, NEW patch \in SUBSET Keys, RenameFile(w, patch),
           snap[w] # None, w \in Patches => patch \cap Reserved = {}
    PROVE  /\ PropsTypeOK'
           /\ \A v \in Writers \ {w} : snap'[v] = snap[v]
           /\ ReservedFromStarts(props') /\ \A v \in AtWork' : ReservedFromStarts(snap'[v])
  <1>1. snap[w] \in Files /\ ReservedFromStarts(snap[w])
    BY DEF TInv, TypeOK, PropsTypeOK, WritersKnow, AtWork
  <1>2. props' \in Files /\ lastPut' \in Files
    BY <1>1 DEF RenameFile, Edited, Files, TInv, TypeOK, PropsTypeOK
  <1>3. ReservedFromStarts(props')
    BY <1>1 DEF RenameFile, Edited, ReservedFromStarts
  <1> QED
    BY <1>2, <1>3 DEF TInv, TypeOK, PropsTypeOK, WritersKnow, RenameFile, AtWork

LEMMA AbandonTyped ==
    ASSUME TInv, NEW w \in Writers, Abandon(w)
    PROVE  /\ PropsTypeOK'
           /\ \A v \in Writers \ {w} : snap'[v] = snap[v]
           /\ ReservedFromStarts(props') /\ \A v \in AtWork' : ReservedFromStarts(snap'[v])
  BY DEF TInv, TypeOK, PropsTypeOK, WritersKnow, Abandon, AtWork, ReservedFromStarts

\* The steps of a Start call and of a PATCH that touch the properties.
LEMMA WriterStepTyped ==
    ASSUME TInv,
           \/ \E s \in Starts : StartReads(s) \/ StartPatches(s) \/ StartPatchFails(s)
           \/ \E p \in Patches : PatchReads(p) \/ PatchWrites(p) \/ PatchFails(p)
    PROVE  TInv'
  <1> USE DEF TInv, TypeOK, WritersKnow, StartAt, updateVars, files
  <1>1. ASSUME NEW s \in Starts, StartReads(s) PROVE TInv'
    BY <1>1, ReadTyped DEF StartReads, UpdateTypeOK
  <1>2. ASSUME NEW s \in Starts, StartPatches(s) PROVE TInv'
    <2>1. snap[s] # None
      BY <1>2 DEF StartPatches
    <2>2. Awaiting \subseteq Starts
      BY DEF Awaiting, Owners
    <2> QED
      BY <1>2, <2>1, <2>2, RenameTyped DEF StartPatches, UpdateTypeOK
  <1>3. ASSUME NEW s \in Starts, StartPatchFails(s) PROVE TInv'
    BY <1>3, AbandonTyped DEF StartPatchFails, UpdateTypeOK
  <1>4. ASSUME NEW p \in Patches, PatchReads(p) PROVE TInv'
    BY <1>4, ReadTyped DEF PatchReads, PatchAt, UpdateTypeOK
  <1>5. ASSUME NEW p \in Patches, PatchWrites(p) PROVE TInv'
    <2>1. snap[p] # None
      BY <1>5 DEF PatchWrites
    <2>2. Accepted(p) \in SUBSET Keys /\ Accepted(p) \cap Reserved = {}
      BY DEF Accepted
    <2> QED
      BY <1>5, <2>1, <2>2, RenameTyped DEF PatchWrites, PatchAt, UpdateTypeOK
  <1>6. ASSUME NEW p \in Patches, PatchFails(p) PROVE TInv'
    BY <1>6, AbandonTyped DEF PatchFails, PatchAt, UpdateTypeOK
  <1> QED
    BY <1>1, <1>2, <1>3, <1>4, <1>5, <1>6

\* The steps of a mount that touch neither file.
LEMMA MountStepTyped ==
    ASSUME TInv, NEW s \in Starts,
           \/ StartRefused(s) \/ StartAcquires(s) \/ StartSpawns(s) \/ StartLaunchFails(s)
           \/ StartPublishes(s) \/ JvmBoots(s) \/ StartTimesOut(s) \/ MountEnds(s)
    PROVE  TInv'
  <1> USE DEF TInv, TypeOK, PropsTypeOK, UpdateTypeOK, WritersKnow, StartAt,
              propsVars, updateVars, files, AtWork
  <1>1. CASE JvmBoots(s)
    BY <1>1 DEF JvmBoots, ReservedFromStarts
  <1>2. CASE ~JvmBoots(s)
    BY <1>2 DEF StartRefused, StartAcquires, StartSpawns, StartLaunchFails,
                StartPublishes, StartTimesOut, MountEnds
  <1> QED
    BY <1>1, <1>2

\* The steps of a PATCH that touch neither file.
LEMMA PatchStepTyped ==
    ASSUME TInv, NEW p \in Patches, PatchAdmitted(p) \/ PatchIsVoid(p)
    PROVE  TInv'
  <1>1. /\ ppc' \in [Patches -> {"new", "admitted", "patch", "done"}]
        /\ \A q \in Patches : ppc'[q] = "patch" => ppc[q] = "patch"
        /\ UNCHANGED <<propsVars, updateVars, start, booted, restore, meddled>>
    BY DEF PatchAdmitted, PatchIsVoid, PatchAt, TInv, TypeOK
  <1> QED
    BY <1>1 DEF TInv, TypeOK, PropsTypeOK, UpdateTypeOK, WritersKnow, AtWork,
                propsVars, updateVars, files, ReservedFromStarts

LEMMA UpdateStepTyped ==
    ASSUME UpdateTypeOK, NEW u \in Updates, Admit(u) \/ UpdateStep(u)
    PROVE  UpdateTypeOK'
  <1> USE DEF UpdateTypeOK, UpdateAt, files, Downloading, Sources, Paths
  <1>1. CASE Admit(u) \/ UpdateFails(u)
    BY <1>1 DEF Admit, UpdateFails
  <1>2. CASE CreatePart(u)
    BY <1>2 DEF CreatePart
  <1>3. CASE Copied(u) \/ CopyFails(u)
    BY <1>3 DEF Copied, CopyFails
  <1>4. CASE Stage(u) \/ StageFails(u) \/ Clean(u)
    BY <1>4 DEF Stage, StageFails, Clean
  <1>5. CASE SwapOut(u) \/ SwapIn(u) \/ SwapInFails(u)
    BY <1>5 DEF SwapOut, SwapIn, SwapInFails
  <1> QED
    BY <1>1, <1>2, <1>3, <1>4, <1>5 DEF UpdateStep

LEMMA RestoreStepTyped ==
    ASSUME TInv,
           \/ RestoreBegins \/ RestoreProps \/ RestoreOpensJar
           \/ RestoreFillsJar \/ RestoreFails
    PROVE  TInv'
  <1> USE DEF TInv, TypeOK, WritersKnow, RestoreAt, ReservedFromStarts, AtWork,
              PropsTypeOK, propsVars
  <1>1. CASE RestoreBegins \/ RestoreFails
    BY <1>1 DEF RestoreBegins, RestoreFails, UpdateTypeOK, updateVars, files
  <1>2. CASE RestoreProps
    <2>1. Awaiting \subseteq Starts
      BY DEF Awaiting, Owners
    <2> QED
      BY <1>2, <2>1 DEF RestoreProps, ExtractProps, Files, UpdateTypeOK, updateVars, files
  <1>3. CASE RestoreOpensJar \/ RestoreFillsJar
    <2>1. UpdateTypeOK'
      BY <1>3 DEF RestoreOpensJar, RestoreFillsJar, OpenJar, FillJar, UpdateTypeOK,
                  Sources, Paths, files
    <2> QED
      BY <1>3, <2>1 DEF RestoreOpensJar, RestoreFillsJar
  <1> QED
    BY <1>1, <1>2, <1>3

LEMMA DeathTyped ==
    ASSUME TInv, McsmDies
    PROVE  TInv'
  <1> USE DEF TInv, TypeOK, WritersKnow, PropsTypeOK, McsmDies
  <1>1. UpdateTypeOK'
    BY DEF UpdatesDie, UpdateTypeOK, Downloading, Paths, files
  <1>2. PropsTypeOK' /\ AtWork' = {} /\ ReservedFromStarts(props')
    BY DEF AtWork
  <1>3. restore' \in {"new", "props", "jar", "filling", "done", "torn"}
    BY DEF RestoreAt
  <1> QED
    BY <1>1, <1>2, <1>3

LEMMA NextTyped ==
    ASSUME TInv, [Next]_vars
    PROVE  TInv'
  <1>1. CASE UNCHANGED vars
    BY <1>1 DEF vars, propsVars, updateVars, files, dirVars, TInv, TypeOK, PropsTypeOK,
                UpdateTypeOK, WritersKnow, AtWork, ReservedFromStarts
  <1>2. ASSUME NEW u \in Updates, UpdateBegins(u) \/ UpdateGoesOn(u) PROVE TInv'
    <2>1. UpdateTypeOK'
      BY <1>2, UpdateStepTyped DEF TInv, TypeOK, UpdateBegins, UpdateGoesOn
    <2> QED
      BY <1>2, <2>1 DEF UpdateBegins, UpdateGoesOn, propsVars, dirVars, TInv, TypeOK,
                        PropsTypeOK, WritersKnow, AtWork, ReservedFromStarts
  <1> QED
    BY <1>1, <1>2, WriterStepTyped, MountStepTyped, PatchStepTyped, RestoreStepTyped, DeathTyped DEF Next

\* The files, the mounts and the requests keep their types.
THEOREM DirTypeCorrect == Spec => []TypeOK
  <1>1. TInv => TypeOK
    BY DEF TInv
  <1> QED
    BY <1>1, InitTyped, NextTyped, PTL DEF Spec

-----------------------------------------------------------------------------
(***************************************************************************)
(* server.properties.  Unless writers overlap, the one at work has read    *)
(* what is on file, and the reserved keys of a mount whose JVM has yet to  *)
(* boot are still its own; nothing weaker is inductive, since a PATCH      *)
(* writes back the reserved keys as it read them.                          *)
(***************************************************************************)
OneWriter ==
    /\ props = lastPut
    /\ \A v, w \in AtWork : v = w
    /\ \A w \in AtWork : snap[w] = props

OwnKeys ==
    /\ \A s \in Awaiting \ meddled : \A k \in Reserved : props[k] = s
    /\ \A s \in Starts \ meddled : booted[s] \in {s, None}

PInv == ~overlapped => OneWriter /\ OwnKeys

\* A reader finds nobody at work, or overlaps.
LEMMA ReadKeepsWriter ==
    ASSUME TInv, ~overlapped => OneWriter, NEW w \in Writers, ReadFile(w), ~overlapped'
    PROVE  ~overlapped /\ OneWriter'
  <1>1. ~overlapped /\ AtWork = {}
    <2>1. overlapped' = (overlapped \/ AtWork # {})
      BY DEF ReadFile
    <2> QED
      BY <2>1
  <1>2. snap' = [snap EXCEPT ![w] = props] /\ UNCHANGED <<props, lastPut>>
    BY DEF ReadFile
  <1>3. \A v \in AtWork' : v = w
    BY <1>1, <1>2 DEF AtWork, TInv, TypeOK, PropsTypeOK
  <1> QED
    BY <1>1, <1>2, <1>3 DEF OneWriter, TInv, TypeOK, PropsTypeOK, AtWork

LEMMA RenameKeepsWriter ==
    ASSUME TInv, OneWriter, NEW w \in Writers, NEW patch \in SUBSET Keys,
           snap[w] # None, RenameFile(w, patch)
    PROVE  OneWriter'
  <1>1. w \in AtWork /\ snap[w] = props /\ props = lastPut
    BY DEF OneWriter, AtWork
  <1>2. props' = lastPut'
    BY <1>1 DEF RenameFile, Edited
  <1>3. AtWork' = {}
    BY <1>1 DEF RenameFile, OneWriter, AtWork, TInv, TypeOK, PropsTypeOK
  <1> QED
    BY <1>2, <1>3 DEF OneWriter

LEMMA AbandonKeepsWriter ==
    ASSUME TInv, OneWriter, NEW w \in Writers, Abandon(w)
    PROVE  OneWriter'
  BY DEF OneWriter, Abandon, AtWork, TInv, TypeOK, PropsTypeOK

\* What leaves the file alone and makes no mount wait for its JVM keeps the keys.
LEMMA KeysKept ==
    ASSUME OwnKeys, UNCHANGED <<props, booted, meddled>>, Awaiting' \subseteq Awaiting
    PROVE  OwnKeys'
  BY DEF OwnKeys

LEMMA StartKeepsProps ==
    ASSUME TInv, PInv, NEW s \in Starts, ~overlapped',
           StartReads(s) \/ StartPatches(s) \/ StartPatchFails(s)
    PROVE  OneWriter' /\ OwnKeys'
  <1> USE DEF StartAt, Awaiting, Owners, TInv, TypeOK
  <1>1. CASE StartReads(s)
    <2>1. ~overlapped /\ OneWriter'
      BY <1>1, ReadKeepsWriter DEF StartReads, PInv
    <2>2. UNCHANGED <<props, booted, meddled>> /\ Awaiting' \subseteq Awaiting
      BY <1>1 DEF StartReads, ReadFile
    <2> QED
      BY <2>1, <2>2, KeysKept DEF PInv
  <1>2. CASE StartPatches(s)
    <2>1. ~overlapped /\ snap[s] # None /\ RenameFile(s, Managed)
      BY <1>2 DEF StartPatches, RenameFile, WritersKnow
    <2>2. OneWriter'
      BY <2>1, RenameKeepsWriter DEF PInv
    <2>3. Awaiting' \subseteq Awaiting \cup {s} /\ meddled' = meddled \cup Awaiting
          /\ booted' = booted
      BY <1>2 DEF StartPatches
    <2>4. \A k \in Reserved : props'[k] = s
      BY <2>1 DEF RenameFile, Edited
    <2> QED
      BY <2>1, <2>2, <2>3, <2>4 DEF OwnKeys, PInv
  <1>3. CASE StartPatchFails(s)
    <2>1. ~overlapped /\ OneWriter'
      BY <1>3, AbandonKeepsWriter DEF StartPatchFails, Abandon, PInv
    <2>2. UNCHANGED <<props, booted, meddled>> /\ Awaiting' \subseteq Awaiting
      BY <1>3 DEF StartPatchFails, Abandon
    <2> QED
      BY <2>1, <2>2, KeysKept DEF PInv
  <1> QED
    BY <1>1, <1>2, <1>3

LEMMA PatchKeepsProps ==
    ASSUME TInv, PInv, NEW p \in Patches, ~overlapped',
           PatchReads(p) \/ PatchWrites(p) \/ PatchFails(p)
    PROVE  OneWriter' /\ OwnKeys'
  <1> USE DEF TInv, TypeOK
  <1>1. UNCHANGED <<booted, meddled, start>> /\ Awaiting' = Awaiting
    BY DEF PatchReads, PatchWrites, PatchFails, Awaiting, Owners
  <1>2. CASE PatchReads(p)
    <2>1. ~overlapped /\ OneWriter'
      BY <1>2, ReadKeepsWriter DEF PatchReads, PInv
    <2>2. props' = props
      BY <1>2 DEF PatchReads, ReadFile
    <2> QED
      BY <1>1, <2>1, <2>2, KeysKept DEF PInv
  <1>3. CASE PatchWrites(p)
    <2>1. ~overlapped /\ snap[p] # None /\ RenameFile(p, Accepted(p))
      BY <1>3 DEF PatchWrites, RenameFile, WritersKnow
    <2>2. OneWriter'
      BY <2>1, RenameKeepsWriter DEF PInv, Accepted
    <2>3. snap[p] = props
      BY <2>1 DEF PInv, OneWriter, AtWork
    <2>4. \A k \in Reserved : props'[k] = props[k]
      BY <2>1, <2>3 DEF RenameFile, Edited, Accepted
    <2> QED
      BY <1>1, <2>1, <2>2, <2>4 DEF OwnKeys, PInv
  <1>4. CASE PatchFails(p)
    <2>1. ~overlapped /\ OneWriter' /\ props' = props
      BY <1>4, AbandonKeepsWriter DEF PatchFails, Abandon, PInv
    <2> QED
      BY <1>1, <2>1, KeysKept DEF PInv
  <1> QED
    BY <1>2, <1>3, <1>4

LEMMA NextProps ==
    ASSUME TInv, PInv, [Next]_vars
    PROVE  PInv'
  <1> SUFFICES ASSUME ~overlapped' PROVE OneWriter' /\ OwnKeys'
    BY DEF PInv
  <1>1. CASE UNCHANGED propsVars /\ UNCHANGED <<booted, meddled>> /\ Awaiting' \subseteq Awaiting
    <2>1. OneWriter /\ OwnKeys
      BY <1>1 DEF PInv, propsVars
    <2>2. OneWriter'
      BY <1>1, <2>1 DEF propsVars, OneWriter, AtWork
    <2> QED
      BY <1>1, <2>1, <2>2, KeysKept DEF propsVars
  <1>2. ASSUME NEW s \in Starts,
               \/ StartRefused(s) \/ StartAcquires(s) \/ StartSpawns(s) \/ StartLaunchFails(s)
               \/ StartPublishes(s) \/ StartTimesOut(s) \/ MountEnds(s)
        PROVE  UNCHANGED propsVars /\ UNCHANGED <<booted, meddled>> /\ Awaiting' \subseteq Awaiting
    BY <1>2 DEF StartRefused, StartAcquires, StartSpawns, StartLaunchFails, StartPublishes,
                StartTimesOut, MountEnds, StartAt, Awaiting, Owners, TInv, TypeOK
  <1>3. ASSUME NEW s \in Starts, JvmBoots(s) PROVE OneWriter' /\ OwnKeys'
    <2>1. OneWriter /\ OwnKeys
      BY <1>3 DEF PInv, JvmBoots, propsVars
    <2>2. OneWriter'
      BY <1>3, <2>1 DEF JvmBoots, propsVars, OneWriter, AtWork
    <2>3. s \in Awaiting
      BY <1>3 DEF JvmBoots, Awaiting, Owners
    <2>4. PICK k \in Reserved : booted' = [booted EXCEPT ![s] = props[k]]
      BY <1>3 DEF JvmBoots
    <2>5. Awaiting' \subseteq Awaiting /\ UNCHANGED <<props, meddled>>
      BY <1>3, <2>4 DEF JvmBoots, propsVars, Awaiting, Owners, TInv, TypeOK
    <2> QED
      BY <2>1, <2>2, <2>3, <2>4, <2>5 DEF OwnKeys, TInv, TypeOK
  <1>4. ASSUME NEW u \in Updates, UpdateBegins(u) \/ UpdateGoesOn(u)
        PROVE  UNCHANGED propsVars /\ UNCHANGED <<booted, meddled>> /\ Awaiting' \subseteq Awaiting
    BY <1>4 DEF UpdateBegins, UpdateGoesOn, dirVars, Awaiting, Owners
  <1>5. CASE RestoreBegins \/ RestoreOpensJar \/ RestoreFillsJar \/ RestoreFails
    <2>1. UNCHANGED propsVars /\ UNCHANGED <<booted, meddled, start>>
      BY <1>5 DEF RestoreBegins, RestoreOpensJar, RestoreFillsJar, RestoreFails
    <2> QED
      BY <1>1, <2>1 DEF Awaiting, Owners
  <1>6. CASE RestoreProps
    <2>1. overlapped' = (overlapped \/ AtWork # {})
      BY <1>6 DEF RestoreProps, ExtractProps
    <2>2. ~overlapped /\ AtWork = {}
      BY <2>1
    <2>3. OneWriter'
      BY <1>6, <2>2 DEF RestoreProps, ExtractProps, OneWriter, AtWork
    <2>4. Awaiting' = Awaiting /\ meddled' = meddled \cup Awaiting /\ booted' = booted
      BY <1>6 DEF RestoreProps, Awaiting, Owners
    <2> QED
      BY <2>2, <2>3, <2>4 DEF PInv, OwnKeys
  <1>7. CASE McsmDies
    <2>1. ~overlapped /\ UNCHANGED <<props, lastPut, booted, meddled>>
      BY <1>7 DEF McsmDies
    <2>2. AtWork' = {} /\ Awaiting' = {}
      BY <1>7 DEF McsmDies, AtWork, Awaiting, Owners
    <2> QED
      BY <2>1, <2>2 DEF PInv, OneWriter, OwnKeys
  <1>8. CASE UNCHANGED vars
    BY <1>1, <1>8 DEF vars, dirVars, Awaiting, Owners
  <1>9. ASSUME NEW p \in Patches, PatchAdmitted(p) \/ PatchIsVoid(p)
        PROVE  UNCHANGED propsVars /\ UNCHANGED <<booted, meddled>> /\ Awaiting' \subseteq Awaiting
    BY <1>9 DEF PatchAdmitted, PatchIsVoid, Awaiting, Owners
  <1> QED
    BY <1>1, <1>2, <1>3, <1>4, <1>5, <1>6, <1>7, <1>8, <1>9, StartKeepsProps, PatchKeepsProps
       DEF Next

THEOREM PropsInvariant == Spec => [](TInv /\ PInv)
  <1>1. Init => PInv
    BY DEF Init, PropsInit, PInv, OneWriter, OwnKeys, AtWork, Awaiting, Owners
  <1> QED
    BY <1>1, InitTyped, NextTyped, NextProps, PTL DEF Spec

\* As long as no two writers overlap no Start or PATCH loses a key that a
\* finished one has set (PatchProperties, handlePropertiesPatch).
THEOREM NoPatchIsLost == Spec => []PatchesAreKept
  <1>1. PInv => PatchesAreKept
    BY DEF PInv, OneWriter, PatchesAreKept
  <1> QED
    BY <1>1, PropsInvariant, PTL

\* Every JVM boots with the password its own Start patched in, unless another
\* slot's Start or a restore came between, or two writers overlapped.
THEOREM PasswordReachesJvm == Spec => []JvmHasItsPassword
  <1>1. PInv => JvmHasItsPassword
    BY DEF PInv, OwnKeys, JvmHasItsPassword
  <1> QED
    BY <1>1, PropsInvariant, PTL

-----------------------------------------------------------------------------
(***************************************************************************)
(* paper.jar.  Unless downloads overlap, the .part file belongs to the one *)
(* at work (or to none), is none of the other three files, and holds its   *)
(* bytes alone: that makes whole what Stage puts at the staging path, and  *)
(* keeps a truncated .part file from being a jar someone may launch.       *)
(***************************************************************************)
OneDownload ==
    \A u, v \in Updates : upc[u] \in Downloading /\ upc[v] \in Downloading => u = v

PartIsApart ==
    /\ part \in Updates \cup {NoFile}
    /\ part # NoFile => part \notin {jar, prev, staging}
    /\ \A u \in Updates :
         upc[u] \in {"new", "admitted"} => u \notin {part, staging, jar, prev}

PartIsOwn ==
    /\ \A u \in Updates : upc[u] = "copy" => fd[u] = part /\ part # NoFile /\ bytes[part] = {}
    /\ \A u \in Updates : upc[u] = "verify" => part # NoFile /\ bytes[part] = {u}

\* Whole, or the restore is still filling it.
Sound(i) == Whole(i) \/ (restore = "filling" /\ bytes[i] = {Archive})

FilesSound ==
    /\ restore # "torn" => \A i \in {jar, prev, staging} \ {NoFile} : Sound(i)
    /\ jar # NoFile \/ prev # NoFile

JInv == ~mixed => OneDownload /\ PartIsApart /\ PartIsOwn /\ FilesSound

LEMMA InitJar == Init => JInv /\ LaunchFindsJar
  <1> SUFFICES ASSUME Init PROVE JInv /\ LaunchFindsJar
    OBVIOUS
  <1> USE DEF Init, UpdateInit, Sources
  <1>1. OneDownload /\ PartIsOwn /\ LaunchFindsJar
    BY DEF OneDownload, PartIsOwn, LaunchFindsJar, Downloading
  <1>2. PartIsApart
    BY DEF PartIsApart
  <1>3. FilesSound
    BY DEF FilesSound, Sound, Whole
  <1> QED
    BY <1>1, <1>2, <1>3 DEF JInv

LEMMA UpdateKeepsJar ==
    ASSUME TypeOK, JInv, NEW u \in Updates, Admit(u) \/ UpdateStep(u), restore' = restore
    PROVE  JInv'
  <1> SUFFICES ASSUME ~mixed'
               PROVE  OneDownload' /\ PartIsApart' /\ PartIsOwn' /\ FilesSound'
    BY DEF JInv
  <1>1. ~mixed
    BY DEF Admit, UpdateStep, UpdateFails, CreatePart, Copied, CopyFails, Stage, StageFails,
           Clean, SwapOut, SwapIn, SwapInFails
  <1>2. OneDownload /\ PartIsApart /\ PartIsOwn /\ FilesSound
    BY <1>1 DEF JInv
  <1> USE <1>2 DEF TypeOK, UpdateTypeOK, UpdateAt, files, Paths, Sources
  <1>3. CASE CreatePart(u)
    <2>1. \A v \in Updates : upc[v] \notin Downloading
      BY <1>3 DEF CreatePart
    <2>2. u \notin {part, staging, jar, prev}
      BY <1>3 DEF CreatePart, PartIsApart
    <2> DEFINE i == IF part = NoFile THEN u ELSE part
    <2>3. i \in Updates /\ i \notin {jar, prev, staging}
      BY <2>2 DEF PartIsApart
    <2>4. /\ part' = i /\ fd' = [fd EXCEPT ![u] = i] /\ bytes' = [bytes EXCEPT ![i] = {}]
          /\ upc' = [upc EXCEPT ![u] = "copy"] /\ unsummed \subseteq unsummed'
          /\ UNCHANGED <<good, staging, jar, prev>>
      BY <1>3 DEF CreatePart
    <2> HIDE DEF i
    <2>5. OneDownload'
      BY <2>1, <2>4 DEF OneDownload
    <2>6. PartIsApart'
      BY <2>2, <2>3, <2>4 DEF PartIsApart, i
    <2>7. PartIsOwn'
      BY <2>1, <2>3, <2>4 DEF PartIsOwn, Downloading
    <2>8. FilesSound'
      BY <2>3, <2>4 DEF FilesSound, Sound, Whole
    <2> QED
      BY <2>5, <2>6, <2>7, <2>8
  <1>4. CASE Copied(u) \/ CopyFails(u)
    <2>1. /\ upc[u] = "copy" /\ fd[u] = part /\ part \in Updates /\ bytes[part] = {}
          /\ bytes' = [bytes EXCEPT ![part] = {u}]
          /\ upc'[u] = "verify" \/ upc'[u] = "cleanFailed"
          /\ \A v \in Updates \ {u} : upc'[v] = upc[v]
          /\ UNCHANGED <<fd, unsummed, files>> /\ good \subseteq good'
      BY <1>4 DEF Copied, CopyFails, PartIsOwn, PartIsApart
    <2>2. \A v \in Updates \ {u} : upc[v] \notin Downloading
      BY <2>1 DEF OneDownload, Downloading
    <2>3. OneDownload' /\ PartIsApart' /\ PartIsOwn'
      BY <2>1, <2>2 DEF OneDownload, PartIsApart, PartIsOwn, Downloading
    <2>4. \A i \in {jar, prev, staging} : bytes'[i] = bytes[i]
      BY <2>1 DEF PartIsApart
    <2> QED
      BY <2>1, <2>3, <2>4 DEF FilesSound, Sound, Whole
  <1>5. CASE Stage(u)
    <2>1. bytes[part] = {u} /\ u \in good \cup unsummed /\ part # NoFile
      BY <1>5 DEF Stage, PartIsOwn
    <2>2. \A v \in Updates \ {u} : upc[v] \notin Downloading
      BY <1>5 DEF Stage, OneDownload, Downloading
    <2>3. OneDownload' /\ PartIsApart' /\ PartIsOwn'
      BY <1>5, <2>2 DEF Stage, OneDownload, PartIsApart, PartIsOwn, Downloading
    <2>4. UNCHANGED <<bytes, good, unsummed, jar, prev>> /\ staging' = part
      BY <1>5 DEF Stage
    <2>5. Sound(part)
      BY <2>1 DEF Sound, Whole
    <2>6. \A i : Sound(i) => Sound(i)'
      BY <2>4 DEF Sound, Whole
    <2> QED
      BY <2>1, <2>3, <2>4, <2>5, <2>6 DEF FilesSound
  <1>6. CASE Clean(u)
    <2>1. \A v \in Updates \ {u} : upc[v] \notin Downloading
      BY <1>6 DEF Clean, OneDownload, Downloading
    <2> QED
      BY <1>6, <2>1 DEF Clean, OneDownload, PartIsApart, PartIsOwn, FilesSound, Sound,
                        Whole, Downloading
  <1>7. CASE Admit(u) \/ UpdateFails(u) \/ StageFails(u) \/ SwapInFails(u)
    <2>1. UNCHANGED <<fd, bytes, good, unsummed, files>>
      BY <1>7 DEF Admit, UpdateFails, StageFails, SwapInFails
    <2>2. FilesSound'
      BY <2>1 DEF FilesSound, Sound, Whole
    <2>3. /\ \A v \in Updates \ {u} : upc'[v] = upc[v]
          /\ upc'[u] \notin {"new", "copy", "verify"}
          /\ upc'[u] = "admitted" => upc[u] = "new"
          /\ upc'[u] \in Downloading => upc[u] \in Downloading
      BY <1>7 DEF Admit, UpdateFails, StageFails, SwapInFails, Downloading
    <2> QED
      BY <2>1, <2>2, <2>3 DEF OneDownload, PartIsApart, PartIsOwn
  <1>8. CASE SwapOut(u) \/ SwapIn(u)
    <2>1. /\ \A v \in Updates \ {u} : upc'[v] = upc[v]
          /\ upc'[u] \in {"swapped", "done"}
          /\ UNCHANGED <<fd, bytes, good, unsummed, part>>
          /\ {jar', prev', staging'} \subseteq {jar, prev, staging, NoFile}
          /\ jar' # NoFile \/ prev' # NoFile
      BY <1>8 DEF SwapOut, SwapIn, FilesSound
    <2> QED
      BY <2>1 DEF OneDownload, PartIsApart, PartIsOwn, FilesSound, Sound, Whole, Downloading
  <1> QED
    BY <1>3, <1>4, <1>5, <1>6, <1>7, <1>8 DEF UpdateStep

LEMMA RestoreKeepsJar ==
    ASSUME TypeOK, JInv, RestoreOpensJar \/ RestoreFillsJar
    PROVE  JInv'
  <1> SUFFICES ASSUME ~mixed'
               PROVE  OneDownload' /\ PartIsApart' /\ PartIsOwn' /\ FilesSound'
    BY DEF JInv
  <1>1. OneDownload /\ PartIsApart /\ PartIsOwn /\ FilesSound
    BY DEF JInv, RestoreOpensJar, RestoreFillsJar, OpenJar, FillJar
  <1> USE <1>1 DEF TypeOK, UpdateTypeOK, RestoreAt, files, Paths, Sources
  <1>2. CASE RestoreOpensJar
    <2>1. /\ jar' # NoFile /\ jar' \in {jar, Archive} /\ jar' \in Sources
          /\ bytes' = [bytes EXCEPT ![jar'] = {Archive}] /\ restore' = "filling"
          /\ restore # "torn" /\ UNCHANGED <<upc, fd, good, unsummed, part, staging, prev>>
      BY <1>2 DEF RestoreOpensJar, OpenJar
    <2>2. PartIsApart' /\ part # jar'
      BY <2>1 DEF PartIsApart
    <2>3. PartIsOwn'
      BY <2>1, <2>2 DEF PartIsOwn, PartIsApart
    <2>4. \A i \in {jar', prev, staging} \ {NoFile} : bytes'[i] = {Archive} \/ Whole(i)'
      BY <2>1, <1>2 DEF RestoreOpensJar, FilesSound, Sound, Whole
    <2> QED
      BY <2>1, <2>2, <2>3, <2>4 DEF OneDownload, FilesSound, Sound
  <1>3. CASE RestoreFillsJar
    <2>1. /\ UNCHANGED <<upc, fd, bytes, unsummed, files>> /\ good' = good \cup {Archive}
          /\ restore = "filling" /\ restore' = "done"
      BY <1>3 DEF RestoreFillsJar, FillJar
    <2> QED
      BY <2>1 DEF OneDownload, PartIsApart, PartIsOwn, FilesSound, Sound, Whole
  <1> QED
    BY <1>2, <1>3

\* What leaves the jars alone and keeps a restore from forgetting one it fills.
LEMMA JarKept ==
    ASSUME JInv, UNCHANGED updateVars,
           restore' = restore \/ restore' = "torn" \/ restore \notin {"filling", "torn"}
    PROVE  JInv'
  <1>1. CASE mixed
    BY <1>1 DEF JInv, updateVars
  <1>2. CASE ~mixed
    BY <1>2 DEF JInv, updateVars, files, OneDownload, PartIsApart, PartIsOwn, FilesSound,
                Sound, Whole
  <1> QED
    BY <1>1, <1>2

LEMMA NextJar ==
    ASSUME TypeOK, JInv, [Next]_vars
    PROVE  JInv'
  <1>1. ASSUME NEW s \in Starts,
               \/ StartRefused(s) \/ StartReads(s) \/ StartPatches(s) \/ StartPatchFails(s)
               \/ StartAcquires(s) \/ StartSpawns(s) \/ StartLaunchFails(s)
               \/ StartPublishes(s) \/ JvmBoots(s) \/ StartTimesOut(s) \/ MountEnds(s)
        PROVE  JInv'
    <2>1. UNCHANGED <<updateVars, restore>>
      BY <1>1 DEF StartRefused, StartReads, StartPatches, StartPatchFails, StartAcquires,
                  StartSpawns, StartLaunchFails, StartPublishes, JvmBoots, StartTimesOut, MountEnds
    <2> QED
      BY <2>1, JarKept
  <1>2. ASSUME NEW p \in Patches,
               \/ PatchAdmitted(p) \/ PatchIsVoid(p) \/ PatchReads(p)
               \/ PatchWrites(p) \/ PatchFails(p)
        PROVE  JInv'
    <2>1. UNCHANGED <<updateVars, restore>>
      BY <1>2 DEF PatchAdmitted, PatchIsVoid, PatchReads, PatchWrites, PatchFails
    <2> QED
      BY <2>1, JarKept
  <1>3. ASSUME NEW u \in Updates, UpdateBegins(u) \/ UpdateGoesOn(u) PROVE JInv'
    <2>1. restore' = restore /\ (Admit(u) \/ UpdateStep(u))
      BY <1>3 DEF UpdateBegins, UpdateGoesOn, dirVars
    <2> QED
      BY <2>1, UpdateKeepsJar
  <1>4. CASE RestoreBegins \/ RestoreProps \/ RestoreFails
    <2>1. UNCHANGED updateVars
      BY <1>4 DEF RestoreBegins, RestoreProps, RestoreFails
    <2>2. restore' = "torn" \/ restore \notin {"filling", "torn"}
      BY <1>4 DEF RestoreBegins, RestoreProps, RestoreFails, RestoreAt
    <2> QED
      BY <2>1, <2>2, JarKept
  <1>5. CASE McsmDies
    <2>1. UNCHANGED <<bytes, good, unsummed, files, mixed>>
      BY <1>5 DEF McsmDies, UpdatesDie
    <2>2. \A u \in Updates : upc'[u] \notin Downloading \cup {"admitted"}
                             /\ (upc'[u] = "new" => upc[u] = "new")
      BY <1>5 DEF McsmDies, UpdatesDie, TypeOK, UpdateTypeOK, Downloading
    <2>3. restore' # "torn" => restore' # "filling" /\ restore \notin {"filling", "torn"}
      BY <1>5 DEF McsmDies, RestoreAt
    <2>4. CASE mixed
      BY <2>1, <2>4 DEF JInv
    <2>5. CASE ~mixed
      <3>1. OneDownload' /\ PartIsApart' /\ PartIsOwn'
        BY <2>1, <2>2, <2>5 DEF JInv, OneDownload, PartIsApart, PartIsOwn, Downloading, files
      <3>2. FilesSound'
        BY <2>1, <2>3, <2>5 DEF JInv, FilesSound, Sound, Whole, files
      <3> QED
        BY <3>1, <3>2 DEF JInv
    <2> QED
      BY <2>4, <2>5
  <1>6. CASE UNCHANGED vars
    BY <1>6, JarKept DEF vars, dirVars
  <1> QED
    BY <1>1, <1>2, <1>3, <1>4, <1>5, <1>6, RestoreKeepsJar DEF Next

LEMMA NextFindsJar ==
    ASSUME TypeOK, LaunchFindsJar, [Next]_vars
    PROVE  LaunchFindsJar'
  <1> USE DEF LaunchFindsJar
  <1>1. CASE jar' # NoFile
    BY <1>1
  <1>2. CASE jar' = NoFile /\ UNCHANGED <<jar, upc>>
    BY <1>2
  <1>3. ASSUME NEW u \in Updates, Admit(u) \/ UpdateStep(u) PROVE LaunchFindsJar'
    <2> USE DEF TypeOK, UpdateTypeOK, UpdateAt, files
    <2>1. CASE Admit(u) \/ UpdateFails(u) \/ CreatePart(u) \/ Copied(u) \/ CopyFails(u)
               \/ Stage(u) \/ StageFails(u) \/ Clean(u)
      <3>1. upc[u] \notin {"swapped", "cut"} /\ jar' = jar
            /\ \A v \in Updates \ {u} : upc'[v] = upc[v]
        BY <2>1 DEF Admit, UpdateFails, CreatePart, Copied, CopyFails, Stage, StageFails,
                    Clean, Downloading
      <3> QED
        BY <3>1
    <2>2. CASE SwapOut(u) \/ SwapIn(u) \/ SwapInFails(u)
      BY <2>2 DEF SwapOut, SwapIn, SwapInFails
    <2> QED
      BY <1>3, <2>1, <2>2 DEF UpdateStep
  <1>4. ASSUME UpdatesDie PROVE LaunchFindsJar'
    BY <1>4 DEF UpdatesDie, files, TypeOK, UpdateTypeOK
  <1>5. ASSUME OpenJar \/ FillJar PROVE LaunchFindsJar'
    BY <1>5 DEF OpenJar, FillJar, files, Sources
  <1>6. ASSUME UNCHANGED updateVars PROVE LaunchFindsJar'
    BY <1>6 DEF updateVars, files
  <1> QED
    BY <1>3, <1>4, <1>5, <1>6
       DEF Next, vars, UpdateBegins, UpdateGoesOn, McsmDies, RestoreBegins, RestoreProps,
           RestoreOpensJar, RestoreFillsJar, RestoreFails, PatchAdmitted, PatchIsVoid,
           PatchReads, PatchWrites, PatchFails, StartRefused, StartReads, StartPatches,
           StartPatchFails, StartAcquires, StartSpawns, StartLaunchFails, StartPublishes,
           JvmBoots, StartTimesOut, MountEnds

THEOREM JarInvariant == Spec => [](JInv /\ LaunchFindsJar)
  <1> QED
    BY InitJar, NextJar, NextFindsJar, DirTypeCorrect, PTL DEF Spec

\* Downloads that do not overlap never leave a jar that is not whole where the
\* JVM may load it, and one of paper.jar and its predecessor always exists,
\* whatever fails or dies in Download and handleUpdateApply; only a restore
\* that fills the file or was cut there is excepted, and what a release without
\* a sum brings is taken as it comes.
THEOREM JarsStayWhole == Spec => []JarSurvives
  <1>1. JInv => JarSurvives
    BY DEF JInv, FilesSound, Sound, JarSurvives
  <1> QED
    BY <1>1, JarInvariant, PTL

\* paper.jar is missing only between the two renames of handleUpdateApply, or
\* after an update was cut there.
THEOREM JarIsThereOrCut == Spec => []LaunchFindsJar
  BY JarInvariant, PTL
=============================================================================
