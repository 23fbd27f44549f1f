------------------------------- MODULE Update -------------------------------
(***************************************************************************)
(* The jar files of one server: update.Download, which fills a staging     *)
(* file through a .part file, and handleUpdateApply, which swaps it in.    *)
(* All updates use the same paths, so files are modelled as paths that     *)
(* name inodes; an inode is named after the writer that created it and     *)
(* holds the bytes of a set of writers.                                    *)
(***************************************************************************)
EXTENDS Naturals

CONSTANTS Updates,  \* the update requests that may ever be made
          OldJar,   \* the jar at the start
          Archive,  \* the jar in the backup that a restore extracts
          NoFile    \* a path that does not exist

Sources == Updates \cup {OldJar, Archive}
Paths == Sources \cup {NoFile}

ASSUME UpdateAssumption ==
    NoFile \notin Sources /\ OldJar \notin Updates /\ Archive \notin Updates

VARIABLES
    upc,     \* per update: where handleUpdateApply is
    fd,      \* per update: the inode its Download writes to
    bytes,   \* per inode: the writers whose bytes it holds
    good,    \* the sources whose bytes are complete and as published
    unsummed,\* the updates whose release came without a SHA-256 sum
    part,    \* .mcsm/paper-staging.jar.part
    staging, \* .mcsm/paper-staging.jar
    jar,     \* paper.jar
    prev,    \* paper.jar.previous
    mixed    \* were two downloads ever at work at once?

files == <<part, staging, jar, prev>>
updateVars == <<upc, fd, bytes, good, unsummed, files, mixed>>

Downloading == {"copy", "verify", "clean", "cleanFailed"}

UpdateTypeOK ==
    /\ upc \in [Updates -> {"new", "admitted", "staged", "swapped", "done",
                            "failed", "cut"} \cup Downloading]
    /\ fd \in [Updates -> Paths]
    /\ \A u \in Updates : upc[u] \in {"copy", "verify"} => fd[u] # NoFile
    /\ bytes \in [Sources -> SUBSET Sources]
    /\ good \subseteq Sources /\ unsummed \subseteq Updates
    /\ part \in Paths /\ staging \in Paths /\ jar \in Paths /\ prev \in Paths
    /\ mixed \in BOOLEAN

UpdateInit ==
    /\ upc = [u \in Updates |-> "new"]
    /\ fd = [u \in Updates |-> NoFile]
    /\ bytes = [i \in Sources |-> IF i = OldJar THEN {OldJar} ELSE {}]
    /\ good = {OldJar} /\ unsummed = {}
    /\ part = NoFile /\ staging = NoFile /\ jar = OldJar /\ prev = NoFile
    /\ mixed = FALSE

\* A whole file: the complete bytes of one source, or what one download brought
\* that had no sum to be judged by.
Whole(i) == \E w \in good \cup unsummed : bytes[i] = {w}

-----------------------------------------------------------------------------
UpdateAt(u, p) == upc' = [upc EXCEPT ![u] = p]

Admit(u) ==
    /\ upc[u] = "new"
    /\ UpdateAt(u, "admitted")
    /\ UNCHANGED <<fd, bytes, good, unsummed, files, mixed>>

\* A wrong flavor, or PaperMC does not tell the latest build.
UpdateFails(u) ==
    /\ upc[u] = "admitted"
    /\ UpdateAt(u, "failed")
    /\ UNCHANGED <<fd, bytes, good, unsummed, files, mixed>>

(***************************************************************************)
(* Download.                                                               *)
(***************************************************************************)
\* Latest has told the release, with its sum or with an empty one.  os.Create
\* truncates a .part file that is there, whoever writes to it.
CreatePart(u) ==
    /\ upc[u] = "admitted"
    /\ \/ unsummed' = unsummed \cup {u}
       \/ UNCHANGED unsummed
    /\ LET i == IF part = NoFile THEN u ELSE part
       IN  /\ part' = i
           /\ fd' = [fd EXCEPT ![u] = i]
           /\ bytes' = [bytes EXCEPT ![i] = {}]
    /\ mixed' = (mixed \/ \E v \in Updates : upc[v] \in Downloading)
    /\ UpdateAt(u, "copy")
    /\ UNCHANGED <<good, staging, jar, prev>>

\* io.Copy comes to its end, the bytes being those that were published or not.
Copied(u) ==
    /\ upc[u] = "copy"
    /\ bytes' = [bytes EXCEPT ![fd[u]] = @ \cup {u}]
    /\ \/ good' = good \cup {u}
       \/ UNCHANGED good
    /\ UpdateAt(u, "verify")
    /\ UNCHANGED <<fd, unsummed, files, mixed>>

\* The request, its copying or the server at the other end fails.
CopyFails(u) ==
    /\ upc[u] = "copy"
    /\ bytes' = [bytes EXCEPT ![fd[u]] = @ \cup {u}]
    /\ UpdateAt(u, "cleanFailed")
    /\ UNCHANGED <<fd, good, unsummed, files, mixed>>

Stage_Unverified(u) ==
    /\ upc[u] = "verify"
    /\ part # NoFile
    /\ staging' = part /\ part' = NoFile
    /\ UpdateAt(u, "clean")
    /\ UNCHANGED <<fd, bytes, good, unsummed, jar, prev, mixed>>

\* The sum of the bytes received is right, or the release has none to compare it
\* with, and whatever is at .part is renamed.
Stage(u) ==
    /\ upc[u] = "verify"
    /\ u \in good \cup unsummed
    /\ part # NoFile
    /\ staging' = part /\ part' = NoFile
    /\ UpdateAt(u, "clean")
    /\ UNCHANGED <<fd, bytes, good, unsummed, jar, prev, mixed>>

\* A wrong sum, or the .part file is gone.
StageFails(u) ==
    /\ upc[u] = "verify"
    /\ u \notin good \cup unsummed \/ part = NoFile
    /\ UpdateAt(u, "cleanFailed")
    /\ UNCHANGED <<fd, bytes, good, unsummed, files, mixed>>

\* The deferred Close and Remove of .part, on success too.
Clean(u) ==
    /\ upc[u] \in {"clean", "cleanFailed"}
    /\ part' = NoFile
    /\ fd' = [fd EXCEPT ![u] = NoFile]
    /\ UpdateAt(u, IF upc[u] = "clean" THEN "staged" ELSE "failed")
    /\ UNCHANGED <<bytes, good, unsummed, staging, jar, prev, mixed>>

(***************************************************************************)
(* The two renames of handleUpdateApply.                                   *)
(***************************************************************************)
\* paper.jar becomes paper.jar.previous, best effort.
SwapOut(u) ==
    /\ upc[u] = "staged"
    /\ \/ jar # NoFile /\ prev' = jar /\ jar' = NoFile
       \/ UNCHANGED <<jar, prev>>
    /\ UpdateAt(u, "swapped")
    /\ UNCHANGED <<fd, bytes, good, unsummed, part, staging, mixed>>

SwapIn(u) ==
    /\ upc[u] = "swapped"
    /\ staging # NoFile
    /\ jar' = staging /\ staging' = NoFile
    /\ UpdateAt(u, "done")
    /\ UNCHANGED <<fd, bytes, good, unsummed, part, prev, mixed>>

SwapInFails_Quietly(u) ==
    /\ upc[u] = "swapped"
    /\ UpdateAt(u, "done")
    /\ UNCHANGED <<fd, bytes, good, unsummed, files, mixed>>

\* The rename fails, be it because another update took the staging file; the
\* first rename is not undone.
SwapInFails(u) ==
    /\ upc[u] = "swapped"
    /\ UpdateAt(u, "cut")
    /\ UNCHANGED <<fd, bytes, good, unsummed, files, mixed>>

UpdateStep(u) ==
    \/ UpdateFails(u) \/ CreatePart(u) \/ Copied(u) \/ CopyFails(u)
    \/ Stage(u) \/ StageFails(u) \/ Clean(u)
    \/ SwapOut(u) \/ SwapIn(u) \/ SwapInFails(u)

-----------------------------------------------------------------------------
\* mcsm dies: an update is cut between its renames or has just failed.
UpdatesDie ==
    /\ upc' = [u \in Updates |->
                 CASE upc[u] \in {"new", "done", "cut"} -> upc[u]
                   [] upc[u] = "swapped" -> "cut"
                   [] OTHER -> "failed"]
    /\ fd' = [u \in Updates |-> NoFile]
    /\ UNCHANGED <<bytes, good, unsummed, files, mixed>>

\* Restore opens paper.jar, truncating or creating it, and then fills it.
OpenJar ==
    /\ jar' = IF jar = NoFile THEN Archive ELSE jar
    /\ bytes' = [bytes EXCEPT ![jar'] = {Archive}]
    /\ UNCHANGED <<upc, fd, good, unsummed, part, staging, prev, mixed>>

FillJar ==
    /\ good' = good \cup {Archive}
    /\ UNCHANGED <<upc, fd, bytes, unsummed, files, mixed>>
=============================================================================
