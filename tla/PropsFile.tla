------------------------------ MODULE PropsFile ------------------------------
(***************************************************************************)
(* server.properties and PatchProperties (internal/serverid), which reads  *)
(* the file, edits the lines of the patch and renames a new file over it,  *)
(* under no lock.  A key's value is named after the writer that set it.    *)
(***************************************************************************)
EXTENDS Naturals, FiniteSets

CONSTANTS Keys,     \* the keys of the file
          Writers,  \* the calls of PatchProperties that may ever be made
          Origin,   \* the writer of the values at the start and in the backup
          None      \* no snapshot

ASSUME PropsAssumption ==
    /\ Origin \notin Writers
    /\ None \notin Writers \cup {Origin} \cup [Keys -> Writers \cup {Origin}]

VARIABLES
    props,     \* the value of each key on file
    snap,      \* per writer: the file as it read it, while it is at work
    lastPut,   \* the value last given to each key by a finished writer
    overlapped \* were two writers ever at work at once?

propsVars == <<props, snap, lastPut, overlapped>>

Files == [Keys -> Writers \cup {Origin}]
AtWork == {w \in Writers : snap[w] # None}

PropsTypeOK ==
    /\ props \in Files
    /\ snap \in [Writers -> Files \cup {None}]
    /\ lastPut \in Files
    /\ overlapped \in BOOLEAN

PropsInit ==
    /\ props = [k \in Keys |-> Origin]
    /\ snap = [w \in Writers |-> None]
    /\ lastPut = props
    /\ overlapped = FALSE

-----------------------------------------------------------------------------
\* The scan of the file.
ReadFile(w) ==
    /\ snap' = [snap EXCEPT ![w] = props]
    /\ overlapped' = (overlapped \/ AtWork # {})
    /\ UNCHANGED <<props, lastPut>>

Edited_PatchOnly(old, w, patch) == [k \in Keys |-> IF k \in patch THEN w ELSE Origin]

\* The lines of the new file: other writers' keys are kept as they were read.
Edited(old, w, patch) == [k \in Keys |-> IF k \in patch THEN w ELSE old[k]]

\* The temporary file is renamed over server.properties.
RenameFile(w, patch) ==
    /\ props' = Edited(snap[w], w, patch)
    /\ lastPut' = [k \in Keys |-> IF k \in patch THEN w ELSE lastPut[k]]
    /\ snap' = [snap EXCEPT ![w] = None]
    /\ UNCHANGED overlapped

\* An error at any point: the temporary file is removed.
Abandon(w) ==
    /\ snap' = [snap EXCEPT ![w] = None]
    /\ UNCHANGED <<props, lastPut, overlapped>>

\* Restore extracts the backup's file over it.
ExtractProps ==
    /\ props' = [k \in Keys |-> Origin]
    /\ lastPut' = props'
    /\ overlapped' = (overlapped \/ AtWork # {})
    /\ UNCHANGED snap
=============================================================================
