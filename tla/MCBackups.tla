----------------------------- MODULE MCBackups -----------------------------
(***************************************************************************)
(* Backups for TLC: a job with an id of its own, two that may share one.   *)
(* Deletes and failing calls of os.Remove touch no command, and commands   *)
(* no file, so they do not come in one behaviour.                          *)
(***************************************************************************)
EXTENDS Backups

CONSTANTS b1, b2, b3, i1, i2, k1

MCIdOf == [b \in Jobs |-> IF b = b1 THEN i1 ELSE i2]

\* The two that share an id are interchangeable.
InOrder == pc[b2] = "new" => pc[b3] = "new"

\* Jobs that send commands, at most two of them under way at once.
Commands == deleting = None /\ leftover = {} /\ (pc[b3] # "new" => ~Under(b1))

\* Jobs of a server that does not run: nobody has given a command an id.
Files == given = 1 /\ current = None /\ \A b \in Jobs : pc[b] \notin DOMAIN VerbAt

CommandsOrFiles == Commands \/ Files
=============================================================================
