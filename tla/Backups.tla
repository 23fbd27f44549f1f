------------------------------ MODULE Backups ------------------------------
(***************************************************************************)
(* The backups of one server: Store.Create with its SaveController, which  *)
(* is the slot's RCON client (RconSaveControl), Store.Delete, and whoever  *)
(* else uses that client.  Two archives that get the same id, because they *)
(* are labelled alike in the same second, share their three files.         *)
(***************************************************************************)
EXTENDS Rcon, FiniteSets

CONSTANTS Jobs,   \* the calls of Create
          Calls,  \* the other RCON commands, each with a deadline
          Ids,    \* backup ids
          IdOf    \* the id buildID gives each job

ASSUME BackupsAssumption ==
    /\ IsFiniteSet(Jobs)
    /\ IdOf \in [Jobs -> Ids]
    /\ Jobs \cap Calls = {}
    /\ None \notin Jobs \cup Calls \cup Ids

ASSUME NoneIsNoRequest == None \notin RequestsOf(Jobs \cup Calls)

VARIABLES
    pc,         \* per job: the command it issues, or the step it is at
    called,     \* the other commands that have returned
    paused,     \* the jobs that have to Resume
    overlapped, \* the jobs during which another job was under way
    part,       \* per id: the jobs that write to <id>.zip.part
    zip,        \* per id: the jobs that write, or wrote, to <id>.zip
    meta,       \* per id: the job that <id>.json describes, or None
    deleting,   \* the id a Delete is between its two os.Remove of, or None
    leftover    \* the ids of which an os.Remove has failed

jobVars == <<pc, paused, overlapped>>
fileVars == <<part, zip, meta, leftover>>
vars == <<rconVars, jobVars, called, fileVars, deleting>>

\* What Pause and Resume send.
VerbAt == [saveOff |-> "save-off", flush |-> "flush", resume |-> "save-on"]

TypeOK ==
    /\ RconTypeOK(Jobs \cup Calls)
    /\ pc \in [Jobs -> DOMAIN VerbAt \cup
                 {"new", "open", "copy", "rename", "meta", "pauseFailed", "unresumed", "done"}]
    /\ \A b \in Jobs : InFlight(b) => pc[b] \in DOMAIN VerbAt
    /\ called \subseteq Calls
    /\ paused \subseteq Jobs
    /\ overlapped \subseteq Jobs
    /\ part \in [Ids -> SUBSET Jobs]
    /\ zip \in [Ids -> SUBSET Jobs]
    /\ meta \in [Ids -> Jobs \cup {None}]
    /\ deleting \in Ids \cup {None}
    /\ leftover \subseteq Ids

Init ==
    /\ RconInit
    /\ pc = [b \in Jobs |-> "new"]
    /\ called = {}
    /\ paused = {}
    /\ overlapped = {}
    /\ part = [i \in Ids |-> {}]
    /\ zip = [i \in Ids |-> {}]
    /\ meta = [i \in Ids |-> None]
    /\ deleting = None
    /\ leftover = {}

-----------------------------------------------------------------------------
Under(b) == pc[b] \notin {"new", "pauseFailed", "unresumed", "done"}
GoTo(b, p) == pc' = [pc EXCEPT ![b] = p]

\* The return of Create, through the deferred Resume.
Unwind(b) == GoTo(b, IF b \in paused THEN "resume" ELSE "done")

\* Create is called with a SaveController, or offline or without one.
Begin(b) ==
    /\ pc[b] = "new"
    /\ \/ conn = "open" /\ GoTo(b, "saveOff")
       \/ GoTo(b, "open")
    /\ overlapped' = LET others == {c \in Jobs : Under(c)}
                     IN  overlapped \cup IF others = {} THEN {} ELSE {b} \cup others
    /\ UNCHANGED <<rconVars, called, paused, fileVars, deleting>>

Issue(b) ==
    /\ pc[b] \in DOMAIN VerbAt
    /\ Send(b, VerbAt[pc[b]])
    /\ UNCHANGED <<jobVars, called, fileVars, deleting>>

CmdOk(b) ==
    /\ Answered(b)
    /\ GoTo(b, CASE pc[b] = "saveOff" -> "flush"
                 [] pc[b] = "flush"   -> "open"
                 [] pc[b] = "resume"  -> "done")
    /\ paused' = IF pc[b] = "flush" THEN paused \cup {b} ELSE paused
    /\ UNCHANGED <<overlapped, called, fileVars, deleting>>

\* Cmd's error: someone else's reply, a closed connection, or a deadline,
\* which only Resume sets (Create passes Pause the context of the request).
CmdError(b) ==
    /\ pc[b] \in DOMAIN VerbAt
    /\ \/ Mismatched(b)
       \/ GiveUp(b) /\ (conn # "open" \/ pc[b] = "resume")
       \/ pc[b] = "resume" /\ WriteFails
       \/ conn # "open" /\ ~InFlight(b) /\ UNCHANGED rconVars

CmdFails_PauseIgnored(b) ==
    /\ CmdError(b)
    /\ GoTo(b, IF pc[b] = "resume" THEN "done" ELSE "open")
    /\ paused' = paused \cup {b}
    /\ UNCHANGED <<overlapped, called, fileVars, deleting>>

\* Pause's error returns from Create before Resume is deferred; Resume's is
\* ignored, whether the server will execute its save-on or never gets it.
CmdFails(b) ==
    /\ CmdError(b)
    /\ GoTo(b, IF pc[b] # "resume" THEN "pauseFailed"
               ELSE IF conn # "open" \/ InFlight(b) THEN "done" ELSE "unresumed")
    /\ UNCHANGED <<paused, overlapped, called, fileVars, deleting>>

-----------------------------------------------------------------------------
OpenPart_BeforeDefer(b) ==
    /\ pc[b] = "open"
    /\ \/ /\ part' = [part EXCEPT ![IdOf[b]] = @ \cup {b}]
          /\ GoTo(b, "copy")
       \/ part' = part /\ GoTo(b, "done")
    /\ UNCHANGED <<rconVars, paused, overlapped, called, zip, meta, leftover, deleting>>

\* os.Create empties the file another job may still be writing to.
OpenPart(b) ==
    /\ pc[b] = "open"
    /\ \/ /\ part' = [part EXCEPT ![IdOf[b]] = @ \cup {b}]
          /\ GoTo(b, "copy")
       \/ part' = part /\ Unwind(b)
    /\ UNCHANGED <<rconVars, paused, overlapped, called, zip, meta, leftover, deleting>>

CopyEnds(b) ==
    /\ pc[b] = "copy"
    /\ GoTo(b, "rename")
    /\ UNCHANGED <<rconVars, paused, overlapped, called, fileVars, deleting>>

CopyFails_NoResume(b) ==
    /\ pc[b] = "copy"
    /\ part' = [part EXCEPT ![IdOf[b]] = {}]
    /\ GoTo(b, "done")
    /\ UNCHANGED <<rconVars, paused, overlapped, called, zip, meta, leftover, deleting>>

\* The walk fails: a file of the live world may vanish under it.
CopyFails(b) ==
    /\ pc[b] = "copy"
    /\ part' = [part EXCEPT ![IdOf[b]] = {}]
    /\ Unwind(b)
    /\ UNCHANGED <<rconVars, paused, overlapped, called, zip, meta, leftover, deleting>>

Rename(b) ==
    /\ pc[b] = "rename"
    /\ part[IdOf[b]] # {}
    /\ zip' = [zip EXCEPT ![IdOf[b]] = part[IdOf[b]]]
    /\ part' = [part EXCEPT ![IdOf[b]] = {}]
    /\ GoTo(b, "meta")
    /\ UNCHANGED <<rconVars, paused, overlapped, called, meta, leftover, deleting>>

RenameFails_Ignored(b) ==
    /\ pc[b] = "rename"
    /\ part' = [part EXCEPT ![IdOf[b]] = {}]
    /\ GoTo(b, "meta")
    /\ UNCHANGED <<rconVars, paused, overlapped, called, zip, meta, leftover, deleting>>

RenameFails(b) ==
    /\ pc[b] = "rename"
    /\ part' = [part EXCEPT ![IdOf[b]] = {}]
    /\ Unwind(b)
    /\ UNCHANGED <<rconVars, paused, overlapped, called, zip, meta, leftover, deleting>>

WriteMeta(b) ==
    /\ pc[b] = "meta"
    /\ meta' = [meta EXCEPT ![IdOf[b]] = b]
    /\ Unwind(b)
    /\ UNCHANGED <<rconVars, paused, overlapped, called, part, zip, leftover, deleting>>

\* os.Remove takes the archive of id i away, or fails.
Removes(i) ==
    \/ zip' = [zip EXCEPT ![i] = {}] /\ leftover' = leftover \ {i}
    \/ zip[i] # {} /\ zip' = zip /\ leftover' = leftover \cup {i}

MetaFails(b) ==
    /\ pc[b] = "meta"
    /\ Removes(IdOf[b])
    /\ Unwind(b)
    /\ UNCHANGED <<rconVars, paused, overlapped, called, part, meta, deleting>>

-----------------------------------------------------------------------------
\* Delete, of an id that List returned or that an earlier Delete failed for:
\* the archive, then, whether that worked or not, its metadata.
DeleteZip(i) ==
    /\ deleting = None
    /\ meta[i] # None \/ i \in leftover
    /\ Removes(i)
    /\ deleting' = i
    /\ UNCHANGED <<rconVars, jobVars, called, part, meta>>

DeleteMeta(i) ==
    /\ deleting = i
    /\ \/ meta' = [meta EXCEPT ![i] = None] /\ leftover' = leftover
       \/ meta[i] # None /\ meta' = meta /\ leftover' = leftover \cup {i}
    /\ deleting' = None
    /\ UNCHANGED <<rconVars, jobVars, called, part, zip>>

\* The commands of the console, the player handlers and Stop.
CallSends(k) ==
    /\ k \notin called
    /\ Send(k, "other")
    /\ UNCHANGED <<jobVars, called, fileVars, deleting>>

CallReturns(k) ==
    /\ Answered(k) \/ Mismatched(k) \/ GiveUp(k)
    /\ called' = called \cup {k}
    /\ UNCHANGED <<jobVars, fileVars, deleting>>

\* One whose deadline passes while it waits for c.mu.
CallUnsent(k) ==
    /\ k \notin called
    /\ WriteFails
    /\ called' = called \cup {k}
    /\ UNCHANGED <<jobVars, fileVars, deleting>>

ServerExecutes == Execute /\ UNCHANGED <<jobVars, called, fileVars, deleting>>
JvmExits == JvmGone /\ UNCHANGED <<jobVars, called, fileVars, deleting>>

\* The requests die with mcsm, wherever they are.
McsmDies ==
    /\ conn # "mcsmGone"
    /\ McsmGone
    /\ pc' = [b \in Jobs |-> IF Under(b) THEN "done" ELSE pc[b]]
    /\ deleting' = None
    /\ UNCHANGED <<called, paused, overlapped, fileVars>>

-----------------------------------------------------------------------------
JobStep(b) ==
    \/ Issue(b) \/ CmdOk(b) \/ CmdFails(b)
    \/ OpenPart(b) \/ CopyEnds(b) \/ CopyFails(b)
    \/ Rename(b) \/ RenameFails(b) \/ WriteMeta(b) \/ MetaFails(b)

Next ==
    \/ \E b \in Jobs : Begin(b) \/ JobStep(b)
    \/ \E i \in Ids : DeleteZip(i) \/ DeleteMeta(i)
    \/ \E k \in Calls : CallSends(k) \/ CallReturns(k) \/ CallUnsent(k)
    \/ ServerExecutes \/ JvmExits \/ McsmDies

Spec == Init /\ [][Next]_vars

\* A JVM that is up executes what it is sent, Create goes on, a command ends.
\* Commands are finitely many here, so c.mu cannot be kept from a job for ever.
Fairness ==
    /\ WF_vars(ServerExecutes)
    /\ \A b \in Jobs : WF_vars(JobStep(b))
    /\ \A k \in Calls : WF_vars(CallReturns(k))

FairSpec == Spec /\ Fairness

-----------------------------------------------------------------------------
(***************************************************************************)
(* Properties.                                                             *)
(***************************************************************************)
\* The requests whose replies nobody has read, oldest first.
Unread == outbox \o inbox

\* The oldest of them was given its id less than a whole round of ids ago.
IdsSuffice ==
    conn = "open" /\ Unread # <<>> => given - Head(Unread).nth < MaxId

\* A command that succeeds returns the reply to that very command, whatever
\* replies earlier callers left unread and however the ids wrap around, as long
\* as they have not wrapped around past something unread.
AnswerIsOwn ==
    [][\A p \in Jobs \cup Calls :
           Answered(p) /\ IdsSuffice => Head(outbox) = current]_vars

\* While an online backup with save control copies the world, autosave is
\* off, unless backups overlapped (Create takes no lock) or the server went.
CopyIsQuiesced ==
    \A b \in paused \ overlapped :
        pc[b] = "copy" /\ conn = "open" => ~saving

OneJobHas(i) == Cardinality({b \in Jobs : IdOf[b] = i}) = 1

\* What List returns can be restored, since its archive is there, complete and
\* its own; and no archive is left behind that List does not know ("orphaned
\* archives that can't be listed", Create).  Unless ids were given twice, a
\* Delete is half done, an os.Remove of Create or Delete failed and was not
\* made up for, or mcsm died half way.
ListMatchesArchives ==
    \A i \in Ids \ leftover :
        OneJobHas(i) /\ conn # "mcsmGone" =>
            /\ meta[i] # None => zip[i] = {meta[i]} \/ deleting = i
            /\ zip[i] # {} => \/ meta[i] # None
                              \/ \E b \in Jobs : IdOf[b] = i /\ pc[b] = "meta"

\* Once the server has executed what it was sent, autosave is off.
OffIsDue ==
    \/ ~saving /\ \A i \in DOMAIN inbox : inbox[i].verb # "save-on"
    \/ \E i \in DOMAIN inbox :
          /\ inbox[i].verb = "save-off"
          /\ \A j \in DOMAIN inbox : j > i => inbox[j].verb # "save-on"

\* The job has turned autosave off and has still to send its save-on.
OwesResume(b) ==
    \/ pc[b] = "saveOff" /\ InFlight(b)
    \/ pc[b] = "flush"
    \/ b \in paused /\ Under(b) /\ ~(pc[b] = "resume" /\ InFlight(b))

\* While autosave is off, or about to be, some backup still has to turn it on,
\* whichever commands overtook each other or were given up; unless one failed
\* in its Pause, or waited for c.mu in its Resume until that had no time left
\* and never sent the save-on: nobody makes up for either.
AutosaveIsOwed ==
    conn = "open" /\ OffIsDue =>
        \E b \in Jobs : OwesResume(b) \/ pc[b] \in {"pauseFailed", "unresumed"}

\* Autosave comes back after every backup that got past its Pause, however it
\* ends and whatever its commands return, with the same two exceptions.
AutosaveReturns ==
    ~saving ~> \/ saving \/ conn # "open"
               \/ \E b \in Jobs : pc[b] \in {"pauseFailed", "unresumed"}

=============================================================================
