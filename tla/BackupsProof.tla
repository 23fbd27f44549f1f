---------------------------- MODULE BackupsProof ----------------------------
(***************************************************************************)
(* Proofs about module Backups, for any jobs, commands and backup ids:     *)
(* types, that List agrees with the archives, that replies are those of    *)
(* their commands, and who turns autosave back on.                         *)
(***************************************************************************)
EXTENDS Backups, FiniteSetTheorems, SequenceTheorems, TLAPS

USE RconAssumption, BackupsAssumption

Callers == Jobs \cup Calls

-----------------------------------------------------------------------------
(***************************************************************************)
(* Types.  A job that holds the RCON mutex is at a command.                *)
(***************************************************************************)
JobPcs ==
    DOMAIN VerbAt \cup {"new", "open", "copy", "rename", "meta", "pauseFailed", "unresumed", "done"}

LEMMA Pcs == DOMAIN VerbAt = {"saveOff", "flush", "resume"}
             /\ \A p \in DOMAIN VerbAt : VerbAt[p] \in Verbs
  BY DEF VerbAt, Verbs

FilesTyped ==
    /\ part \in [Ids -> SUBSET Jobs] /\ zip \in [Ids -> SUBSET Jobs]
    /\ meta \in [Ids -> Jobs \cup {None}] /\ deleting \in Ids \cup {None}
    /\ leftover \subseteq Ids

JobsTyped ==
    /\ pc \in [Jobs -> JobPcs]
    /\ called \subseteq Calls /\ paused \subseteq Jobs /\ overlapped \subseteq Jobs

IssuersWait == \A b \in Jobs : InFlight(b) => pc[b] \in DOMAIN VerbAt

LEMMA TypeParts ==
    TypeOK <=> RconTypeOK(Callers) /\ JobsTyped /\ IssuersWait /\ FilesTyped
  BY DEF TypeOK, Callers, JobsTyped, IssuersWait, FilesTyped, JobPcs

LEMMA SendTyped ==
    ASSUME RconTypeOK(Callers), NEW p \in Callers, NEW v \in Verbs, Send(p, v)
    PROVE  RconTypeOK(Callers)' /\ current'.from = p
  <1>1. NextId \in 1 .. MaxId /\ given + 1 \in Nat \ {0}
    BY DEF NextId, RconTypeOK
  <1>2. current' \in RequestsOf(Callers) /\ current'.from = p
    BY <1>1 DEF Send, RequestsOf
  <1>3. inbox' \in Seq(RequestsOf(Callers))
    BY <1>2, AppendProperties DEF Send, RconTypeOK
  <1> QED
    BY <1>1, <1>2, <1>3 DEF Send, TakesId, RconTypeOK

LEMMA WriteFailsTyped ==
    ASSUME RconTypeOK(Callers), WriteFails
    PROVE  RconTypeOK(Callers)' /\ current' = None /\ current = None
  <1>1. NextId \in 1 .. MaxId /\ given + 1 \in Nat
    BY DEF NextId, RconTypeOK
  <1> QED
    BY <1>1 DEF WriteFails, TakesId, RconTypeOK

LEMMA ReturnTyped ==
    ASSUME RconTypeOK(Callers), NEW p, ReadReply(p) \/ GiveUp(p)
    PROVE  RconTypeOK(Callers)' /\ current' = None /\ conn' = conn
  <1>1. outbox' \in Seq(RequestsOf(Callers))
    <2>1. outbox \in Seq(RequestsOf(Callers)) /\ outbox # <<>> =>
            Tail(outbox) \in Seq(RequestsOf(Callers))
      BY HeadTailProperties
    <2> QED
      BY <2>1 DEF ReadReply, GiveUp, RconTypeOK
  <1> QED
    BY <1>1 DEF ReadReply, GiveUp, RconTypeOK

LEMMA ServerTyped ==
    ASSUME RconTypeOK(Callers), Execute \/ JvmGone
    PROVE  RconTypeOK(Callers)' /\ current' = current
  <1>0. <<>> \in Seq(RequestsOf(Callers))
    BY EmptySeq
  <1>1. CASE Execute
    <2>1. Head(inbox) \in RequestsOf(Callers) /\ inbox' \in Seq(RequestsOf(Callers))
      BY <1>1, HeadTailProperties DEF Execute, RconTypeOK
    <2>2. outbox' \in Seq(RequestsOf(Callers))
      BY <1>1, <2>1, AppendProperties DEF Execute, RconTypeOK
    <2> QED
      BY <1>1, <2>1, <2>2 DEF Execute, RconTypeOK
  <1>2. CASE JvmGone
    BY <1>0, <1>2 DEF JvmGone, RconTypeOK
  <1> QED
    BY <1>1, <1>2

\* The RCON side of each step of a job, and what it does to the mutex.
LEMMA JobRconTyped ==
    ASSUME TypeOK, NEW b \in Jobs, Begin(b) \/ JobStep(b)
    PROVE  /\ RconTypeOK(Callers)'
           /\ conn' = conn
           /\ \/ current' = current /\ ~InFlight(b)
              \/ current' = None
              \/ pc' = pc /\ current'.from = b /\ pc[b] \in DOMAIN VerbAt
  <1> USE TypeParts
  <1>1. CASE Issue(b)
    <2>1. VerbAt[pc[b]] \in Verbs /\ Send(b, VerbAt[pc[b]]) /\ b \in Callers
      BY <1>1, Pcs DEF Issue, Callers
    <2> QED
      BY <1>1, <2>1, SendTyped DEF Issue, Send, jobVars
  <1>2. CASE CmdOk(b)
    BY <1>2, ReturnTyped DEF CmdOk, Answered
  <1>3. CASE CmdFails(b)
    <2>1. CASE (pc[b] = "resume" /\ WriteFails) \/ UNCHANGED rconVars
      BY <1>3, <2>1, WriteFailsTyped DEF CmdFails, CmdError, WriteFails, rconVars, RconTypeOK,
                                        InFlight, Mismatched, GiveUp, ReadReply
    <2>2. CASE ReadReply(b) \/ GiveUp(b)
      BY <2>2, ReturnTyped
    <2> QED
      BY <1>3, <2>1, <2>2 DEF CmdFails, CmdError, Mismatched
  <1>4. CASE \/ Begin(b) \/ OpenPart(b) \/ CopyEnds(b) \/ CopyFails(b)
             \/ Rename(b) \/ RenameFails(b) \/ WriteMeta(b) \/ MetaFails(b)
    <2>1. UNCHANGED rconVars /\ pc[b] \in {"new", "open", "copy", "rename", "meta"}
      BY <1>4 DEF Begin, OpenPart, CopyEnds, CopyFails, Rename, RenameFails, WriteMeta, MetaFails
    <2>2. ~InFlight(b)
      BY <2>1, Pcs DEF IssuersWait
    <2> QED
      BY <2>1, <2>2 DEF rconVars, RconTypeOK
  <1> QED
    BY <1>1, <1>2, <1>3, <1>4 DEF JobStep

\* Where a job's steps take it.
LEMMA JobPcTyped ==
    ASSUME TypeOK, NEW b \in Jobs, Begin(b) \/ JobStep(b)
    PROVE  /\ JobsTyped'
           /\ \A c \in Jobs \ {b} : pc'[c] = pc[c]
  <1> USE TypeParts, Pcs DEF JobsTyped, JobPcs, GoTo, Unwind, jobVars
  <1>1. CASE Begin(b)
    <2>1. overlapped' \subseteq Jobs
      BY <1>1 DEF Begin
    <2> QED
      BY <1>1, <2>1 DEF Begin
  <1>2. CASE Issue(b)
    BY <1>2 DEF Issue
  <1>3. CASE CmdOk(b)
    <2>1. pc[b] \in DOMAIN VerbAt
      BY <1>3 DEF CmdOk, Answered, ReadReply, IssuersWait
    <2>2. paused' \subseteq Jobs /\ UNCHANGED <<overlapped, called>>
      BY <1>3 DEF CmdOk
    <2>3. \E p \in JobPcs : pc' = [pc EXCEPT ![b] = p]
      BY <1>3, <2>1 DEF CmdOk
    <2> QED
      BY <2>2, <2>3
  <1>4. CASE CmdFails(b)
    BY <1>4 DEF CmdFails
  <1>5. CASE OpenPart(b) \/ CopyEnds(b) \/ CopyFails(b)
    BY <1>5 DEF OpenPart, CopyEnds, CopyFails
  <1>6. CASE Rename(b) \/ RenameFails(b) \/ WriteMeta(b) \/ MetaFails(b)
    BY <1>6 DEF Rename, RenameFails, WriteMeta, MetaFails
  <1> QED
    BY <1>1, <1>2, <1>3, <1>4, <1>5, <1>6 DEF JobStep

LEMMA JobFilesTyped ==
    ASSUME TypeOK, NEW b \in Jobs, Begin(b) \/ JobStep(b)
    PROVE  FilesTyped'
  <1> USE TypeParts DEF FilesTyped, fileVars
  <1>1. IdOf[b] \in Ids
    OBVIOUS
  <1>2. CASE OpenPart(b) \/ CopyFails(b) \/ Rename(b) \/ RenameFails(b)
    BY <1>1, <1>2 DEF OpenPart, CopyFails, Rename, RenameFails
  <1>3. CASE WriteMeta(b) \/ MetaFails(b)
    BY <1>1, <1>3 DEF WriteMeta, MetaFails, Removes
  <1>4. CASE Begin(b) \/ Issue(b) \/ CmdOk(b) \/ CmdFails(b) \/ CopyEnds(b)
    BY <1>4 DEF Begin, Issue, CmdOk, CmdFails, CopyEnds
  <1> QED
    BY <1>2, <1>3, <1>4 DEF JobStep

LEMMA InitTyped == Init => TypeOK
  <1> SUFFICES ASSUME Init PROVE TypeOK
    OBVIOUS
  <1>1. <<>> \in Seq(RequestsOf(Callers))
    BY EmptySeq
  <1>2. RconTypeOK(Callers) /\ current = None
    BY <1>1 DEF Init, RconInit, RconTypeOK
  <1>3. JobsTyped /\ IssuersWait /\ FilesTyped
    BY <1>2 DEF Init, JobsTyped, JobPcs, IssuersWait, InFlight, FilesTyped
  <1> QED
    BY <1>2, <1>3, TypeParts

LEMMA NextTyped ==
    ASSUME TypeOK, [Next]_vars
    PROVE  TypeOK'
  <1> USE TypeParts
  <1> SUFFICES RconTypeOK(Callers)' /\ JobsTyped' /\ IssuersWait' /\ FilesTyped'
    BY DEF TypeOK, Callers, JobsTyped, IssuersWait, FilesTyped, JobPcs
  <1>1. ASSUME NEW b \in Jobs, Begin(b) \/ JobStep(b)
        PROVE  RconTypeOK(Callers)' /\ JobsTyped' /\ IssuersWait' /\ FilesTyped'
    <2>1. IssuersWait'
      BY <1>1, JobRconTyped, JobPcTyped DEF IssuersWait, InFlight
    <2> QED
      BY <1>1, <2>1, JobRconTyped, JobPcTyped, JobFilesTyped
  <1>2. ASSUME NEW i \in Ids, DeleteZip(i) \/ DeleteMeta(i)
        PROVE  RconTypeOK(Callers)' /\ JobsTyped' /\ IssuersWait' /\ FilesTyped'
    <2>1. UNCHANGED <<rconVars, jobVars, called>> /\ FilesTyped'
      BY <1>2 DEF DeleteZip, DeleteMeta, Removes, FilesTyped
    <2> QED
      BY <2>1 DEF rconVars, RconTypeOK, jobVars, JobsTyped, IssuersWait, InFlight
  <1>3. ASSUME NEW k \in Calls, CallSends(k) \/ CallReturns(k) \/ CallUnsent(k)
        PROVE  RconTypeOK(Callers)' /\ JobsTyped' /\ IssuersWait' /\ FilesTyped'
    <2>1. RconTypeOK(Callers)' /\ (current' = None \/ current'.from = k)
      <3>1. CASE CallSends(k)
        BY <3>1, SendTyped DEF CallSends, Callers, Verbs
      <3>2. CASE CallReturns(k)
        BY <3>2, ReturnTyped DEF CallReturns, Answered, Mismatched
      <3>3. CASE CallUnsent(k)
        BY <3>3, WriteFailsTyped DEF CallUnsent
      <3> QED
        BY <1>3, <3>1, <3>2, <3>3
    <2>2. UNCHANGED jobVars /\ called' \subseteq Calls /\ UNCHANGED <<fileVars, deleting>>
      BY <1>3 DEF CallSends, CallReturns, CallUnsent, JobsTyped
    <2>3. k \notin Jobs
      OBVIOUS
    <2> QED
      BY <2>1, <2>2, <2>3 DEF jobVars, fileVars, JobsTyped, FilesTyped, IssuersWait, InFlight
  <1>4. CASE ServerExecutes \/ JvmExits
    <2>1. RconTypeOK(Callers)' /\ current' = current
      BY <1>4, ServerTyped DEF ServerExecutes, JvmExits
    <2> QED
      BY <1>4, <2>1 DEF ServerExecutes, JvmExits, jobVars, fileVars, JobsTyped, FilesTyped,
                        IssuersWait, InFlight
  <1>5. CASE McsmDies
    <2>1. <<>> \in Seq(RequestsOf(Callers))
      BY EmptySeq
    <2>2. RconTypeOK(Callers)' /\ current' = None
      BY <1>5, <2>1 DEF McsmDies, McsmGone, RconTypeOK
    <2>3. JobsTyped' /\ FilesTyped'
      BY <1>5 DEF McsmDies, JobsTyped, JobPcs, FilesTyped, fileVars
    <2> QED
      BY <2>2, <2>3 DEF IssuersWait, InFlight
  <1>6. CASE UNCHANGED vars
    BY <1>6 DEF vars, rconVars, RconTypeOK, jobVars, fileVars, JobsTyped, FilesTyped,
                IssuersWait, InFlight
  <1> QED
    BY <1>1, <1>2, <1>3, <1>4, <1>5, <1>6 DEF Next

\* The jobs, the RCON client and the three files of each id keep their types.
THEOREM BackupsTypeCorrect == Spec => []TypeOK
  BY InitTyped, NextTyped, PTL DEF Spec

-----------------------------------------------------------------------------
(***************************************************************************)
(* An id that one job alone has.  Its files follow that job's steps: the   *)
(* archive is complete when its metadata is being written, and metadata    *)
(* comes once, after which only Delete touches either.                     *)
(***************************************************************************)
Sole(b) == \A c \in Jobs : IdOf[c] = IdOf[b] => c = b

Past(b) == pc[b] \in {"resume", "done", "unresumed"}

\* What the files of b's id may be while mcsm lives.
Follows(b) ==
    LET i == IdOf[b]
    IN  /\ part[i] \subseteq {b} /\ zip[i] \subseteq {b} /\ meta[i] \in {None, b}
        /\ meta[i] # None \/ deleting = i \/ i \in leftover => Past(b)
        /\ pc[b] = "meta" => zip[i] = {b}
        /\ i \notin leftover =>
             /\ meta[i] # None => zip[i] = {b} \/ deleting = i
             /\ zip[i] # {} => meta[i] # None \/ pc[b] = "meta"
             /\ deleting = i => zip[i] = {}

FInv == conn # "mcsmGone" => \A b \in Jobs : Sole(b) => Follows(b)

\* A step of a job alone with its id.
LEMMA OwnStepFollows ==
    ASSUME TypeOK, NEW b \in Jobs, Sole(b), Follows(b), Begin(b) \/ JobStep(b)
    PROVE  Follows(b)'
  <1> USE TypeParts, Pcs DEF Follows, Past, JobsTyped, JobPcs, FilesTyped, GoTo, Unwind
  <1>0. IdOf[b] \in Ids /\ None \notin Jobs
    OBVIOUS
  <1>1. CASE Begin(b) \/ Issue(b)
    BY <1>1 DEF Begin, Issue, jobVars, fileVars
  <1>2. CASE CmdOk(b)
    <2>1. pc[b] \in DOMAIN VerbAt
      BY <1>2 DEF CmdOk, Answered, ReadReply, IssuersWait
    <2>2. /\ pc[b] = "saveOff" => pc'[b] = "flush"
          /\ pc[b] = "flush" => pc'[b] = "open"
          /\ pc[b] = "resume" => pc'[b] = "done"
      BY <1>2, <2>1 DEF CmdOk
    <2>3. UNCHANGED <<fileVars, deleting>>
      BY <1>2 DEF CmdOk
    <2> QED
      BY <2>1, <2>2, <2>3 DEF fileVars
  <1>3. CASE CmdFails(b)
    <2>1. /\ pc[b] \in DOMAIN VerbAt /\ UNCHANGED <<fileVars, deleting>>
          /\ pc[b] # "resume" => pc'[b] = "pauseFailed"
          /\ pc[b] = "resume" => pc'[b] \in {"done", "unresumed"}
      BY <1>3 DEF CmdFails, CmdError
    <2> QED
      BY <2>1 DEF fileVars
  <1>4. CASE OpenPart(b) \/ CopyEnds(b) \/ CopyFails(b) \/ RenameFails(b)
    <2>1. /\ pc[b] \in {"open", "copy", "rename"} /\ UNCHANGED <<zip, meta, leftover, deleting>>
          /\ pc'[b] \in {"copy", "rename", "resume", "done"}
          /\ part'[IdOf[b]] \subseteq part[IdOf[b]] \cup {b}
      BY <1>0, <1>4 DEF OpenPart, CopyEnds, CopyFails, RenameFails, fileVars
    <2> QED
      BY <2>1
  <1>5. CASE Rename(b)
    BY <1>0, <1>5 DEF Rename
  <1>6. CASE WriteMeta(b)
    BY <1>0, <1>6 DEF WriteMeta
  <1>7. CASE MetaFails(b)
    BY <1>0, <1>7 DEF MetaFails, Removes
  <1> QED
    BY <1>1, <1>2, <1>3, <1>4, <1>5, <1>6, <1>7 DEF JobStep

\* A step of another job leaves them alone.
LEMMA OtherStepFollows ==
    ASSUME TypeOK, NEW b \in Jobs, Sole(b), Follows(b),
           NEW c \in Jobs \ {b}, Begin(c) \/ JobStep(c)
    PROVE  Follows(b)'
  <1> USE TypeParts
  <1>1. IdOf[c] # IdOf[b] /\ IdOf[b] \in Ids /\ IdOf[c] \in Ids
    BY DEF Sole
  <1>2. pc'[b] = pc[b]
    BY JobPcTyped
  <1>3. /\ part'[IdOf[b]] = part[IdOf[b]] /\ zip'[IdOf[b]] = zip[IdOf[b]]
        /\ meta'[IdOf[b]] = meta[IdOf[b]] /\ deleting' = deleting
        /\ IdOf[b] \in leftover' <=> IdOf[b] \in leftover
    <2> USE <1>1 DEF FilesTyped, fileVars
    <2>1. CASE OpenPart(c) \/ CopyFails(c) \/ Rename(c) \/ RenameFails(c)
      BY <2>1 DEF OpenPart, CopyFails, Rename, RenameFails
    <2>2. CASE WriteMeta(c) \/ MetaFails(c)
      BY <2>2 DEF WriteMeta, MetaFails, Removes
    <2>3. CASE Begin(c) \/ Issue(c) \/ CmdOk(c) \/ CmdFails(c) \/ CopyEnds(c)
      BY <2>3 DEF Begin, Issue, CmdOk, CmdFails, CopyEnds
    <2> QED
      BY <2>1, <2>2, <2>3 DEF JobStep
  <1> QED
    BY <1>2, <1>3 DEF Follows, Past

LEMMA NextFollows ==
    ASSUME TypeOK, FInv, [Next]_vars
    PROVE  FInv'
  <1> SUFFICES ASSUME conn' # "mcsmGone", NEW b \in Jobs, Sole(b) PROVE Follows(b)'
    BY DEF FInv, Sole
  <1> USE DEF FInv
  <1>1. ASSUME NEW c \in Jobs, Begin(c) \/ JobStep(c) PROVE Follows(b)'
    <2>1. Follows(b)
      BY <1>1, JobRconTyped
    <2> QED
      BY <1>1, <2>1, OwnStepFollows, OtherStepFollows
  <1>2. ASSUME NEW i \in Ids, DeleteZip(i) \/ DeleteMeta(i) PROVE Follows(b)'
    <2>1. conn' = conn /\ pc' = pc /\ part' = part
      BY <1>2 DEF DeleteZip, DeleteMeta, rconVars, jobVars
    <2>2. Follows(b)
      BY <2>1
    <2>3. IdOf[b] \in Ids /\ None \notin Ids
      OBVIOUS
    <2>4. CASE DeleteZip(i)
      BY <2>1, <2>2, <2>3, <2>4, TypeParts DEF DeleteZip, Removes, Follows, Past, FilesTyped
    <2>5. CASE DeleteMeta(i)
      <3>1. /\ zip' = zip /\ deleting = i /\ deleting' = None
            /\ \/ meta' = [meta EXCEPT ![i] = None] /\ leftover' = leftover
               \/ meta' = meta /\ leftover' = leftover \cup {i}
        BY <2>5 DEF DeleteMeta
      <3>2. CASE i = IdOf[b]
        BY <2>1, <2>2, <2>3, <3>1, <3>2, TypeParts DEF Follows, Past, FilesTyped
      <3>3. CASE i # IdOf[b]
        BY <2>1, <2>2, <2>3, <3>1, <3>3, TypeParts DEF Follows, Past, FilesTyped
      <3> QED
        BY <3>2, <3>3
    <2> QED
      BY <1>2, <2>4, <2>5
  <1>3. CASE /\ UNCHANGED <<jobVars, fileVars, deleting>>
             /\ conn' = conn \/ conn = "open"
    BY <1>3 DEF Follows, Past, jobVars, fileVars
  <1>4. ASSUME NEW k \in Calls, CallSends(k) \/ CallReturns(k) \/ CallUnsent(k)
        PROVE  Follows(b)'
    BY <1>3, <1>4 DEF CallSends, CallReturns, CallUnsent, Send, WriteFails, Answered, Mismatched,
                      ReadReply, GiveUp
  <1>5. CASE ServerExecutes \/ JvmExits
    BY <1>3, <1>5 DEF ServerExecutes, JvmExits, Execute, JvmGone
  <1>6. CASE McsmDies
    BY <1>6 DEF McsmDies, McsmGone
  <1>7. CASE UNCHANGED vars
    BY <1>3, <1>7 DEF vars, rconVars
  <1> QED
    BY <1>1, <1>2, <1>4, <1>5, <1>6, <1>7 DEF Next

\* While mcsm lives, an id that was given once is listed exactly if its archive
\* is there and complete, except half way through WriteMeta and Delete, or when
\* an os.Remove failed for it and was not made up for (Store.Create, Delete,
\* List).
THEOREM ListIsTrue == Spec => []ListMatchesArchives
  <1>1. Init => FInv
    BY DEF Init, FInv, Follows, Past
  <1>2. TypeOK /\ FInv => ListMatchesArchives
    <2> SUFFICES ASSUME TypeOK, FInv, NEW i \in Ids \ leftover, OneJobHas(i), conn # "mcsmGone"
                 PROVE  /\ meta[i] # None => zip[i] = {meta[i]} \/ deleting = i
                        /\ zip[i] # {} => \/ meta[i] # None
                                          \/ \E b \in Jobs : IdOf[b] = i /\ pc[b] = "meta"
      BY DEF ListMatchesArchives
    <2>1. \E b : {c \in Jobs : IdOf[c] = i} = {b}
      BY FS_Subset, FS_Singleton DEF OneJobHas
    <2>2. PICK b \in Jobs : IdOf[b] = i /\ Sole(b)
      BY <2>1 DEF Sole
    <2>3. Follows(b)
      BY <2>2 DEF FInv
    <2> QED
      BY <2>2, <2>3 DEF Follows
  <1> QED
    BY <1>1, <1>2, BackupsTypeCorrect, NextFollows, PTL DEF Spec

-----------------------------------------------------------------------------
(***************************************************************************)
(* The connection.  What is unread is a queue: requests enter it at the    *)
(* end, the server moves the border between inbox and outbox, and replies  *)
(* leave it at the front.                                                  *)
(***************************************************************************)
UnreadTyped ==
    /\ Len(inbox) \in Nat /\ Len(outbox) \in Nat /\ Len(Unread) = Len(outbox) + Len(inbox)
    /\ \A i \in 1 .. Len(Unread) :
         Unread[i] = IF i <= Len(outbox) THEN outbox[i] ELSE inbox[i - Len(outbox)]

LEMMA UnreadIsQueue ==
    ASSUME RconTypeOK(Callers)
    PROVE  UnreadTyped
  BY ConcatProperties, LenProperties DEF RconTypeOK, Unread, UnreadTyped

LEMMA SendUnread ==
    ASSUME RconTypeOK(Callers), NEW p \in Callers, NEW v \in Verbs, Send(p, v)
    PROVE  /\ Len(Unread') = Len(Unread) + 1
           /\ \A i \in 1 .. Len(Unread) : Unread'[i] = Unread[i]
           /\ Unread'[Len(Unread')] = current'
           /\ inbox' # <<>>
  <1>1. UnreadTyped /\ UnreadTyped'
    <2>1. RconTypeOK(Callers)'
      BY SendTyped
    <2>2. UnreadTyped'
      BY <2>1, ConcatProperties, LenProperties DEF RconTypeOK, Unread, UnreadTyped
    <2> QED
      BY <2>2, UnreadIsQueue
  <1>2. current' \in RequestsOf(Callers)
    BY SendTyped DEF Send, RconTypeOK, RequestsOf, NextId
  <1>3. /\ Len(inbox') = Len(inbox) + 1 /\ inbox'[Len(inbox) + 1] = current'
        /\ \A i \in 1 .. Len(inbox) : inbox'[i] = inbox[i]
        /\ inbox' # <<>>
    BY <1>2, AppendProperties DEF Send, RconTypeOK
  <1>4. outbox' = outbox
    BY DEF Send
  <1>5. Len(Unread') = Len(Unread) + 1
    BY <1>1, <1>3, <1>4 DEF UnreadTyped
  <1>6. ASSUME NEW i \in 1 .. Len(Unread) PROVE Unread'[i] = Unread[i]
    <2>1. Len(outbox) \in Nat /\ i \in Int /\ i \in 1 .. Len(Unread')
      BY <1>1, <1>5 DEF UnreadTyped
    <2>2. CASE i <= Len(outbox)
      BY <1>1, <1>4, <2>1, <2>2 DEF UnreadTyped
    <2>3. CASE ~(i <= Len(outbox))
      <3>1. i - Len(outbox) \in 1 .. Len(inbox)
        BY <1>1, <2>3 DEF UnreadTyped
      <3>2. Unread'[i] = inbox'[i - Len(outbox)] /\ Unread[i] = inbox[i - Len(outbox)]
        BY <1>1, <1>4, <2>1, <2>3 DEF UnreadTyped
      <3> QED
        BY <1>3, <3>1, <3>2
    <2> QED
      BY <2>1, <2>2, <2>3
  <1>7. Unread'[Len(Unread')] = current'
    <2> DEFINE n == Len(Unread')
    <2>1. n \in 1 .. n /\ n = Len(outbox') + Len(inbox) + 1 /\ {n, Len(outbox'), Len(inbox)} \subseteq Nat
      BY <1>1, <1>3, <1>4, <1>5 DEF UnreadTyped
    <2>2. Unread'[n] = IF n <= Len(outbox') THEN outbox'[n] ELSE inbox'[n - Len(outbox')]
      BY <1>1, <2>1 DEF UnreadTyped
    <2> HIDE DEF n
    <2>3. ~(n <= Len(outbox')) /\ n - Len(outbox') = Len(inbox) + 1
      BY <2>1
    <2>4. Unread'[n] = inbox'[Len(inbox) + 1]
      BY <2>2, <2>3, Zenon
    <2> QED
      BY <1>3, <2>4, Zenon DEF n
  <1> QED
    BY <1>3, <1>5, <1>6, <1>7

LEMMA ReadUnread ==
    ASSUME RconTypeOK(Callers), NEW p, ReadReply(p)
    PROVE  /\ Len(Unread) = Len(Unread') + 1 /\ Len(Unread') \in Nat
           /\ \A i \in 1 .. Len(Unread') : Unread'[i] = Unread[i + 1]
           /\ Unread[1] = Head(outbox)
  <1>1. UnreadTyped /\ UnreadTyped'
    <2>1. RconTypeOK(Callers)'
      BY ReturnTyped
    <2>2. UnreadTyped'
      BY <2>1, ConcatProperties, LenProperties DEF RconTypeOK, Unread, UnreadTyped
    <2> QED
      BY <2>2, UnreadIsQueue
  <1>2. /\ Len(outbox') = Len(outbox) - 1
        /\ \A i \in 1 .. Len(outbox') : outbox'[i] = outbox[i + 1]
        /\ Head(outbox) = outbox[1]
    BY HeadTailProperties DEF ReadReply, RconTypeOK
  <1>3. inbox' = inbox /\ Len(outbox) >= 1
    BY <1>1, <1>2 DEF ReadReply, UnreadTyped
  <1>4. Len(Unread) = Len(Unread') + 1 /\ Len(Unread') \in Nat
    BY <1>1, <1>2, <1>3 DEF UnreadTyped
  <1>5. ASSUME NEW i \in 1 .. Len(Unread') PROVE Unread'[i] = Unread[i + 1]
    <2>1. i + 1 \in 1 .. Len(Unread)
      BY <1>4
    <2>2. CASE i <= Len(outbox')
      BY <1>1, <1>2, <2>1, <2>2 DEF UnreadTyped
    <2>3. CASE i > Len(outbox')
      <3>1. i + 1 - Len(outbox) = i - Len(outbox')
        BY <1>1, <1>2, <2>3 DEF UnreadTyped
      <3> QED
        BY <1>1, <1>2, <1>3, <2>1, <2>3, <3>1 DEF UnreadTyped
    <2> QED
      BY <1>1, <2>2, <2>3 DEF UnreadTyped
  <1> QED
    BY <1>1, <1>2, <1>3, <1>4, <1>5 DEF UnreadTyped

LEMMA ExecuteUnread ==
    ASSUME RconTypeOK(Callers), conn = "open", Execute
    PROVE  /\ Len(Unread') = Len(Unread)
           /\ \A i \in 1 .. Len(Unread) : Unread'[i] = Unread[i]
           /\ Len(inbox) = Len(inbox') + 1 /\ Len(inbox') \in Nat
           /\ \A i \in 1 .. Len(inbox') : inbox'[i] = inbox[i + 1]
           /\ Head(inbox) = inbox[1]
  <1>1. UnreadTyped /\ UnreadTyped'
    <2>1. RconTypeOK(Callers)'
      BY ServerTyped
    <2>2. UnreadTyped'
      BY <2>1, ConcatProperties, LenProperties DEF RconTypeOK, Unread, UnreadTyped
    <2> QED
      BY <2>2, UnreadIsQueue
  <1>2. /\ Len(inbox') = Len(inbox) - 1 /\ Head(inbox) \in RequestsOf(Callers)
        /\ \A i \in 1 .. Len(inbox') : inbox'[i] = inbox[i + 1]
        /\ Head(inbox) = inbox[1]
    BY HeadTailProperties DEF Execute, RconTypeOK
  <1>3. /\ Len(outbox') = Len(outbox) + 1 /\ outbox'[Len(outbox) + 1] = inbox[1]
        /\ \A i \in 1 .. Len(outbox) : outbox'[i] = outbox[i]
    BY <1>2, AppendProperties DEF Execute, RconTypeOK
  <1>4. Len(inbox) >= 1 /\ Len(Unread') = Len(Unread)
    BY <1>1, <1>2, <1>3 DEF UnreadTyped
  <1>5. ASSUME NEW i \in 1 .. Len(Unread) PROVE Unread'[i] = Unread[i]
    <2>1. CASE i <= Len(outbox)
      BY <1>1, <1>3, <1>4, <2>1 DEF UnreadTyped
    <2>2. CASE i = Len(outbox) + 1
      BY <1>1, <1>3, <1>4, <2>2 DEF UnreadTyped
    <2>3. CASE i > Len(outbox) + 1
      <3>1. i - Len(outbox') \in 1 .. Len(inbox') /\ i - Len(outbox') + 1 = i - Len(outbox)
        BY <1>1, <1>2, <1>3, <2>3 DEF UnreadTyped
      <3>2. Unread'[i] = inbox'[i - Len(outbox')] /\ Unread[i] = inbox[i - Len(outbox)]
        BY <1>1, <1>3, <1>4, <2>3 DEF UnreadTyped
      <3> QED
        BY <1>2, <3>1, <3>2
    <2>4. Len(outbox) \in Nat /\ i \in Int
      BY <1>1 DEF UnreadTyped
    <2> QED
      BY <2>1, <2>2, <2>3, <2>4
  <1>6. Len(inbox') + 1 = Len(inbox) /\ Len(inbox') \in Nat
    BY <1>1, <1>2 DEF UnreadTyped
  <1> QED
    BY <1>2, <1>4, <1>5, <1>6

-----------------------------------------------------------------------------
(***************************************************************************)
(* Of the unread requests those whose id was among the last MaxId that     *)
(* were given have the ids that were given then, so no two of them share   *)
(* one; the one that is waited for is the last.                            *)
(***************************************************************************)
Age(i) == given - Unread[i].nth
GivenId(age) == IF age < lastId THEN lastId - age ELSE lastId - age + MaxId

\* In the order in which their ids were given.
Rising ==
    /\ \A i \in 1 .. Len(Unread) : Unread[i].nth \in 1 .. given
    /\ \A i, j \in 1 .. Len(Unread) : i < j => Unread[i].nth < Unread[j].nth

InTurn == \A i \in 1 .. Len(Unread) : Age(i) < MaxId => Unread[i].id = GivenId(Age(i))

LastIsCurrent ==
    current # None => /\ Len(Unread) >= 1 /\ Unread[Len(Unread)] = current
                      /\ current.nth = given

\* A save-off that the server has executed and its caller waits for has worked.
SaveIsOff == current # None /\ current.verb = "save-off" /\ inbox = <<>> => ~saving

RInv ==
    conn = "open" =>
        /\ lastId \in 1 .. MaxId /\ given \in Nat
        /\ Rising /\ InTurn /\ LastIsCurrent /\ SaveIsOff

\* What the steps of Backups do to the client.
RconStep ==
    \/ \E p \in Callers : (\E v \in Verbs : Send(p, v)) \/ ReadReply(p) \/ GiveUp(p)
    \/ WriteFails \/ Execute \/ JvmGone \/ McsmGone
    \/ UNCHANGED rconVars

LEMMA NextIsRconStep ==
    ASSUME TypeOK, [Next]_vars
    PROVE  RconStep
  <1> USE DEF Callers
  <1>1. ASSUME NEW b \in Jobs, Begin(b) \/ JobStep(b) PROVE RconStep
    <2>1. CASE Issue(b)
      BY <2>1, Pcs DEF Issue, RconStep
    <2>2. CASE CmdOk(b) \/ CmdFails(b)
      BY <2>2 DEF CmdOk, CmdFails, CmdError, Answered, Mismatched, RconStep
    <2>3. CASE \/ Begin(b) \/ OpenPart(b) \/ CopyEnds(b) \/ CopyFails(b)
               \/ Rename(b) \/ RenameFails(b) \/ WriteMeta(b) \/ MetaFails(b)
      BY <2>3 DEF Begin, OpenPart, CopyEnds, CopyFails, Rename, RenameFails, WriteMeta,
                  MetaFails, RconStep
    <2> QED
      BY <1>1, <2>1, <2>2, <2>3 DEF JobStep
  <1>2. ASSUME NEW i \in Ids, DeleteZip(i) \/ DeleteMeta(i) PROVE RconStep
    BY <1>2 DEF DeleteZip, DeleteMeta, RconStep
  <1>3. ASSUME NEW k \in Calls, CallSends(k) \/ CallReturns(k) \/ CallUnsent(k) PROVE RconStep
    BY <1>3 DEF CallSends, CallReturns, CallUnsent, Answered, Mismatched, Verbs, RconStep
  <1>4. CASE ServerExecutes \/ JvmExits \/ McsmDies \/ UNCHANGED vars
    BY <1>4 DEF ServerExecutes, JvmExits, McsmDies, vars, RconStep
  <1> QED
    BY <1>1, <1>2, <1>3, <1>4 DEF Next

\* A request has the same id after another one was given, as long as there are
\* ids for both.
LEMMA OneOlder ==
    ASSUME RconTypeOK(Callers), RInv, conn = "open", TakesId,
           NEW i \in 1 .. Len(Unread), given' - Unread[i].nth < MaxId
    PROVE  Unread[i].id = IF given' - Unread[i].nth < lastId'
                          THEN lastId' - (given' - Unread[i].nth)
                          ELSE lastId' - (given' - Unread[i].nth) + MaxId
  <1> DEFINE a == given - Unread[i].nth
  <1>1. given \in Nat /\ Unread[i].nth \in 1 .. given /\ lastId \in 1 .. MaxId
    BY DEF RInv, Rising
  <1>2. given' = given + 1 /\ lastId' = IF lastId = MaxId THEN 1 ELSE lastId + 1
    BY DEF TakesId, NextId
  <1>3. a \in Nat /\ given' - Unread[i].nth = a + 1
    BY <1>1, <1>2
  <1>4. a + 1 < MaxId /\ a < MaxId
    BY <1>3
  <1>5. Unread[i].id = IF a < lastId THEN lastId - a ELSE lastId - a + MaxId
    BY <1>4 DEF RInv, InTurn, Age, GivenId
  <1> HIDE DEF a
  <1>6. Unread[i].id = IF a + 1 < lastId' THEN lastId' - (a + 1) ELSE lastId' - (a + 1) + MaxId
    <2>1. CASE lastId = MaxId
      BY <1>1, <1>2, <1>3, <1>4, <1>5, <2>1
    <2>2. CASE lastId # MaxId
      BY <1>1, <1>2, <1>3, <1>4, <1>5, <2>2
    <2> QED
      BY <2>1, <2>2
  <1> QED
    BY <1>3, <1>6

LEMMA TakenId ==
    ASSUME RInv, conn = "open", TakesId
    PROVE  /\ lastId' \in 1 .. MaxId /\ lastId' = NextId
           /\ given' \in Nat /\ given' = given + 1 /\ given \in Nat
  BY DEF RInv, TakesId, NextId

LEMMA NextInTurn ==
    ASSUME TypeOK, RInv, [Next]_vars
    PROVE  RInv'
  <1> SUFFICES ASSUME conn' = "open" PROVE RInv'
    BY DEF RInv
  <1>0. RconTypeOK(Callers) /\ RconStep
    BY TypeParts, NextIsRconStep
  <1>1. ASSUME NEW p \in Callers, NEW v \in Verbs, Send(p, v) PROVE RInv'
    <2>1. /\ Len(Unread') = Len(Unread) + 1
          /\ \A i \in 1 .. Len(Unread) : Unread'[i] = Unread[i]
          /\ Unread'[Len(Unread')] = current'
          /\ inbox' # <<>>
      BY <1>0, <1>1, SendUnread
    <2>2. Len(Unread) \in Nat /\ Rising /\ conn = "open" /\ TakesId
      BY <1>0, <1>1, UnreadIsQueue DEF UnreadTyped, RInv, Send
    <2>3. /\ lastId' \in 1 .. MaxId /\ lastId' = NextId
          /\ given' \in Nat /\ given' = given + 1 /\ given \in Nat
      BY <2>2, TakenId
    <2>4. current'.id = lastId' /\ current'.nth = given'
      BY <1>1, <2>3 DEF Send
    <2>5. \A i \in 1 .. Len(Unread') : i # Len(Unread') => i \in 1 .. Len(Unread)
      BY <2>1, <2>2
    <2>6. Rising'
      <3>1. ASSUME NEW i \in 1 .. Len(Unread') PROVE Unread'[i].nth \in 1 .. given'
        <4>1. CASE i = Len(Unread')
          BY <2>1, <2>3, <2>4, <4>1
        <4>2. CASE i # Len(Unread')
          <5>1. Unread'[i] = Unread[i] /\ Unread[i].nth \in 1 .. given
            BY <2>1, <2>2, <2>5, <3>1, <4>2, Zenon DEF Rising
          <5> QED
            BY <2>3, <5>1
        <4> QED
          BY <4>1, <4>2
      <3>2. ASSUME NEW i \in 1 .. Len(Unread'), NEW j \in 1 .. Len(Unread'), i < j
            PROVE  Unread'[i].nth < Unread'[j].nth
        <4>1. i \in 1 .. Len(Unread) /\ Unread'[i] = Unread[i]
          BY <2>1, <2>2, <3>2
        <4>2. CASE j = Len(Unread')
          <5>1. Unread'[j].nth = given + 1 /\ Unread[i].nth \in 1 .. given
            BY <2>1, <2>2, <2>3, <2>4, <4>1, <4>2 DEF Rising
          <5> QED
            BY <2>3, <4>1, <5>1
        <4>3. CASE j # Len(Unread')
          <5>1. j \in 1 .. Len(Unread) /\ Unread'[j] = Unread[j]
            BY <2>1, <2>5, <4>3
          <5> QED
            BY <2>2, <3>2, <4>1, <5>1 DEF Rising
        <4> QED
          BY <4>2, <4>3
      <3> QED
        BY <3>1, <3>2 DEF Rising
    <2>7. InTurn'
      <3> SUFFICES ASSUME NEW i \in 1 .. Len(Unread'), given' - Unread'[i].nth < MaxId
                   PROVE  Unread'[i].id = IF given' - Unread'[i].nth < lastId'
                                          THEN lastId' - (given' - Unread'[i].nth)
                                          ELSE lastId' - (given' - Unread'[i].nth) + MaxId
        BY DEF InTurn, Age, GivenId
      <3>1. CASE i = Len(Unread')
        <4>1. given' - Unread'[i].nth = 0 /\ Unread'[i].id = lastId'
          BY <2>1, <2>3, <2>4, <3>1
        <4> QED
          BY <2>3, <4>1
      <3>2. CASE i # Len(Unread')
        <4>1. i \in 1 .. Len(Unread) /\ Unread'[i] = Unread[i]
          BY <2>1, <2>5, <3>2
        <4> QED
          BY <1>0, <2>2, <4>1, OneOlder
      <3> QED
        BY <3>1, <3>2
    <2> QED
      BY <2>1, <2>2, <2>3, <2>4, <2>6, <2>7 DEF RInv, LastIsCurrent, SaveIsOff
  <1>2. ASSUME NEW p \in Callers, ReadReply(p) PROVE RInv'
    <2>1. /\ Len(Unread) = Len(Unread') + 1 /\ Len(Unread') \in Nat
          /\ \A i \in 1 .. Len(Unread') : Unread'[i] = Unread[i + 1]
      BY <1>0, <1>2, ReadUnread
    <2>2. /\ lastId' = lastId /\ given' = given /\ current' = None
          /\ lastId \in 1 .. MaxId /\ given \in Nat /\ Rising /\ InTurn
      BY <1>2 DEF ReadReply, RInv
    <2>3. \A i \in 1 .. Len(Unread') : i + 1 \in 1 .. Len(Unread)
      BY <2>1
    <2>4. Rising'
      <3>1. \A i \in 1 .. Len(Unread') : Unread'[i].nth \in 1 .. given'
        BY <2>1, <2>2, <2>3 DEF Rising
      <3>2. ASSUME NEW i \in 1 .. Len(Unread'), NEW j \in 1 .. Len(Unread'), i < j
            PROVE  Unread'[i].nth < Unread'[j].nth
        <4>1. i + 1 < j + 1
          BY <3>2
        <4> QED
          BY <2>1, <2>2, <2>3, <4>1 DEF Rising
      <3> QED
        BY <3>1, <3>2 DEF Rising
    <2>5. InTurn'
      BY <2>1, <2>2, <2>3 DEF InTurn, Age, GivenId
    <2> QED
      BY <2>2, <2>4, <2>5 DEF RInv, LastIsCurrent, SaveIsOff
  <1>3. CASE Execute
    <2>1. /\ conn = "open" /\ lastId' = lastId /\ given' = given /\ current' = current
          /\ inbox # <<>> /\ lastId \in 1 .. MaxId /\ given \in Nat
          /\ Rising /\ InTurn /\ LastIsCurrent /\ SaveIsOff
      BY <1>3 DEF Execute, RInv
    <2>2. /\ Len(Unread') = Len(Unread)
          /\ \A i \in 1 .. Len(Unread) : Unread'[i] = Unread[i]
          /\ Len(inbox) = Len(inbox') + 1 /\ Len(inbox') \in Nat
          /\ Head(inbox) = inbox[1]
      BY <1>0, <1>3, <2>1, ExecuteUnread
    <2>3. Rising' /\ InTurn' /\ LastIsCurrent'
      <3>1. Len(Unread) \in Nat
        BY <1>0, UnreadIsQueue DEF UnreadTyped
      <3>2. Rising'
        BY <2>1, <2>2, <3>1 DEF Rising
      <3>3. InTurn'
        BY <2>1, <2>2, <3>1 DEF InTurn, Age, GivenId
      <3>4. LastIsCurrent'
        BY <2>1, <2>2, <3>1 DEF LastIsCurrent
      <3> QED
        BY <3>2, <3>3, <3>4
    <2>4. SaveIsOff'
      <3> SUFFICES ASSUME current # None, current.verb = "save-off", inbox' = <<>>
                   PROVE  ~saving'
        BY <2>1 DEF SaveIsOff
      <3>1. Len(inbox') = 0 /\ Len(inbox) = 1
        BY <2>2
      <3>2. Unread[Len(Unread)] = inbox[1]
        BY <1>0, <3>1, UnreadIsQueue DEF UnreadTyped
      <3>3. Head(inbox) = current
        BY <2>1, <2>2, <3>2 DEF LastIsCurrent
      <3> QED
        BY <1>3, <3>3 DEF Execute
    <2> QED
      BY <2>1, <2>3, <2>4 DEF RInv
  <1>4. ASSUME NEW p \in Callers, GiveUp(p) PROVE RInv'
    <2>1. /\ current' = None /\ UNCHANGED <<lastId, given, Unread>> /\ conn = "open"
      BY <1>4 DEF GiveUp, Unread
    <2>2. Rising' /\ InTurn'
      BY <2>1, Zenon DEF RInv, Rising, InTurn, Age, GivenId
    <2> QED
      BY <2>1, <2>2 DEF RInv, LastIsCurrent, SaveIsOff
  <1>5. CASE WriteFails
    <2>1. /\ current' = None /\ Unread' = Unread /\ conn = "open" /\ TakesId
      BY <1>5 DEF WriteFails, Unread
    <2>2. /\ lastId' \in 1 .. MaxId
          /\ given' \in Nat /\ given' = given + 1 /\ given \in Nat
      BY <2>1, TakenId
    <2>3. Rising
      BY <2>1 DEF RInv
    <2>4. Rising'
      <3>1. ASSUME NEW i \in 1 .. Len(Unread) PROVE Unread[i].nth \in 1 .. given'
        <4>1. Unread[i].nth \in 1 .. given
          BY <2>3 DEF Rising
        <4> QED
          BY <2>2, <4>1
      <3> QED
        BY <2>1, <2>3, <3>1 DEF Rising
    <2>5. InTurn'
      <3> SUFFICES ASSUME NEW i \in 1 .. Len(Unread), given' - Unread[i].nth < MaxId
                   PROVE  Unread[i].id = IF given' - Unread[i].nth < lastId'
                                         THEN lastId' - (given' - Unread[i].nth)
                                         ELSE lastId' - (given' - Unread[i].nth) + MaxId
        BY <2>1 DEF InTurn, Age, GivenId
      <3> QED
        BY <1>0, <2>1, OneOlder
    <2> QED
      BY <2>1, <2>2, <2>4, <2>5 DEF RInv, LastIsCurrent, SaveIsOff
  <1>6. CASE JvmGone \/ McsmGone
    BY <1>6 DEF JvmGone, McsmGone
  <1>7. CASE UNCHANGED rconVars
    <2>1. UNCHANGED <<conn, lastId, given, current, inbox, saving, Unread>>
      BY <1>7 DEF rconVars, Unread
    <2>2. Rising' /\ InTurn'
      BY <2>1, Zenon DEF RInv, Rising, InTurn, Age, GivenId
    <2> QED
      BY <2>1, <2>2 DEF RInv, LastIsCurrent, SaveIsOff
  <1> QED
    BY <1>0, <1>1, <1>2, <1>3, <1>4, <1>5, <1>6, <1>7 DEF RconStep

LEMMA InitInTurn == Init => RInv
  <1> SUFFICES ASSUME Init PROVE RInv
    OBVIOUS
  <1>1. Len(Unread) = 0
    <2>1. outbox = <<>> /\ inbox = <<>> /\ TypeOK
      BY InitTyped DEF Init, RconInit
    <2>2. UnreadTyped
      BY <2>1, TypeParts, UnreadIsQueue
    <2> QED
      BY <2>1, <2>2 DEF UnreadTyped
  <1> QED
    BY <1>1 DEF Init, RconInit, RInv, Rising, InTurn, LastIsCurrent, SaveIsOff

\* What the head of the unread is.
LEMMA UnreadHead ==
    ASSUME RconTypeOK(Callers)
    PROVE  /\ Unread \in Seq(RequestsOf(Callers))
           /\ Unread # <<>> <=> Len(Unread) >= 1
           /\ Unread # <<>> => Head(Unread) = Unread[1]
  <1>1. Unread \in Seq(RequestsOf(Callers))
    BY ConcatProperties DEF RconTypeOK, Unread
  <1> QED
    BY <1>1, EmptySeq, LenProperties, HeadTailProperties

\* While all that is unread has ids of its own, an answer whose id is right is
\* the answer, and nothing else is unread.
LEMMA AnswerIsLast ==
    ASSUME TypeOK, RInv, IdsSuffice, NEW p, Answered(p)
    PROVE  Head(outbox) = current /\ inbox = <<>>
  <1>1. UnreadTyped /\ conn = "open" /\ current # None /\ InTurn /\ Rising /\ LastIsCurrent
        /\ lastId \in 1 .. MaxId /\ given \in Nat
    BY TypeParts, UnreadIsQueue DEF Answered, ReadReply, InFlight, RInv
  <1>2. Unread[1] = Head(outbox) /\ Len(Unread) >= 1 /\ Len(Unread) \in Nat
    <2>1. Unread[1] = Head(outbox)
      BY TypeParts, ReadUnread DEF Answered
    <2> QED
      BY <1>1, <2>1 DEF LastIsCurrent, UnreadTyped
  <1> DEFINE a == given - Unread[1].nth
  <1>3. /\ Unread[Len(Unread)] = current /\ current.nth = given /\ current.id = lastId
    <2>1. Unread[Len(Unread)] = current /\ current.nth = given
      BY <1>1 DEF LastIsCurrent
    <2>2. Age(Len(Unread)) = 0
      BY <1>1, <2>1 DEF Age
    <2> QED
      BY <1>1, <1>2, <2>1, <2>2 DEF InTurn, GivenId
  <1>4. a \in Nat /\ a < MaxId
    <2>1. Head(Unread) = Unread[1] /\ Unread # <<>>
      BY <1>2, TypeParts, UnreadHead
    <2>2. Unread[1].nth \in 1 .. given
      BY <1>1, <1>2 DEF Rising
    <2> QED
      BY <1>1, <2>1, <2>2 DEF IdsSuffice
  <1>5. Head(outbox).id = GivenId(a)
    BY <1>1, <1>2, <1>4 DEF InTurn, Age
  <1>6. a = 0
    <2>1. GivenId(a) = lastId
      BY <1>3, <1>5 DEF Answered
    <2> HIDE DEF a
    <2> QED
      BY <1>1, <1>4, <2>1 DEF GivenId
  <1>7. Len(Unread) = 1
    <2>1. ASSUME 1 < Len(Unread) PROVE FALSE
      <3>1. Unread[1].nth < Unread[Len(Unread)].nth /\ Unread[1].nth \in 1 .. given
        BY <1>1, <1>2, <2>1 DEF Rising
      <3> QED
        BY <1>1, <1>3, <1>6, <3>1
    <2>2. ~(1 < Len(Unread))
      BY <2>1, Zenon
    <2>3. \A n \in Nat : n >= 1 /\ ~(1 < n) => n = 1
      OBVIOUS
    <2> QED
      BY <1>2, <2>2, <2>3
  <1>8. Len(inbox) = 0
    <2>1. Len(outbox) >= 1
      BY TypeParts, HeadTailProperties, LenProperties, EmptySeq DEF Answered, ReadReply, RconTypeOK
    <2>2. /\ Len(Unread) = Len(outbox) + Len(inbox)
          /\ Len(inbox) \in Nat /\ Len(outbox) \in Nat
      BY <1>1 DEF UnreadTyped
    <2> QED
      BY <1>7, <2>1, <2>2
  <1>9. inbox = <<>>
    BY <1>8, TypeParts, EmptySeq DEF RconTypeOK
  <1> QED
    BY <1>2, <1>3, <1>7, <1>9

\* However many replies were left behind and however often the ids wrapped,
\* rcon.Client.Cmd succeeds only with the reply to its own request.
THEOREM RepliesAreOwn == Spec => AnswerIsOwn
  <1>1. TypeOK /\ RInv /\ [Next]_vars =>
          [\A p \in Jobs \cup Calls : Answered(p) /\ IdsSuffice => Head(outbox) = current]_vars
    BY AnswerIsLast
  <1> QED
    BY <1>1, BackupsTypeCorrect, InitInTurn, NextInTurn, PTL DEF Spec, AnswerIsOwn

-----------------------------------------------------------------------------
(***************************************************************************)
(* Quiesced copies.  A job that overlapped no other has the world to       *)
(* itself: after its save-off was answered nobody sends a save-on until    *)
(* its own, and what was unread before it has been executed before it.     *)
(***************************************************************************)
Alone == \A b \in Jobs \ overlapped : Under(b) => \A c \in Jobs \ {b} : ~Under(c)

VerbsMatch == \A b \in Jobs : InFlight(b) => current.verb = VerbAt[pc[b]]

PausedLate == \A b \in paused : pc[b] \notin {"new", "saveOff", "flush"}

Quiet == ~saving /\ \A i \in 1 .. Len(inbox) : inbox[i].verb # "save-on"

Paused(b) == pc[b] = "flush" \/ (b \in paused /\ pc[b] \in {"open", "copy", "rename", "meta"})

QInv ==
    /\ Alone /\ PausedLate
    /\ conn = "open" => VerbsMatch /\ \A b \in Jobs \ overlapped : Paused(b) => Quiet

LEMMA NextAlone ==
    ASSUME TypeOK, Alone, PausedLate, [Next]_vars
    PROVE  Alone' /\ PausedLate'
  <1> USE TypeParts, Pcs DEF JobsTyped, JobPcs
  <1>1. ASSUME NEW b \in Jobs, Begin(b) PROVE Alone' /\ PausedLate'
    <2>1. /\ pc[b] = "new" /\ paused' = paused /\ overlapped \subseteq overlapped'
          /\ \A c \in Jobs \ {b} : pc'[c] = pc[c]
          /\ pc'[b] \in {"saveOff", "open"}
      BY <1>1 DEF Begin, GoTo
    <2>2. b \notin paused
      BY <2>1 DEF PausedLate
    <2>3. \A c \in Jobs \ {b} : Under(c) => b \in overlapped' /\ c \in overlapped'
      <3> SUFFICES ASSUME NEW c \in Jobs \ {b}, Under(c)
                   PROVE  b \in overlapped' /\ c \in overlapped'
        OBVIOUS
      <3>1. c \in {d \in Jobs : Under(d)} /\ {d \in Jobs : Under(d)} # {}
        OBVIOUS
      <3>2. overlapped' = overlapped \cup {b} \cup {d \in Jobs : Under(d)}
        BY <1>1, <3>1 DEF Begin
      <3> QED
        BY <3>1, <3>2
    <2>4. \A c \in Jobs \ {b} : Under(c)' <=> Under(c)
      BY <2>1 DEF Under
    <2> QED
      BY <2>1, <2>2, <2>3, <2>4 DEF Alone, PausedLate
  <1>2. ASSUME NEW b \in Jobs, JobStep(b) PROVE Alone' /\ PausedLate'
    <2>1. /\ \A c \in Jobs \ {b} : pc'[c] = pc[c]
          /\ overlapped' = overlapped
      BY <1>2, JobPcTyped DEF JobStep, Issue, CmdOk, CmdFails, OpenPart, CopyEnds, CopyFails,
            Rename, RenameFails, WriteMeta, MetaFails, jobVars
    <2>2. Under(b)
      BY <1>2 DEF JobStep, Issue, CmdOk, CmdFails, CmdError, OpenPart, CopyEnds, CopyFails,
            Rename, RenameFails, WriteMeta, MetaFails, Under, Answered, ReadReply, IssuersWait
    <2>3. Alone'
      BY <2>1, <2>2 DEF Alone, Under
    <2>4. \/ paused' = paused /\ (pc'[b] = pc[b] \/ pc'[b] \notin {"new", "saveOff", "flush"})
          \/ pc[b] = "saveOff" /\ paused' = paused
          \/ pc[b] = "flush" /\ paused' = paused \cup {b} /\ pc'[b] = "open"
      <3>1. CASE CmdOk(b)
        <4>1. pc[b] \in {"saveOff", "flush", "resume"}
          BY <3>1 DEF CmdOk, Answered, ReadReply, IssuersWait
        <4> QED
          BY <3>1, <4>1 DEF CmdOk, GoTo
      <3>2. CASE Issue(b) \/ CmdFails(b)
        BY <3>2 DEF Issue, CmdFails, CmdError, GoTo, jobVars
      <3>3. CASE OpenPart(b) \/ CopyEnds(b) \/ CopyFails(b)
        BY <3>3 DEF OpenPart, CopyEnds, CopyFails, GoTo, Unwind
      <3>4. CASE Rename(b) \/ RenameFails(b) \/ WriteMeta(b) \/ MetaFails(b)
        BY <3>4 DEF Rename, RenameFails, WriteMeta, MetaFails, GoTo, Unwind
      <3> QED
        BY <1>2, <3>1, <3>2, <3>3, <3>4 DEF JobStep
    <2>5. PausedLate'
      BY <2>1, <2>4 DEF PausedLate
    <2> QED
      BY <2>3, <2>5
  <1>3. CASE McsmDies
    BY <1>3 DEF McsmDies, Alone, PausedLate, Under
  <1>4. CASE UNCHANGED jobVars
    BY <1>4 DEF jobVars, Alone, PausedLate, Under
  <1> QED
    BY <1>1, <1>2, <1>3, <1>4 DEF Next, DeleteZip, DeleteMeta, CallSends, CallReturns,
       CallUnsent, ServerExecutes, JvmExits, vars

\* What a step does to a quiet connection, by what it does to the client.
LEMMA StaysQuiet ==
    ASSUME RconTypeOK(Callers), Quiet,
           \/ \E p \in Callers, v \in Verbs \ {"save-on"} : Send(p, v)
           \/ \E p \in Callers : ReadReply(p) \/ GiveUp(p)
           \/ Execute /\ conn = "open"
           \/ UNCHANGED <<inbox, saving>>
    PROVE  Quiet'
  <1>0. Len(inbox) \in Nat
    BY LenProperties DEF RconTypeOK
  <1>1. ASSUME NEW p \in Callers, NEW v \in Verbs \ {"save-on"}, Send(p, v) PROVE Quiet'
    <2>1. current' \in RequestsOf(Callers) /\ current'.verb = v
      BY <1>1 DEF Send, NextId, RconTypeOK, RequestsOf
    <2>2. /\ Len(inbox') = Len(inbox) + 1 /\ inbox'[Len(inbox) + 1] = current'
          /\ \A i \in 1 .. Len(inbox) : inbox'[i] = inbox[i]
      BY <1>1, <2>1, AppendProperties DEF Send, RconTypeOK
    <2>3. saving' = saving
      BY <1>1 DEF Send
    <2> QED
      BY <1>0, <2>1, <2>2, <2>3 DEF Quiet
  <1>2. CASE \E p \in Callers : ReadReply(p) \/ GiveUp(p)
    BY <1>2 DEF ReadReply, GiveUp, Quiet
  <1>3. CASE Execute /\ conn = "open"
    <2>1. /\ Len(inbox) = Len(inbox') + 1 /\ Len(inbox') \in Nat
          /\ \A i \in 1 .. Len(inbox') : inbox'[i] = inbox[i + 1]
          /\ Head(inbox) = inbox[1]
      BY <1>3, ExecuteUnread
    <2>2. ~saving'
      <3>1. Head(inbox).verb # "save-on"
        BY <1>0, <2>1 DEF Quiet
      <3> QED
        BY <1>3, <3>1 DEF Execute, Quiet
    <2>3. \A i \in 1 .. Len(inbox') : i + 1 \in 1 .. Len(inbox)
      BY <2>1
    <2> QED
      BY <2>1, <2>2, <2>3 DEF Quiet
  <1>4. CASE UNCHANGED <<inbox, saving>>
    BY <1>4 DEF Quiet
  <1> QED
    BY <1>1, <1>2, <1>3, <1>4

\* A job's own step.
LEMMA OwnStepQuiet ==
    ASSUME TypeOK, RInv, IdsSuffice, NEW b \in Jobs, JobStep(b), PausedLate, VerbsMatch,
           Paused(b) => Quiet, conn = "open", Paused(b)'
    PROVE  Quiet'
  <1> USE TypeParts, Pcs DEF JobsTyped, JobPcs, GoTo, Unwind
  <1>1. CASE Issue(b)
    <2>1. pc[b] = "flush" /\ Paused(b) /\ Send(b, "flush") /\ "flush" \in Verbs \ {"save-on"}
      BY <1>1 DEF Issue, Paused, jobVars, Verbs, VerbAt
    <2>2. b \in Callers
      BY DEF Callers
    <2> QED
      BY <2>1, <2>2, StaysQuiet
  <1>2. CASE CmdOk(b)
    <2>1. pc[b] \in {"saveOff", "flush", "resume"} /\ ReadReply(b) /\ Answered(b) /\ b \in Callers
      BY <1>2 DEF CmdOk, Answered, ReadReply, IssuersWait, Callers
    <2>2. CASE pc[b] = "saveOff"
      <3>1. InFlight(b) /\ current.verb = "save-off"
        BY <2>1, <2>2 DEF VerbsMatch, ReadReply, VerbAt
      <3>2. inbox = <<>>
        BY <2>1, AnswerIsLast
      <3>3. ~saving /\ saving' = saving /\ inbox' = inbox
        BY <2>1, <3>1, <3>2 DEF RInv, SaveIsOff, ReadReply, InFlight
      <3>4. Len(inbox) = 0
        BY <3>2, EmptySeq
      <3> QED
        BY <3>3, <3>4 DEF Quiet
    <2>3. CASE pc[b] = "flush"
      BY <2>1, <2>3, StaysQuiet DEF Paused
    <2>4. CASE pc[b] = "resume"
      BY <1>2, <2>4 DEF CmdOk, Paused
    <2> QED
      BY <2>1, <2>2, <2>3, <2>4
  <1>3. CASE CmdFails(b)
    BY <1>3 DEF CmdFails, Paused
  <1>4. CASE OpenPart(b) \/ CopyEnds(b) \/ CopyFails(b)
             \/ Rename(b) \/ RenameFails(b) \/ WriteMeta(b) \/ MetaFails(b)
    <2>1. UNCHANGED <<rconVars, paused>> /\ pc[b] \in {"open", "copy", "rename", "meta"}
      BY <1>4 DEF OpenPart, CopyEnds, CopyFails, Rename, RenameFails, WriteMeta, MetaFails
    <2>2. pc'[b] \in {"copy", "rename", "meta", "resume", "done"}
      BY <1>4 DEF OpenPart, CopyEnds, CopyFails, Rename, RenameFails, WriteMeta, MetaFails
    <2>3. Paused(b)
      BY <2>1, <2>2 DEF Paused
    <2> QED
      BY <2>1, <2>3, StaysQuiet DEF rconVars
  <1> QED
    BY <1>1, <1>2, <1>3, <1>4 DEF JobStep

LEMMA NextQuiet ==
    ASSUME TypeOK, RInv, IdsSuffice, QInv, [Next]_vars
    PROVE  QInv'
  <1> USE TypeParts
  <1>0. Alone' /\ PausedLate'
    BY NextAlone DEF QInv
  <1> SUFFICES ASSUME conn' = "open"
               PROVE  /\ VerbsMatch'
                      /\ \A b \in Jobs \ overlapped' : Paused(b)' => Quiet'
    BY <1>0 DEF QInv
  <1>1. ASSUME NEW c \in Jobs, Begin(c) \/ JobStep(c)
        PROVE  /\ VerbsMatch'
               /\ \A b \in Jobs \ overlapped' : Paused(b)' => Quiet'
    <2>0. conn = "open" /\ VerbsMatch /\ \A b \in Jobs \ overlapped : Paused(b) => Quiet
      BY <1>1, JobRconTyped DEF QInv
    <2>1. /\ \A b \in Jobs \ {c} : pc'[b] = pc[b]
          /\ overlapped \subseteq overlapped' /\ paused \subseteq paused'
          /\ paused' \subseteq paused \cup {c}
      BY <1>1, JobPcTyped DEF Begin, JobStep, Issue, CmdOk, CmdFails, OpenPart, CopyEnds,
            CopyFails, Rename, RenameFails, WriteMeta, MetaFails, jobVars
    <2>2. VerbsMatch'
      <3>1. CASE Issue(c)
        BY <3>1, <2>0 DEF Issue, Send, jobVars, VerbsMatch, InFlight
      <3>2. CASE current' = None
        BY <3>2 DEF VerbsMatch, InFlight
      <3>3. CASE current' = current /\ ~InFlight(c)
        BY <2>0, <2>1, <3>3 DEF VerbsMatch, InFlight
      <3>4. CASE pc' = pc /\ current'.from = c /\ pc[c] \in DOMAIN VerbAt /\ ~Issue(c)
        <4>1. current' = None \/ current' = current
          BY <1>1, <3>4 DEF Begin, JobStep, CmdOk, CmdFails, CmdError, Answered, Mismatched,
               ReadReply, GiveUp, WriteFails, OpenPart, CopyEnds,
               CopyFails, Rename, RenameFails, WriteMeta, MetaFails, rconVars
        <4> QED
          BY <2>0, <3>4, <4>1 DEF VerbsMatch, InFlight
      <3> QED
        BY <1>1, <3>1, <3>2, <3>3, <3>4, JobRconTyped
    <2>3. ASSUME NEW b \in Jobs \ overlapped', Paused(b)' PROVE Quiet'
      <3>1. b \notin overlapped
        BY <2>1
      <3>2. CASE Begin(c)
        <4>1. Paused(b)
          <5>1. CASE b = c
            <6>1. pc[c] = "new" /\ pc'[c] \in {"saveOff", "open"} /\ paused' = paused
              BY <3>2 DEF Begin, GoTo, JobsTyped
            <6>2. c \notin paused
              BY <6>1 DEF QInv, PausedLate
            <6> QED
              BY <2>3, <5>1, <6>1, <6>2 DEF Paused
          <5>2. CASE b # c
            BY <2>1, <2>3, <5>2 DEF Paused
          <5> QED
            BY <5>1, <5>2
        <4> QED
          BY <2>0, <3>1, <3>2, <4>1, StaysQuiet DEF Begin, rconVars
      <3>3. CASE JobStep(c) /\ b = c
        BY <2>0, <2>3, <3>1, <3>3, OwnStepQuiet DEF QInv
      <3>4. CASE JobStep(c) /\ b # c
        <4>1. Under(c)
          BY <3>4, Pcs DEF JobStep, Issue, CmdOk, CmdFails, CmdError, OpenPart, CopyEnds, CopyFails,
             Rename, RenameFails, WriteMeta, MetaFails, Under, Answered, ReadReply, IssuersWait
        <4>2. Under(b)
          BY <2>1, <2>3, <3>4 DEF Paused, Under
        <4> QED
          BY <3>1, <3>4, <4>1, <4>2 DEF QInv, Alone
      <3> QED
        BY <1>1, <3>2, <3>3, <3>4
    <2> QED
      BY <2>2, <2>3
  <1>2. ASSUME NEW k \in Calls, CallSends(k) \/ CallReturns(k) \/ CallUnsent(k)
        PROVE  /\ VerbsMatch'
               /\ \A b \in Jobs \ overlapped' : Paused(b)' => Quiet'
    <2>1. conn = "open" /\ UNCHANGED jobVars /\ k \in Callers /\ k \notin Jobs
      BY <1>2 DEF CallSends, CallReturns, CallUnsent, Send, WriteFails, Answered, Mismatched,
                  ReadReply, GiveUp, Callers
    <2>2. current' = None \/ current'.from = k
      BY <1>2 DEF CallSends, CallReturns, CallUnsent, Send, WriteFails, Answered, Mismatched,
                  ReadReply, GiveUp
    <2>3. \/ Send(k, "other") \/ ReadReply(k) \/ GiveUp(k) \/ UNCHANGED <<inbox, saving>>
      BY <1>2 DEF CallSends, CallReturns, CallUnsent, WriteFails, Answered, Mismatched
    <2>4. Quiet => Quiet'
      BY <2>1, <2>3, StaysQuiet DEF Verbs
    <2>5. VerbsMatch'
      BY <2>1, <2>2 DEF VerbsMatch, InFlight
    <2> QED
      BY <2>1, <2>4, <2>5 DEF QInv, jobVars, Paused
  <1>3. CASE ServerExecutes
    <2>1. conn = "open" /\ Execute /\ UNCHANGED <<jobVars, current>>
      BY <1>3 DEF ServerExecutes, Execute
    <2>2. Quiet => Quiet'
      BY <2>1, StaysQuiet
    <2> QED
      BY <2>1, <2>2 DEF QInv, jobVars, Paused, VerbsMatch, InFlight
  <1>4. CASE JvmExits \/ McsmDies
    BY <1>4 DEF JvmExits, McsmDies, JvmGone, McsmGone
  <1>5. CASE UNCHANGED <<rconVars, jobVars>>
    BY <1>5 DEF rconVars, jobVars, QInv, VerbsMatch, InFlight, Paused, Quiet
  <1> QED
    BY <1>1, <1>2, <1>3, <1>4, <1>5 DEF Next, DeleteZip, DeleteMeta, vars

\* As long as there are ids for all that is unread, autosave is off while a
\* backup that overlapped no other copies the world of a server that is up
\* (Store.Create between Pause and Resume).
THEOREM CopiesAreQuiesced == Spec /\ []IdsSuffice => []CopyIsQuiesced
  <1>1. Init => QInv
    BY DEF Init, RconInit, QInv, Alone, Under, PausedLate, VerbsMatch, InFlight, Paused
  <1>2. TypeOK /\ QInv => CopyIsQuiesced
    BY TypeParts DEF JobsTyped, QInv, CopyIsQuiesced, Paused, Quiet
  <1> QED
    BY <1>1, <1>2, BackupsTypeCorrect, InitInTurn, NextInTurn, NextQuiet, PTL DEF Spec

-----------------------------------------------------------------------------
(***************************************************************************)
(* When ids suffice.  A reply stays unread for good only if a caller gave  *)
(* up on one, and a caller that gives up, or has no time left to send its  *)
(* command, does not come back.                                            *)
(***************************************************************************)
Returned == called \cup {b \in Jobs : pc[b] \in {"pauseFailed", "unresumed", "done"}}

Waiting == IF current = None THEN 0 ELSE 1

\* The ids given since the oldest of the unread requests got its own.
Backlog == IF Len(Unread) >= 1 THEN given - Unread[1].nth + 1 ELSE 0

Counted ==
    conn = "open" => /\ Backlog <= Cardinality(Returned) + Waiting
                     /\ current # None => current.from \notin called

LEMMA BacklogTyped ==
    ASSUME RInv, conn = "open", UnreadTyped
    PROVE  /\ Backlog \in Nat /\ given \in Nat
           /\ Len(Unread) >= 1 => Unread[1].nth \in 1 .. given
  <1>1. given \in Nat /\ (Len(Unread) >= 1 => Unread[1].nth \in 1 .. given)
    <2>1. Len(Unread) \in Nat
      BY DEF UnreadTyped
    <2> QED
      BY <2>1 DEF RInv, Rising
  <1> QED
    BY <1>1 DEF Backlog

LEMMA ReturnedGrows ==
    ASSUME TypeOK, [Next]_vars
    PROVE  /\ Returned \subseteq Returned' /\ Returned \subseteq Callers
           /\ Returned' \subseteq Callers
  <1> USE TypeParts, Pcs
  <1>1. Returned \subseteq Callers /\ Returned' \subseteq Callers
    <2>1. TypeOK'
      BY NextTyped
    <2> QED
      BY <2>1 DEF TypeOK, Returned, Callers
  <1>2. ASSUME NEW b \in Jobs, Begin(b) \/ JobStep(b) PROVE Returned \subseteq Returned'
    <2>1. (\A c \in Jobs \ {b} : pc'[c] = pc[c]) /\ called' = called
      BY <1>2, JobPcTyped DEF Begin, JobStep, Issue, CmdOk, CmdFails, OpenPart, CopyEnds,
            CopyFails, Rename, RenameFails, WriteMeta, MetaFails
    <2>2. pc[b] \notin {"pauseFailed", "unresumed", "done"}
      BY <1>2 DEF Begin, JobStep, Issue, CmdOk, CmdFails, CmdError, OpenPart, CopyEnds, CopyFails,
            Rename, RenameFails, WriteMeta, MetaFails, Answered, ReadReply, IssuersWait
    <2> QED
      BY <2>1, <2>2 DEF Returned
  <1>3. ASSUME called \subseteq called',
               \A b \in Jobs : pc[b] \in {"pauseFailed", "unresumed", "done"} => pc'[b] = pc[b]
        PROVE  Returned \subseteq Returned'
    BY <1>3, Zenon DEF Returned
  <1>4. CASE McsmDies
    <2>1. called \subseteq called'
      BY <1>4 DEF McsmDies
    <2>2. \A b \in Jobs : pc[b] \in {"pauseFailed", "unresumed", "done"} => pc'[b] = pc[b]
      BY <1>4 DEF McsmDies, Under
    <2> QED
      BY <1>1, <1>3, <2>1, <2>2
  <1>5. CASE called \subseteq called' /\ pc' = pc
    BY <1>1, <1>3, <1>5
  <1> QED
    BY <1>1, <1>2, <1>4, <1>5 DEF Next, DeleteZip, DeleteMeta, CallSends, CallReturns, CallUnsent,
       ServerExecutes, JvmExits, vars, jobVars

LEMMA SendRequests ==
    ASSUME RconTypeOK(Callers), NEW p \in Callers, NEW v \in Verbs, Send(p, v)
    PROVE  current' \in RequestsOf(Callers) /\ current'.verb = v
  BY SendTyped DEF Send, NextId, RconTypeOK, RequestsOf

LEMMA OneMoreReturned ==
    ASSUME TypeOK, [Next]_vars, IsFiniteSet(Returned), IsFiniteSet(Returned'),
           \E p \in Returned' : p \notin Returned
    PROVE  Cardinality(Returned) + 1 <= Cardinality(Returned')
  <1>1. PICK p \in Returned' : p \notin Returned
    OBVIOUS
  <1>2. /\ IsFiniteSet(Returned \cup {p})
        /\ Cardinality(Returned \cup {p}) = Cardinality(Returned) + 1
    BY <1>1, FS_AddElement
  <1>3. Returned \cup {p} \subseteq Returned'
    BY <1>1, ReturnedGrows
  <1>4. Cardinality(Returned \cup {p}) <= Cardinality(Returned')
    BY <1>3, FS_Subset
  <1> QED
    BY <1>2, <1>4

\* Who stops waiting without having read a reply is done.
LEMMA GiveUpIsFinal ==
    ASSUME TypeOK, [Next]_vars, conn' = "open", current # None, current' = None
    PROVE  current.from \in Returned' \/ ReadReply(current.from)
  <1> USE TypeParts, Pcs
  <1>1. ASSUME NEW b \in Jobs, Begin(b) \/ JobStep(b)
        PROVE  (b \in Returned' /\ InFlight(b)) \/ ReadReply(current.from)
    <2>1. CASE CmdFails(b)
      <3>1. conn = "open" /\ pc'[b] \in {"pauseFailed", "unresumed", "done"}
        BY <2>1, JobRconTyped DEF CmdFails, GoTo, JobsTyped, JobStep
      <3> QED
        BY <2>1, <3>1 DEF CmdFails, CmdError, Mismatched, ReadReply, GiveUp, WriteFails,
                           InFlight, Returned
    <2>2. CASE CmdOk(b)
      BY <2>2 DEF CmdOk, Answered, ReadReply, InFlight
    <2>3. CASE ~CmdOk(b) /\ ~CmdFails(b)
      <3>1. current' # None
        BY <1>1, <2>3 DEF Begin, JobStep, Issue, Send, OpenPart, CopyEnds, CopyFails,
           Rename, RenameFails, WriteMeta, MetaFails, rconVars
      <3> QED
        BY <3>1
    <2> QED
      BY <2>1, <2>2, <2>3
  <1>2. ASSUME NEW k \in Calls, CallSends(k) \/ CallReturns(k) \/ CallUnsent(k)
        PROVE  (k \in Returned' /\ InFlight(k)) \/ ReadReply(current.from)
    BY <1>2 DEF CallSends, CallReturns, CallUnsent, Send, WriteFails, Answered, Mismatched,
       ReadReply, GiveUp, InFlight, Returned
  <1>3. CASE \/ \E i \in Ids : DeleteZip(i) \/ DeleteMeta(i)
             \/ ServerExecutes \/ JvmExits \/ UNCHANGED vars
    BY <1>3 DEF DeleteZip, DeleteMeta, ServerExecutes, JvmExits, Execute, JvmGone, vars, rconVars
  <1>4. ~McsmDies
    BY DEF McsmDies, McsmGone
  <1> QED
    BY <1>1, <1>2, <1>3, <1>4 DEF InFlight, Next

\* Who had no time left to send a command is done.
LEMMA UnsentIsFinal ==
    ASSUME TypeOK, [Next]_vars, conn' = "open", current = None, current' = None, given' # given
    PROVE  \E p \in Returned' : p \notin Returned
  <1> USE TypeParts, Pcs
  <1>1. ASSUME NEW b \in Jobs, Begin(b) \/ JobStep(b)
        PROVE  \E p \in Returned' : p \notin Returned
    <2>1. CASE CmdFails(b)
      <3>1. conn = "open"
        BY <2>1, JobRconTyped DEF JobStep
      <3>2. pc[b] = "resume" /\ ~InFlight(b) /\ called' = called
        BY <2>1, <3>1 DEF CmdFails, CmdError, Mismatched, ReadReply, GiveUp, InFlight, rconVars
      <3>3. pc'[b] = "unresumed"
        BY <2>1, <3>1, <3>2 DEF CmdFails, GoTo, JobsTyped
      <3>4. b \notin called
        BY DEF JobsTyped
      <3> QED
        BY <3>2, <3>3, <3>4 DEF Returned
    <2>2. CASE Issue(b)
      <3>1. VerbAt[pc[b]] \in Verbs /\ Send(b, VerbAt[pc[b]]) /\ b \in Callers
        BY <2>2 DEF Issue, Callers
      <3>2. current' \in RequestsOf(Callers)
        BY <3>1, SendRequests
      <3> QED
        BY <3>2, NoneIsNoRequest DEF Callers
    <2>3. CASE ~Issue(b) /\ ~CmdFails(b)
      BY <1>1, <2>3 DEF Begin, JobStep, CmdOk, Answered, ReadReply, InFlight, OpenPart, CopyEnds,
         CopyFails, Rename, RenameFails, WriteMeta, MetaFails, rconVars
    <2> QED
      BY <2>1, <2>2, <2>3
  <1>2. ASSUME NEW k \in Calls, CallSends(k) \/ CallReturns(k) \/ CallUnsent(k)
        PROVE  \E p \in Returned' : p \notin Returned
    <2>1. CASE CallUnsent(k)
      BY <2>1 DEF CallUnsent, Returned
    <2>2. CASE CallSends(k)
      <3>1. current' \in RequestsOf(Callers)
        BY <2>2, SendRequests DEF CallSends, Callers, Verbs
      <3> QED
        BY <3>1, NoneIsNoRequest DEF Callers
    <2>3. CASE CallReturns(k)
      BY <2>3 DEF CallReturns, Answered, Mismatched, ReadReply, GiveUp, InFlight
    <2> QED
      BY <1>2, <2>1, <2>2, <2>3
  <1>3. CASE \/ \E i \in Ids : DeleteZip(i) \/ DeleteMeta(i)
             \/ ServerExecutes \/ JvmExits \/ UNCHANGED vars
    BY <1>3 DEF DeleteZip, DeleteMeta, ServerExecutes, JvmExits, Execute, JvmGone, vars, rconVars
  <1>4. ~McsmDies
    BY DEF McsmDies, McsmGone
  <1> QED
    BY <1>1, <1>2, <1>3, <1>4 DEF Next

LEMMA NextCounted ==
    ASSUME IsFiniteSet(Calls), TypeOK, RInv, Counted, [Next]_vars
    PROVE  Counted'
  <1> USE TypeParts
  <1> SUFFICES ASSUME conn' = "open"
               PROVE  /\ Backlog' <= Cardinality(Returned') + Waiting'
                      /\ current' # None => current'.from \notin called'
    BY DEF Counted
  <1>0. /\ IsFiniteSet(Callers) /\ Cardinality(Callers) \in Nat
        /\ IsFiniteSet(Returned) /\ Cardinality(Returned) \in Nat
        /\ IsFiniteSet(Returned') /\ Cardinality(Returned') \in Nat
        /\ Cardinality(Returned) <= Cardinality(Returned')
    <2>1. IsFiniteSet(Callers)
      BY FS_Union DEF Callers
    <2>2. /\ IsFiniteSet(Returned') /\ Returned \subseteq Returned'
      BY <2>1, ReturnedGrows, FS_Subset
    <2>3. IsFiniteSet(Returned) /\ Cardinality(Returned) <= Cardinality(Returned')
      BY <2>2, FS_Subset
    <2> QED
      BY <2>1, <2>2, <2>3, FS_CardinalityType
  <1>1. RconStep /\ RconTypeOK(Callers) /\ RconTypeOK(Callers)' /\ TypeOK' /\ UnreadTyped
    <2>1. RconStep /\ TypeOK'
      BY NextIsRconStep, NextTyped
    <2>2. RconTypeOK(Callers) /\ RconTypeOK(Callers)'
      BY <2>1 DEF TypeOK, Callers
    <2> QED
      BY <2>1, <2>2, UnreadIsQueue
  <1>2. UnreadTyped'
    BY <1>1, ConcatProperties, LenProperties DEF RconTypeOK, Unread, UnreadTyped
  <1>3. conn = "open" /\ Backlog <= Cardinality(Returned) + Waiting
        /\ (current # None => current.from \notin called)
    BY <1>1 DEF RconStep, Send, WriteFails, ReadReply, GiveUp, Execute, JvmGone, McsmGone, rconVars,
                Counted
  <1>4. current' # None => current'.from \notin called'
    <2>1. ASSUME NEW b \in Jobs, Begin(b) \/ JobStep(b), current' # None
          PROVE  current'.from \notin called'
      <3>1. called' = called /\ called \subseteq Calls
        BY <2>1 DEF Begin, JobStep, Issue, CmdOk, CmdFails, OpenPart, CopyEnds,
          CopyFails, Rename, RenameFails, WriteMeta, MetaFails, JobsTyped
      <3> QED
        BY <1>3, <2>1, <3>1, JobRconTyped
    <2>2. ASSUME NEW k \in Calls, CallSends(k) \/ CallReturns(k) \/ CallUnsent(k), current' # None
          PROVE  current'.from \notin called'
      BY <2>2 DEF CallSends, CallReturns, CallUnsent, Send, WriteFails, Answered, Mismatched,
                  ReadReply, GiveUp
    <2>3. CASE current' \in {current, None} /\ called' = called
      BY <1>3, <2>3
    <2> QED
      BY <2>1, <2>2, <2>3 DEF Next, DeleteZip, DeleteMeta, ServerExecutes, JvmExits, McsmDies,
         McsmGone, Execute, JvmGone, vars, rconVars
  <1>5. /\ Backlog \in Nat /\ given \in Nat /\ Len(Unread) \in Nat
        /\ Len(Unread) >= 1 => Unread[1].nth \in 1 .. given
    BY <1>1, <1>3, BacklogTyped DEF UnreadTyped
  <1>6. /\ Backlog' \in Nat /\ given' \in Nat /\ Len(Unread') \in Nat
        /\ Len(Unread') >= 1 => Unread'[1].nth \in 1 .. given'
    <2>1. RInv'
      BY NextInTurn
    <2>2. Len(Unread') \in Nat
      BY <1>2 DEF UnreadTyped
    <2>3. given' \in Nat /\ (Len(Unread') >= 1 => Unread'[1].nth \in 1 .. given')
      BY <2>1, <2>2 DEF RInv, Rising
    <2> QED
      BY <2>2, <2>3 DEF Backlog
  <1>7. Backlog' <= Cardinality(Returned') + Waiting'
    <2>1. ASSUME NEW p \in Callers, NEW v \in Verbs, Send(p, v)
          PROVE  Backlog' <= Cardinality(Returned') + Waiting'
      <3>1. Waiting = 0 /\ Waiting' = 1
        <4>1. current' \in RequestsOf(Callers) /\ current = None
          BY <1>1, <2>1, SendRequests DEF Send
        <4> QED
          BY <4>1, NoneIsNoRequest DEF Waiting, Callers
      <3>2. Backlog' <= Backlog + 1
        <4>1. /\ Len(Unread') = Len(Unread) + 1
              /\ \A i \in 1 .. Len(Unread) : Unread'[i] = Unread[i]
              /\ Unread'[Len(Unread')] = current'
          BY <1>1, <2>1, SendUnread
        <4>2. given' = given + 1 /\ current'.nth = given + 1
          BY <2>1 DEF Send, TakesId
        <4>3. CASE Len(Unread) = 0
          <5>1. Unread'[1].nth = given + 1 /\ Len(Unread') = 1
            BY <4>1, <4>2, <4>3
          <5> QED
            BY <1>5, <4>2, <4>3, <5>1 DEF Backlog
        <4>4. CASE Len(Unread) # 0
          <5>1. Len(Unread) >= 1 /\ Len(Unread') >= 1 /\ Unread'[1] = Unread[1]
            BY <1>5, <4>1, <4>4
          <5> QED
            BY <1>5, <4>2, <5>1 DEF Backlog
        <4> QED
          BY <4>3, <4>4
      <3> QED
        BY <1>0, <1>3, <1>5, <1>6, <3>1, <3>2
    <2>2. ASSUME NEW p, ReadReply(p)
          PROVE  Backlog' <= Cardinality(Returned') + Waiting'
      <3>1. /\ Len(Unread) = Len(Unread') + 1 /\ Waiting = 1 /\ Waiting' = 0 /\ given' = given
            /\ \A i \in 1 .. Len(Unread') : Unread'[i] = Unread[i + 1]
        BY <1>1, <2>2, ReadUnread DEF ReadReply, InFlight, Waiting
      <3>2. Backlog' + 1 <= Backlog
        <4>1. CASE Len(Unread') = 0
          BY <1>5, <3>1, <4>1 DEF Backlog
        <4>2. CASE Len(Unread') # 0
          <5>1. Len(Unread') >= 1 /\ Len(Unread) >= 2 /\ Unread'[1] = Unread[2]
            BY <1>6, <3>1, <4>2
          <5>2. Unread[1].nth < Unread[2].nth
            BY <1>3, <1>5, <5>1 DEF RInv, Rising
          <5> QED
            BY <1>5, <1>6, <3>1, <5>1, <5>2 DEF Backlog
        <4> QED
          BY <4>1, <4>2
      <3> QED
        BY <1>0, <1>3, <1>5, <1>6, <3>1, <3>2
    <2>3. ASSUME NEW p \in Callers, GiveUp(p), ~ReadReply(current.from)
          PROVE  Backlog' <= Cardinality(Returned') + Waiting'
      <3>1. /\ current # None /\ current' = None /\ Backlog' = Backlog /\ current.from = p
            /\ Waiting = 1 /\ Waiting' = 0
        BY <2>3 DEF GiveUp, InFlight, Unread, Backlog, Waiting
      <3>2. p \in Returned' \ Returned
        <4>1. p \in Returned'
          BY <2>3, <3>1, GiveUpIsFinal
        <4>2. p \in Jobs => pc[p] \in {"saveOff", "flush", "resume"}
          BY <3>1, Pcs DEF IssuersWait, InFlight
        <4>3. p \notin called
          BY <1>3, <3>1
        <4> QED
          BY <4>1, <4>2, <4>3 DEF Returned
      <3>3. Cardinality(Returned) + 1 <= Cardinality(Returned')
        BY <1>0, <3>2, OneMoreReturned
      <3> QED
        BY <1>0, <1>3, <1>5, <3>1, <3>3
    <2>4. CASE WriteFails
      <3>1. /\ current = None /\ current' = None /\ Unread' = Unread /\ given' = given + 1
            /\ Waiting = 0 /\ Waiting' = 0
        BY <2>4 DEF WriteFails, TakesId, Unread, Waiting
      <3>2. Backlog' <= Backlog + 1
        BY <1>5, <3>1 DEF Backlog
      <3>3. Cardinality(Returned) + 1 <= Cardinality(Returned')
        BY <1>0, <1>5, <3>1, UnsentIsFinal, OneMoreReturned
      <3> QED
        BY <1>0, <1>3, <1>5, <1>6, <3>1, <3>2, <3>3
    <2>5. CASE Execute
      <3>1. /\ Len(Unread') = Len(Unread) /\ given' = given
            /\ \A i \in 1 .. Len(Unread) : Unread'[i] = Unread[i]
            /\ Waiting' = Waiting /\ Waiting \in {0, 1}
        BY <1>1, <1>3, <2>5, ExecuteUnread DEF Execute, Waiting
      <3>2. Backlog' = Backlog
        BY <1>5, <3>1 DEF Backlog
      <3> QED
        BY <1>0, <1>3, <1>5, <3>1, <3>2
    <2>6. CASE UNCHANGED rconVars
      <3>1. Backlog' = Backlog /\ Waiting' = Waiting /\ Waiting \in {0, 1}
        BY <2>6 DEF rconVars, Backlog, Unread, Waiting
      <3> QED
        BY <1>0, <1>3, <1>5, <3>1
    <2>7. ~JvmGone /\ ~McsmGone
      BY DEF JvmGone, McsmGone
    <2> QED
      BY <1>1, <2>1, <2>2, <2>3, <2>4, <2>5, <2>6, <2>7 DEF RconStep
  <1> QED
    BY <1>4, <1>7

\* Who is waited for has not returned.
LEMMA ReturnedLeavesRoom ==
    ASSUME IsFiniteSet(Calls), TypeOK, Counted, conn = "open"
    PROVE  Cardinality(Returned) + Waiting <= Cardinality(Callers)
  <1> USE TypeParts
  <1>1. IsFiniteSet(Callers) /\ Returned \subseteq Callers
    BY FS_Union DEF Callers, Returned, JobsTyped
  <1>2. /\ Cardinality(Callers) \in Nat
        /\ IsFiniteSet(Returned) /\ Cardinality(Returned) \in Nat
        /\ Cardinality(Returned) <= Cardinality(Callers)
    BY <1>1, FS_Subset, FS_CardinalityType
  <1>3. CASE current = None
    BY <1>2, <1>3 DEF Waiting
  <1>4. CASE current # None
    <2>1. current.from \in Callers
      BY <1>4 DEF RconTypeOK, RequestsOf
    <2>2. current.from \notin Returned
      <3>1. current.from \in Jobs => pc[current.from] \in {"saveOff", "flush", "resume"}
        BY <1>4, Pcs DEF IssuersWait, InFlight
      <3> QED
        BY <1>4, <3>1 DEF Returned, Counted
    <2>3. /\ Cardinality(Returned \cup {current.from}) = Cardinality(Returned) + 1
          /\ Returned \cup {current.from} \subseteq Callers
      BY <1>1, <1>2, <2>1, <2>2, FS_AddElement
    <2>4. Cardinality(Returned \cup {current.from}) <= Cardinality(Callers) /\ Waiting = 1
      BY <1>1, <1>4, <2>3, FS_Subset DEF Waiting
    <2> QED
      BY <2>3, <2>4
  <1> QED
    BY <1>3, <1>4

\* There are ids for all that is unread, so that a command that succeeds has its
\* own reply and the world a backup copies is quiet, when there are no more
\* callers than ids (nextID, 2^31 - 1 of them): a backup that gives up on a
\* command sends no other.
THEOREM UnreadAreFew ==
    ASSUME IsFiniteSet(Calls), Cardinality(Callers) <= MaxId
    PROVE  Spec => []IdsSuffice /\ []CopyIsQuiesced
  <1>0. Cardinality(Callers) \in Nat
    BY FS_Union, FS_CardinalityType DEF Callers
  <1>1. Init => Counted
    <2> SUFFICES ASSUME Init PROVE Counted
      OBVIOUS
    <2>1. Unread = <<>> /\ called = {} /\ current = None
      BY EmptySeq DEF Init, RconInit, Unread
    <2>2. Cardinality(Returned) \in Nat
      <3>1. Returned \subseteq Callers
        BY <2>1 DEF Returned, Callers
      <3> QED
        BY <3>1, FS_Union, FS_Subset, FS_CardinalityType DEF Callers
    <2>3. Backlog = 0 /\ Waiting = 0
      BY <2>1 DEF Backlog, Waiting
    <2> QED
      BY <2>1, <2>2, <2>3 DEF Counted
  <1>2. TypeOK /\ RInv /\ Counted => IdsSuffice
    <2> SUFFICES ASSUME TypeOK, RInv, Counted, conn = "open", Unread # <<>>
                 PROVE  given - Head(Unread).nth < MaxId
      BY DEF IdsSuffice
    <2>1. UnreadTyped /\ Len(Unread) >= 1 /\ Head(Unread) = Unread[1]
      BY UnreadIsQueue, UnreadHead, TypeParts
    <2>2. Backlog \in Nat /\ given \in Nat /\ Unread[1].nth \in 1 .. given
      BY <2>1, BacklogTyped
    <2>3. Backlog = given - Unread[1].nth + 1
      BY <2>1 DEF Backlog
    <2>4. Cardinality(Returned) + Waiting <= Cardinality(Callers)
      BY ReturnedLeavesRoom
    <2>5. Cardinality(Returned) \in Nat /\ Waiting \in {0, 1}
      <3>1. Returned \subseteq Callers
        BY TypeParts DEF Returned, Callers, JobsTyped
      <3> QED
        BY <3>1, FS_Union, FS_Subset, FS_CardinalityType DEF Callers, Waiting
    <2>6. Backlog <= Cardinality(Returned) + Waiting
      BY DEF Counted
    <2> QED
      BY <1>0, <2>1, <2>2, <2>3, <2>4, <2>5, <2>6
  <1> QED
    BY <1>1, <1>2, BackupsTypeCorrect, InitInTurn, NextInTurn, NextCounted, CopiesAreQuiesced, PTL
       DEF Spec

-----------------------------------------------------------------------------
(***************************************************************************)
(* Somebody owes the save-on.  A request that is sent after a save-off does *)
(* not overtake it, so a save-on in flight answers all that is before it.  *)
(***************************************************************************)
LEMMA DueAfterSend ==
    ASSUME RconTypeOK(Callers), NEW p \in Callers, NEW v \in Verbs, Send(p, v), OffIsDue'
    PROVE  v # "save-on" /\ (v # "save-off" => OffIsDue)
  <1> DEFINE n == Len(inbox)
  <1>1. current' \in RequestsOf(Callers) /\ current'.verb = v
    BY SendTyped DEF Send, RconTypeOK, RequestsOf
  <1>2. /\ Len(inbox') = n + 1 /\ inbox'[n + 1] = current' /\ n \in Nat
        /\ \A i \in 1 .. n : inbox'[i] = inbox[i]
    BY <1>1, AppendProperties, LenProperties DEF Send, RconTypeOK
  <1>3. DOMAIN inbox = 1 .. n /\ DOMAIN inbox' = 1 .. n + 1 /\ saving' = saving
    BY <1>1, <1>2, AppendProperties, LenProperties DEF Send, RconTypeOK
  <1> HIDE DEF n
  <1>4. n + 1 \in 1 .. n + 1 /\ \A i \in 1 .. n : i < n + 1 /\ i \in 1 .. n + 1
    BY <1>2
  <1>5. v # "save-on"
    <2>1. ASSUME v = "save-on", NEW i \in DOMAIN inbox', inbox'[i].verb = "save-off",
                 \A j \in DOMAIN inbox' : j > i => inbox'[j].verb # "save-on"
          PROVE  FALSE
      <3>1. i # n + 1
        BY <1>1, <1>2, <2>1
      <3>2. n + 1 > i /\ n + 1 \in DOMAIN inbox'
        BY <1>2, <1>3, <2>1, <3>1
      <3> QED
        BY <1>1, <1>2, <2>1, <3>2
    <2>2. v = "save-on" => ~ \A i \in DOMAIN inbox' : inbox'[i].verb # "save-on"
      BY <1>1, <1>2, <1>3, <1>4
    <2> QED
      BY <2>1, <2>2 DEF OffIsDue
  <1>6. ASSUME v # "save-off" PROVE OffIsDue
    <2>1. CASE ~saving' /\ \A i \in DOMAIN inbox' : inbox'[i].verb # "save-on"
      <3>1. \A i \in DOMAIN inbox : inbox[i].verb # "save-on"
        BY <1>2, <1>3, <1>4, <2>1
      <3> QED
        BY <1>3, <2>1, <3>1 DEF OffIsDue
    <2>2. ASSUME NEW i \in DOMAIN inbox', inbox'[i].verb = "save-off",
                 \A j \in DOMAIN inbox' : j > i => inbox'[j].verb # "save-on"
          PROVE  OffIsDue
      <3>1. i \in 1 .. n
        <4>1. i # n + 1
          BY <1>1, <1>2, <1>6, <2>2
        <4> QED
          BY <1>2, <1>3, <2>2, <4>1
      <3>2. \A j \in DOMAIN inbox : j > i => inbox[j].verb # "save-on"
        BY <1>2, <1>3, <1>4, <2>2
      <3>3. i \in DOMAIN inbox /\ inbox[i].verb = "save-off"
        BY <1>2, <1>3, <2>2, <3>1
      <3> QED
        BY <3>2, <3>3 DEF OffIsDue
    <2> QED
      BY <2>1, <2>2 DEF OffIsDue
  <1> QED
    BY <1>5, <1>6

LEMMA DueAfterExecute ==
    ASSUME RconTypeOK(Callers), conn = "open", Execute, OffIsDue'
    PROVE  OffIsDue
  <1> DEFINE n == Len(inbox')
  <1>1. /\ Len(inbox) = n + 1 /\ n \in Nat /\ Head(inbox) = inbox[1]
        /\ \A i \in 1 .. n : inbox'[i] = inbox[i + 1]
    BY ExecuteUnread
  <1>2. DOMAIN inbox = 1 .. n + 1 /\ DOMAIN inbox' = 1 .. n
    <2>1. RconTypeOK(Callers)'
      BY ServerTyped
    <2> QED
      BY <1>1, <2>1, LenProperties DEF RconTypeOK
  <1> HIDE DEF n
  <1>3. /\ \A i \in 1 .. n : i + 1 \in 1 .. n + 1
        /\ \A i \in 1 .. n + 1 : i > 1 => i - 1 \in 1 .. n /\ i - 1 + 1 = i
        /\ 1 \in 1 .. n + 1
    BY <1>1
  <1>4. \A i \in DOMAIN inbox : i > 1 => inbox[i] = inbox'[i - 1]
    BY <1>1, <1>2, <1>3
  <1>5. CASE ~saving' /\ \A i \in DOMAIN inbox' : inbox'[i].verb # "save-on"
    <2>1. \A i \in DOMAIN inbox : i > 1 => inbox[i].verb # "save-on"
      BY <1>2, <1>3, <1>4, <1>5
    <2>2. inbox[1].verb # "save-on"
      BY <1>1, <1>5 DEF Execute
    <2>3. CASE inbox[1].verb = "save-off"
      BY <1>2, <1>3, <2>1, <2>3 DEF OffIsDue
    <2>4. CASE inbox[1].verb # "save-off"
      <3>1. ~saving
        BY <1>1, <1>5, <2>2, <2>4 DEF Execute
      <3>2. \A i \in DOMAIN inbox : inbox[i].verb # "save-on"
        BY <1>1, <1>2, <2>1, <2>2
      <3> QED
        BY <3>1, <3>2 DEF OffIsDue
    <2> QED
      BY <2>3, <2>4
  <1>6. ASSUME NEW i \in DOMAIN inbox', inbox'[i].verb = "save-off",
               \A j \in DOMAIN inbox' : j > i => inbox'[j].verb # "save-on"
        PROVE  OffIsDue
    <2>1. i + 1 \in DOMAIN inbox /\ inbox[i + 1].verb = "save-off"
      BY <1>1, <1>2, <1>3, <1>6
    <2>2. ASSUME NEW j \in DOMAIN inbox, j > i + 1 PROVE inbox[j].verb # "save-on"
      <3>1. j > 1 /\ j - 1 > i
        BY <1>1, <1>2, <1>6, <2>2
      <3> QED
        BY <1>2, <1>3, <1>4, <1>6, <2>2, <3>1
    <2> QED
      BY <2>1, <2>2 DEF OffIsDue
  <1> QED
    BY <1>5, <1>6 DEF OffIsDue

Owing(b) == OwesResume(b) \/ pc[b] \in {"pauseFailed", "unresumed"}

\* Who owes a save-on is only rid of it by sending it.
LEMMA DebtsAreKept ==
    ASSUME TypeOK, [Next]_vars, conn' = "open", NEW b \in Jobs, Owing(b), OffIsDue'
    PROVE  Owing(b)'
  <1> USE TypeParts, Pcs
  <1>1. CASE Begin(b) \/ JobStep(b)
    <2> USE DEF JobsTyped, JobPcs, GoTo, Unwind, Owing, OwesResume, Under
    <2>1. CASE Issue(b)
      <3>1. VerbAt[pc[b]] \in Verbs /\ Send(b, VerbAt[pc[b]]) /\ b \in Callers /\ UNCHANGED jobVars
        BY <2>1 DEF Issue, Callers
      <3>2. VerbAt[pc[b]] # "save-on"
        BY <3>1, DueAfterSend
      <3>3. pc[b] # "resume"
        BY <3>2 DEF VerbAt
      <3>4. ~InFlight(b)
        BY <3>1 DEF Send, InFlight
      <3> QED
        BY <3>1, <3>3, <3>4 DEF jobVars
    <2>2. CASE CmdOk(b)
      <3>1. InFlight(b) /\ pc[b] \in DOMAIN VerbAt
        BY <2>2 DEF CmdOk, Answered, ReadReply, IssuersWait
      <3>2. pc[b] \in {"saveOff", "flush"}
        BY <3>1
      <3>3. current' = None
        BY <2>2 DEF CmdOk, Answered, ReadReply
      <3>4. pc[b] = "saveOff" => pc'[b] = "flush"
        BY <2>2 DEF CmdOk
      <3>5. pc[b] = "flush" => pc'[b] = "open" /\ b \in paused'
        BY <2>2 DEF CmdOk
      <3> QED
        BY <3>2, <3>4, <3>5
    <2>3. CASE CmdFails(b)
      <3>1. conn = "open"
        BY <2>3, JobRconTyped DEF JobStep
      <3>2. /\ pc[b] \in DOMAIN VerbAt
            /\ InFlight(b) \/ (pc[b] = "resume" /\ ~InFlight(b))
        BY <2>3, <3>1 DEF CmdFails, CmdError, Mismatched, ReadReply, GiveUp
      <3>3. pc[b] = "resume" => ~InFlight(b)
        BY <3>2
      <3>4. pc'[b] \in {"pauseFailed", "unresumed"}
        BY <2>3, <3>1, <3>2, <3>3 DEF CmdFails
      <3> QED
        BY <3>4
    <2>4. CASE \/ OpenPart(b) \/ CopyEnds(b) \/ CopyFails(b)
               \/ Rename(b) \/ RenameFails(b) \/ WriteMeta(b) \/ MetaFails(b)
      <3>1. pc[b] \in {"open", "copy", "rename", "meta"} /\ UNCHANGED <<rconVars, paused>>
        BY <2>4 DEF OpenPart, CopyEnds, CopyFails, Rename, RenameFails, WriteMeta, MetaFails
      <3>2. ~InFlight(b) /\ ~InFlight(b)' /\ b \in paused'
        BY <3>1 DEF IssuersWait, rconVars, InFlight
      <3>3. pc'[b] \in {"copy", "rename", "meta", "resume"}
        BY <2>4, <3>1 DEF OpenPart, CopyEnds, CopyFails, Rename, RenameFails, WriteMeta, MetaFails
      <3> QED
        BY <3>2, <3>3
    <2>5. CASE Begin(b)
      BY <2>5 DEF Begin
    <2> QED
      BY <1>1, <2>1, <2>2, <2>3, <2>4, <2>5 DEF JobStep
  <1>2. CASE pc'[b] = pc[b] /\ (b \in paused => b \in paused') /\ (InFlight(b)' <=> InFlight(b))
    BY <1>2, Zenon DEF Owing, OwesResume, Under
  <1>3. ASSUME NEW c \in Jobs \ {b}, Begin(c) \/ JobStep(c) PROVE Owing(b)'
    <2>1. pc'[b] = pc[b]
      BY <1>3, JobPcTyped
    <2>2. b \in paused => b \in paused'
      BY <1>3 DEF Begin, JobStep, Issue, CmdOk, CmdFails, OpenPart, CopyEnds, CopyFails,
         Rename, RenameFails, WriteMeta, MetaFails, jobVars
    <2>3. CASE Issue(c)
      <3>1. ~InFlight(b)
        BY <2>3 DEF Issue, Send, InFlight
      <3>2. VerbAt[pc[c]] \in Verbs /\ Send(c, VerbAt[pc[c]]) /\ c \in Callers
        BY <2>3 DEF Issue, Callers
      <3>3. current'.from = c
        BY <3>2, SendTyped
      <3>4. ~InFlight(b)'
        BY <1>3, <3>3 DEF InFlight
      <3> QED
        BY <1>2, <2>1, <2>2, <3>1, <3>4
    <2>4. CASE CmdOk(c) \/ CmdFails(c)
      <3>1. CASE InFlight(c) /\ current' = None
        BY <1>2, <1>3, <2>1, <2>2, <3>1 DEF InFlight
      <3>2. CASE current' = current
        BY <1>2, <2>1, <2>2, <3>2 DEF InFlight
      <3> QED
        BY <2>4, <3>1, <3>2 DEF CmdOk, CmdFails, CmdError, Answered, Mismatched, ReadReply,
           GiveUp, WriteFails, rconVars
    <2>5. CASE ~Issue(c) /\ ~CmdOk(c) /\ ~CmdFails(c)
      <3>1. UNCHANGED rconVars
        BY <1>3, <2>5 DEF Begin, JobStep, OpenPart, CopyEnds, CopyFails, Rename, RenameFails,
           WriteMeta, MetaFails
      <3> QED
        BY <1>2, <2>1, <2>2, <3>1 DEF rconVars, InFlight
    <2> QED
      BY <2>3, <2>4, <2>5
  <1>4. ASSUME NEW k \in Calls, CallSends(k) \/ CallReturns(k) \/ CallUnsent(k) PROVE Owing(b)'
    <2>1. UNCHANGED jobVars /\ k # b
      BY <1>4 DEF CallSends, CallReturns, CallUnsent
    <2>2. \/ ~InFlight(b) /\ current'.from = k
          \/ InFlight(k) /\ current' = None
          \/ current' = current
      <3>1. CASE CallSends(k)
        BY <3>1, SendTyped DEF CallSends, Callers, Verbs, Send, InFlight
      <3>2. CASE CallReturns(k)
        BY <3>2 DEF CallReturns, Answered, Mismatched, ReadReply, GiveUp
      <3>3. CASE CallUnsent(k)
        BY <3>3 DEF CallUnsent, WriteFails
      <3> QED
        BY <1>4, <3>1, <3>2, <3>3
    <2>3. InFlight(b)' <=> InFlight(b)
      BY <2>1, <2>2 DEF InFlight
    <2> QED
      BY <1>2, <2>1, <2>3 DEF jobVars
  <1>5. CASE UNCHANGED jobVars /\ current' = current
    BY <1>2, <1>5 DEF jobVars, InFlight
  <1>6. CASE McsmDies
    BY <1>6 DEF McsmDies, McsmGone
  <1> QED
    BY <1>1, <1>3, <1>4, <1>5, <1>6 DEF Next, DeleteZip, DeleteMeta, ServerExecutes, JvmExits,
       Execute, JvmGone, vars, rconVars

\* While autosave is off, or will be once the server has executed what it was
\* sent, a backup still has to send the save-on, or failed in its Pause, or never
\* sent its save-on because its Resume had waited too long for c.mu, as long as
\* mcsm has its connection (Store.Create, its deferred Resume, Client.Cmd).
THEOREM AutosaveIsAlwaysOwed == Spec => []AutosaveIsOwed
  <1>1. Init => AutosaveIsOwed
    <2> SUFFICES ASSUME Init PROVE ~OffIsDue
      BY DEF AutosaveIsOwed
    <2>1. saving = TRUE /\ DOMAIN inbox = {}
      BY DEF Init, RconInit
    <2> QED
      BY <2>1 DEF OffIsDue
  <1>2. ASSUME TypeOK, AutosaveIsOwed, [Next]_vars PROVE AutosaveIsOwed'
    <2> USE TypeParts
    <2> SUFFICES ASSUME conn' = "open", OffIsDue' PROVE \E b \in Jobs : Owing(b)'
      BY DEF AutosaveIsOwed, Owing
    <2>0. RconTypeOK(Callers) /\ RconStep
      BY <1>2, NextIsRconStep
    <2>1. CASE OffIsDue /\ conn = "open"
      <3>1. PICK b \in Jobs : Owing(b)
        BY <1>2, <2>1 DEF AutosaveIsOwed, Owing
      <3> QED
        BY <1>2, <3>1, DebtsAreKept
    <2>2. ASSUME NEW b \in Jobs, Issue(b), VerbAt[pc[b]] = "save-off" PROVE Owing(b)'
      <3>1. pc'[b] = "saveOff"
        BY <1>2, <2>2, Pcs DEF Issue, jobVars, VerbAt
      <3>2. current'.from = b /\ current' \in RequestsOf(Callers)
        <4>1. b \in Callers /\ "save-off" \in Verbs /\ Send(b, "save-off")
          BY <2>2 DEF Issue, Callers, Verbs
        <4>2. RconTypeOK(Callers)' /\ current'.from = b
          BY <2>0, <4>1, SendTyped
        <4> QED
          BY <2>0, <4>1, <4>2, SendRequests
      <3>3. InFlight(b)'
        BY <3>2, NoneIsNoRequest DEF InFlight, Callers
      <3> QED
        BY <3>1, <3>3 DEF Owing, OwesResume
    <2>3. CASE \E b \in Jobs : Issue(b) /\ VerbAt[pc[b]] = "save-off"
      BY <2>2, <2>3
    <2>4. CASE ~ \E b \in Jobs : Issue(b) /\ VerbAt[pc[b]] = "save-off"
      <3>1. ASSUME NEW p \in Callers, NEW v \in Verbs, v # "save-off", Send(p, v)
            PROVE  OffIsDue /\ conn = "open"
        BY <2>0, <3>1, DueAfterSend DEF Send
      <3>2. CASE Execute
        <4>1. conn = "open"
          BY <3>2 DEF Execute
        <4> QED
          BY <2>0, <2>1, <3>2, <4>1, DueAfterExecute
      <3>3. CASE UNCHANGED <<conn, inbox, saving>>
        BY <2>1, <3>3 DEF OffIsDue
      <3>4. ASSUME NEW b \in Jobs, Begin(b) \/ JobStep(b)
            PROVE  \E c \in Jobs : Owing(c)'
        <4>1. CASE Issue(b)
          <5>1. VerbAt[pc[b]] \in Verbs /\ b \in Callers /\ VerbAt[pc[b]] # "save-off"
            BY <2>4, <4>1, Pcs DEF Issue, Callers
          <5> QED
            BY <2>1, <3>1, <4>1, <5>1 DEF Issue
        <4>2. CASE ~Issue(b)
          <5>1. UNCHANGED <<conn, inbox, saving>>
            BY <3>4, <4>2 DEF Begin, JobStep, CmdOk, CmdFails, CmdError, Answered, Mismatched,
               ReadReply, GiveUp, WriteFails, rconVars, OpenPart, CopyEnds, CopyFails, Rename, RenameFails,
               WriteMeta, MetaFails
          <5> QED
            BY <3>3, <5>1
        <4> QED
          BY <4>1, <4>2
      <3>5. ASSUME NEW k \in Calls, CallSends(k) \/ CallReturns(k) \/ CallUnsent(k)
            PROVE  \E c \in Jobs : Owing(c)'
        <4>1. CASE CallSends(k)
          BY <2>1, <3>1, <4>1 DEF CallSends, Callers, Verbs
        <4>2. CASE CallReturns(k)
          BY <3>3, <4>2 DEF CallReturns, Answered, Mismatched, ReadReply, GiveUp
        <4>3. CASE CallUnsent(k)
          BY <3>3, <4>3 DEF CallUnsent, WriteFails
        <4> QED
          BY <3>5, <4>1, <4>2, <4>3
      <3>6. CASE JvmExits \/ McsmDies
        BY <3>6 DEF JvmExits, McsmDies, JvmGone, McsmGone
      <3> QED
        BY <1>2, <3>2, <3>3, <3>4, <3>5, <3>6 DEF Next, DeleteZip, DeleteMeta, ServerExecutes,
           vars, rconVars
    <2> QED
      BY <2>3, <2>4
  <1> QED
    BY <1>1, <1>2, BackupsTypeCorrect, PTL DEF Spec

=============================================================================
