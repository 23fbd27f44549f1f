------------------------------- MODULE Tailer -------------------------------
(***************************************************************************)
(* logtail.Tailer: the goroutine that follows logs/latest.log while the    *)
(* JVM appends to it, truncates it and rotates it, and the broadcaster it  *)
(* emits to.  Each file that comes to be at the path is an inode, which    *)
(* the tailer may have open long after it was rotated away.  Sizes and     *)
(* positions count lines, and lines are written whole.                     *)
(***************************************************************************)
EXTENDS Broadcaster

CONSTANTS MaxInodes,  \* bounds the rotations
          MaxLines,   \* bounds the lines of one file
          MaxEmitted, \* bounds the entries ever emitted
          BackfillN   \* how many lines backfill emits of a file

ASSUME TailerAssumption ==
    MaxInodes \in Nat /\ MaxLines \in Nat /\ MaxEmitted \in Nat /\ BackfillN \in Nat

VARIABLES
    size,      \* per inode: its lines
    path,      \* the inode at the path, or 0
    newest,    \* the last inode that came to be
    events,    \* the fsnotify events pending
    missed,    \* the open file changed after the seek, before there was a watch
    pc,        \* where Run and tailOnce are
    fd,        \* the inode that is open, or 0
    pos,       \* how many of its lines are behind the reader
    filling,   \* how many lines backfill has still to emit
    emitted,   \* the entries emitted so far
    cancelled  \* the slot's context is done

fileVars == <<size, path, newest>>
watchVars == <<events, missed>>
tailVars == <<pc, fd, pos, filling, emitted>>
vars == <<bcastVars, fileVars, watchVars, tailVars, cancelled>>

Inodes == 1 .. MaxInodes

TypeOK ==
    /\ BcastTypeOK
    /\ size \in [Inodes -> 0 .. MaxLines]
    /\ path \in Inodes \cup {0}
    /\ newest \in Inodes \cup {0}
    /\ events \in Seq({"write", "gone", "create"})
    /\ missed \in BOOLEAN
    /\ pc \in {"wait", "open", "retry", "fill", "watch", "select", "read",
               "closing", "ended"}
    /\ fd \in Inodes \cup {0}
    /\ pos \in Nat
    /\ filling \in Nat
    /\ emitted \in 0 .. MaxEmitted
    /\ published <= emitted
    /\ cancelled \in BOOLEAN

\* The log of an earlier session may still be there.
Init ==
    /\ BcastInit
    /\ path \in {0, 1} \cap (Inodes \cup {0})
    /\ newest = path
    /\ size \in [Inodes -> 0 .. MaxLines]
    /\ \A i \in Inodes : i # path => size[i] = 0
    /\ events = <<>>
    /\ missed = FALSE
    /\ pc = "wait"
    /\ fd = 0
    /\ pos = 0
    /\ filling = 0
    /\ emitted = 0
    /\ cancelled = FALSE

-----------------------------------------------------------------------------
(***************************************************************************)
(* The JVM and the file system.                                            *)
(***************************************************************************)
\* The watcher exists while tailOnce is in its loop; like events are merged.
Notify(e) ==
    /\ events' = IF pc \notin {"select", "read"} THEN events
                 ELSE IF events # <<>> /\ events[Len(events)] = e THEN events
                 ELSE Append(events, e)
    /\ missed' = (missed \/ (e = "write" /\ pc = "watch" /\ fd = path))

JvmWrites ==
    /\ path # 0
    /\ size[path] < MaxLines
    /\ size' = [size EXCEPT ![path] = @ + 1]
    /\ Notify("write")
    /\ UNCHANGED <<bcastVars, path, newest, tailVars, cancelled>>

LogTruncated ==
    /\ path # 0
    /\ size[path] > 0
    /\ size' = [size EXCEPT ![path] = 0]
    /\ Notify("write")
    /\ UNCHANGED <<bcastVars, path, newest, tailVars, cancelled>>

LogRotatedAway ==
    /\ path # 0
    /\ path' = 0
    /\ Notify("gone")
    /\ UNCHANGED <<bcastVars, size, newest, tailVars, cancelled>>

LogCreated ==
    /\ path = 0
    /\ newest < MaxInodes
    /\ path' = newest + 1
    /\ newest' = newest + 1
    /\ Notify("create")
    /\ UNCHANGED <<bcastVars, size, tailVars, cancelled>>

\* watchExit cancels the slot's context.
Cancel ==
    /\ ~cancelled
    /\ cancelled' = TRUE
    /\ UNCHANGED <<bcastVars, fileVars, watchVars, tailVars>>

-----------------------------------------------------------------------------
(***************************************************************************)
(* Run, tailOnce, backfill and readUntilEOF.                               *)
(***************************************************************************)
\* The tailer's goroutine is not inside emit.
Idle == published = emitted /\ visiting = {}

\* The first half of emit; Publish, the second, is TailPublish.
Emit ==
    /\ Idle
    /\ emitted < MaxEmitted
    /\ emitted' = emitted + 1
    /\ Push(emitted + 1)

TailPublish ==
    /\ published < emitted
    /\ PublishBegin(emitted)
    /\ UNCHANGED <<fileVars, watchVars, tailVars, cancelled>>

TailSend(c) ==
    /\ PublishTo(c)
    /\ UNCHANGED <<fileVars, watchVars, tailVars, cancelled>>

\* A step of Run between two emits.
Step(p) ==
    /\ Idle
    /\ pc' = p
    /\ UNCHANGED <<bcastVars, fileVars, emitted, cancelled>>

FileThere ==
    /\ pc = "wait"
    /\ path # 0
    /\ Step("open")
    /\ UNCHANGED <<watchVars, fd, pos, filling>>

\* Ten seconds without a file, and Run returns.
WaitTimesOut ==
    /\ pc = "wait"
    /\ path = 0
    /\ Step("closing")
    /\ UNCHANGED <<watchVars, fd, pos, filling>>

SeeCancelled ==
    /\ cancelled
    /\ pc \in {"wait", "retry", "select"}
    /\ Step("closing")
    /\ fd' = 0 /\ pos' = 0
    /\ events' = <<>> /\ missed' = FALSE
    /\ UNCHANGED filling

\* Open, and backfill's ReadAll, which skips files over 1 MB.
OpenFile ==
    /\ pc \in {"open", "retry"}
    /\ path # 0
    /\ Step("fill")
    /\ fd' = path
    /\ filling' \in {0, IF size[path] < BackfillN THEN size[path] ELSE BackfillN}
    /\ UNCHANGED <<watchVars, pos>>

OpenFails ==
    /\ pc = "open"
    /\ path = 0
    /\ Step("retry")
    /\ UNCHANGED <<watchVars, fd, pos, filling>>

FillOne ==
    /\ pc = "fill"
    /\ filling > 0
    /\ Emit
    /\ filling' = filling - 1
    /\ UNCHANGED <<fileVars, watchVars, pc, fd, pos, cancelled>>

\* Seek to the end, wherever that is by now.
SeekEnd ==
    /\ pc = "fill"
    /\ filling = 0
    /\ Step("watch")
    /\ pos' = size[fd]
    /\ missed' = FALSE
    /\ UNCHANGED <<events, fd, filling>>

\* w.Add watches what is at the path by now, or fails.
Watch ==
    /\ pc = "watch"
    /\ IF path # 0 THEN Step("select") /\ UNCHANGED <<fd, pos>>
                   ELSE Step("retry") /\ fd' = 0 /\ pos' = 0
    /\ UNCHANGED <<watchVars, filling>>

SeeWrite_NoReset ==
    /\ pc = "select"
    /\ events # <<>> /\ Head(events) = "write"
    /\ Step("read")
    /\ events' = Tail(events) /\ missed' = FALSE
    /\ UNCHANGED <<fd, pos, filling>>

SeeWrite ==
    /\ pc = "select"
    /\ events # <<>> /\ Head(events) = "write"
    /\ Step("read")
    /\ events' = Tail(events) /\ missed' = FALSE
    /\ pos' = IF size[fd] < pos THEN 0 ELSE pos
    /\ UNCHANGED <<fd, filling>>

\* The file was removed, renamed or created anew: reopen it.
SeeRotation ==
    /\ pc = "select"
    /\ events # <<>> /\ Head(events) # "write"
    /\ Step("retry")
    /\ fd' = 0 /\ pos' = 0
    /\ events' = <<>> /\ missed' = FALSE
    /\ UNCHANGED filling

ReadLine_OnePerEvent ==
    /\ pc = "read"
    /\ pos < size[fd]
    /\ Emit
    /\ pos' = pos + 1
    /\ pc' = "select"
    /\ UNCHANGED <<fileVars, watchVars, fd, filling, cancelled>>

ReadLine ==
    /\ pc = "read"
    /\ pos < size[fd]
    /\ Emit
    /\ pos' = pos + 1
    /\ UNCHANGED <<fileVars, watchVars, pc, fd, filling, cancelled>>

ReadEOF ==
    /\ pc = "read"
    /\ pos >= size[fd]
    /\ Step("select")
    /\ UNCHANGED <<watchVars, fd, pos, filling>>

\* The deferred Close of the broadcaster.
RunEnds ==
    /\ pc = "closing"
    /\ Idle
    /\ CloseAll
    /\ pc' = "ended"
    /\ UNCHANGED <<fileVars, watchVars, fd, pos, filling, emitted, cancelled>>

-----------------------------------------------------------------------------
TailStep ==
    \/ TailPublish \/ FileThere \/ SeeCancelled \/ OpenFile \/ OpenFails
    \/ FillOne \/ SeekEnd \/ Watch \/ SeeWrite \/ SeeRotation
    \/ ReadLine \/ ReadEOF \/ RunEnds
    \/ \E c \in Clients : TailSend(c)

Handler(c) == ClientStep(c) /\ UNCHANGED <<fileVars, watchVars, tailVars, cancelled>>

PeerGone(c) == Leave(c) /\ UNCHANGED <<fileVars, watchVars, tailVars, cancelled>>

Next ==
    \/ TailStep \/ WaitTimesOut
    \/ JvmWrites \/ LogTruncated \/ LogRotatedAway \/ LogCreated \/ Cancel
    \/ \E c \in Clients : Handler(c) \/ PeerGone(c)

Spec == Init /\ [][Next]_vars

\* The goroutines run, and a select that finds several channels ready picks
\* one at random, so events do not keep Run from seeing its context done.
Fairness ==
    /\ WF_vars(TailStep)
    /\ SF_vars(SeeCancelled)
    /\ \A c \in Clients : WF_vars(Handler(c))

FairSpec == Spec /\ Fairness

-----------------------------------------------------------------------------
(***************************************************************************)
(* Properties.                                                             *)
(***************************************************************************)
\* Publish never sends on a closed channel (a panic that would end mcsm),
\* whenever subscribers come and go and however the tailer ends.
NoSendOnClosed == visiting \cap closed = {}

\* A client that keeps up misses nothing: unless its channel was full once,
\* what it has received and what is in its channel is every entry published
\* since it subscribed, in order, and nothing of it is older than what the
\* client already has from the backfill or the stream.
CompleteUnlessFull ==
    /\ \A c \in subscribers \ lost :
         LET sent == IF c \in visiting THEN published - 1 ELSE published
         IN  chan[c] = [i \in 1 .. sent + 1 - due[c] |-> due[c] + i - 1]
    /\ \A c \in Clients : chan[c] # <<>> => last[c] <= Head(chan[c])

WriteIsDue == "write" \in {events[i] : i \in 1 .. Len(events)}

\* Whenever the tailer waits with its file not where it left it, there is an
\* event to wake it, although events are merged, handled while others arrive
\* and lines come and go while it reads.  Only what happened between the seek
\* and the watch waits for the next line (tailOnce).
NothingUnnoticed ==
    pc = "select" /\ fd = path /\ pos # size[fd] => missed \/ WriteIsDue

\* So a line written to a file that is open and watched is read without waiting
\* for another.
TailCatchesUp ==
    pc \in {"select", "read"} /\ fd = path /\ ~missed /\ pos < size[fd]
        ~> pc \notin {"select", "read"} \/ fd # path \/ pos >= size[fd] \/ emitted = MaxEmitted

\* Once the slot's context is done every handler that is subscribed while the
\* tailer runs receives what is in its channel, sees the end of it and returns
\* ("until the client disconnects or the slot stops", handleServerLogsStream).
\* One that subscribes after the tailer's Close waits for its peer to go.
ClientsReleased ==
    \A c \in Clients :
        cancelled /\ pc # "ended" /\ client[c] = "live"
            ~> client[c] = "done" \/ emitted = MaxEmitted

=============================================================================
