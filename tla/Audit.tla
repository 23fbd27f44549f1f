-------------------------------- MODULE Audit --------------------------------
(***************************************************************************)
(* audit.Logger: entries get their ids and their place in the ring under   *)
(* the mutex and reach the monthly file outside it, in any order; a boot   *)
(* recovers the next id and the ring from the files; the janitor removes   *)
(* files; and a client of GET /audit pages through what List returns.      *)
(***************************************************************************)
EXTENDS Naturals, Sequences, SequencesExt, FiniteSetsExt

CONSTANTS Kinds,        \* what matches() can tell entries apart by
          RingCap,      \* the entries kept in memory, and the page maximum
          DefaultLimit, \* the page of a query without a limit
          MonthLen,     \* ticks in a month
          Retention,    \* ticks a file is kept after its last write
          MaxId,        \* bounds the ids given
          MaxTime,      \* bounds time
          MaxWriters,   \* bounds the concurrent calls of Append
          MaxBoots,     \* bounds the restarts of mcsm
          All           \* no filter

ASSUME AuditAssumption ==
    /\ {RingCap, DefaultLimit, MonthLen} \subseteq Nat \ {0}
    /\ {Retention, MaxId, MaxTime, MaxWriters, MaxBoots} \subseteq Nat
    /\ All \notin Kinds

VARIABLES
    now,      \* the time
    nextId,   \* l.nextID
    ring,     \* l.ring, oldest first
    writing,  \* entries whose Append has still to write them
    file,     \* per month: the lines of its file
    torn,     \* the months whose file ends within a line
    mtime,    \* per month: when its file was last written, 0 if it has none
    old,      \* the month whose file the running gc is to remove
    firstId,  \* the first id this boot gave
    boots,    \* restarts so far
    query,    \* what the client pages through: a kind, or All
    cursor,   \* the cursor it sends next, 0 when it is not paging
    due,      \* what matched its query when it began, is still in its place in
              \* the ring, and has not been given to it
    doubtful  \* the ids that boots have overlooked

diskVars == <<file, torn, mtime>>
clientVars == <<query, cursor, due>>
vars == <<now, nextId, ring, writing, diskVars, old, firstId, boots, clientVars, doubtful>>

Month(t) == t \div MonthLen
Months == 0 .. Month(MaxTime)
\* At is a nanosecond clock's; boot tells entries of one tick apart.
Entries == [id : 1 .. MaxId, kind : Kinds, at : 0 .. MaxTime, boot : 0 .. MaxBoots]
\* A line that is not JSON.
Garbled == [id |-> 0, kind |-> All, at |-> MaxTime, boot |-> 0]
Readable(line) == line # Garbled

TypeOK ==
    /\ now \in 0 .. MaxTime
    /\ nextId \in 1 .. MaxId + 1
    /\ ring \in Seq(Entries)
    /\ Len(ring) <= RingCap
    /\ writing \subseteq Entries
    /\ file \in [Months -> Seq(Entries \cup {Garbled})]
    /\ torn \subseteq Months
    /\ mtime \in [Months -> 0 .. MaxTime]
    /\ old \subseteq Months /\ Cardinality(old) <= 1
    /\ firstId \in 1 .. MaxId + 1
    /\ boots \in 0 .. MaxBoots
    /\ query \in Kinds \cup {All}
    /\ cursor \in 0 .. MaxId
    /\ due \subseteq Entries
    /\ doubtful \subseteq 1 .. MaxId

Init ==
    /\ now = 0
    /\ nextId = 1
    /\ ring = <<>>
    /\ writing = {}
    /\ file = [m \in Months |-> <<>>]
    /\ torn = {}
    /\ mtime = [m \in Months |-> 0]
    /\ old = {}
    /\ firstId = 1
    /\ boots = 0
    /\ query = All
    /\ cursor = 0
    /\ due = {}
    /\ doubtful = {}

-----------------------------------------------------------------------------
(***************************************************************************)
(* Append.  The middleware calls it after the handler of a mutating        *)
(* request, so any number of calls may be between the mutex and the file.  *)
(***************************************************************************)
Newest(s, n) == SubSeq(s, (IF Len(s) > n THEN Len(s) - n ELSE 0) + 1, Len(s))

appendRing_Overwrites(e) ==
    IF Len(ring) = RingCap THEN Append(Front(ring), e) ELSE Append(ring, e)

appendRing_Grows(e) == Append(ring, e)

appendRing(e) == Newest(Append(ring, e), RingCap)

\* The entries after which there are only newer ones.
InPlace(s) == {s[i] : i \in {k \in DOMAIN s : \A j \in DOMAIN s : k < j => s[k].id < s[j].id}}

AssignId(kind) ==
    /\ nextId <= MaxId
    /\ Cardinality(writing) < MaxWriters
    /\ LET e == [id |-> nextId, kind |-> kind, at |-> now, boot |-> boots]
       IN  /\ ring' = appendRing(e)
           /\ writing' = writing \cup {e}
    /\ nextId' = nextId + 1
    /\ due' = due \cap InPlace(ring')
    /\ UNCHANGED <<now, diskVars, old, firstId, boots, query, cursor, doubtful>>

\* json.Marshal, open with O_APPEND, one Write: a line that follows a torn one
\* becomes part of it.
WriteFile(e) ==
    /\ e \in writing
    /\ LET m == Month(now)
       IN  /\ file' = [file EXCEPT ![m] = IF m \in torn THEN @ ELSE Append(@, e)]
           /\ torn' = torn \ {m}
           /\ mtime' = [mtime EXCEPT ![m] = now]
    /\ writing' = writing \ {e}
    /\ UNCHANGED <<now, nextId, ring, old, firstId, boots, clientVars, doubtful>>

\* The disk fills up within the line; the error is logged only.
WriteTorn(e) ==
    /\ e \in writing
    /\ LET m == Month(now)
       IN  /\ file' = [file EXCEPT ![m] = IF m \in torn THEN @ ELSE Append(@, Garbled)]
           /\ torn' = torn \cup {m}
           /\ mtime' = [mtime EXCEPT ![m] = now]
    /\ writing' = writing \ {e}
    /\ UNCHANGED <<now, nextId, ring, old, firstId, boots, clientVars, doubtful>>

WriteFails(e) ==
    /\ e \in writing
    /\ writing' = writing \ {e}
    /\ UNCHANGED <<now, nextId, ring, diskVars, old, firstId, boots, clientVars, doubtful>>

-----------------------------------------------------------------------------
(***************************************************************************)
(* The janitor: per file Info, then Remove.                                *)
(***************************************************************************)
Expired_FirstWrite(m) == file[m][1].at + Retention < now

Expired(m) == mtime[m] + Retention < now

GcFindsOld(m) ==
    /\ Retention > 0
    /\ old = {}
    /\ file[m] # <<>>
    /\ Expired(m)
    /\ old' = {m}
    /\ UNCHANGED <<now, nextId, ring, writing, diskVars, firstId, boots, clientVars, doubtful>>

GcRemoves(m) ==
    /\ m \in old
    /\ old' = {}
    /\ file' = [file EXCEPT ![m] = <<>>]
    /\ torn' = torn \ {m}
    /\ mtime' = [mtime EXCEPT ![m] = 0]
    /\ UNCHANGED <<now, nextId, ring, writing, firstId, boots, clientVars, doubtful>>

-----------------------------------------------------------------------------
(***************************************************************************)
(* mcsm ends, with calls of Append anywhere, and boots: New.               *)
(***************************************************************************)
\* The ids of the last lines of these months' files.
LastIds(ms) == {Last(file[m]).id : m \in {x \in ms : file[x] # <<>>}}

scanMaxID_CurrentFile == Max(LastIds({Month(now)}) \cup {0})

scanMaxID == Max(LastIds(Months) \cup {0})

\* ring' is what can be read of the last lines of the current file, in order.
backfillRing ==
    LET lines == Newest(file[Month(now)], RingCap)
        read == {i \in DOMAIN lines : Readable(lines[i])}
    IN  \E line \in [1 .. Cardinality(read) -> read] :
            /\ \A i, j \in DOMAIN line : i < j => line[i] < line[j]
            /\ ring' = [i \in DOMAIN line |-> lines[line[i]]]

Lines == UNION {ToSet(file[m]) : m \in Months}

\* The ids on file that are above those of all last lines.
Overlooked ==
    {line.id : line \in {l \in Lines :
        /\ Readable(l)
        /\ \A m \in Months : file[m] # <<>> => Last(file[m]).id < l.id}}

Boot ==
    /\ boots < MaxBoots
    /\ boots' = boots + 1
    /\ nextId' = scanMaxID + 1
    /\ backfillRing
    /\ firstId' = nextId'
    /\ writing' = {}
    /\ old' = {}
    /\ doubtful' = doubtful \cup Overlooked
    /\ due' = due \cap InPlace(ring')
    /\ UNCHANGED <<now, diskVars, query, cursor>>

Tick ==
    /\ now < MaxTime
    /\ now' = now + 1
    /\ UNCHANGED <<nextId, ring, writing, diskVars, old, firstId, boots, clientVars, doubtful>>

-----------------------------------------------------------------------------
(***************************************************************************)
(* List, and a client that pages until it is given no cursor.              *)
(***************************************************************************)
matches(e, q) == q = All \/ e.kind = q

\* handleAudit refuses a limit below 1; 0 is a query without one.
PageSize(limit) == IF limit = 0 THEN DefaultLimit ELSE Min({limit, RingCap})

Older(e, c) == c = 0 \/ e.id < c

Wanted(q, c) == {i \in DOMAIN ring : Older(ring[i], c) /\ matches(ring[i], q)}

List_OldestFirst(q, c, limit) ==
    {i \in Wanted(q, c) : Cardinality({j \in Wanted(q, c) : j < i}) < PageSize(limit)}

\* The places in the ring of what List returns, newest first.
List(q, c, limit) ==
    {i \in Wanted(q, c) : Cardinality({j \in Wanted(q, c) : j > i}) < PageSize(limit)}

\* The page is given, with the id of its last entry as the next cursor; an
\* empty page has none, and the client stops.
Give(page, q, awaited) ==
    LET more == page # {}
    IN  /\ query' = IF more THEN q ELSE All
        /\ cursor' = IF more THEN ring[Min(page)].id ELSE 0
        /\ due' = IF more THEN awaited \ {ring[i] : i \in page} ELSE {}

ListFirst(q, limit) ==
    /\ cursor = 0
    /\ Give(List(q, 0, limit), q, {e \in InPlace(ring) : matches(e, q)})
    /\ UNCHANGED <<now, nextId, ring, writing, diskVars, old, firstId, boots, doubtful>>

ListNext(limit) ==
    /\ cursor # 0
    /\ Give(List(query, cursor, limit), query, due)
    /\ UNCHANGED <<now, nextId, ring, writing, diskVars, old, firstId, boots, doubtful>>

Next ==
    \/ \E k \in Kinds : AssignId(k)
    \/ \E e \in writing : WriteFile(e) \/ WriteTorn(e) \/ WriteFails(e)
    \/ \E m \in Months : GcFindsOld(m) \/ GcRemoves(m)
    \/ Boot
    \/ Tick
    \/ \E q \in Kinds \cup {All}, limit \in 0 .. RingCap + 1 : ListFirst(q, limit)
    \/ \E limit \in 0 .. RingCap + 1 : ListNext(limit)

Spec == Init /\ [][Next]_vars

-----------------------------------------------------------------------------
(***************************************************************************)
(* What must hold.                                                         *)
(***************************************************************************)
Known == {line \in Lines : Readable(line)} \cup ToSet(ring) \cup writing

\* No two of the entries on file, in memory and on their way to the file have
\* one id, and none has an id that is still to be given, through restarts, torn
\* writes, new months and removed files; except for an id on file that a boot
\* overlooked, because it was the last line of no file.  (Concurrent calls of
\* Append, and a line torn, can leave it so.)  Of an id whose line was lost, or
\* removed, nothing is said: it is given again.
IdsUnique ==
    /\ \A d, e \in Known : d.id = e.id => d = e \/ d.id \in doubtful
    /\ \A e \in Known : e.id < nextId \/ e.id \in doubtful

\* The ring has the newest entries of this boot whatever became of their
\* writes, and each of them comes after older ones only, those that the boot
\* has taken from the file included, if it did not overlook them.
RingIsRecent ==
    /\ \A id \in firstId .. nextId - 1 :
           id + RingCap >= nextId => \E e \in ToSet(ring) : e.id = id
    /\ \A i, j \in DOMAIN ring :
           i < j /\ ring[j].boot = boots => ring[i].id < ring[j].id \/ ring[i].id \in doubtful

\* A client that is given no more cursor has been given all that was in the ring
\* when it began, matched, and was not evicted; except for an entry that came to
\* be before an older one in the ring, as a boot's backfill can have it: the
\* cursor, an id, may skip it.  Nothing is said of what is on file only.
PagesComplete == [][cursor # 0 /\ cursor' = 0 => due = {}]_clientVars

Young(line) == Readable(line) /\ line.at + Retention >= now

\* The janitor finds no file old with an entry in it that is younger than the
\* retention, and takes none away, although it removes after it has decided and
\* writes go on.  If the retention is at least a month the file they go to cannot
\* be old; if it is shorter, what is written between the two steps is taken too,
\* and only by such a write is it taken.
GcKeepsYoung ==
    [][/\ \A m \in old' \ old : \A line \in ToSet(file[m]) : ~Young(line)
       /\ \A m \in Months : \A line \in ToSet(file[m]) \ ToSet(file'[m]) :
             Young(line) => Retention < MonthLen /\ mtime[m] + Retention >= now]_vars
=============================================================================
