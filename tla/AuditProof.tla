----------------------------- MODULE AuditProof -----------------------------
(***************************************************************************)
(* Proofs about module Audit: type correctness, what the ids name, what    *)
(* the ring holds, what a client that pages is given and what the janitor  *)
(* removes, for any ring, retention, writers and number of restarts.       *)
(***************************************************************************)
EXTENDS Audit, FiniteSetTheorems, SequenceTheorems, WellFoundedInduction, TLAPS

USE AuditAssumption

-----------------------------------------------------------------------------
(***************************************************************************)
(* Months, extremes of sets of numbers, and ends of sequences.             *)
(***************************************************************************)
LEMMA MonthOf ==
    ASSUME NEW t \in 0 .. MaxTime
    PROVE  Month(t) \in Months
  <1>1. \A a, b \in Nat : a <= b => a \div MonthLen <= b \div MonthLen /\ a \div MonthLen \in Nat
    OBVIOUS
  <1> QED
    BY <1>1 DEF Month, Months

\* A month later it is another month.
LEMMA MonthEnds ==
    ASSUME NEW t \in Nat, NEW u \in Nat, t + MonthLen <= u
    PROVE  Month(t) # Month(u)
  BY DEF Month

LEMMA LeastIn ==
    ASSUME NEW R, IsWellFoundedOn(R, Nat), \A x, y \in Nat : y < x => <<y, x>> \in R,
           NEW T \in SUBSET Nat, T # {}
    PROVE  \E x \in T : \A y \in T : x <= y
  <1>1. PICK x \in T : \A y \in T : <<y, x>> \notin R
    BY WFMin
  <1>2. \A y \in T : ~(y < x)
    BY <1>1
  <1> QED
    BY <1>2

LEMMA Least ==
    ASSUME NEW T \in SUBSET Nat, T # {}
    PROVE  \E x \in T : \A y \in T : x <= y
  <1>1. \A x, y \in Nat : y < x => <<y, x>> \in OpToRel(<, Nat)
    BY Zenon DEF OpToRel
  <1> QED
    BY <1>1, NatLessThanWellFounded, LeastIn, Zenon

LEMMA MinIsLeast ==
    ASSUME NEW T \in SUBSET Nat, T # {}
    PROVE  Min(T) \in T /\ \A y \in T : Min(T) <= y
  BY Least DEF Min

LEMMA MaxIsGreatest ==
    ASSUME NEW n \in Nat, NEW S \in SUBSET (0 .. n), S # {}
    PROVE  Max(S) \in S /\ \A y \in S : y <= Max(S)
  <1> DEFINE T == {n - x : x \in S}
  <1>1. T \subseteq Nat /\ \A x \in S : n - x \in T
    OBVIOUS
  <1>2. PICK m \in T : \A y \in T : m <= y
    <2>1. T # {}
      BY <1>1
    <2> QED
      BY <1>1, <2>1, Least
  <1>3. PICK x \in S : m = n - x
    BY <1>2
  <1>4. \A y \in S : n - x <= n - y
    BY <1>1, <1>2, <1>3
  <1>5. \E z \in S : \A y \in S : z >= y
    BY <1>4
  <1> QED
    BY <1>5 DEF Max

LEMMA FunctionIsSeq ==
    ASSUME NEW S, NEW n \in Nat, NEW f \in [1 .. n -> S]
    PROVE  f \in Seq(S) /\ Len(f) = n
  <1>1. f \in Seq(S)
    BY SeqDef
  <1>2. Len(f) \in Nat /\ 1 .. Len(f) = 1 .. n
    BY <1>1, LenProperties
  <1> QED
    BY <1>1, <1>2

LEMMA NewestEnds ==
    ASSUME NEW S, NEW s \in Seq(S), NEW n \in Nat
    PROVE  /\ Newest(s, n) \in Seq(S)
           /\ Len(Newest(s, n)) = IF Len(s) > n THEN n ELSE Len(s)
           /\ \A i \in 1 .. Len(Newest(s, n)) :
                 /\ Len(s) - Len(Newest(s, n)) + i \in 1 .. Len(s)
                 /\ Newest(s, n)[i] = s[Len(s) - Len(Newest(s, n)) + i]
  <1>1. Len(s) \in Nat
    BY LenProperties
  <1>2. PICK m \in 1 .. Len(s) + 1 : m = (IF Len(s) > n THEN Len(s) - n ELSE 0) + 1
    <2>1. (IF Len(s) > n THEN Len(s) - n ELSE 0) + 1 \in 1 .. Len(s) + 1
      BY <1>1
    <2> QED
      BY <2>1
  <1>3. \A i \in m .. Len(s) : s[i] \in S
    BY <1>1, ElementOfSeq
  <1>4. /\ SubSeq(s, m, Len(s)) \in Seq(S)
        /\ Len(SubSeq(s, m, Len(s))) = IF m <= Len(s) THEN Len(s) - m + 1 ELSE 0
        /\ \A i \in 1 .. Len(s) - m + 1 : SubSeq(s, m, Len(s))[i] = s[m + i - 1]
    <2>1. m \in Int /\ Len(s) \in Int
      BY <1>1
    <2> QED
      BY <1>3, <2>1, SubSeqProperties
  <1>5. Newest(s, n) = SubSeq(s, m, Len(s))
    BY <1>2 DEF Newest
  <1>6. /\ Newest(s, n) \in Seq(S)
        /\ Len(Newest(s, n)) = Len(s) - m + 1
        /\ \A i \in 1 .. Len(s) - m + 1 : Newest(s, n)[i] = s[m + i - 1]
    <2>1. IF m <= Len(s) THEN TRUE ELSE Len(s) - m + 1 = 0
      BY <1>1
    <2> QED
      BY <1>4, <1>5, <2>1
  <1>7. /\ Len(Newest(s, n)) = IF Len(s) > n THEN n ELSE Len(s)
        /\ m = Len(s) - Len(Newest(s, n)) + 1
    BY <1>1, <1>2, <1>6
  <1>8. ASSUME NEW i \in 1 .. Len(Newest(s, n))
        PROVE  /\ Len(s) - Len(Newest(s, n)) + i \in 1 .. Len(s)
               /\ Newest(s, n)[i] = s[Len(s) - Len(Newest(s, n)) + i]
    <2>1. i \in 1 .. Len(s) - m + 1
      BY <1>1, <1>6
    <2>2. m + i - 1 = Len(s) - Len(Newest(s, n)) + i
      BY <1>1, <1>7
    <2>3. m + i - 1 \in 1 .. Len(s)
      BY <1>1, <2>1
    <2> QED
      BY <1>6, <2>1, <2>2, <2>3
  <1> QED
    BY <1>6, <1>7, <1>8

-----------------------------------------------------------------------------
(***************************************************************************)
(* Lines and entries; what a boot recovers; what a page gives.             *)
(***************************************************************************)
LEMMA LineFacts ==
    /\ \A e \in Entries : e.id \in 1 .. MaxId /\ e.at \in 0 .. MaxTime /\ Readable(e)
    /\ Garbled.id = 0 /\ Garbled \notin Entries /\ ~Readable(Garbled)
  <1>1. Garbled.id = 0
    BY DEF Garbled
  <1>2. \A e \in Entries : e.id \in 1 .. MaxId /\ e.at \in 0 .. MaxTime
    BY DEF Entries
  <1> QED
    BY <1>1, <1>2 DEF Readable

LEMMA FileTyped ==
    ASSUME TypeOK, NEW m \in Months
    PROVE  /\ file[m] \in Seq(Entries \cup {Garbled})
           /\ Len(file[m]) \in Nat
           /\ \A i \in 1 .. Len(file[m]) : file[m][i] \in Entries \cup {Garbled}
           /\ ToSet(file[m]) = {file[m][i] : i \in 1 .. Len(file[m])}
  BY LenProperties, ElementOfSeq DEF TypeOK, ToSet

LEMMA EntryTyped ==
    ASSUME NEW e \in Entries
    PROVE  e.id \in Nat \ {0} /\ e.at \in Nat
  <1>1. e.id \in 1 .. MaxId /\ e.at \in 0 .. MaxTime
    BY LineFacts
  <1> QED
    BY <1>1

LEMMA LineTyped ==
    ASSUME TypeOK, NEW m \in Months, NEW line \in ToSet(file[m])
    PROVE  /\ file[m] # <<>>
           /\ line \in Entries \cup {Garbled} /\ line.id \in Nat
           /\ Readable(line) => line \in Entries /\ line.at \in Nat
  <1>1. PICK i \in 1 .. Len(file[m]) : line = file[m][i]
    <2>1. ToSet(file[m]) = {file[m][i] : i \in 1 .. Len(file[m])}
      BY FileTyped, Zenon
    <2> QED
      BY <2>1
  <1>2. line \in Entries \cup {Garbled}
    BY <1>1, FileTyped
  <1>3. file[m] # <<>>
    <2>1. Len(<<>>) = 0
      BY EmptySeq
    <2>2. Len(file[m]) # 0
      BY <1>1, FileTyped
    <2> QED
      BY <2>1, <2>2
  <1>4. Readable(line) => line \in Entries
    BY <1>2, LineFacts
  <1> QED
    BY <1>2, <1>3, <1>4, EntryTyped, LineFacts

LEMMA NumbersTyped ==
    ASSUME TypeOK
    PROVE  /\ now \in Nat /\ nextId \in Nat \ {0} /\ firstId \in Nat \ {0}
           /\ \A m \in Months : mtime[m] \in Nat
  <1>1. now \in 0 .. MaxTime
    BY Zenon DEF TypeOK
  <1>2. nextId \in 1 .. MaxId + 1
    BY Zenon DEF TypeOK
  <1>3. firstId \in 1 .. MaxId + 1
    BY Zenon DEF TypeOK
  <1>4. mtime \in [Months -> 0 .. MaxTime]
    BY Zenon DEF TypeOK
  <1>5. \A m \in Months : mtime[m] \in Nat
    BY <1>4
  <1> QED
    BY <1>1, <1>2, <1>3, <1>5

LEMMA RingTyped ==
    ASSUME TypeOK
    PROVE  /\ Len(ring) \in 0 .. RingCap /\ DOMAIN ring = 1 .. Len(ring)
           /\ \A i \in 1 .. Len(ring) : ring[i] \in Entries
           /\ ToSet(ring) = {ring[i] : i \in 1 .. Len(ring)}
  <1>1. ring \in Seq(Entries) /\ Len(ring) <= RingCap
    BY Zenon DEF TypeOK
  <1> QED
    BY <1>1, LenProperties, ElementOfSeq DEF ToSet

LEMMA OverlookedTyped ==
    ASSUME TypeOK
    PROVE  Overlooked \subseteq 1 .. MaxId
  <1>1. \A l \in Lines : Readable(l) => l \in Entries
    BY LineTyped DEF Lines
  <1> QED
    BY <1>1, LineFacts DEF Overlooked

LEMMA Recovered ==
    ASSUME TypeOK
    PROVE  /\ scanMaxID \in 0 .. MaxId
           /\ \A m \in Months : file[m] # <<>> => Last(file[m]).id <= scanMaxID
  <1>1. \A m \in Months : file[m] # <<>> => Last(file[m]).id \in 0 .. MaxId
    <2>1. ASSUME NEW m \in Months, file[m] # <<>>
          PROVE  Last(file[m]) \in Entries \cup {Garbled}
      <3>1. Len(file[m]) \in 1 .. Len(file[m])
        BY <2>1, FileTyped, EmptySeq
      <3> QED
        BY <3>1, FileTyped DEF Last
    <2> QED
      BY <2>1, LineFacts
  <1>2. LastIds(Months) \cup {0} \subseteq 0 .. MaxId
    BY <1>1 DEF LastIds
  <1>3. \A m \in Months : file[m] # <<>> => Last(file[m]).id \in LastIds(Months)
    BY DEF LastIds
  <1>4. /\ scanMaxID \in LastIds(Months) \cup {0}
        /\ \A y \in LastIds(Months) \cup {0} : y <= scanMaxID
    BY <1>2, MaxIsGreatest DEF scanMaxID
  <1> QED
    BY <1>2, <1>3, <1>4

\* The ring a boot leaves has lines of the current file, in their order.
LEMMA Backfilled ==
    ASSUME TypeOK, backfillRing
    PROVE  /\ ring' \in Seq(Entries)
           /\ Len(ring') <= RingCap
           /\ \E place \in [1 .. Len(ring') -> 1 .. Len(file[Month(now)])] :
                 /\ \A i \in 1 .. Len(ring') : ring'[i] = file[Month(now)][place[i]]
                 /\ \A i, j \in 1 .. Len(ring') : i < j => place[i] < place[j]
  <1> DEFINE f == file[Month(now)]
             lines == Newest(f, RingCap)
             read == {i \in DOMAIN lines : Readable(lines[i])}
  <1>1. /\ f \in Seq(Entries \cup {Garbled}) /\ Len(f) \in Nat
        /\ \A i \in 1 .. Len(f) : f[i] \in Entries \cup {Garbled}
    <2>1. Month(now) \in Months
      BY MonthOf DEF TypeOK
    <2> QED
      BY <2>1, FileTyped
  <1>2. /\ lines \in Seq(Entries \cup {Garbled})
        /\ Len(lines) \in 0 .. RingCap
        /\ \A i \in 1 .. Len(lines) :
              /\ Len(f) - Len(lines) + i \in 1 .. Len(f)
              /\ lines[i] = f[Len(f) - Len(lines) + i]
    <2>1. RingCap \in Nat
      OBVIOUS
    <2> HIDE DEF f
    <2>2. /\ lines \in Seq(Entries \cup {Garbled})
          /\ Len(lines) = IF Len(f) > RingCap THEN RingCap ELSE Len(f)
          /\ \A i \in 1 .. Len(lines) :
                /\ Len(f) - Len(lines) + i \in 1 .. Len(f)
                /\ lines[i] = f[Len(f) - Len(lines) + i]
      BY <1>1, <2>1, NewestEnds
    <2> HIDE DEF lines
    <2>3. Len(lines) \in 0 .. RingCap
      BY <1>1, <2>1, <2>2
    <2> QED
      BY <2>2, <2>3
  <1>3. DOMAIN lines = 1 .. Len(lines)
    BY <1>2, LenProperties
  <1>4. PICK line \in [1 .. Cardinality(read) -> read] :
           /\ \A i, j \in DOMAIN line : i < j => line[i] < line[j]
           /\ ring' = [i \in DOMAIN line |-> lines[line[i]]]
    BY DEF backfillRing
  <1> HIDE DEF f, lines, read
  <1>5. Cardinality(read) \in Nat /\ Cardinality(read) <= RingCap
    <2>1. IsFiniteSet(1 .. Len(lines)) /\ Cardinality(1 .. Len(lines)) = Len(lines)
      <3>1. 1 \in Int /\ Len(lines) \in Int
        BY <1>2
      <3>2. /\ IsFiniteSet(1 .. Len(lines))
            /\ Cardinality(1 .. Len(lines)) = IF 1 > Len(lines) THEN 0 ELSE Len(lines) - 1 + 1
        BY <3>1, FS_Interval
      <3> QED
        BY <1>2, <3>2
    <2>2. read \in SUBSET (1 .. Len(lines))
      BY <1>3 DEF read
    <2>3. IsFiniteSet(read) /\ Cardinality(read) <= Len(lines)
      BY <2>1, <2>2, FS_Subset
    <2> QED
      BY <1>2, <2>3, FS_CardinalityType
  <1>6. \A i \in 1 .. Cardinality(read) :
           /\ line[i] \in 1 .. Len(lines)
           /\ lines[line[i]] \in Entries
    <2>1. ASSUME NEW k \in read PROVE k \in 1 .. Len(lines) /\ lines[k] \in Entries
      <3>1. k \in 1 .. Len(lines) /\ Readable(lines[k])
        BY <1>3 DEF read
      <3>2. lines[k] \in Entries \cup {Garbled}
        BY <1>1, <1>2, <3>1
      <3> QED
        BY <3>1, <3>2, LineFacts
    <2> QED
      BY <1>4, <2>1
  <1>7. /\ ring' = [i \in 1 .. Cardinality(read) |-> lines[line[i]]]
        /\ ring' \in Seq(Entries) /\ Len(ring') = Cardinality(read)
    <2>1. ring' = [i \in 1 .. Cardinality(read) |-> lines[line[i]]]
      BY <1>4
    <2>2. ring' \in [1 .. Cardinality(read) -> Entries]
      BY <1>6, <2>1
    <2>3. Cardinality(read) \in Nat
      BY <1>5
    <2> QED
      BY <2>1, <2>2, <2>3, FunctionIsSeq
  <1>8. \A i \in 1 .. Len(ring') : ring'[i] = lines[line[i]]
    BY <1>7
  <1> DEFINE place == [i \in 1 .. Len(ring') |-> Len(f) - Len(lines) + line[i]]
  <1>9. place \in [1 .. Len(ring') -> 1 .. Len(f)]
    BY <1>2, <1>6, <1>7
  <1>10. \A i \in 1 .. Len(ring') : ring'[i] = f[place[i]]
    BY <1>2, <1>6, <1>7, <1>8
  <1>11. \A i, j \in 1 .. Len(ring') : i < j => place[i] < place[j]
    <2>1. ASSUME NEW i \in 1 .. Len(ring'), NEW j \in 1 .. Len(ring'), i < j
          PROVE  place[i] < place[j]
      <3>0. i \in 1 .. Cardinality(read) /\ j \in 1 .. Cardinality(read)
        BY <1>7
      <3>1. line[i] < line[j] /\ line[i] \in Nat /\ line[j] \in Nat
        <4>1. line[i] \in 1 .. Len(lines) /\ line[j] \in 1 .. Len(lines)
          BY <1>6, <3>0
        <4>2. line[i] < line[j]
          BY <1>4, <2>1, <3>0
        <4>3. Len(lines) \in Nat
          BY <1>2
        <4> QED
          BY <4>1, <4>2, <4>3
      <3>2. /\ place[i] = Len(f) - Len(lines) + line[i]
            /\ place[j] = Len(f) - Len(lines) + line[j]
        OBVIOUS
      <3>3. Len(f) \in Nat /\ Len(lines) \in Nat
        BY <1>1, <1>2
      <3> DEFINE skipped == Len(f) - Len(lines)
      <3>4. skipped \in Int
        BY <3>3
      <3> HIDE DEF skipped
      <3>5. skipped + line[i] < skipped + line[j]
        BY <3>1, <3>4
      <3> QED
        BY <3>2, <3>5, Zenon DEF skipped
    <2> QED
      BY <2>1
  <1> HIDE DEF place
  <1> QED
    BY <1>5, <1>7, <1>9, <1>10, <1>11 DEF f

LEMMA PageGiven ==
    ASSUME TypeOK, NEW q, NEW c, NEW limit \in 0 .. RingCap + 1
    PROVE  LET page == List(q, c, limit)
           IN  /\ page \subseteq Wanted(q, c) /\ Wanted(q, c) \subseteq 1 .. Len(ring)
               /\ page # {} => /\ Min(page) \in page
                               /\ \A i \in page : Min(page) <= i
               /\ PageSize(limit) \in Nat \ {0}
  <1> DEFINE page == List(q, c, limit)
  <1>1. page \subseteq Wanted(q, c) /\ Wanted(q, c) \subseteq 1 .. Len(ring)
    BY RingTyped DEF List, Wanted
  <1>2. page # {} => Min(page) \in page /\ \A i \in page : Min(page) <= i
    <2>1. page \in SUBSET Nat
      BY <1>1, RingTyped
    <2> HIDE DEF page
    <2> QED
      BY <2>1, MinIsLeast
  <1>3. PageSize(limit) \in Nat \ {0}
    <2>1. CASE limit = 0
      BY <2>1 DEF PageSize
    <2>2. CASE limit # 0
      <3>1. {limit, RingCap} \subseteq Nat \ {0} /\ {limit, RingCap} # {}
        BY <2>2
      <3>2. Min({limit, RingCap}) \in {limit, RingCap}
        BY <3>1, MinIsLeast
      <3> QED
        BY <2>2, <3>1, <3>2 DEF PageSize
    <2> QED
      BY <2>1, <2>2
  <1> QED
    BY <1>1, <1>2, <1>3

-----------------------------------------------------------------------------
(***************************************************************************)
(* Types.                                                                  *)
(***************************************************************************)
\* The entry an Append adds, and the ring with it: all that was kept moves one
\* place towards the old end once the ring is full.
LEMMA Appended ==
    ASSUME TypeOK, NEW k \in Kinds, AssignId(k)
    PROVE  LET e == [id |-> nextId, kind |-> k, at |-> now, boot |-> boots]
           IN  /\ e \in Entries
               /\ writing' = writing \cup {e}
               /\ nextId' = nextId + 1 /\ nextId' \in 1 .. MaxId + 1
               /\ ring' \in Seq(Entries)
               /\ Len(ring') \in 1 .. RingCap
               /\ Len(ring') = IF Len(ring) = RingCap THEN RingCap ELSE Len(ring) + 1
               /\ ring'[Len(ring')] = e
               /\ \A i \in 1 .. Len(ring') - 1 :
                     /\ Len(ring) + 1 - Len(ring') + i \in 1 .. Len(ring)
                     /\ ring'[i] = ring[Len(ring) + 1 - Len(ring') + i]
  <1> DEFINE e == [id |-> nextId, kind |-> k, at |-> now, boot |-> boots]
             longer == Append(ring, e)
  <1>1. e \in Entries
    BY DEF TypeOK, Entries, AssignId
  <1>2. /\ ring' = Newest(longer, RingCap) /\ writing' = writing \cup {e}
        /\ nextId' = nextId + 1 /\ nextId <= MaxId
    BY DEF AssignId, appendRing
  <1> HIDE DEF e
  <1>3. /\ longer \in Seq(Entries) /\ Len(longer) = Len(ring) + 1
        /\ longer[Len(ring) + 1] = e
        /\ \A i \in 1 .. Len(ring) : longer[i] = ring[i]
    BY <1>1, AppendProperties DEF TypeOK
  <1> HIDE DEF longer
  <1>4. RingCap \in Nat \ {0} /\ Len(ring) \in 0 .. RingCap
    BY RingTyped
  <1>5. /\ ring' \in Seq(Entries)
        /\ Len(ring') = IF Len(longer) > RingCap THEN RingCap ELSE Len(longer)
        /\ \A i \in 1 .. Len(ring') :
              /\ Len(longer) - Len(ring') + i \in 1 .. Len(longer)
              /\ ring'[i] = longer[Len(longer) - Len(ring') + i]
    <2>1. RingCap \in Nat
      BY <1>4
    <2>2. /\ Newest(longer, RingCap) \in Seq(Entries)
          /\ Len(Newest(longer, RingCap)) = IF Len(longer) > RingCap THEN RingCap ELSE Len(longer)
          /\ \A i \in 1 .. Len(Newest(longer, RingCap)) :
                /\ Len(longer) - Len(Newest(longer, RingCap)) + i \in 1 .. Len(longer)
                /\ Newest(longer, RingCap)[i] = longer[Len(longer) - Len(Newest(longer, RingCap)) + i]
      <3>1. longer \in Seq(Entries)
        BY <1>3
      <3>2. ASSUME NEW s \in Seq(Entries), NEW n \in Nat
            PROVE  /\ Newest(s, n) \in Seq(Entries)
                   /\ Len(Newest(s, n)) = IF Len(s) > n THEN n ELSE Len(s)
                   /\ \A i \in 1 .. Len(Newest(s, n)) :
                         /\ Len(s) - Len(Newest(s, n)) + i \in 1 .. Len(s)
                         /\ Newest(s, n)[i] = s[Len(s) - Len(Newest(s, n)) + i]
        BY NewestEnds
      <3> QED
        BY <2>1, <3>1, <3>2, Zenon
    <2> QED
      BY <1>2, <2>2, Zenon
  <1>6. /\ Len(ring') \in 1 .. RingCap
        /\ Len(ring') = IF Len(ring) = RingCap THEN RingCap ELSE Len(ring) + 1
    BY <1>3, <1>4, <1>5
  <1>7. ring'[Len(ring')] = e
    <2>1. Len(ring') \in 1 .. Len(ring') /\ Len(longer) - Len(ring') + Len(ring') = Len(ring) + 1
      BY <1>3, <1>4, <1>6
    <2>2. ring'[Len(ring')] = longer[Len(longer) - Len(ring') + Len(ring')]
      BY <1>5, <2>1
    <2> QED
      BY <1>3, <2>1, <2>2
  <1>8. ASSUME NEW i \in 1 .. Len(ring') - 1
        PROVE  /\ Len(ring) + 1 - Len(ring') + i \in 1 .. Len(ring)
               /\ ring'[i] = ring[Len(ring) + 1 - Len(ring') + i]
    <2>1. i \in 1 .. Len(ring') /\ Len(ring) + 1 - Len(ring') + i \in 1 .. Len(ring)
      BY <1>4, <1>6
    <2>2. ring'[i] = longer[Len(ring) + 1 - Len(ring') + i]
      <3>1. Len(longer) = Len(ring) + 1
        BY <1>3
      <3>2. ring'[i] = longer[Len(longer) - Len(ring') + i]
        BY <1>5, <2>1
      <3> QED
        BY <3>1, <3>2
    <2> QED
      BY <1>3, <2>1, <2>2
  <1>9. nextId' \in 1 .. MaxId + 1
    BY <1>2 DEF TypeOK
  <1> QED
    BY <1>1, <1>2, <1>5, <1>6, <1>7, <1>8, <1>9 DEF e

LEMMA WriteTyped ==
    ASSUME TypeOK, NEW e \in writing, WriteFile(e) \/ WriteTorn(e)
    PROVE  TypeOK'
  <1>1. now \in 0 .. MaxTime /\ e \in Entries
    BY DEF TypeOK
  <1>2. Month(now) \in Months
    BY <1>1, MonthOf
  <1>3. \A line \in Entries \cup {Garbled} :
           Append(file[Month(now)], line) \in Seq(Entries \cup {Garbled})
    BY <1>2, FileTyped, AppendProperties
  <1>4. file' \in [Months -> Seq(Entries \cup {Garbled})]
    <2>1. file \in [Months -> Seq(Entries \cup {Garbled})]
      BY DEF TypeOK
    <2>2. \E s \in Seq(Entries \cup {Garbled}) : file' = [file EXCEPT ![Month(now)] = s]
      <3>1. file[Month(now)] \in Seq(Entries \cup {Garbled})
        BY <1>2, <2>1
      <3>2. \E line \in Entries \cup {Garbled} :
               \/ file' = [file EXCEPT ![Month(now)] = file[Month(now)]]
               \/ file' = [file EXCEPT ![Month(now)] = Append(file[Month(now)], line)]
        BY <1>1 DEF WriteFile, WriteTorn
      <3> QED
        BY <1>3, <3>1, <3>2
    <2> QED
      BY <2>1, <2>2
  <1>5. torn' \subseteq Months /\ mtime' \in [Months -> 0 .. MaxTime] /\ writing' \subseteq Entries
    BY <1>1, <1>2 DEF WriteFile, WriteTorn, TypeOK
  <1> QED
    BY <1>4, <1>5 DEF WriteFile, WriteTorn, TypeOK, clientVars

LEMMA BootTyped ==
    ASSUME TypeOK, Boot
    PROVE  TypeOK'
  <1>1. ring' \in Seq(Entries) /\ Len(ring') <= RingCap
    BY Backfilled DEF Boot
  <1>2. nextId' \in 1 .. MaxId + 1
    BY Recovered DEF Boot
  <1>3. old' \subseteq Months /\ Cardinality(old') <= 1
    BY FS_EmptySet DEF Boot
  <1>4. /\ due' \subseteq Entries /\ doubtful' \subseteq 1 .. MaxId /\ writing' \subseteq Entries
        /\ boots' \in 0 .. MaxBoots
    <2>1. due \subseteq Entries /\ doubtful \subseteq 1 .. MaxId /\ boots \in 0 .. MaxBoots
      BY Zenon DEF TypeOK
    <2>2. boots' \in 0 .. MaxBoots
      BY <2>1 DEF Boot
    <2>3. doubtful' \subseteq 1 .. MaxId
      BY <2>1, OverlookedTyped, Zenon DEF Boot
    <2> QED
      BY <2>1, <2>2, <2>3 DEF Boot
  <1>5. UNCHANGED <<now, file, torn, mtime, query, cursor>> /\ firstId' = nextId'
    BY DEF Boot, diskVars
  <1> QED
    BY <1>1, <1>2, <1>3, <1>4, <1>5 DEF TypeOK

LEMMA ListTyped ==
    ASSUME TypeOK, NEW limit \in 0 .. RingCap + 1,
           ListNext(limit) \/ \E q \in Kinds \cup {All} : ListFirst(q, limit)
    PROVE  TypeOK'
  <1>1. ASSUME NEW q \in Kinds \cup {All}, NEW c, NEW awaited \in SUBSET Entries,
               Give(List(q, c, limit), q, awaited)
        PROVE  query' \in Kinds \cup {All} /\ cursor' \in 0 .. MaxId /\ due' \subseteq Entries
    <2>1. List(q, c, limit) # {} => Min(List(q, c, limit)) \in 1 .. Len(ring)
      BY PageGiven
    <2>2. List(q, c, limit) # {} => ring[Min(List(q, c, limit))].id \in 0 .. MaxId
      BY <2>1, RingTyped, LineFacts
    <2> QED
      BY <1>1, <2>2 DEF Give
  <1>2. CASE ListNext(limit)
    <2>1. query \in Kinds \cup {All} /\ due \in SUBSET Entries
          /\ Give(List(query, cursor, limit), query, due)
      BY <1>2 DEF ListNext, TypeOK
    <2>2. query' \in Kinds \cup {All} /\ cursor' \in 0 .. MaxId /\ due' \subseteq Entries
      BY <1>1, <2>1
    <2> QED
      BY <1>2, <2>2 DEF ListNext, TypeOK, diskVars
  <1>3. ASSUME NEW q \in Kinds \cup {All}, ListFirst(q, limit)
        PROVE  TypeOK'
    <2>1. {e \in InPlace(ring) : matches(e, q)} \in SUBSET Entries
      BY RingTyped DEF InPlace
    <2>2. query' \in Kinds \cup {All} /\ cursor' \in 0 .. MaxId /\ due' \subseteq Entries
      BY <1>1, <1>3, <2>1 DEF ListFirst
    <2> QED
      BY <1>3, <2>2 DEF ListFirst, TypeOK, diskVars
  <1> QED
    BY <1>2, <1>3

LEMMA NextTyped ==
    ASSUME TypeOK, [Next]_vars
    PROVE  TypeOK'
  <1>1. ASSUME NEW k \in Kinds, AssignId(k) PROVE TypeOK'
    <2>1. /\ ring' \in Seq(Entries) /\ Len(ring') <= RingCap /\ nextId' \in 1 .. MaxId + 1
      <3>1. ring' \in Seq(Entries) /\ Len(ring') \in 1 .. RingCap /\ nextId' \in 1 .. MaxId + 1
        BY <1>1, Appended
      <3> QED
        BY <3>1
    <2>2. writing' \subseteq Entries
      <3>1. writing \subseteq Entries
        BY Zenon DEF TypeOK
      <3>2. \E e \in Entries : writing' = writing \cup {e}
        BY <1>1, Appended
      <3> QED
        BY <3>1, <3>2
    <2> QED
      BY <1>1, <2>1, <2>2 DEF AssignId, TypeOK, diskVars
  <1>2. ASSUME NEW e \in writing, WriteFails(e) PROVE TypeOK'
    BY <1>2 DEF WriteFails, TypeOK, diskVars, clientVars
  <1>3. ASSUME NEW m \in Months, GcFindsOld(m) \/ GcRemoves(m) PROVE TypeOK'
    <2>1. old' \subseteq Months /\ Cardinality(old') <= 1
      <3>1. old' = {} \/ old' = {m}
        BY <1>3 DEF GcFindsOld, GcRemoves
      <3>2. Cardinality({}) = 0 /\ Cardinality({m}) = 1
        BY FS_EmptySet, FS_Singleton
      <3> QED
        BY <3>1, <3>2
    <2>2. <<>> \in Seq(Entries \cup {Garbled}) /\ 0 \in 0 .. MaxTime
      BY EmptySeq
    <2>3. /\ file' \in [Months -> Seq(Entries \cup {Garbled})]
          /\ torn' \subseteq Months /\ mtime' \in [Months -> 0 .. MaxTime]
      BY <1>3, <2>2 DEF GcFindsOld, GcRemoves, TypeOK, diskVars
    <2> QED
      BY <1>3, <2>1, <2>3 DEF GcFindsOld, GcRemoves, TypeOK, clientVars
  <1>4. CASE Tick
    <2>1. now' \in 0 .. MaxTime
      <3>1. now' = now + 1 /\ now < MaxTime
        BY <1>4 DEF Tick
      <3> QED
        BY <3>1, NumbersTyped
    <2>2. UNCHANGED <<nextId, ring, writing, file, torn, mtime, old, firstId, boots, query,
                      cursor, due, doubtful>>
      BY <1>4 DEF Tick, diskVars, clientVars
    <2> HIDE <1>4
    <2> QED
      BY <2>1, <2>2, Zenon DEF TypeOK
  <1>5. CASE UNCHANGED vars
    BY <1>5 DEF vars, TypeOK, diskVars, clientVars
  <1> QED
    BY <1>1, <1>2, <1>3, <1>4, <1>5, WriteTyped, BootTyped, ListTyped DEF Next

\* Every variable keeps its type: the ring never outgrows its capacity
\* (appendRingLocked, backfillRing) and the gc has one file at a time.
THEOREM AuditTypeCorrect == Spec => []TypeOK
  <1>1. Init => TypeOK
    <2> SUFFICES ASSUME Init PROVE TypeOK
      OBVIOUS
    <2>1. ring \in Seq(Entries) /\ Len(ring) <= RingCap
      BY EmptySeq DEF Init
    <2>2. file \in [Months -> Seq(Entries \cup {Garbled})]
      BY EmptySeq DEF Init
    <2>3. old \subseteq Months /\ Cardinality(old) <= 1
      BY FS_EmptySet DEF Init
    <2>4. mtime \in [Months -> 0 .. MaxTime]
      BY DEF Init
    <2>5. /\ now \in 0 .. MaxTime /\ nextId \in 1 .. MaxId + 1 /\ firstId \in 1 .. MaxId + 1
          /\ boots \in 0 .. MaxBoots /\ cursor \in 0 .. MaxId
      BY DEF Init
    <2>6. /\ writing \subseteq Entries /\ torn \subseteq Months /\ due \subseteq Entries
          /\ query \in Kinds \cup {All} /\ doubtful \subseteq 1 .. MaxId
      BY DEF Init
    <2> QED
      BY <2>1, <2>2, <2>3, <2>4, <2>5, <2>6 DEF TypeOK
  <1> QED
    BY <1>1, NextTyped, PTL DEF Spec

-----------------------------------------------------------------------------
(***************************************************************************)
(* The janitor.  A file belongs to the month of its last write, which is   *)
(* not before the entries in it; so, if the retention is at least a month, *)
(* the file the gc has found is that of a month gone by, and no write      *)
(* reaches it any more.                                                    *)
(***************************************************************************)
Dated ==
    /\ \A m \in Months : file[m] # <<>> => mtime[m] <= now /\ Month(mtime[m]) = m
    /\ \A m \in Months : \A line \in ToSet(file[m]) : Readable(line) => line.at <= mtime[m]
    /\ \A e \in writing : e.at <= now
    /\ \A m \in old : Retention >= MonthLen => file[m] # <<>> /\ mtime[m] + Retention < now

LEMMA ToSetAppend ==
    ASSUME NEW S, NEW s \in Seq(S), NEW x \in S
    PROVE  ToSet(Append(s, x)) = ToSet(s) \cup {x}
  <1>1. /\ Append(s, x) \in Seq(S) /\ Len(Append(s, x)) = Len(s) + 1 /\ Len(s) \in Nat
        /\ \A i \in 1 .. Len(s) : Append(s, x)[i] = s[i]
        /\ Append(s, x)[Len(s) + 1] = x
    BY AppendProperties, LenProperties
  <1>2. DOMAIN Append(s, x) = 1 .. Len(s) + 1 /\ DOMAIN s = 1 .. Len(s)
    BY <1>1, LenProperties
  <1>3. 1 .. Len(s) + 1 = (1 .. Len(s)) \cup {Len(s) + 1}
    BY <1>1
  <1> QED
    BY <1>1, <1>2, <1>3 DEF ToSet

\* The file and the time of a write; the other months' are left alone.
LEMMA Written ==
    ASSUME TypeOK, NEW e \in writing, WriteFile(e) \/ WriteTorn(e)
    PROVE  LET m == Month(now)
           IN  /\ m \in Months /\ e \in Entries /\ e.at \in Nat
               /\ \A n \in Months \ {m} : file'[n] = file[n] /\ mtime'[n] = mtime[n]
               /\ mtime'[m] = now
               /\ \/ file'[m] = file[m]
                  \/ \E line \in {e, Garbled} :
                        /\ file'[m] = Append(file[m], line)
                        /\ ToSet(file'[m]) = ToSet(file[m]) \cup {line}
               /\ writing' = writing \ {e}
               /\ UNCHANGED <<now, old, nextId, ring, boots, doubtful>>
  <1> DEFINE m == Month(now)
  <1>1. m \in Months /\ e \in Entries /\ e.at \in Nat
    BY MonthOf, EntryTyped DEF TypeOK
  <1> HIDE DEF m
  <1>2. file \in [Months -> Seq(Entries \cup {Garbled})] /\ mtime \in [Months -> 0 .. MaxTime]
    BY DEF TypeOK
  <1>3. /\ mtime' = [mtime EXCEPT ![m] = now] /\ writing' = writing \ {e}
        /\ UNCHANGED <<now, old, nextId, ring, boots, doubtful>>
        /\ \/ file' = [file EXCEPT ![m] = file[m]]
           \/ \E line \in {e, Garbled} : file' = [file EXCEPT ![m] = Append(file[m], line)]
    BY DEF WriteFile, WriteTorn, m
  <1>4. \A line \in {e, Garbled} : ToSet(Append(file[m], line)) = ToSet(file[m]) \cup {line}
    BY <1>1, FileTyped, ToSetAppend
  <1>5. \A n \in Months \ {m} : file'[n] = file[n] /\ mtime'[n] = mtime[n]
    BY <1>1, <1>2, <1>3
  <1>6. mtime'[m] = now
    BY <1>1, <1>2, <1>3
  <1>7. \/ file'[m] = file[m]
        \/ \E line \in {e, Garbled} : file'[m] = Append(file[m], line)
    BY <1>1, <1>2, <1>3
  <1> QED
    BY <1>1, <1>3, <1>4, <1>5, <1>6, <1>7 DEF m

\* If the retention is at least a month, the month that is written to is not the
\* one the gc is to remove.
LEMMA OldIsPast ==
    ASSUME TypeOK, Dated, Retention >= MonthLen
    PROVE  Month(now) \notin old
  <1> SUFFICES ASSUME Month(now) \in old PROVE FALSE
    OBVIOUS
  <1> DEFINE m == Month(now)
  <1>1. m \in Months /\ file[m] # <<>> /\ mtime[m] + Retention < now /\ Month(mtime[m]) = m
    BY DEF TypeOK, Dated
  <1>2. mtime[m] \in Nat /\ now \in Nat
    BY <1>1 DEF TypeOK
  <1>3. mtime[m] + MonthLen <= now
    BY <1>1, <1>2
  <1> QED
    BY <1>1, <1>2, <1>3, MonthEnds

LEMMA NextDated ==
    ASSUME TypeOK, Dated, [Next]_vars
    PROVE  Dated'
  <1>0. now \in Nat /\ \A m \in Months : mtime[m] \in Nat
    BY DEF TypeOK
  <1>1. ASSUME NEW e \in writing, WriteFile(e) \/ WriteTorn(e) PROVE Dated'
    <2> DEFINE m == Month(now)
    <2>1. /\ m \in Months /\ e \in Entries /\ e.at \in Nat
          /\ \A n \in Months \ {m} : file'[n] = file[n] /\ mtime'[n] = mtime[n]
          /\ mtime'[m] = now
          /\ \/ file'[m] = file[m]
             \/ \E line \in {e, Garbled} : ToSet(file'[m]) = ToSet(file[m]) \cup {line}
          /\ writing' = writing \ {e}
          /\ UNCHANGED <<now, old>>
      BY <1>1, Written
    <2>2. Retention >= MonthLen => m \notin old
      BY OldIsPast
    <2>3. \A n \in Months : file'[n] # <<>> => mtime'[n] <= now' /\ Month(mtime'[n]) = n
      BY <1>0, <2>1 DEF Dated
    <2>4. ASSUME NEW n \in Months, NEW line \in ToSet(file'[n]), Readable(line)
          PROVE  line.at <= mtime'[n]
      <3>1. CASE n # m
        BY <2>1, <2>4, <3>1 DEF Dated
      <3>2. CASE n = m
        <4>1. line \in ToSet(file[m]) \cup {e}
          BY <2>1, <2>4, <3>2, LineFacts
        <4>2. CASE line = e
          BY <2>1, <3>2, <4>2 DEF Dated
        <4>3. CASE line \in ToSet(file[m])
          <5>1. file[m] # <<>>
            BY <2>1, <4>3, LineTyped
          <5>2. line.at <= mtime[m] /\ mtime[m] <= now
            BY <2>1, <2>4, <4>3, <5>1 DEF Dated
          <5>3. line.at \in Nat
            BY <2>1, <2>4, <4>3, LineTyped
          <5> QED
            BY <1>0, <2>1, <3>2, <5>2, <5>3
        <4> QED
          BY <4>1, <4>2, <4>3
      <3> QED
        BY <3>1, <3>2
    <2>5. \A n \in old' :
             Retention >= MonthLen => file'[n] # <<>> /\ mtime'[n] + Retention < now'
      BY <2>1, <2>2 DEF Dated, TypeOK
    <2>6. \A d \in writing' : d.at <= now'
      BY <2>1 DEF Dated
    <2> QED
      BY <2>3, <2>4, <2>5, <2>6 DEF Dated
  <1>2. ASSUME NEW k \in Kinds, AssignId(k) PROVE Dated'
    <2>1. PICK e \in Entries : writing' = writing \cup {e} /\ e.at = now
      BY <1>2, Appended
    <2> QED
      BY <1>0, <1>2, <2>1 DEF AssignId, Dated, diskVars
  <1>3. ASSUME NEW m \in Months, GcFindsOld(m) PROVE Dated'
    BY <1>3 DEF GcFindsOld, Expired, Dated, diskVars
  <1>4. ASSUME NEW m \in Months, GcRemoves(m) PROVE Dated'
    <2>1. \A n \in Months \ {m} : file'[n] = file[n] /\ mtime'[n] = mtime[n]
      BY <1>4 DEF GcRemoves, TypeOK
    <2>2. file'[m] = <<>> /\ ToSet(file'[m]) = {}
      BY <1>4 DEF GcRemoves, TypeOK, ToSet
    <2>3. old' = {} /\ UNCHANGED <<now, writing>>
      BY <1>4 DEF GcRemoves
    <2> QED
      BY <2>1, <2>2, <2>3 DEF Dated
  <1>5. CASE Boot
    BY <1>5 DEF Boot, Dated, diskVars
  <1>6. CASE Tick
    <2>1. now' = now + 1 /\ UNCHANGED <<writing, file, mtime, old>>
      BY <1>6 DEF Tick, diskVars
    <2>2. \A e \in writing : e.at \in Nat
      BY LineFacts DEF TypeOK
    <2>3. \A m \in old : m \in Months
      BY DEF TypeOK
    <2> QED
      BY <1>0, <2>1, <2>2, <2>3 DEF Dated
  <1>7. CASE /\ UNCHANGED <<now, diskVars, old>>
             /\ writing' \subseteq writing
    BY <1>7 DEF Dated, diskVars
  <1> QED
    BY <1>1, <1>2, <1>3, <1>4, <1>5, <1>6, <1>7
       DEF Next, WriteFails, ListFirst, ListNext, vars

\* The gc finds no file old that has an entry younger than the retention, and
\* removes no such entry, although it looks at the age of a file before it removes
\* it and writes go on, unless the retention is shorter than a month and a write
\* came between the two (gc).
THEOREM JanitorKeepsYoung == Spec => GcKeepsYoung
  <1>1. Init => Dated
    BY DEF Init, Dated, ToSet
  <1> DEFINE Found == \A m \in old' \ old : \A line \in ToSet(file[m]) : ~Young(line)
             Taken == \A m \in Months : \A line \in ToSet(file[m]) \ ToSet(file'[m]) :
                         Young(line) => Retention < MonthLen /\ mtime[m] + Retention >= now
  <1>2. ASSUME TypeOK, Dated, NEW m \in Months, NEW line \in ToSet(file[m]),
               mtime[m] + Retention < now
        PROVE  ~Young(line)
    <2> SUFFICES ASSUME Readable(line) PROVE line.at + Retention < now
      BY <1>2, LineTyped, NumbersTyped DEF Young
    <2>1. line.at \in Nat /\ mtime[m] \in Nat /\ now \in Nat /\ Retention \in Nat
      <3>1. line.at \in Nat
        BY <1>2, LineTyped
      <3>2. mtime[m] \in Nat /\ now \in Nat
        BY <1>2, NumbersTyped
      <3> QED
        BY <3>1, <3>2
    <2>2. line.at <= mtime[m]
      BY <1>2 DEF Dated
    <2> QED
      BY <1>2, <2>1, <2>2
  <1>3. ASSUME TypeOK, Dated, Next
        PROVE  Found
    <2> SUFFICES ASSUME NEW m \in old' \ old, NEW line \in ToSet(file[m])
                 PROVE  ~Young(line)
      OBVIOUS
    <2>1. PICK n \in Months : GcFindsOld(n)
      <3>1. ASSUME NEW e \in writing, WriteFile(e) \/ WriteTorn(e) PROVE FALSE
        BY <3>1 DEF WriteFile, WriteTorn
      <3> QED
        BY <1>3, <3>1 DEF Next, AssignId, WriteFails, GcRemoves, Boot, Tick, ListFirst, ListNext
    <2>2. m \in Months /\ mtime[m] + Retention < now
      BY <2>1 DEF GcFindsOld, Expired
    <2> QED
      BY <1>2, <1>3, <2>2
  <1>4. ASSUME TypeOK, Dated, Next
        PROVE  Taken
    <2> SUFFICES ASSUME NEW m \in Months, NEW line \in ToSet(file[m]) \ ToSet(file'[m]),
                        Young(line)
                 PROVE  Retention < MonthLen /\ mtime[m] + Retention >= now
      OBVIOUS
    <2>1. GcRemoves(m)
      <3>1. ASSUME NEW e \in writing, WriteFile(e) \/ WriteTorn(e) PROVE FALSE
        <4>1. \/ file'[m] = file[m]
              \/ \E l : ToSet(file'[m]) = ToSet(file[m]) \cup {l}
          BY <1>4, <3>1, Written
        <4> QED
          BY <4>1
      <3>2. file' = file \/ \E n \in Months : GcRemoves(n)
        BY <1>4, <3>1 DEF Next, AssignId, WriteFails, GcFindsOld, Boot, Tick, ListFirst, ListNext,
           diskVars
      <3>3. PICK n \in Months : GcRemoves(n)
        BY <3>2
      <3>4. n = m
        BY <1>4, <3>3 DEF GcRemoves, TypeOK
      <3> QED
        BY <3>3, <3>4
    <2>2. ~(mtime[m] + Retention < now)
      BY <1>2, <1>4
    <2>3. ~(Retention >= MonthLen)
      BY <1>4, <2>1, <2>2 DEF Dated, GcRemoves
    <2>4. mtime[m] \in Nat /\ now \in Nat
      BY <1>4, NumbersTyped
    <2> QED
      BY <2>2, <2>3, <2>4
  <1>5. ASSUME TypeOK, Dated, [Next]_vars
        PROVE  [Found /\ Taken]_vars
    BY <1>3, <1>4, <1>5
  <1> QED
    BY <1>1, <1>5, AuditTypeCorrect, NextDated, PTL DEF Spec, GcKeepsYoung

-----------------------------------------------------------------------------
(***************************************************************************)
(* Ids.  They are below the next one; a boot recovers it from the last     *)
(* lines, and the ids above them all are the overlooked ones.              *)
(***************************************************************************)
LEMMA KnownAreEntries ==
    ASSUME TypeOK
    PROVE  Known \subseteq Entries
  <1>1. \A m \in Months : \A line \in ToSet(file[m]) : Readable(line) => line \in Entries
    BY LineTyped
  <1>2. ToSet(ring) \subseteq Entries
    BY RingTyped
  <1> QED
    BY <1>1, <1>2 DEF Known, Lines, TypeOK

\* What a boot recovers is on file.
LEMMA BootKnown ==
    ASSUME TypeOK, Boot
    PROVE  Known' \subseteq Known /\ Known' \subseteq Lines
  <1>1. file' = file /\ writing' = {} /\ backfillRing
    BY DEF Boot, diskVars
  <1>2. ToSet(ring') \subseteq {line \in Lines : Readable(line)}
    <2> SUFFICES ASSUME NEW e \in ToSet(ring') PROVE e \in Lines /\ Readable(e)
      OBVIOUS
    <2>1. /\ ring' \in Seq(Entries)
          /\ \A i \in 1 .. Len(ring') : \E l \in 1 .. Len(file[Month(now)]) :
                ring'[i] = file[Month(now)][l]
      BY <1>1, Backfilled
    <2>2. PICK i \in 1 .. Len(ring') : e = ring'[i]
      BY <2>1, LenProperties DEF ToSet
    <2>3. e \in Entries
      BY <2>1, <2>2, ElementOfSeq
    <2>4. Month(now) \in Months
      BY MonthOf DEF TypeOK
    <2>5. e \in ToSet(file[Month(now)])
      BY <2>1, <2>2, <2>4, FileTyped
    <2> QED
      BY <2>3, <2>4, <2>5, LineFacts DEF Lines
  <1> QED
    BY <1>1, <1>2 DEF Known, Lines

\* What a boot recovers is below the next id, or overlooked.
LEMMA BootCovers ==
    ASSUME TypeOK, Boot, NEW e \in Known'
    PROVE  e.id < nextId' \/ e.id \in doubtful'
  <1>1. e \in Lines /\ e \in Known
    BY BootKnown
  <1>2. e \in Entries /\ e.id \in Nat
    BY <1>1, KnownAreEntries, EntryTyped
  <1>3. nextId' = scanMaxID + 1 /\ doubtful' = doubtful \cup Overlooked /\ scanMaxID \in Nat
    BY Recovered DEF Boot
  <1>4. CASE \E m \in Months : file[m] # <<>> /\ ~(Last(file[m]).id < e.id)
    <2>1. PICK m \in Months : file[m] # <<>> /\ ~(Last(file[m]).id < e.id)
      BY <1>4
    <2>2. Last(file[m]) \in ToSet(file[m])
      <3>1. Len(file[m]) \in 1 .. Len(file[m])
        BY <2>1, FileTyped, EmptySeq
      <3>2. ToSet(file[m]) = {file[m][j] : j \in 1 .. Len(file[m])}
        BY FileTyped, Zenon
      <3> QED
        BY <3>1, <3>2 DEF Last
    <2>3. Last(file[m]).id \in Nat /\ Last(file[m]).id <= scanMaxID
      BY <2>1, <2>2, LineTyped, Recovered
    <2> QED
      BY <1>2, <1>3, <2>1, <2>3
  <1>5. CASE \A m \in Months : file[m] # <<>> => Last(file[m]).id < e.id
    <2>1. e.id \in Overlooked
      BY <1>1, <1>2, <1>5, LineFacts DEF Overlooked
    <2> QED
      BY <1>3, <2>1
  <1> QED
    BY <1>4, <1>5

LEMMA StepKnown ==
    ASSUME TypeOK, [Next]_vars
    PROVE  \/ Known' \subseteq Known /\ UNCHANGED <<nextId, boots, doubtful>>
           \/ \E e \in Entries : /\ Known' \subseteq Known \cup {e} /\ e.id = nextId /\ e.boot = boots
                                /\ nextId' = nextId + 1 /\ UNCHANGED <<boots, doubtful>>
           \/ Boot
  <1>1. ASSUME NEW k \in Kinds, AssignId(k)
        PROVE  \E e \in Entries : /\ Known' \subseteq Known \cup {e} /\ e.id = nextId /\ e.boot = boots
                                 /\ nextId' = nextId + 1 /\ UNCHANGED <<boots, doubtful>>
    <2> DEFINE e == [id |-> nextId, kind |-> k, at |-> now, boot |-> boots]
    <2>1. e.id = nextId /\ e.boot = boots
      OBVIOUS
    <2> HIDE DEF e
    <2>2. /\ e \in Entries /\ writing' = writing \cup {e} /\ nextId' = nextId + 1
          /\ ring' \in Seq(Entries) /\ Len(ring') \in 1 .. RingCap /\ ring'[Len(ring')] = e
          /\ \A i \in 1 .. Len(ring') - 1 :
                /\ Len(ring) + 1 - Len(ring') + i \in 1 .. Len(ring)
                /\ ring'[i] = ring[Len(ring) + 1 - Len(ring') + i]
      BY <1>1, Appended DEF e
    <2>3. ToSet(ring') \subseteq ToSet(ring) \cup {e}
      <3> SUFFICES ASSUME NEW d \in ToSet(ring'), d # e PROVE d \in ToSet(ring)
        OBVIOUS
      <3>1. PICK i \in 1 .. Len(ring') : d = ring'[i]
        BY <2>2, LenProperties DEF ToSet
      <3>2. i \in 1 .. Len(ring') - 1
        BY <2>2, <3>1
      <3>3. \E j \in 1 .. Len(ring) : d = ring[j]
        BY <2>2, <3>1, <3>2
      <3> QED
        BY <3>3, RingTyped
    <2>4. UNCHANGED <<file, boots, doubtful>>
      BY <1>1 DEF AssignId, diskVars
    <2> QED
      BY <2>1, <2>2, <2>3, <2>4 DEF Known, Lines
  <1>2. ASSUME NEW e \in writing, WriteFile(e) \/ WriteTorn(e)
        PROVE  Known' \subseteq Known /\ UNCHANGED <<nextId, boots, doubtful>>
    <2>1. /\ \A n \in Months : \/ file'[n] = file[n]
                              \/ \E line \in {e, Garbled} :
                                    ToSet(file'[n]) = ToSet(file[n]) \cup {line}
          /\ writing' = writing \ {e}
          /\ UNCHANGED <<nextId, ring, boots, doubtful>>
      BY <1>2, Written
    <2>2. \A line \in Lines' : line \in Lines \cup {e, Garbled}
      BY <2>1 DEF Lines
    <2>3. ~Readable(Garbled)
      BY LineFacts
    <2> QED
      BY <2>1, <2>2, <2>3 DEF Known
  <1>3. ASSUME NEW m \in Months, GcRemoves(m)
        PROVE  Known' \subseteq Known /\ UNCHANGED <<nextId, boots, doubtful>>
    <2>1. \A n \in Months : file'[n] = file[n] \/ ToSet(file'[n]) = {}
      BY <1>3 DEF GcRemoves, TypeOK, ToSet
    <2>2. UNCHANGED <<nextId, boots, doubtful, ring, writing>>
      BY <1>3 DEF GcRemoves
    <2>3. Lines' \subseteq Lines
      BY <2>1 DEF Lines
    <2> QED
      BY <2>2, <2>3 DEF Known
  <1>4. CASE UNCHANGED <<nextId, boots, doubtful, ring, file>> /\ writing' \subseteq writing
    BY <1>4 DEF Known, Lines
  <1> QED
    BY <1>1, <1>2, <1>3, <1>4 DEF Next, WriteFails, GcFindsOld, Tick, ListFirst, ListNext, vars,
       diskVars

LEMMA NextUnique ==
    ASSUME TypeOK, IdsUnique, [Next]_vars
    PROVE  IdsUnique'
  <1>1. CASE Known' \subseteq Known /\ UNCHANGED <<nextId, doubtful>>
    BY <1>1 DEF IdsUnique
  <1>2. ASSUME NEW e \in Entries, Known' \subseteq Known \cup {e}, e.id = nextId,
               nextId' = nextId + 1, UNCHANGED doubtful
        PROVE  IdsUnique'
    <2>1. nextId \in Nat /\ \A d \in Known : d.id \in Nat
      <3>1. \A d \in Known : d.id \in Nat
        BY KnownAreEntries, EntryTyped
      <3>2. nextId \in Nat
        BY NumbersTyped
      <3> QED
        BY <3>1, <3>2
    <2>2. \A d \in Known : d.id = e.id => d.id \in doubtful
      BY <1>2, <2>1 DEF IdsUnique
    <2>3. \A c, d \in Known' : c.id = d.id => c = d \/ c.id \in doubtful'
      BY <1>2, <2>2 DEF IdsUnique
    <2>4. \A d \in Known' : d.id < nextId' \/ d.id \in doubtful'
      BY <1>2, <2>1 DEF IdsUnique
    <2> QED
      BY <2>3, <2>4 DEF IdsUnique
  <1>3. CASE Boot
    <2>1. Known' \subseteq Known
      BY <1>3, BootKnown
    <2>2. doubtful \subseteq doubtful'
      BY <1>3 DEF Boot
    <2>3. \A e \in Known' : e.id < nextId' \/ e.id \in doubtful'
      BY <1>3, BootCovers
    <2> QED
      BY <2>1, <2>2, <2>3 DEF IdsUnique
  <1> QED
    BY <1>1, <1>2, <1>3, StepKnown

\* No two entries have one id, in memory, on file or on the way there, and none
\* has an id still to be given, across restarts, removed files and torn writes,
\* except for the ids on file that a boot overlooked (Append, scanMaxID).
THEOREM IdsAreUnique == Spec => []IdsUnique
  <1>1. Init => IdsUnique
    BY DEF Init, IdsUnique, Known, Lines, ToSet
  <1> QED
    BY <1>1, AuditTypeCorrect, NextUnique, PTL DEF Spec

-----------------------------------------------------------------------------
(***************************************************************************)
(* The ring.  Counted from its end, it has the ids below the next one back *)
(* to the first of this boot, or to where it is full; and what this boot   *)
(* adds is newer than what it is added to, for a new entry's id is above   *)
(* all that are known and not overlooked.                                  *)
(***************************************************************************)
EndsRecent ==
    \A k \in 1 .. RingCap :
        k <= nextId - firstId => k <= Len(ring) /\ ring[Len(ring) - k + 1].id = nextId - k

LEMMA AppendRecent ==
    ASSUME TypeOK, EndsRecent, NEW a \in Kinds, AssignId(a)
    PROVE  EndsRecent'
  <1> DEFINE e == [id |-> nextId, kind |-> a, at |-> now, boot |-> boots]
  <1>1. e.id = nextId
    OBVIOUS
  <1> HIDE DEF e
  <1>2. /\ nextId' = nextId + 1
        /\ Len(ring') \in 1 .. RingCap
        /\ Len(ring') = IF Len(ring) = RingCap THEN RingCap ELSE Len(ring) + 1
        /\ ring'[Len(ring')] = e
        /\ \A i \in 1 .. Len(ring') - 1 : ring'[i] = ring[Len(ring) + 1 - Len(ring') + i]
    BY Appended DEF e
  <1>3. firstId' = firstId
    BY DEF AssignId
  <1>4. /\ Len(ring) \in 0 .. RingCap /\ RingCap \in Nat
        /\ nextId \in Nat /\ firstId \in Nat
    BY RingTyped DEF TypeOK
  <1> SUFFICES ASSUME NEW k \in 1 .. RingCap, k <= nextId' - firstId'
               PROVE  k <= Len(ring') /\ ring'[Len(ring') - k + 1].id = nextId' - k
    BY DEF EndsRecent
  <1>5. CASE k = 1
    <2>1. k <= Len(ring') /\ Len(ring') - k + 1 = Len(ring') /\ nextId' - k = nextId
      BY <1>2, <1>4, <1>5
    <2> QED
      BY <1>1, <1>2, <2>1
  <1>6. CASE k # 1
    <2>1. k - 1 \in 1 .. RingCap /\ k - 1 <= nextId - firstId
      BY <1>2, <1>3, <1>4, <1>6
    <2>2. k - 1 <= Len(ring) /\ ring[Len(ring) - (k - 1) + 1].id = nextId - (k - 1)
      BY <2>1 DEF EndsRecent
    <2>3. k <= Len(ring')
      BY <1>2, <1>4, <2>1, <2>2
    <2>4. Len(ring') - k + 1 \in 1 .. Len(ring') - 1
      BY <1>2, <1>4, <1>6, <2>3
    <2>5. ring'[Len(ring') - k + 1] = ring[Len(ring) + 1 - Len(ring') + (Len(ring') - k + 1)]
      BY <1>2, <2>4
    <2>6. /\ Len(ring) + 1 - Len(ring') + (Len(ring') - k + 1) = Len(ring) - (k - 1) + 1
          /\ nextId' - k = nextId - (k - 1)
      <3>1. Len(ring') \in Nat /\ nextId' = nextId + 1 /\ Len(ring) \in Nat /\ k \in Nat
        BY <1>2, <1>4
      <3> QED
        BY <1>4, <3>1
    <2> QED
      BY <2>2, <2>3, <2>5, <2>6
  <1> QED
    BY <1>5, <1>6

\* No entry is of a boot to come.
Booted == \A e \in Known : e.boot <= boots

NewerLast ==
    \A i, j \in DOMAIN ring :
        i < j /\ ring[j].boot = boots => ring[i].id < ring[j].id \/ ring[i].id \in doubtful

LEMMA BootsTyped ==
    ASSUME TypeOK
    PROVE  boots \in Nat /\ \A e \in Entries : e.boot \in Nat
  <1>1. boots \in 0 .. MaxBoots
    BY Zenon DEF TypeOK
  <1>2. \A e \in Entries : e.boot \in 0 .. MaxBoots
    BY DEF Entries
  <1> QED
    BY <1>1, <1>2

LEMMA NextBooted ==
    ASSUME TypeOK, Booted, [Next]_vars
    PROVE  Booted'
  <1>1. CASE Boot
    <2>1. Known' \subseteq Known /\ Known \subseteq Entries
      BY <1>1, BootKnown, KnownAreEntries
    <2>2. boots' = boots + 1
      BY <1>1 DEF Boot
    <2>3. \A e \in Known : e.boot <= boots + 1
      BY <2>1, BootsTyped DEF Booted
    <2> QED
      BY <2>1, <2>2, <2>3 DEF Booted
  <1>2. CASE ~Boot
    <2>1. /\ boots' = boots
          /\ \A e \in Known' : e \in Known \/ e.boot = boots
      BY <1>2, StepKnown
    <2> QED
      BY <2>1, BootsTyped DEF Booted
  <1> QED
    BY <1>1, <1>2

LEMMA AppendNewer ==
    ASSUME TypeOK, IdsUnique, NewerLast, NEW a \in Kinds, AssignId(a)
    PROVE  NewerLast'
  <1> DEFINE e == [id |-> nextId, kind |-> a, at |-> now, boot |-> boots]
  <1>1. e.id = nextId
    OBVIOUS
  <1> HIDE DEF e
  <1>2. /\ ring' \in Seq(Entries) /\ Len(ring') \in 1 .. RingCap /\ ring'[Len(ring')] = e
        /\ \A i \in 1 .. Len(ring') - 1 :
              /\ Len(ring) + 1 - Len(ring') + i \in 1 .. Len(ring)
              /\ ring'[i] = ring[Len(ring) + 1 - Len(ring') + i]
    BY Appended DEF e
  <1>3. DOMAIN ring' = 1 .. Len(ring') /\ DOMAIN ring = 1 .. Len(ring) /\ Len(ring) \in Nat
    BY <1>2, LenProperties, RingTyped
  <1>4. \A l \in 1 .. Len(ring) : ring[l].id < nextId \/ ring[l].id \in doubtful
    BY RingTyped DEF IdsUnique, Known
  <1>5. UNCHANGED <<boots, doubtful>>
    BY DEF AssignId
  <1> SUFFICES ASSUME NEW i \in 1 .. Len(ring'), NEW j \in 1 .. Len(ring'), i < j,
                      ring'[j].boot = boots
               PROVE  ring'[i].id < ring'[j].id \/ ring'[i].id \in doubtful
    BY <1>3, <1>5 DEF NewerLast
  <1>6. i \in 1 .. Len(ring') - 1
    BY <1>2
  <1>7. CASE j = Len(ring')
    BY <1>1, <1>2, <1>4, <1>6, <1>7
  <1>8. CASE j # Len(ring')
    <2>1. j \in 1 .. Len(ring') - 1
      BY <1>2, <1>8
    <2>2. Len(ring) + 1 - Len(ring') + i < Len(ring) + 1 - Len(ring') + j
      BY <1>2, <1>3
    <2> QED
      BY <1>2, <1>3, <1>6, <2>1, <2>2 DEF NewerLast
  <1> QED
    BY <1>7, <1>8

\* A boot has only entries of earlier ones.
LEMMA BootNewer ==
    ASSUME TypeOK, Booted, Boot
    PROVE  NewerLast'
  <1>1. \A e \in ToSet(ring') : e \in Known /\ e \in Entries
    BY BootKnown, KnownAreEntries DEF Known
  <1>2. ring' \in Seq(Entries) /\ boots' = boots + 1
    BY Backfilled DEF Boot
  <1>3. \A j \in DOMAIN ring' : ring'[j] \in ToSet(ring')
    BY <1>2, LenProperties DEF ToSet
  <1>4. \A j \in DOMAIN ring' : ring'[j].boot <= boots /\ ring'[j].boot \in Nat
    BY <1>1, <1>3, BootsTyped DEF Booted
  <1>5. \A j \in DOMAIN ring' : ring'[j].boot # boots'
    BY <1>2, <1>4, BootsTyped
  <1> QED
    BY <1>5 DEF NewerLast

\* Only Append and a boot change the ring and the ids.
LEMMA StepRing ==
    ASSUME [Next]_vars
    PROVE  \/ \E a \in Kinds : AssignId(a)
           \/ Boot
           \/ UNCHANGED <<ring, nextId, firstId, boots, doubtful>>
  BY DEF Next, WriteFile, WriteTorn, WriteFails, GcFindsOld, GcRemoves, Tick, ListFirst, ListNext,
     vars

LEMMA NextRecent ==
    ASSUME TypeOK, EndsRecent, [Next]_vars
    PROVE  EndsRecent'
  <1>1. CASE Boot
    <2>1. nextId' - firstId' = 0
      <3>1. firstId' = nextId'
        BY <1>1 DEF Boot
      <3>2. TypeOK'
        BY NextTyped
      <3>3. nextId' \in Nat
        <4>1. nextId' \in 1 .. MaxId + 1
          BY <3>2, Zenon DEF TypeOK
        <4> QED
          BY <4>1
      <3>4. \A n \in Nat : n - n = 0
        OBVIOUS
      <3> QED
        BY <3>1, <3>3, <3>4
    <2> QED
      BY <2>1 DEF EndsRecent
  <1>2. CASE UNCHANGED <<ring, nextId, firstId>>
    BY <1>2 DEF EndsRecent
  <1> QED
    BY <1>1, <1>2, AppendRecent, StepRing

LEMMA NextNewer ==
    ASSUME TypeOK, IdsUnique, Booted, NewerLast, [Next]_vars
    PROVE  NewerLast'
  <1>1. CASE UNCHANGED <<ring, boots, doubtful>>
    BY <1>1 DEF NewerLast
  <1> QED
    BY <1>1, AppendNewer, BootNewer, StepRing

\* The ring has the newest entries this boot gave ids to, whatever became of
\* their writes, each after older ones only (appendRingLocked, backfillRing).
THEOREM RingHasNewest == Spec => []RingIsRecent
  <1>1. Init => EndsRecent /\ NewerLast /\ Booted
    <2> SUFFICES ASSUME Init PROVE EndsRecent /\ NewerLast /\ Booted
      OBVIOUS
    <2>1. DOMAIN ring = 1 .. 0 /\ nextId - firstId = 0
      BY EmptySeq, LenProperties DEF Init
    <2> QED
      BY <2>1 DEF Init, EndsRecent, NewerLast, Booted, Known, Lines, ToSet
  <1>2. TypeOK /\ EndsRecent /\ NewerLast => RingIsRecent
    <2> SUFFICES ASSUME TypeOK, EndsRecent, NewerLast,
                        NEW id \in firstId .. nextId - 1, id + RingCap >= nextId
                 PROVE  \E e \in ToSet(ring) : e.id = id
      BY DEF RingIsRecent, NewerLast
    <2>1. /\ nextId \in Nat /\ firstId \in Nat /\ RingCap \in Nat /\ id \in Nat
          /\ Len(ring) \in Nat
      BY RingTyped DEF TypeOK
    <2>2. nextId - id \in 1 .. RingCap /\ nextId - id <= nextId - firstId
      BY <2>1
    <2>3. /\ nextId - id <= Len(ring)
          /\ ring[Len(ring) - (nextId - id) + 1].id = nextId - (nextId - id)
      BY <2>2 DEF EndsRecent
    <2>4. /\ Len(ring) - (nextId - id) + 1 \in 1 .. Len(ring)
          /\ nextId - (nextId - id) = id
      BY <2>1, <2>2, <2>3
    <2> QED
      BY <2>3, <2>4, RingTyped
  <1> QED
    BY <1>1, <1>2, AuditTypeCorrect, IdsAreUnique, NextRecent, NextNewer, NextBooted, PTL DEF Spec

-----------------------------------------------------------------------------
(***************************************************************************)
(* Paging.  What the client waits for is in its place in the ring, matches *)
(* its query and is older than its cursor, for a page takes the last that  *)
(* are wanted, and after what is in its place there are newer ones only.   *)
(***************************************************************************)
Awaited ==
    cursor # 0 => \A e \in due : e \in InPlace(ring) /\ matches(e, query) /\ e.id < cursor

LEMMA PageLeaves ==
    ASSUME TypeOK, NEW q, NEW c, NEW limit \in 0 .. RingCap + 1,
           NEW e \in InPlace(ring), matches(e, q), Older(e, c)
    PROVE  LET page == List(q, c, limit)
           IN  /\ page # {}
               /\ e \in {ring[i] : i \in page} \/ e.id < ring[Min(page)].id
  <1> DEFINE page == List(q, c, limit)
             W == Wanted(q, c)
             After(i) == {k \in W : k > i}
  <1>1. /\ page \subseteq W /\ W \subseteq 1 .. Len(ring) /\ Len(ring) \in Nat
        /\ page # {} => Min(page) \in page
        /\ PageSize(limit) \in Nat \ {0}
    BY PageGiven, RingTyped
  <1>2. \A i \in W : i \in page <=> Cardinality(After(i)) < PageSize(limit)
    BY DEF List
  <1>3. PICK j \in W : e = ring[j] /\ \A k \in DOMAIN ring : j < k => ring[j].id < ring[k].id
    BY DEF InPlace, Wanted
  <1>4. IsFiniteSet(W)
    <2>1. IsFiniteSet(1 .. Len(ring))
      <3>1. 1 \in Int /\ Len(ring) \in Int
        BY <1>1
      <3> QED
        BY <3>1, FS_Interval
    <2> QED
      BY <1>1, <2>1, FS_Subset
  <1>9. \A k \in W : k \in Nat
    BY <1>1
  <1> HIDE DEF page, W
  <1>5. page # {}
    <2>1. W \in SUBSET (0 .. Len(ring)) /\ W # {}
      BY <1>1, <1>3
    <2>2. PICK i \in W : \A k \in W : k <= i
      BY <1>1, <2>1, MaxIsGreatest
    <2>3. After(i) = {}
      BY <1>9, <2>2
    <2>4. Cardinality(After(i)) < PageSize(limit)
      <3>1. Cardinality(After(i)) = 0
        BY <2>3, FS_EmptySet, Zenon
      <3> HIDE DEF After
      <3> QED
        BY <1>1, <3>1
    <2> QED
      BY <1>2, <2>2, <2>4
  <1>6. ASSUME e \notin {ring[i] : i \in page} PROVE e.id < ring[Min(page)].id
    <2>1. j \notin page /\ ~(Cardinality(After(j)) < PageSize(limit))
      BY <1>2, <1>3, <1>6
    <2>2. PICK p \in page : p = Min(page) /\ Cardinality(After(p)) < PageSize(limit)
      BY <1>1, <1>2, <1>5
    <2>3. j \in Nat /\ p \in Nat /\ j # p
      BY <1>1, <1>3, <2>1, <2>2
    <2>4. ~(j > p)
      <3> SUFFICES ASSUME j > p PROVE FALSE
        OBVIOUS
      <3>1. After(j) \in SUBSET After(p)
        <4>1. \A k \in W : k > j => k > p
          BY <1>9, <2>3
        <4> QED
          BY <4>1
      <3>2. IsFiniteSet(After(p)) /\ IsFiniteSet(After(j))
        <4>1. After(p) \in SUBSET W /\ After(j) \in SUBSET W
          OBVIOUS
        <4> QED
          BY <1>4, <4>1, FS_Subset
      <3> HIDE DEF After
      <3>3. /\ Cardinality(After(j)) <= Cardinality(After(p))
            /\ Cardinality(After(j)) \in Nat /\ Cardinality(After(p)) \in Nat
        BY <3>1, <3>2, FS_Subset, FS_CardinalityType
      <3> QED
        BY <1>1, <2>1, <2>2, <3>3
    <2>5. j < p /\ j \in DOMAIN ring /\ p \in DOMAIN ring
      BY <1>1, <1>3, <2>2, <2>3, <2>4, RingTyped
    <2> QED
      BY <1>3, <2>2, <2>5
  <1> QED
    BY <1>5, <1>6 DEF page

\* Giving a page keeps Awaited; without one there was nothing to wait for.
LEMMA GiveAwaited ==
    ASSUME TypeOK, NEW q, NEW c, NEW limit \in 0 .. RingCap + 1, NEW awaited,
           \A e \in awaited : e \in InPlace(ring) /\ matches(e, q) /\ Older(e, c),
           Give(List(q, c, limit), q, awaited)
    PROVE  /\ cursor' = 0 => awaited = {}
           /\ cursor' # 0 =>
                 \A e \in due' : e \in InPlace(ring) /\ matches(e, query') /\ e.id < cursor'
  <1> DEFINE page == List(q, c, limit)
  <1>1. /\ \A e \in awaited : page # {}
        /\ \A e \in awaited : e \in {ring[i] : i \in page} \/ e.id < ring[Min(page)].id
    BY PageLeaves
  <1>2. page # {} => ring[Min(page)].id # 0
    <2>1. page # {} => Min(page) \in 1 .. Len(ring)
      BY PageGiven
    <2> HIDE DEF page
    <2> QED
      BY <2>1, RingTyped, EntryTyped
  <1>3. /\ query' = IF page # {} THEN q ELSE All
        /\ cursor' = IF page # {} THEN ring[Min(page)].id ELSE 0
        /\ due' = IF page # {} THEN awaited \ {ring[i] : i \in page} ELSE {}
    BY DEF Give
  <1> HIDE DEF page
  <1>4. CASE page = {}
    <2>1. awaited = {}
      BY <1>1, <1>4
    <2>2. cursor' = 0
      BY <1>3, <1>4
    <2> QED
      BY <2>1, <2>2
  <1>5. CASE page # {}
    <2>1. query' = q /\ cursor' = ring[Min(page)].id /\ due' = awaited \ {ring[i] : i \in page}
      BY <1>3, <1>5
    <2> QED
      BY <1>1, <1>2, <1>5, <2>1
  <1> QED
    BY <1>4, <1>5

LEMMA NextAwaited ==
    ASSUME TypeOK, Awaited, [Next]_vars
    PROVE  /\ Awaited'
           /\ cursor # 0 /\ cursor' = 0 => due = {}
  <1>1. ASSUME NEW limit \in 0 .. RingCap + 1, ListNext(limit)
        PROVE  Awaited' /\ (cursor # 0 /\ cursor' = 0 => due = {})
    <2>1. cursor # 0 /\ Give(List(query, cursor, limit), query, due) /\ ring' = ring
      BY <1>1 DEF ListNext
    <2>2. \A e \in due : e \in InPlace(ring) /\ matches(e, query) /\ Older(e, cursor)
      BY <2>1 DEF Awaited, Older
    <2>3. /\ cursor' = 0 => due = {}
          /\ cursor' # 0 =>
                \A e \in due' : e \in InPlace(ring) /\ matches(e, query') /\ e.id < cursor'
      BY <2>1, <2>2, GiveAwaited
    <2> QED
      BY <2>1, <2>3 DEF Awaited, matches, InPlace
  <1>2. ASSUME NEW q \in Kinds \cup {All}, NEW limit \in 0 .. RingCap + 1, ListFirst(q, limit)
        PROVE  Awaited' /\ (cursor # 0 /\ cursor' = 0 => due = {})
    <2>1. /\ cursor = 0 /\ ring' = ring
          /\ Give(List(q, 0, limit), q, {e \in InPlace(ring) : matches(e, q)})
      BY <1>2 DEF ListFirst
    <2>2. \A e \in {d \in InPlace(ring) : matches(d, q)} :
             e \in InPlace(ring) /\ matches(e, q) /\ Older(e, 0)
      BY DEF Older
    <2>3. cursor' # 0 =>
             \A e \in due' : e \in InPlace(ring) /\ matches(e, query') /\ e.id < cursor'
      BY <2>1, <2>2, GiveAwaited
    <2> QED
      BY <2>1, <2>3 DEF Awaited, matches, InPlace
  <1>3. CASE UNCHANGED <<query, cursor>> /\ due' = due \cap InPlace(ring')
    BY <1>3 DEF Awaited, matches, InPlace
  <1>4. CASE UNCHANGED <<clientVars, ring>>
    BY <1>4 DEF clientVars, Awaited, matches, InPlace
  <1>5. CASE Boot \/ \E k \in Kinds : AssignId(k)
    <2>1. UNCHANGED <<query, cursor>> /\ due' = due \cap InPlace(ring')
      <3>1. CASE Boot
        BY <3>1, Zenon DEF Boot
      <3>2. ASSUME NEW k \in Kinds, AssignId(k)
            PROVE  UNCHANGED <<query, cursor>> /\ due' = due \cap InPlace(ring')
        BY <3>2, Zenon DEF AssignId
      <3> QED
        BY <1>5, <3>1, <3>2
    <2> QED
      BY <1>3, <2>1
  <1>6. CASE \/ \E e \in writing : WriteFile(e) \/ WriteTorn(e) \/ WriteFails(e)
             \/ \E m \in Months : GcFindsOld(m) \/ GcRemoves(m)
             \/ Tick \/ UNCHANGED vars
    <2>1. UNCHANGED <<clientVars, ring>>
      BY <1>6 DEF WriteFile, WriteTorn, WriteFails, GcFindsOld, GcRemoves, Tick, vars
    <2> QED
      BY <1>4, <2>1
  <1> QED
    BY <1>1, <1>2, <1>5, <1>6 DEF Next

\* A client that pages until it is given no cursor has been given every entry
\* that was in the ring when it began, matched, and stayed in its place (List).
THEOREM ClientsAreGivenAll == Spec => PagesComplete
  <1>1. Init => Awaited
    BY DEF Init, Awaited
  <1>2. ASSUME TypeOK, Awaited, [Next]_vars
        PROVE  [cursor # 0 /\ cursor' = 0 => due = {}]_clientVars
    BY <1>2, NextAwaited
  <1> QED
    BY <1>1, <1>2, AuditTypeCorrect, NextAwaited, PTL DEF Spec, PagesComplete

=============================================================================
