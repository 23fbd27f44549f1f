--------------------------- MODULE FederationProof ---------------------------
(***************************************************************************)
(* Proofs about module Federation, for any instances, clocks and orders in *)
(* which the answers of the peers are merged.                              *)
(***************************************************************************)
EXTENDS Federation, TLAPS

USE FederationAssumption

-----------------------------------------------------------------------------
(***************************************************************************)
(* Type correctness.                                                       *)
(***************************************************************************)
LEMMA NowIsHeartbeat ==
    ASSUME TypeOK, NEW i \in Instances
    PROVE  Now(i) \in Heartbeats
  BY DEF TypeOK, Now, Heartbeats

LEMMA ScanIsRecord ==
    ASSUME TypeOK, NEW i \in Instances
    PROVE  ScanOne(i) \in Records
  <1>1. Classify(i) \in {"free", "self", "other", "stale"}
    BY DEF Classify
  <1>2. file.owner \in Instances \cup {None} /\ file.beat \in Heartbeats \cup {Nil}
    BY DEF TypeOK, Files
  <1> QED
    BY <1>1, <1>2 DEF ScanOne, Records

LEMMA BeatsAreNumbers == \A r \in Records : r.beat \in Nat
  BY DEF Records, Heartbeats, Nil

LEMMA DiskTyped ==
    ASSUME TypeOK,
           \/ \E i \in Claimants : WriteOwner(i)
           \/ RemoveFile \/ Tick
    PROVE  TypeOK'
  <1>1. ASSUME NEW i \in Claimants, WriteOwner(i) PROVE TypeOK'
    <2>1. i \in Instances /\ Now(i) \in Heartbeats
      BY NowIsHeartbeat
    <2> QED
      BY <1>1, <2>1 DEF TypeOK, WriteOwner, Files, storeVars, requestVars
  <1>2. CASE RemoveFile
    BY <1>2 DEF TypeOK, RemoveFile, Files, Free, storeVars, requestVars
  <1>3. CASE Tick
    BY <1>3 DEF TypeOK, Tick, storeVars, requestVars
  <1> QED
    BY <1>1, <1>2, <1>3

LEMMA StoreTyped ==
    ASSUME TypeOK, NEW i \in Instances, Refresh(i) \/ ScanSlowly(i) \/ StoreSlowly(i)
    PROVE  TypeOK'
  <1>1. ScanOne(i) \in Records
    BY ScanIsRecord
  <1> QED
    BY <1>1 DEF TypeOK, Refresh, ScanSlowly, StoreSlowly, diskVars, requestVars

-----------------------------------------------------------------------------
(***************************************************************************)
(* The merge starts when every answer is in, and only merges records.      *)
(* FreshestWins needs it: an answer that came after the merge would not be *)
(* compared with the record shown.                                         *)
(***************************************************************************)
Collected ==
    pc = "merge" => /\ left \subseteq {p \in Peers : answers[p] # None}
                    /\ \A i \in Instances : answers[i] \in Records \cup {None}

IInv == TypeOK /\ Collected /\ FreshestWins

LEMMA RequestTyped ==
    ASSUME TypeOK, Collected, Ask \/ Request
    PROVE  TypeOK'
  <1> USE DEF TypeOK, Instances, diskVars, storeVars
  <1>1. CASE Ask
    BY <1>1 DEF Ask
  <1>2. CASE Fetched
    BY <1>2 DEF Fetched
  <1>3. CASE Done
    BY <1>3 DEF Done
  <1>4. ASSUME NEW p \in Peers, PeerAnswers(p) \/ PeerFails(p) PROVE TypeOK'
    BY <1>4 DEF PeerAnswers, PeerFails
  <1>5. ASSUME NEW p \in Peers, Merge(p) PROVE TypeOK'
    <2>1. answers[p] \in Records
      BY <1>5 DEF Merge, Collected
    <2> QED
      BY <1>5, <2>1 DEF Merge
  <1> QED
    BY <1>1, <1>2, <1>3, <1>4, <1>5 DEF Request

LEMMA NextTyped ==
    ASSUME TypeOK, Collected, [Next]_vars
    PROVE  TypeOK'
  <1>1. CASE UNCHANGED vars
    BY <1>1 DEF TypeOK, vars, diskVars, storeVars, requestVars
  <1>2. ASSUME NEW i \in Overtaken, ScanSlowly(i) \/ StoreSlowly(i) PROVE TypeOK'
    BY <1>2, StoreTyped
  <1> QED
    BY <1>1, <1>2, DiskTyped, StoreTyped, RequestTyped DEF Next

LEMMA NextCollected ==
    ASSUME TypeOK, Collected, [Next]_vars
    PROVE  Collected'
  <1> USE DEF Collected
  <1>1. CASE UNCHANGED requestVars
    BY <1>1 DEF requestVars
  <1>2. CASE Ask
    BY <1>2 DEF Ask
  <1>3. CASE Fetched
    BY <1>3 DEF Fetched, TypeOK, Instances
  <1>4. CASE Done
    BY <1>4 DEF Done
  <1>5. ASSUME NEW p \in Peers, PeerAnswers(p) \/ PeerFails(p) PROVE Collected'
    BY <1>5 DEF PeerAnswers, PeerFails
  <1>6. ASSUME NEW p \in Peers, Merge(p) PROVE Collected'
    BY <1>6 DEF Merge
  <1>7. UNCHANGED requestVars \/ Ask \/ Request
    BY DEF Next, vars, WriteOwner, RemoveFile, Tick, Refresh, ScanSlowly, StoreSlowly
  <1> QED
    BY <1>1, <1>2, <1>3, <1>4, <1>5, <1>6, <1>7 DEF Request

-----------------------------------------------------------------------------
(***************************************************************************)
(* RemoteFresher is a strict order of the records by their heartbeats, so  *)
(* what beats the record shown beats all that this record has beaten.      *)
(***************************************************************************)
LEMMA FresherIsStrict ==
    \A q, r, s \in Records :
        /\ ~RemoteFresher(r, r)
        /\ RemoteFresher(q, r) /\ RemoteFresher(r, s) => RemoteFresher(q, s)
  BY BeatsAreNumbers DEF RemoteFresher, Nil

\* The first record shown is this instance's own.
LEMMA FetchedFreshest ==
    ASSUME TypeOK, Fetched
    PROVE  FreshestWins'
  <1>1. \A i \in Instances \ left' : answers'[i] # None => i = Self
    BY DEF Fetched, TypeOK, Instances
  <1>2. view' = answers'[Self]
    BY DEF Fetched, TypeOK, Instances
  <1>3. Merged' = IF view' = None THEN {} ELSE {Self}
    BY <1>1, <1>2 DEF Fetched, TypeOK, Instances, Merged
  <1>4. view' # None => view' \in Records
    BY DEF Fetched, TypeOK, Instances
  <1> QED
    BY <1>2, <1>3, <1>4, FresherIsStrict DEF FreshestWins, Outdated

LEMMA MergeFreshest ==
    ASSUME IInv, NEW p \in Peers, Merge(p)
    PROVE  FreshestWins'
  <1>1. /\ pc = "merge" /\ p \in left /\ p \in Instances /\ p # Self
        /\ left' = left \ {p} /\ UNCHANGED <<pc, answers>>
    BY DEF Merge, Instances
  <1>2. answers[p] \in Records /\ answers[p] # None
    BY <1>1 DEF IInv, TypeOK, Collected
  <1>3. Merged' = Merged \cup {p} /\ p \notin Merged
    BY <1>1, <1>2 DEF Merged
  <1>4. \A i \in Merged : answers[i] \in Records
    BY <1>1 DEF IInv, TypeOK, Collected, Merged
  <1>5. /\ view = None => Merged = {}
        /\ view # None => \E i \in Merged : view = answers[i] /\ ~Outdated(i)
        /\ Self \in Merged /\ ~Outdated(Self) => view = answers[Self]
    BY <1>1 DEF IInv, FreshestWins
  <1>6. view' = IF view = None \/ RemoteFresher(answers[p], view) THEN answers[p] ELSE view
    BY DEF Merge
  <1>7. CASE view = None
    BY <1>1, <1>2, <1>3, <1>5, <1>6, <1>7, FresherIsStrict DEF FreshestWins, Outdated
  <1>8. CASE view # None /\ RemoteFresher(answers[p], view)
    <2>1. PICK i \in Merged : view = answers[i] /\ ~Outdated(i)
      BY <1>5, <1>8
    <2>2. \A j \in Merged : ~RemoteFresher(answers[j], answers[p])
      BY <1>2, <1>4, <1>8, <2>1, FresherIsStrict DEF Outdated
    <2>3. ~Outdated(p)'
      BY <1>1, <1>2, <1>3, <2>2, FresherIsStrict DEF Outdated
    <2>4. ~Outdated(Self)' /\ Self \in Merged' => FALSE
      BY <1>1, <1>2, <1>3, <1>5, <1>8 DEF Outdated
    <2> QED
      BY <1>1, <1>2, <1>3, <1>6, <1>8, <2>3, <2>4 DEF FreshestWins
  <1>9. CASE view # None /\ ~RemoteFresher(answers[p], view)
    <2>1. PICK i \in Merged : view = answers[i] /\ ~Outdated(i)
      BY <1>5, <1>9
    <2>2. ~Outdated(i)'
      BY <1>1, <1>3, <1>9, <2>1 DEF Outdated
    <2>3. Self \in Merged' /\ ~Outdated(Self)' => view' = answers'[Self]
      BY <1>1, <1>3, <1>5, <1>6, <1>9 DEF Outdated
    <2> QED
      BY <1>1, <1>3, <1>6, <1>9, <2>1, <2>2, <2>3 DEF FreshestWins
  <1> QED
    BY <1>7, <1>8, <1>9

LEMMA NextFreshest ==
    ASSUME IInv, [Next]_vars
    PROVE  FreshestWins'
  <1>1. CASE UNCHANGED requestVars
    BY <1>1 DEF IInv, FreshestWins, Merged, Outdated, requestVars
  <1>2. CASE Ask \/ Done
    BY <1>2 DEF Ask, Done, FreshestWins
  <1>3. CASE Fetched
    BY <1>3, FetchedFreshest DEF IInv
  <1>4. ASSUME NEW p \in Peers, PeerAnswers(p) \/ PeerFails(p) PROVE FreshestWins'
    BY <1>4 DEF PeerAnswers, PeerFails, FreshestWins
  <1>5. ASSUME NEW p \in Peers, Merge(p) PROVE FreshestWins'
    BY <1>5, MergeFreshest
  <1>6. UNCHANGED requestVars \/ Ask \/ Request
    BY DEF Next, vars, WriteOwner, RemoveFile, Tick, Refresh, ScanSlowly, StoreSlowly
  <1> QED
    BY <1>1, <1>2, <1>3, <1>4, <1>5, <1>6 DEF Request

-----------------------------------------------------------------------------
THEOREM FederationInvariant == Spec => []IInv
  <1>1. Init => IInv
    BY DEF Init, IInv, TypeOK, Collected, FreshestWins, Files, Free
  <1>2. IInv /\ [Next]_vars => IInv'
    BY NextTyped, NextCollected, NextFreshest DEF IInv
  <1> QED
    BY <1>1, <1>2, PTL DEF Spec

\* The record that GET /federation/discovery shows of a server is one that no
\* merged record outdates, and the asked instance's own unless it is outdated:
\* for any number of peers, any clocks and any order of the merge, which in
\* the code is the order of a map's iteration.
THEOREM FreshestRecordWins == Spec => []FreshestWins
  BY FederationInvariant, PTL DEF IInv
=============================================================================
