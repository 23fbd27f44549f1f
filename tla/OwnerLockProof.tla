--------------------------- MODULE OwnerLockProof ---------------------------
(***************************************************************************)
(* Proofs about OwnerLock, for any number of slots, instances and ticks:   *)
(* type correctness, the inductive invariant, and from it that the file    *)
(* names the holder, that there is one holder, that no heartbeat is        *)
(* written by a slot that is giving the lock up, and that the protocol     *)
(* implements Lease.                                                       *)
(***************************************************************************)
EXTENDS OwnerLock, TLAPS

\* While no assumption of the protocol has failed, a holder is on file and
\* fresh.  It is HolderIsOnFile with the type invariant, whose fourth conjunct
\* says that only holders have a heartbeat; each needs the other to hold
\* across BeatRefresh and ReleaseEnd.
IInv == TypeOK /\ HolderIsOnFile

-----------------------------------------------------------------------------
\* A single assignment keeps a function in its function space.
LEMMA ExceptType ==
    ASSUME NEW D, NEW R, NEW f \in [D -> R], NEW x \in D, NEW v \in R
    PROVE  [f EXCEPT ![x] = v] \in [D -> R]
  OBVIOUS

\* Type correctness: every variable stays in its range, and a slot has a
\* heartbeat goroutine only between TryAcquire and the end of Release.
THEOREM LockTypeCorrect == Spec => []TypeOK
<1>1. Init => TypeOK
  <2>1. Init => excused \in BOOLEAN
    BY DEF Init
  <2>2. Init => age \in 0 .. StaleAfter + 1
    BY LockAssumption DEF Init, LockAssumption
  <2>3. QED
    BY <2>1, <2>2 DEF Init, TypeOK, LockStates
<1>2. TypeOK /\ [Next]_vars => TypeOK'
  <2> SUFFICES ASSUME TypeOK, [Next]_vars
               PROVE  TypeOK'
    OBVIOUS
  <2> USE LockAssumption DEF TypeOK
  <2>1. ASSUME NEW s \in Slots, ReadClaim(s) PROVE TypeOK'
    BY <2>1 DEF ReadClaim
  <2>2. ASSUME NEW s \in Slots, WriteClaim(s) PROVE TypeOK'
    <3>1. excused' \in BOOLEAN
      BY <2>2 DEF WriteClaim
    <3>2. QED
      BY <2>2, <3>1 DEF WriteClaim, WriteOwner
  <2>3. ASSUME NEW s \in Slots, AbandonClaim(s) PROVE TypeOK'
    BY <2>3 DEF AbandonClaim
  <2>4. ASSUME NEW s \in Slots, ReleaseBegin(s) PROVE TypeOK'
    BY <2>4 DEF ReleaseBegin
  <2>5. ASSUME NEW s \in Slots, ReleaseEnd(s) PROVE TypeOK'
    BY <2>5 DEF ReleaseEnd, RemoveFile
  <2>6. ASSUME NEW s \in Slots, BeatDue(s) PROVE TypeOK'
    BY <2>6 DEF BeatDue
  <2>7. ASSUME NEW s \in Slots, BeatRefresh(s) PROVE TypeOK'
    BY <2>7 DEF BeatRefresh, WriteOwner
  <2>8. ASSUME NEW s \in Slots, BeatQuit(s) PROVE TypeOK'
    BY <2>8 DEF BeatQuit
  <2>9. ASSUME NEW s \in Slots, JvmStarts(s) PROVE TypeOK'
    BY <2>9 DEF JvmStarts
  <2>10. ASSUME NEW i \in Instances, Scan(i) PROVE TypeOK'
    <3>1. Classify(i) \in LockStates \cup {"none"}
      BY DEF Classify, LockStates
    <3>2. catalog' \in [Instances -> LockStates \cup {"none"}]
      BY <2>10, <3>1, ExceptType DEF Scan
    <3>3. QED
      BY <2>10, <3>2 DEF Scan
  <2>11. ASSUME NEW i \in Instances, Unlock(i) PROVE TypeOK'
    <3>1. excused' \in BOOLEAN
      BY <2>11 DEF Unlock
    <3>2. QED
      BY <2>11, <3>1 DEF Unlock, RemoveFile, LockStates
  <2>12. ASSUME NEW i \in Instances, Crash(i) PROVE TypeOK'
    BY <2>12 DEF Crash, LockStates
  <2>13. CASE JvmEnds
    BY <2>13 DEF JvmEnds
  <2>14. CASE Tick
    <3>1. excused' \in BOOLEAN
      BY <2>14 DEF Tick
    <3>2. QED
      BY <2>14, <3>1 DEF Tick
  <2>15. CASE UNCHANGED vars
    BY <2>15 DEF vars
  <2>16. QED
    BY <2>1, <2>2, <2>3, <2>4, <2>5, <2>6, <2>7, <2>8, <2>9, <2>10, <2>11,
       <2>12, <2>13, <2>14, <2>15 DEF Next, SlotStep
<1>3. QED
  BY <1>1, <1>2, PTL DEF Spec

-----------------------------------------------------------------------------
\* The holder, while there is no excuse, is the slot on file, so there is one.
LEMMA HolderIsOwner ==
    ASSUME HolderIsOnFile, ~excused, NEW s \in Holders
    PROVE  owner = s
  BY DEF HolderIsOnFile

\* The inductive invariant: it holds in every reachable state.
THEOREM LockInvariant == Spec => []IInv
<1>1. Init => HolderIsOnFile
  BY DEF Init, HolderIsOnFile, Holders
<1>2. TypeOK /\ HolderIsOnFile /\ [Next]_vars => HolderIsOnFile'
  <2> SUFFICES ASSUME TypeOK, HolderIsOnFile, [Next]_vars,
                      ~excused', NEW t \in Holders'
               PROVE  owner' = t /\ ~IsStale'
    BY DEF HolderIsOnFile
  <2> USE LockAssumption DEF TypeOK
  <2>0. t \in Slots
    BY DEF Holders
  <2>1. ASSUME NEW s \in Slots, ReadClaim(s) PROVE owner' = t /\ ~IsStale'
    BY <2>1 DEF ReadClaim, Holders, HolderIsOnFile, IsStale
  <2>2. ASSUME NEW s \in Slots, WriteClaim(s) PROVE owner' = t /\ ~IsStale'
    <3>1. ~excused /\ MayClaim(s, TRUE)
      BY <2>2 DEF WriteClaim
    <3>2. t = s
      <4> SUFFICES ASSUME t # s PROVE FALSE
        OBVIOUS
      <4>1. t \in Holders
        BY <2>0, <2>2 DEF WriteClaim, Holders
      <4>2. owner = t /\ ~IsStale
        BY <3>1, <4>1 DEF HolderIsOnFile
      <4>3. Classify(InstanceOf[s]) \in {"owned-self", "owned-other"}
        BY <2>0, <4>2 DEF Classify
      <4>4. QED
        BY <3>1, <4>2, <4>3 DEF MayClaim
    <3>3. QED
      BY <2>2, <3>2 DEF WriteClaim, WriteOwner, IsStale
  <2>3. ASSUME NEW s \in Slots, AbandonClaim(s) PROVE owner' = t /\ ~IsStale'
    BY <2>3 DEF AbandonClaim, Holders, HolderIsOnFile, IsStale
  <2>4. ASSUME NEW s \in Slots, ReleaseBegin(s) PROVE owner' = t /\ ~IsStale'
    BY <2>4 DEF ReleaseBegin, Holders, HolderIsOnFile, IsStale
  <2>5. ASSUME NEW s \in Slots, ReleaseEnd(s) PROVE owner' = t /\ ~IsStale'
    <3>1. t # s /\ t \in Holders /\ s \in Holders /\ ~excused
      BY <2>0, <2>5 DEF ReleaseEnd, Holders
    <3>2. QED
      BY <3>1, HolderIsOwner
  <2>6. ASSUME NEW s \in Slots, BeatDue(s) PROVE owner' = t /\ ~IsStale'
    BY <2>6 DEF BeatDue, Holders, HolderIsOnFile, IsStale
  <2>7. ASSUME NEW s \in Slots, BeatRefresh(s) PROVE owner' = t /\ ~IsStale'
    <3>1. t \in Holders /\ s \in Holders /\ ~excused
      BY <2>0, <2>7 DEF BeatRefresh, Holders
    <3>2. t = s
      BY <3>1, HolderIsOwner
    <3>3. QED
      BY <2>7, <3>2 DEF BeatRefresh, WriteOwner, IsStale
  <2>8. ASSUME NEW s \in Slots, BeatQuit(s) PROVE owner' = t /\ ~IsStale'
    BY <2>8 DEF BeatQuit, Holders, HolderIsOnFile, IsStale
  <2>9. ASSUME NEW s \in Slots, JvmStarts(s) PROVE owner' = t /\ ~IsStale'
    BY <2>9 DEF JvmStarts, Holders, HolderIsOnFile, IsStale
  <2>10. ASSUME NEW i \in Instances, Scan(i) PROVE owner' = t /\ ~IsStale'
    BY <2>10 DEF Scan, Holders, HolderIsOnFile, IsStale
  <2>11. ASSUME NEW i \in Instances, Unlock(i) PROVE owner' = t /\ ~IsStale'
    <3>1. t \in Holders /\ ~excused /\ owner \notin Holders
      BY <2>0, <2>11 DEF Unlock, Holders
    <3>2. QED
      BY <3>1, HolderIsOwner
  <2>12. ASSUME NEW i \in Instances, Crash(i) PROVE owner' = t /\ ~IsStale'
    <3>1. t \in Holders
      BY <2>0, <2>12 DEF Crash, Holders
    <3>2. QED
      BY <2>12, <3>1 DEF Crash, HolderIsOnFile, IsStale
  <2>13. CASE JvmEnds
    BY <2>13 DEF JvmEnds, Holders, HolderIsOnFile, IsStale
  <2>14. CASE Tick
    <3>1. t \in Holders /\ ~excused
      BY <2>0, <2>14 DEF Tick, Holders
    <3>2. owner = t
      BY <3>1, HolderIsOwner
    <3>3. age # StaleAfter
      BY <2>14, <3>1, <3>2 DEF Tick
    <3>4. QED
      BY <2>14, <3>2, <3>3 DEF Tick, IsStale
  <2>15. CASE UNCHANGED vars
    BY <2>15 DEF vars, Holders, HolderIsOnFile, IsStale
  <2>16. QED
    BY <2>1, <2>2, <2>3, <2>4, <2>5, <2>6, <2>7, <2>8, <2>9, <2>10, <2>11,
       <2>12, <2>13, <2>14, <2>15 DEF Next, SlotStep
<1>3. QED
  BY <1>1, <1>2, LockTypeCorrect, PTL DEF Spec, IInv

\* HolderIsOnFile: without an excuse, owner.json names the holder and is fresh.
THEOREM HolderStaysOnFile == Spec => []HolderIsOnFile
  BY LockInvariant, PTL DEF IInv

\* AtMostOneHolder: without an excuse, one slot at most owns the directory.
THEOREM MutualExclusion == Spec => []AtMostOneHolder
<1>1. HolderIsOnFile => AtMostOneHolder
  BY HolderIsOwner DEF AtMostOneHolder
<1>2. QED
  BY <1>1, HolderStaysOnFile, PTL

\* NoHeartbeatAfterRelease: excuses or not, a file that comes to name a slot
\* names one that holds the lock and is not giving it up.
THEOREM OnlyHoldersWrite == Spec => NoHeartbeatAfterRelease
<1> DEFINE P == owner' # owner /\ owner' # None => pc'[owner'] = "held"
<1>1. TypeOK /\ [Next]_vars => [P]_vars
  <2> SUFFICES ASSUME TypeOK, Next, owner' # owner, owner' # None
               PROVE  pc'[owner'] = "held"
    OBVIOUS
  <2> USE DEF TypeOK
  <2>1. ASSUME NEW s \in Slots, SlotStep(s) PROVE pc'[owner'] = "held"
    <3>1. WriteClaim(s) \/ BeatRefresh(s)
      BY <2>1 DEF SlotStep, ReadClaim, AbandonClaim, ReleaseBegin, ReleaseEnd,
                  RemoveFile, BeatDue, BeatQuit, JvmStarts
    <3>2. CASE WriteClaim(s)
      BY <3>2 DEF WriteClaim, WriteOwner
    <3>3. CASE BeatRefresh(s)
      BY <3>3 DEF BeatRefresh, WriteOwner
    <3>4. QED
      BY <3>1, <3>2, <3>3
  <2>2. ASSUME NEW i \in Instances PROVE ~(Scan(i) \/ Unlock(i) \/ Crash(i))
    BY DEF Scan, Unlock, RemoveFile, Crash
  <2>3. ~JvmEnds /\ ~Tick
    BY DEF JvmEnds, Tick
  <2>4. QED
    BY <2>1, <2>2, <2>3 DEF Next
<1>2. QED
  BY <1>1, LockTypeCorrect, PTL DEF Spec, NoHeartbeatAfterRelease

-----------------------------------------------------------------------------
\* Under the invariant the holders and the owner on file determine each other.
LEMMA HolderAlone ==
    ASSUME HolderIsOnFile, ~excused, NEW s \in Holders
    PROVE  Holders = {s} /\ ClaimNow = s
  BY HolderIsOwner DEF HolderIsOnFile, ClaimNow

\* A slot that may claim finds nobody holding and nobody else claiming.
LEMMA MayClaimIsFree ==
    ASSUME TypeOK, HolderIsOnFile, ~excused, NEW s \in Slots,
           pc[s] = "claim", MayClaim(s, TRUE)
    PROVE  Holders = {} /\ ClaimNow \in {None, s}
<1>1. ASSUME NEW t \in Holders PROVE FALSE
  <2>1. owner = t /\ ~IsStale /\ t # s /\ t \in Slots /\ t # None
    BY <1>1, LockAssumption DEF HolderIsOnFile, Holders
  <2>2. QED
    BY <2>1 DEF MayClaim, Classify
<1>2. ClaimNow \in {None, s}
  BY DEF MayClaim, Classify, ClaimNow
<1>3. QED
  BY <1>1, <1>2

\* ImplementsLease: every step of the protocol is a step of Lease or changes
\* nothing there, for any number of slots, instances and ticks.
THEOREM LeaseIsImplemented == Spec => ImplementsLease
<1>1. Init => L!LeaseInit
  BY DEF Init, L!LeaseInit, HoldersNow, ClaimNow, Holders, IsStale
<1>2. IInv /\ IInv' /\ [Next]_vars => [L!LeaseNext]_(L!lease)
  <2> SUFFICES ASSUME TypeOK, TypeOK', HolderIsOnFile, [Next]_vars
               PROVE  L!LeaseNext \/ UNCHANGED L!lease
    BY DEF IInv
  <2> DEFINE Still == Holders' = Holders /\ owner' = owner /\ age' = age /\ excused' = excused
  <2>0. excused \in BOOLEAN /\ excused' \in BOOLEAN
    BY DEF TypeOK
  <2>1. Still => UNCHANGED L!lease
    BY DEF L!lease, HoldersNow, ClaimNow, IsStale
  <2>2. CASE excused
    <3>1. excused'
      BY <2>2 DEF Next, SlotStep, ReadClaim, WriteClaim, AbandonClaim, ReleaseBegin,
                  ReleaseEnd, BeatDue, BeatRefresh, BeatQuit, JvmStarts, Scan, Unlock,
                  Crash, JvmEnds, Tick, vars
    <3>2. excused = TRUE /\ excused' = TRUE
      BY <2>0, <2>2, <3>1
    <3>3. QED
      BY <3>2 DEF L!lease, HoldersNow, ClaimNow
  <2>3. CASE ~excused /\ excused'
    <3>1. excused = FALSE /\ excused' = TRUE
      BY <2>0, <2>3
    <3>2. QED
      BY <3>1 DEF L!LeaseNext, L!Break, HoldersNow, ClaimNow
  <2>4. CASE ~excused /\ ~excused'
    <3>0. excused = FALSE /\ excused' = FALSE
      BY <2>0, <2>4
    <3> USE <3>0
    <3> USE DEF HoldersNow
    <3>1. ASSUME NEW s \in Slots, ReadClaim(s) \/ AbandonClaim(s) \/ ReleaseBegin(s)
                                   \/ BeatDue(s) \/ BeatQuit(s) \/ JvmStarts(s)
          PROVE  Still
      BY <3>1 DEF ReadClaim, AbandonClaim, ReleaseBegin, BeatDue, BeatQuit,
                  JvmStarts, Holders, TypeOK
    <3>2. ASSUME NEW s \in Slots, WriteClaim(s) PROVE L!LeaseNext
      <4>1. Holders = {} /\ ClaimNow \in {None, s}
        BY <3>2, MayClaimIsFree DEF WriteClaim
      <4>2. Holders' = {s}
        BY <3>2, <4>1 DEF WriteClaim, Holders, TypeOK
      <4>3. ClaimNow' = s
        <5>1. owner' = s /\ age' = 0
          BY <3>2 DEF WriteClaim, WriteOwner
        <5>2. QED
          BY <5>1, LockAssumption DEF ClaimNow, IsStale
      <4>4. L!Acquire(s)
        BY <3>2, <4>1, <4>2, <4>3 DEF L!Acquire
      <4>5. QED
        BY <4>4 DEF L!LeaseNext
    <3>3. ASSUME NEW s \in Slots, ReleaseEnd(s) PROVE L!LeaseNext
      <4>1. s \in Holders
        BY <3>3 DEF ReleaseEnd, Holders
      <4>2. Holders = {s}
        BY <4>1, HolderAlone
      <4>3. Holders' = {} /\ ClaimNow' = None
        BY <3>3, <4>2 DEF ReleaseEnd, RemoveFile, Holders, ClaimNow, TypeOK
      <4>4. L!Release(s)
        BY <3>3, <4>2, <4>3 DEF L!Release
      <4>5. QED
        BY <4>4 DEF L!LeaseNext
    <3>4. ASSUME NEW s \in Slots, BeatRefresh(s) PROVE UNCHANGED L!lease
      <4>1. s \in Holders
        BY <3>4 DEF BeatRefresh, Holders, TypeOK
      <4>2. owner = s /\ ClaimNow = s
        BY <4>1, HolderAlone, HolderIsOwner
      <4>3. Holders' = Holders /\ ClaimNow' = s
        BY <3>4, LockAssumption
           DEF BeatRefresh, WriteOwner, Holders, ClaimNow, IsStale
      <4>4. QED
        BY <4>2, <4>3 DEF L!lease
    <3>5. ASSUME NEW i \in Instances, Scan(i) PROVE Still
      BY <3>5 DEF Scan, Holders
    <3>6. ASSUME NEW i \in Instances, Unlock(i) PROVE L!LeaseNext \/ UNCHANGED L!lease
      <4>1. owner \notin Holders
        BY <3>6 DEF Unlock
      <4>2. Holders = {}
        BY <4>1 DEF HolderIsOnFile
      <4>3. Holders' = {} /\ ClaimNow' = None
        BY <3>6, <4>2 DEF Unlock, RemoveFile, Holders, ClaimNow
      <4>4. CASE ClaimNow = None
        BY <4>2, <4>3, <4>4 DEF L!lease
      <4>5. CASE ClaimNow # None
        BY <4>2, <4>3, <4>5 DEF L!LeaseNext, L!LoseClaim
      <4>6. QED
        BY <4>4, <4>5
    <3>7. ASSUME NEW i \in Instances, Crash(i) PROVE L!LeaseNext \/ UNCHANGED L!lease
      <4>1. Holders' \subseteq Holders /\ ClaimNow' = ClaimNow
        BY <3>7 DEF Crash, Holders, ClaimNow, IsStale, TypeOK
      <4>2. Holders' = Holders \/ Holders' = {}
        BY <4>1, HolderIsOwner
      <4>3. CASE Holders' = Holders
        BY <4>1, <4>3 DEF L!lease
      <4>4. CASE Holders # {} /\ Holders' = {}
        BY <4>1, <4>4 DEF L!LeaseNext, L!LoseHolder
      <4>5. QED
        BY <4>2, <4>3, <4>4
    <3>8. CASE JvmEnds
      BY <3>8, <2>1 DEF JvmEnds, Holders
    <3>9. CASE Tick
      <4>1. Holders' = Holders /\ owner' = owner
        BY <3>9 DEF Tick, Holders
      <4>2. CASE ClaimNow' = ClaimNow
        BY <4>1, <4>2 DEF L!lease
      <4>3. CASE ClaimNow' # ClaimNow
        <5>1. ~IsStale /\ IsStale' /\ owner # None /\ ClaimNow = owner /\ ClaimNow' = None
          BY <3>9, <4>1, <4>3, LockAssumption DEF Tick, ClaimNow, IsStale, TypeOK
        <5>2. owner \notin Holders
          <6>1. age = StaleAfter
            BY <3>9, <5>1, LockAssumption DEF Tick, IsStale, TypeOK
          <6>2. ~(age = StaleAfter /\ owner \in Holders)
            BY <3>9, <2>4 DEF Tick
          <6>3. QED
            BY <6>1, <6>2
        <5>3. Holders = {}
          BY <5>2 DEF HolderIsOnFile
        <5>4. QED
          BY <4>1, <5>1, <5>3 DEF L!LeaseNext, L!LoseClaim
      <4>4. QED
        BY <4>2, <4>3
    <3>10. CASE UNCHANGED vars
      BY <3>10, <2>1 DEF vars, Holders
    <3>11. QED
      BY <2>1, <3>1, <3>2, <3>3, <3>4, <3>5, <3>6, <3>7, <3>8, <3>9, <3>10
         DEF Next, SlotStep
  <2>5. QED
    BY <2>2, <2>3, <2>4
<1>3. QED
  BY <1>1, <1>2, LockInvariant, PTL DEF Spec, ImplementsLease, L!LeaseSpec
=============================================================================
