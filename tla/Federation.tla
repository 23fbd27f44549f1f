----------------------------- MODULE Federation -----------------------------
(***************************************************************************)
(* The federated view of one server directory that several instances see:  *)
(* each instance keeps the catalog of its last scan (internal/discovery),  *)
(* and GET /federation/discovery of one of them, Self, merges its own      *)
(* catalog with those its peers answer.  OwnerLock is the protocol for     *)
(* owner.json; here its file changes as that protocol lets it change.      *)
(***************************************************************************)
EXTENDS Naturals, FiniteSets

CONSTANTS Self, Peers,  \* the instance that is asked, and its peers
          Claimants,    \* the instances with a slot that mounts the directory
          Overtaken,    \* the instances with a scan that later ones overtake
          Skew,         \* by how much each instance's clock is fast
          StaleAfter,   \* the age beyond which a heartbeat is stale
          MaxTime,      \* bounds the clock
          None,         \* no owner, no record, or no answer
          Asked         \* an answer that has yet to come

Instances == Peers \cup {Self}

ASSUME FederationAssumption ==
    /\ Self \notin Peers
    /\ None \notin Instances
    /\ Overtaken \subseteq Instances /\ Claimants \subseteq Instances
    /\ Skew \in [Instances -> Nat]
    /\ StaleAfter \in Nat /\ MaxTime \in Nat \ {0}

VARIABLES
    clock,
    file,     \* owner.json: the owner and its heartbeat
    catalog,  \* per instance: Store.cur's record of the server, or None
    slow,     \* per instance: what a scan found that has yet to store it
    pc,       \* where the request is
    answers,  \* per instance: the record it has of the server, or Asked
    left,     \* the peers whose answers are still to be merged
    view      \* the record in the merged map, or None

diskVars == <<clock, file>>
storeVars == <<catalog, slow>>
requestVars == <<pc, answers, left, view>>
vars == <<diskVars, storeVars, requestVars>>

\* Heartbeats start at 1; 0 is the nil of a record without one.
Nil == 0
Now(i) == clock + Skew[i]
Heartbeats == {t + Skew[i] : t \in 1 .. MaxTime, i \in Instances}
Files == [owner : Instances, beat : Heartbeats] \cup {[owner |-> None, beat |-> Nil]}
Free == [owner |-> None, beat |-> Nil]

\* The state is as the instance that scanned classified the lock.
Records == [owner : Instances \cup {None}, beat : Heartbeats \cup {Nil},
            state : {"free", "self", "other", "stale"}]

TypeOK ==
    /\ clock \in 1 .. MaxTime
    /\ file \in Files
    /\ catalog \in [Instances -> Records \cup {None}]
    /\ slow \in [Instances -> Records \cup {None}]
    /\ pc \in {"idle", "fetch", "merge"}
    /\ answers \in [Instances -> Records \cup {Asked, None}]
    /\ left \subseteq Peers
    /\ view \in Records \cup {None}

Init ==
    /\ clock = 1
    /\ file = Free
    /\ catalog = [i \in Instances |-> None]
    /\ slow = [i \in Instances |-> None]
    /\ pc = "idle"
    /\ answers = [i \in Instances |-> None]
    /\ left = {}
    /\ view = None

-----------------------------------------------------------------------------
(***************************************************************************)
(* The lock file.                                                          *)
(***************************************************************************)
IsStale(i) == file.owner # None /\ Now(i) > file.beat + StaleAfter

Classify(i) ==
    IF file.owner = None THEN "free"
    ELSE IF IsStale(i) THEN "stale"
    ELSE IF file.owner = i THEN "self"
    ELSE "other"

\* TryAcquire, by force if need be, which leaves another's fresh file alone, and
\* each heartbeat, which does not look at what is on file.
WriteOwner(i) ==
    /\ file' = [owner |-> i, beat |-> Now(i)]
    /\ UNCHANGED <<clock, storeVars, requestVars>>

\* Release, or an operator's unlock.
RemoveFile ==
    /\ file' = Free
    /\ UNCHANGED <<clock, storeVars, requestVars>>

Tick ==
    /\ clock < MaxTime
    /\ clock' = clock + 1
    /\ UNCHANGED <<file, storeVars, requestVars>>

(***************************************************************************)
(* Discovery.                                                              *)
(***************************************************************************)
\* scanOne: a lock that is free has no owner and no heartbeat.
ScanOne(i) == [owner |-> file.owner, beat |-> file.beat, state |-> Classify(i)]

Refresh_AddsOnly(i) ==
    /\ catalog[i] = None \/ file.owner # None
    /\ catalog' \in {[catalog EXCEPT ![i] = r] : r \in {ScanOne(i), None}}
    /\ UNCHANGED <<diskVars, slow, requestVars>>

\* Store.Refresh: the catalog has no record if the root or the directory cannot
\* be read, which is not an error.
Refresh(i) ==
    /\ catalog' \in {[catalog EXCEPT ![i] = r] : r \in {ScanOne(i), None}}
    /\ UNCHANGED <<diskVars, slow, requestVars>>

\* One that others overtake stores what it found all the same.
ScanSlowly(i) ==
    /\ slow[i] = None
    /\ slow' = [slow EXCEPT ![i] = ScanOne(i)]
    /\ UNCHANGED <<diskVars, catalog, requestVars>>

StoreSlowly(i) ==
    /\ slow[i] # None
    /\ catalog' = [catalog EXCEPT ![i] = slow[i]]
    /\ slow' = [slow EXCEPT ![i] = None]
    /\ UNCHANGED <<diskVars, requestVars>>

(***************************************************************************)
(* GET /federation/discovery.                                              *)
(***************************************************************************)
\* federationFetch asks every configured peer at once...
Ask ==
    /\ pc = "idle"
    /\ pc' = "fetch"
    /\ answers' = [i \in Instances |-> IF i = Self THEN None ELSE Asked]
    /\ UNCHANGED <<diskVars, storeVars, left, view>>

\* ...a peer answers its catalog, with or without the server, and is merged...
PeerAnswers(p) ==
    /\ pc = "fetch" /\ answers[p] = Asked
    /\ answers' = [answers EXCEPT ![p] = catalog[p]]
    /\ UNCHANGED <<diskVars, storeVars, pc, left, view>>

\* ...or fails, which the answer's sources tell.
PeerFails(p) ==
    /\ pc = "fetch" /\ answers[p] = Asked
    /\ answers' = [answers EXCEPT ![p] = None]
    /\ UNCHANGED <<diskVars, storeVars, pc, left, view>>

\* All have come: the merge begins with this instance's own catalog.
Fetched ==
    /\ pc = "fetch"
    /\ \A p \in Peers : answers[p] # Asked
    /\ pc' = "merge"
    /\ answers' = [answers EXCEPT ![Self] = catalog[Self]]
    /\ view' = catalog[Self]
    /\ left' = {p \in Peers : answers[p] # None}
    /\ UNCHANGED <<diskVars, storeVars>>

RemoteFresher_OrEqual(remote, current) ==
    remote.beat # Nil /\ remote.beat >= current.beat

\* A record without a heartbeat never replaces another one.
RemoteFresher(remote, current) ==
    /\ remote.beat # Nil
    /\ current.beat = Nil \/ remote.beat > current.beat

\* The answers are merged in the order of a map's iteration.
Merge(p) ==
    /\ pc = "merge" /\ p \in left
    /\ left' = left \ {p}
    /\ view' = IF view = None \/ RemoteFresher(answers[p], view) THEN answers[p] ELSE view
    /\ UNCHANGED <<diskVars, storeVars, pc, answers>>

Answered == pc = "merge" /\ left = {}

\* The client has its answer.
Done ==
    /\ Answered
    /\ pc' = "idle"
    /\ view' = None
    /\ answers' = [i \in Instances |-> None]
    /\ UNCHANGED <<diskVars, storeVars, left>>

-----------------------------------------------------------------------------
Request ==
    \/ Fetched \/ Done
    \/ \E p \in Peers : PeerAnswers(p) \/ PeerFails(p) \/ Merge(p)

Next ==
    \/ \E i \in Claimants : WriteOwner(i)
    \/ \E i \in Instances : Refresh(i)
    \/ \E i \in Overtaken : ScanSlowly(i) \/ StoreSlowly(i)
    \/ RemoveFile \/ Tick \/ Ask \/ Request

Spec == Init /\ [][Next]_vars

\* A request comes to its end, Run scans at each interval, and a scan ends.
Fairness ==
    /\ WF_vars(Request)
    /\ \A i \in Instances : WF_vars(Refresh(i)) /\ WF_vars(StoreSlowly(i))

FairSpec == Spec /\ Fairness

-----------------------------------------------------------------------------
(***************************************************************************)
(* Properties.                                                             *)
(***************************************************************************)
\* The answers merged so far, this instance's own among them.
Merged == {i \in Instances \ left : answers[i] # None}

Outdated(i) == \E j \in Merged : RemoteFresher(answers[j], answers[i])

\* In whatever order the answers are merged, the record shown is one that no
\* other one outdates, and this instance's own unless that is outdated: only
\* that one says "self" and "other" from where the client asked.
FreshestWins ==
    pc = "merge" =>
        /\ view = None => Merged = {}
        /\ view # None => \E i \in Merged : view = answers[i] /\ ~Outdated(i)
        /\ Self \in Merged /\ ~Outdated(Self) => view = answers[Self]

\* Once the directory stays with one owner, or with none, the answers come to
\* say so and say nothing else any more, whatever older scans and records are
\* still under way, and although a fast clock makes the old ones look fresh.
ViewsConverge ==
    \A o \in Instances \cup {None} :
        <>[](file.owner = o) =>
            <>[](Answered /\ view # None => view.owner = o)
=============================================================================
