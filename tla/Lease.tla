-------------------------------- MODULE Lease --------------------------------
(***************************************************************************)
(* What the ownership lock of a server directory promises to the slots of  *)
(* all instances (package comment of internal/lock, TryAcquire): one slot  *)
(* at a time has the lease; its claim outlives a crash, so that only the   *)
(* same slot or the passing of time can end it; and nothing is promised    *)
(* once a slot's heartbeat stalled, two claims raced between read and      *)
(* write, or an operator removed the file of a live holder.                *)
(***************************************************************************)
CONSTANTS Slots, None

VARIABLES
    holders, \* the slots that have the lease: none or one
    claim,   \* the slot whose claim keeps the others out, or None
    broken   \* has the promise ended?

lease == <<holders, claim, broken>>

LeaseInit == holders = {} /\ claim = None /\ broken = FALSE

\* A slot may claim what nobody claims or what it claimed before it crashed.
Acquire(s) ==
    /\ ~broken /\ holders = {}
    /\ claim \in {None, s}
    /\ holders' = {s} /\ claim' = s
    /\ UNCHANGED broken

Release(s) ==
    /\ ~broken /\ holders = {s}
    /\ holders' = {} /\ claim' = None
    /\ UNCHANGED broken

\* The holder's mcsm dies.
LoseHolder ==
    /\ ~broken /\ holders # {}
    /\ holders' = {}
    /\ UNCHANGED <<claim, broken>>

\* The claim that a crash left behind ages or is removed by an operator.
LoseClaim ==
    /\ ~broken /\ holders = {} /\ claim # None
    /\ claim' = None
    /\ UNCHANGED <<holders, broken>>

Break ==
    /\ ~broken
    /\ holders' = {} /\ claim' = None /\ broken' = TRUE

LeaseNext ==
    \/ \E s \in Slots : Acquire(s) \/ Release(s)
    \/ LoseHolder \/ LoseClaim \/ Break

LeaseSpec == LeaseInit /\ [][LeaseNext]_lease
=============================================================================
