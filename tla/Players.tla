------------------------------- MODULE Players -------------------------------
(***************************************************************************)
(* What one slot does to one player: the moderation handlers of            *)
(* handlers_server.go, the timed unban, and the reactions of               *)
(* detectGameplayEvents to the log.  All of them send commands to whatever *)
(* server is mounted when they get to it; the lists are kept by that       *)
(* server, which stays as it is when the slot or mcsm goes.                *)
(***************************************************************************)
EXTENDS Naturals, Sequences

CONSTANTS Servers,   \* the servers this slot mounts, one after the other
          Requests,  \* the calls of the handlers
          Asks,      \* what they ask for: a kind, and a duration or ""
          BanFlying, \* the servers with the feature ban_flying
          None       \* no server

(***************************************************************************)
(* The commands of each handler: the first decides the answer, the second  *)
(* is best effort.  Neither "say" nor "kick" changes a list.               *)
(***************************************************************************)
Script == [ban      |-> <<"ban">>,
           banIp    |-> <<"ban", "ban-ip">>,
           unban    |-> <<"pardon", "pardon-ip">>,
           op       |-> <<"op">>,
           deop     |-> <<"deop">>,
           admit    |-> <<"whitelist add">>,
           exclude  |-> <<"whitelist remove">>,
           announce |-> <<"say">>,
           kick     |-> <<"kick">>]

Durations == {"", "24h", "7d"}

\* The detector's bans have a cause of their own.
Flying == "flying"

ASSUME PlayersAssumption ==
    /\ Asks \subseteq [kind : DOMAIN Script, duration : Durations]
    /\ Flying \notin Requests
    /\ BanFlying \subseteq Servers
    /\ None \notin Servers

VARIABLES
    mounted, \* the server that is running in the slot, or None
    listed,  \* per server and list: what put the player on it, if anything
    ask,     \* per request: what it asks for
    pc,      \* per request: where its handler is
    timer,   \* per request: where its timed unban is
    noticed, \* the servers whose detector has a flying kick to deal with
    lost     \* the requests whose unban cannot come any more

vars == <<mounted, listed, ask, pc, timer, noticed, lost>>

Lists == {"bans", "ips", "ops", "whitelist"}

Init ==
    /\ mounted = None
    /\ listed = [s \in Servers |-> [l \in Lists |-> {}]]
    /\ ask \in [Requests -> Asks]
    /\ pc = [r \in Requests |-> "new"]
    /\ timer = [r \in Requests |-> "none"]
    /\ noticed = {}
    /\ lost = {}

-----------------------------------------------------------------------------
(***************************************************************************)
(* Commands.                                                               *)
(***************************************************************************)
PutsOn == {<<"ban", "bans">>, <<"ban-ip", "ips">>, <<"op", "ops">>,
           <<"whitelist add", "whitelist">>}
TakesOff == {<<"pardon", "bans">>, <<"pardon-ip", "ips">>, <<"deop", "ops">>,
             <<"whitelist remove", "whitelist">>}

\* The mounted server executes a command; other servers never hear of it.
Executed(command, cause) ==
    /\ mounted # None
    /\ listed' = [listed EXCEPT ![mounted] =
         [l \in Lists |-> IF <<command, l>> \in PutsOn THEN @[l] \cup {cause}
                          ELSE IF <<command, l>> \in TakesOff THEN {}
                          ELSE @[l]]]

\* Slot.Command finds the slot not running or without a client, or the command
\* fails; it may have been executed when only its answer did not come in time.
Fails(command, cause) == Executed(command, cause) \/ UNCHANGED listed

PcAt(r, p) == pc' = [pc EXCEPT ![r] = p]
AfterFirst(r) == IF Len(Script[ask[r].kind]) = 2 THEN "second" ELSE "answer"

(***************************************************************************)
(* The handlers.                                                           *)
(***************************************************************************)
\* requireRunning, which otherwise answers an error.
RequireRunning(r) ==
    /\ pc[r] = "new"
    /\ mounted # None
    /\ PcAt(r, "first")
    /\ UNCHANGED <<ask, mounted, listed, timer, noticed, lost>>

First(r) ==
    /\ pc[r] = "first"
    /\ Executed(Script[ask[r].kind][1], r)
    /\ PcAt(r, AfterFirst(r))
    /\ UNCHANGED <<ask, mounted, timer, noticed, lost>>

\* The handler answers the error and does nothing else.
FirstFails(r) ==
    /\ pc[r] = "first"
    /\ Fails(Script[ask[r].kind][1], r)
    /\ PcAt(r, "refused")
    /\ lost' = lost \cup {r}
    /\ UNCHANGED <<ask, mounted, timer, noticed>>

Second(r) ==
    /\ pc[r] = "second"
    /\ Fails(Script[ask[r].kind][2], r)
    /\ PcAt(r, "answer")
    /\ UNCHANGED <<ask, mounted, timer, noticed, lost>>

\* time.ParseDuration knows no days or weeks, and its error is ignored.
ParseDuration(d) == d = "24h"

TimedBan(r) == ask[r].kind \in {"ban", "banIp"} /\ ParseDuration(ask[r].duration)

Answer_NotAfterIp(r) ==
    /\ pc[r] = "answer"
    /\ PcAt(r, "done")
    /\ timer' = [timer EXCEPT ![r] =
         IF ask[r].kind = "ban" /\ ParseDuration(ask[r].duration) THEN "sleeping" ELSE @]
    /\ UNCHANGED <<ask, mounted, listed, noticed, lost>>

\* A ban starts the goroutine of its unban, and the handler answers.
Answer(r) ==
    /\ pc[r] = "answer"
    /\ PcAt(r, "done")
    /\ timer' = [timer EXCEPT ![r] =
         IF TimedBan(r) THEN "sleeping" ELSE @]
    /\ UNCHANGED <<ask, mounted, listed, noticed, lost>>

Banned(s, r) == r \in listed[s]["bans"]

\* The sleep is over: the player is pardoned on the server that is mounted by
\* then, whoever banned them there.
Unban(r) ==
    /\ timer[r] = "sleeping"
    /\ timer' = [timer EXCEPT ![r] = "over"]
    /\ \/ Executed("pardon", r) /\ lost' = lost \cup {q \in {r} : \E s \in Servers \ {mounted} : Banned(s, r)}
       \/ UNCHANGED listed /\ lost' = lost \cup {r}
    /\ UNCHANGED <<ask, mounted, pc, noticed>>

(***************************************************************************)
(* detectGameplayEvents.                                                   *)
(***************************************************************************)
\* The server kicks the player for flying, and its log says so.
FlyingKick ==
    /\ mounted \in BanFlying
    /\ noticed' = noticed \cup {mounted}
    /\ UNCHANGED <<ask, mounted, listed, pc, timer, lost>>

\* runFlyingBan takes the slot's client of now, even if the detector's server
\* has been unmounted: the select may prefer a buffered line to the context.
RunFlyingBan(s) ==
    /\ s \in noticed
    /\ noticed' = noticed \ {s}
    /\ Fails("ban", Flying)
    /\ UNCHANGED <<ask, mounted, pc, timer, lost>>

DetectorEnds(s) ==
    /\ s \in noticed /\ mounted # s
    /\ noticed' = noticed \ {s}
    /\ UNCHANGED <<ask, mounted, listed, pc, timer, lost>>

(***************************************************************************)
(* The slot: a server is running in it, or not.                            *)
(***************************************************************************)
Mounts(s) ==
    /\ mounted = None
    /\ mounted' = s
    /\ UNCHANGED <<ask, listed, pc, timer, noticed, lost>>

Unmounts ==
    /\ mounted # None
    /\ mounted' = None
    /\ UNCHANGED <<ask, listed, pc, timer, noticed, lost>>

\* Handlers, detectors and sleeping unbans go with mcsm.
UnderWay == {r \in Requests : pc[r] \in {"first", "second", "answer"} \/ timer[r] = "sleeping"}

McsmDies ==
    /\ mounted' = None
    /\ pc' = [r \in Requests |-> IF r \in UnderWay /\ pc[r] # "done" THEN "refused" ELSE pc[r]]
    /\ timer' = [r \in Requests |-> IF timer[r] = "sleeping" THEN "over" ELSE timer[r]]
    /\ noticed' = {}
    /\ lost' = lost \cup UnderWay
    /\ UNCHANGED <<ask, listed>>

-----------------------------------------------------------------------------
Handler(r) == First(r) \/ FirstFails(r) \/ Second(r) \/ Answer(r)

Next ==
    \/ \E r \in Requests : RequireRunning(r) \/ Handler(r) \/ Unban(r)
    \/ \E s \in Servers : RunFlyingBan(s) \/ DetectorEnds(s) \/ Mounts(s)
    \/ FlyingKick \/ Unmounts \/ McsmDies

Spec == Init /\ [][Next]_vars

\* Commands have a deadline, and a sleep comes to its end.
Fairness == \A r \in Requests : WF_vars(Handler(r)) /\ WF_vars(Unban(r))

FairSpec == Spec /\ Fairness

-----------------------------------------------------------------------------
(***************************************************************************)
(* Properties.                                                             *)
(***************************************************************************)
\* A ban whose duration the handler understands ends: its unban comes, unless
\* the handler answered an error, mcsm died ("survives only as long as mcsm is
\* running"), or the server was not the one mounted when the time was over.
TimedBanEnds ==
    \A r \in Requests, s \in Servers :
        Banned(s, r) /\ TimedBan(r) ~> ~Banned(s, r) \/ r \in lost
=============================================================================
