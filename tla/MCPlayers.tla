----------------------------- MODULE MCPlayers -----------------------------
(***************************************************************************)
(* Players for TLC: every handler, and bans without a duration and with    *)
(* one that time.ParseDuration knows or does not know.                     *)
(***************************************************************************)
EXTENDS Players

MCAsks == [kind : {"ban"}, duration : Durations]
            \cup {[kind |-> "banIp", duration |-> "24h"]}
            \cup [kind : DOMAIN Script \ {"ban", "banIp"}, duration : {""}]
=============================================================================
