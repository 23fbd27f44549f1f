-------------------------------- MODULE Rcon --------------------------------
(***************************************************************************)
(* The RCON client of a mounted slot (internal/rcon) and the server behind *)
(* it: one connection, one mutex, and requests told apart only by an id.   *)
(* A caller that gives up leaves its reply in the connection for the next  *)
(* one to read.  The modules that use the client EXTEND this one and say   *)
(* when a caller issues a command and what it does with the outcome.       *)
(***************************************************************************)
EXTENDS Naturals, Sequences

CONSTANTS MaxId,  \* the largest request id, 2^31 - 1 in the code
          None    \* nobody, or nothing

ASSUME RconAssumption == MaxId \in Nat \ {0}

VARIABLES
    conn,     \* "open", or what ended it: "jvmGone" or "mcsmGone"
    lastId,   \* c.id
    given,    \* history: how many ids have been given
    current,  \* the request whose caller holds c.mu, or None
    inbox,    \* the requests the server has not executed yet
    outbox,   \* the replies nobody has read yet, named by their requests
    saving    \* the server's autosave, on unless "save-off" was executed last

rconVars == <<conn, lastId, given, current, inbox, outbox, saving>>

Verbs == {"save-off", "flush", "save-on", "other"}

\* nth is no part of the packet: it counts the ids given up to this one.
RequestsOf(callers) == [id : 1 .. MaxId, nth : Nat \ {0}, from : callers, verb : Verbs]

RconTypeOK(callers) ==
    /\ conn \in {"open", "jvmGone", "mcsmGone"}
    /\ lastId \in 0 .. MaxId
    /\ given \in Nat
    /\ current \in RequestsOf(callers) \cup {None}
    /\ inbox \in Seq(RequestsOf(callers))
    /\ outbox \in Seq(RequestsOf(callers))
    /\ saving \in BOOLEAN

\* Dial has authenticated, with request 1.
RconInit ==
    /\ conn = "open"
    /\ lastId = 1
    /\ given = 1
    /\ current = None
    /\ inbox = <<>>
    /\ outbox = <<>>
    /\ saving = TRUE

InFlight(p) == current # None /\ current.from = p

-----------------------------------------------------------------------------
\* nextID: ids stay positive when the counter overflows.
NextId == IF lastId = MaxId THEN 1 ELSE lastId + 1

TakesId == lastId' = NextId /\ given' = given + 1

\* Cmd of caller p: take c.mu and write the packet.
Send(p, verb) ==
    /\ conn = "open"
    /\ current = None
    /\ TakesId
    /\ current' = [id |-> NextId, nth |-> given + 1, from |-> p, verb |-> verb]
    /\ inbox' = Append(inbox, current')
    /\ UNCHANGED <<conn, outbox, saving>>

\* Or the caller's deadline has passed when it gets c.mu, which it waits for
\* without looking at its context: the packet is not written.
WriteFails ==
    /\ conn = "open"
    /\ current = None
    /\ TakesId
    /\ UNCHANGED <<conn, current, inbox, outbox, saving>>

\* readPacket returns the next reply; c.mu is released.
ReadReply(p) ==
    /\ conn = "open"
    /\ InFlight(p)
    /\ outbox # <<>>
    /\ outbox' = Tail(outbox)
    /\ current' = None
    /\ UNCHANGED <<conn, lastId, given, inbox, saving>>

Answered_AnyId(p) == ReadReply(p)
Answered(p) == ReadReply(p) /\ Head(outbox).id = current.id
Mismatched(p) == ReadReply(p) /\ Head(outbox).id # current.id

GiveUp_KeepsMutex(p) ==
    /\ InFlight(p)
    /\ UNCHANGED rconVars

\* The deadline passes, or the connection fails under the read.
GiveUp(p) ==
    /\ InFlight(p)
    /\ current' = None
    /\ UNCHANGED <<conn, lastId, given, inbox, outbox, saving>>

-----------------------------------------------------------------------------
\* The server executes a request, and replies while there is a connection.
Execute ==
    /\ inbox # <<>>
    /\ inbox' = Tail(inbox)
    /\ outbox' = IF conn = "open" THEN Append(outbox, Head(inbox)) ELSE outbox
    /\ saving' = CASE Head(inbox).verb = "save-off" -> FALSE
                   [] Head(inbox).verb = "save-on"  -> TRUE
                   [] OTHER                         -> saving
    /\ UNCHANGED <<conn, lastId, given, current>>

\* The JVM goes, and watchExit closes the client.  The next JVM autosaves.
JvmGone ==
    /\ conn = "open"
    /\ conn' = "jvmGone"
    /\ saving' = TRUE
    /\ inbox' = <<>>
    /\ outbox' = <<>>
    /\ UNCHANGED <<lastId, given, current>>

\* mcsm dies; the JVM lives on in its own process group, with its autosave.
McsmGone ==
    /\ conn' = "mcsmGone"
    /\ current' = None
    /\ outbox' = <<>>
    /\ UNCHANGED <<lastId, given, inbox, saving>>
=============================================================================
