-------------------------------- MODULE Spool --------------------------------
(***************************************************************************)
(* The Claude Code plugin's capture of a session: hook processes that      *)
(* allocate an ordinal under the session's file lock, spool an envelope    *)
(* and flush the spool towards a server that may be away, may refuse, or   *)
(* may lose its answer (integrations/claude-code/scripts).                 *)
(***************************************************************************)
EXTENDS Integers, FiniteSets

CONSTANTS
    Hooks,      \* the processes: hooks, the detached flush, the doctor
    Times,      \* what the wall clock may show; it may be set back
    RetryFor,   \* a hook is taken for a retry that long: 8 s
    Remembered, \* events that the session file keeps: 256
    Sessions    \* the sessions that are looked at, with their bounds

ASSUME SpoolAssumption ==
    /\ Times \subseteq Nat /\ Times # {} /\ RetryFor \in Nat /\ Remembered \in Nat \ {0}
    /\ Sessions \subseteq
        [messages : Nat,    \* bound: messages of the session
         again : Nat,       \* bound: hooks that are run again
         turns : BOOLEAN,   \* whether the payload carries a turn id
         texts : SUBSET {"x", "y"}]

VARIABLES
    session,  \* one of Sessions, which does not change
    heard,    \* the texts of the messages so far
    retries,  \* hooks run again so far
    file,     \* the session file: the next ordinal, its events, the last one
    pending,  \* the envelopes in pending/, by dedupe key ...
    failed,   \* ... and the keys in failed/
    server,   \* the stored records
    hook,     \* memory of the processes
    spooled   \* history: keys that were enqueued

spoolVars == <<session, heard, retries, file, pending, failed, server, hook, spooled>>

NoEvent == [key |-> <<0, 0>>, text |-> "", at |-> -1]
NoEnvelope == [key |-> <<0, 0>>, message |-> 0, ordinal |-> 0]
Resting == [phase |-> "idle", holds |-> NoEnvelope, list |-> {}]

SpoolInit ==
    /\ session \in Sessions
    /\ heard = <<>> /\ retries = 0
    /\ file = [next |-> 0, events |-> {}, last |-> NoEvent]
    /\ pending = {} /\ failed = {} /\ server = {} /\ spooled = {}
    /\ hook = [h \in Hooks |-> Resting]

Listed == {e.key : e \in pending}

\* The persisted floor.
Ordinal(next, now) == IF now > next THEN now ELSE next

\* Fault: the dedupe key is drawn afresh.
FreshToken(message, ordinal) == <<0, ordinal>>

\* dedupe_key: the turn, or else the ordinal.
Token(message, ordinal) == IF session.turns THEN <<message, 0>> ELSE <<0, ordinal>>

\* The event that a hook may be a retry of: that of its turn, or the last one
\* if it says the same and is recent.
RetryOf(message, text, now) ==
    {e \in file.events :
        IF session.turns THEN e.message = message
        ELSE /\ e.key = file.last.key /\ file.last.text = text
             /\ now - file.last.at <= RetryFor}

Kept(events) == {e \in events : Cardinality({f \in events : f.ordinal > e.ordinal}) < Remembered}

(***************************************************************************)
(* _record_message: allocate_event under the lock, then the spool.         *)
(***************************************************************************)
Allocate(h, message, text, now) ==
    LET ordinal == Ordinal(file.next, now)
        event == [key |-> Token(message, ordinal), message |-> message, ordinal |-> ordinal] IN
    IF RetryOf(message, text, now) # {}
    THEN hook' = [hook EXCEPT ![h] = [Resting EXCEPT !.phase = "flushing", !.list = Listed]]
         /\ UNCHANGED file
    ELSE /\ file' = [next |-> ordinal + 1, events |-> Kept(file.events \cup {event}),
                     last |-> [key |-> event.key, text |-> text, at |-> now]]
         /\ hook' = [hook EXCEPT ![h] = [Resting EXCEPT !.phase = "allocated", !.holds = event]]

HearMessage(h) ==
    /\ hook[h].phase = "idle" /\ Cardinality(DOMAIN heard) < session.messages
    /\ \E text \in session.texts, now \in Times :
        LET message == Cardinality(DOMAIN heard) + 1 IN
        /\ heard' = [m \in 1 .. message |-> IF m = message THEN text ELSE heard[m]]
        /\ Allocate(h, message, text, now)
    /\ UNCHANGED <<session, retries, pending, failed, server, spooled>>

\* Claude Code runs a hook again, for a message whose hook died or was slow.
RunAgain(h) ==
    /\ hook[h].phase = "idle" /\ retries < session.again
    /\ retries' = retries + 1
    /\ \E message \in DOMAIN heard, now \in Times : Allocate(h, message, heard[message], now)
    /\ UNCHANGED <<session, heard, pending, failed, server, spooled>>

\* An envelope of the key that is there already is kept.
SpoolEnvelope(h) ==
    /\ hook[h].phase = "allocated"
    /\ pending' = IF hook[h].holds.key \in Listed THEN pending ELSE pending \cup {hook[h].holds}
    /\ spooled' = spooled \cup {hook[h].holds.key}
    /\ hook' = [hook EXCEPT ![h] = [Resting EXCEPT !.phase = "flushing",
                                       !.list = Listed \cup {hook[h].holds.key}]]
    /\ UNCHANGED <<session, heard, retries, file, failed, server>>

(***************************************************************************)
(* flush                                                                   *)
(***************************************************************************)
\* session_end and the doctor flush without a message.
BeginFlush(h) ==
    /\ hook[h].phase = "idle" /\ pending # {}
    /\ hook' = [hook EXCEPT ![h] = [Resting EXCEPT !.phase = "flushing", !.list = Listed]]
    /\ UNCHANGED <<session, heard, retries, file, pending, failed, server, spooled>>

\* The next file of the listing, in the order of the hashes (one order here).
NextFile(h) == CHOOSE key \in hook[h].list : TRUE

\* One that another process took raises, again where the handler quarantines it,
\* and ends the hook.
ReadEnvelope(h) ==
    /\ hook[h].phase = "flushing"
    /\ hook' = [hook EXCEPT ![h] =
            IF hook[h].list # {} /\ NextFile(h) \in Listed
            THEN [@ EXCEPT !.phase = "read", !.holds = CHOOSE e \in pending : e.key = NextFile(h)]
            ELSE Resting]
    /\ UNCHANGED <<session, heard, retries, file, pending, failed, server, spooled>>

\* Records by dedupe key: the same payload is a replay, another one a conflict.
Accepts(e) == \A r \in server : r.key = e.key => r = e

\* The request is made, and answered; or refused as a whole; or the server, or
\* its answer, does not arrive, and the flush ends.
Send(h) ==
    LET e == hook[h].holds IN
    /\ hook[h].phase = "read"
    /\ \/ /\ server' = IF Accepts(e) THEN server \cup {e} ELSE server
          /\ hook' = [hook EXCEPT ![h].phase = IF Accepts(e) THEN "ok" ELSE "refused"]
       \/ /\ hook' = [hook EXCEPT ![h].phase = "refused"]
          /\ UNCHANGED server
       \/ /\ hook' = [hook EXCEPT ![h].phase = "away"]
          /\ server' \in {server, IF Accepts(e) THEN server \cup {e} ELSE server}
    /\ UNCHANGED <<session, heard, retries, file, pending, failed, spooled>>

Unlinks(answer) == answer = "ok"

\* unlink(missing_ok), or the move to failed/, or the end of this flush.
Settle(h) ==
    LET answer == hook[h].phase
        key == hook[h].holds.key
        gone == {e \in pending : e.key = key}
        on == [hook EXCEPT ![h] = [Resting EXCEPT !.phase = "flushing", !.list = hook[h].list \ {key}]] IN
    /\ answer \in {"ok", "refused", "away"}
    /\ pending' = IF Unlinks(answer) \/ answer = "refused" THEN pending \ gone ELSE pending
    /\ failed' = IF answer = "refused" /\ gone # {} THEN failed \cup {key} ELSE failed
    /\ hook' = IF answer = "ok" \/ (answer = "refused" /\ gone # {}) THEN on
               ELSE [hook EXCEPT ![h] = Resting]
    /\ UNCHANGED <<session, heard, retries, file, server, spooled>>

\* Claude Code kills a hook that takes too long; a machine stops.
HookDies(h) ==
    /\ hook[h].phase # "idle"
    /\ hook' = [hook EXCEPT ![h] = Resting]
    /\ UNCHANGED <<session, heard, retries, file, pending, failed, server, spooled>>

(***************************************************************************)
SpoolNext ==
    \E h \in Hooks :
        \/ HearMessage(h) \/ RunAgain(h) \/ SpoolEnvelope(h) \/ BeginFlush(h)
        \/ ReadEnvelope(h) \/ Send(h) \/ Settle(h) \/ HookDies(h)

SpoolSpec == SpoolInit /\ [][SpoolNext]_spoolVars

(***************************************************************************)
(* Properties.                                                             *)
(***************************************************************************)
\* An envelope that was spooled is in one of the two directories until the
\* server has its record, whoever flushes, dies or is not answered; and the
\* server has a message once and no two with one ordinal, through hooks that
\* race, retries after the session file forgot them, resends of what was stored,
\* and a clock that is set back.
StoredOnce ==
    /\ \A key \in spooled : key \in Listed \cup failed \cup {r.key : r \in server}
    /\ \A r, s \in server :
        r.ordinal = s.ordinal \/ (session.turns /\ r.message = s.message) => r = s

\* docs/claude-code-plugin.md:408: each message stored once.  When nothing is
\* left to flush, every message that was heard is stored or quarantined.
Captured ==
    (\A h \in Hooks : hook[h].phase = "idle") /\ pending = {} /\ retries = session.again =>
        \A m \in DOMAIN heard : \E r \in server : r.message = m
=============================================================================
