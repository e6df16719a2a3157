------------------------- MODULE PlaceholderResend -------------------------
(***************************************************************************)
(* requestPlaceholderResend of lib/messages-send.js: a message that could  *)
(* not be read is asked for at the phone, unless it comes within five      *)
(* seconds.  All calls share the map of pending requests, which the        *)
(* listener of messages.upsert and the timeout of fifteen seconds clear.   *)
(* The listener looks at the id alone: a placeholder that is emitted again,*)
(* because a resent stanza cannot be read either, clears the entry as the  *)
(* message does.  Timers may be late; one tick is five seconds.            *)
(***************************************************************************)
EXTENDS Integers, Sequences

CONSTANTS Missed,       \* the messages that could not be read
          MaxRequests,  \* bounds: calls, and the last instant
          MaxTicks

ASSUME ResendAssumption == MaxRequests \in Nat /\ MaxTicks \in Nat

VARIABLES tick,
          pending,   \* _pendingResends
          requests,  \* the calls: message, where it is, and when it is due
          timeouts,  \* the running timeouts: message and when they are due
          answers, \* what the phone sent again, before it is emitted
          came,    \* history: the messages that came since they were asked for,
          repeated \* and those whose placeholder came again since then

resendVars == <<tick, pending, requests, timeouts, answers, came, repeated>>

WaitTicks == 1
TimeoutTicks == 3

ResendInit ==
    tick = 0 /\ pending = {} /\ requests = <<>> /\ timeouts = {} /\ answers = {}
    /\ came = {} /\ repeated = {}

Call(m, pc) == Append(requests, [message |-> m, pc |-> pc, due |-> tick + WaitTicks])

\* Plausible bug: a request is noted when it goes out.
RequestPlaceholderResend_Late(m) ==
    /\ Len(requests) < MaxRequests
    /\ IF m \in pending THEN requests' = Call(m, "ignored") ELSE requests' = Call(m, "waiting")
    /\ UNCHANGED <<tick, pending, timeouts, answers, came, repeated>>

RequestPlaceholderResend(m) ==
    /\ Len(requests) < MaxRequests
    /\ requests' = Call(m, IF m \in pending THEN "ignored" ELSE "waiting")
    /\ pending' = pending \cup {m}
    /\ UNCHANGED <<tick, timeouts, answers, came, repeated>>

\* The wait is over: the message came, or it is asked for in a message to the
\* phone.
WaitOver(c) ==
    /\ requests[c].pc = "waiting" /\ requests[c].due <= tick
    /\ IF requests[c].message \in pending
       THEN /\ requests' = [requests EXCEPT ![c].pc = "sending"]
            /\ timeouts' = timeouts \cup {[message |-> requests[c].message, due |-> tick + TimeoutTicks]}
       ELSE /\ requests' = [requests EXCEPT ![c].pc = "resolved"]
            /\ UNCHANGED timeouts
    /\ UNCHANGED <<tick, pending, answers, came, repeated>>

\* relayMessage returns or throws; the timeout runs on.
Relayed(c) ==
    /\ requests[c].pc = "sending"
    /\ requests' = [requests EXCEPT ![c].pc = "sent"]
    /\ UNCHANGED <<tick, pending, timeouts, answers, came, repeated>>

Timeout(t) ==
    /\ t.due <= tick
    /\ timeouts' = timeouts \ {t}
    /\ pending' = pending \ {t.message}
    /\ UNCHANGED <<tick, requests, answers, came, repeated>>

AskedFor(m) == \E c \in DOMAIN requests : requests[c].message = m
Noted(m, set) == IF AskedFor(m) THEN set \cup {m} ELSE set

\* The listener of messages.upsert, whatever brought an upsert of this id.
Comes(m) ==
    /\ pending' = pending \ {m}
    /\ UNCHANGED <<tick, requests, timeouts>>

\* The message itself, or a placeholder again: decrypt() failed, which marks the
\* message CIPHERTEXT, or the handler of the stanza did.
Upserted(m) == Comes(m) /\ came' = Noted(m, came) /\ UNCHANGED <<answers, repeated>>

PlaceholderUpserted(m) == Comes(m) /\ repeated' = Noted(m, repeated) /\ UNCHANGED <<answers, came>>

\* The phone's response: what it brings is emitted half a second later.
PhoneAnswers(m) ==
    /\ \E c \in DOMAIN requests : requests[c].pc \in {"sending", "sent"} /\ requests[c].message = m
    /\ answers' = answers \cup {m}
    /\ UNCHANGED <<tick, pending, requests, timeouts, came, repeated>>

AnswerEmitted(m) ==
    /\ m \in answers /\ answers' = answers \ {m}
    /\ Comes(m) /\ came' = Noted(m, came) /\ UNCHANGED repeated

Ticks ==
    /\ tick < MaxTicks
    /\ tick' = tick + 1
    /\ UNCHANGED <<pending, requests, timeouts, answers, came, repeated>>

ResendNext ==
    \/ \E m \in Missed : \/ RequestPlaceholderResend(m) \/ PhoneAnswers(m)
                          \/ Upserted(m) \/ PlaceholderUpserted(m) \/ AnswerEmitted(m)
    \/ \E c \in DOMAIN requests : WaitOver(c) \/ Relayed(c)
    \/ \E t \in timeouts : Timeout(t)
    \/ Ticks

ResendSpec == ResendInit /\ [][ResendNext]_resendVars
-----------------------------------------------------------------------------
\* A caller is told RESOLVED only of a message that was upserted since it was
\* first asked for, even when it was the timeout of an earlier request that took
\* the entry away; and two calls wait for one message at a time only if it was
\* upserted between them.  What was upserted need not be the message: the
\* listener does not tell it from another placeholder, so RESOLVED can mean that
\* a resent stanza was not readable either.
ResolvedHasCome ==
    \A c \in DOMAIN requests :
        /\ requests[c].pc = "resolved" => requests[c].message \in came \cup repeated
        /\ \A d \in DOMAIN requests :
            c # d /\ requests[c].message = requests[d].message
                  /\ requests[c].pc = "waiting" /\ requests[d].pc = "waiting"
                => requests[c].message \in came \cup repeated
=============================================================================
