---------------------------- MODULE Attachments ----------------------------
(***************************************************************************)
(* What is attached to a message: reactions, receipts and votes, merged by *)
(* the helpers of lib/messages.js, which both the event buffer of          *)
(* lib/event-buffer.js and the application use.  While events are held     *)
(* back, a reaction or a receipt is merged into the message, if that is    *)
(* held back too, or waits beside it.  Votes reach the message of the      *)
(* application itself, which counts them.                                  *)
(***************************************************************************)
EXTENDS Integers, Sequences, FiniteSets

CONSTANTS Attachers,    \* the authors, getKeyAuthor of their keys
          Options,      \* of the poll
          Texts,        \* of reactions; "" takes one back
          MaxAttached   \* bound: how much is attached

ASSUME AttachmentsAssumption == MaxAttached \in Nat

VARIABLES holding,   \* whether events are held back
          heldBack,  \* the message in the buffer: what it has, or NoMessage
          beside,    \* the reactions and receipts in the buffer
          shown,     \* the message of the application
          newest,    \* history: what each author attached last
          passed,    \* history: authors of what waited when the message came
          attached   \* how much was attached

attachVars == <<holding, heldBack, beside, shown, newest, passed, attached>>

NoMessage == [there |-> FALSE, reactions |-> <<>>, receipts |-> <<>>, votes |-> <<>>]
Fresh0 == [NoMessage EXCEPT !.there = TRUE]
Unread == [read |-> 0, delivered |-> 0]
Nothing0 == [reaction |-> [a \in Attachers |-> <<>>], receipt |-> [a \in Attachers |-> Unread],
             vote |-> [a \in Attachers |-> {}]]

\* filter: the elements of a list that are at some positions.
Filtered(list, keep) ==
    LET kept[n \in 0 .. Len(list)] ==
            IF n = 0 THEN <<>> ELSE IF n \in keep THEN Append(kept[n - 1], list[n]) ELSE kept[n - 1]
    IN kept[Len(list)]

OfAuthor(list, author) == {n \in DOMAIN list : list[n].author = author}
Without(list, author) == Filtered(list, DOMAIN list \ OfAuthor(list, author))

WithReaction(m, a, text) == [m EXCEPT !.reactions = Append(Without(@, a), [author |-> a, text |-> text])]

\* Plausible bug: a vote is taken for a withdrawn one when it comes again.
WithVote_Kept(m, a, options) ==
    [m EXCEPT !.votes = IF options = {} THEN @ ELSE Append(Without(@, a), [author |-> a, options |-> options])]

WithVote(m, a, options) ==
    [m EXCEPT !.votes = IF options = {} THEN Without(@, a)
                        ELSE Append(Without(@, a), [author |-> a, options |-> options])]

\* Object.assign onto the receipt that the user has, and only what is in the new.
Assigned(receipt, what, at) == [receipt EXCEPT ![what] = at]
Stamped(entry, what, at) == [author |-> entry.author, times |-> Assigned(entry.times, what, at)]
WithReceipt(m, a, what, at) ==
    IF \E n \in DOMAIN m.receipts : m.receipts[n].author = a
    THEN [m EXCEPT !.receipts = [n \in DOMAIN @ |-> IF @[n].author = a THEN Stamped(@[n], what, at) ELSE @[n]]]
    ELSE [m EXCEPT !.receipts = Append(@, [author |-> a, times |-> Assigned(Unread, what, at)])]

\* getAggregateVotesInPollMessage.
Voters(m, option) == Filtered(m.votes, {n \in DOMAIN m.votes : option \in m.votes[n].options})

AttachInit ==
    /\ holding = FALSE /\ heldBack = NoMessage /\ beside = NoMessage /\ shown = NoMessage
    /\ newest = Nothing0 /\ passed = {} /\ attached = 0
-----------------------------------------------------------------------------
\* A merge goes to the message in the buffer, beside it, or to the application,
\* which looks only at messages it has.
Merges(Into(_)) ==
    IF ~holding
    THEN shown' = (IF shown.there THEN Into(shown) ELSE shown) /\ UNCHANGED <<heldBack, beside>>
    ELSE IF heldBack.there
    THEN heldBack' = Into(heldBack) /\ UNCHANGED <<beside, shown>>
    ELSE beside' = Into(beside) /\ UNCHANGED <<heldBack, shown>>

\* What comes before the message is shown or held back is for nobody.
Remembers(kind, a, x) ==
    newest' = IF holding \/ shown.there THEN [newest EXCEPT ![kind][a] = x] ELSE newest

Attaches ==
    /\ attached < MaxAttached
    /\ attached' = attached + 1
    /\ UNCHANGED <<holding, passed>>

Reacts(a, text) ==
    /\ Attaches
    /\ Merges(LAMBDA m : WithReaction(m, a, text))
    /\ Remembers("reaction", a, <<text>>)

Receives(a, what) ==
    /\ Attaches
    /\ Merges(LAMBDA m : WithReceipt(m, a, what, attached'))
    /\ Remembers("receipt", a, Assigned(newest.receipt[a], what, attached'))

\* A vote names each option once.
Votes(a, options) ==
    /\ ~holding /\ shown.there
    /\ Attaches
    /\ Merges(LAMBDA m : WithVote(m, a, options))
    /\ Remembers("vote", a, options)

\* messages.upsert, which leaves beside the message what waits there.
Waiting(a) == \E list \in {beside.reactions, beside.receipts} : \E n \in DOMAIN list : list[n].author = a

Upserts ==
    /\ ~shown.there /\ ~heldBack.there
    /\ passed' = {a \in Attachers : Waiting(a)}
    /\ IF holding THEN heldBack' = Fresh0 /\ UNCHANGED shown ELSE shown' = Fresh0 /\ UNCHANGED heldBack
    /\ UNCHANGED <<holding, beside, newest, attached>>

Holds ==
    /\ ~holding
    /\ holding' = TRUE
    /\ UNCHANGED <<heldBack, beside, shown, newest, passed, attached>>

\* collectConsolidated: the message, then what waited beside it, one by one.
Receipted(m, r) ==
    LET delivered == IF r.times.delivered = 0 THEN m ELSE WithReceipt(m, r.author, "delivered", r.times.delivered)
    IN IF r.times.read = 0 THEN delivered ELSE WithReceipt(delivered, r.author, "read", r.times.read)

AllReactions(m, list) ==
    LET after[n \in 0 .. Len(list)] ==
            IF n = 0 THEN m ELSE WithReaction(after[n - 1], list[n].author, list[n].text)
    IN after[Len(list)]

AllReceipts(m, list) ==
    LET after[n \in 0 .. Len(list)] == IF n = 0 THEN m ELSE Receipted(after[n - 1], list[n])
    IN after[Len(list)]

HandedOver ==
    LET m == IF heldBack.there THEN heldBack ELSE shown
    IN AllReceipts(AllReactions(m, beside.reactions), beside.receipts)

HandsOver ==
    /\ holding
    /\ holding' = FALSE
    /\ heldBack' = NoMessage /\ beside' = NoMessage
    /\ IF heldBack.there \/ shown.there
       THEN shown' = HandedOver /\ UNCHANGED newest
       ELSE UNCHANGED shown /\ newest' = Nothing0
    /\ UNCHANGED <<passed, attached>>

AttachNext ==
    \/ \E a \in Attachers : \/ \E text \in Texts : Reacts(a, text)
                            \/ \E what \in {"read", "delivered"} : Receives(a, what)
                            \/ \E options \in SUBSET Options : Votes(a, options)
    \/ Upserts \/ Holds \/ HandsOver

AttachSpec == AttachInit /\ [][AttachNext]_attachVars
-----------------------------------------------------------------------------
\* What a list has of an author: one entry.
Only(list, author, entry) == \E n \in DOMAIN list : OfAuthor(list, author) = {n} /\ list[n] = entry

\* Whatever part of them the buffer merged, a message that is shown has of each
\* author the newest reaction, in one entry, and the last of either time in one
\* receipt; and each option of a poll counts once everybody whose newest vote
\* has it, and nobody else.  Not so of what came before its message into one
\* buffer: it is handed over after the message, onto what is newer.
NewestOfEach ==
    ~holding /\ shown.there => \A a \in Attachers \ passed :
        /\ IF newest.reaction[a] = <<>> THEN OfAuthor(shown.reactions, a) = {}
           ELSE Only(shown.reactions, a, [author |-> a, text |-> newest.reaction[a][1]])
        /\ IF newest.receipt[a] = Unread THEN OfAuthor(shown.receipts, a) = {}
           ELSE Only(shown.receipts, a, [author |-> a, times |-> newest.receipt[a]])
        /\ \A o \in Options : Cardinality(OfAuthor(Voters(shown, o), a)) = IF o \in newest.vote[a] THEN 1 ELSE 0
=============================================================================
