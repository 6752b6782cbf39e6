------------------------------ MODULE LiveMessages ------------------------------
(***************************************************************************)
(* Live delivery of messages (internal/messaging, hub.go, and              *)
(* httpserver/messaging_handlers.go).  A socket has two goroutines: its    *)
(* reader, which is the request handler, and a writer that drains a        *)
(* bounded channel.  The hub, under one mutex, keeps the registered        *)
(* sockets of each channel.  Handlers store first and broadcast afterwards,*)
(* and each asks the database whether the session still stands.            *)
(***************************************************************************)
EXTENDS Integers, Sequences, FiniteSets

CONSTANTS
    Sockets,      \* connections that may be open at one time
    UserOf,       \* [Sockets -> Users]
    ChannelOf,    \* [Sockets -> "thread" or a user: that user's inbox]
    Users,        \* the candidate and the recruiter of one thread
    Letters,      \* bound: messages of the thread
    SenderOf,     \* [Letters -> Users]
    Buffer,       \* capacity of a socket's channel
    MaxTotal,     \* Hub.maxTotal
    MaxPerThread  \* Hub.maxPerThread

VARIABLES
    hubClosed, members, total,      \* the hub
    socket,    \* [Sockets -> ...]: the connection and its reader
    writer,    \* [Sockets -> ...]: the writer goroutine
    queue, sendClosed,              \* the channel between them
    revoked,   \* users whose session no longer stands
    letter,    \* [Letters -> {"none", "unread", "read"}]: chat_messages
    toSend,    \* events of handlers that have committed and not yet broadcast
    heard,     \* sockets that wrote an event broadcast after the revocation (history)
    receipts   \* [Letters -> Nat]: read events announced (history)

hub == <<hubClosed, members, total>>
ends == <<socket, writer, queue, sendClosed>>
lettersVars == <<letter, receipts>>
liveVars == <<hub, ends, revoked, lettersVars, toSend, heard>>

Channels == {"thread"} \cup Users
Other(u) == CHOOSE v \in Users : v # u

Event(to, only, except) == [to |-> to, only |-> only, except |-> except]
Everyone(to) == Event(to, Users, {})

Init ==
    /\ hubClosed = FALSE /\ members = [c \in Channels |-> {}] /\ total = 0
    /\ socket = [s \in Sockets |-> "off"]
    /\ writer = [s \in Sockets |-> "gone"]
    /\ queue = [s \in Sockets |-> <<>>]
    /\ sendClosed = [s \in Sockets |-> TRUE]
    /\ revoked = {} /\ toSend = {} /\ heard = {}
    /\ letter = [m \in Letters |-> "none"]
    /\ receipts = [m \in Letters |-> 0]

-----------------------------------------------------------------------------
(* The hub                                                                 *)

Registered(s) == s \in members[ChannelOf[s]]

\* Sockets leave the hub and their channels are closed.
Leave(S) ==
    /\ members' = [c \in Channels |-> members[c] \ S]
    /\ sendClosed' = [s \in Sockets |-> sendClosed[s] \/ s \in S]

Register(s) ==
    LET c == ChannelOf[s]
    IN /\ socket[s] = "upgraded"
       /\ \/ /\ hubClosed \/ total >= MaxTotal \/ Cardinality(members[c]) >= MaxPerThread
             /\ socket' = [socket EXCEPT ![s] = "off"]
             /\ UNCHANGED <<members, total, sendClosed, queue, writer>>
          \/ /\ ~hubClosed /\ total < MaxTotal /\ Cardinality(members[c]) < MaxPerThread
             /\ members' = [members EXCEPT ![c] = @ \cup {s}]
             /\ total' = total + 1
             /\ socket' = [socket EXCEPT ![s] = "open"]
             /\ writer' = [writer EXCEPT ![s] = "waiting"]
             /\ queue' = [queue EXCEPT ![s] = <<>>]
             /\ sendClosed' = [sendClosed EXCEPT ![s] = FALSE]
       /\ UNCHANGED <<hubClosed, revoked, lettersVars, toSend, heard>>

\* Mutant: a socket the hub has dropped is counted out again.
UnregisterAgain(s) ==
    /\ Leave({s})
    /\ total' = total - 1

\* By the reader when it returns.
Unregister(s) ==
    /\ Leave({s} \cap members[ChannelOf[s]])
    /\ total' = IF Registered(s) THEN total - 1 ELSE total

\* Whom an event is for.
Audience(e) == {s \in members[e.to] : UserOf[s] \in e.only \ e.except}

\* Mutant: a full socket loses the event and stays.
FullNever(s) == FALSE

Full(s) == Len(queue[s]) = Buffer

\* A socket whose channel is full is dropped and its connection closed.
Broadcast(e) ==
    LET slow == {s \in Audience(e) : Full(s)}
        fed == {s \in Audience(e) : ~Full(s)}
    IN /\ e \in toSend
       /\ toSend' = toSend \ {e}
       /\ Leave(slow)
       /\ total' = total - Cardinality(slow)
       /\ socket' = [s \in Sockets |-> IF s \in slow THEN "cut" ELSE socket[s]]
       /\ queue' = [s \in Sockets |->
             IF s \in fed THEN Append(queue[s], UserOf[s] \in revoked) ELSE queue[s]]
       /\ UNCHANGED <<hubClosed, writer, revoked, lettersVars, heard>>

\* The server shuts down.
CloseHub ==
    LET all == UNION {members[c] : c \in Channels}
    IN /\ ~hubClosed
       /\ hubClosed' = TRUE
       /\ Leave(all)
       /\ total' = 0
       /\ socket' = [s \in Sockets |-> IF s \in all THEN "cut" ELSE socket[s]]
       /\ UNCHANGED <<writer, queue, revoked, lettersVars, toSend, heard>>

-----------------------------------------------------------------------------
(* A socket: messagingInboxSocket, messagingSocket                         *)

\* SessionAllowed: claims are checked against the database each time.
SessionAllowed(s) == UserOf[s] \notin revoked

\* The middleware has let the request in; the upgrade precedes the registration.
Connect(s) ==
    /\ socket[s] = "off" /\ writer[s] = "gone" /\ SessionAllowed(s)
    /\ socket' = [socket EXCEPT ![s] = "upgraded"]
    /\ UNCHANGED <<hub, writer, queue, sendClosed, revoked, lettersVars, toSend, heard>>

\* Mutant: the session is only asked for at the ping.
TakeUnasked(s) ==
    /\ writer[s] = "waiting" /\ queue[s] # <<>>
    /\ writer' = [writer EXCEPT ![s] = "writing"]
    /\ UNCHANGED <<hub, socket, queue, sendClosed, revoked, lettersVars, toSend, heard>>

\* The writer takes an event and asks before it writes.
Take(s) ==
    /\ writer[s] = "waiting" /\ queue[s] # <<>>
    /\ writer' = [writer EXCEPT ![s] = IF SessionAllowed(s) THEN "writing" ELSE "ending"]
    /\ UNCHANGED <<hub, socket, queue, sendClosed, revoked, lettersVars, toSend, heard>>

Write(s) ==
    /\ writer[s] = "writing"
    /\ heard' = IF Head(queue[s]) /\ socket[s] = "open" THEN heard \cup {s} ELSE heard
    /\ queue' = [queue EXCEPT ![s] = Tail(@)]
    /\ writer' = [writer EXCEPT ![s] = IF socket[s] = "open" THEN "waiting" ELSE "ending"]
    /\ UNCHANGED <<hub, socket, sendClosed, revoked, lettersVars, toSend>>

\* Mutant: the ping does not ask.
PingUnasked(s) ==
    /\ writer[s] = "waiting" /\ socket[s] # "open"
    /\ writer' = [writer EXCEPT ![s] = "ending"]
    /\ UNCHANGED <<hub, socket, queue, sendClosed, revoked, lettersVars, toSend, heard>>

\* Every 25 seconds: ask again, and ping.
Ping(s) ==
    /\ writer[s] = "waiting" /\ (~SessionAllowed(s) \/ socket[s] # "open")
    /\ writer' = [writer EXCEPT ![s] = "ending"]
    /\ UNCHANGED <<hub, socket, queue, sendClosed, revoked, lettersVars, toSend, heard>>

ChannelClosed(s) ==
    /\ writer[s] = "waiting" /\ queue[s] = <<>> /\ sendClosed[s]
    /\ writer' = [writer EXCEPT ![s] = "ending"]
    /\ UNCHANGED <<hub, socket, queue, sendClosed, revoked, lettersVars, toSend, heard>>

\* The writer of a thread's socket closes the connection; that of an inbox leaves it
\* to the reader's deadline.
WriterReturns(s) ==
    /\ writer[s] = "ending"
    /\ writer' = [writer EXCEPT ![s] = "gone"]
    /\ socket' = [socket EXCEPT ![s] = IF @ = "open" /\ ChannelOf[s] = "thread" THEN "cut" ELSE @]
    /\ UNCHANGED <<hub, queue, sendClosed, revoked, lettersVars, toSend, heard>>

\* The connection is closed, its peer leaves, or no pong extends the deadline.
ReaderReturns(s) ==
    /\ socket[s] \in {"open", "cut"}
    /\ socket' = [socket EXCEPT ![s] = "off"]
    /\ Unregister(s)
    /\ UNCHANGED <<hubClosed, writer, queue, revoked, lettersVars, toSend, heard>>

\* The part of ReaderReturns that must happen.
ReaderMustReturn(s) == (socket[s] = "cut" \/ writer[s] = "gone") /\ ReaderReturns(s)

-----------------------------------------------------------------------------
(* Requests                                                                *)

\* SendMessage, by a socket or the endpoint: stored, and then announced to the
\* thread, to both inboxes, and to the candidate's notifications.
Announcement(m) == {Everyone("thread"), Everyone(Other(SenderOf[m])), Everyone(SenderOf[m])}

SendMessage(m) ==
    /\ letter[m] = "none" /\ SenderOf[m] \notin revoked
    /\ letter' = [letter EXCEPT ![m] = "unread"]
    /\ toSend' = toSend \cup Announcement(m)
    /\ UNCHANGED <<hub, ends, revoked, receipts, heard>>

Typing(s) ==
    /\ socket[s] = "open" /\ ChannelOf[s] = "thread" /\ SessionAllowed(s)
    /\ toSend' = toSend \cup {Event("thread", Users, {UserOf[s]})}
    /\ UNCHANGED <<hub, ends, revoked, lettersVars, heard>>

\* Mutant: what was read before is announced again.
UnreadOfAnyState(u, S) == {m \in S : letter[m] # "none" /\ SenderOf[m] # u}

UnreadOf(u, S) == {m \in S : letter[m] = "unread" /\ SenderOf[m] # u}

\* MarkMessagesRead: the rows that changed are announced to their sender only.
MarkMessagesRead(u, S) ==
    LET now == UnreadOf(u, S)
    IN /\ now # {}
       /\ letter' = [m \in Letters |-> IF m \in now THEN "read" ELSE letter[m]]
       /\ receipts' = [m \in Letters |-> receipts[m] + (IF m \in now THEN 1 ELSE 0)]
       /\ toSend' = toSend \cup {Event("thread", {SenderOf[m]}, {}) : m \in now}
       /\ UNCHANGED <<hub, ends, revoked, heard>>

\* The whole thread, by the endpoint.
MarkThreadRead(u) ==
    /\ UnreadOf(u, Letters) # {} /\ u \notin revoked
    /\ letter' = [m \in Letters |-> IF m \in UnreadOf(u, Letters) THEN "read" ELSE letter[m]]
    /\ toSend' = toSend \cup {Everyone(u)}
    /\ UNCHANGED <<hub, ends, revoked, receipts, heard>>

\* Logout, suspension, a forced reset: the session stands no more.
Revoke(u) ==
    /\ u \notin revoked
    /\ revoked' = revoked \cup {u}
    /\ UNCHANGED <<hub, ends, lettersVars, toSend, heard>>

SocketStep(s) ==
    \/ Register(s) \/ Take(s) \/ Write(s) \/ ChannelClosed(s) \/ WriterReturns(s)
    \/ Ping(s)

Next ==
    \/ \E s \in Sockets : Connect(s) \/ SocketStep(s) \/ ReaderReturns(s) \/ Typing(s)
    \/ \E e \in toSend : Broadcast(e)
    \/ CloseHub
    \/ \E m \in Letters : SendMessage(m)
    \/ \E u \in Users : MarkThreadRead(u) \/ Revoke(u) \/ \E S \in SUBSET Letters : MarkMessagesRead(u, S)

Spec == Init /\ [][Next]_liveVars

\* Goroutines run, the ticker ticks, and the read deadline passes once nothing pings.
Fairness ==
    \A s \in Sockets : WF_liveVars(SocketStep(s)) /\ WF_liveVars(ReaderMustReturn(s))

FairSpec == Spec /\ Fairness

-----------------------------------------------------------------------------
(* Properties                                                              *)

\* The hub's count is that of its sockets, within its limits; a registered socket's
\* channel is open (a send to a closed one would panic) and a dropped one's closed.
HubConsistent ==
    /\ total = Cardinality({s \in Sockets : Registered(s)})
    /\ total <= MaxTotal
    /\ \A s \in Sockets : Registered(s) <=> ~sendClosed[s]
    /\ hubClosed => total = 0

\* A socket writes nothing that was broadcast after its session was revoked.
RevokedHearsNothing == heard = {}

\* A message is announced as read once, whatever tabs read it together.
ReceiptOnce == \A m \in Letters : receipts[m] <= 1

\* A revoked session's sockets leave the hub and free their place, although the
\* writer of an inbox does not close its connection.
RevokedDisconnects ==
    \A s \in Sockets : UserOf[s] \in revoked ~> socket[s] = "off" /\ ~Registered(s)

=============================================================================
