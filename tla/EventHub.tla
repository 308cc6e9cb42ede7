------------------------------ MODULE EventHub ------------------------------
(***************************************************************************)
(* Server-sent events: the Hub and its read-write lock, the notifiers that *)
(* broadcast to it, the bridge from Redis pub/sub (RedisSubscriber) and    *)
(* the streams of connected administrators (SSEHandler.Stream).            *)
(*                                                                         *)
(* A broadcaster is a goroutine of this process that notifies, or the      *)
(* bridge.  An event is the broadcaster and the number of its event, so    *)
(* that order and loss can be told.  A stream is one connection: its       *)
(* client id is fresh, it registers and unregisters once.                  *)
(***************************************************************************)
EXTENDS Naturals, Sequences, Functions

CONSTANTS
    Stream,     \* connections of administrators
    Goroutine,  \* goroutines that notify in this process
    Bridge,     \* the goroutine of RedisSubscriber.Start
    None,       \* no goroutine
    Capacity,   \* slots of a client's channel
    MaxEvent,   \* bound on the events of all broadcasters
    MaxBreak    \* bound on the times the subscription drops

Broadcaster == Goroutine \cup {Bridge}

ASSUME ConstAssumption ==
    /\ Bridge \notin Goroutine
    /\ None \notin Stream
    /\ Capacity \in Nat \ {0} /\ MaxEvent \in Nat /\ MaxBreak \in Nat

VARIABLES
    clients,    \* h.clients: the registered streams
    channel,    \* channel[s]: is it open, and the events it holds
    pending,    \* the stream that has called Lock and waits for the readers
    cast,       \* cast[b]: where b's broadcast stands; "send" holds the read lock
    conn,       \* conn[s]: where the handler of the stream s stands
    link,       \* the bridge: its subscription and the messages not yet broadcast
    sent,       \* sent[b]: events b has begun, for the bridge: published
    stopping,   \* the context of the process is cancelled
    breaks,     \* times the subscription has dropped
    got,        \* got[s]: events written to the connection s
    due,        \* due[s]: events begun while s was registered
    full,       \* full[s]: events that found the channel of s full
    panicked    \* a send on a closed channel

lockVars == <<clients, channel, pending>>
seen == <<got, due, full, panicked>>
vars == <<lockVars, cast, conn, link, sent, stopping, breaks, seen>>

Init ==
    /\ clients = {}
    /\ channel = [s \in Stream |-> [open |-> FALSE, q |-> <<>>]]
    /\ pending = None
    /\ cast = [b \in Broadcaster |-> [pc |-> "idle", todo |-> {}]]
    /\ conn = [s \in Stream |-> "off"]
    /\ link = [pc |-> "subscribe", up |-> FALSE, inbox |-> <<>>]
    /\ sent = [b \in Broadcaster |-> 0]
    /\ stopping = FALSE
    /\ breaks = 0
    /\ got = [s \in Stream |-> <<>>]
    /\ due = [s \in Stream |-> {}]
    /\ full = [s \in Stream |-> {}]
    /\ panicked = FALSE

-----------------------------------------------------------------------------
(***************************************************************************)
(* The lock.  Lock announces the writer, which keeps later readers out,    *)
(* then waits until the readers inside have left.  What a writer does      *)
(* inside is one step: nobody else is inside.                              *)
(***************************************************************************)

Readers == {b \in Broadcaster : cast[b].pc = "send"}

WriterMayEnter(s) == pending = s /\ Readers = {}
ReaderMayEnter == pending = None

\* Hub.Register: a new channel under a new id.
Register(s) ==
    /\ conn[s] = "register"
    /\ WriterMayEnter(s)
    /\ clients' = clients \cup {s}
    /\ channel' = [channel EXCEPT ![s] = [open |-> TRUE, q |-> <<>>]]
    /\ pending' = None
    /\ conn' = [conn EXCEPT ![s] = "on"]
    /\ UNCHANGED <<cast, link, sent, stopping, breaks, seen>>

\* The client goes and its channel is closed: nobody reads what it still holds,
\* and what the stream has seen is of no interest any more.
Close(s) ==
    /\ clients' = clients \ {s}
    /\ channel' = [channel EXCEPT ![s] = [open |-> FALSE, q |-> <<>>]]
    /\ pending' = None
    /\ conn' = [conn EXCEPT ![s] = "over"]
    /\ got' = [got EXCEPT ![s] = <<>>]
    /\ due' = [due EXCEPT ![s] = {}]
    /\ full' = [full EXCEPT ![s] = {}]
    /\ UNCHANGED <<cast, link, sent, stopping, breaks, panicked>>

\* Hub.Unregister.
UnregisterUnlocked(s) == conn[s] = "unregister" /\ Close(s)  \* mutant: no Lock
Unregister(s) == conn[s] = "unregister" /\ WriterMayEnter(s) /\ Close(s)

-----------------------------------------------------------------------------
(***************************************************************************)
(* Broadcasts.                                                             *)
(***************************************************************************)

MayBegin == FoldFunction(+, 0, sent) < MaxEvent
Stand(b, pc, todo) == cast' = [cast EXCEPT ![b] = [pc |-> pc, todo |-> todo]]
Begin(b) == due' = [s \in Stream |-> IF s \in clients THEN due[s] \cup {<<b, sent'[b]>>}
                                                      ELSE due[s]]

\* HubNotifier: a transaction or a payment was created or changed its status.
Notify(b) ==
    /\ cast[b].pc = "idle"
    /\ MayBegin
    /\ sent' = [sent EXCEPT ![b] = @ + 1]
    /\ Stand(b, "count", {})
    /\ Begin(b)
    /\ UNCHANGED <<lockVars, conn, link, stopping, breaks, got, full, panicked>>

\* ClientCount, and the return when nobody listens.
ListenedByTwo == \E s, t \in clients : s # t     \* mutant: <= 1 for == 0
Listened == clients # {}
Count(b) ==
    /\ cast[b].pc = "count"
    /\ ReaderMayEnter
    /\ Stand(b, IF Listened THEN "enter" ELSE "idle", {})
    /\ UNCHANGED <<lockVars, conn, link, sent, stopping, breaks, seen>>

\* Broadcast, BroadcastPayment, BroadcastRaw: the clients there are under RLock.
Enter(b) ==
    /\ cast[b].pc = "enter"
    /\ ReaderMayEnter
    /\ Stand(b, "send", clients)
    /\ UNCHANGED <<lockVars, conn, link, sent, stopping, breaks, seen>>

EventOf(b) == <<b, IF b = Bridge THEN Head(link.inbox) ELSE sent[b]>>

\* select with a default: a full channel never makes the broadcaster wait.
SendWaits(s) == channel[s].open => Len(channel[s].q) < Capacity  \* mutant: no default
MaySend(s) == TRUE
Send(b, s) ==
    /\ cast[b].pc = "send" /\ s \in cast[b].todo
    /\ MaySend(s)
    /\ Stand(b, "send", cast[b].todo \ {s})
    /\ IF ~channel[s].open
       THEN panicked' = TRUE /\ UNCHANGED <<channel, full>>
       ELSE IF Len(channel[s].q) < Capacity
       THEN /\ channel' = [channel EXCEPT ![s].q = Append(@, EventOf(b))]
            /\ UNCHANGED <<full, panicked>>
       ELSE /\ full' = [full EXCEPT ![s] = @ \cup {EventOf(b)}]
            /\ UNCHANGED <<channel, panicked>>
    /\ UNCHANGED <<clients, pending, conn, link, sent, stopping, breaks, got, due>>

\* RUnlock; the bridge goes on to its next message.
Leave(b) ==
    /\ cast[b].pc = "send" /\ cast[b].todo = {}
    /\ Stand(b, "idle", {})
    /\ link' = IF b = Bridge THEN [link EXCEPT !.inbox = Tail(@)] ELSE link
    /\ UNCHANGED <<lockVars, conn, sent, stopping, breaks, seen>>

-----------------------------------------------------------------------------
(***************************************************************************)
(* The bridge.  Redis keeps nothing for who is not subscribed.             *)
(***************************************************************************)

\* RedisPublishNotifier in another process; an error is swallowed.
Publish ==
    /\ MayBegin
    /\ sent' = [sent EXCEPT ![Bridge] = @ + 1]
    /\ link' \in {link} \cup
         (IF link.up THEN {[link EXCEPT !.inbox = Append(@, sent'[Bridge])]} ELSE {})
    /\ UNCHANGED <<lockVars, cast, conn, stopping, breaks, seen>>

Subscribe ==
    /\ link.pc = "subscribe"
    /\ link' = [link EXCEPT !.pc = "consume", !.up = TRUE, !.inbox = <<>>]
    /\ UNCHANGED <<lockVars, cast, conn, sent, stopping, breaks, seen>>

\* The channel of the subscription closes; what it holds can still be read.
Drop ==
    /\ link.up /\ breaks < MaxBreak
    /\ breaks' = breaks + 1
    /\ link' = [link EXCEPT !.up = FALSE]
    /\ UNCHANGED <<lockVars, cast, conn, sent, stopping, seen>>

\* consume: BroadcastRaw of the next message, without asking who listens.
Consume ==
    /\ link.pc = "consume" /\ link.inbox # <<>> /\ cast[Bridge].pc = "idle"
    /\ Stand(Bridge, "enter", {})
    /\ due' = [s \in Stream |-> IF s \in clients
                 THEN due[s] \cup {EventOf(Bridge)} ELSE due[s]]
    /\ UNCHANGED <<lockVars, conn, link, sent, stopping, breaks, got, full, panicked>>

\* The subscription is lost: it is made again, after a second.
EndAfterLoss == "ended"     \* mutant: consume returns true for a closed channel
AfterLoss == "subscribe"
Lost ==
    /\ link.pc = "consume" /\ ~link.up /\ link.inbox = <<>>
    /\ link' = [link EXCEPT !.pc = AfterLoss]
    /\ UNCHANGED <<lockVars, cast, conn, sent, stopping, breaks, seen>>

\* ctx.Done, in consume or in the second of waiting.
StopBridge ==
    /\ stopping /\ link.pc # "stopped" /\ cast[Bridge].pc = "idle"
    /\ link' = [pc |-> "stopped", up |-> FALSE, inbox |-> <<>>]
    /\ UNCHANGED <<lockVars, cast, conn, sent, stopping, breaks, seen>>

Shutdown ==
    /\ ~stopping
    /\ stopping' = TRUE
    /\ UNCHANGED <<lockVars, cast, conn, link, sent, breaks, seen>>

-----------------------------------------------------------------------------
(***************************************************************************)
(* Streams.                                                                *)
(***************************************************************************)

\* A valid token; the server takes no new connection once it shuts down.  A
\* stream that waits for another writer is not told from one yet to come.
Connect(s) ==
    /\ conn[s] = "off" /\ ~stopping
    /\ pending = None
    /\ pending' = s
    /\ conn' = [conn EXCEPT ![s] = "register"]
    /\ UNCHANGED <<clients, channel, cast, link, sent, stopping, breaks, seen>>

\* The stream takes an event from its channel and writes it.  The server sets
\* no limit on how long the write may take: an administrator who reads nothing
\* keeps the stream from the next event for ever.
Receive(s) ==
    /\ conn[s] = "on" /\ channel[s].q # <<>>
    /\ channel' = [channel EXCEPT ![s].q = Tail(@)]
    /\ got' = [got EXCEPT ![s] = Append(@, Head(channel[s].q))]
    /\ UNCHANGED <<clients, pending, cast, conn, link, sent, stopping, breaks, due, full, panicked>>

\* The connection ends: the loop returns, the deferred Unregister runs.
Disconnect(s) ==
    /\ conn[s] = "on"
    /\ pending = None
    /\ pending' = s
    /\ conn' = [conn EXCEPT ![s] = "unregister"]
    /\ UNCHANGED <<clients, channel, cast, link, sent, stopping, breaks, seen>>

-----------------------------------------------------------------------------
Bridging == Subscribe \/ Consume \/ Lost \/ StopBridge

Next ==
    \/ \E s \in Stream : \/ Register(s) \/ Unregister(s) \/ Connect(s)
                         \/ Receive(s) \/ Disconnect(s)
    \/ \E b \in Goroutine : Notify(b) \/ Count(b)
    \/ \E b \in Broadcaster : Enter(b) \/ Leave(b) \/ \E s \in Stream : Send(b, s)
    \/ Publish \/ Subscribe \/ Drop \/ Consume \/ Lost
    \/ StopBridge \/ Shutdown

Spec == Init /\ [][Next]_vars

\* The scheduler runs every goroutine that can run, and sync.RWMutex lets every
\* waiting goroutine in.  Administrators may stop reading for good, and nothing
\* makes anybody notify, publish, connect or disconnect.
Fairness ==
    /\ \A s \in Stream : WF_vars(Register(s) \/ Unregister(s))
    /\ \A b \in Broadcaster :
         /\ SF_vars(Count(b) \/ Enter(b))
         /\ WF_vars(Leave(b) \/ \E s \in Stream : Send(b, s))
    /\ WF_vars(Bridging)

FairSpec == Spec /\ Fairness

-----------------------------------------------------------------------------
(***************************************************************************)
(* Properties.                                                             *)
(***************************************************************************)

\* The variables hold what they should, and broadcasters inside the lock hold
\* only registered clients: no broadcast ever sends on the channel Unregister
\* closed, which would end the process.
NeverPanics ==
    /\ ~panicked
    /\ \A b \in Broadcaster : cast[b].todo \subseteq clients
    /\ clients = {s \in Stream : channel[s].open}

Held(s) == got[s] \o channel[s].q
Finished(e) == cast[e[1]].pc = "idle" \/ e # EventOf(e[1])

\* An administrator sees every event that began after the stream was
\* registered, in the order of its broadcaster, save those that found the
\* buffer full: neither the early return for an empty hub nor a stream that
\* comes or goes meanwhile loses one.
NothingMissed ==
    \A s \in clients :
      /\ \A e \in due[s] :
           Finished(e) => \/ e \in full[s]
                          \/ \E i \in 1..Len(Held(s)) : Held(s)[i] = e
      /\ \A i, k \in 1..Len(Held(s)) :
           i < k /\ Held(s)[i][1] = Held(s)[k][1] => Held(s)[i][2] < Held(s)[k][2]

\* A stream nobody reads holds up nobody: again and again, while Receive is not
\* fair, no broadcast is under way and no stream waits to be registered or
\* unregistered.
NobodyWaitsForReaders ==
    []<>(/\ \A b \in Broadcaster : cast[b].pc = "idle"
         /\ \A s \in Stream : conn[s] \notin {"register", "unregister"})

\* Until the process shuts down the bridge always subscribes again, and when
\* it does, the bridge stops.
BridgeReturns == []<>(IF stopping THEN link.pc = "stopped" ELSE link.up)
=============================================================================
