-------------------------- MODULE EventHub_proofs --------------------------
(***************************************************************************)
(* Theorems about EventHub, for any number of streams and goroutines, any  *)
(* capacity of the channels, and however often the subscription drops.     *)
(***************************************************************************)
EXTENDS EventHub, SequenceTheorems, TLAPS

Event == Broadcaster \X Nat

HubType ==
    /\ clients \in SUBSET Stream
    /\ channel \in [Stream -> [open : BOOLEAN, q : Seq(Event)]]
    /\ pending \in Stream \cup {None}
    /\ cast \in [Broadcaster -> [pc : {"idle", "count", "enter", "send"}, todo : SUBSET Stream]]
    /\ conn \in [Stream -> {"off", "register", "on", "unregister", "over"}]
    /\ link \in [pc : {"subscribe", "consume", "stopped"}, up : BOOLEAN, inbox : Seq(Nat)]
    /\ sent \in [Broadcaster -> Nat]
    /\ got \in [Stream -> Seq(Event)]
    /\ due \in [Stream -> SUBSET Event]
    /\ full \in [Stream -> SUBSET Event]
    /\ panicked \in BOOLEAN

\* The bridge broadcasts the first message of its inbox.
LinkInv ==
    /\ cast[Bridge].pc # "count"
    /\ cast[Bridge].pc # "idle" => link.pc = "consume" /\ link.inbox # <<>>

\* Who waits for the lock is about to register or to unregister, a client is
\* registered and its channel is open, and who broadcasts holds only clients.
LockInv ==
    /\ \A s \in Stream : conn[s] \in {"register", "unregister"} <=> pending = s
    /\ \A s \in Stream : s \in clients <=> conn[s] \in {"on", "unregister"}
    /\ \A s \in Stream : channel[s].open <=> s \in clients
    /\ \A b \in Broadcaster : cast[b].todo \subseteq clients
    /\ \A b \in Broadcaster : cast[b].pc # "send" => cast[b].todo = {}
    /\ ~panicked

HubInv == HubType /\ LinkInv /\ LockInv

\* While a broadcast is under way its event is one.
LEMMA EventOfType ==
    ASSUME HubType, LinkInv, NEW b \in Broadcaster, cast[b].pc # "idle"
    PROVE  EventOf(b) \in Event
<1>1. CASE b = Bridge
  <2>1. link.inbox \in Seq(Nat) /\ link.inbox # <<>>
    BY <1>1 DEF HubType, LinkInv
  <2>2. Head(link.inbox) \in Nat
    BY <2>1, HeadTailProperties
  <2> QED
    BY <1>1, <2>2 DEF EventOf, Event
<1>2. CASE b # Bridge
  BY <1>2 DEF EventOf, Event, HubType
<1> QED
  BY <1>1, <1>2

LEMMA HubInit == Init => HubInv
<1> SUFFICES ASSUME Init PROVE HubInv
  OBVIOUS
<1>1. <<>> \in Seq(Event) /\ <<>> \in Seq(Nat)
  BY EmptySeq
<1>2. Bridge \in Broadcaster
  BY DEF Broadcaster
<1>3. HubType
  BY <1>1 DEF Init, HubType
<1>4. LinkInv
  BY <1>2 DEF Init, LinkInv
<1>5. LockInv
  BY ConstAssumption DEF Init, LockInv
<1> QED
  BY <1>3, <1>4, <1>5 DEF HubInv

LEMMA TypeStep == HubType /\ LinkInv /\ [Next]_vars => HubType'
<1> SUFFICES ASSUME HubType, LinkInv, [Next]_vars PROVE HubType'
  OBVIOUS
<1>0. Bridge \in Broadcaster /\ Goroutine \subseteq Broadcaster
  BY DEF Broadcaster
<1>e. <<>> \in Seq(Event) /\ <<>> \in Seq(Nat)
  BY EmptySeq
<1>t. \A s \in Stream : /\ channel[s].q \in Seq(Event)
                        /\ channel[s].q # <<>> => Head(channel[s].q) \in Event /\ Tail(channel[s].q) \in Seq(Event)
  BY HeadTailProperties DEF HubType
<1>b. \A b \in Broadcaster : Begin(b) /\ sent' \in [Broadcaster -> Nat] => due' \in [Stream -> SUBSET Event]
  BY DEF Begin, HubType, Event
<1>1. ASSUME NEW s \in Stream, Register(s) PROVE HubType'
  BY <1>1, <1>e DEF Register, HubType, seen
<1>2. ASSUME NEW s \in Stream, Unregister(s) PROVE HubType'
  BY <1>2, <1>e DEF Unregister, Close, HubType
<1>3. ASSUME NEW s \in Stream, Connect(s) PROVE HubType'
  BY <1>3 DEF Connect, HubType, seen
<1>4. ASSUME NEW s \in Stream, Receive(s) PROVE HubType'
  <2>1. Append(got[s], Head(channel[s].q)) \in Seq(Event)
    BY <1>4, <1>t, AppendProperties DEF Receive, HubType
  <2>2. got' \in [Stream -> Seq(Event)]
    BY <1>4, <2>1 DEF Receive, HubType
  <2>3. channel' \in [Stream -> [open : BOOLEAN, q : Seq(Event)]]
    <3> DEFINE rest == Tail(channel[s].q)
    <3>1. rest \in Seq(Event) /\ channel' = [channel EXCEPT ![s].q = rest]
      BY <1>4, <1>t DEF Receive
    <3>2. channel \in [Stream -> [open : BOOLEAN, q : Seq(Event)]]
      BY DEF HubType
    <3> HIDE DEF rest, HubType, LinkInv
    <3> QED
      BY <3>1, <3>2
  <2> QED
    BY <1>4, <2>2, <2>3 DEF Receive, HubType
<1>5. ASSUME NEW s \in Stream, Disconnect(s) PROVE HubType'
  BY <1>5 DEF Disconnect, HubType, seen
<1>6. ASSUME NEW b \in Goroutine, Notify(b) PROVE HubType'
  <2>1. sent' \in [Broadcaster -> Nat]
    BY <1>6, <1>0 DEF Notify, HubType
  <2>2. due' \in [Stream -> SUBSET Event]
    BY <1>6, <1>0, <1>b, <2>1 DEF Notify
  <2> QED
    BY <1>6, <1>0, <2>1, <2>2 DEF Notify, Stand, HubType, lockVars
<1>7. ASSUME NEW b \in Goroutine, Count(b) PROVE HubType'
  BY <1>7, <1>0 DEF Count, Stand, HubType, lockVars, seen
<1>8. ASSUME NEW b \in Broadcaster, Enter(b) PROVE HubType'
  BY <1>8 DEF Enter, Stand, HubType, lockVars, seen
<1>9. ASSUME NEW b \in Broadcaster, Leave(b) PROVE HubType'
  <2>1. b = Bridge => Tail(link.inbox) \in Seq(Nat)
    <3>1. b = Bridge => link.inbox \in Seq(Nat) /\ link.inbox # <<>>
      BY <1>9 DEF Leave, LinkInv, HubType
    <3> QED
      BY <3>1, HeadTailProperties
  <2>2. link' \in [pc : {"subscribe", "consume", "stopped"}, up : BOOLEAN, inbox : Seq(Nat)]
    BY <1>9, <2>1 DEF Leave, HubType
  <2> QED
    BY <1>9, <2>2 DEF Leave, Stand, HubType, lockVars, seen
<1>10. ASSUME NEW b \in Broadcaster, NEW s \in Stream, Send(b, s) PROVE HubType'
  <2>1. EventOf(b) \in Event
    BY <1>10, EventOfType DEF Send
  <2>2. Append(channel[s].q, EventOf(b)) \in Seq(Event)
    BY <2>1, <1>t, AppendProperties
  <2> DEFINE put == [channel EXCEPT ![s].q = Append(@, EventOf(b))]
             dropped == [full EXCEPT ![s] = @ \cup {EventOf(b)}]
  <2>a. put \in [Stream -> [open : BOOLEAN, q : Seq(Event)]] /\ dropped \in [Stream -> SUBSET Event]
    BY <2>1, <2>2 DEF HubType
  <2>b. channel' \in {channel, put} /\ full' \in {full, dropped}
    BY <1>10 DEF Send
  <2> HIDE DEF put, dropped
  <2>3. channel' \in [Stream -> [open : BOOLEAN, q : Seq(Event)]]
    BY <2>a, <2>b DEF HubType
  <2>4. full' \in [Stream -> SUBSET Event]
    BY <2>a, <2>b DEF HubType
  <2>5. panicked' \in BOOLEAN
    BY <1>10 DEF Send, HubType
  <2> QED
    BY <1>10, <2>3, <2>4, <2>5 DEF Send, Stand, HubType
<1>11. ASSUME Publish PROVE HubType'
  <2>1. sent' \in [Broadcaster -> Nat] /\ sent'[Bridge] \in Nat
    BY <1>11, <1>0 DEF Publish, HubType
  <2>2. Append(link.inbox, sent'[Bridge]) \in Seq(Nat)
    BY <2>1, AppendProperties DEF HubType
  <2>3. link' \in [pc : {"subscribe", "consume", "stopped"}, up : BOOLEAN, inbox : Seq(Nat)]
    BY <1>11, <2>2 DEF Publish, HubType
  <2> QED
    BY <1>11, <2>1, <2>3 DEF Publish, HubType, lockVars, seen
<1>12. ASSUME Subscribe PROVE HubType'
  BY <1>12, <1>e DEF Subscribe, HubType, lockVars, seen
<1>13. ASSUME Drop PROVE HubType'
  BY <1>13 DEF Drop, HubType, lockVars, seen
<1>14. ASSUME Consume PROVE HubType'
  <2>1. EventOf(Bridge) \in Event
    <3>1. Head(link.inbox) \in Nat
      BY <1>14, HeadTailProperties DEF Consume, HubType
    <3> QED
      BY <3>1, <1>0 DEF EventOf, Event
  <2>2. due' \in [Stream -> SUBSET Event]
    BY <1>14, <2>1 DEF Consume, HubType
  <2> QED
    BY <1>14, <1>0, <2>2 DEF Consume, Stand, HubType, lockVars
<1>15. ASSUME Lost PROVE HubType'
  BY <1>15 DEF Lost, AfterLoss, HubType, lockVars, seen
<1>16. ASSUME StopBridge PROVE HubType'
  BY <1>16, <1>e DEF StopBridge, HubType, lockVars, seen
<1>17. ASSUME Shutdown PROVE HubType'
  BY <1>17 DEF Shutdown, HubType, lockVars, seen
<1>18. ASSUME UNCHANGED vars PROVE HubType'
  BY <1>18 DEF vars, HubType, lockVars, seen
<1> QED
  BY <1>1, <1>2, <1>3, <1>4, <1>5, <1>6, <1>7, <1>8, <1>9, <1>10, <1>11, <1>12, <1>13, <1>14,
     <1>15, <1>16, <1>17, <1>18 DEF Next

LEMMA LinkStep == HubType /\ LinkInv /\ [Next]_vars => LinkInv'
<1> SUFFICES ASSUME HubType, LinkInv, [Next]_vars PROVE LinkInv'
  OBVIOUS
<1>0. Bridge \in Broadcaster /\ Bridge \notin Goroutine /\ Goroutine \subseteq Broadcaster
  BY ConstAssumption DEF Broadcaster
<1>1. ASSUME NEW s \in Stream, Register(s) \/ Unregister(s) \/ Connect(s) \/ Receive(s) \/ Disconnect(s)
      PROVE  LinkInv'
  BY <1>1 DEF Register, Unregister, Close, Connect, Receive, Disconnect, LinkInv
<1>2. ASSUME NEW b \in Goroutine, Notify(b) \/ Count(b) PROVE LinkInv'
  <2>1. cast'[Bridge] = cast[Bridge] /\ link' = link
    BY <1>2, <1>0 DEF Notify, Count, Stand, HubType
  <2> QED
    BY <2>1 DEF LinkInv
<1>3. ASSUME NEW b \in Broadcaster, Enter(b) \/ \E s \in Stream : Send(b, s) PROVE LinkInv'
  <2>1. link' = link /\ cast[b].pc # "idle"
    BY <1>3 DEF Enter, Send
  <2>2. cast'[Bridge].pc \in {cast[Bridge].pc} \cup (IF b = Bridge THEN {"send"} ELSE {})
    BY <1>3, <1>0 DEF Enter, Send, Stand, HubType
  <2> QED
    BY <2>1, <2>2 DEF LinkInv
<1>4. ASSUME NEW b \in Broadcaster, Leave(b) PROVE LinkInv'
  <2>1. CASE b = Bridge
    BY <1>4, <2>1, <1>0 DEF Leave, Stand, HubType, LinkInv
  <2>2. CASE b # Bridge
    BY <1>4, <2>2, <1>0 DEF Leave, Stand, HubType, LinkInv
  <2> QED
    BY <2>1, <2>2
<1>5. ASSUME Publish PROVE LinkInv'
  <2>1. sent'[Bridge] \in Nat
    BY <1>5, <1>0 DEF Publish, HubType
  <2>2. Append(link.inbox, sent'[Bridge]) # <<>>
    <3>1. link.inbox \in Seq(Nat)
      BY DEF HubType
    <3> QED
      BY <2>1, <3>1, AppendProperties
  <2>3. link'.pc = link.pc /\ (link.inbox # <<>> => link'.inbox # <<>>)
    <3>1. CASE link' = link
      BY <3>1
    <3>2. CASE link' = [link EXCEPT !.inbox = Append(@, sent'[Bridge])]
      <4> DEFINE more == Append(link.inbox, sent'[Bridge])
      <4>1. link' = [link EXCEPT !.inbox = more] /\ more # <<>>
        BY <3>2, <2>2
      <4> HIDE DEF more
      <4> QED
        BY <4>1 DEF HubType
    <3> QED
      BY <1>5, <3>1, <3>2 DEF Publish
  <2>4. cast' = cast
    BY <1>5 DEF Publish
  <2> QED
    BY <2>3, <2>4 DEF LinkInv
<1>6. ASSUME Subscribe \/ Drop \/ Lost \/ StopBridge \/ Shutdown \/ UNCHANGED vars PROVE LinkInv'
  BY <1>6 DEF Subscribe, Drop, Lost, StopBridge, Shutdown, vars, HubType, LinkInv
<1>7. ASSUME Consume PROVE LinkInv'
  BY <1>7, <1>0 DEF Consume, Stand, HubType, LinkInv
<1> QED
  BY <1>1, <1>2, <1>3, <1>4, <1>5, <1>6, <1>7 DEF Next

LEMMA LockStep == HubType /\ LockInv /\ [Next]_vars => LockInv'
<1> SUFFICES ASSUME HubType, LockInv, [Next]_vars PROVE LockInv'
  OBVIOUS
<1> USE ConstAssumption DEF HubType
<1>0. Bridge \in Broadcaster /\ Goroutine \subseteq Broadcaster
  BY DEF Broadcaster
<1>1. ASSUME NEW s \in Stream, Register(s) PROVE LockInv'
  BY <1>1 DEF Register, WriterMayEnter, LockInv, seen
<1>2. ASSUME NEW s \in Stream, Unregister(s) PROVE LockInv'
  <2>1. \A b \in Broadcaster : cast[b].todo = {}
    BY <1>2 DEF Unregister, WriterMayEnter, Readers, LockInv
  <2> QED
    BY <1>2, <2>1 DEF Unregister, WriterMayEnter, Close, LockInv
<1>3. ASSUME NEW s \in Stream, Connect(s) \/ Disconnect(s) PROVE LockInv'
  <2>1. /\ clients' = clients /\ channel' = channel /\ cast' = cast /\ panicked' = panicked
        /\ pending = None /\ pending' = s
    BY <1>3 DEF Connect, Disconnect, seen
  <2>2. /\ \A t \in Stream \ {s} : conn'[t] = conn[t]
        /\ conn'[s] \in {"register", "unregister"}
        /\ conn'[s] = "unregister" <=> conn[s] \in {"on", "unregister"}
    BY <1>3 DEF Connect, Disconnect
  <2> QED
    BY <2>1, <2>2 DEF LockInv
<1>4. ASSUME NEW s \in Stream, Receive(s) PROVE LockInv'
  <2>1. \A t \in Stream : channel'[t].open = channel[t].open
    BY <1>4 DEF Receive
  <2>2. clients' = clients /\ pending' = pending /\ conn' = conn /\ panicked' = panicked /\ cast' = cast
    BY <1>4 DEF Receive
  <2> QED
    BY <2>1, <2>2 DEF LockInv
<1>5. ASSUME NEW b \in Broadcaster, Notify(b) \/ Count(b) \/ Enter(b) \/ Leave(b) PROVE LockInv'
  <2>1. clients' = clients /\ channel' = channel /\ pending' = pending /\ conn' = conn /\ panicked' = panicked
    BY <1>5 DEF Notify, Count, Enter, Leave, lockVars, seen
  <2>2. /\ cast'[b].todo \subseteq clients
        /\ cast'[b].pc # "send" => cast'[b].todo = {}
        /\ \A c \in Broadcaster \ {b} : cast'[c] = cast[c]
    BY <1>5 DEF Notify, Count, Enter, Leave, Stand
  <2> QED
    BY <2>1, <2>2 DEF LockInv
<1>6. ASSUME NEW b \in Broadcaster, NEW s \in Stream, Send(b, s) PROVE LockInv'
  <2>1. s \in clients /\ channel[s].open
    BY <1>6 DEF Send, LockInv
  <2>2. clients' = clients /\ pending' = pending /\ conn' = conn /\ panicked' = panicked
    BY <1>6, <2>1 DEF Send
  <2>3. \A t \in Stream : channel'[t].open = channel[t].open
    <3> DEFINE put == Append(channel[s].q, EventOf(b))
    <3>1. channel' = channel \/ channel' = [channel EXCEPT ![s].q = put]
      BY <1>6, Zenon DEF Send
    <3> HIDE DEF put
    <3>2. channel[s] \in [open : BOOLEAN, q : Seq(Event)]
      BY DEF HubType
    <3>3. [channel[s] EXCEPT !.q = put].open = channel[s].open
      BY <3>2
    <3>4. ASSUME NEW t \in Stream, channel' = [channel EXCEPT ![s].q = put]
          PROVE  channel'[t].open = channel[t].open
      <4>1. channel'[t] = IF t = s THEN [channel[s] EXCEPT !.q = put] ELSE channel[t]
        BY <3>4, Zenon DEF HubType
      <4> QED
        BY <4>1, <3>3
    <3> QED
      BY <3>1, <3>4
  <2>4. cast' = [cast EXCEPT ![b] = [pc |-> "send", todo |-> cast[b].todo \ {s}]]
    BY <1>6 DEF Send, Stand
  <2> QED
    BY <2>2, <2>3, <2>4 DEF LockInv
<1>7. ASSUME Publish \/ Subscribe \/ Drop \/ Lost \/ StopBridge \/ Shutdown \/ UNCHANGED vars PROVE LockInv'
  BY <1>7 DEF Publish, Subscribe, Drop, Lost, StopBridge, Shutdown, vars, lockVars, seen, LockInv
<1>8. ASSUME Consume PROVE LockInv'
  BY <1>8, <1>0 DEF Consume, Stand, LockInv, lockVars
<1> QED
  BY <1>1, <1>2, <1>3, <1>4, <1>5, <1>6, <1>7, <1>8, <1>0 DEF Next

THEOREM HubCorrect == Spec => []HubInv
<1>1. HubInv /\ [Next]_vars => HubInv'
  BY TypeStep, LinkStep, LockStep DEF HubInv
<1> QED
  BY HubInit, <1>1, PTL DEF Spec

\* No broadcast sends on a channel that Unregister has closed, and broadcasters
\* inside the lock hold registered clients only.
THEOREM NoSendOnClosed == Spec => []NeverPanics
<1>1. HubInv => NeverPanics
  BY DEF HubInv, HubType, LockInv, NeverPanics
<1> QED
  BY <1>1, HubCorrect, PTL

-----------------------------------------------------------------------------
(***************************************************************************)
(* What a stream has been given, and what it is still owed.                *)
(***************************************************************************)

Elements(x) == {x[i] : i \in 1..Len(x)}
InOrder(x) ==
    \A i, k \in 1..Len(x) : i < k /\ x[i][1] = x[k][1] => x[i][2] < x[k][2]

\* The broadcast b has under way has not reached the stream s yet.
Awaits(s, b) ==
    \/ cast[b].pc \in {"count", "enter"}
    \/ cast[b].pc = "send" /\ s \in cast[b].todo

\* Redis delivers in the order of publication.
InboxInv ==
    /\ \A i \in 1..Len(link.inbox) : link.inbox[i] <= sent[Bridge]
    /\ \A i, k \in 1..Len(link.inbox) : i < k => link.inbox[i] < link.inbox[k]

\* A stream that is not registered is owed nothing and holds nothing.
AbsentInv ==
    \A s \in Stream : s \notin clients => due[s] = {} /\ got[s] = <<>> /\ channel[s].q = <<>>

\* An event a stream is owed is dropped, held, or on its way.
AccountedInv ==
    \A s \in clients : \A e \in due[s] :
        \/ e \in full[s]
        \/ e \in Elements(Held(s))
        \/ Awaits(s, e[1]) /\ e = EventOf(e[1])

\* What a stream holds is older than what it will be sent.
OlderInv ==
    \A s \in Stream : \A e \in Elements(Held(s)) :
        /\ e[2] <= sent[e[1]]
        /\ e[1] # Bridge /\ Awaits(s, e[1]) => e[2] < sent[e[1]]
        /\ e[1] = Bridge => \A k \in 1..Len(link.inbox) :
               \/ e[2] < link.inbox[k]
               \/ k = 1 /\ cast[Bridge].pc = "send" /\ s \notin cast[Bridge].todo

OrderInv == \A s \in Stream : InOrder(Held(s))

\* Appending to a sequence adds one element.
LEMMA AppendElements ==
    ASSUME NEW S, NEW x \in Seq(S), NEW e \in S
    PROVE  Elements(Append(x, e)) = Elements(x) \cup {e}
<1> DEFINE y == Append(x, e)
<1>1. /\ Len(x) \in Nat /\ Len(y) = Len(x) + 1 /\ y[Len(x) + 1] = e
      /\ \A i \in 1..Len(x) : y[i] = x[i]
  BY AppendProperties, LenProperties
<1> HIDE DEF y
<1>2. 1..Len(y) = 1..Len(x) \cup {Len(x) + 1}
  BY <1>1
<1>3. Elements(y) = Elements(x) \cup {e}
  BY <1>1, <1>2 DEF Elements
<1> QED
  BY <1>3 DEF y

LEMMA HeadOfAppend ==
    ASSUME NEW S, NEW x \in Seq(S), NEW e \in S, x # <<>>
    PROVE  Head(Append(x, e)) = Head(x)
<1>1. Len(x) \in Nat \ {0}
  BY EmptySeq
<1>2. Append(x, e)[1] = x[1]
  BY <1>1, AppendProperties
<1> QED
  BY <1>1, <1>2

\* A newer event of its broadcaster may be appended.
LEMMA AppendInOrder ==
    ASSUME NEW S, NEW x \in Seq(S), NEW e \in S, InOrder(x),
           \A d \in Elements(x) : d[1] = e[1] => d[2] < e[2]
    PROVE  InOrder(Append(x, e))
<1> DEFINE y == Append(x, e)
<1>1. /\ Len(x) \in Nat /\ Len(y) = Len(x) + 1 /\ y[Len(x) + 1] = e
      /\ \A i \in 1..Len(x) : y[i] = x[i]
  BY AppendProperties, LenProperties
<1> HIDE DEF y
<1>2. \A i \in 1..Len(x) : y[i] \in Elements(x)
  BY <1>1 DEF Elements
<1>3. InOrder(y)
  <2> SUFFICES ASSUME NEW i \in 1..Len(y), NEW k \in 1..Len(y), i < k, y[i][1] = y[k][1]
               PROVE  y[i][2] < y[k][2]
    BY DEF InOrder
  <2>1. i \in 1..Len(x)
    BY <1>1
  <2>2. CASE k \in 1..Len(x)
    BY <2>1, <2>2, <1>1 DEF InOrder
  <2>3. CASE k = Len(x) + 1
    BY <2>1, <2>3, <1>1, <1>2
  <2> QED
    BY <2>2, <2>3, <1>1
<1> QED
  BY <1>3 DEF y

\* Receive moves the first event from the channel to what was written.
LEMMA HeldReceived ==
    ASSUME NEW S, NEW g \in Seq(S), NEW q \in Seq(S), q # <<>>
    PROVE  Append(g, Head(q)) \o Tail(q) = g \o q
<1>1. Head(q) \in S /\ Tail(q) \in Seq(S) /\ Len(Tail(q)) = Len(q) - 1 /\ Len(q) \in Nat \ {0}
  BY HeadTailProperties, EmptySeq, LenProperties
<1> DEFINE a == Append(g, Head(q)) \o Tail(q)
           b == g \o q
<1>2. Append(g, Head(q)) \in Seq(S)
  BY <1>1, AppendProperties
<1>3. a \in Seq(S) /\ b \in Seq(S)
  BY <1>1, <1>2, ConcatProperties
<1>4. Len(a) = Len(b)
  BY <1>1, <1>2, ConcatProperties, AppendProperties
<1>5. \A i \in 1..Len(a) : a[i] = b[i]
  <2> SUFFICES ASSUME NEW i \in 1..Len(a) PROVE a[i] = b[i]
    OBVIOUS
  <2>0. Len(g) \in Nat /\ Len(a) = Len(g) + Len(q) /\ Len(Append(g, Head(q))) = Len(g) + 1
    BY <1>1, <1>2, ConcatProperties, AppendProperties, LenProperties
  <2>1. CASE i <= Len(g)
    BY <2>0, <2>1, <1>1, <1>2
  <2>2. CASE i = Len(g) + 1
    BY <2>0, <2>2, <1>1, <1>2
  <2>3. CASE i > Len(g) + 1
    BY <2>0, <2>3, <1>1, <1>2
  <2> QED
    BY <2>0, <2>1, <2>2, <2>3
<1> HIDE DEF a, b
<1>6. a = b
  BY <1>3, <1>4, <1>5, SeqEqual
<1> QED
  BY <1>6 DEF a, b

\* Send appends to what the stream holds.
LEMMA HeldSent ==
    ASSUME NEW S, NEW g \in Seq(S), NEW q \in Seq(S), NEW e \in S
    PROVE  g \o Append(q, e) = Append(g \o q, e)
<1> DEFINE a == g \o Append(q, e)
           b == Append(g \o q, e)
<1>1. g \o q \in Seq(S) /\ Append(q, e) \in Seq(S)
  BY ConcatProperties, AppendProperties
<1>2. a \in Seq(S) /\ b \in Seq(S)
  BY <1>1, ConcatProperties, AppendProperties
<1>3. Len(a) = Len(b)
  BY <1>1, ConcatProperties, AppendProperties, LenProperties
<1>4. \A i \in 1..Len(a) : a[i] = b[i]
  <2> SUFFICES ASSUME NEW i \in 1..Len(a) PROVE a[i] = b[i]
    OBVIOUS
  <2>0. /\ Len(g) \in Nat /\ Len(q) \in Nat /\ Len(g \o q) = Len(g) + Len(q)
        /\ Len(a) = Len(g) + Len(q) + 1 /\ Len(Append(q, e)) = Len(q) + 1
    BY <1>1, ConcatProperties, AppendProperties, LenProperties
  <2>1. CASE i <= Len(g)
    BY <2>0, <2>1, <1>1
  <2>2. CASE i > Len(g) /\ i <= Len(g) + Len(q)
    BY <2>0, <2>2, <1>1
  <2>3. CASE i = Len(g) + Len(q) + 1
    BY <2>0, <2>3, <1>1
  <2> QED
    BY <2>0, <2>1, <2>2, <2>3
<1> HIDE DEF a, b
<1>5. a = b
  BY <1>2, <1>3, <1>4, SeqEqual
<1> QED
  BY <1>5 DEF a, b

LEMMA HeldType == ASSUME HubType, NEW s \in Stream PROVE Held(s) \in Seq(Event)
<1>1. got[s] \in Seq(Event) /\ channel[s].q \in Seq(Event)
  BY DEF HubType
<1> QED
  BY <1>1, ConcatProperties DEF Held

\* What Send leaves in the channel of its stream, or the stream is told apart.
LEMMA SendStep ==
    ASSUME HubType, LinkInv, LockInv, NEW b \in Broadcaster, NEW s \in Stream, Send(b, s)
    PROVE  /\ s \in clients /\ cast[b].pc = "send" /\ s \in cast[b].todo
           /\ cast' = [cast EXCEPT ![b] = [pc |-> "send", todo |-> cast[b].todo \ {s}]]
           /\ UNCHANGED <<clients, conn, link, sent, got, due>>
           /\ EventOf(b) \in Event
           /\ \A t \in Stream \ {s} : channel'[t] = channel[t]
           /\ \/ Held(s)' = Append(Held(s), EventOf(b)) /\ full' = full
              \/ channel' = channel /\ full' = [full EXCEPT ![s] = @ \cup {EventOf(b)}]
<1>1. s \in clients /\ cast[b].pc = "send" /\ s \in cast[b].todo /\ channel[s].open
  BY DEF Send, LockInv
<1>2. EventOf(b) \in Event
  BY <1>1, EventOfType
<1> DEFINE put == Append(channel[s].q, EventOf(b))
<1>3. \/ channel' = [channel EXCEPT ![s].q = put] /\ full' = full
      \/ channel' = channel /\ full' = [full EXCEPT ![s] = @ \cup {EventOf(b)}]
  BY <1>1, Zenon DEF Send
<1>4. channel' = [channel EXCEPT ![s].q = put] =>
        channel'[s].q = put /\ \A t \in Stream \ {s} : channel'[t] = channel[t]
  <2> HIDE DEF put
  <2> QED
    BY DEF HubType
<1>7. /\ cast' = [cast EXCEPT ![b] = [pc |-> "send", todo |-> cast[b].todo \ {s}]]
      /\ UNCHANGED <<clients, conn, link, sent, got, due>>
  BY DEF Send, Stand
<1>8. channel'[s].q = put => Held(s)' = Append(Held(s), EventOf(b))
  <2>1. \A x, y \in Seq(Event) : x \o Append(y, EventOf(b)) = Append(x \o y, EventOf(b))
    BY <1>2, HeldSent
  <2>2. got[s] \in Seq(Event) /\ channel[s].q \in Seq(Event)
    BY DEF HubType
  <2>3. got[s] \o put = Append(got[s] \o channel[s].q, EventOf(b))
    <3> HIDE DEF put
    <3>1. put = Append(channel[s].q, EventOf(b))
      BY DEF put
    <3> QED
      BY <2>1, <2>2, <3>1
  <2> HIDE DEF put
  <2> QED
    BY <1>7, <2>3 DEF Held
<1> QED
  BY <1>1, <1>2, <1>3, <1>4, <1>7, <1>8

\* What a stream holds stays as it is, grows by what is sent to it, or goes
\* with the stream.
LEMMA HeldStep ==
    ASSUME HubInv, AbsentInv, [Next]_vars, NEW s \in Stream
    PROVE  \/ Held(s)' = Held(s)
           \/ s \notin clients' /\ Held(s)' = <<>>
           \/ /\ \E b \in Broadcaster : Send(b, s) /\ Held(s)' = Append(Held(s), EventOf(b))
              /\ full' = full
<1> DEFINE goal == \/ Held(s)' = Held(s)
                   \/ s \notin clients' /\ Held(s)' = <<>>
                   \/ /\ \E b \in Broadcaster : Send(b, s) /\ Held(s)' = Append(Held(s), EventOf(b))
                      /\ full' = full
<1> SUFFICES goal
  OBVIOUS
<1> USE DEF HubInv
<1>q. ASSUME got'[s] = got[s], channel'[s] = channel[s] PROVE goal
  BY <1>q DEF Held
<1>e. <<>> \o <<>> = <<>>
  BY EmptySeq, ConcatEmptySeq
<1>g. got \in [Stream -> Seq(Event)] /\ channel \in [Stream -> [open : BOOLEAN, q : Seq(Event)]]
  BY DEF HubType
<1>1. ASSUME NEW t \in Stream, Register(t) PROVE goal
  <2>1. CASE t = s
    <3>1. s \notin clients
      BY <1>1, <2>1 DEF Register, LockInv
    <3>2. got'[s] = <<>> /\ channel'[s].q = <<>> /\ got[s] = <<>> /\ channel[s].q = <<>>
      BY <1>1, <2>1, <3>1, <1>g DEF Register, seen, AbsentInv
    <3> QED
      BY <3>2, <1>e DEF Held
  <2>2. CASE t # s
    BY <1>1, <2>2, <1>q, <1>g DEF Register, seen
  <2> QED
    BY <2>1, <2>2
<1>2. ASSUME NEW t \in Stream, Unregister(t) PROVE goal
  <2>1. CASE t = s
    <3>1. got'[s] = <<>> /\ channel'[s].q = <<>> /\ s \notin clients'
      BY <1>2, <2>1, <1>g DEF Unregister, Close
    <3> QED
      BY <3>1, <1>e DEF Held
  <2>2. CASE t # s
    BY <1>2, <2>2, <1>q, <1>g DEF Unregister, Close
  <2> QED
    BY <2>1, <2>2
<1>3. ASSUME NEW t \in Stream, Receive(t) PROVE goal
  <2>1. CASE t = s
    <3> DEFINE rest == Tail(channel[s].q)
               more == Append(got[s], Head(channel[s].q))
    <3>1. got'[s] = more
      BY <1>3, <2>1, <1>g DEF Receive
    <3>2. channel'[s].q = rest
      <4>1. channel' = [channel EXCEPT ![s].q = rest]
        BY <1>3, <2>1 DEF Receive
      <4> HIDE DEF rest
      <4> QED
        BY <4>1, <1>g
    <3>3. more \o rest = got[s] \o channel[s].q
      <4>1. got[s] \in Seq(Event) /\ channel[s].q \in Seq(Event) /\ channel[s].q # <<>>
        BY <1>3, <2>1, <1>g DEF Receive
      <4> QED
        BY <4>1, HeldReceived
    <3> HIDE DEF rest, more
    <3> QED
      BY <3>1, <3>2, <3>3 DEF Held
  <2>2. CASE t # s
    BY <1>3, <2>2, <1>q, <1>g DEF Receive
  <2> QED
    BY <2>1, <2>2
<1>4. ASSUME NEW b \in Broadcaster, NEW t \in Stream, Send(b, t) PROVE goal
  <2>0. /\ got' = got /\ EventOf(b) \in Event
        /\ \A u \in Stream \ {t} : channel'[u] = channel[u]
        /\ \/ Held(t)' = Append(Held(t), EventOf(b)) /\ full' = full
           \/ channel' = channel
    BY <1>4, SendStep
  <2>1. CASE channel' = channel
    BY <2>0, <2>1, <1>q
  <2>2. CASE t # s
    BY <2>0, <2>2, <1>q, <1>g
  <2>3. CASE t = s /\ channel' # channel
    BY <1>4, <2>0, <2>3
  <2> QED
    BY <2>1, <2>2, <2>3
<1>5. ASSUME NEW t \in Stream, Connect(t) \/ Disconnect(t) PROVE goal
  BY <1>5, <1>q DEF Connect, Disconnect, seen
<1>6. ASSUME NEW b \in Broadcaster, Notify(b) \/ Count(b) \/ Enter(b) \/ Leave(b) PROVE goal
  BY <1>6, <1>q DEF Notify, Count, Enter, Leave, seen, lockVars
<1>7. ASSUME Publish \/ Subscribe \/ Drop \/ Consume \/ Lost \/ StopBridge \/ Shutdown \/ UNCHANGED vars PROVE goal
  BY <1>7, <1>q DEF Publish, Subscribe, Drop, Consume, Lost, StopBridge, Shutdown, vars, seen, lockVars
<1> HIDE DEF goal
<1> QED
  BY <1>1, <1>2, <1>3, <1>4, <1>5, <1>6, <1>7 DEF Next, Broadcaster

\* The inbox stays, loses its head, gains the newest event, or is emptied.
LEMMA InboxMoves ==
    ASSUME HubType, LinkInv, [Next]_vars
    PROVE  \/ link'.inbox = link.inbox /\ sent'[Bridge] \in {sent[Bridge], sent[Bridge] + 1}
           \/ /\ link'.inbox = Append(link.inbox, sent[Bridge] + 1)
              /\ sent'[Bridge] = sent[Bridge] + 1
              /\ cast' = cast
           \/ /\ link.inbox # <<>> /\ link'.inbox = Tail(link.inbox)
              /\ sent' = sent /\ cast[Bridge].pc = "send" /\ cast[Bridge].todo = {}
              /\ cast' = [cast EXCEPT ![Bridge] = [pc |-> "idle", todo |-> {}]]
           \/ link'.inbox = <<>> /\ sent' = sent /\ cast[Bridge].pc = "idle" /\ cast' = cast
<1> DEFINE goal ==
       \/ link'.inbox = link.inbox /\ sent'[Bridge] \in {sent[Bridge], sent[Bridge] + 1}
       \/ /\ link'.inbox = Append(link.inbox, sent[Bridge] + 1)
          /\ sent'[Bridge] = sent[Bridge] + 1
          /\ cast' = cast
       \/ /\ link.inbox # <<>> /\ link'.inbox = Tail(link.inbox)
          /\ sent' = sent /\ cast[Bridge].pc = "send" /\ cast[Bridge].todo = {}
          /\ cast' = [cast EXCEPT ![Bridge] = [pc |-> "idle", todo |-> {}]]
       \/ link'.inbox = <<>> /\ sent' = sent /\ cast[Bridge].pc = "idle" /\ cast' = cast
<1> SUFFICES goal
  OBVIOUS
<1>0. Bridge \in Broadcaster /\ Bridge \notin Goroutine /\ Goroutine \subseteq Broadcaster
  BY ConstAssumption DEF Broadcaster
<1>l. link \in [pc : {"subscribe", "consume", "stopped"}, up : BOOLEAN, inbox : Seq(Nat)]
      /\ sent \in [Broadcaster -> Nat]
  BY DEF HubType
<1>1. ASSUME NEW s \in Stream, Register(s) \/ Unregister(s) \/ Connect(s) \/ Receive(s) \/ Disconnect(s)
      PROVE  goal
  BY <1>1 DEF Register, Unregister, Close, Connect, Receive, Disconnect
<1>2. ASSUME NEW b \in Goroutine, Notify(b) \/ Count(b) PROVE goal
  BY <1>2, <1>0, <1>l DEF Notify, Count
<1>3. ASSUME NEW b \in Broadcaster, Enter(b) \/ \E s \in Stream : Send(b, s) PROVE goal
  BY <1>3 DEF Enter, Send
<1>4. ASSUME NEW b \in Broadcaster, Leave(b) PROVE goal
  <2>1. CASE b = Bridge
    <3> DEFINE rest == Tail(link.inbox)
    <3>1. link'.inbox = rest
      <4>1. link' = [link EXCEPT !.inbox = rest]
        BY <1>4, <2>1 DEF Leave
      <4> HIDE DEF rest
      <4> QED
        BY <4>1, <1>l
    <3>2. link.inbox # <<>>
      BY <1>4, <2>1 DEF Leave, LinkInv
    <3> QED
      BY <1>4, <2>1, <3>1, <3>2 DEF Leave, Stand
  <2>2. CASE b # Bridge
    BY <1>4, <2>2 DEF Leave
  <2> QED
    BY <2>1, <2>2
<1>5. ASSUME Publish PROVE goal
  <2> DEFINE more == Append(link.inbox, sent[Bridge] + 1)
  <2>1. sent'[Bridge] = sent[Bridge] + 1 /\ cast' = cast
    BY <1>5, <1>0, <1>l DEF Publish
  <2>2. link' = link \/ link' = [link EXCEPT !.inbox = more]
    BY <1>5, <2>1, Zenon DEF Publish
  <2>3. link' = link \/ link'.inbox = more
    <3> HIDE DEF more
    <3> QED
      BY <2>2, <1>l
  <2> QED
    BY <2>1, <2>3
<1>6. ASSUME Subscribe \/ StopBridge PROVE goal
  <2>1. sent' = sent /\ cast' = cast
    BY <1>6 DEF Subscribe, StopBridge, lockVars
  <2>2. link'.inbox = <<>>
    <3>1. CASE Subscribe
      <4>1. link' = [[[link EXCEPT !.pc = "consume"] EXCEPT !.up = TRUE] EXCEPT !.inbox = <<>>]
        BY <3>1 DEF Subscribe
      <4> QED
        BY <4>1, <1>l
    <3>2. CASE StopBridge
      BY <3>2 DEF StopBridge
    <3> QED
      BY <1>6, <3>1, <3>2
  <2>3. cast[Bridge].pc = "idle"
    BY <1>6 DEF Subscribe, StopBridge, LinkInv
  <2> QED
    BY <2>1, <2>2, <2>3
<1>7. ASSUME Drop \/ Consume \/ Lost \/ Shutdown \/ UNCHANGED vars PROVE goal
  BY <1>7, <1>l DEF Drop, Consume, Lost, Shutdown, vars
<1> HIDE DEF goal
<1> QED
  BY <1>1, <1>2, <1>3, <1>4, <1>5, <1>6, <1>7 DEF Next

LEMMA InboxStep == HubType /\ LinkInv /\ InboxInv /\ [Next]_vars => InboxInv'
<1> SUFFICES ASSUME HubType, LinkInv, InboxInv, [Next]_vars PROVE InboxInv'
  OBVIOUS
<1> DEFINE in == link.inbox
           n == sent[Bridge]
<1>0. Bridge \in Broadcaster /\ n \in Nat /\ in \in Seq(Nat) /\ Len(in) \in Nat
      /\ \A i \in 1..Len(in) : in[i] \in Nat
  BY LenProperties DEF Broadcaster, HubType
<1>1. CASE link'.inbox = in /\ sent'[Bridge] \in {n, n + 1}
  BY <1>0, <1>1 DEF InboxInv
<1>2. CASE link'.inbox = Append(in, n + 1) /\ sent'[Bridge] = n + 1
  <2> DEFINE more == Append(in, n + 1)
  <2>1. /\ Len(more) = Len(in) + 1 /\ more[Len(in) + 1] = n + 1
        /\ \A i \in 1..Len(in) : more[i] = in[i]
    BY <1>0, AppendProperties
  <2> HIDE DEF more, in, n
  <2>2. \A i \in 1..Len(more) : i \in 1..Len(in) \/ i = Len(in) + 1
    BY <2>1, <1>0
  <2>3. (\A i \in 1..Len(in) : in[i] <= n) /\ (\A i, k \in 1..Len(in) : i < k => in[i] < in[k])
    BY DEF InboxInv, in, n
  <2>4. \A i \in 1..Len(more) : more[i] <= n + 1
    BY <2>1, <2>2, <2>3, <1>0
  <2>5. \A i, k \in 1..Len(more) : i < k => more[i] < more[k]
    <3> SUFFICES ASSUME NEW i \in 1..Len(more), NEW k \in 1..Len(more), i < k PROVE more[i] < more[k]
      OBVIOUS
    <3>1. i \in 1..Len(in)
      BY <2>1, <1>0
    <3> QED
      BY <3>1, <2>1, <2>2, <2>3, <1>0
  <2>6. link'.inbox = more /\ sent'[Bridge] = n + 1
    BY <1>2 DEF more
  <2> QED
    BY <2>4, <2>5, <2>6 DEF InboxInv
<1>3. CASE in # <<>> /\ link'.inbox = Tail(in) /\ sent' = sent
  <2> DEFINE rest == Tail(in)
  <2>1. Len(rest) = Len(in) - 1 /\ \A i \in 1..Len(rest) : rest[i] = in[i + 1]
    BY <1>0, <1>3, HeadTailProperties
  <2> HIDE DEF rest
  <2>2. \A i \in 1..Len(rest) : i + 1 \in 1..Len(in)
    BY <2>1, <1>0
  <2>3. link'.inbox = rest /\ sent' = sent
    BY <1>3 DEF rest
  <2>4. \A i \in 1..Len(rest) : rest[i] <= n
    BY <2>1, <2>2, <1>0 DEF InboxInv
  <2>5. \A i, k \in 1..Len(rest) : i < k => rest[i] < rest[k]
    <3> SUFFICES ASSUME NEW i \in 1..Len(rest), NEW k \in 1..Len(rest), i < k PROVE rest[i] < rest[k]
      OBVIOUS
    <3>1. i + 1 \in 1..Len(in) /\ k + 1 \in 1..Len(in) /\ i + 1 < k + 1
      BY <2>2, <1>0
    <3> QED
      BY <3>1, <2>1 DEF InboxInv
  <2> QED
    BY <2>3, <2>4, <2>5 DEF InboxInv
<1>4. CASE link'.inbox = <<>> /\ sent' = sent
  BY <1>4, EmptySeq DEF InboxInv
<1> HIDE DEF in, n
<1> QED
  BY <1>1, <1>2, <1>3, <1>4, InboxMoves DEF in, n

LEMMA AbsentStep == HubInv /\ AbsentInv /\ [Next]_vars => AbsentInv'
<1> SUFFICES ASSUME HubInv, AbsentInv, [Next]_vars PROVE AbsentInv'
  OBVIOUS
<1> USE DEF HubInv
<1>g. /\ got \in [Stream -> Seq(Event)] /\ channel \in [Stream -> [open : BOOLEAN, q : Seq(Event)]]
      /\ due \in [Stream -> SUBSET Event]
  BY DEF HubType
<1>1. ASSUME NEW t \in Stream, Register(t) PROVE AbsentInv'
  BY <1>1, <1>g DEF Register, AbsentInv, seen
<1>2. ASSUME NEW t \in Stream, Unregister(t) PROVE AbsentInv'
  BY <1>2, <1>g DEF Unregister, Close, AbsentInv
<1>3. ASSUME NEW t \in Stream, Receive(t) PROVE AbsentInv'
  <2>1. t \in clients /\ clients' = clients /\ due' = due
    BY <1>3 DEF Receive, LockInv
  <2>2. \A u \in Stream \ {t} : got'[u] = got[u] /\ channel'[u] = channel[u]
    BY <1>3, <1>g DEF Receive
  <2> QED
    BY <2>1, <2>2 DEF AbsentInv
<1>4. ASSUME NEW b \in Broadcaster, NEW t \in Stream, Send(b, t) PROVE AbsentInv'
  <2>1. /\ t \in clients /\ clients' = clients /\ due' = due /\ got' = got
        /\ \A u \in Stream \ {t} : channel'[u] = channel[u]
    BY <1>4, SendStep
  <2> QED
    BY <2>1 DEF AbsentInv
<1>5. ASSUME NEW b \in Goroutine, Notify(b) PROVE AbsentInv'
  BY <1>5 DEF Notify, Begin, AbsentInv, lockVars
<1>6. ASSUME Consume PROVE AbsentInv'
  BY <1>6 DEF Consume, AbsentInv, lockVars
<1>7. ASSUME NEW b \in Broadcaster, Count(b) \/ Enter(b) \/ Leave(b) PROVE AbsentInv'
  BY <1>7 DEF Count, Enter, Leave, AbsentInv, lockVars, seen
<1>8. ASSUME NEW t \in Stream, Connect(t) \/ Disconnect(t) PROVE AbsentInv'
  BY <1>8 DEF Connect, Disconnect, AbsentInv, seen
<1>9. ASSUME Publish \/ Subscribe \/ Drop \/ Lost \/ StopBridge \/ Shutdown \/ UNCHANGED vars PROVE AbsentInv'
  BY <1>9 DEF Publish, Subscribe, Drop, Lost, StopBridge, Shutdown, vars, AbsentInv, lockVars, seen
<1> QED
  BY <1>1, <1>2, <1>3, <1>4, <1>5, <1>6, <1>7, <1>8, <1>9 DEF Next, Broadcaster

LEMMA AccountedStep == HubInv /\ AbsentInv /\ AccountedInv /\ [Next]_vars => AccountedInv'
<1> DEFINE accounted(s, e) == \/ e \in full[s]
                              \/ e \in Elements(Held(s))
                              \/ Awaits(s, e[1]) /\ e = EventOf(e[1])
<1> SUFFICES ASSUME HubInv, AbsentInv, AccountedInv, [Next]_vars,
                    NEW s \in Stream, s \in clients', NEW e \in due'[s]
             PROVE  accounted(s, e)'
  <2>1. HubInv /\ [Next]_vars => clients' \subseteq Stream
    BY TypeStep DEF HubInv, HubType
  <2> QED
    BY <2>1 DEF AccountedInv
<1> USE DEF HubInv
<1>0. Bridge \in Broadcaster /\ Bridge \notin Goroutine /\ Goroutine \subseteq Broadcaster
  BY ConstAssumption DEF Broadcaster
<1>e. e \in Event /\ e[1] \in Broadcaster
  <2>1. due'[s] \subseteq Event
    BY TypeStep DEF HubType
  <2> QED
    BY <2>1 DEF Event
<1>g. /\ due \in [Stream -> SUBSET Event] /\ full \in [Stream -> SUBSET Event]
      /\ cast \in [Broadcaster -> [pc : {"idle", "count", "enter", "send"}, todo : SUBSET Stream]]
      /\ sent \in [Broadcaster -> Nat]
      /\ link \in [pc : {"subscribe", "consume", "stopped"}, up : BOOLEAN, inbox : Seq(Nat)]
  BY DEF HubType
<1>h. Elements(Held(s)) \subseteq Elements(Held(s)')
  <2>1. CASE Held(s)' = Held(s)
    BY <2>1
  <2>2. CASE \E b \in Broadcaster : Send(b, s) /\ Held(s)' = Append(Held(s), EventOf(b))
    <3>1. PICK b \in Broadcaster : Send(b, s) /\ Held(s)' = Append(Held(s), EventOf(b))
      BY <2>2
    <3>2. EventOf(b) \in Event
      BY <3>1, SendStep
    <3> QED
      BY <3>1, <3>2, HeldType, AppendElements
  <2> QED
    BY <2>1, <2>2, HeldStep
<1>k. ASSUME s \in clients, e \in due[s], full[s] \subseteq full'[s],
             Awaits(s, e[1]) /\ e = EventOf(e[1]) => Awaits(s, e[1])' /\ e = EventOf(e[1])'
      PROVE  accounted(s, e)'
  <2>1. accounted(s, e)
    BY <1>k DEF AccountedInv
  <2> QED
    BY <2>1, <1>h, <1>k
<1> HIDE DEF accounted
<1>1. ASSUME NEW t \in Stream, Register(t) PROVE accounted(s, e)'
  <2>1. t \notin clients /\ due' = due /\ full' = full /\ clients' = clients \cup {t}
        /\ cast' = cast /\ link' = link /\ sent' = sent
    BY <1>1 DEF Register, LockInv, seen
  <2>2. t # s
    BY <2>1 DEF AbsentInv
  <2> QED
    BY <2>1, <2>2, <1>k DEF Awaits, EventOf
<1>2. ASSUME NEW t \in Stream, Unregister(t) PROVE accounted(s, e)'
  <2>1. t # s /\ clients' = clients \ {t} /\ cast' = cast /\ link' = link /\ sent' = sent
    BY <1>2 DEF Unregister, Close
  <2>2. due'[s] = due[s] /\ full'[s] = full[s]
    BY <1>2, <2>1, <1>g DEF Unregister, Close
  <2> QED
    BY <2>1, <2>2, <1>k DEF Awaits, EventOf
<1>3. ASSUME NEW t \in Stream, Connect(t) \/ Receive(t) \/ Disconnect(t) PROVE accounted(s, e)'
  <2>1. clients' = clients /\ due' = due /\ full' = full /\ cast' = cast /\ link' = link /\ sent' = sent
    BY <1>3 DEF Connect, Receive, Disconnect, seen
  <2> QED
    BY <2>1, <1>k DEF Awaits, EventOf
<1>4. ASSUME NEW b \in Goroutine, Notify(b) PROVE accounted(s, e)'
  <2>0. /\ clients' = clients /\ full' = full /\ link' = link /\ cast[b].pc = "idle"
        /\ cast' = [cast EXCEPT ![b] = [pc |-> "count", todo |-> {}]]
        /\ sent' = [sent EXCEPT ![b] = @ + 1]
        /\ due'[s] = due[s] \cup {<<b, sent'[b]>>}
    BY <1>4 DEF Notify, Begin, Stand, lockVars
  <2>1. CASE e \in due[s]
    <3>1. e[1] # b => Awaits(s, e[1])' = Awaits(s, e[1]) /\ EventOf(e[1])' = EventOf(e[1])
      BY <2>0, <1>0, <1>g, <1>e DEF Awaits, EventOf
    <3>2. e[1] = b => ~Awaits(s, e[1])
      BY <2>0 DEF Awaits
    <3> QED
      BY <2>0, <2>1, <3>1, <3>2, <1>k
  <2>2. CASE e = <<b, sent'[b]>>
    <3>1. cast'[b].pc = "count" /\ b # Bridge
      BY <2>0, <1>0, <1>g
    <3> QED
      BY <2>2, <3>1 DEF Awaits, EventOf, accounted
  <2> QED
    BY <2>0, <2>1, <2>2
<1>5. ASSUME NEW b \in Goroutine, Count(b) PROVE accounted(s, e)'
  <2>1. /\ clients' = clients /\ full' = full /\ due' = due /\ link' = link /\ sent' = sent
        /\ cast' = [cast EXCEPT ![b] = [pc |-> "enter", todo |-> {}]]
    BY <1>5 DEF Count, Listened, Stand, lockVars, seen
  <2>2. Awaits(s, e[1]) => Awaits(s, e[1])'
    BY <2>1, <1>0, <1>g, <1>e DEF Awaits
  <2>3. EventOf(e[1])' = EventOf(e[1])
    BY <2>1 DEF EventOf
  <2> QED
    BY <2>1, <2>2, <2>3, <1>k
<1>6. ASSUME NEW b \in Broadcaster, Enter(b) PROVE accounted(s, e)'
  <2>1. /\ clients' = clients /\ full' = full /\ due' = due /\ link' = link /\ sent' = sent
        /\ cast' = [cast EXCEPT ![b] = [pc |-> "send", todo |-> clients]]
    BY <1>6 DEF Enter, Stand, lockVars, seen
  <2>2. Awaits(s, e[1]) => Awaits(s, e[1])'
    BY <2>1, <1>0, <1>g, <1>e DEF Awaits
  <2>3. EventOf(e[1])' = EventOf(e[1])
    BY <2>1 DEF EventOf
  <2> QED
    BY <2>1, <2>2, <2>3, <1>k
<1>7. ASSUME NEW b \in Broadcaster, Leave(b) PROVE accounted(s, e)'
  <2>1. /\ clients' = clients /\ full' = full /\ due' = due /\ sent' = sent
        /\ cast[b].pc = "send" /\ cast[b].todo = {}
        /\ cast' = [cast EXCEPT ![b] = [pc |-> "idle", todo |-> {}]]
        /\ b # Bridge => link' = link
    BY <1>7 DEF Leave, Stand, lockVars, seen
  <2>2. e[1] = b => ~Awaits(s, e[1])
    BY <2>1 DEF Awaits
  <2>3. e[1] # b => Awaits(s, e[1])' = Awaits(s, e[1]) /\ EventOf(e[1])' = EventOf(e[1])
    BY <2>1, <1>g, <1>e DEF Awaits, EventOf
  <2> QED
    BY <2>1, <2>2, <2>3, <1>k
<1>8. ASSUME NEW b \in Broadcaster, NEW t \in Stream, Send(b, t) PROVE accounted(s, e)'
  <2>1. /\ clients' = clients /\ due' = due /\ sent' = sent /\ link' = link
        /\ cast[b].pc = "send" /\ t \in cast[b].todo
        /\ cast' = [cast EXCEPT ![b] = [pc |-> "send", todo |-> cast[b].todo \ {t}]]
        /\ EventOf(b) \in Event
        /\ full' = full \/ full' = [full EXCEPT ![t] = @ \cup {EventOf(b)}]
    BY <1>8, SendStep
  <2>2. full[s] \subseteq full'[s]
    BY <2>1, <1>g
  <2>3. EventOf(e[1])' = EventOf(e[1])
    BY <2>1 DEF EventOf
  <2>4. CASE e[1] # b \/ t # s
    <3>1. Awaits(s, e[1]) => Awaits(s, e[1])'
      BY <2>1, <2>4, <1>g, <1>e DEF Awaits
    <3> QED
      BY <2>1, <2>2, <2>3, <3>1, <1>k
  <2>5. CASE e[1] = b /\ t = s
    <3>1. CASE e = EventOf(b)
      <4>1. CASE Held(s)' = Append(Held(s), EventOf(b))
        <5>1. e \in Elements(Append(Held(s), EventOf(b)))
          BY <2>1, <3>1, HeldType, AppendElements
        <5> QED
          BY <4>1, <5>1 DEF accounted
      <4>2. CASE full' = [full EXCEPT ![s] = @ \cup {EventOf(b)}]
        BY <4>2, <3>1, <1>g DEF accounted
      <4> QED
        BY <4>1, <4>2, <2>5, <1>8, SendStep
    <3>2. CASE e # EventOf(b)
      BY <3>2, <2>1, <2>2, <2>5, <1>k
    <3> QED
      BY <3>1, <3>2
  <2> QED
    BY <2>4, <2>5
<1>9. ASSUME Publish PROVE accounted(s, e)'
  <2>1. /\ clients' = clients /\ full' = full /\ due' = due /\ cast' = cast
        /\ sent' = [sent EXCEPT ![Bridge] = @ + 1]
    BY <1>9 DEF Publish, lockVars, seen
  <2>2. Awaits(s, e[1])' = Awaits(s, e[1])
    BY <2>1 DEF Awaits
  <2>3. e[1] # Bridge => EventOf(e[1])' = EventOf(e[1])
    BY <2>1, <1>e, <1>g DEF EventOf
  <2>4. Awaits(s, Bridge) => EventOf(Bridge)' = EventOf(Bridge)
    <3> SUFFICES ASSUME Awaits(s, Bridge) PROVE Head(link'.inbox) = Head(link.inbox)
      BY DEF EventOf
    <3>1. link.inbox # <<>> /\ link.inbox \in Seq(Nat)
      BY <1>g DEF Awaits, LinkInv
    <3>2. link'.inbox = link.inbox \/ link'.inbox = Append(link.inbox, sent[Bridge] + 1)
      <4>1. cast[Bridge].pc # "idle" /\ sent[Bridge] \in Nat
        BY <1>0, <1>g DEF Awaits
      <4> QED
        BY <2>1, <4>1, <1>0, <1>g, InboxMoves
    <3>3. sent[Bridge] + 1 \in Nat
      BY <1>0, <1>g
    <3>4. Head(Append(link.inbox, sent[Bridge] + 1)) = Head(link.inbox)
      BY <3>1, <3>3, HeadOfAppend
    <3> QED
      BY <3>2, <3>4
  <2> QED
    BY <2>1, <2>2, <2>3, <2>4, <1>k
<1>10. ASSUME Consume PROVE accounted(s, e)'
  <2>0. /\ clients' = clients /\ full' = full /\ link' = link /\ sent' = sent /\ cast[Bridge].pc = "idle"
        /\ cast' = [cast EXCEPT ![Bridge] = [pc |-> "enter", todo |-> {}]]
        /\ due'[s] = due[s] \cup {EventOf(Bridge)}
    BY <1>10 DEF Consume, Stand, lockVars
  <2>1. EventOf(e[1])' = EventOf(e[1]) /\ EventOf(Bridge)' = EventOf(Bridge)
    BY <2>0 DEF EventOf
  <2>2. CASE e \in due[s]
    <3>1. e[1] # Bridge => Awaits(s, e[1])' = Awaits(s, e[1])
      BY <2>0, <1>0, <1>g, <1>e DEF Awaits
    <3>2. e[1] = Bridge => ~Awaits(s, e[1])
      BY <2>0 DEF Awaits
    <3> QED
      BY <2>0, <2>1, <2>2, <3>1, <3>2, <1>k
  <2>3. CASE e = EventOf(Bridge)
    <3>1. e[1] = Bridge /\ cast'[Bridge].pc = "enter"
      BY <2>0, <2>3, <1>0, <1>g DEF EventOf
    <3> QED
      BY <2>1, <2>3, <3>1 DEF Awaits, accounted
  <2> QED
    BY <2>0, <2>2, <2>3
<1>11. ASSUME Subscribe \/ StopBridge PROVE accounted(s, e)'
  <2>1. /\ clients' = clients /\ full' = full /\ due' = due /\ cast' = cast /\ sent' = sent
        /\ cast[Bridge].pc = "idle"
    BY <1>11 DEF Subscribe, StopBridge, LinkInv, lockVars, seen
  <2>2. e[1] # Bridge => EventOf(e[1])' = EventOf(e[1])
    BY <2>1 DEF EventOf
  <2>3. Awaits(s, e[1])' = Awaits(s, e[1]) /\ ~Awaits(s, Bridge)
    BY <2>1 DEF Awaits
  <2> QED
    BY <2>1, <2>2, <2>3, <1>k
<1>12. ASSUME Drop \/ Lost \/ Shutdown \/ UNCHANGED vars PROVE accounted(s, e)'
  <2>1. /\ clients' = clients /\ full' = full /\ due' = due /\ cast' = cast /\ sent' = sent
        /\ link'.inbox = link.inbox
    BY <1>12, <1>g DEF Drop, Lost, Shutdown, vars, lockVars, seen
  <2> QED
    BY <2>1, <1>k DEF Awaits, EventOf
<1> QED
  BY <1>1, <1>2, <1>3, <1>4, <1>5, <1>6, <1>7, <1>8, <1>9, <1>10, <1>11, <1>12 DEF Next

\* A goroutine's count of its events goes up only when it notifies; nothing
\* else makes a stream await a broadcast.
LEMMA AwaitsStep ==
    ASSUME HubInv, [Next]_vars, NEW s \in Stream, NEW b \in Goroutine
    PROVE  /\ sent'[b] \in {sent[b], sent[b] + 1}
           /\ Awaits(s, b)' => \/ Awaits(s, b) /\ sent'[b] = sent[b]
                              \/ sent'[b] = sent[b] + 1
<1> DEFINE goal == /\ sent'[b] \in {sent[b], sent[b] + 1}
                   /\ Awaits(s, b)' => \/ Awaits(s, b) /\ sent'[b] = sent[b]
                                      \/ sent'[b] = sent[b] + 1
<1> SUFFICES goal
  OBVIOUS
<1>0. b \in Broadcaster /\ b # Bridge /\ Bridge \in Broadcaster /\ Goroutine \subseteq Broadcaster
  BY ConstAssumption DEF Broadcaster
<1>g. /\ cast \in [Broadcaster -> [pc : {"idle", "count", "enter", "send"}, todo : SUBSET Stream]]
      /\ sent \in [Broadcaster -> Nat]
  BY DEF HubInv, HubType
<1>k. ASSUME sent'[b] = sent[b], cast'[b] = cast[b] PROVE goal
  BY <1>k DEF Awaits
<1>1. ASSUME NEW t \in Stream, Register(t) \/ Unregister(t) \/ Connect(t) \/ Receive(t) \/ Disconnect(t)
      PROVE  goal
  BY <1>1, <1>k DEF Register, Unregister, Close, Connect, Receive, Disconnect
<1>2. ASSUME NEW c \in Goroutine, Notify(c) PROVE goal
  BY <1>2, <1>k, <1>0, <1>g DEF Notify, Stand, Awaits
<1>3. ASSUME NEW c \in Goroutine, Count(c) PROVE goal
  BY <1>3, <1>k, <1>0, <1>g DEF Count, Stand, Awaits
<1>4. ASSUME NEW c \in Broadcaster, Enter(c) \/ Leave(c) PROVE goal
  BY <1>4, <1>k, <1>0, <1>g DEF Enter, Leave, Stand, Awaits
<1>5. ASSUME NEW c \in Broadcaster, NEW t \in Stream, Send(c, t) PROVE goal
  <2>1. /\ sent' = sent /\ cast[c].pc = "send"
        /\ cast' = [cast EXCEPT ![c] = [pc |-> "send", todo |-> cast[c].todo \ {t}]]
    BY <1>5, SendStep DEF HubInv
  <2> QED
    BY <2>1, <1>0, <1>g DEF Awaits
<1>6. ASSUME Publish \/ Consume PROVE goal
  BY <1>6, <1>k, <1>0, <1>g DEF Publish, Consume, Stand
<1>7. ASSUME Subscribe \/ Drop \/ Lost \/ StopBridge \/ Shutdown \/ UNCHANGED vars PROVE goal
  BY <1>7, <1>k DEF Subscribe, Drop, Lost, StopBridge, Shutdown, vars
<1> HIDE DEF goal
<1> QED
  BY <1>1, <1>2, <1>3, <1>4, <1>5, <1>6, <1>7 DEF Next

\* Once the bridge has served a stream it goes on to the others or leaves.
LEMMA ServedStep ==
    ASSUME HubInv, [Next]_vars, NEW s \in Stream,
           cast[Bridge].pc = "send", s \notin cast[Bridge].todo
    PROVE  Leave(Bridge) \/ (cast'[Bridge].pc = "send" /\ s \notin cast'[Bridge].todo)
<1> DEFINE goal == Leave(Bridge) \/ (cast'[Bridge].pc = "send" /\ s \notin cast'[Bridge].todo)
<1> SUFFICES goal
  OBVIOUS
<1>0. Bridge \in Broadcaster /\ Bridge \notin Goroutine /\ Goroutine \subseteq Broadcaster
  BY ConstAssumption DEF Broadcaster
<1>g. cast \in [Broadcaster -> [pc : {"idle", "count", "enter", "send"}, todo : SUBSET Stream]]
  BY DEF HubInv, HubType
<1>k. ASSUME cast'[Bridge] = cast[Bridge] PROVE goal
  BY <1>k
<1>1. ASSUME NEW t \in Stream, Register(t) \/ Unregister(t) \/ Connect(t) \/ Receive(t) \/ Disconnect(t)
      PROVE  goal
  BY <1>1, <1>k DEF Register, Unregister, Close, Connect, Receive, Disconnect
<1>2. ASSUME NEW c \in Goroutine, Notify(c) \/ Count(c) PROVE goal
  BY <1>2, <1>k, <1>0, <1>g DEF Notify, Count, Stand
<1>3. ASSUME NEW c \in Broadcaster, Enter(c) \/ Leave(c) PROVE goal
  BY <1>3, <1>k, <1>0, <1>g DEF Enter, Leave, Stand
<1>4. ASSUME NEW c \in Broadcaster, NEW t \in Stream, Send(c, t) PROVE goal
  <2>1. cast' = [cast EXCEPT ![c] = [pc |-> "send", todo |-> cast[c].todo \ {t}]]
    BY <1>4, SendStep DEF HubInv
  <2> QED
    BY <2>1, <1>0, <1>g
<1>5. ASSUME Consume PROVE goal
  BY <1>5 DEF Consume
<1>6. ASSUME Publish \/ Subscribe \/ Drop \/ Lost \/ StopBridge \/ Shutdown \/ UNCHANGED vars PROVE goal
  BY <1>6, <1>k DEF Publish, Subscribe, Drop, Lost, StopBridge, Shutdown, vars
<1> HIDE DEF goal
<1> QED
  BY <1>1, <1>2, <1>3, <1>4, <1>5, <1>6 DEF Next

LEMMA OlderStep == HubInv /\ AbsentInv /\ InboxInv /\ OlderInv /\ [Next]_vars => OlderInv'
<1> DEFINE older(s, e) ==
      /\ e[2] <= sent[e[1]]
      /\ e[1] # Bridge /\ Awaits(s, e[1]) => e[2] < sent[e[1]]
      /\ e[1] = Bridge => \A k \in 1..Len(link.inbox) :
             \/ e[2] < link.inbox[k]
             \/ k = 1 /\ cast[Bridge].pc = "send" /\ s \notin cast[Bridge].todo
<1> SUFFICES ASSUME HubInv, AbsentInv, InboxInv, OlderInv, [Next]_vars,
                    NEW s \in Stream, NEW e \in Elements(Held(s)')
             PROVE  older(s, e)'
  BY DEF OlderInv
<1> DEFINE in == link.inbox
           n == sent[Bridge]
<1>0. Bridge \in Broadcaster /\ Bridge \notin Goroutine /\ Broadcaster = Goroutine \cup {Bridge}
  BY ConstAssumption DEF Broadcaster
<1>g. /\ cast \in [Broadcaster -> [pc : {"idle", "count", "enter", "send"}, todo : SUBSET Stream]]
      /\ sent \in [Broadcaster -> Nat] /\ n \in Nat
      /\ in \in Seq(Nat) /\ Len(in) \in Nat /\ \A i \in 1..Len(in) : in[i] \in Nat
  BY <1>0, LenProperties DEF HubInv, HubType
<1>i. (\A i \in 1..Len(in) : in[i] <= n) /\ (\A i, k \in 1..Len(in) : i < k => in[i] < in[k])
  BY DEF InboxInv
<1>m. HubType /\ LinkInv
  BY DEF HubInv
<1>1. CASE e \in Elements(Held(s))
  <2>0. e \in Event /\ e[1] \in Broadcaster /\ e[2] \in Nat
    <3>1. \A i \in 1..Len(Held(s)) : Held(s)[i] \in Event
      BY HeldType, ElementOfSeq DEF HubInv
    <3> QED
      BY <1>1, <3>1 DEF Elements, Event
  <2>1. older(s, e)
    BY <1>1 DEF OlderInv
  <2>2. CASE e[1] # Bridge
    <3>1. e[1] \in Goroutine /\ sent[e[1]] \in Nat
      BY <2>0, <2>2, <1>0, <1>g
    <3>2. /\ sent'[e[1]] \in {sent[e[1]], sent[e[1]] + 1}
          /\ Awaits(s, e[1])' => \/ Awaits(s, e[1]) /\ sent'[e[1]] = sent[e[1]]
                                \/ sent'[e[1]] = sent[e[1]] + 1
      BY <3>1, AwaitsStep
    <3>3. e[2] <= sent[e[1]] /\ (Awaits(s, e[1]) => e[2] < sent[e[1]])
      BY <2>1, <2>2
    <3>4. e[2] <= sent'[e[1]] /\ (Awaits(s, e[1])' => e[2] < sent'[e[1]])
      BY <2>0, <3>1, <3>2, <3>3
    <3> QED
      BY <2>2, <3>4
  <2>3. CASE e[1] = Bridge
    <3> DEFINE served == cast[Bridge].pc = "send" /\ s \notin cast[Bridge].todo
    <3>1. e[2] <= n /\ \A k \in 1..Len(in) : e[2] < in[k] \/ (k = 1 /\ served)
      BY <2>1, <2>3
    <3>2. ASSUME sent'[Bridge] \in {n, n + 1},
                 \A k \in 1..Len(link'.inbox) : e[2] < link'.inbox[k] \/ (k = 1 /\ served')
          PROVE  older(s, e)'
      <4>1. e[2] <= sent'[Bridge]
        BY <2>0, <3>1, <3>2, <1>g
      <4> QED
        BY <2>3, <3>2, <4>1
    <3>3. Leave(Bridge) => link'.inbox = Tail(in) /\ link.inbox # <<>>
      <4> SUFFICES ASSUME Leave(Bridge) PROVE link'.inbox = Tail(in) /\ link.inbox # <<>>
        OBVIOUS
      <4> DEFINE rest == Tail(in)
      <4>1. link.inbox # <<>> /\ link' = [link EXCEPT !.inbox = rest]
        BY <1>m DEF Leave, LinkInv
      <4>2. link \in [pc : {"subscribe", "consume", "stopped"}, up : BOOLEAN, inbox : Seq(Nat)]
        BY <1>m DEF HubType
      <4> HIDE DEF rest
      <4>3. link'.inbox = rest
        BY <4>1, <4>2
      <4> QED
        BY <4>1, <4>3 DEF rest
    <3>4. ~Leave(Bridge) /\ served => served'
      BY ServedStep
    <3> HIDE DEF served
    <3>5. CASE in # <<>> /\ link'.inbox = Tail(in) /\ sent' = sent
      <4> DEFINE rest == Tail(in)
      <4>1. Len(rest) = Len(in) - 1 /\ \A i \in 1..Len(rest) : rest[i] = in[i + 1]
        BY <1>g, <3>5, HeadTailProperties
      <4> HIDE DEF rest, in, older
      <4>2. \A k \in 1..Len(rest) : k + 1 \in 1..Len(in) /\ k + 1 # 1
        BY <4>1, <1>g
      <4>3. \A k \in 1..Len(rest) : e[2] < rest[k]
        BY <3>1, <4>1, <4>2
      <4>4. link'.inbox = rest /\ sent'[Bridge] = n
        BY <3>5 DEF rest
      <4> QED
        BY <4>3, <4>4, <3>2
    <3>6. CASE link'.inbox = in /\ sent'[Bridge] \in {n, n + 1}
      <4>1. CASE Leave(Bridge)
        <5>1. in # <<>> /\ link'.inbox = Tail(in) /\ sent' = sent
          BY <4>1, <3>3 DEF Leave
        <5> QED
          BY <3>5, <5>1
      <4>2. CASE ~Leave(Bridge)
        BY <4>2, <3>1, <3>2, <3>4, <3>6
      <4> QED
        BY <4>1, <4>2
    <3>7. CASE link'.inbox = Append(in, n + 1) /\ sent'[Bridge] = n + 1 /\ cast' = cast
      <4> DEFINE more == Append(in, n + 1)
      <4>1. /\ Len(more) = Len(in) + 1 /\ more[Len(in) + 1] = n + 1
            /\ \A i \in 1..Len(in) : more[i] = in[i]
        BY <1>g, AppendProperties
      <4>2. served' = served
        BY <3>7 DEF served
      <4> HIDE DEF more, in, older
      <4>3. \A k \in 1..Len(more) : k \in 1..Len(in) \/ k = Len(in) + 1
        BY <4>1, <1>g
      <4>4. e[2] < n + 1
        BY <3>1, <2>0, <1>g
      <4>5. \A k \in 1..Len(more) : e[2] < more[k] \/ (k = 1 /\ served)
        BY <3>1, <4>1, <4>3, <4>4
      <4>6. link'.inbox = more /\ sent'[Bridge] = n + 1
        BY <3>7 DEF more
      <4> QED
        BY <3>2, <4>2, <4>5, <4>6
    <3>8. CASE link'.inbox = <<>> /\ sent' = sent
      <4>1. Len(link'.inbox) = 0
        BY <3>8, EmptySeq
      <4> QED
        BY <3>2, <3>8, <4>1
    <3> HIDE DEF older, in, n
    <3> QED
      BY <1>m, <3>5, <3>6, <3>7, <3>8, InboxMoves DEF in, n
  <2> QED
    BY <2>2, <2>3
<1>2. CASE \E b \in Broadcaster : Send(b, s) /\ e = EventOf(b)
  <2> PICK b \in Broadcaster : Send(b, s) /\ e = EventOf(b)
    BY <1>2
  <2>1. /\ cast[b].pc = "send" /\ sent' = sent /\ link' = link
        /\ cast' = [cast EXCEPT ![b] = [pc |-> "send", todo |-> cast[b].todo \ {s}]]
    BY SendStep DEF HubInv
  <2>2. cast'[b].pc = "send" /\ s \notin cast'[b].todo /\ ~Awaits(s, b)'
    BY <2>1, <1>g DEF Awaits
  <2>3. CASE b # Bridge
    <3>1. e[1] = b /\ e[2] = sent[b] /\ sent[b] \in Nat
      BY <2>3, <1>g DEF EventOf
    <3> QED
      BY <2>1, <2>2, <2>3, <3>1
  <2>4. CASE b = Bridge
    <3>1. Len(in) > 0 /\ Head(in) = in[1]
      <4>1. in # <<>>
        BY <2>1, <2>4 DEF HubInv, LinkInv
      <4> QED
        BY <4>1, <1>g, EmptySeq
    <3>2. e[1] = Bridge /\ e[2] = in[1]
      BY <2>4, <3>1 DEF EventOf
    <3>3. 1 \in 1..Len(in) /\ e[2] <= n /\ \A k \in 1..Len(in) : k # 1 => e[2] < in[k]
      <4> HIDE DEF in, n
      <4> QED
        BY <3>1, <3>2, <1>g, <1>i
    <3> QED
      BY <2>1, <2>2, <2>4, <3>2, <3>3
  <2> QED
    BY <2>3, <2>4
<1>3. e \in Elements(Held(s)) \/ \E b \in Broadcaster : Send(b, s) /\ e = EventOf(b)
  <2>1. CASE Held(s)' = Held(s)
    BY <2>1
  <2>2. CASE Held(s)' = <<>>
    BY <2>2, EmptySeq DEF Elements
  <2>3. CASE \E b \in Broadcaster : Send(b, s) /\ Held(s)' = Append(Held(s), EventOf(b))
    <3>1. PICK b \in Broadcaster : Send(b, s) /\ Held(s)' = Append(Held(s), EventOf(b))
      BY <2>3
    <3>2. EventOf(b) \in Event
      BY <3>1, SendStep DEF HubInv
    <3> QED
      BY <3>1, <3>2, HeldType, AppendElements DEF HubInv
  <2> QED
    BY <2>1, <2>2, <2>3, HeldStep
<1> HIDE DEF older
<1> QED
  BY <1>1, <1>2, <1>3

LEMMA OrderStep == HubInv /\ AbsentInv /\ OlderInv /\ OrderInv /\ [Next]_vars => OrderInv'
<1> SUFFICES ASSUME HubInv, AbsentInv, OlderInv, OrderInv, [Next]_vars, NEW s \in Stream
             PROVE  InOrder(Held(s)')
  BY DEF OrderInv, InOrder
<1>1. CASE Held(s)' = Held(s)
  BY <1>1 DEF OrderInv
<1>2. CASE Held(s)' = <<>>
  BY <1>2, EmptySeq DEF InOrder
<1>3. CASE \E b \in Broadcaster : Send(b, s) /\ Held(s)' = Append(Held(s), EventOf(b))
  <2>1. PICK b \in Broadcaster : Send(b, s) /\ Held(s)' = Append(Held(s), EventOf(b))
    BY <1>3
  <2>2. EventOf(b) \in Event /\ cast[b].pc = "send" /\ s \in cast[b].todo
    BY <2>1, SendStep DEF HubInv
  <2>3. ASSUME NEW d \in Elements(Held(s)), d[1] = EventOf(b)[1] PROVE d[2] < EventOf(b)[2]
    <3>1. d[1] = b
      BY <2>3 DEF EventOf
    <3>2. CASE b # Bridge
      BY <2>2, <3>1, <3>2 DEF OlderInv, Awaits, EventOf
    <3>3. CASE b = Bridge
      <4>1. link.inbox \in Seq(Nat) /\ link.inbox # <<>>
        BY <2>2, <3>3 DEF HubInv, HubType, LinkInv
      <4>2. 1 \in 1..Len(link.inbox) /\ Head(link.inbox) = link.inbox[1]
        BY <4>1, EmptySeq
      <4>3. d[2] < link.inbox[1]
        BY <2>2, <3>1, <3>3, <4>2 DEF OlderInv
      <4> QED
        BY <3>3, <4>2, <4>3 DEF EventOf
    <3> QED
      BY <3>2, <3>3
  <2>4. Held(s) \in Seq(Event) /\ InOrder(Held(s))
    BY HeldType DEF HubInv, OrderInv
  <2>5. InOrder(Append(Held(s), EventOf(b)))
    BY <2>2, <2>3, <2>4, AppendInOrder
  <2> QED
    BY <2>1, <2>5
<1> QED
  BY <1>1, <1>2, <1>3, HeldStep

StreamInv == InboxInv /\ AbsentInv /\ AccountedInv /\ OlderInv /\ OrderInv

LEMMA StreamInit == Init => StreamInv
<1> SUFFICES ASSUME Init PROVE StreamInv
  OBVIOUS
<1>1. <<>> \o <<>> = <<>> /\ Len(<<>>) = 0
  BY EmptySeq, ConcatEmptySeq
<1>2. \A s \in Stream : Held(s) = <<>>
  BY <1>1 DEF Init, Held
<1>3. link.inbox = <<>> /\ clients = {}
  BY DEF Init
<1>4. InboxInv /\ AccountedInv
  BY <1>1, <1>3 DEF InboxInv, AccountedInv
<1>5. AbsentInv
  BY DEF Init, AbsentInv
<1>6. OlderInv
  BY <1>1, <1>2 DEF OlderInv, Elements
<1>7. OrderInv
  BY <1>1, <1>2 DEF OrderInv, InOrder
<1> QED
  BY <1>4, <1>5, <1>6, <1>7 DEF StreamInv

\* Every event that began while a stream was registered is delivered to it in
\* the order of its broadcaster, or was dropped because its buffer was full,
\* whatever comes, goes, breaks or reads slowly meanwhile.
THEOREM EveryEventAccounted == Spec => []NothingMissed
<1>1. StreamInv /\ HubInv /\ [Next]_vars => StreamInv'
  BY InboxStep, AbsentStep, AccountedStep, OlderStep, OrderStep DEF StreamInv, HubInv
<1>2. HubInv /\ StreamInv => NothingMissed
  <2> SUFFICES ASSUME HubInv, StreamInv, NEW s \in clients PROVE
         /\ \A e \in due[s] : Finished(e) => e \in full[s] \/ \E i \in 1..Len(Held(s)) : Held(s)[i] = e
         /\ InOrder(Held(s))
    BY DEF NothingMissed, InOrder
  <2>1. InOrder(Held(s))
    BY DEF StreamInv, OrderInv, HubInv, HubType
  <2>2. ASSUME NEW e \in due[s], Finished(e), e \notin full[s] PROVE e \in Elements(Held(s))
    <3>1. ~(Awaits(s, e[1]) /\ e = EventOf(e[1]))
      BY <2>2 DEF Finished, Awaits
    <3> QED
      BY <2>2, <3>1 DEF StreamInv, AccountedInv
  <2> QED
    BY <2>1, <2>2 DEF Elements
<1> QED
  BY <1>1, <1>2, StreamInit, HubCorrect, PTL DEF Spec
=============================================================================
