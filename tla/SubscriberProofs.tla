-------------------------- MODULE SubscriberProofs --------------------------
(***************************************************************************)
(* Proof that a subscriber of the local IPC who has read everything shows  *)
(* what the cache holds, for any number of registers, calls and            *)
(* publications and any capacity of the channel and of the streams.        *)
(***************************************************************************)
EXTENDS IpcConnectionProofs

(* Only what the connection knows of sending and losing may change.         *)
LEMMA FieldReclassified ==
  ASSUME NEW f, NEW v, NEW U, NEW W, NEW L, NEW M, NEW q, NEW m, NEW rd, NEW st, NEW vw,
         FieldOK(f, v, U, L, q, m, rd, st, vw), f \in U <=> f \in W, f \in L => f \in M
  PROVE  FieldOK(f, v, W, M, q, m, rd, st, vw)
BY DEF FieldOK, NoneIsNewer

(* A snapshot has every register, an event has the one it is about.         *)
Complete(data) == \A f \in FieldSet : data[f] # -1
Informative(m) ==
  /\ IsSnapshot(m) => Complete(m.data)
  /\ \A f \in FieldSet : Tells(m, f) => m.data[f] # -1

(* The task holds a message only while it writes, and events only after it  *)
(* started.                                                                 *)
TaskOK ==
  /\ srv.pc # "write" => srv.msg = Hello
  /\ srv.pc = "accept" => ~subscribed /\ rx = <<>> /\ srv.read = Blank
MessagesOK == Informative(srv.msg) /\ \A i \in DOMAIN s2c : Informative(s2c[i])
FieldsOK ==
  \A f \in FieldSet : FieldOK(f, cache[f], unsent, lost, rx, srv.msg, srv.read, s2c, view)

(* Until the subscription, client and server take turns.                    *)
Responds(m) == m.kind = "response" /\ m.id = client.want /\ ~IsSnapshot(m)
HelloTurn ==
  /\ client.pc = "hello" /\ c2s = <<>>
  /\ \/ srv.pc \in {"accept", "write"} /\ srv.msg = Hello /\ s2c = <<>>
     \/ srv.pc = "select" /\ s2c = <<Hello>>
ClientTurn ==
  /\ client.pc \in {"idle", "write"} /\ c2s = <<>> /\ s2c = <<>> /\ srv.pc = "select"
ServerTurn ==
  /\ client.pc = "call"
  /\ \/ srv.pc = "select" /\ s2c = <<>> /\ Len(c2s) = 1
        /\ c2s[1].id = client.want /\ c2s[1].request = client.req
     \/ srv.pc \in {"handle", "runtime"} /\ s2c = <<>> /\ c2s = <<>>
        /\ srv.req.id = client.want /\ srv.req.request = client.req
     \/ srv.pc = "write" /\ s2c = <<>> /\ c2s = <<>> /\ Responds(srv.msg)
     \/ srv.pc = "select" /\ c2s = <<>> /\ Len(s2c) = 1 /\ Responds(s2c[1])
Lockstep == view = Blank /\ (HelloTurn \/ ClientTurn \/ ServerTurn)

(* The first snapshot is what the client waits for.                         *)
Catches(m) == IsSnapshot(m) /\ m.id = client.want
FirstSnapshot ==
  /\ client.pc # "hello"
  /\ view = Blank =>
       /\ client.pc = "call" /\ client.req = "subscribe"
       /\ IF s2c = <<>> THEN Catches(srv.msg) ELSE Catches(s2c[1])

Connected == srv.pc # "closed" /\ client.pc # "closed"
ConnectedOK ==
  /\ TaskOK /\ MessagesOK /\ FieldsOK
  /\ subscribed => FirstSnapshot
  /\ ~subscribed => Lockstep
SubscriberInv == view \in Reading /\ (Connected => ConnectedOK)

(* What the invariant says of the events in a connection.                   *)
LEMMA VersionTypes ==
  ASSUME IpcInv, NEW f \in FieldSet
  PROVE  /\ cache[f] \in Nat /\ rx \in Seq(Event)
         /\ \A i \in DOMAIN rx : rx[i].field = f => rx[i].version \in Int
         /\ Tells(srv.msg, f) => srv.msg.data[f] \in Int
         /\ \A i \in DOMAIN s2c : Tells(s2c[i], f) => s2c[i].data[f] \in Int
<1>1. cache[f] \in Nat /\ rx \in Seq(Event) /\ s2c \in Seq(Message)
  BY DEF IpcInv, IpcTypes
<1>2. \A i \in DOMAIN rx : rx[i] \in Event
  BY <1>1
<1>3. \A e \in Event : e.version \in Int
  BY DEF Event, LogEvent
<1>4. \A i \in DOMAIN s2c : s2c[i] \in Message
  BY <1>1
<1>5. \A m \in Message : m.data[f] \in Int
  BY DEF Message, Reading
<1>6. srv.msg \in Message
  BY ServerFacts
<1> QED
  BY <1>1, <1>2, <1>3, <1>4, <1>5, <1>6

(* set: the event is still to come.                                         *)
LEMMA SetConverges ==
  ASSUME IpcInv, SubscriberInv, NEW f \in FieldSet, set(f)
  PROVE  SubscriberInv'
<1>1. /\ cache' = [cache EXCEPT ![f] = @ + 1] /\ unsent' = unsent \cup {f} /\ lost' = lost \ {f}
      /\ UNCHANGED <<rx, srv, subscribed, c2s, s2c, client, view>>
  BY DEF set
<1>2. SUFFICES ASSUME Connected PROVE FieldsOK'
  BY <1>1 DEF SubscriberInv, Connected, ConnectedOK, TaskOK, MessagesOK, FirstSnapshot, Lockstep,
     HelloTurn, ClientTurn, ServerTurn, Responds, Catches
<1>3. FieldsOK
  BY <1>2 DEF SubscriberInv, ConnectedOK
<1>4. ASSUME NEW g \in FieldSet
      PROVE  FieldOK(g, cache'[g], unsent', lost', rx, srv.msg, srv.read, s2c, view)
  <2>1. FieldOK(g, cache[g], unsent, lost, rx, srv.msg, srv.read, s2c, view)
    BY <1>3 DEF FieldsOK
  <2>2. CASE g = f
    <3>1. cache'[g] = cache[g] + 1 /\ g \in unsent'
      BY <1>1, <2>2 DEF IpcInv, IpcTypes
    <3>2. FieldOK(g, cache[g] + 1, unsent', lost', rx, srv.msg, srv.read, s2c, view)
      BY <2>1, <3>1, VersionTypes, FieldWritten
    <3> QED
      BY <3>1, <3>2
  <2>3. CASE g # f
    <3>1. cache'[g] = cache[g] /\ (g \in unsent <=> g \in unsent') /\ (g \in lost => g \in lost')
      BY <1>1, <2>3 DEF IpcInv, IpcTypes
    <3> QED
      BY <2>1, <3>1, FieldReclassified
  <2> QED
    BY <2>2, <2>3
<1> QED
  BY <1>1, <1>4 DEF FieldsOK

(* send and on_event: the channel takes the event, and drops one if full.   *)
LEMMA PushConverges ==
  ASSUME IpcInv, Connected, ConnectedOK, NEW e \in Event, NEW W, Push(e),
         \A f \in FieldSet : IF e.field = f THEN e.version = cache[f] /\ f \in unsent /\ f \notin W
                             ELSE f \in unsent <=> f \in W
  PROVE  \A f \in FieldSet : FieldOK(f, cache[f], W, lost', rx', srv.msg, srv.read, s2c, view)
<1> SUFFICES ASSUME NEW f \in FieldSet
             PROVE  FieldOK(f, cache[f], W, lost', rx', srv.msg, srv.read, s2c, view)
  OBVIOUS
<1>1. FieldOK(f, cache[f], unsent, lost, rx, srv.msg, srv.read, s2c, view)
  BY DEF ConnectedOK, FieldsOK
<1>2. rx \in Seq(Event) /\ cache[f] \in Nat /\ Capacity \in Nat \ {0}
  BY VersionTypes, BoundsAssumption
<1>3. CASE srv.pc = "accept"
  <2>1. rx' = rx /\ lost' = lost
    BY <1>3 DEF Push
  <2>2. rx = <<>> /\ srv.msg = Hello /\ srv.read = Blank /\ ~subscribed
    BY <1>3 DEF ConnectedOK, TaskOK
  <2>3. view = Blank /\ s2c = <<>>
    BY <1>3, <2>2 DEF ConnectedOK, Lockstep, HelloTurn, ClientTurn, ServerTurn
  <2>4. ~Tells(Hello, f) /\ ~IsSnapshot(Hello) /\ Blank[f] = -1
    BY MessageTypes DEF Tells, IsSnapshot
  <2>5. \A v : ~InHand(f, v, Hello)
    BY <2>4 DEF InHand
  <2> QED
    BY <2>1, <2>2, <2>3, <2>4, <2>5 DEF FieldOK, NoneIsNewer, NewestIsLast, Arrives, IsCaughtUp,
       NoneQueued, NoneStreamed
<1>4. CASE srv.pc # "accept" /\ Len(rx) < Capacity
  <2>1. rx' = Append(rx, e) /\ lost' = lost
    BY <1>4 DEF Push, Connected
  <2> QED
    BY <1>1, <1>2, <2>1, FieldPushed
<1>5. CASE srv.pc # "accept" /\ ~(Len(rx) < Capacity)
  <2>1. rx' = Append(Tail(rx), e) /\ lost' = lost \cup Missed(Head(rx).field, Head(rx).version)
    BY <1>5 DEF Push, Connected
  <2>2. rx # <<>> /\ Tail(rx) \in Seq(Event)
    BY <1>2, <1>5
  <2>3. lost \subseteq lost' /\ (Head(rx).field = f /\ Head(rx).version = cache[f] => f \in lost')
    BY <2>1 DEF Missed
  <2>4. FieldOK(f, cache[f], unsent, lost', Tail(rx), srv.msg, srv.read, s2c, view)
    BY <1>1, <1>2, <2>2, <2>3, FieldDropped
  <2>5. FieldOK(f, cache[f], W, lost', Append(Tail(rx), e), srv.msg, srv.read, s2c, view)
    BY <1>2, <2>2, <2>4, FieldPushed, Zenon
  <2> QED
    BY <2>1, <2>5
<1> QED
  BY <1>3, <1>4, <1>5

LEMMA SendConverges ==
  ASSUME IpcInv, SubscriberInv, on_event \/ \E f \in FieldSet : send(f)
  PROVE  SubscriberInv'
<1>1. UNCHANGED <<cache, srv, subscribed, c2s, s2c, client, view>>
  BY Zenon DEF on_event, send
<1>2. ASSUME Connected PROVE FieldsOK' /\ (srv.pc = "accept" => rx' = rx)
  <2>1. ConnectedOK
    BY <1>2 DEF SubscriberInv
  <2>2. CASE on_event
    <3>1. LogEvent \in Event /\ LogEvent.field = "log" /\ "log" \notin FieldSet
      BY BoundsAssumption DEF Event, LogEvent
    <3>2. Push(LogEvent) /\ unsent' = unsent
      BY <2>2 DEF on_event
    <3>3. \A f \in FieldSet : FieldOK(f, cache[f], unsent, lost', rx', srv.msg, srv.read, s2c, view)
      BY <1>2, <2>1, <3>1, <3>2, PushConverges
    <3> QED
      BY <1>1, <3>2, <3>3 DEF FieldsOK, Push
  <2>3. ASSUME NEW f \in FieldSet, send(f)
        PROVE  FieldsOK' /\ (srv.pc = "accept" => rx' = rx)
    <3> DEFINE e == [field |-> f, version |-> cache[f]]
    <3>1. e \in Event /\ e.field = f /\ e.version = cache[f]
      BY VersionTypes DEF Event
    <3>2. Push(e) /\ f \in unsent /\ unsent' = unsent \ {f}
      BY <2>3 DEF send
    <3> HIDE DEF e
    <3>3. \A g \in FieldSet :
            IF e.field = g THEN e.version = cache[g] /\ g \in unsent /\ g \notin unsent'
            ELSE g \in unsent <=> g \in unsent'
      BY <3>1, <3>2
    <3>4. \A g \in FieldSet : FieldOK(g, cache[g], unsent', lost', rx', srv.msg, srv.read, s2c, view)
      BY <1>2, <2>1, <3>1, <3>2, <3>3, PushConverges
    <3> QED
      BY <1>1, <3>2, <3>4, Zenon DEF FieldsOK, Push
  <2> QED
    BY <2>2, <2>3
<1> QED
  BY <1>1, <1>2 DEF SubscriberInv, Connected, ConnectedOK, TaskOK, MessagesOK, FirstSnapshot,
     Lockstep, HelloTurn, ClientTurn, ServerTurn, Responds, Catches

(* The steps of the server.  A hello says nothing of any register.          *)
LEMMA HelloSaysNothing ==
  /\ Hello.kind = "hello" /\ ~IsSnapshot(Hello) /\ Informative(Hello)
  /\ \A f \in FieldSet : Blank[f] = -1
BY MessageTypes DEF IsSnapshot, Informative, Tells

LEMMA StartConverges ==
  ASSUME IpcInv, SubscriberInv, handle_client
  PROVE  SubscriberInv'
<1>1. /\ srv.pc = "accept" /\ srv' = [srv EXCEPT !.pc = "write", !.msg = Hello]
      /\ UNCHANGED <<cache, unsent, rx, lost, subscribed, c2s, s2c, client, view>>
  BY DEF handle_client
<1>2. srv'.pc = "write" /\ srv'.msg = Hello /\ srv'.read = srv.read /\ srv'.req = srv.req
  BY <1>1, ServerFacts
<1>3. SUFFICES ASSUME client.pc # "closed" PROVE ConnectedOK'
  BY <1>1 DEF SubscriberInv, Connected
<1>4. ConnectedOK /\ srv.msg = Hello /\ ~subscribed
  BY <1>1, <1>3 DEF SubscriberInv, Connected, ConnectedOK, TaskOK
<1>5. TaskOK' /\ MessagesOK' /\ FieldsOK'
  BY <1>1, <1>2, <1>4 DEF ConnectedOK, TaskOK, MessagesOK, FieldsOK
<1>6. HelloTurn' /\ view = Blank
  BY <1>1, <1>2, <1>4 DEF ConnectedOK, Lockstep, HelloTurn, ClientTurn, ServerTurn
<1> QED
  BY <1>1, <1>4, <1>5, <1>6 DEF ConnectedOK, Lockstep

LEMMA WriteConverges ==
  ASSUME IpcInv, SubscriberInv, write_json
  PROVE  SubscriberInv'
<1>1. /\ srv.pc = "write" /\ s2c' = Append(s2c, srv.msg)
      /\ srv' = [srv EXCEPT !.pc = "select", !.msg = Hello, !.req = NoRequest, !.read = Blank]
      /\ UNCHANGED <<cache, unsent, rx, lost, subscribed, c2s, client, view>>
  BY DEF write_json
<1>2. srv'.pc = "select" /\ srv'.msg = Hello /\ srv'.read = Blank
  BY <1>1, ServerFacts
<1>3. SUFFICES ASSUME client.pc # "closed" PROVE ConnectedOK'
  BY <1>1 DEF SubscriberInv, Connected
<1>4. ConnectedOK
  BY <1>1, <1>3 DEF SubscriberInv, Connected
<1>5. srv.msg \in Message /\ s2c \in Seq(Message)
  BY ServerFacts
<1>6. /\ \A i \in DOMAIN s2c' : (i \in DOMAIN s2c /\ s2c'[i] = s2c[i]) \/ s2c'[i] = srv.msg
      /\ s2c' # <<>> /\ (s2c # <<>> => s2c'[1] = s2c[1])
      /\ s2c = <<>> => Len(s2c') = 1 /\ s2c'[1] = srv.msg /\ s2c' = <<srv.msg>>
  <2>1. \A i \in DOMAIN s2c' : (i \in DOMAIN s2c /\ s2c'[i] = s2c[i]) \/ s2c'[i] = srv.msg
    BY <1>1, <1>5
  <2>2. s2c' # <<>> /\ (s2c # <<>> => s2c'[1] = s2c[1])
    BY <1>1, <1>5
  <2>3. ASSUME s2c = <<>> PROVE Len(s2c') = 1 /\ s2c'[1] = srv.msg /\ s2c' = <<srv.msg>>
    <3>1. s2c' = <<srv.msg>>
      BY <1>1, <2>3
    <3> QED
      BY <3>1
  <2> QED
    BY <2>1, <2>2, <2>3
<1>7. TaskOK'
  BY <1>2 DEF TaskOK
<1>8. MessagesOK'
  BY <1>2, <1>4, <1>6, HelloSaysNothing DEF ConnectedOK, MessagesOK
<1>9. FieldsOK'
  <2>1. ASSUME NEW f \in FieldSet
        PROVE  FieldOK(f, cache[f], unsent, lost, rx, Hello, Blank, Append(s2c, srv.msg), view)
    <3>1. FieldOK(f, cache[f], unsent, lost, rx, srv.msg, srv.read, s2c, view)
      BY <1>4 DEF ConnectedOK, FieldsOK
    <3> QED
      BY <1>5, <3>1, HelloSaysNothing, FieldStreamed
  <2> QED
    BY <1>1, <1>2, <2>1 DEF FieldsOK
<1>10. ASSUME subscribed PROVE FirstSnapshot'
  BY <1>1, <1>4, <1>6, <1>10 DEF ConnectedOK, FirstSnapshot, Catches
<1>11. ASSUME ~subscribed PROVE Lockstep'
  <2>1. Lockstep
    BY <1>4, <1>11 DEF ConnectedOK
  <2>2. CASE HelloTurn
    BY <1>1, <1>2, <1>6, <2>1, <2>2 DEF Lockstep, HelloTurn
  <2>3. CASE ServerTurn
    BY <1>1, <1>2, <1>6, <2>1, <2>3 DEF Lockstep, ServerTurn, Responds
  <2> QED
    BY <1>1, <2>1, <2>2, <2>3 DEF Lockstep, ClientTurn
<1> QED
  BY <1>1, <1>7, <1>8, <1>9, <1>10, <1>11 DEF ConnectedOK

LEMMA RequestConverges ==
  ASSUME IpcInv, SubscriberInv, read_request
  PROVE  SubscriberInv'
<1>1. /\ srv.pc = "select" /\ c2s # <<>> /\ c2s' = Tail(c2s)
      /\ srv' = [srv EXCEPT !.pc = "handle", !.req = Head(c2s)]
      /\ UNCHANGED <<cache, unsent, rx, lost, subscribed, s2c, client, view>>
  BY DEF read_request
<1>2. /\ srv'.pc = "handle" /\ srv'.msg = srv.msg /\ srv'.read = srv.read
      /\ srv'.req = Head(c2s)
  BY <1>1, ServerFacts
<1>3. SUFFICES ASSUME client.pc # "closed" PROVE ConnectedOK'
  BY <1>1 DEF SubscriberInv, Connected
<1>4. ConnectedOK
  BY <1>1, <1>3 DEF SubscriberInv, Connected
<1>5. TaskOK' /\ MessagesOK' /\ FieldsOK'
  BY <1>1, <1>2, <1>4 DEF ConnectedOK, TaskOK, MessagesOK, FieldsOK
<1>6. subscribed => FirstSnapshot'
  BY <1>1, <1>2, <1>4 DEF ConnectedOK, FirstSnapshot, Catches
<1>7. ASSUME ~subscribed PROVE Lockstep'
  <2>1. Lockstep
    BY <1>4, <1>7 DEF ConnectedOK
  <2>2. c2s \in Seq(Envelope)
    BY ServerFacts
  <2>3. /\ client.pc = "call" /\ s2c = <<>> /\ Len(c2s) = 1
        /\ c2s[1].id = client.want /\ c2s[1].request = client.req
    BY <1>1, <2>1 DEF Lockstep, HelloTurn, ClientTurn, ServerTurn
  <2>4. Head(c2s) = c2s[1] /\ c2s' = <<>>
    BY <1>1, <2>2, <2>3
  <2> QED
    BY <1>1, <1>2, <2>1, <2>3, <2>4 DEF Lockstep, ServerTurn
<1> QED
  BY <1>1, <1>5, <1>6, <1>7 DEF ConnectedOK

(* recv_event: only a subscriber gets events, behind its first snapshot.    *)
LEMMA EventConverges ==
  ASSUME IpcInv, SubscriberInv, recv_event
  PROVE  SubscriberInv'
<1>1. /\ srv.pc = "select" /\ subscribed
      /\ UNCHANGED <<cache, unsent, lost, subscribed, c2s, s2c, client, view>>
  BY DEF recv_event
<1>2. CASE UNCHANGED <<rx, srv>>
  BY <1>1, <1>2 DEF SubscriberInv, Connected, ConnectedOK, TaskOK, MessagesOK, FieldsOK,
     FirstSnapshot, Catches
<1>3. CASE ~lagged
  <2> DEFINE m == IF Head(rx) = LogEvent THEN Msg("event", 0, "log", Blank) ELSE EventMsg(Head(rx))
  <2>1. rx # <<>> /\ rx' = Tail(rx) /\ srv' = [srv EXCEPT !.pc = "write", !.msg = m]
    BY <1>3 DEF recv_event
  <2>2. rx \in Seq(Event) /\ Head(rx) \in Event
    BY <2>1, ServerFacts
  <2>3. /\ m.kind = "event"
        /\ \A f \in FieldSet : /\ Tells(m, f) <=> Head(rx).field = f
                               /\ Tells(m, f) => m.data[f] = Head(rx).version
                               /\ Tells(m, f) => m.data[f] # -1
    <3>1. CASE Head(rx) = LogEvent
      <4>1. m = Msg("event", 0, "log", Blank)
        BY <3>1
      <4>2. m.kind = "event" /\ m.type = "log" /\ Head(rx).field = "log" /\ "log" \notin FieldSet
        BY <3>1, <4>1, BoundsAssumption DEF Msg, LogEvent
      <4> QED
        BY <4>2 DEF Tells
    <3>2. CASE Head(rx) # LogEvent
      <4>1. m = EventMsg(Head(rx))
        BY <3>2
      <4>2. PICK e \in [field : FieldSet, version : Nat] : e = Head(rx)
        BY <2>2, <3>2 DEF Event
      <4>3. e.field \in FieldSet /\ e.version \in Nat
        OBVIOUS
      <4>4. [Blank EXCEPT ![e.field] = e.version][e.field] = e.version
        BY <4>3 DEF Blank
      <4>5. m.kind = "event" /\ m.type = e.field /\ m.data = [Blank EXCEPT ![e.field] = e.version]
        BY <4>1, <4>2, Zenon DEF EventMsg, Msg
      <4>6. \A f \in FieldSet : Tells(m, f) <=> e.field = f
        BY <4>5 DEF Tells
      <4> HIDE DEF m
      <4>7. m.data[e.field] = e.version
        BY <4>4, <4>5
      <4>8. e.version # -1
        BY <4>3
      <4> QED
        BY <4>2, <4>5, <4>6, <4>7, <4>8
    <3> QED
      BY <3>1, <3>2
  <2> HIDE DEF m
  <2>4. /\ srv'.pc = "write" /\ srv'.msg = m /\ srv'.read = srv.read
    BY <2>1, ServerFacts
  <2>5. SUFFICES ASSUME client.pc # "closed" PROVE ConnectedOK'
    BY <1>1 DEF SubscriberInv, Connected
  <2>6. ConnectedOK /\ srv.msg = Hello /\ srv.read = Blank
    BY <1>1, <2>5 DEF SubscriberInv, Connected, ConnectedOK, TaskOK, IpcInv, AnswerUnderWay
  <2>7. Informative(m)
    BY <2>3 DEF Informative, IsSnapshot
  <2>8. ASSUME NEW f \in FieldSet
        PROVE  FieldOK(f, cache[f], unsent, lost, Tail(rx), m, srv.read, s2c, view)
    <3>1. FieldOK(f, cache[f], unsent, lost, rx, srv.msg, srv.read, s2c, view)
      BY <2>6 DEF ConnectedOK, FieldsOK
    <3>2. srv.msg.kind = "hello" /\ srv.read[f] = -1
      BY <2>6, HelloSaysNothing
    <3> QED
      BY <2>1, <2>2, <2>3, <3>1, <3>2, FieldReceived
  <2>9. FieldsOK'
    BY <1>1, <2>1, <2>4, <2>8 DEF FieldsOK
  <2>10. FirstSnapshot'
    BY <1>1, <2>6, HelloSaysNothing DEF ConnectedOK, FirstSnapshot, Catches
  <2> QED
    BY <1>1, <2>4, <2>6, <2>7, <2>9, <2>10 DEF ConnectedOK, TaskOK, MessagesOK
<1> QED
  BY <1>2, <1>3 DEF recv_event

(* A response to the request at hand; the first snapshot is one.            *)
LEMMA RespondConverges ==
  ASSUME IpcInv, Connected, ConnectedOK, srv.pc \in {"handle", "runtime"}, NEW type, NEW data,
         Respond(type, data), type = "subscribe" => data = srv.read /\ Complete(data),
         UNCHANGED <<cache, unsent, rx, lost, c2s, s2c, client, view>>,
         IF type = "subscribe" THEN srv.req.request = "subscribe" /\ subscribed'
         ELSE subscribed' = subscribed
  PROVE  ConnectedOK'
<1> DEFINE m == Msg("response", srv.req.id, type, data)
<1>1. m.kind = "response" /\ m.id = srv.req.id /\ m.type = type /\ m.data = data
  BY DEF Msg
<1>2. srv' = [srv EXCEPT !.pc = "write", !.msg = m]
  BY DEF Respond
<1> HIDE DEF m
<1>3. srv'.pc = "write" /\ srv'.msg = m /\ srv'.read = srv.read /\ srv'.req = srv.req
  BY <1>2, ServerFacts
<1>4. /\ IsSnapshot(m) <=> type = "subscribe"
      /\ \A f \in FieldSet : ~Tells(m, f)
  BY <1>1 DEF IsSnapshot, Tells
<1>5. TaskOK' /\ MessagesOK'
  BY <1>1, <1>3, <1>4 DEF ConnectedOK, TaskOK, MessagesOK, Informative
<1>6. ASSUME NEW f \in FieldSet
      PROVE  FieldOK(f, cache[f], unsent, lost, rx, m, srv.read, s2c, view)
  <2>1. FieldOK(f, cache[f], unsent, lost, rx, srv.msg, srv.read, s2c, view)
    BY DEF ConnectedOK, FieldsOK
  <2>2. srv.msg.kind = "hello" /\ m.kind # "event"
    BY <1>1, HelloSaysNothing DEF ConnectedOK, TaskOK
  <2>3. IsSnapshot(m) => m.data[f] = srv.read[f] /\ srv.read[f] # -1
    BY <1>1, <1>4 DEF Complete
  <2> QED
    BY <2>1, <2>2, <2>3, FieldAnswered
<1>7. FieldsOK'
  BY <1>3, <1>6 DEF FieldsOK
<1>8. ~IsSnapshot(srv.msg)
  BY HelloSaysNothing DEF ConnectedOK, TaskOK
<1>9. CASE subscribed
  <2>1. FirstSnapshot /\ subscribed'
    BY <1>9, Zenon DEF ConnectedOK
  <2>2. FirstSnapshot'
    BY <1>8, <2>1 DEF FirstSnapshot, Catches
  <2> QED
    BY <1>5, <1>7, <2>1, <2>2 DEF ConnectedOK
<1>10. CASE ~subscribed
  <2>1. /\ view = Blank /\ client.pc = "call" /\ s2c = <<>> /\ c2s = <<>>
        /\ srv.req.id = client.want /\ srv.req.request = client.req
    BY <1>10 DEF ConnectedOK, Lockstep, HelloTurn, ClientTurn, ServerTurn
  <2>2. CASE type = "subscribe"
    <3>1. FirstSnapshot'
      BY <1>1, <1>3, <1>4, <2>1, <2>2 DEF FirstSnapshot, Catches
    <3> QED
      BY <1>5, <1>7, <2>2, <3>1 DEF ConnectedOK
  <2>3. CASE type # "subscribe"
    <3>1. Lockstep'
      BY <1>1, <1>3, <1>4, <2>1, <2>3 DEF Lockstep, ServerTurn, Responds
    <3> QED
      BY <1>5, <1>7, <1>10, <2>3, <3>1 DEF ConnectedOK
  <2> QED
    BY <2>2, <2>3
<1> QED
  BY <1>9, <1>10

LEMMA AnswerConverges ==
  ASSUME IpcInv, SubscriberInv, handle_service_request \/ reject_request \/ runtime_answers
  PROVE  SubscriberInv'
<1>1. /\ srv.pc \in {"handle", "runtime"}
      /\ UNCHANGED <<cache, unsent, rx, lost, subscribed, c2s, s2c, client, view>>
  BY DEF handle_service_request, reject_request, runtime_answers
<1>0. CASE srv' = [srv EXCEPT !.pc = "runtime"] /\ srv.pc = "handle"
  <2>1. /\ srv'.pc = "runtime" /\ srv'.msg = srv.msg /\ srv'.read = srv.read
        /\ srv'.req = srv.req
    BY <1>0, ServerFacts
  <2>2. SUFFICES ASSUME client.pc # "closed" PROVE ConnectedOK'
    BY <1>1 DEF SubscriberInv, Connected
  <2>3. ConnectedOK
    BY <1>1, <2>2 DEF SubscriberInv, Connected
  <2>4. TaskOK' /\ MessagesOK' /\ FieldsOK'
    BY <1>0, <1>1, <2>1, <2>3 DEF ConnectedOK, TaskOK, MessagesOK, FieldsOK
  <2>5. subscribed => FirstSnapshot'
    BY <1>1, <2>1, <2>3 DEF ConnectedOK, FirstSnapshot, Catches
  <2>6. ~subscribed => Lockstep'
    BY <1>0, <1>1, <2>1, <2>3 DEF ConnectedOK, Lockstep, HelloTurn, ClientTurn, ServerTurn, Responds
  <2> QED
    BY <1>1, <2>4, <2>5, <2>6 DEF ConnectedOK
<1>2. \/ srv' = [srv EXCEPT !.pc = "runtime"] /\ srv.pc = "handle"
      \/ \E type, data : type # "subscribe" /\ Respond(type, data)
  <2>1. CASE reject_request
    BY <2>1 DEF reject_request
  <2>3. CASE runtime_answers
    BY <2>3 DEF runtime_answers, ResponseType
  <2>2. CASE handle_service_request
    <3> DEFINE r == srv.req.request
    <3>1. r \in {"get_status", "get_state", "api_call", "stop"}
      BY <2>2 DEF handle_service_request, IsValid, KnownRequests, ResponseType
    <3>2. ResponseType["api_call"] = "api_result" /\ ResponseType["stop"] = "stop"
      BY DEF ResponseType
    <3>3. CASE r = "get_status"
      BY <2>2, <3>3 DEF handle_service_request
    <3>4. CASE r = "get_state"
      BY <2>2, <3>4 DEF handle_service_request
    <3>5. CASE r = "api_call"
      BY <2>2, <3>5 DEF handle_service_request
    <3>6. CASE r = "stop"
      <4>1. Respond("stop", Blank)
        BY <2>2, <3>2, <3>6 DEF handle_service_request
      <4> QED
        BY <4>1
    <3> QED
      BY <3>1, <3>3, <3>4, <3>5, <3>6
  <2> QED
    BY <2>1, <2>2, <2>3
<1> SUFFICES ASSUME ~(srv' = [srv EXCEPT !.pc = "runtime"] /\ srv.pc = "handle") PROVE SubscriberInv'
  BY <1>0
<1>3. PICK type, data : type # "subscribe" /\ Respond(type, data)
  BY <1>2
<1>4. SUFFICES ASSUME client.pc # "closed" PROVE ConnectedOK'
  BY <1>1 DEF SubscriberInv, Connected
<1>5. Connected /\ ConnectedOK
  BY <1>1, <1>4 DEF SubscriberInv, Connected
<1> QED
  BY <1>1, <1>3, <1>5, RespondConverges

(* subscription_snapshot, register by register.                             *)
LEMMA SnapshotConverges ==
  ASSUME IpcInv, SubscriberInv, subscription_snapshot
  PROVE  SubscriberInv'
<1>1. /\ srv.pc = "handle" /\ srv.req.request = "subscribe"
      /\ UNCHANGED <<cache, unsent, rx, lost, c2s, s2c, client, view>>
  BY DEF subscription_snapshot, Resume
<1>2. SUFFICES ASSUME client.pc # "closed" PROVE ConnectedOK'
  BY <1>1 DEF SubscriberInv, Connected
<1>3. Connected /\ ConnectedOK
  BY <1>1, <1>2 DEF SubscriberInv, Connected
<1>4. CASE Unread # {}
  <2> DEFINE field == NextField
             read == [srv.read EXCEPT ![field] = cache[field]]
  <2>1. srv' = [srv EXCEPT !.read = read] /\ subscribed' = subscribed
    BY <1>4 DEF subscription_snapshot
  <2> HIDE DEF field
  <2>2. \A f \in FieldSet : read[f] = srv.read[f] \/ read[f] = cache[f]
    <3>1. srv.read \in [FieldSet -> Int]
      BY ServerFacts DEF Reading
    <3> QED
      BY <3>1
  <2> HIDE DEF read
  <2>3. srv'.pc = srv.pc /\ srv'.msg = srv.msg /\ srv'.read = read /\ srv'.req = srv.req
    BY <2>1, ServerFacts
  <2>4. ASSUME NEW f \in FieldSet
        PROVE  FieldOK(f, cache[f], unsent, lost, rx, srv.msg, read, s2c, view)
    <3>1. FieldOK(f, cache[f], unsent, lost, rx, srv.msg, srv.read, s2c, view)
      BY <1>3 DEF ConnectedOK, FieldsOK
    <3> QED
      BY <2>2, <3>1, FieldRead
  <2>5. FieldsOK'
    BY <1>1, <2>3, <2>4 DEF FieldsOK
  <2>6. TaskOK' /\ MessagesOK'
    BY <1>1, <1>3, <2>1, <2>3 DEF ConnectedOK, TaskOK, MessagesOK
  <2>7. subscribed => FirstSnapshot'
    BY <1>1, <1>3, <2>3 DEF ConnectedOK, FirstSnapshot, Catches
  <2>8. ~subscribed => Lockstep'
    BY <1>1, <1>3, <2>3 DEF ConnectedOK, Lockstep, HelloTurn, ClientTurn, ServerTurn
  <2> QED
    BY <2>1, <2>5, <2>6, <2>7, <2>8 DEF ConnectedOK
<1>5. CASE Unread = {}
  <2>1. Respond("subscribe", srv.read) /\ subscribed'
    BY <1>5 DEF subscription_snapshot
  <2>2. Complete(srv.read)
    BY <1>5 DEF Unread, Complete
  <2> QED
    BY <1>1, <1>3, <2>1, <2>2, RespondConverges, Zenon
<1> QED
  BY <1>4, <1>5

(* The connection ends: nothing more is shown.                              *)
LEMMA EndConverges ==
  ASSUME SubscriberInv, disconnect \/ close
  PROVE  SubscriberInv'
<1>1. CASE disconnect
  <2>1. srv'.pc = "closed" /\ view' = view
    BY <1>1 DEF disconnect
  <2> QED
    BY <2>1 DEF SubscriberInv, Connected
<1>2. CASE close
  <2>1. client' = Return("closed") /\ view' = view /\ srv' = srv
    BY <1>2 DEF close
  <2> QED
    BY <2>1 DEF SubscriberInv, Connected, Return
<1> QED
  BY <1>1, <1>2

(* Hello is read before anything else can come.                             *)
LEMMA HelloConverges ==
  ASSUME IpcInv, SubscriberInv, recv_hello
  PROVE  SubscriberInv'
<1>1. /\ client.pc = "hello" /\ s2c # <<>> /\ s2c' = Tail(s2c)
      /\ UNCHANGED <<cache, unsent, rx, lost, srv, subscribed, c2s, view>>
  BY DEF recv_hello, Received
<1>2. SUFFICES ASSUME srv.pc # "closed", client'.pc # "closed" PROVE ConnectedOK'
  BY <1>1 DEF SubscriberInv, Connected
<1>3. ConnectedOK
  BY <1>1, <1>2 DEF SubscriberInv, Connected
<1>4. PICK place \in {"idle", "closed"} : client' = Return(place)
  BY DEF recv_hello
<1>5. client'.pc = "idle"
  BY <1>2, <1>4 DEF Return, IpcInv, IpcTypes
<1>6. ~subscribed
  BY <1>1, <1>3 DEF ConnectedOK, FirstSnapshot
<1>7. view = Blank /\ c2s = <<>> /\ srv.pc = "select" /\ s2c = <<Hello>>
  BY <1>1, <1>3, <1>6 DEF ConnectedOK, Lockstep, HelloTurn, ClientTurn, ServerTurn
<1>8. s2c' = <<>> /\ Head(s2c) = Hello /\ s2c \in Seq(Message)
  BY <1>1, <1>7, ServerFacts
<1>9. Lockstep'
  BY <1>1, <1>5, <1>7, <1>8 DEF Lockstep, ClientTurn
<1>10. TaskOK' /\ MessagesOK'
  BY <1>1, <1>3, <1>8 DEF ConnectedOK, TaskOK, MessagesOK
<1>11. ASSUME NEW f \in FieldSet
       PROVE  FieldOK(f, cache[f], unsent, lost, rx, srv.msg, srv.read, Tail(s2c), view)
  <2>1. FieldOK(f, cache[f], unsent, lost, rx, srv.msg, srv.read, s2c, view)
    BY <1>3 DEF ConnectedOK, FieldsOK
  <2>2. ~InHand(f, cache[f], Head(s2c))
    BY <1>8, HelloSaysNothing DEF InHand, Tells
  <2> QED
    BY <1>1, <1>8, <2>1, <2>2, FieldTaken, Zenon
<1>12. FieldsOK'
  BY <1>1, <1>11 DEF FieldsOK
<1> QED
  BY <1>1, <1>6, <1>9, <1>10, <1>12 DEF ConnectedOK

(* A client that is about to write still has its turn; one that cannot      *)
(* write any more has lost the connection.                                  *)
LEMMA WritingConverges ==
  ASSUME IpcInv, SubscriberInv, write_fails \/ \E r : request(r)
  PROVE  SubscriberInv'
<1>1. UNCHANGED <<cache, unsent, rx, lost, srv, subscribed, c2s, s2c, view>>
  BY DEF write_fails, request
<1>2. CASE write_fails
  BY <1>1, <1>2 DEF write_fails, SubscriberInv, Connected
<1>3. ASSUME NEW r, request(r) PROVE SubscriberInv'
  <2>1. client.pc = "idle" /\ client'.pc = "write"
    BY <1>3 DEF request, IpcInv, IpcTypes
  <2>2. SUFFICES ASSUME srv.pc # "closed" PROVE ConnectedOK'
    BY <1>1 DEF SubscriberInv, Connected
  <2>3. ConnectedOK
    BY <2>1, <2>2 DEF SubscriberInv, Connected
  <2>4. TaskOK' /\ MessagesOK' /\ FieldsOK'
    BY <1>1, <2>3 DEF ConnectedOK, TaskOK, MessagesOK, FieldsOK
  <2>5. subscribed => FirstSnapshot'
    BY <1>1, <2>1, <2>3 DEF ConnectedOK, FirstSnapshot
  <2>6. ~subscribed => Lockstep'
    BY <1>1, <2>1, <2>3 DEF ConnectedOK, Lockstep, HelloTurn, ClientTurn, ServerTurn
  <2> QED
    BY <1>1, <2>4, <2>5, <2>6 DEF ConnectedOK
<1> QED
  BY <1>2, <1>3

(* A call takes the turn.                                                   *)
LEMMA CallConverges ==
  ASSUME IpcInv, SubscriberInv, NEW r, NEW version, send_request(r, version)
  PROVE  SubscriberInv'
<1> DEFINE env == [id |-> client.next, version |-> version, request |-> r]
<1>1. /\ client.pc = "write" /\ srv.pc # "closed" /\ c2s' = Append(c2s, env)
      /\ UNCHANGED <<cache, unsent, rx, lost, srv, subscribed, s2c, view>>
  BY DEF send_request
<1>2. client'.pc = "call" /\ client'.want = client.next /\ client'.req = r
  BY DEF send_request, IpcInv, IpcTypes
<1>3. ConnectedOK
  BY <1>1 DEF SubscriberInv, Connected
<1>4. TaskOK' /\ MessagesOK' /\ FieldsOK'
  BY <1>1, <1>3 DEF ConnectedOK, TaskOK, MessagesOK, FieldsOK
<1>5. CASE subscribed
  <2>1. FirstSnapshot'
    BY <1>1, <1>2, <1>3, <1>5 DEF ConnectedOK, FirstSnapshot
  <2> QED
    BY <1>1, <1>4, <1>5, <2>1 DEF ConnectedOK, SubscriberInv
<1>6. CASE ~subscribed
  <2>1. view = Blank /\ c2s = <<>> /\ s2c = <<>> /\ srv.pc = "select"
    BY <1>1, <1>3, <1>6 DEF ConnectedOK, Lockstep, HelloTurn, ClientTurn, ServerTurn
  <2>2. env.id = client.next /\ env.request = r
    OBVIOUS
  <2> HIDE DEF env
  <2>3. c2s' = <<env>>
    BY <1>1, <2>1
  <2>4. Len(c2s') = 1 /\ c2s'[1] = env
    BY <2>3
  <2>5. Lockstep'
    BY <1>1, <1>2, <2>1, <2>2, <2>4 DEF Lockstep, ServerTurn
  <2> QED
    BY <1>1, <1>4, <1>6, <2>5 DEF ConnectedOK, SubscriberInv
<1> QED
  BY <1>5, <1>6

(* The call that waits takes the message that comes, and drops an event.    *)
LEMMA ResponseConverges ==
  ASSUME IpcInv, SubscriberInv, recv_response
  PROVE  SubscriberInv'
<1> DEFINE m == Head(s2c)
           takes == Accepts(m) /\ m.type = "subscribe"
<1>1. /\ client.pc = "call" /\ s2c # <<>> /\ s2c' = Tail(s2c)
      /\ view' = (IF takes THEN m.data ELSE view)
      /\ lost' = IF m.kind = "event" /\ m.type # "log"
                 THEN lost \cup Missed(m.type, m.data[m.type]) ELSE lost
      /\ UNCHANGED <<cache, unsent, rx, srv, subscribed, c2s>>
  BY DEF recv_response, Received
<1>2. client'.pc = "idle"
  BY DEF recv_response, Return, IpcInv, IpcTypes
<1>3. s2c \in Seq(Message) /\ m \in Message /\ 1 \in DOMAIN s2c /\ m = s2c[1]
  BY <1>1, ServerFacts
<1>4. takes => IsSnapshot(m)
  BY DEF Accepts, IsSnapshot
<1>5. m.data \in Reading
  BY <1>3 DEF Message
<1> HIDE DEF m, takes
<1>6. view' \in Reading
  BY <1>1, <1>5 DEF SubscriberInv
<1>7. SUFFICES ASSUME srv.pc # "closed" PROVE ConnectedOK'
  BY <1>1, <1>6 DEF SubscriberInv, Connected
<1>8. ConnectedOK
  BY <1>1, <1>7 DEF SubscriberInv, Connected
<1>9. Informative(m)
  BY <1>3, <1>8 DEF ConnectedOK, MessagesOK
<1>10. \A i \in DOMAIN Tail(s2c) : i + 1 \in DOMAIN s2c /\ Tail(s2c)[i] = s2c[i + 1]
  BY <1>1, <1>3, TailElements
<1>11. TaskOK' /\ MessagesOK'
  BY <1>1, <1>8, <1>10 DEF ConnectedOK, TaskOK, MessagesOK
<1>12. ASSUME NEW f \in FieldSet
       PROVE  FieldOK(f, cache[f], unsent, lost', rx, srv.msg, srv.read, Tail(s2c), view')
  <2>1. FieldOK(f, cache[f], unsent, lost, rx, srv.msg, srv.read, s2c, view)
    BY <1>8 DEF ConnectedOK, FieldsOK
  <2>2. lost \subseteq lost'
    BY <1>1
  <2>3. InHand(f, cache[f], m) => f \in lost'
    <3>1. SUFFICES ASSUME m.kind = "event", m.type = f, m.data[f] = cache[f] PROVE f \in lost'
      BY DEF InHand, Tells
    <3>2. f # "log"
      BY BoundsAssumption
    <3> QED
      BY <1>1, <3>1, <3>2 DEF Missed
  <2>4. \/ view' = view /\ (InHand(f, cache[f], m) => f \in lost')
        \/ IsSnapshot(m) /\ view' = m.data
    BY <1>1, <1>4, <2>3
  <2> QED
    BY <1>1, <1>3, <2>1, <2>2, <2>4, FieldTaken, Zenon DEF m
<1>13. FieldsOK'
  BY <1>1, <1>12, Zenon DEF FieldsOK
<1>14. CASE subscribed
  <2>1. FirstSnapshot
    BY <1>8, <1>14 DEF ConnectedOK
  <2>2. view = Blank => takes
    <3>1. ResponseType["subscribe"] = "subscribe" /\ "subscribe" \in KnownRequests
      BY DEF ResponseType, KnownRequests
    <3> QED
      BY <1>1, <1>3, <2>1, <3>1 DEF FirstSnapshot, Catches, IsSnapshot, Accepts, takes
  <2>3. takes => m.data # Blank
    <3>1. "status" \in FieldSet /\ Blank["status"] = -1
      BY BoundsAssumption, MessageTypes
    <3> QED
      BY <1>4, <1>9, <3>1 DEF Informative, Complete
  <2>4. view' # Blank
    BY <1>1, <2>2, <2>3
  <2>5. FirstSnapshot'
    BY <1>2, <2>4 DEF FirstSnapshot, Blank
  <2> QED
    BY <1>1, <1>11, <1>13, <1>14, <2>5 DEF ConnectedOK
<1>15. CASE ~subscribed
  <2>1. /\ view = Blank /\ srv.pc = "select" /\ c2s = <<>> /\ Len(s2c) = 1
        /\ Responds(s2c[1])
    BY <1>1, <1>8, <1>15 DEF ConnectedOK, Lockstep, HelloTurn, ClientTurn, ServerTurn
  <2>2. s2c' = <<>>
    BY <1>1, <1>3, <2>1
  <2>3. view' = Blank
    BY <1>1, <1>3, <1>4, <2>1 DEF Responds
  <2>4. Lockstep'
    BY <1>1, <1>2, <2>1, <2>2, <2>3 DEF Lockstep, ClientTurn, Blank
  <2> QED
    BY <1>1, <1>11, <1>13, <1>15, <2>4 DEF ConnectedOK
<1> QED
  BY <1>14, <1>15

(* A subscriber shows the event it reads.                                   *)
LEMMA UpdateConverges ==
  ASSUME IpcInv, SubscriberInv, recv_update
  PROVE  SubscriberInv'
<1> DEFINE m == Head(s2c)
<1>1. /\ client.pc = "idle" /\ s2c # <<>> /\ s2c' = Tail(s2c)
      /\ view' = IF m.kind = "event" /\ m.type # "log"
                 THEN [view EXCEPT ![m.type] = m.data[m.type]] ELSE view
      /\ UNCHANGED <<cache, unsent, rx, lost, srv, subscribed, c2s, client>>
  BY DEF recv_update, Received
<1>2. s2c \in Seq(Message) /\ m \in Message /\ 1 \in DOMAIN s2c /\ m = s2c[1]
  BY <1>1, ServerFacts
<1>3. m.data \in [FieldSet -> Int] /\ view \in [FieldSet -> Int] /\ "log" \notin FieldSet
  BY <1>2, BoundsAssumption DEF Message, Reading, SubscriberInv
<1> HIDE DEF m
<1>4. /\ view' \in [FieldSet -> Int]
      /\ \A f \in FieldSet : view'[f] = IF Tells(m, f) THEN m.data[f] ELSE view[f]
  <2>1. CASE m.kind = "event" /\ m.type # "log"
    <3>1. view' = [view EXCEPT ![m.type] = m.data[m.type]]
      BY <1>1, <2>1
    <3> QED
      BY <1>3, <2>1, <3>1, Zenon DEF Tells
  <2>2. CASE ~(m.kind = "event" /\ m.type # "log")
    BY <1>1, <1>3, <2>2 DEF Tells
  <2> QED
    BY <2>1, <2>2
<1>5. SUFFICES ASSUME srv.pc # "closed" PROVE ConnectedOK'
  BY <1>1, <1>4 DEF SubscriberInv, Connected, Reading
<1>6. ConnectedOK
  BY <1>1, <1>5 DEF SubscriberInv, Connected
<1>7. subscribed
  BY <1>1, <1>6 DEF ConnectedOK, Lockstep, HelloTurn, ClientTurn, ServerTurn
<1>8. view # Blank
  BY <1>1, <1>6, <1>7 DEF ConnectedOK, FirstSnapshot
<1>9. Informative(m)
  BY <1>2, <1>6 DEF ConnectedOK, MessagesOK
<1>10. view' # Blank
  <2>1. CASE \E f \in FieldSet : Tells(m, f)
    <3>1. PICK f \in FieldSet : Tells(m, f)
      BY <2>1
    <3>2. view'[f] # -1 /\ Blank[f] = -1
      BY <1>4, <1>9, <3>1, MessageTypes DEF Informative
    <3> QED
      BY <3>2
  <2>2. CASE \A f \in FieldSet : ~Tells(m, f)
    <3>1. view' = view
      BY <1>3, <1>4, <2>2
    <3> QED
      BY <1>8, <3>1
  <2> QED
    BY <2>1, <2>2
<1>11. FirstSnapshot'
  BY <1>1, <1>10 DEF FirstSnapshot, Blank
<1>12. \A i \in DOMAIN Tail(s2c) : i + 1 \in DOMAIN s2c /\ Tail(s2c)[i] = s2c[i + 1]
  BY <1>1, <1>2, TailElements
<1>13. TaskOK' /\ MessagesOK'
  BY <1>1, <1>6, <1>12 DEF ConnectedOK, TaskOK, MessagesOK
<1>14. ASSUME NEW f \in FieldSet
       PROVE  FieldOK(f, cache[f], unsent, lost, rx, srv.msg, srv.read, Tail(s2c), view')
  <2>1. FieldOK(f, cache[f], unsent, lost, rx, srv.msg, srv.read, s2c, view)
    BY <1>6 DEF ConnectedOK, FieldsOK
  <2>2. \/ Tells(m, f) /\ view'[f] = m.data[f]
        \/ ~Tells(m, f) /\ view # Blank /\ view'[f] = view[f]
    BY <1>4, <1>8
  <2> QED
    BY <1>1, <1>2, <2>1, <2>2, FieldTaken, Zenon DEF m
<1>15. FieldsOK'
  BY <1>1, <1>14, Zenon DEF FieldsOK
<1> QED
  BY <1>1, <1>7, <1>11, <1>13, <1>15 DEF ConnectedOK

(* The daemon starts with a client at its hello and nothing under way.      *)
LEMMA InitConverges ==
  ASSUME Init
  PROVE  SubscriberInv
<1>1. view \in Reading /\ view = Blank
  BY MessageTypes DEF Init
<1>2. srv.pc = "accept" /\ srv.msg = Hello /\ srv.read = Blank /\ client.pc = "hello"
  BY DEF Init
<1>3. rx = <<>> /\ s2c = <<>> /\ c2s = <<>> /\ ~subscribed /\ unsent = {}
  BY DEF Init
<1>4. \A f \in FieldSet : ~Tells(Hello, f) /\ Blank[f] = -1
  BY HelloSaysNothing DEF Tells
<1>5. ~IsSnapshot(Hello)
  BY HelloSaysNothing
<1>6. TaskOK /\ MessagesOK
  BY <1>2, <1>3, <1>4, <1>5 DEF TaskOK, MessagesOK, Informative
<1>7. Lockstep
  BY <1>1, <1>2, <1>3 DEF Lockstep, HelloTurn
<1>8. ASSUME NEW f \in FieldSet
      PROVE  FieldOK(f, cache[f], unsent, lost, <<>>, Hello, Blank, <<>>, Blank)
  <2>1. ~Tells(Hello, f) /\ Blank[f] = -1 /\ \A i \in DOMAIN <<>> : FALSE
    BY <1>4
  <2>2. NoneIsNewer(f, cache[f], unsent, <<>>, Hello, <<>>)
    BY <2>1 DEF NoneIsNewer
  <2>3. NewestIsLast(f, cache[f], <<>>, Hello, <<>>)
    BY <2>1 DEF NewestIsLast, InHand
  <2>4. Arrives(f, cache[f], <<>>, Hello, <<>>, Blank)
    BY <2>1 DEF Arrives, NoneQueued, NoneStreamed
  <2>5. IsCaughtUp(f, cache[f], <<>>, Hello, Blank, <<>>)
    BY <1>5, <2>1 DEF IsCaughtUp
  <2> QED
    BY <2>2, <2>3, <2>4, <2>5 DEF FieldOK
<1>9. FieldsOK
  BY <1>1, <1>2, <1>3, <1>8 DEF FieldsOK
<1> QED
  BY <1>1, <1>3, <1>6, <1>7, <1>9 DEF SubscriberInv, ConnectedOK

(* The invariant of subscriptions holds in every behaviour.                 *)
LEMMA SubscriberInvHolds == Spec => []SubscriberInv
<1>1. Init => SubscriberInv
  BY InitConverges
<1>2. IpcInv /\ SubscriberInv /\ [Next]_vars => SubscriberInv'
  <2> SUFFICES ASSUME IpcInv, SubscriberInv, [Next]_vars PROVE SubscriberInv'
    OBVIOUS
  <2>1. CASE UNCHANGED vars
    BY <2>1, Zenon DEF vars, SubscriberInv, Connected, ConnectedOK, TaskOK, MessagesOK, FieldsOK,
       FirstSnapshot, Catches, Lockstep, HelloTurn, ClientTurn, ServerTurn, Responds
  <2>2. CASE Publisher
    BY <2>2, SetConverges, SendConverges DEF Publisher
  <2>3. CASE Server
    BY <2>3, StartConverges, WriteConverges, RequestConverges, EventConverges, AnswerConverges,
       SnapshotConverges, EndConverges DEF Server
  <2>4. CASE Client
    BY <2>4, HelloConverges, ResponseConverges, UpdateConverges, EndConverges, WritingConverges,
       CallConverges DEF Client
  <2> QED
    BY <2>1, <2>2, <2>3, <2>4 DEF Next
<1> QED
  BY <1>1, <1>2, IpcInvHolds, PTL DEF Spec

(* Client and server never both wait for the other to read unless the       *)
(* client is a subscriber that goes on calling: before a subscription every *)
(* request is answered before the next is written (ipc.rs, send_request;    *)
(* ipc_server.rs, handle_client).                                           *)
THEOREM CallersNeverStick == Spec => [](~subscribed => ~Stuck)
<1>1. IpcInv /\ SubscriberInv => (~subscribed => ~Stuck)
  <2> SUFFICES ASSUME SubscriberInv, ~subscribed, Stuck PROVE FALSE
    OBVIOUS
  <2>1. client.pc = "write" /\ srv.pc = "write"
    BY DEF Stuck
  <2>2. Lockstep
    BY <2>1 DEF SubscriberInv, Connected, ConnectedOK
  <2> QED
    BY <2>1, <2>2 DEF Lockstep, HelloTurn, ClientTurn, ServerTurn
<1> QED
  BY <1>1, IpcInvHolds, SubscriberInvHolds, PTL

(* A subscriber that has read everything shows what the cache holds, except *)
(* for the events that the channel dropped and those that a call of its own *)
(* swallowed: the receiver is older than the snapshot, so that no           *)
(* publication falls between them (ipc_server.rs, handle_client and         *)
(* subscription_snapshot; ipc.rs, recv_update and request).                 *)
THEOREM SubscribersConverge == Spec => []SubscriberConverges
<1>1. IpcInv /\ SubscriberInv => SubscriberConverges
  <2> SUFFICES ASSUME IpcInv, SubscriberInv, Drained, NEW f \in FieldSet \ (unsent \cup lost)
               PROVE  view[f] = cache[f]
    BY DEF SubscriberConverges
  <2>1. ConnectedOK
    BY DEF SubscriberInv, Connected, Drained
  <2>2. srv.msg = Hello /\ view # Blank /\ rx = <<>> /\ s2c = <<>>
    BY <2>1 DEF ConnectedOK, TaskOK, Drained
  <2>3. Arrives(f, cache[f], <<>>, Hello, <<>>, view)
    BY <2>1, <2>2 DEF ConnectedOK, FieldsOK, FieldOK
  <2>4. ~InHand(f, cache[f], Hello)
    BY HelloSaysNothing DEF InHand, Tells
  <2>5. ~Queued(f, cache[f], <<>>) /\ ~Streamed(f, cache[f], <<>>)
    BY DEF Queued, Streamed
  <2> QED
    BY <2>2, <2>3, <2>4, <2>5, Zenon DEF Arrives
<1> QED
  BY <1>1, IpcInvHolds, SubscriberInvHolds, PTL
=============================================================================
