------------------------ MODULE IpcConnectionProofs -------------------------
(***************************************************************************)
(* Proof that a call over the local IPC never returns a state older than   *)
(* the call, for any number of registers, calls and publications and any   *)
(* capacity of the channel and of the streams; and the lemmas on the way   *)
(* of an event to a subscriber that SubscriberProofs uses.                 *)
(***************************************************************************)
EXTENDS IpcConnection, TLAPS

Reading == [FieldSet -> Int]
Requests == {"subscribe", "get_status", "get_state", "api_call", "stop", "unknown", "none"}
Kinds == {"hello", "response", "event"}
Types == FieldSet \cup {"hello", "log", "error", "subscribe", "status", "state", "api_result", "stop"}
Envelope == [id : Nat, version : Versions, request : Requests]
Message == [kind : Kinds, id : Nat, type : Types, data : Reading]
Event == [field : FieldSet, version : Nat] \cup {LogEvent}

-----------------------------------------------------------------------------
(* The newest version of a register on its way to the subscriber: through   *)
(* the channel q, the message m and the stream st to what is shown, vw.     *)
Tells(m, f) == m.kind = "event" /\ m.type = f
IsSnapshot(m) == m.kind = "response" /\ m.type = "subscribe"

Queued(f, v, q) == \E i \in DOMAIN q : q[i].field = f /\ q[i].version = v
InHand(f, v, m) == Tells(m, f) /\ m.data[f] = v
Streamed(f, v, st) == \E i \in DOMAIN st : InHand(f, v, st[i])
NoneQueued(f, q) == \A i \in DOMAIN q : q[i].field # f
NoneStreamed(f, st) == \A i \in DOMAIN st : ~Tells(st[i], f)

(* No event is newer than the register, and none is the newest if that one  *)
(* is not sent yet.                                                         *)
NoneIsNewer(f, v, U, q, m, st) ==
  /\ \A i \in DOMAIN q : q[i].field = f => q[i].version <= v /\ (f \in U => q[i].version # v)
  /\ Tells(m, f) => m.data[f] <= v /\ (f \in U => m.data[f] # v)
  /\ \A i \in DOMAIN st : Tells(st[i], f) => st[i].data[f] <= v /\ (f \in U => st[i].data[f] # v)

(* Behind the newest event of a register there is none of that register.    *)
NewestIsLast(f, v, q, m, st) ==
  /\ \A i, j \in DOMAIN q : q[i].field = f /\ q[i].version = v /\ i < j => q[j].field # f
  /\ InHand(f, v, m) => NoneQueued(f, q)
  /\ \A i \in DOMAIN st : InHand(f, v, st[i]) =>
       /\ NoneQueued(f, q) /\ ~Tells(m, f)
       /\ \A j \in DOMAIN st : i < j => ~Tells(st[j], f)

(* The newest version is under way or is shown.                             *)
Arrives(f, v, q, m, st, vw) ==
  \/ Queued(f, v, q) \/ InHand(f, v, m) \/ Streamed(f, v, st)
  \/ /\ NoneQueued(f, q) /\ ~Tells(m, f) /\ NoneStreamed(f, st)
     /\ vw = Blank \/ vw[f] = v

(* A snapshot that is older is followed by the newest version.              *)
IsCaughtUp(f, v, q, m, rd, st) ==
  /\ rd[f] # -1 => rd[f] = v \/ Queued(f, v, q)
  /\ IsSnapshot(m) => m.data[f] = v \/ Queued(f, v, q)
  /\ \A i \in DOMAIN st : IsSnapshot(st[i]) =>
       \/ st[i].data[f] = v \/ Queued(f, v, q) \/ InHand(f, v, m)
       \/ \E j \in DOMAIN st : i < j /\ InHand(f, v, st[j])

FieldOK(f, v, U, L, q, m, rd, st, vw) ==
  /\ NoneIsNewer(f, v, U, q, m, st)
  /\ NewestIsLast(f, v, q, m, st)
  /\ f \notin U \cup L => Arrives(f, v, q, m, st, vw) /\ IsCaughtUp(f, v, q, m, rd, st)

(* The elements of a sequence that lost its first one, or got one more.     *)
LEMMA TailElements ==
  ASSUME NEW S, NEW s \in Seq(S), s # <<>>
  PROVE  /\ Tail(s) \in Seq(S) /\ 1 \in DOMAIN s /\ Head(s) = s[1]
         /\ \A i \in DOMAIN Tail(s) : i \in Nat \ {0} /\ i + 1 \in DOMAIN s /\ Tail(s)[i] = s[i + 1]
         /\ \A i \in DOMAIN s : i = 1 \/ (i \in Nat /\ i - 1 \in DOMAIN Tail(s) /\ Tail(s)[i - 1] = s[i])
OBVIOUS

LEMMA AppendElements ==
  ASSUME NEW S, NEW s \in Seq(S), NEW x \in S
  PROVE  /\ Append(s, x) \in Seq(S)
         /\ \A i \in DOMAIN s : i \in Nat /\ i < Len(s) + 1 /\ i \in DOMAIN Append(s, x)
                                /\ Append(s, x)[i] = s[i]
         /\ Len(s) + 1 \in DOMAIN Append(s, x) /\ Append(s, x)[Len(s) + 1] = x
         /\ \A i \in DOMAIN Append(s, x) : i \in DOMAIN s \/ i = Len(s) + 1
OBVIOUS

(* set: the register is newer than all its events.                          *)
LEMMA FieldWritten ==
  ASSUME NEW f, NEW v \in Nat, NEW U, NEW L, NEW W, NEW M, NEW q \in Seq(Event), NEW m, NEW rd,
         NEW st, NEW vw, f \in W, FieldOK(f, v, U, L, q, m, rd, st, vw),
         \A i \in DOMAIN q : q[i].field = f => q[i].version \in Int,
         Tells(m, f) => m.data[f] \in Int,
         \A i \in DOMAIN st : Tells(st[i], f) => st[i].data[f] \in Int
  PROVE  FieldOK(f, v + 1, W, M, q, m, rd, st, vw)
<1>1. NoneIsNewer(f, v + 1, W, q, m, st)
  BY DEF FieldOK, NoneIsNewer
<1>2. /\ \A i \in DOMAIN q : q[i].field = f => q[i].version # v + 1
      /\ Tells(m, f) => m.data[f] # v + 1
      /\ \A i \in DOMAIN st : Tells(st[i], f) => st[i].data[f] # v + 1
  BY <1>1 DEF NoneIsNewer
<1>3. NewestIsLast(f, v + 1, q, m, st)
  BY <1>2 DEF NewestIsLast, InHand
<1> QED
  BY <1>1, <1>3 DEF FieldOK

(* The channel drops its oldest event: the newest one counts as lost.       *)
LEMMA FieldDropped ==
  ASSUME NEW f, NEW v, NEW U, NEW L, NEW M, NEW q \in Seq(Event), q # <<>>, NEW m, NEW rd,
         NEW st, NEW vw, FieldOK(f, v, U, L, q, m, rd, st, vw), L \subseteq M,
         Head(q).field = f /\ Head(q).version = v => f \in M
  PROVE  FieldOK(f, v, U, M, Tail(q), m, rd, st, vw)
<1>1. /\ 1 \in DOMAIN q /\ Head(q) = q[1]
      /\ \A i \in DOMAIN Tail(q) : i \in Nat \ {0} /\ i + 1 \in DOMAIN q /\ Tail(q)[i] = q[i + 1]
      /\ \A i \in DOMAIN q : i = 1 \/ (i \in Nat /\ i - 1 \in DOMAIN Tail(q) /\ Tail(q)[i - 1] = q[i])
  BY TailElements
<1> DEFINE p == Tail(q)
<1>2. /\ \A i \in DOMAIN p : i \in Nat /\ i + 1 \in DOMAIN q /\ p[i] = q[i + 1]
      /\ \A i \in DOMAIN q : i = 1 \/ \E k \in DOMAIN p : p[k] = q[i]
  BY <1>1
<1> HIDE DEF p
<1>3. NoneIsNewer(f, v, U, p, m, st)
  BY <1>2 DEF FieldOK, NoneIsNewer
<1>4. NoneQueued(f, q) => NoneQueued(f, p)
  BY <1>2 DEF NoneQueued
<1>5. ASSUME NEW i \in DOMAIN p, NEW j \in DOMAIN p, p[i].field = f, p[i].version = v, i < j
      PROVE  p[j].field # f
  <2>1. i + 1 \in DOMAIN q /\ j + 1 \in DOMAIN q /\ i + 1 < j + 1
        /\ p[i] = q[i + 1] /\ p[j] = q[j + 1]
    BY <1>2, <1>5
  <2> QED
    BY <1>5, <2>1 DEF FieldOK, NewestIsLast
<1>6. NewestIsLast(f, v, p, m, st)
  BY <1>4, <1>5 DEF FieldOK, NewestIsLast
<1>7. f \notin M /\ Queued(f, v, q) => Queued(f, v, p)
  BY <1>1, <1>2 DEF Queued
<1>8. ASSUME f \notin U \cup M
      PROVE  Arrives(f, v, p, m, st, vw) /\ IsCaughtUp(f, v, p, m, rd, st)
  <2>1. Arrives(f, v, q, m, st, vw) /\ IsCaughtUp(f, v, q, m, rd, st)
    BY <1>8 DEF FieldOK
  <2>2. Arrives(f, v, p, m, st, vw)
    BY <1>4, <1>7, <1>8, <2>1 DEF Arrives
  <2>3. IsCaughtUp(f, v, p, m, rd, st)
    BY <1>7, <1>8, <2>1 DEF IsCaughtUp
  <2> QED
    BY <2>2, <2>3
<1>9. FieldOK(f, v, U, M, p, m, rd, st, vw)
  BY <1>3, <1>6, <1>8 DEF FieldOK
<1> QED
  BY <1>9 DEF p

(* The channel takes an event: of another register, or the newest of this. *)
LEMMA FieldPushed ==
  ASSUME NEW f, NEW v, NEW U, NEW W, NEW L, NEW q \in Seq(Event), NEW e \in Event, NEW m, NEW rd,
         NEW st, NEW vw, FieldOK(f, v, U, L, q, m, rd, st, vw), v \in Nat,
         IF e.field = f THEN e.version = v /\ f \in U /\ f \notin W ELSE f \in U <=> f \in W
  PROVE  FieldOK(f, v, W, L, Append(q, e), m, rd, st, vw)
<1> DEFINE p == Append(q, e)
           n == Len(q) + 1
<1>1. /\ \A i \in DOMAIN q : i \in Nat /\ i < n /\ i \in DOMAIN p /\ p[i] = q[i]
      /\ n \in DOMAIN p /\ p[n] = e /\ n \in Nat
      /\ \A i \in DOMAIN p : i \in DOMAIN q \/ i = n
  BY AppendElements
<1> HIDE DEF p, n
<1>2. NoneIsNewer(f, v, W, p, m, st)
  BY <1>1 DEF FieldOK, NoneIsNewer
<1>3. Queued(f, v, q) => Queued(f, v, p)
  BY <1>1 DEF Queued
<1>4. CASE e.field # f
  <2>1. NoneQueued(f, q) => NoneQueued(f, p)
    BY <1>1, <1>4 DEF NoneQueued
  <2>2. NewestIsLast(f, v, p, m, st)
    BY <1>1, <1>4, <2>1 DEF FieldOK, NewestIsLast
  <2>3. f \notin W \cup L => Arrives(f, v, p, m, st, vw) /\ IsCaughtUp(f, v, p, m, rd, st)
    BY <1>3, <1>4, <2>1 DEF FieldOK, Arrives, IsCaughtUp
  <2> QED
    BY <1>2, <2>2, <2>3 DEF FieldOK, p
<1>5. CASE e.field = f
  <2>1. /\ \A i \in DOMAIN q : q[i].field = f => q[i].version # v
        /\ ~InHand(f, v, m) /\ \A i \in DOMAIN st : ~InHand(f, v, st[i])
    BY <1>5 DEF FieldOK, NoneIsNewer, InHand
  <2>2. ASSUME NEW i \in DOMAIN p, NEW j \in DOMAIN p, p[i].field = f, p[i].version = v, i < j
        PROVE  p[j].field # f
    <3>1. i = n
      BY <1>1, <2>1, <2>2
    <3>2. j \in DOMAIN q \/ j = n
      BY <1>1
    <3> QED
      BY <1>1, <2>2, <3>1, <3>2
  <2>3. NewestIsLast(f, v, p, m, st)
    BY <2>1, <2>2 DEF NewestIsLast
  <2>4. Queued(f, v, p)
    BY <1>1, <1>5 DEF Queued
  <2> QED
    BY <1>2, <2>3, <2>4 DEF FieldOK, Arrives, IsCaughtUp, p
<1> QED
  BY <1>4, <1>5

(* recv_event: an event of the channel becomes the message in hand.         *)
LEMMA FieldReceived ==
  ASSUME NEW f, NEW v, NEW U, NEW L, NEW q \in Seq(Event), q # <<>>, NEW m, NEW x, NEW rd,
         NEW st, NEW vw, FieldOK(f, v, U, L, q, m, rd, st, vw),
         m.kind = "hello", x.kind = "event", rd[f] = -1,
         Tells(x, f) <=> Head(q).field = f, Tells(x, f) => x.data[f] = Head(q).version
  PROVE  FieldOK(f, v, U, L, Tail(q), x, rd, st, vw)
<1>1. /\ 1 \in DOMAIN q /\ Head(q) = q[1]
      /\ \A i \in DOMAIN Tail(q) : i \in Nat \ {0} /\ i + 1 \in DOMAIN q /\ Tail(q)[i] = q[i + 1]
      /\ \A i \in DOMAIN q : i = 1 \/ (i \in Nat /\ i - 1 \in DOMAIN Tail(q) /\ Tail(q)[i - 1] = q[i])
  BY TailElements
<1> DEFINE p == Tail(q)
<1>2. /\ \A i \in DOMAIN p : i \in Nat /\ i + 1 \in DOMAIN q /\ p[i] = q[i + 1] /\ 1 < i + 1
      /\ \A i \in DOMAIN q : i = 1 \/ \E k \in DOMAIN p : p[k] = q[i]
  <2>1. \A i \in DOMAIN q : i = 1 \/ \E k \in DOMAIN p : p[k] = q[i]
    BY <1>1
  <2>2. \A i \in DOMAIN p : i \in Nat /\ i + 1 \in DOMAIN q /\ p[i] = q[i + 1] /\ 1 < i + 1
    BY <1>1
  <2> QED
    BY <2>1, <2>2
<1> HIDE DEF p
<1>3. ~Tells(m, f) /\ ~InHand(f, v, m) /\ ~IsSnapshot(m) /\ ~IsSnapshot(x)
  BY DEF Tells, InHand, IsSnapshot
<1>4. NoneIsNewer(f, v, U, p, x, st)
  BY <1>1, <1>2 DEF FieldOK, NoneIsNewer
<1>5. NoneQueued(f, q) => NoneQueued(f, p) /\ ~Tells(x, f)
  BY <1>1, <1>2 DEF NoneQueued
<1>6. ASSUME NEW i \in DOMAIN p, NEW j \in DOMAIN p, p[i].field = f, p[i].version = v, i < j
      PROVE  p[j].field # f
  <2>1. i + 1 \in DOMAIN q /\ j + 1 \in DOMAIN q /\ i + 1 < j + 1
        /\ p[i] = q[i + 1] /\ p[j] = q[j + 1]
    BY <1>2, <1>6
  <2> QED
    BY <1>6, <2>1 DEF FieldOK, NewestIsLast
<1>7. InHand(f, v, x) => NoneQueued(f, p)
  BY <1>1, <1>2 DEF FieldOK, NewestIsLast, NoneQueued, InHand
<1>8. NewestIsLast(f, v, p, x, st)
  BY <1>5, <1>6, <1>7 DEF FieldOK, NewestIsLast
<1>9. Queued(f, v, q) => Queued(f, v, p) \/ InHand(f, v, x)
  BY <1>1, <1>2 DEF Queued, InHand
<1>10. ASSUME f \notin U \cup L
       PROVE  Arrives(f, v, p, x, st, vw) /\ IsCaughtUp(f, v, p, x, rd, st)
  <2>1. Arrives(f, v, q, m, st, vw) /\ IsCaughtUp(f, v, q, m, rd, st)
    BY <1>10 DEF FieldOK
  <2>2. Arrives(f, v, p, x, st, vw)
    BY <1>3, <1>5, <1>9, <2>1 DEF Arrives
  <2>3. IsCaughtUp(f, v, p, x, rd, st)
    BY <1>3, <1>9, <2>1 DEF IsCaughtUp
  <2> QED
    BY <2>2, <2>3
<1>11. FieldOK(f, v, U, L, p, x, rd, st, vw)
  BY <1>4, <1>8, <1>10 DEF FieldOK
<1> QED
  BY <1>11 DEF p

(* write_json: the message in hand goes to the stream.                      *)
LEMMA FieldStreamed ==
  ASSUME NEW f, NEW v, NEW U, NEW L, NEW q, NEW m \in Message, NEW x, NEW rd, NEW s,
         NEW st \in Seq(Message), NEW vw, FieldOK(f, v, U, L, q, m, rd, st, vw),
         x.kind = "hello", s[f] = -1
  PROVE  FieldOK(f, v, U, L, q, x, s, Append(st, m), vw)
<1> DEFINE p == Append(st, m)
           n == Len(st) + 1
<1>1. /\ \A i \in DOMAIN st : i \in Nat /\ i < n /\ i \in DOMAIN p /\ p[i] = st[i]
      /\ n \in DOMAIN p /\ p[n] = m /\ n \in Nat
      /\ \A i \in DOMAIN p : i \in DOMAIN st \/ i = n
  BY AppendElements
<1> HIDE DEF p, n
<1>2. ~Tells(x, f) /\ ~InHand(f, v, x) /\ ~IsSnapshot(x)
  BY DEF Tells, InHand, IsSnapshot
<1>3. NoneIsNewer(f, v, U, q, x, p)
  BY <1>1, <1>2 DEF FieldOK, NoneIsNewer
<1>4. ASSUME NEW i \in DOMAIN p, InHand(f, v, p[i])
      PROVE  NoneQueued(f, q) /\ \A j \in DOMAIN p : i < j => ~Tells(p[j], f)
  <2>1. CASE i \in DOMAIN st
    <3>1. InHand(f, v, st[i])
      BY <1>1, <1>4, <2>1
    <3>2. NoneQueued(f, q) /\ ~Tells(m, f) /\ \A j \in DOMAIN st : i < j => ~Tells(st[j], f)
      BY <2>1, <3>1 DEF FieldOK, NewestIsLast
    <3> QED
      BY <1>1, <3>2
  <2>2. CASE i = n
    <3>1. NoneQueued(f, q)
      BY <1>1, <1>4, <2>2 DEF FieldOK, NewestIsLast
    <3>2. \A j \in DOMAIN p : ~(i < j)
      BY <1>1, <2>2
    <3> QED
      BY <3>1, <3>2
  <2> QED
    BY <1>1, <2>1, <2>2
<1>5. NewestIsLast(f, v, q, x, p)
  BY <1>2, <1>4 DEF FieldOK, NewestIsLast
<1>6. ASSUME f \notin U \cup L
      PROVE  Arrives(f, v, q, x, p, vw) /\ IsCaughtUp(f, v, q, x, s, p)
  <2>1. Arrives(f, v, q, m, st, vw) /\ IsCaughtUp(f, v, q, m, rd, st)
    BY <1>6 DEF FieldOK
  <2>2. Streamed(f, v, st) \/ InHand(f, v, m) => Streamed(f, v, p)
    BY <1>1 DEF Streamed
  <2>3. NoneStreamed(f, st) /\ ~Tells(m, f) => NoneStreamed(f, p)
    BY <1>1 DEF NoneStreamed
  <2>4. Arrives(f, v, q, x, p, vw)
    BY <1>2, <2>1, <2>2, <2>3 DEF Arrives
  <2>5. ASSUME NEW i \in DOMAIN p, IsSnapshot(p[i])
        PROVE  \/ p[i].data[f] = v \/ Queued(f, v, q)
               \/ \E j \in DOMAIN p : i < j /\ InHand(f, v, p[j])
    <3>1. CASE i \in DOMAIN st
      <4>1. IsSnapshot(st[i]) /\ st[i] = p[i]
        BY <1>1, <2>5, <3>1
      <4>2. \/ st[i].data[f] = v \/ Queued(f, v, q) \/ InHand(f, v, m)
            \/ \E j \in DOMAIN st : i < j /\ InHand(f, v, st[j])
        BY <2>1, <3>1, <4>1 DEF IsCaughtUp
      <4> QED
        BY <1>1, <3>1, <4>1, <4>2
    <3>2. CASE i = n
      BY <1>1, <2>1, <2>5, <3>2 DEF IsCaughtUp
    <3> QED
      BY <1>1, <3>1, <3>2
  <2>6. IsCaughtUp(f, v, q, x, s, p)
    BY <1>2, <2>5 DEF IsCaughtUp
  <2> QED
    BY <2>4, <2>6
<1>7. FieldOK(f, v, U, L, q, x, s, p, vw)
  BY <1>3, <1>5, <1>6 DEF FieldOK
<1> QED
  BY <1>7 DEF p

(* A register is read for a snapshot.                                       *)
LEMMA FieldRead ==
  ASSUME NEW f, NEW v, NEW U, NEW L, NEW q, NEW m, NEW rd, NEW s, NEW st, NEW vw,
         FieldOK(f, v, U, L, q, m, rd, st, vw), s[f] = rd[f] \/ s[f] = v
  PROVE  FieldOK(f, v, U, L, q, m, s, st, vw)
BY DEF FieldOK, IsCaughtUp

(* A response takes the place of the hello; a snapshot is what was read.    *)
LEMMA FieldAnswered ==
  ASSUME NEW f, NEW v, NEW U, NEW L, NEW q, NEW m, NEW x, NEW rd, NEW st, NEW vw,
         FieldOK(f, v, U, L, q, m, rd, st, vw), m.kind = "hello", x.kind # "event",
         IsSnapshot(x) => x.data[f] = rd[f] /\ rd[f] # -1
  PROVE  FieldOK(f, v, U, L, q, x, rd, st, vw)
<1>1. ~Tells(m, f) /\ ~InHand(f, v, m) /\ ~IsSnapshot(m) /\ ~Tells(x, f) /\ ~InHand(f, v, x)
  BY DEF Tells, InHand, IsSnapshot
<1>2. NoneIsNewer(f, v, U, q, x, st)
  BY <1>1 DEF FieldOK, NoneIsNewer
<1>3. NewestIsLast(f, v, q, x, st)
  BY <1>1 DEF FieldOK, NewestIsLast
<1>4. ASSUME f \notin U \cup L
      PROVE  Arrives(f, v, q, x, st, vw) /\ IsCaughtUp(f, v, q, x, rd, st)
  BY <1>1, <1>4 DEF FieldOK, Arrives, IsCaughtUp
<1> QED
  BY <1>2, <1>3, <1>4 DEF FieldOK

(* The client takes a message: it drops it, shows the snapshot, or shows    *)
(* the event.                                                               *)
LEMMA FieldTaken ==
  ASSUME NEW f, NEW v, NEW U, NEW L, NEW M, NEW q, NEW m, NEW rd,
         NEW st \in Seq(Message), st # <<>>, NEW vw, NEW w,
         FieldOK(f, v, U, L, q, m, rd, st, vw), L \subseteq M,
         \/ w = vw /\ (InHand(f, v, Head(st)) => f \in M)
         \/ IsSnapshot(Head(st)) /\ w = Head(st).data
         \/ Tells(Head(st), f) /\ w[f] = Head(st).data[f]
         \/ ~Tells(Head(st), f) /\ vw # Blank /\ w[f] = vw[f]
  PROVE  FieldOK(f, v, U, M, q, m, rd, Tail(st), w)
<1>1. /\ 1 \in DOMAIN st /\ Head(st) = st[1]
      /\ \A i \in DOMAIN Tail(st) : i \in Nat \ {0} /\ i + 1 \in DOMAIN st /\ Tail(st)[i] = st[i + 1]
      /\ \A i \in DOMAIN st : i = 1 \/ (i \in Nat /\ i - 1 \in DOMAIN Tail(st) /\ Tail(st)[i - 1] = st[i])
  BY TailElements
<1> DEFINE p == Tail(st)
<1>2. \A i \in DOMAIN p : i \in Nat /\ i + 1 \in DOMAIN st /\ p[i] = st[i + 1] /\ 1 < i + 1
  BY <1>1
<1>3. \A i \in DOMAIN st : i = 1 \/ (i \in Nat /\ i - 1 \in DOMAIN p /\ p[i - 1] = st[i])
  BY <1>1
<1> HIDE DEF p
<1>4. NoneIsNewer(f, v, U, q, m, p)
  BY <1>2 DEF FieldOK, NoneIsNewer
<1>5. ASSUME NEW i \in DOMAIN p, InHand(f, v, p[i])
      PROVE  NoneQueued(f, q) /\ ~Tells(m, f) /\ \A j \in DOMAIN p : i < j => ~Tells(p[j], f)
  <2>1. i + 1 \in DOMAIN st /\ InHand(f, v, st[i + 1])
    BY <1>2, <1>5
  <2>2. NoneQueued(f, q) /\ ~Tells(m, f) /\ \A j \in DOMAIN st : i + 1 < j => ~Tells(st[j], f)
    BY <2>1 DEF FieldOK, NewestIsLast
  <2>3. ASSUME NEW j \in DOMAIN p, i < j PROVE ~Tells(p[j], f)
    <3>1. j + 1 \in DOMAIN st /\ p[j] = st[j + 1] /\ i + 1 < j + 1
      BY <1>2, <2>3
    <3> QED
      BY <2>2, <3>1
  <2> QED
    BY <2>2, <2>3
<1>6. NewestIsLast(f, v, q, m, p)
  BY <1>5 DEF FieldOK, NewestIsLast
<1>7. ASSUME f \notin U \cup M
      PROVE  Arrives(f, v, q, m, p, w) /\ IsCaughtUp(f, v, q, m, rd, p)
  <2>1. Arrives(f, v, q, m, st, vw) /\ IsCaughtUp(f, v, q, m, rd, st)
    BY <1>7 DEF FieldOK
  <2>2. NoneStreamed(f, st) => NoneStreamed(f, p) /\ ~Tells(Head(st), f)
    BY <1>1, <1>2 DEF NoneStreamed
  <2>3. Streamed(f, v, st) => Streamed(f, v, p) \/ InHand(f, v, Head(st))
    BY <1>1, <1>3 DEF Streamed
  <2>4. InHand(f, v, Head(st)) => NoneQueued(f, q) /\ ~Tells(m, f) /\ NoneStreamed(f, p)
    BY <1>1, <1>2 DEF FieldOK, NewestIsLast, NoneStreamed
  <2>5. IsSnapshot(Head(st)) => \/ Head(st).data[f] = v \/ Queued(f, v, q) \/ InHand(f, v, m)
                                \/ Streamed(f, v, p)
    <3>1. SUFFICES ASSUME IsSnapshot(st[1]), NEW j \in DOMAIN st, 1 < j, InHand(f, v, st[j])
                   PROVE  Streamed(f, v, p)
      BY <1>1, <2>1 DEF IsCaughtUp
    <3> QED
      BY <1>3, <3>1 DEF Streamed
  <2>6. IsSnapshot(Head(st)) => ~Tells(Head(st), f)
    BY DEF IsSnapshot, Tells
  <2>7. Tells(Head(st), f) /\ Head(st).data[f] = v <=> InHand(f, v, Head(st))
    BY DEF InHand
  <2>8. Arrives(f, v, q, m, p, w)
    <3>1. CASE Queued(f, v, q) \/ InHand(f, v, m) \/ Streamed(f, v, p)
      BY <3>1 DEF Arrives
    <3>2. CASE InHand(f, v, Head(st))
      <4>1. w[f] = v
        BY <1>7, <2>6, <2>7, <3>2
      <4> QED
        BY <2>4, <3>2, <4>1 DEF Arrives
    <3>3. CASE /\ NoneQueued(f, q) /\ ~Tells(m, f) /\ NoneStreamed(f, st)
               /\ vw = Blank \/ vw[f] = v
               /\ ~(Queued(f, v, q) \/ InHand(f, v, m) \/ Streamed(f, v, p))
      <4>1. w = Blank \/ w[f] = v
        BY <2>2, <2>5, <3>3
      <4> QED
        BY <2>2, <3>3, <4>1 DEF Arrives
    <3> QED
      BY <2>1, <2>3, <3>1, <3>2, <3>3 DEF Arrives
  <2>9. ASSUME NEW i \in DOMAIN p, IsSnapshot(p[i])
        PROVE  \/ p[i].data[f] = v \/ Queued(f, v, q) \/ InHand(f, v, m)
               \/ \E j \in DOMAIN p : i < j /\ InHand(f, v, p[j])
    <3>1. i + 1 \in DOMAIN st /\ p[i] = st[i + 1] /\ i \in Nat
      BY <1>2
    <3>2. SUFFICES ASSUME NEW j \in DOMAIN st, i + 1 < j, InHand(f, v, st[j])
                   PROVE  \E k \in DOMAIN p : i < k /\ InHand(f, v, p[k])
      BY <2>1, <2>9, <3>1 DEF IsCaughtUp
    <3>3. j \in Nat /\ j - 1 \in DOMAIN p /\ p[j - 1] = st[j] /\ i < j - 1
      BY <1>3, <3>1, <3>2
    <3> QED
      BY <3>2, <3>3
  <2>10. IsCaughtUp(f, v, q, m, rd, p)
    BY <2>1, <2>9 DEF IsCaughtUp
  <2> QED
    BY <2>8, <2>10
<1>8. FieldOK(f, v, U, M, q, m, rd, p, w)
  BY <1>4, <1>6, <1>7 DEF FieldOK
<1> QED
  BY <1>8 DEF p

-----------------------------------------------------------------------------
(* The types the argument needs; no bound on calls and publications.       *)
IpcTypes ==
    /\ cache \in [FieldSet -> Nat]
    /\ unsent \subseteq FieldSet
    /\ rx \in Seq(Event)
    /\ srv \in [pc : {"accept", "write", "select", "handle", "runtime", "closed"},
                req : Envelope, msg : Message, read : Reading]
    /\ c2s \in Seq(Envelope)
    /\ s2c \in Seq(Message)
    /\ client \in [pc : {"hello", "idle", "write", "call", "closed"}, next : Nat, want : Nat,
                   req : Requests, since : Reading, fresh : BOOLEAN]

(* A request or response that is under way was numbered by this client.    *)
IdsAreOld ==
    /\ client.next > 0
    /\ srv.req.id < client.next /\ srv.msg.id < client.next
    /\ \A n \in DOMAIN c2s : c2s[n].id < client.next
    /\ \A n \in DOMAIN s2c : s2c[n].id < client.next

Recent(data) == \A f \in FieldSet : data[f] # -1 => data[f] >= client.since[f]

(* Wherever the answer to the call that waits is, what it says was read     *)
(* after the call was made.                                                *)
AnswerUnderWay ==
    /\ \A f \in FieldSet : client.since[f] <= cache[f]
    /\ srv.pc = "select" => srv.read = Blank
    /\ client.pc = "call" =>
         /\ srv.req.id = client.want => Recent(srv.read)
         /\ srv.msg.kind = "response" /\ srv.msg.id = client.want => Recent(srv.msg.data)
         /\ \A n \in DOMAIN s2c :
              s2c[n].kind = "response" /\ s2c[n].id = client.want => Recent(s2c[n].data)

IpcInv == IpcTypes /\ IdsAreOld /\ AnswerUnderWay /\ AnswerIsFresh

-----------------------------------------------------------------------------
(* The messages the model is built from.                                   *)
LEMMA MessageTypes ==
  /\ Blank \in Reading /\ \A f \in FieldSet : Blank[f] = -1
  /\ Hello \in Message /\ Hello.kind = "hello" /\ Hello.id = 0
  /\ NoRequest \in Envelope /\ NoRequest.id = 0
  /\ \A id \in Nat, type \in Types, data \in Reading :
       LET m == Msg("response", id, type, data)
       IN  m \in Message /\ m.kind = "response" /\ m.id = id /\ m.data = data
  /\ \A e \in [field : FieldSet, version : Nat] :
       EventMsg(e) \in Message /\ EventMsg(e).kind = "event" /\ EventMsg(e).id = 0
  /\ LET m == Msg("event", 0, "log", Blank)
     IN  m \in Message /\ m.kind = "event" /\ m.id = 0
<1>1. Blank \in Reading /\ \A f \in FieldSet : Blank[f] = -1
  BY DEF Blank, Reading
<1>2. Hello \in Message /\ Hello.kind = "hello" /\ Hello.id = 0
  BY <1>1 DEF Hello, Msg, Message, Kinds, Types
<1>3. NoRequest \in Envelope /\ NoRequest.id = 0
  BY DEF NoRequest, Envelope, Versions, Requests
<1>4. ASSUME NEW id \in Nat, NEW type \in Types, NEW data \in Reading
      PROVE  LET m == Msg("response", id, type, data)
             IN  m \in Message /\ m.kind = "response" /\ m.id = id /\ m.data = data
  BY DEF Msg, Message, Kinds
<1>5. ASSUME NEW e \in [field : FieldSet, version : Nat]
      PROVE  EventMsg(e) \in Message /\ EventMsg(e).kind = "event" /\ EventMsg(e).id = 0
  <2>1. e.field \in FieldSet /\ e.version \in Int
    OBVIOUS
  <2>2. [Blank EXCEPT ![e.field] = e.version] \in Reading
    BY <1>1, <2>1 DEF Reading
  <2> QED
    BY <2>1, <2>2 DEF EventMsg, Msg, Message, Kinds, Types
<1>6. LET m == Msg("event", 0, "log", Blank)
      IN  m \in Message /\ m.kind = "event" /\ m.id = 0
  BY <1>1 DEF Msg, Message, Kinds, Types
<1> QED
  BY <1>1, <1>2, <1>3, <1>4, <1>5, <1>6

-----------------------------------------------------------------------------
(* What the publisher puts on the channel stays an event.                  *)
LEMMA PushType ==
  ASSUME IpcTypes, NEW e \in Event, Push(e)
  PROVE  rx' \in Seq(Event)
<1>1. rx \in Seq(Event) /\ Capacity \in Nat \ {0}
  BY BoundsAssumption DEF IpcTypes
<1>2. CASE rx' = rx
  BY <1>1, <1>2
<1>3. CASE rx' = Append(rx, e)
  BY <1>1, <1>3
<1>4. CASE rx' = Append(Tail(rx), e) /\ ~(Len(rx) < Capacity)
  <2>1. rx # <<>>
    BY <1>1, <1>4
  <2>2. Tail(rx) \in Seq(Event)
    BY <1>1, <2>1
  <2> QED
    BY <1>4, <2>2
<1> QED
  BY <1>2, <1>3, <1>4 DEF Push

(* The publisher moves the registers forward and fills the channel.        *)
LEMMA PublisherStep ==
  ASSUME IpcInv, Publisher
  PROVE  IpcInv'
<1>1. /\ UNCHANGED <<srv, c2s, s2c, client>>
      /\ cache' \in [FieldSet -> Nat] /\ \A f \in FieldSet : cache'[f] >= cache[f]
      /\ unsent' \subseteq FieldSet
      /\ rx' \in Seq(Event)
  <2>1. /\ cache \in [FieldSet -> Nat] /\ unsent \subseteq FieldSet /\ rx \in Seq(Event)
        /\ IpcTypes
    BY DEF IpcInv, IpcTypes
  <2>2. CASE on_event
    <3>1. LogEvent \in Event
      BY DEF Event
    <3> QED
      BY <2>1, <2>2, <3>1, PushType DEF on_event
  <2>3. ASSUME NEW f \in FieldSet, set(f)
        PROVE  <1>1
    BY <2>1, <2>3 DEF set
  <2>4. ASSUME NEW f \in FieldSet, send(f)
        PROVE  <1>1
    <3>1. [field |-> f, version |-> cache[f]] \in Event
      BY <2>1 DEF Event
    <3>2. rx' \in Seq(Event)
      BY <2>1, <2>4, <3>1, PushType DEF send
    <3> QED
      BY <2>1, <2>4, <3>2 DEF send
  <2> QED
    BY <2>2, <2>3, <2>4 DEF Publisher
<1>2. IpcTypes'
  BY <1>1 DEF IpcInv, IpcTypes
<1>3. IdsAreOld' /\ AnswerIsFresh'
  BY <1>1 DEF IpcInv, IdsAreOld, AnswerIsFresh
<1>4. \A f \in FieldSet : client'.since[f] <= cache'[f]
  <2> SUFFICES ASSUME NEW f \in FieldSet PROVE client.since[f] <= cache'[f]
    BY <1>1
  <2>1. client.since[f] \in Int /\ cache[f] \in Nat /\ client.since[f] <= cache[f]
    BY DEF IpcInv, IpcTypes, AnswerUnderWay, Reading
  <2> QED
    BY <1>1, <2>1
<1>5. AnswerUnderWay'
  BY <1>1, <1>4 DEF IpcInv, AnswerUnderWay, Recent
<1> QED
  BY <1>2, <1>3, <1>5 DEF IpcInv

-----------------------------------------------------------------------------
(* What a step of the server has to establish.                             *)
LEMMA ServerFrame ==
  ASSUME IpcInv, UNCHANGED <<cache, unsent, client>>,
         rx' \in Seq(Event),
         srv' \in [pc : {"accept", "write", "select", "handle", "runtime", "closed"},
                   req : Envelope, msg : Message, read : Reading],
         c2s' \in Seq(Envelope), s2c' \in Seq(Message),
         srv'.req.id < client.next, srv'.msg.id < client.next,
         \A n \in DOMAIN c2s' : c2s'[n].id < client.next,
         \A n \in DOMAIN s2c' :
            \/ n \in DOMAIN s2c /\ s2c'[n] = s2c[n]
            \/ s2c'[n] = srv.msg,
         srv'.pc = "select" => srv'.read = Blank,
         client.pc = "call" /\ srv'.req.id = client.want => Recent(srv'.read),
         client.pc = "call" /\ srv'.msg.kind = "response" /\ srv'.msg.id = client.want
            => Recent(srv'.msg.data)
  PROVE  IpcInv'
<1>1. IpcTypes'
  BY DEF IpcInv, IpcTypes
<1>2. IdsAreOld'
  BY DEF IpcInv, IdsAreOld
<1>3. client.pc = "call" => \A n \in DOMAIN s2c' :
        s2c'[n].kind = "response" /\ s2c'[n].id = client.want => Recent(s2c'[n].data)
  BY DEF IpcInv, AnswerUnderWay
<1>4. AnswerUnderWay'
  BY <1>3 DEF IpcInv, AnswerUnderWay, Recent
<1>5. AnswerIsFresh'
  BY DEF IpcInv, AnswerIsFresh
<1> QED
  BY <1>1, <1>2, <1>4, <1>5 DEF IpcInv

(* The fields of srv, one by one.                                          *)
LEMMA ServerFacts ==
  ASSUME IpcInv
  PROVE  /\ srv \in [pc : {"accept", "write", "select", "handle", "runtime", "closed"},
                     req : Envelope, msg : Message, read : Reading]
         /\ srv.req \in Envelope /\ srv.msg \in Message /\ srv.read \in Reading
         /\ srv.req.id \in Nat /\ srv.msg.id \in Nat /\ client.next \in Nat
         /\ 0 < client.next
         /\ srv.req.id < client.next /\ srv.msg.id < client.next
         /\ rx \in Seq(Event) /\ c2s \in Seq(Envelope) /\ s2c \in Seq(Message)
         /\ \A n \in DOMAIN c2s : c2s[n].id < client.next
<1>1. /\ srv \in [pc : {"accept", "write", "select", "handle", "runtime", "closed"},
                  req : Envelope, msg : Message, read : Reading]
      /\ rx \in Seq(Event) /\ c2s \in Seq(Envelope) /\ s2c \in Seq(Message)
  BY DEF IpcInv, IpcTypes
<1>2. srv.req \in Envelope /\ srv.msg \in Message /\ srv.read \in Reading
  BY <1>1
<1>3. srv.req.id \in Nat /\ srv.msg.id \in Nat
  BY <1>2 DEF Envelope, Message
<1>4. client.next \in Nat
  BY DEF IpcInv, IpcTypes
<1>5. /\ client.next > 0
      /\ srv.req.id < client.next /\ srv.msg.id < client.next
      /\ \A n \in DOMAIN c2s : c2s[n].id < client.next
  BY DEF IpcInv, IdsAreOld
<1> QED
  BY <1>1, <1>2, <1>3, <1>4, <1>5

(* A reading with nothing in it is no older than the call.                 *)
LEMMA BlankIsRecent == Recent(Blank)
BY MessageTypes DEF Recent

(* A response to the request at hand.                                      *)
LEMMA RespondStep ==
  ASSUME IpcInv, NEW type \in Types, NEW data \in Reading, Respond(type, data),
         client.pc = "call" /\ srv.req.id = client.want => Recent(data),
         UNCHANGED <<cache, unsent, rx, c2s, s2c, client>>
  PROVE  IpcInv'
<1> DEFINE m == Msg("response", srv.req.id, type, data)
<1>1. m \in Message /\ m.kind = "response" /\ m.id = srv.req.id /\ m.data = data
  BY ServerFacts, MessageTypes
<1>2. srv' = [srv EXCEPT !.pc = "write", !.msg = m]
  BY DEF Respond
<1> HIDE DEF m
<1>3. /\ srv' \in [pc : {"accept", "write", "select", "handle", "runtime", "closed"},
                   req : Envelope, msg : Message, read : Reading]
      /\ srv'.pc = "write" /\ srv'.msg = m /\ srv'.req = srv.req /\ srv'.read = srv.read
  BY <1>1, <1>2, ServerFacts, Zenon
<1>4. client.pc = "call" /\ srv.req.id = client.want => Recent(srv.read)
  BY DEF IpcInv, AnswerUnderWay
<1> QED
  BY <1>1, <1>3, <1>4, ServerFacts, ServerFrame

(* What the cache holds is no older than any call.                         *)
LEMMA CacheIsRecent ==
  ASSUME IpcInv, NEW f \in FieldSet
  PROVE  /\ [Blank EXCEPT ![f] = cache[f]] \in Reading
         /\ Recent([Blank EXCEPT ![f] = cache[f]])
<1>1. Blank \in Reading /\ \A g \in FieldSet : Blank[g] = -1
  BY MessageTypes
<1>2. cache[f] \in Int /\ client.since[f] \in Int /\ client.since[f] <= cache[f]
  BY DEF IpcInv, IpcTypes, AnswerUnderWay, Reading
<1>3. [Blank EXCEPT ![f] = cache[f]] \in Reading
  BY <1>1, <1>2 DEF Reading
<1>4. \A g \in FieldSet : [Blank EXCEPT ![f] = cache[f]][g] = IF g = f THEN cache[f] ELSE -1
  BY <1>1 DEF Reading
<1>5. Recent([Blank EXCEPT ![f] = cache[f]])
  BY <1>2, <1>4 DEF Recent
<1> QED
  BY <1>3, <1>5

(* handle_service_request, reject_request and the answer of the runtime.   *)
LEMMA AnswerStep ==
  ASSUME IpcInv, handle_service_request \/ reject_request \/ runtime_answers
  PROVE  IpcInv'
<1>1. Blank \in Reading /\ Recent(Blank)
  BY MessageTypes, BlankIsRecent
<1>2. {"status", "lifecycle"} \subseteq FieldSet
  BY BoundsAssumption
<1>3. UNCHANGED <<cache, unsent, rx, c2s, s2c, client>>
  BY DEF handle_service_request, reject_request, runtime_answers
<1>0. CASE srv' = [srv EXCEPT !.pc = "runtime"]
  <2>1. /\ srv' \in [pc : {"accept", "write", "select", "handle", "runtime", "closed"},
                     req : Envelope, msg : Message, read : Reading]
        /\ srv'.pc = "runtime" /\ srv'.msg = srv.msg /\ srv'.req = srv.req /\ srv'.read = srv.read
    BY <1>0, ServerFacts, Zenon
  <2>2. /\ client.pc = "call" /\ srv.req.id = client.want => Recent(srv.read)
        /\ client.pc = "call" /\ srv.msg.kind = "response" /\ srv.msg.id = client.want
             => Recent(srv.msg.data)
    BY DEF IpcInv, AnswerUnderWay
  <2> QED
    BY <1>3, <2>1, <2>2, ServerFacts, ServerFrame
<1>4. \/ srv' = [srv EXCEPT !.pc = "runtime"]
      \/ \E type \in Types :
        \/ Respond(type, Blank)
        \/ \E f \in FieldSet : Respond(type, [Blank EXCEPT ![f] = cache[f]])
  <2>1. CASE reject_request
    BY <2>1 DEF reject_request, Types
  <2>3. CASE runtime_answers
    BY <2>3 DEF runtime_answers, ResponseType, Types
  <2>2. CASE handle_service_request
    <3> DEFINE r == srv.req.request
    <3>1. r \in {"get_status", "get_state", "api_call", "stop"}
      BY <2>2 DEF handle_service_request, IsValid, KnownRequests, ResponseType
    <3>2. ResponseType["api_call"] = "api_result" /\ ResponseType["stop"] = "stop"
      BY DEF ResponseType
    <3>3. CASE r = "get_status"
      <4>1. Respond("status", [Blank EXCEPT !["status"] = cache["status"]])
        BY <2>2, <3>3 DEF handle_service_request
      <4> QED
        BY <1>2, <4>1 DEF Types
    <3>4. CASE r = "get_state"
      <4>1. Respond("state", [Blank EXCEPT !["lifecycle"] = cache["lifecycle"]])
        BY <2>2, <3>4 DEF handle_service_request
      <4> QED
        BY <1>2, <4>1, Zenon DEF Types
    <3>5. CASE r = "api_call"
      BY <2>2, <3>5 DEF handle_service_request
    <3>6. CASE r = "stop"
      <4>1. Respond("stop", Blank)
        BY <2>2, <3>2, <3>6 DEF handle_service_request
      <4> QED
        BY <4>1 DEF Types
    <3> QED
      BY <3>1, <3>3, <3>4, <3>5, <3>6
  <2> QED
    BY <2>1, <2>2, <2>3
<1> SUFFICES ASSUME srv' # [srv EXCEPT !.pc = "runtime"] PROVE IpcInv'
  BY <1>0
<1>5. PICK type \in Types :
        \/ Respond(type, Blank)
        \/ \E f \in FieldSet : Respond(type, [Blank EXCEPT ![f] = cache[f]])
  BY <1>4
<1>6. CASE Respond(type, Blank)
  BY <1>1, <1>3, <1>6, RespondStep
<1>7. ASSUME NEW f \in FieldSet, Respond(type, [Blank EXCEPT ![f] = cache[f]])
      PROVE  IpcInv'
  BY <1>3, <1>7, CacheIsRecent, RespondStep
<1> QED
  BY <1>5, <1>6, <1>7, Zenon

(* subscription_snapshot reads one register, or answers with what it read. *)
LEMMA SnapshotStep ==
  ASSUME IpcInv, subscription_snapshot
  PROVE  IpcInv'
<1>1. /\ srv.pc = "handle"
      /\ UNCHANGED <<cache, unsent, rx, c2s, s2c, client>>
  BY DEF subscription_snapshot, Resume
<1>2. client.pc = "call" /\ srv.req.id = client.want => Recent(srv.read)
  BY DEF IpcInv, AnswerUnderWay
<1>3. client.pc = "call" /\ srv.msg.kind = "response" /\ srv.msg.id = client.want
        => Recent(srv.msg.data)
  BY DEF IpcInv, AnswerUnderWay
<1>4. CASE Unread # {}
  <2> DEFINE field == NextField
             read == [srv.read EXCEPT ![field] = cache[field]]
  <2>1. srv' = [srv EXCEPT !.read = read]
    BY <1>4 DEF subscription_snapshot
  <2> HIDE DEF field
  <2>2. /\ read \in Reading
        /\ \A f \in FieldSet : read[f] = srv.read[f] \/ read[f] = cache[f]
    <3>1. srv.read \in [FieldSet -> Int] /\ cache \in [FieldSet -> Nat]
      BY ServerFacts DEF Reading, IpcInv, IpcTypes
    <3>2. read = [f \in FieldSet |-> IF f = field THEN cache[f] ELSE srv.read[f]]
      BY <3>1
    <3> HIDE DEF read
    <3>3. \A f \in FieldSet : read[f] = srv.read[f] \/ read[f] = cache[f]
      BY <3>2
    <3>4. \A f \in FieldSet : srv.read[f] \in Int /\ cache[f] \in Int
      BY <3>1
    <3> QED
      BY <3>2, <3>3, <3>4 DEF Reading
  <2>3. client.pc = "call" /\ srv.req.id = client.want => Recent(read)
    <3>1. \A f \in FieldSet : cache[f] >= client.since[f]
      <4> SUFFICES ASSUME NEW f \in FieldSet PROVE cache[f] >= client.since[f]
        OBVIOUS
      <4>1. cache[f] \in Nat /\ client.since[f] \in Int /\ client.since[f] <= cache[f]
        BY DEF IpcInv, IpcTypes, AnswerUnderWay, Reading
      <4> QED
        BY <4>1
    <3> HIDE DEF read
    <3> QED
      BY <1>2, <2>2, <3>1 DEF Recent
  <2> HIDE DEF read
  <2>4. /\ srv' \in [pc : {"accept", "write", "select", "handle", "runtime", "closed"},
                     req : Envelope, msg : Message, read : Reading]
        /\ srv'.pc = srv.pc /\ srv'.msg = srv.msg /\ srv'.req = srv.req /\ srv'.read = read
    BY <2>1, <2>2, ServerFacts
  <2> QED
    BY <1>1, <1>3, <2>3, <2>4, ServerFacts, ServerFrame
<1>5. CASE Unread = {}
  <2>1. Respond("subscribe", srv.read) /\ "subscribe" \in Types
    BY <1>5 DEF subscription_snapshot, Types
  <2> QED
    BY <1>1, <1>2, <2>1, ServerFacts, RespondStep
<1> QED
  BY <1>4, <1>5

(* The steps of the server that carry messages.                            *)
LEMMA CarryStep ==
  ASSUME IpcInv, handle_client \/ write_json \/ read_request \/ recv_event \/ disconnect
  PROVE  IpcInv'
<1> USE ServerFacts
<1>1. UNCHANGED <<cache, unsent, client>>
  BY DEF handle_client, write_json, read_request, recv_event, disconnect
<1>2. Recent(Blank) /\ Blank \in Reading
  BY BlankIsRecent, MessageTypes
<1>3. /\ Hello \in Message /\ Hello.kind = "hello" /\ Hello.id = 0
      /\ NoRequest \in Envelope /\ NoRequest.id = 0
  BY MessageTypes
<1>4. /\ client.pc = "call" /\ srv.req.id = client.want => Recent(srv.read)
      /\ client.pc = "call" /\ srv.msg.kind = "response" /\ srv.msg.id = client.want
           => Recent(srv.msg.data)
      /\ srv.pc = "select" => srv.read = Blank
  BY DEF IpcInv, AnswerUnderWay
<1>5. CASE handle_client
  <2>1. /\ srv' = [srv EXCEPT !.pc = "write", !.msg = Hello]
        /\ UNCHANGED <<rx, c2s, s2c>>
    BY <1>5 DEF handle_client
  <2>2. /\ srv' \in [pc : {"accept", "write", "select", "handle", "runtime", "closed"},
                     req : Envelope, msg : Message, read : Reading]
        /\ srv'.pc = "write" /\ srv'.msg = Hello /\ srv'.req = srv.req /\ srv'.read = srv.read
    BY <1>3, <2>1, Zenon
  <2> QED
    BY <1>1, <1>3, <1>4, <2>1, <2>2, ServerFrame
<1>6. CASE write_json
  <2>1. /\ srv' = [srv EXCEPT !.pc = "select", !.msg = Hello, !.req = NoRequest, !.read = Blank]
        /\ s2c' = Append(s2c, srv.msg)
        /\ UNCHANGED <<rx, c2s>>
    BY <1>6 DEF write_json
  <2>2. /\ srv' \in [pc : {"accept", "write", "select", "handle", "runtime", "closed"},
                     req : Envelope, msg : Message, read : Reading]
        /\ srv'.pc = "select" /\ srv'.msg = Hello /\ srv'.req = NoRequest /\ srv'.read = Blank
    BY <1>2, <1>3, <2>1, Zenon
  <2>3. /\ s2c' \in Seq(Message)
        /\ \A n \in DOMAIN s2c' : \/ n \in DOMAIN s2c /\ s2c'[n] = s2c[n]
                                  \/ s2c'[n] = srv.msg
    BY <2>1
  <2> QED
    BY <1>1, <1>2, <1>3, <2>1, <2>2, <2>3, ServerFrame
<1>7. CASE read_request
  <2>1. /\ srv.pc = "select" /\ c2s # <<>> /\ c2s' = Tail(c2s)
        /\ srv' = [srv EXCEPT !.pc = "handle", !.req = Head(c2s)]
        /\ UNCHANGED <<rx, s2c>>
    BY <1>7 DEF read_request
  <2>2. Head(c2s) \in Envelope /\ Head(c2s).id < client.next
    <3>1. 1 \in DOMAIN c2s /\ Head(c2s) = c2s[1] /\ c2s[1] \in Envelope
      BY <2>1
    <3> QED
      BY <3>1
  <2>3. /\ c2s' \in Seq(Envelope)
        /\ \A n \in DOMAIN c2s' : n + 1 \in DOMAIN c2s /\ c2s'[n] = c2s[n + 1]
    BY <2>1
  <2>4. /\ srv' \in [pc : {"accept", "write", "select", "handle", "runtime", "closed"},
                     req : Envelope, msg : Message, read : Reading]
        /\ srv'.pc = "handle" /\ srv'.msg = srv.msg /\ srv'.req = Head(c2s) /\ srv'.read = srv.read
    BY <2>1, <2>2, Zenon
  <2>5. \A n \in DOMAIN c2s' : c2s'[n].id < client.next
    BY <2>3
  <2>6. Recent(srv'.read)
    BY <1>2, <1>4, <2>1, <2>4
  <2> QED
    BY <1>1, <1>4, <2>1, <2>2, <2>3, <2>4, <2>5, <2>6, ServerFrame
<1>8. CASE recv_event
  <2>1. UNCHANGED <<c2s, s2c>>
    BY <1>8 DEF recv_event
  <2>2. CASE UNCHANGED <<rx, srv>>
    BY <1>1, <1>4, <2>1, <2>2, ServerFrame
  <2>3. CASE rx # <<>> /\ rx' = Tail(rx) /\ ~lagged
    <3> DEFINE m == IF Head(rx) = LogEvent THEN Msg("event", 0, "log", Blank)
                                           ELSE EventMsg(Head(rx))
    <3>1. srv' = [srv EXCEPT !.pc = "write", !.msg = m]
      BY <1>8, <2>3 DEF recv_event
    <3>2. Head(rx) \in Event /\ rx' \in Seq(Event)
      BY <2>3
    <3>3. m \in Message /\ m.kind = "event" /\ m.id = 0
      <4>1. CASE Head(rx) = LogEvent
        BY <4>1, MessageTypes
      <4>2. CASE Head(rx) # LogEvent
        <5>1. Head(rx) \in [field : FieldSet, version : Nat]
          BY <3>2, <4>2 DEF Event
        <5> QED
          BY <4>2, <5>1, MessageTypes, Zenon
      <4> QED
        BY <4>1, <4>2
    <3> HIDE DEF m
    <3>4. /\ srv' \in [pc : {"accept", "write", "select", "handle", "runtime", "closed"},
                       req : Envelope, msg : Message, read : Reading]
          /\ srv'.pc = "write" /\ srv'.msg = m /\ srv'.req = srv.req /\ srv'.read = srv.read
      BY <3>1, <3>3, Zenon
    <3> QED
      BY <1>1, <1>4, <2>1, <3>2, <3>3, <3>4, ServerFrame
  <2> QED
    BY <1>8, <2>2, <2>3 DEF recv_event
<1>9. CASE disconnect
  <2>1. /\ srv' = [pc |-> "closed", req |-> NoRequest, msg |-> Hello, read |-> Blank]
        /\ rx' = <<>> /\ c2s' = <<>> /\ s2c' = s2c
    BY <1>9 DEF disconnect
  <2>2. /\ srv' \in [pc : {"accept", "write", "select", "handle", "runtime", "closed"},
                     req : Envelope, msg : Message, read : Reading]
        /\ srv'.pc = "closed" /\ srv'.msg = Hello /\ srv'.req = NoRequest /\ srv'.read = Blank
    BY <1>2, <1>3, <2>1
  <2>3. rx' \in Seq(Event) /\ c2s' \in Seq(Envelope) /\ DOMAIN c2s' = {}
    BY <2>1
  <2> QED
    BY <1>1, <1>2, <1>3, <2>1, <2>2, <2>3, ServerFrame
<1> QED
  BY <1>5, <1>6, <1>7, <1>8, <1>9

-----------------------------------------------------------------------------
(* The client reads a message: the stream keeps the others.                *)
LEMMA TailFacts ==
  ASSUME IpcInv, Received
  PROVE  /\ s2c # <<>> /\ s2c' \in Seq(Message)
         /\ \A n \in DOMAIN s2c' : n + 1 \in DOMAIN s2c /\ s2c'[n] = s2c[n + 1]
         /\ 1 \in DOMAIN s2c /\ Head(s2c) = s2c[1] /\ Head(s2c) \in Message
<1>1. s2c \in Seq(Message) /\ s2c # <<>> /\ s2c' = Tail(s2c)
  BY DEF IpcInv, IpcTypes, Received
<1> QED
  BY <1>1

(* A step that leaves no call waiting: the ids are old and nothing is      *)
(* claimed of the answers.                                                 *)
LEMMA IdleFrame ==
  ASSUME IpcInv, UNCHANGED <<cache, unsent, rx, srv, c2s>>,
         s2c' \in Seq(Message),
         \A n \in DOMAIN s2c' : \E k \in DOMAIN s2c : s2c'[n] = s2c[k],
         NEW place \in {"idle", "closed"}, NEW fresh \in BOOLEAN, fresh = TRUE,
         client' = [Return(place) EXCEPT !.fresh = fresh]
  PROVE  IpcInv'
<1>1. client \in [pc : {"hello", "idle", "write", "call", "closed"}, next : Nat, want : Nat,
                  req : Requests, since : Reading, fresh : BOOLEAN]
  BY DEF IpcInv, IpcTypes
<1>2. Blank \in Reading /\ \A f \in FieldSet : Blank[f] = -1
  BY MessageTypes
<1>3. /\ client' \in [pc : {"hello", "idle", "write", "call", "closed"}, next : Nat, want : Nat,
                      req : Requests, since : Reading, fresh : BOOLEAN]
      /\ client'.pc = place /\ client'.next = client.next /\ client'.since = Blank
      /\ client'.fresh = TRUE
  BY <1>1, <1>2, Zenon DEF Return, Requests
<1>4. IpcTypes'
  BY <1>3 DEF IpcInv, IpcTypes
<1>5. IdsAreOld'
  BY <1>3 DEF IpcInv, IdsAreOld
<1>6. \A f \in FieldSet : Blank[f] <= cache[f]
  BY <1>2 DEF IpcInv, IpcTypes
<1>7. AnswerUnderWay'
  BY <1>3, <1>6 DEF IpcInv, AnswerUnderWay
<1>8. AnswerIsFresh'
  BY <1>3 DEF AnswerIsFresh
<1> QED
  BY <1>4, <1>5, <1>7, <1>8 DEF IpcInv

(* request: the answer it takes has its id, so it is recent.               *)
LEMMA ResponseStep ==
  ASSUME IpcInv, recv_response
  PROVE  IpcInv'
<1> DEFINE m == Head(s2c)
<1>1. /\ client.pc = "call" /\ Received
      /\ UNCHANGED <<cache, unsent, rx, srv, c2s>>
      /\ client' = IF Accepts(m) THEN [Return("idle") EXCEPT !.fresh = IsFresh(m)]
                                 ELSE Return("idle")
  BY DEF recv_response
<1>2. /\ s2c' \in Seq(Message)
      /\ \A n \in DOMAIN s2c' : n + 1 \in DOMAIN s2c /\ s2c'[n] = s2c[n + 1]
      /\ 1 \in DOMAIN s2c /\ m = s2c[1]
  BY <1>1, TailFacts
<1>3. Accepts(m) => IsFresh(m)
  <2>1. m.kind = "response" /\ m.id = client.want => Recent(m.data)
    BY <1>1, <1>2 DEF IpcInv, AnswerUnderWay
  <2> QED
    BY <2>1 DEF Accepts, IsFresh, Recent
<1>4. client' = [Return("idle") EXCEPT !.fresh = TRUE]
  <2>1. CASE Accepts(m)
    <3>1. IsFresh(m) = TRUE
      BY <1>3, <2>1 DEF IsFresh
    <3> QED
      BY <1>1, <2>1, <3>1, Zenon
  <2>2. CASE ~Accepts(m)
    <3>1. /\ client \in [pc : {"hello", "idle", "write", "call", "closed"}, next : Nat, want : Nat,
                         req : Requests, since : Reading, fresh : BOOLEAN]
          /\ client.fresh = TRUE
      BY DEF IpcInv, IpcTypes, AnswerIsFresh
    <3> QED
      BY <1>1, <2>2, <3>1, Zenon DEF Return
  <2> QED
    BY <2>1, <2>2
<1> HIDE DEF m
<1> QED
  BY <1>1, <1>2, <1>4, IdleFrame, Zenon

(* The other steps of the client that end in no call.                      *)
LEMMA QuietStep ==
  ASSUME IpcInv, recv_hello \/ write_fails \/ close
  PROVE  IpcInv'
<1>1. /\ client \in [pc : {"hello", "idle", "write", "call", "closed"}, next : Nat, want : Nat,
                     req : Requests, since : Reading, fresh : BOOLEAN]
      /\ client.fresh = TRUE
  BY DEF IpcInv, IpcTypes, AnswerIsFresh
<1>2. UNCHANGED <<cache, unsent, rx, srv, c2s>>
  BY DEF recv_hello, write_fails, close
<1>3. \E place \in {"idle", "closed"} : client' = Return(place)
  BY DEF recv_hello, write_fails, close
<1>4. /\ s2c' \in Seq(Message)
      /\ \A n \in DOMAIN s2c' : \E k \in DOMAIN s2c : s2c'[n] = s2c[k]
  <2>1. CASE recv_hello
    BY <2>1, TailFacts DEF recv_hello
  <2>2. CASE close
    BY <2>2 DEF close
  <2>3. CASE write_fails
    BY <2>3 DEF write_fails, IpcInv, IpcTypes
  <2> QED
    BY <2>1, <2>2, <2>3
<1>5. PICK place \in {"idle", "closed"} : client' = Return(place)
  BY <1>3
<1>6. client' = [Return(place) EXCEPT !.fresh = TRUE]
  BY <1>1, <1>5, Zenon DEF Return
<1> QED
  BY <1>2, <1>4, <1>6, IdleFrame, Zenon

(* recv_update leaves the client as it is.                                 *)
LEMMA UpdateStep ==
  ASSUME IpcInv, recv_update
  PROVE  IpcInv'
<1>1. Received /\ UNCHANGED <<cache, unsent, rx, srv, c2s, client>> /\ client.pc = "idle"
  BY DEF recv_update
<1>2. /\ s2c' \in Seq(Message)
      /\ \A n \in DOMAIN s2c' : n + 1 \in DOMAIN s2c /\ s2c'[n] = s2c[n + 1]
  BY <1>1, TailFacts
<1>3. IpcTypes'
  BY <1>1, <1>2 DEF IpcInv, IpcTypes
<1>4. IdsAreOld' /\ AnswerIsFresh'
  BY <1>1, <1>2 DEF IpcInv, IdsAreOld, AnswerIsFresh
<1>5. AnswerUnderWay'
  BY <1>1 DEF IpcInv, AnswerUnderWay
<1> QED
  BY <1>3, <1>4, <1>5 DEF IpcInv

(* A call that is about to write has asked nothing yet.                    *)
LEMMA RequestStep ==
  ASSUME IpcInv, NEW r \in Requests, request(r)
  PROVE  IpcInv'
<1>1. /\ UNCHANGED <<cache, unsent, rx, srv, c2s, s2c>>
      /\ client' = [client EXCEPT !.pc = "write", !.req = r]
  BY DEF request
<1>2. client \in [pc : {"hello", "idle", "write", "call", "closed"}, next : Nat, want : Nat,
                  req : Requests, since : Reading, fresh : BOOLEAN]
  BY DEF IpcInv, IpcTypes
<1>3. /\ client' \in [pc : {"hello", "idle", "write", "call", "closed"}, next : Nat, want : Nat,
                      req : Requests, since : Reading, fresh : BOOLEAN]
      /\ client'.pc = "write" /\ client'.next = client.next /\ client'.since = client.since
      /\ client'.fresh = client.fresh
  BY <1>1, <1>2, Zenon
<1>4. IpcTypes'
  BY <1>1, <1>3 DEF IpcInv, IpcTypes
<1>5. IdsAreOld' /\ AnswerIsFresh'
  BY <1>1, <1>3 DEF IpcInv, IdsAreOld, AnswerIsFresh
<1>6. AnswerUnderWay'
  BY <1>1, <1>3 DEF IpcInv, AnswerUnderWay
<1> QED
  BY <1>4, <1>5, <1>6 DEF IpcInv

(* A new call has an id that nothing under way has.                        *)
LEMMA CallStep ==
  ASSUME IpcInv, NEW in \in Inputs, send_request(in[1], in[2])
  PROVE  IpcInv'
<1> DEFINE r == in[1]
           since == [f \in FieldSet |-> IF f \in Shown(r) THEN cache[f] ELSE -1]
           env == [id |-> client.next, version |-> in[2], request |-> r]
<1>1. r \in Requests /\ in[2] \in Versions
  BY DEF Inputs, KnownRequests, UnknownRequests, ResponseType, Requests, Versions
<1>2. /\ UNCHANGED <<cache, unsent, rx, srv, s2c>>
      /\ c2s' = Append(c2s, env)
      /\ client' = [client EXCEPT !.pc = "call", !.want = client.next, !.req = r,
                                  !.next = @ + 1, !.since = since]
  BY DEF send_request
<1>3. /\ client \in [pc : {"hello", "idle", "write", "call", "closed"}, next : Nat, want : Nat,
                     req : Requests, since : Reading, fresh : BOOLEAN]
      /\ client.fresh = TRUE /\ client.next \in Nat
      /\ c2s \in Seq(Envelope) /\ s2c \in Seq(Message) /\ cache \in [FieldSet -> Nat]
  BY DEF IpcInv, IpcTypes, AnswerIsFresh
<1>4. since \in Reading /\ \A f \in FieldSet : since[f] <= cache[f]
  BY <1>3 DEF Reading
<1>5. env \in Envelope /\ env.id = client.next
  BY <1>1, <1>3 DEF Envelope
<1> HIDE DEF since, env, r
<1>6. /\ client' \in [pc : {"hello", "idle", "write", "call", "closed"}, next : Nat, want : Nat,
                      req : Requests, since : Reading, fresh : BOOLEAN]
      /\ client'.pc = "call" /\ client'.next = client.next + 1 /\ client'.want = client.next
      /\ client'.since = since /\ client'.fresh = client.fresh
  <2>1. client.next + 1 \in Nat
    BY <1>3
  <2> DEFINE later == client.next + 1
  <2>2. client' = [client EXCEPT !.pc = "call", !.want = client.next, !.req = r,
                                 !.next = later, !.since = since]
    BY <1>2
  <2>3. later \in Nat
    BY <2>1
  <2> HIDE DEF later
  <2>4. /\ client' \in [pc : {"hello", "idle", "write", "call", "closed"}, next : Nat, want : Nat,
                        req : Requests, since : Reading, fresh : BOOLEAN]
        /\ client'.pc = "call" /\ client'.next = later /\ client'.want = client.next
        /\ client'.since = since /\ client'.fresh = client.fresh
    BY <1>1, <1>3, <1>4, <2>2, <2>3, Zenon
  <2> QED
    BY <2>4 DEF later
<1>7. /\ c2s' \in Seq(Envelope)
      /\ \A n \in DOMAIN c2s' : (n \in DOMAIN c2s /\ c2s'[n] = c2s[n]) \/ c2s'[n] = env
  BY <1>2, <1>3, <1>5
<1>8. IpcTypes'
  BY <1>2, <1>6, <1>7 DEF IpcInv, IpcTypes
<1>9. /\ \A n \in DOMAIN c2s : c2s[n].id \in Nat /\ c2s[n].id < client.next
      /\ \A n \in DOMAIN s2c : s2c[n].id \in Nat /\ s2c[n].id < client.next
      /\ srv.req.id \in Nat /\ srv.req.id < client.next
      /\ srv.msg.id \in Nat /\ srv.msg.id < client.next
  <2>1. \A n \in DOMAIN c2s : c2s[n] \in Envelope
    BY <1>3
  <2>2. \A n \in DOMAIN s2c : s2c[n] \in Message
    BY <1>3
  <2> QED
    BY <2>1, <2>2, ServerFacts DEF Envelope, Message, IpcInv, IdsAreOld
<1>10. IdsAreOld'
  <2>1. \A n \in DOMAIN c2s' : c2s'[n].id < client.next + 1
    <3> SUFFICES ASSUME NEW n \in DOMAIN c2s' PROVE c2s'[n].id < client.next + 1
      OBVIOUS
    <3>1. CASE n \in DOMAIN c2s /\ c2s'[n] = c2s[n]
      <4>1. c2s'[n].id \in Nat /\ c2s'[n].id < client.next
        BY <1>9, <3>1
      <4> QED
        BY <1>3, <4>1
    <3>2. CASE c2s'[n] = env
      BY <1>3, <1>5, <3>2
    <3> QED
      BY <1>7, <3>1, <3>2
  <2> QED
    BY <1>2, <1>3, <1>6, <1>9, <2>1 DEF IdsAreOld
<1>11. AnswerUnderWay'
  <2>1. srv.pc = "select" => srv.read = Blank
    BY DEF IpcInv, AnswerUnderWay
  <2>2. srv.req.id # client.next /\ srv.msg.id # client.next
        /\ \A n \in DOMAIN s2c : s2c[n].id # client.next
    BY <1>3, <1>9
  <2> QED
    BY <1>2, <1>4, <1>6, <2>1, <2>2 DEF AnswerUnderWay
<1>12. AnswerIsFresh'
  BY <1>3, <1>6 DEF AnswerIsFresh
<1> QED
  BY <1>8, <1>10, <1>11, <1>12 DEF IpcInv

-----------------------------------------------------------------------------
(* The invariant holds in every behaviour.                                 *)
LEMMA IpcInvHolds == Spec => []IpcInv
<1>1. Init => IpcInv
  <2> SUFFICES ASSUME Init PROVE IpcInv
    OBVIOUS
  <2>1. /\ Blank \in Reading /\ \A f \in FieldSet : Blank[f] = -1
        /\ Hello \in Message /\ Hello.kind = "hello" /\ Hello.id = 0
        /\ NoRequest \in Envelope /\ NoRequest.id = 0
    BY MessageTypes
  <2>2. IpcTypes
    BY <2>1 DEF Init, IpcTypes, Requests
  <2>3. IdsAreOld /\ AnswerIsFresh
    BY <2>1 DEF Init, IdsAreOld, AnswerIsFresh
  <2>4. AnswerUnderWay
    BY <2>1 DEF Init, AnswerUnderWay
  <2> QED
    BY <2>2, <2>3, <2>4 DEF IpcInv
<1>2. IpcInv /\ [Next]_vars => IpcInv'
  <2> SUFFICES ASSUME IpcInv, [Next]_vars PROVE IpcInv'
    OBVIOUS
  <2>1. CASE UNCHANGED vars
    BY <2>1 DEF vars, IpcInv, IpcTypes, IdsAreOld, AnswerUnderWay, AnswerIsFresh, Recent
  <2>2. CASE Publisher
    BY <2>2, PublisherStep
  <2>3. CASE Server
    BY <2>3, AnswerStep, SnapshotStep, CarryStep DEF Server
  <2>4. CASE Client
    <3>1. \A in \in Inputs : in[1] \in Requests
      BY DEF Inputs, KnownRequests, UnknownRequests, ResponseType, Requests
    <3> QED
      BY <2>4, <3>1, ResponseStep, QuietStep, UpdateStep, RequestStep, CallStep DEF Client
  <2> QED
    BY <2>1, <2>2, <2>3, <2>4 DEF Next
<1> QED
  BY <1>1, <1>2, PTL DEF Spec

(* A typed call of IpcClient that succeeds shows a state no older than the *)
(* call, also after calls that failed and left their answers in the stream *)
(* (ipc.rs, request and expect_response).                                  *)
THEOREM AnswersStayFresh == Spec => []AnswerIsFresh
<1>1. IpcInv => AnswerIsFresh
  BY DEF IpcInv
<1> QED
  BY <1>1, IpcInvHolds, PTL
=============================================================================
