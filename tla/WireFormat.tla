----------------------------- MODULE WireFormat -----------------------------
(***************************************************************************)
(* The encodings of agent_proto: control requests and responses, the control *)
(* feed, and the footer of a UDP packet.  A value is a pair of numbers; byte  *)
(* k of a field with value v is <<v, k>>, so that a field read where another  *)
(* one was written does not get its value.  Every input is encoded, loses     *)
(* some bytes, and is decoded.                                                *)
(***************************************************************************)
EXTENDS Integers, Sequences, SequencesExt, TLC

VARIABLES
    msg,      \* what is sent
    payload,  \* the bytes of a packet before its footer
    cut,      \* how many bytes are missing: at the end, of a packet in front
    decoded   \* what is read, Err, or Unread
wvars == <<msg, payload, cut, decoded>>

V(n) == <<n, 0>>
Missing == <<0, -1>>
Mixed == <<-1, -1>>
Message(type, vals) == [type |-> type, vals |-> vals]
Err == Message("error", <<>>)
Unread == Message("unread", <<>>)

---------------------------------------------------------------------------
(* Fields: integers and arrays by their width, addresses, options, vectors,  *)
(* and the MTU pattern, which is as long as the field before it says.        *)
Word(w) == [kind |-> "int", w |-> w]
U64 == Word(8)
U32 == Word(4)
U16 == Word(2)
U8 == Word(1)
Sock == [kind |-> "sock", w |-> 2]
Ip == [kind |-> "ip", w |-> 0]
Vec == [kind |-> "vec", w |-> 0]
Mtu == [kind |-> "mtu", w |-> 0]
Opt(w) == [kind |-> "opt", w |-> w]
PortProto == [kind |-> "proto", w |-> 1]
AgentPortMappingFound == [kind |-> "found", w |-> 24]

IntBytes(v, w) == [k \in 1 .. w |-> <<v, k>>]

MTU_PATTERN_SIZE == 4
MTU_TEST_PATTERN == [k \in 1 .. 2048 |-> <<V(10), (k - 1) % MTU_PATTERN_SIZE>>]
(* At most the 2048 bytes of the pattern, as the code asserts. *)
write_mtu_pattern(len) == SubSeq(MTU_TEST_PATTERN, 1, len)

(* An address starts with its family, an option with its presence, a vector  *)
(* with its length.                                                          *)
write_field(f, v) ==
    CASE f.kind \in {"int", "proto"} -> IntBytes(v, f.w)
      [] f.kind \in {"ip", "sock"} -> IntBytes(V(v[1]), 1) \o IntBytes(v, v[1] + f.w)
      [] f.kind = "opt"  -> IF v = Missing THEN IntBytes(V(0), 1) ELSE IntBytes(V(1), 1) \o IntBytes(v, f.w)
      [] f.kind = "found" -> IF v = Missing THEN IntBytes(V(0), 1)
                             ELSE IntBytes(V(1), 1) \o IntBytes(V(1), 4) \o IntBytes(v, f.w)
      [] f.kind = "vec"  -> IntBytes(V(v[1]), 8) \o IntBytes(v, v[1])
      [] f.kind = "mtu"  -> write_mtu_pattern(v[1])

(* The pattern is compared in pieces of 128 bytes. *)
read_and_verify_mtu_pattern(bytes, len) ==
    /\ Len(bytes) >= len
    /\ \A i \in {j \in 0 .. len - 1 : j % 128 = 0} :
          LET size == IF len - i < 128 THEN len - i ELSE 128
              offset == i % MTU_PATTERN_SIZE
          IN SubSeq(bytes, i + 1, i + size) = SubSeq(MTU_TEST_PATTERN, offset + 1, offset + size)

(* A reader: the bytes that are left and the values so far. *)
Reader(bytes) == [rest |-> bytes, out |-> <<>>, ok |-> TRUE]
Failed == [rest |-> <<>>, out |-> <<>>, ok |-> FALSE]
IntAt(bytes) ==
    IF bytes = <<>> THEN V(0)
    ELSE IF bytes = IntBytes(bytes[1][1], Len(bytes)) THEN bytes[1][1] ELSE Mixed
Skip(r, n) == [r EXCEPT !.rest = SubSeq(@, n + 1, Len(@))]
Put(r, v) == [r EXCEPT !.out = Append(@, v)]

read_int(r, w) == IF Len(r.rest) < w THEN Failed ELSE Put(Skip(r, w), IntAt(SubSeq(r.rest, 1, w)))

read_field(r, f) ==
    LET Head1(n) == IntAt(SubSeq(r.rest, 1, n))
    IN CASE ~r.ok -> r
         [] f.kind = "int" -> read_int(r, f.w)
         [] f.kind = "mtu" ->
              LET len == r.out[Len(r.out)][1]
              IN IF read_and_verify_mtu_pattern(r.rest, len) THEN Put(Skip(r, len), V(len)) ELSE Failed
         [] Len(r.rest) < (IF f.kind = "vec" THEN 8 ELSE 1) -> Failed
         [] f.kind = "vec" -> read_int(Skip(r, 8), Head1(8)[1])
         [] f.kind = "proto" -> IF Head1(1)[1] \in 1 .. 3 THEN read_int(r, 1) ELSE Failed
         [] f.kind \in {"opt", "found"} ->
              CASE Head1(1) = V(0) -> Put(Skip(r, 1), Missing)
                [] Head1(1) # V(1) -> Failed
                [] f.kind = "opt" -> read_int(Skip(r, 1), f.w)
                [] OTHER -> IF Len(r.rest) >= 5 /\ IntAt(SubSeq(r.rest, 2, 5)) = V(1)
                            THEN read_int(Skip(r, 5), f.w) ELSE Failed
         [] f.kind \in {"ip", "sock"} ->
              IF Head1(1)[1] \in {4, 16} THEN read_int(Skip(r, 1), Head1(1)[1] + f.w) ELSE Failed

write_all(fields, vals) == FlattenSeq([i \in 1 .. Len(fields) |-> write_field(fields[i], vals[i])])
read_all(r, fields) == FoldLeft(read_field, r, fields)

---------------------------------------------------------------------------
(* One definition per message: the fields it writes and those it reads. *)
Both(fields) == [w |-> fields, r |-> fields]
AgentSessionId == <<U64, U64, U64>>
PortRange == <<Ip, U16, U16, PortProto>>
ClaimInstructions == <<Sock, Vec>>
CheckMtuReceived == Both(<<U64, U32, Mtu>>)
SendMtuTest == Both(<<U64, U32, U32>>)
AgentCheckPortMapping == Both(AgentSessionId \o PortRange)
Ping == Both(<<U64, Opt(4), Opt(24)>>)
CheckMtuReceivedAck == Both(<<U64, U32, U32, U32>>)
(* Eight bytes; the writer returns, and STATIC_SIZE declares, four, which    *)
(* no caller uses.                                                            *)
MtuTestPacket == Both(<<U32, U32>>)
MtuTestFail == Both(<<U32>>)
AgentPortMapping == Both(PortRange \o <<AgentPortMappingFound>>)
UdpChannelDetails == Both(<<Sock, Vec>>)
Pong == Both(<<U64, U64, U64, U32, Sock, Sock, Opt(8)>>)
AgentRegistered == Both(AgentSessionId \o <<U64>>)

NewClient == Both(<<Sock, Sock, U32, U64, U16>> \o ClaimInstructions)
NewClientOld == Both(<<Sock, Sock>> \o ClaimInstructions \o <<U64, U32>>)

(* AgentRegister without its leading words: agent, version, time, addresses, *)
(* signature.  The second number of a word is its bit 63.                    *)
RegisterRest == <<U64, U64, U64, Sock, Sock, Word(32)>>
AgentRegisterV1 == [r |-> <<U64>> \o RegisterRest]

(* AgentRegister::write_to; the first value is proto_version, the second the *)
(* account.                                                                  *)
write_register(vals) ==
    LET proto == vals[1]
        account == vals[2]
        rest == write_all(RegisterRest, SubSeq(vals, 3, 8))
    IN CASE proto[1] <= 1 /\ account[2] = 1 -> <<>>
         [] proto[1] <= 1 -> IntBytes(account, 8) \o rest
         [] proto[1] > 1 /\ proto[2] = 1 -> <<>>
         [] OTHER -> IntBytes(<<proto[1], 1>>, 8) \o IntBytes(account, 8) \o rest

(* AgentRegister::read_from: a word with the bit set is a version. *)
read_register(bytes) ==
    LET word == read_int(Reader(bytes), 8)
    IN IF word.ok /\ word.out[1][2] = 1
       THEN read_all([word EXCEPT !.out = <<V(@[1][1])>>], <<U64>> \o RegisterRest)
       ELSE read_all(Put(Reader(bytes), V(1)), <<U64>> \o RegisterRest)

(* The code of a failure: what the reader does not know is _Unknown. *)
Unknown == 2
MtuTestFailCode(v) == IF v[1] >= Unknown THEN V(Unknown) ELSE v

(* ControlRequest::write_to: the tag and the fields that follow. *)
RequestTags ==
    [ Ping |-> <<6, Ping>>, AgentKeepAlive |-> <<3, Both(AgentSessionId)>>,
      SetupUdpChannel |-> <<4, Both(AgentSessionId)>>,
      AgentCheckPortMapping |-> <<5, AgentCheckPortMapping>>,
      CheckMtuReceived |-> <<8, CheckMtuReceived>>, SendMtuTest |-> <<9, SendMtuTest>> ]
write_request(m) ==
    IF m.type = "AgentRegister"
    THEN IF write_register(m.vals) = <<>> THEN <<>>
         ELSE IntBytes(V(IF m.vals[1][1] <= 1 THEN 2 ELSE 7), 4) \o write_register(m.vals)
    ELSE LET entry == RequestTags[m.type]
         IN IntBytes(V(entry[1]), 4) \o write_all(entry[2].w, m.vals)

(* What a reader makes of a message of this type. *)
Finish(type, r) == IF r.ok THEN Message(type, r.out) ELSE Err

(* ControlRequest::read_from. *)
read_request(bytes) ==
    LET tail == SubSeq(bytes, 5, Len(bytes))
        read(t) == Finish(t, read_all(Reader(tail), RequestTags[t][2].r))
    IN IF Len(bytes) < 4 THEN Err
       ELSE LET tag == IntAt(SubSeq(bytes, 1, 4))[1]
            IN CASE tag = 1 -> LET r == read_int(Reader(tail), 8)
                               IN Finish("Ping", [r EXCEPT !.out = @ \o <<Missing, Missing>>])
                 [] tag = 2 -> Finish("AgentRegister", read_all(Put(Reader(tail), V(1)), AgentRegisterV1.r))
                 [] tag = 3 -> read("AgentKeepAlive")
                 [] tag = 4 -> read("SetupUdpChannel")
                 [] tag = 5 -> read("AgentCheckPortMapping")
                 [] tag = 6 -> read("Ping")
                 [] tag = 7 -> Finish("AgentRegister", read_register(tail))
                 [] tag = 8 -> read("CheckMtuReceived")
                 [] tag = 9 -> read("SendMtuTest")
                 [] OTHER -> Err

(* ControlResponse::write_to and read_from. *)
ResponseTags ==
    [ Pong |-> <<1, Pong>>, InvalidSignature |-> <<2, Both(<<>>)>>,
      Unauthorized |-> <<3, Both(<<>>)>>, RequestQueued |-> <<4, Both(<<>>)>>,
      TryAgainLater |-> <<5, Both(<<>>)>>, AgentRegistered |-> <<6, AgentRegistered>>,
      AgentPortMapping |-> <<7, AgentPortMapping>>, UdpChannelDetails |-> <<8, UdpChannelDetails>>,
      CheckMtuReceivedAck |-> <<9, CheckMtuReceivedAck>>, MtuTestPacket |-> <<10, MtuTestPacket>>,
      MtuTestFail |-> <<11, MtuTestFail>> ]
write_response(m) ==
    LET entry == ResponseTags[m.type]
    IN IntBytes(V(entry[1]), 4) \o write_all(entry[2].w, m.vals)
read_response(bytes) ==
    LET tail == SubSeq(bytes, 5, Len(bytes))
        read(t, fields) == Finish(t, read_all(Reader(tail), fields))
    IN IF Len(bytes) < 4 THEN Err
       ELSE LET tag == IntAt(SubSeq(bytes, 1, 4))[1]
            IN CASE tag = 1 -> read("Pong", Pong.r)
                 [] tag = 2 -> read("InvalidSignature", <<>>)
                 [] tag = 3 -> read("Unauthorized", <<>>)
                 [] tag = 4 -> read("RequestQueued", <<>>)
                 [] tag = 5 -> read("TryAgainLater", <<>>)
                 [] tag = 6 -> read("AgentRegistered", AgentRegistered.r)
                 [] tag = 7 -> read("AgentPortMapping", AgentPortMapping.r)
                 [] tag = 8 -> read("UdpChannelDetails", UdpChannelDetails.r)
                 [] tag = 9 -> read("CheckMtuReceivedAck", CheckMtuReceivedAck.r)
                 [] tag = 10 -> read("MtuTestPacket", MtuTestPacket.r)
                 [] tag = 11 -> LET r == read_all(Reader(tail), MtuTestFail.r)
                                IN Finish("MtuTestFail", [r EXCEPT !.out = [i \in DOMAIN @ |-> MtuTestFailCode(@[i])]])
                 [] OTHER -> Err

(* ControlRpcMessage: the request identifier, then the content.  All inputs    *)
(* have the same identifier; another one counts as not decoded.               *)
RequestId == <<77, 1>>
write_rpc(content) == IF content = <<>> THEN <<>> ELSE IntBytes(RequestId, 8) \o content
read_rpc(T, bytes) ==
    LET content == SubSeq(bytes, 9, Len(bytes))
    IN IF Len(bytes) < 8 \/ IntAt(SubSeq(bytes, 1, 8)) # RequestId THEN Err
       ELSE IF T = "ControlRequest" THEN read_request(content) ELSE read_response(content)

(* From<NewClientOld> for NewClient. *)
upgrade(m) ==
    IF m = Err THEN Err
    ELSE LET v == m.vals
         IN Message("NewClient", <<v[1], v[2], v[6], V(0), V(0), v[3], v[4]>>)

(* ControlFeed::write_to and read_from. *)
write_feed(m) ==
    CASE m.type = "NewClientOld" -> IntBytes(V(2), 4) \o write_all(NewClientOld.w, m.vals)
      [] m.type = "NewClient" -> IntBytes(V(3), 4) \o write_all(NewClient.w, m.vals)
      [] OTHER -> IntBytes(V(1), 4) \o write_rpc(write_response(m))
read_feed(bytes) ==
    LET tail == SubSeq(bytes, 5, Len(bytes))
    IN IF Len(bytes) < 4 THEN Err
       ELSE LET tag == IntAt(SubSeq(bytes, 1, 4))[1]
            IN CASE tag = 1 -> read_rpc("ControlResponse", tail)
                 [] tag = 2 -> upgrade(Finish("NewClientOld", read_all(Reader(tail), NewClientOld.r)))
                 [] tag = 3 -> Finish("NewClient", read_all(Reader(tail), NewClient.r))
                 [] OTHER -> Err

---------------------------------------------------------------------------
(* UdpFlow.  Values 1 to 4 are addresses and ports, 5 to 7 the extension, 8   *)
(* to 10 the fragment (has_more, frag_offset, packet_id); Missing where missing. *)
HasExt(m) == m.vals[5] # Missing
HasFrag(m) == m.vals[8] # Missing
FOOTER_4_V1 == <<41, 9>>
FOOTER_4_V2 == <<42, 9>>
FOOTER_6_V1 == <<61, 9>>
FOOTER_6_V2 == <<62, 9>>
EXT_LEN == 18
IP4_LEN_V1 == 20
IP4_LEN_V2_WITHOUT_FRAG == 20 + EXT_LEN + 2
IP4_LEN_V2_WITH_FRAG == IP4_LEN_V2_WITHOUT_FRAG + 3
IP6_LEN_V1 == 48
IP6_LEN_V2 == IP6_LEN_V1 - 4 + EXT_LEN

Extension == <<U64, U64, U16>>
Addresses(w) == <<Word(w), Word(w), U16, U16>>
write_flow(m) ==
    LET v == m.vals
        head == write_all(Addresses(IF m.type = "V4" THEN 4 ELSE 16), v)
        ext == write_all(Extension, SubSeq(v, 5, 7))
        frag == IF HasFrag(m) THEN write_all(<<U8, U16, U16>>, SubSeq(v, 8, 10)) ELSE IntBytes(V(0), 2)
    IN CASE m.type = "V4" /\ HasExt(m) -> head \o ext \o frag \o IntBytes(FOOTER_4_V2, 8)
         [] m.type = "V4" -> head \o IntBytes(FOOTER_4_V1, 8)
         [] m.type = "V6" /\ HasExt(m) -> head \o ext \o IntBytes(FOOTER_6_V2, 8)
         [] m.type = "V6" -> head \o IntBytes(V(0), 4) \o IntBytes(FOOTER_6_V1, 8)

footer_len(m) ==
    CASE m.type = "V4" /\ ~HasExt(m) -> IP4_LEN_V1
      [] m.type = "V4" /\ HasExt(m) /\ HasFrag(m) -> IP4_LEN_V2_WITH_FRAG
      [] m.type = "V4" /\ HasExt(m) /\ ~HasFrag(m) -> IP4_LEN_V2_WITHOUT_FRAG
      [] m.type = "V6" /\ ~HasExt(m) -> IP6_LEN_V1
      [] m.type = "V6" /\ HasExt(m) -> IP6_LEN_V2

(* The last n bytes as these fields, then the values that are absent. *)
ReadTail(type, bytes, n, fields) ==
    IF Len(bytes) < n THEN Err
    ELSE LET out == read_all(Reader(SubSeq(bytes, Len(bytes) - n + 1, Len(bytes))), fields).out
             all == out \o [i \in 1 .. 10 - Len(out) |-> Missing]
         IN IF \E i \in {5, 6} \cap DOMAIN out : out[i] = V(0) THEN Err ELSE Message(type, all)

(* Mutated form: packet_id is looked for where a packet without fragment has it. *)
NeverFrag(bytes) ==
    IF Len(bytes) < 8 THEN Err
    ELSE LET id == IntAt(SubSeq(bytes, Len(bytes) - 7, Len(bytes)))
         IN CASE id = FOOTER_4_V1 -> ReadTail("V4", bytes, IP4_LEN_V1, Addresses(4))
              [] id = FOOTER_4_V2 -> ReadTail("V4", bytes, IP4_LEN_V2_WITHOUT_FRAG, Addresses(4) \o Extension)
              [] id = FOOTER_6_V1 -> ReadTail("V6", bytes, IP6_LEN_V1, Addresses(16))
              [] id = FOOTER_6_V2 -> ReadTail("V6", bytes, IP6_LEN_V2, Addresses(16) \o Extension)
              [] OTHER -> Err

from_tail(bytes) ==
    IF Len(bytes) < 8 THEN Err
    ELSE LET n == Len(bytes)
             id == IntAt(SubSeq(bytes, n - 7, n))
             packet_id == IntAt(SubSeq(bytes, n - 9, n - 8))
         IN CASE id = FOOTER_4_V1 -> ReadTail("V4", bytes, IP4_LEN_V1, Addresses(4))
              [] id = FOOTER_4_V2 /\ n < 10 -> Err
              [] id = FOOTER_4_V2 /\ packet_id = V(0) ->
                    ReadTail("V4", bytes, IP4_LEN_V2_WITHOUT_FRAG, Addresses(4) \o Extension)
              [] id = FOOTER_4_V2 ->
                    ReadTail("V4", bytes, IP4_LEN_V2_WITH_FRAG, Addresses(4) \o Extension \o <<U8, U16, U16>>)
              [] id = FOOTER_6_V1 -> ReadTail("V6", bytes, IP6_LEN_V1, Addresses(16))
              [] id = FOOTER_6_V2 -> ReadTail("V6", bytes, IP6_LEN_V2, Addresses(16) \o Extension)
              [] OTHER -> Err

---------------------------------------------------------------------------
(* The proxy protocol, version 2: magic bytes, the kind of address and        *)
(* transport, the length of what follows, addresses and ports of the flow.    *)
PROXY_PROTOCOL_V2_HEADER == IntBytes(<<13, 10>>, 13)
UDP_PROXY_PROTOCOL_LEN_V4 == 16 + 12
UDP_PROXY_PROTOCOL_LEN_V6 == 16 + 36
from_udp_flow(m) == Message(IF m.type = "V4" THEN "AfInet" ELSE "AfInet6", SubSeq(m.vals, 1, 4))
WriteV2(m, kind4, kind6) ==
    LET v4 == m.type = "AfInet"
    IN PROXY_PROTOCOL_V2_HEADER \o IntBytes(V(IF v4 THEN kind4 ELSE kind6), 1)
       \o IntBytes(V(IF v4 THEN 12 ELSE 36), 2)
       \o write_all(Addresses(IF v4 THEN 4 ELSE 16), m.vals)
write_v2_udp(m) == WriteV2(m, 18, 34)
write_v2_tcp(m) == WriteV2(m, 17, 33)

(* The reader for datagrams; it takes no header of a stream. *)
parse_v2_udp(bytes) ==
    LET magic == read_all(Reader(bytes), <<Word(13), U8, U16>>)
        kind == magic.out[2]
        read(type, len, w) ==
            IF magic.out[3] # V(len) THEN Err
            ELSE LET r == read_all(magic, Addresses(w))
                 IN IF r.ok THEN Message(type, SubSeq(r.out, 4, 7)) ELSE Err
    IN CASE ~magic.ok \/ magic.out[1] # <<13, 10>> -> Err
         [] kind = V(18) -> read("AfInet", 12, 4)
         [] kind = V(34) -> read("AfInet6", 36, 16)
         [] OTHER -> Err

---------------------------------------------------------------------------
(* Inputs: a field has the number of its place as its value, so that no two   *)
(* fields of a message agree; addresses of both families, options and vectors *)
(* with and without content, patterns around the piece of 128 bytes.          *)
Vals(f, i) ==
    CASE f.kind = "int" -> {V(i)}
      [] f.kind \in {"ip", "sock"} -> {<<4, i>>, <<16, i>>}
      [] f.kind \in {"opt", "found"} -> {Missing, <<1, i>>}
      [] f.kind = "proto" -> {V(n) : n \in 1 .. 3}
      [] f.kind = "vec" -> {V(0), <<3, i>>}
Tuples(fields) ==
    FoldLeft(LAMBDA S, i : {Append(s, x) : s \in S, x \in Vals(fields[i], i)},
             {<<>>}, [i \in 1 .. Len(fields) |-> i])
PatternLengths == {0, 5, 128, 131}
RequestInputs ==
    UNION {{Message(t, v) : v \in Tuples(RequestTags[t][2].w)} : t \in DOMAIN RequestTags \ {"CheckMtuReceived"}}
    \cup {Message("CheckMtuReceived", <<V(1), V(n), V(n)>>) : n \in PatternLengths}
    \cup {Message("AgentRegister", <<V(p), <<9, hi>>>> \o v) :
             p \in 0 .. 2, hi \in 0 .. 1, v \in Tuples(RegisterRest)}
FeedInputs ==
    UNION {{Message(t, v) : v \in Tuples(ResponseTags[t][2].w)} : t \in DOMAIN ResponseTags \ {"MtuTestFail"}}
    \cup {Message("MtuTestFail", <<V(n)>>) : n \in 0 .. Unknown}
    \cup {Message("NewClientOld", v) : v \in Tuples(NewClientOld.w)}
    \cup {Message("NewClient", v) : v \in Tuples(NewClient.w)}
FlowInputs ==
    {Message(t, <<V(1), V(2), V(3), V(4)>> \o ext \o frag) :
        t \in {"V4", "V6"}, ext \in {<<Missing, Missing, Missing>>, <<V(5), V(6), V(7)>>},
        frag \in {<<Missing, Missing, Missing>>, <<V(0), V(9), V(10)>>, <<V(1), V(0), V(10)>>}}
ProxyInputs == {Message(t, <<V(1), V(2), V(3), V(4)>>) : t \in {"AfInet", "AfInet6"}}
Flows == {m \in FlowInputs : m.type = "V6" => ~HasFrag(m)}
Payloads == {<<>>, IntBytes(V(99), 12)}
            \cup {write_flow(m) : m \in {x \in Flows : HasExt(x)}}

Encode(m) ==
    CASE m \in Flows -> write_flow(m)
      [] m \in FeedInputs -> write_feed(m)
      [] m \in ProxyInputs -> write_v2_udp(m)
      [] OTHER -> write_rpc(write_request(m))

Init ==
    /\ \/ msg \in RequestInputs \cup FeedInputs \cup ProxyInputs /\ payload = <<>>
       \/ msg \in Flows /\ payload \in Payloads
    /\ cut \in 0 .. Len(payload \o Encode(msg))
    /\ decoded = Unread

decode_request ==
    /\ msg \in RequestInputs /\ Encode(msg) # <<>>
    /\ decoded' = read_rpc("ControlRequest", SubSeq(Encode(msg), 1, Len(Encode(msg)) - cut))
decode_feed ==
    /\ msg \in FeedInputs
    /\ decoded' = read_feed(SubSeq(Encode(msg), 1, Len(Encode(msg)) - cut))
decode_proxy ==
    /\ msg \in ProxyInputs
    /\ decoded' = parse_v2_udp(SubSeq(Encode(msg), 1, Len(Encode(msg)) - cut))
decode_packet ==
    /\ msg \in Flows
    /\ decoded' = LET packet == payload \o Encode(msg) IN from_tail(SubSeq(packet, cut + 1, Len(packet)))

Next ==
    /\ decoded = Unread
    /\ decode_request \/ decode_feed \/ decode_proxy \/ decode_packet
    /\ UNCHANGED <<msg, payload, cut>>
Spec == Init /\ [][Next]_wvars

(* What the code deliberately does not keep: a version below one, the form of *)
(* an old client.                                                             *)
Kept(m) ==
    CASE m.type = "AgentRegister" /\ m.vals[1] = V(0) -> [m EXCEPT !.vals[1] = V(1)]
      [] m.type = "NewClientOld" -> upgrade(m)
      [] OTHER -> m

(* What is read is what was written, for every request, response, message of *)
(* the feed and proxy header, whichever of the two formats the version of a   *)
(* registration selects.                                                      *)
RoundTrip ==
    decoded # Unread /\ msg \notin Flows /\ cut = 0 => decoded = Kept(msg)

(* A message that lost its end is refused, wherever it was cut: no message is *)
(* the beginning of another one, and no reader takes less than it needs.      *)
NoPrefixDecodes ==
    decoded # Unread /\ msg \notin Flows /\ cut > 0 => decoded = Err

(* from_tail finds the flow that write_to wrote, whatever the packet carries  *)
(* before it, another footer among it, and refuses a packet that has lost a   *)
(* part of the footer.  A fragment without extension is not written.          *)
FooterIsFound ==
    decoded # Unread /\ msg \in Flows =>
       decoded = IF cut > Len(payload) THEN Err
                 ELSE IF HasExt(msg) THEN msg
                 ELSE [msg EXCEPT !.vals = SubSeq(@, 1, 7) \o <<Missing, Missing, Missing>>]

(* footer_len, which callers reserve room with, is what write_to fills.  The  *)
(* same for the header in front of a packet, for datagrams and streams, and   *)
(* the length a header names is what follows it.                              *)
LengthsAreTrue ==
    msg \in Flows =>
        LET header == from_udp_flow(msg)
            len == IF msg.type = "V4" THEN UDP_PROXY_PROTOCOL_LEN_V4 ELSE UDP_PROXY_PROTOCOL_LEN_V6
        IN /\ footer_len(msg) = Len(write_flow(msg))
           /\ Len(write_v2_udp(header)) = len
           /\ Len(write_v2_tcp(header)) = len
           /\ write_v2_tcp(header)[15] = <<V(len - 16), 1>>
           /\ parse_v2_udp(write_v2_tcp(header)) = Err

(* The bytes of a registration that are signed and verified: all but the      *)
(* signature.                                                                  *)
write_plain(m) == LET b == write_register(m.vals) IN SubSeq(b, 1, Len(b) - 32)

(* The reader of a registration verifies its signature over the bytes that    *)
(* were signed, although it rebuilds them from what it has decoded.           *)
VerifiesWhatWasSigned ==
    decoded.type = "AgentRegister" => write_plain(decoded) = write_plain(msg)

(* Readers and writers of every format agree: on whole and cut messages, on   *)
(* footers, on lengths and on what is signed.                                 *)
DecodesWhatWasSent ==
    /\ RoundTrip /\ NoPrefixDecodes /\ FooterIsFound
    /\ LengthsAreTrue /\ VerifiesWhatWasSigned
=============================================================================
