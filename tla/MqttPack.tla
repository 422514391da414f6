------------------------------ MODULE MqttPack ------------------------------
(***************************************************************************)
(* The packing half of the MQTT SDK (mqtt/sdk/mqtt.c): Mqtt_Pack*Pkt,      *)
(* Mqtt_Append*, Mqtt_SetPktDup, on one packet buffer, in any order, with  *)
(* every allocation free to fail.                                          *)
(*                                                                         *)
(* An extent is known by its length, the bytes it has room for, the bytes  *)
(* that were filled in, and whose memory they are.  Of the contents only   *)
(* the type, the flags and the encoded length of a packet are kept: texts  *)
(* are lengths with the class of their characters.  Where extents lie is   *)
(* MqttBuffer's concern.                                                   *)
(***************************************************************************)
EXTENDS Integers, Sequences, SequencesExt, FiniteSetsExt

CONSTANTS
  Strings,    \* lengths of topics, ids, names
  Sizes,      \* lengths of published payloads
  DataSizes,  \* lengths of the data in data points
  Owns,       \* values of the argument own: TRUE copies, FALSE refers
  InfoLen,    \* length of the description that cJSON prints
  MaxPkts,    \* bound: packets of one buffer
  MaxExts     \* bound: extents of one buffer

ASSUME MqttPackAssumption ==
  /\ Strings \subseteq Nat
  /\ Sizes \subseteq Nat
  /\ DataSizes \subseteq Nat
  /\ Owns \subseteq BOOLEAN
  /\ InfoLen \in Nat
  /\ MaxPkts \in Nat
  /\ MaxExts \in Nat

VARIABLES
  list,      \* first_ext .. last_ext
  buffered,  \* buffered_bytes
  pkts,      \* packets packed since the last reset
  ret,       \* what the last call returned; "crash" when it did not
  faults     \* limits of the code that have been met since the last reset

vars == <<list, buffered, pkts, ret, faults>>

(* MQTTERR_ILLEGAL_CHARACTER is never returned: see TextRefused and IdLen. *)
Errors == {"INVALID_PARAMETER", "NOT_UTF8", "OUTOFMEMORY", "PKT_TOO_LARGE", "INTERNAL"}

(* "wild": legal UTF-8 with a character that is neither letter nor digit,  *)
(* among them '#' or '+'.                                                  *)
Text == [len : Strings, kind : {"plain", "wild", "not utf8"}]
Null == [len |-> 0, kind |-> "null"]

Plain(n) == [len |-> n, kind |-> "plain"]

-----------------------------------------------------------------------------
(***************************************************************************)
(* Encoded lengths.                                                        *)
(***************************************************************************)
Radix == 128

(* The weights of the digits, and the first length that has no encoding. *)
Weight == <<1, 128, 16384, 2097152, 268435456>>

DigitAt(len, i) == (len \div Weight[i]) % Radix

Digits(len) == Min({i \in 1..4 : len < Weight[i + 1]})

TooLarge(len) == len >= Weight[5]

(* Mutant: a length of exactly 128 is thought to fit one byte. *)
DumpLengthOff(len) ==
  LET n == IF TooLarge(len) THEN 4 ELSE Min({i \in 1..4 : len <= Weight[i + 1]})
  IN  [i \in 1..n |-> DigitAt(len, i) + (IF i < n \/ TooLarge(len) THEN Radix ELSE 0)]

(* Mqtt_DumpLength: the bytes written; when it returns -1 the last one     *)
(* still announces another.                                                *)
DumpLength(len) ==
  LET n == IF TooLarge(len) THEN 4 ELSE Digits(len)
  IN  [i \in 1..n |-> DigitAt(len, i) + (IF i < n \/ TooLarge(len) THEN Radix ELSE 0)]

(* Mqtt_ReadLength gives up behind the third byte that announces another. *)
Readable(bytes) == \E i \in DOMAIN bytes : i <= 3 /\ bytes[i] < Radix

(* The value of an encoded length, to Mqtt_ReadLength as to any receiver. *)
ReadLength(bytes) ==
  LET read(i)  == i \in DOMAIN bytes /\ \A j \in 1..(i - 1) : bytes[j] >= Radix
      value(i) == IF read(i) THEN (bytes[i] % Radix) * Weight[i] ELSE 0
  IN  value(1) + value(2) + value(3) + value(4)

-----------------------------------------------------------------------------
(***************************************************************************)
(* Extents.  Room is what was allocated, filled what was written into it;  *)
(* mem is "own" (inside the buffer), "caller" or "gone" (referenced).  pkt *)
(* is the number of the packet it belongs to, 0 while it is not linked.    *)
(***************************************************************************)
(* The fixed header of five bytes, its len adjusted to the length's bytes. *)
HeadExt(type, flags, len) ==
  LET d == DumpLength(len)
  IN  [type |-> type, flags |-> flags, digits |-> d, len |-> Len(d) + 1,
       room |-> 5, filled |-> Len(d) + 1, mem |-> "own", pkt |-> 0]

(* A packet in one extent, with n bytes behind its length. *)
WholeExt(type, flags, n) ==
  [type |-> type, flags |-> flags, digits |-> <<n>>, len |-> 2 + n,
   room |-> 2 + n, filled |-> 2 + n, mem |-> "own", pkt |-> 0]

BodyExt(n, filled) ==
  [type |-> "body", flags |-> 0, digits |-> <<>>, len |-> n,
   room |-> n, filled |-> filled, mem |-> "own", pkt |-> 0]

(* MqttBuffer_Append: a copy, or a reference to memory elsewhere. *)
DataExt(n, mem) == [BodyExt(n, n) EXCEPT !.mem = mem]

Word == 65536

(* Mqtt_PktWriteString: the bytes written; the length is a uint16_t. *)
WriteString(n) == 2 + (n % Word)

Truncated(n) == IF n >= Word THEN {"truncated"} ELSE {}

-----------------------------------------------------------------------------
(***************************************************************************)
(* A packing function makes its checks and allocations in order, and       *)
(* returns at the first that fails.  The outcome of an allocation is open. *)
(***************************************************************************)
Test(fails, err) == [outcomes |-> {fails}, err |-> err]
Alloc == [outcomes |-> BOOLEAN, err |-> "OUTOFMEMORY"]
AllocUnchecked == [outcomes |-> BOOLEAN, err |-> "crash"]

Stops(checks) ==
  {checks[i].err : i \in {k \in DOMAIN checks :
                            /\ TRUE \in checks[k].outcomes
                            /\ \A j \in 1..(k - 1) : FALSE \in checks[j].outcomes}}

Passes(checks) == \A i \in DOMAIN checks : FALSE \in checks[i].outcomes

Up == ret # "crash"

Total(exts) == FoldSeq(LAMBDA x, sum : x.len + sum, 0, exts)

Returns(err) ==
  /\ ret' = err
  /\ UNCHANGED <<list, buffered, pkts, faults>>

Linked(e, p) == [e EXCEPT !.pkt = p]

(* Mutant: only the last extent is counted. *)
PackedLast(exts, met) ==
  /\ Len(list) + Len(exts) <= MaxExts
  /\ list' = list \o [i \in DOMAIN exts |-> Linked(exts[i], pkts + 1)]
  /\ buffered' = buffered + exts[Len(exts)].len
  /\ pkts' = pkts + 1
  /\ ret' = "NOERROR"
  /\ faults' = faults \cup met

(* The MqttBuffer_AppendExtent calls at the end of a packing function. *)
Packed(exts, met) ==
  /\ Len(list) + Len(exts) <= MaxExts
  /\ list' = list \o [i \in DOMAIN exts |-> Linked(exts[i], pkts + 1)]
  /\ buffered' = buffered + Total(exts)
  /\ pkts' = pkts + 1
  /\ ret' = "NOERROR"
  /\ faults' = faults \cup met

Call(checks, exts, met) ==
  \/ \E err \in Stops(checks) : Returns(err)
  \/ Passes(checks) /\ Packed(exts, met)

-----------------------------------------------------------------------------
(***************************************************************************)
(* Mqtt_PackConnectPkt.  Mqtt_CheckClentIdentifier's -1 is stored in a     *)
(* uint16_t, so that the test for it never holds.                          *)
(***************************************************************************)
IdLen(id) == IF id.kind = "plain" THEN id.len ELSE Word - 1

HasWill(topic, qos, retain) == topic # Null \/ qos \in {1, 2} \/ retain

(* total_len - 10, and the strings written into it. *)
ConnectRoom(id, topic, msg, will, user, password) ==
  2 + IdLen(id) + (IF will THEN 4 + topic.len + msg.len ELSE 0)
    + 2 + user.len + 2 + password.len

ConnectFilled(id, topic, msg, will, user, password) ==
  WriteString(IdLen(id))
    + (IF will THEN WriteString(topic.len) + WriteString(msg.len) ELSE 0)
    + WriteString(user.len) + WriteString(password.len)

ConnectChecks(topic, msg, qos, user, password, len) ==
  <<Alloc, Alloc,
    Test(msg # Null /\ topic = Null, "INVALID_PARAMETER"),
    Test(topic.kind = "not utf8", "NOT_UTF8"),
    Test(qos \notin 0..2, "INVALID_PARAMETER"),
    Test(user = Null \/ password = Null, "INVALID_PARAMETER"),
    Test(user.kind = "not utf8", "NOT_UTF8"),
    Test(TooLarge(len), "PKT_TOO_LARGE"),
    AllocUnchecked>>

PackConnectPkt(id, topic, msg, qos, retain, user, password) ==
  LET will == HasWill(topic, qos, retain)
      room == ConnectRoom(id, topic, msg, will, user, password)
  IN  Call(ConnectChecks(topic, msg, qos, user, password, 10 + room),
           <<HeadExt("CONNECT", 0, 10 + room), BodyExt(10, 10),
             BodyExt(room, ConnectFilled(id, topic, msg, will, user, password))>>,
           {})

-----------------------------------------------------------------------------
(* Mqtt_PackPublishPkt.  The packet id is written for QoS 1 and 2; of the  *)
(* flags only DUP is kept.                                                 *)
IdBytes(qos) == IF qos = 0 THEN 0 ELSE 2

PublishChecks(id, topic, size, qos) ==
  <<Test(id = 0 \/ topic.kind = "wild", "INVALID_PARAMETER"),
    Test(topic.kind = "not utf8", "NOT_UTF8"),
    Alloc,
    Test(qos \notin 0..2, "INVALID_PARAMETER"),
    Test(TooLarge(topic.len + size + 2 + IdBytes(qos)), "PKT_TOO_LARGE"),
    Alloc>>

PublishHead(topic, size, qos) ==
  <<HeadExt("PUBLISH", 0, topic.len + size + 2 + IdBytes(qos)),
    BodyExt(topic.len + 2 + IdBytes(qos), WriteString(topic.len) + IdBytes(qos))>>

(* The result of the MqttBuffer_Append of the payload is not looked at. *)
PackPublishPkt(id, topic, size, qos, mem) ==
  LET checks == PublishChecks(id, topic, size, qos)
      head   == PublishHead(topic, size, qos)
      met    == Truncated(topic.len)
  IN  \/ /\ size = 0
         /\ Call(checks, head, met)
      \/ /\ size # 0
         /\ Call(checks, Append(head, DataExt(size, mem)), met)
      \/ /\ size # 0
         /\ Passes(checks)
         /\ Packed(head, met \cup {"unappended"})

(* Mutant: the flag is added, also when it is there. *)
SetPktDupAdds ==
  \/ list = <<>> /\ Returns("crash")
  \/ /\ list # <<>>
     /\ list' = [list EXCEPT ![1].flags = @ + 8]
     /\ ret' = "NOERROR"
     /\ UNCHANGED <<buffered, pkts, faults>>

(* Mqtt_SetPktDup looks at the first extent before it tests for it. *)
SetPktDup ==
  \/ list = <<>> /\ Returns("crash")
  \/ /\ list # <<>>
     /\ list[1].type # "PUBLISH"
     /\ Returns("INVALID_PARAMETER")
  \/ /\ list # <<>>
     /\ list[1].type = "PUBLISH"
     /\ list' = [list EXCEPT ![1].flags = IF @ < 8 THEN @ + 8 ELSE @]
     /\ ret' = "NOERROR"
     /\ UNCHANGED <<buffered, pkts, faults>>

(* Mqtt_PackPubAckPkt, _PubRecPkt, _PubCompPkt; _PubRelPkt, which does not *)
(* test its allocation.                                                    *)
PackAckPkt(type, id) ==
  Call(<<Test(id = 0, "INVALID_PARAMETER"), Alloc>>, <<WholeExt(type, 0, 2)>>, {})

PackPubRelPkt(id) ==
  Call(<<Test(id = 0, "INVALID_PARAMETER"), AllocUnchecked>>,
       <<WholeExt("PUBREL", 2, 2)>>, {})

(* Mqtt_PackPingReqPkt, Mqtt_PackDisconnectPkt. *)
PackEmptyPkt(type) == Call(<<Alloc>>, <<WholeExt(type, 0, 0)>>, {})

-----------------------------------------------------------------------------
(***************************************************************************)
(* Mqtt_PackSubscribePkt, Mqtt_PackUnsubscribePkt: perTopic counts the     *)
(* byte for the QoS.                                                       *)
(***************************************************************************)
TopicChecks(topics) ==
  [i \in DOMAIN topics |->
     Test(topics[i].kind \in {"null", "not utf8"},
          IF topics[i].kind = "null" THEN "INVALID_PARAMETER" ELSE "NOT_UTF8")]

(* The bytes of the topics, of which topic i takes n[i]. *)
SumOf(n) == Total([i \in DOMAIN n |-> [len |-> n[i]]])

(* Mutant: the QoS is counted once, not for each topic. *)
TopicsRoomOnce(topics, perTopic) ==
  2 + perTopic + SumOf([i \in DOMAIN topics |-> 2 + topics[i].len])

TopicsRoom(topics, perTopic) ==
  2 + SumOf([i \in DOMAIN topics |-> 2 + topics[i].len + perTopic])

TopicsFilled(topics, perTopic) ==
  2 + SumOf([i \in DOMAIN topics |-> WriteString(topics[i].len) + perTopic])

ListChecks(id, topics, room) ==
  <<Test(id = 0, "INVALID_PARAMETER")>> \o TopicChecks(topics)
    \o <<Alloc, Alloc, Test(TooLarge(room), "PKT_TOO_LARGE")>>

PackTopics(type, id, topics, perTopic) ==
  LET room == TopicsRoom(topics, perTopic)
  IN  Call(ListChecks(id, topics, room),
           <<HeadExt(type, 0, room), BodyExt(room, TopicsFilled(topics, perTopic))>>,
           UNION {Truncated(topics[i].len) : i \in DOMAIN topics})

PackSubscribePkt(id, topics) == PackTopics("SUBSCRIBE", id, topics, 1)

PackUnsubscribePkt(id, topics) == PackTopics("UNSUBSCRIBE", id, topics, 0)

(***************************************************************************)
(* Mqtt_AppendSubscribeTopic, Mqtt_AppendUnsubscribeTopic ask for a first  *)
(* byte with the flags 2; the packing functions write 0, so that what      *)
(* follows this check in the code is never reached.                        *)
(***************************************************************************)
AppendTopic(type, topic) ==
  /\ ~ (list # <<>> /\ list[1].type = type /\ list[1].flags = 2 /\ topic # Null)
  /\ Returns("INVALID_PARAMETER")

AppendSubscribeTopic(topic) == AppendTopic("SUBSCRIBE", topic)

AppendUnsubscribeTopic(topic) == AppendTopic("UNSUBSCRIBE", topic)

-----------------------------------------------------------------------------
(***************************************************************************)
(* Mqtt_PackCmdRetPkt: the topic "$crsp/..." is put together in an extent  *)
(* that is not linked; QoS 2 becomes QoS 0.                                *)
(***************************************************************************)
PackCmdRetPkt(id, cmdid, size, qos, mem) ==
  \/ Returns("OUTOFMEMORY")
  \/ PackPublishPkt(id, [cmdid EXCEPT !.len = 6 + @], size,
                    IF qos = 1 THEN 1 ELSE 0, mem)

(* Mqtt_PackDataPointStart, with the topic "$dp" or "$crsp/". *)
PackDataPointStart(id, qos, dp) ==
  \/ list # <<>> /\ Returns("INVALID_PARAMETER")
  \/ list = <<>> /\ PackPublishPkt(id, Plain(IF dp THEN 3 ELSE 6), 0, qos, "own")

(***************************************************************************)
(* The JSON data points ask Mqtt_GetDataPointPktInfo for an extent with    *)
(* the tag of a struct DataPointPktInfo.  Only a part of                   *)
(* Mqtt_PackDataPointStart that is commented out writes one, so all of     *)
(* them refuse, and what follows this check is never reached.  Some check  *)
(* a text before: Mqtt_AppendDPString and Mqtt_AppendDPSubvalueString the  *)
(* value, the functions that start an object its name.  They find no       *)
(* illegal character: Mqtt_HasIllegalCharacter is a stub that returns 0.   *)
(***************************************************************************)
NoInfo == Returns("INVALID_PARAMETER")

TextRefused(text) == text.kind = "not utf8" /\ Returns("NOT_UTF8")

(* Mqtt_AppendDPNull, _AppendDPInt, _AppendDPDouble; _AppendDPString. *)
AppendDP == NoInfo

AppendDPString(value) == TextRefused(value) \/ (value.kind # "not utf8" /\ AppendDP)

(* Mqtt_AppendDPSubvalueInt, _SubvalueDouble; _SubvalueString. *)
AppendDPSubvalue == NoInfo

AppendDPSubvalueString(value) ==
  TextRefused(value) \/ (value.kind # "not utf8" /\ AppendDPSubvalue)

(* Mqtt_AppendDPStartObject, _StartSubobject; _FinishObject,               *)
(* _FinishSubobject; Mqtt_PackDataPointFinish.                             *)
AppendDPStartSubobject(name) == TextRefused(name) \/ (name.kind # "not utf8" /\ NoInfo)

AppendDPFinishSubobject == NoInfo

PackDataPointFinish == NoInfo

(* The forms of data: with a length of two bytes or without (float), with  *)
(* six bytes of time or without.                                           *)
Forms == {"json", "string", "float", "other"}

FormBytes(form, timed) ==
  1 + (IF form = "float" THEN 0 ELSE 2) + (IF timed THEN 6 ELSE 0)

(***************************************************************************)
(* Mqtt_PackDataPointByString.  A time that is given (ts > 0) is not used: *)
(* gmtime() then sees an uninitialized value.  The payload is put together *)
(* in a block that is freed before the return, also when it is referenced. *)
(***************************************************************************)
Referenced(own) == IF own THEN "own" ELSE "gone"

PackDataPointByString(id, form, timed, ts, size, qos, own) ==
  \/ /\ form = "other" \/ (form = "json" /\ timed)
     /\ Returns("INVALID_PARAMETER")
  \/ /\ form # "other" /\ ~ (form = "json" /\ timed)
     /\ \/ Returns("OUTOFMEMORY")
        \/ form # "json" /\ ts > 0 /\ Returns("INTERNAL")
        \/ PackPublishPkt(id, Plain(3), FormBytes(form, timed) + size, qos,
                          Referenced(own))

(* Mqtt_PackDataPointByBinary: cJSON's results are not tested; the payload *)
(* is an array on the stack.                                               *)
PackDataPointByBinary(id, size, qos, own) ==
  \/ Returns("crash")
  \/ PackPublishPkt(id, Plain(3), 1 + 2 + InfoLen + 4 + size, qos, Referenced(own))

-----------------------------------------------------------------------------
(***************************************************************************)
(* Mqtt_AppendLength rewrites the length of the first packet, and its      *)
(* extent's len, but not buffered_bytes.                                   *)
(***************************************************************************)
Lengthened(len) ==
  LET d == DumpLength(len)
  IN  [list EXCEPT ![1].digits = d,
                   ![1].len = IF TooLarge(len) THEN 0 ELSE Len(d) + 1,
                   ![1].filled = Len(d) + 1]

Rewritten(len) == IF Lengthened(len)[1].len = list[1].len THEN {} ELSE {"rewritten"}

Misdirected == IF pkts = 1 THEN {} ELSE {"misdirected"}

(* Mqtt_AppendPayload, on a buffer that begins with a PUBLISH; its string  *)
(* with a time has no length.                                              *)
AppendBytes(form, timed, size) ==
  size + (IF form = "json" THEN 3 ELSE IF timed THEN 7 ELSE 1)

(* Mutant: the extent is linked before Mqtt_AppendLength is called, in the *)
(* order of Mqtt_PackDataPointFinish.                                      *)
AppendedFirst(n) ==
  LET len == ReadLength(list[1].digits) + n
  IN  /\ list' = Append(Lengthened(len), Linked(BodyExt(n, n), pkts))
      /\ buffered' = buffered + n
      /\ ret' = IF TooLarge(len) THEN "PKT_TOO_LARGE" ELSE "NOERROR"
      /\ faults' = faults \cup Rewritten(len) \cup Misdirected
      /\ UNCHANGED pkts

Appended(n) ==
  LET len == ReadLength(list[1].digits) + n
  IN  \/ /\ TooLarge(len)
         /\ list' = Lengthened(len)
         /\ ret' = "PKT_TOO_LARGE"
         /\ faults' = faults \cup {"rewritten"}
         /\ UNCHANGED <<buffered, pkts>>
      \/ /\ ~TooLarge(len)
         /\ list' = Append(Lengthened(len), Linked(BodyExt(n, n), pkts))
         /\ buffered' = buffered + n
         /\ ret' = "NOERROR"
         /\ faults' = faults \cup Rewritten(len) \cup Misdirected
         /\ UNCHANGED pkts

AppendPayload(form, timed, size) ==
  /\ list # <<>>
  /\ list[1].type = "PUBLISH"
  /\ Len(list) < MaxExts
  /\ form = "string" => timed
  /\ \/ form = "other" /\ Returns("INVALID_PARAMETER")
     \/ form # "other" /\ Returns("OUTOFMEMORY")
     \/ form \in {"string", "float"} /\ timed /\ Returns("INTERNAL")
     \/ form # "other" /\ ~Readable(list[1].digits) /\ Returns("INVALID_PARAMETER")
     \/ /\ form # "other"
        /\ Readable(list[1].digits)
        /\ Appended(AppendBytes(form, timed, size))

(* MqttBuffer_Reset. *)
Reset ==
  /\ list' = <<>>
  /\ buffered' = 0
  /\ pkts' = 0
  /\ ret' = "NOERROR"
  /\ faults' = {}

-----------------------------------------------------------------------------
Init ==
  /\ list = <<>>
  /\ buffered = 0
  /\ pkts = 0
  /\ ret = "NOERROR"
  /\ faults = {}

PktIds == {0, 1}
Qos == 0..3    \* 3: no enum MqttQosLevel

(* Texts of which only the UTF-8 is checked; names (those of CONNECT and   *)
(* of commands) are shorter than 64 KB, as are the message of a will and   *)
(* a password, whose lengths are given as uint16_t.                        *)
Checked == {t \in Text : t.kind # "wild"} \cup {Null}
ShortChecked == {t \in Checked : t.len < Word}
Names == {t \in Text : t.len < Word}
Ids == {t \in Names : t.kind # "not utf8"}
Parts == {Null} \cup {Plain(n) : n \in {size \in DataSizes : size < Word}}
Memory == {IF own THEN "own" ELSE "caller" : own \in Owns}

Pack ==
  \/ \E id \in Ids, topic, user \in ShortChecked, msg, password \in Parts,
        qos \in Qos, retain \in BOOLEAN :
       PackConnectPkt(id, topic, msg, qos, retain, user, password)
  \/ \E id \in PktIds, topic \in Text, size \in Sizes, qos \in Qos, mem \in Memory :
       PackPublishPkt(id, topic, size, qos, mem)
  \/ \E id \in PktIds, type \in {"PUBACK", "PUBREC", "PUBCOMP"} : PackAckPkt(type, id)
  \/ \E id \in PktIds : PackPubRelPkt(id)
  \/ \E type \in {"PINGREQ", "DISCONNECT"} : PackEmptyPkt(type)
  \/ \E id \in PktIds, topics \in UNION {[1..n -> Checked] : n \in 0..2} :
       PackSubscribePkt(id, topics) \/ PackUnsubscribePkt(id, topics)
  \/ \E id \in PktIds, cmdid \in Names, size \in DataSizes, qos \in Qos, mem \in Memory :
       PackCmdRetPkt(id, cmdid, size, qos, mem)
  \/ \E id \in PktIds, qos \in Qos, dp \in BOOLEAN : PackDataPointStart(id, qos, dp)
  \/ \E id \in PktIds, form \in Forms, timed \in BOOLEAN, ts \in {0, 1},
        size \in DataSizes, qos \in Qos, own \in Owns :
       PackDataPointByString(id, form, timed, ts, size, qos, own)
  \/ \E id \in PktIds, size \in DataSizes, qos \in Qos, own \in Owns :
       PackDataPointByBinary(id, size, qos, own)

Extend ==
  \/ SetPktDup
  \/ \E topic \in Text \cup {Null} :
       AppendSubscribeTopic(topic) \/ AppendUnsubscribeTopic(topic)
  \/ AppendDP \/ AppendDPSubvalue \/ AppendDPFinishSubobject \/ PackDataPointFinish
  \/ \E text \in Text : \/ AppendDPString(text)
                        \/ AppendDPSubvalueString(text)
                        \/ AppendDPStartSubobject(text)
  \/ \E form \in Forms, timed \in BOOLEAN, size \in Sizes :
       AppendPayload(form, timed, size)

Next == Up /\ ((pkts < MaxPkts /\ Len(list) < MaxExts /\ Pack) \/ Extend \/ Reset)

Spec == Init /\ [][Next]_vars

-----------------------------------------------------------------------------
Extent ==
  [type : {"CONNECT", "PUBLISH", "PUBACK", "PUBREC", "PUBREL", "PUBCOMP", "SUBSCRIBE",
           "UNSUBSCRIBE", "PINGREQ", "DISCONNECT", "body"},
   flags : 0..15, digits : Seq(0..255), len : Nat, room : Nat, filled : Nat,
   mem : {"own", "caller", "gone"}, pkt : Nat]

TypeOK ==
  /\ list \in Seq(Extent)
  /\ buffered \in Nat
  /\ pkts \in 0..MaxPkts
  /\ ret \in Errors \cup {"NOERROR", "crash"}
  /\ faults \subseteq {"truncated", "unappended", "rewritten", "misdirected"}

(* Its first extent, and how many bytes its extents have. *)
IsHead(i, p) == list[i].pkt = p /\ \A j \in 1..(i - 1) : list[j].pkt # p

PktLen(p) == SumOf([i \in DOMAIN list |-> IF list[i].pkt = p THEN list[i].len ELSE 0])

(***************************************************************************)
(* mqtt.c:136-173, 955-1000, 1215-1234, 1381-1390: the length in the fixed *)
(* header of every packet is the number of bytes that follow it, so that   *)
(* the receiver finds the next packet; also after Mqtt_AppendLength has    *)
(* read it back and written it anew.  Not after a payload could not be     *)
(* appended, nor when Mqtt_AppendLength took the first packet for the last.*)
(***************************************************************************)
LengthsRight ==
  \A p \in 1..pkts : \E i \in DOMAIN list :
    /\ IsHead(i, p)
    /\ \/ faults \cap {"unappended", "misdirected"} # {}
       \/ p = 1 /\ list[i].len = 0
       \/ PktLen(p) = 1 + Len(list[i].digits) + ReadLength(list[i].digits)

(***************************************************************************)
(* mqtt.c:946-1026, 1236-1249, 1381-1404, 1484-1503: what is sent of an    *)
(* extent has been written, and nothing was written behind its room: the   *)
(* lengths counted are those of the strings written afterwards.            *)
(***************************************************************************)
FullyWritten ==
  \A i \in DOMAIN list :
    /\ list[i].filled <= list[i].room
    /\ "truncated" \notin faults => list[i].len <= list[i].filled

(***************************************************************************)
(* mqtt_buffer.c:129, mqtt.c:154-173: buffered_bytes, which tells callers  *)
(* when all is sent, is the length of all packets, until Mqtt_AppendLength *)
(* changes the length of a fixed header.                                   *)
(***************************************************************************)
BufferedRight == "rewritten" \notin faults => buffered = Total(list)

(***************************************************************************)
(* A packing function that returns an error leaves the packets that wait   *)
(* in the buffer as they are.  Only Mqtt_AppendLength, when the packet     *)
(* becomes too large, has by then destroyed the first fixed header.        *)
(***************************************************************************)
RefusedUntouched ==
  [][ret' \in Errors =>
       /\ UNCHANGED <<buffered, pkts>>
       /\ \/ UNCHANGED list
          \/ ret' = "PKT_TOO_LARGE" /\ Tail(list') = Tail(list) /\ list'[1].len = 0]_vars

(***************************************************************************)
(* mqtt.h:354, 374: with own = 0 the data must stay valid until the buffer *)
(* is reset; callers do their part, so every referenced extent is valid.   *)
(***************************************************************************)
ReferencesLive == \A i \in DOMAIN list : list[i].mem # "gone"
=============================================================================
