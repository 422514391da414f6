------------------------- MODULE MqttSessionProofs --------------------------
(***************************************************************************)
(* MqttSession implements MqttDelivery, for every set of messages, every   *)
(* numbering of them and any number of connections.                        *)
(***************************************************************************)
EXTENDS MqttSession, TLAPS, SequenceTheorems

-----------------------------------------------------------------------------
(* What the two wires and the receive buffer may carry. *)
FromServer ==
  [type : {"CONNACK", "PUBACK", "PUBREC", "PUBREL", "PUBCOMP"}, id : Nat]
    \cup [type : {"PUBLISH", "BAD"}, id : Nat, msg : Msgs, qos : 0 .. 2]

FromClient ==
  [type : {"CONNECT", "TORN", "PUBACK", "PUBREC", "PUBREL", "PUBCOMP"}, id : Nat]
    \cup [type : {"PUBLISH"}, id : Nat, msg : Own, qos : 0 .. 2]

Typed ==
  /\ caller \in {"sample", "app"}
  /\ pc \in {"epoll", "first", "recv", "parse", "exit"}
  /\ toClient \in Seq(FromServer)
  /\ toServer \in Seq(FromClient)
  /\ buf \in Seq(FromServer)
  /\ cursor \in Nat
  /\ down \in [Msgs -> {"new", "sent", "received", "done", "dropped"}]
  /\ heard \in [Msgs -> Nat]
  /\ got \in [Own -> Nat]
  /\ held \subseteq Own
  /\ pktId \in 0 .. Len(OwnQos)
  /\ faults \subseteq {"retried", "renumbered"}

(* The messages published in a sequence of packets, each of them once. *)
Published(s) == { p.msg : p \in { q \in Range(s) : q.type = "PUBLISH" } }

Once(s) == \A i, j \in DOMAIN s :
  s[i].type = "PUBLISH" /\ s[j].type = "PUBLISH" /\ s[i].msg = s[j].msg => i = j

(* The client's publishes: the server has not seen one that is still on its
   way, and answers none that it has not seen. *)
Arrived(o) == o \in Own /\ OwnQos[o] > 0 /\ got[o] > 0

Upward ==
  /\ Once(toServer)
  /\ \A p \in Range(toServer) : p.type = "PUBLISH" =>
       p.id = p.msg /\ p.qos = OwnQos[p.msg] /\ p.msg <= pktId /\ got[p.msg] = 0
  /\ \A o \in Own : o > pktId => got[o] = 0
  /\ \A o \in held : got[o] > 0
  /\ \A p \in Range(toServer) : p.type = "PUBREL" => Arrived(p.id)
  /\ \A p \in Range(toClient) \cup Range(buf) :
       p.type \in {"PUBACK", "PUBREC", "PUBCOMP"} => Arrived(p.id)

(* The server's publishes: none is twice on the wire or in the buffer, and
   one that waits there has not been heard ... *)
Downward ==
  /\ Once(toClient)
  /\ Once(buf)
  /\ Published(buf) \cap Published(toClient) = {}
  /\ \A m \in Msgs : down[m] = "new" => heard[m] = 0
  /\ \A m \in Msgs : down[m] = "received" => MsgQos[m] > 0
  /\ \A p \in Range(toClient) :
       /\ p.type # "BAD"
       /\ p.type = "PUBLISH" => /\ p.id = MsgId[p.msg] /\ p.qos = MsgQos[p.msg]
                                /\ down[p.msg] # "new" /\ heard[p.msg] = 0
  /\ \A p \in Range(buf) : p.type = "PUBLISH" =>
       /\ p.qos = MsgQos[p.msg] /\ down[p.msg] # "new"
       /\ p.qos = 0 => heard[p.msg] = 0

(* ... unless the caller goes on after an error.  Until then what is read
   is dispatched once, and the buffer is empty when something is read. *)
Undamaged ==
  "retried" \notin faults =>
    /\ pc \in {"epoll", "first", "recv"} => buf = <<>>
    /\ pc = "parse" => \A i \in DOMAIN buf : i > cursor =>
         /\ buf[i].type # "BAD"
         /\ buf[i].type = "PUBLISH" => buf[i].id = MsgId[buf[i].msg] /\ heard[buf[i].msg] = 0

(* What the client acknowledges it has heard, unless it has answered with
   another number. *)
Acknowledged ==
  "renumbered" \notin faults =>
    /\ \A p \in Range(toServer) : p.type \in {"PUBACK", "PUBREC"} =>
         \A m \in Msgs : MsgId[m] = p.id => heard[m] > 0
    /\ \A m \in Msgs : down[m] = "received" => heard[m] > 0

Sound == Typed /\ Upward /\ Downward /\ Undamaged /\ Acknowledged

-----------------------------------------------------------------------------
(* The packets of sequences that are taken apart, put together, changed. *)
LEMMA RangeConcat ==
  ASSUME NEW S, NEW s \in Seq(S), NEW t \in Seq(S)
  PROVE  Range(s \o t) = Range(s) \cup Range(t)
<1>1. s \o t \in Seq(S) /\ Len(s \o t) = Len(s) + Len(t)
  BY ConcatProperties
<1>2. \A i \in 1 .. Len(s) + Len(t) :
        (s \o t)[i] = IF i <= Len(s) THEN s[i] ELSE t[i - Len(s)]
  BY ConcatProperties
<1>3. ASSUME NEW i \in DOMAIN s PROVE s[i] \in Range(s \o t)
  <2>1. i \in DOMAIN (s \o t) /\ (s \o t)[i] = s[i]
    BY <1>1, <1>2, LenProperties
  <2>2. QED BY <2>1 DEF Range
<1>4. ASSUME NEW i \in DOMAIN t PROVE t[i] \in Range(s \o t)
  <2>1. i + Len(s) \in DOMAIN (s \o t) /\ (s \o t)[i + Len(s)] = t[i]
    BY <1>1, <1>2, LenProperties
  <2>2. QED BY <2>1 DEF Range
<1>5. ASSUME NEW i \in DOMAIN (s \o t) PROVE (s \o t)[i] \in Range(s) \cup Range(t)
  <2>1. CASE i <= Len(s)
    BY <2>1, <1>1, <1>2, LenProperties DEF Range
  <2>2. CASE i > Len(s)
    <3>1. i - Len(s) \in DOMAIN t /\ (s \o t)[i] = t[i - Len(s)]
      BY <2>2, <1>1, <1>2, LenProperties
    <3>2. QED BY <3>1 DEF Range
  <2>3. QED BY <2>1, <2>2, <1>1, LenProperties
<1>6. QED BY <1>3, <1>4, <1>5 DEF Range

LEMMA RangeTail ==
  ASSUME NEW S, NEW s \in Seq(S), s # <<>>
  PROVE  /\ Head(s) = s[1] /\ Head(s) \in Range(s)
         /\ Range(Tail(s)) \subseteq Range(s)
<1>1. Tail(s) \in Seq(S) /\ Len(Tail(s)) = Len(s) - 1
      /\ \A i \in 1 .. Len(Tail(s)) : Tail(s)[i] = s[i + 1]
  BY HeadTailProperties
<1>2. Len(s) \in Nat \ {0}
  BY EmptySeq
<1>3. 1 \in DOMAIN s /\ Head(s) = s[1]
  BY <1>2, LenProperties
<1>4. ASSUME NEW i \in DOMAIN Tail(s) PROVE i + 1 \in DOMAIN s /\ Tail(s)[i] = s[i + 1]
  BY <1>1, <1>2, LenProperties
<1>5. QED BY <1>3, <1>4 DEF Range

LEMMA RangeSubSeq ==
  ASSUME NEW S, NEW s \in Seq(S), NEW m \in 1 .. Len(s) + 1, NEW n \in 0 .. Len(s)
  PROVE  /\ SubSeq(s, m, n) \in Seq(S)
         /\ Range(SubSeq(s, m, n)) \subseteq Range(s)
         /\ DOMAIN SubSeq(s, m, n) = 1 .. n - m + 1
         /\ \A i \in DOMAIN SubSeq(s, m, n) :
              m + i - 1 \in DOMAIN s /\ SubSeq(s, m, n)[i] = s[m + i - 1]
<1> DEFINE t == SubSeq(s, m, n)
<1>1. m \in Int /\ n \in Int /\ \A i \in m .. n : s[i] \in S
  BY ElementOfSeq, LenProperties
<1>2. t \in Seq(S) /\ Len(t) = (IF m <= n THEN n - m + 1 ELSE 0)
      /\ \A i \in 1 .. n - m + 1 : t[i] = s[m + i - 1]
  BY <1>1, SubSeqProperties
<1>3. Len(s) \in Nat /\ DOMAIN s = 1 .. Len(s) /\ DOMAIN t = 1 .. Len(t)
  BY <1>2, LenProperties
<1> HIDE DEF t
<1>4. DOMAIN t = 1 .. n - m + 1
  BY <1>2, <1>3
<1>5. \A i \in DOMAIN t : m + i - 1 \in DOMAIN s /\ t[i] = s[m + i - 1]
  BY <1>2, <1>3, <1>4
<1>6. Range(t) \subseteq Range(s)
  BY <1>5 DEF Range
<1>7. QED BY <1>2, <1>4, <1>5, <1>6 DEF t

LEMMA RangeExcept ==
  ASSUME NEW S, NEW s \in Seq(S), NEW k \in DOMAIN s, NEW e \in S
  PROVE  /\ [s EXCEPT ![k] = e] \in Seq(S)
         /\ DOMAIN [s EXCEPT ![k] = e] = DOMAIN s
         /\ \A i \in DOMAIN s : [s EXCEPT ![k] = e][i] = IF i = k THEN e ELSE s[i]
         /\ Range([s EXCEPT ![k] = e]) \subseteq Range(s) \cup {e}
<1>1. [s EXCEPT ![k] = e] \in Seq(S)
  BY ExceptSeq, LenProperties
<1>2. DOMAIN [s EXCEPT ![k] = e] = DOMAIN s
      /\ \A i \in DOMAIN s : [s EXCEPT ![k] = e][i] = IF i = k THEN e ELSE s[i]
  OBVIOUS
<1>3. QED BY <1>1, <1>2 DEF Range

LEMMA RangeOne ==
  ASSUME NEW e
  PROVE  /\ Range(<<e>>) = {e}
         /\ \A S : e \in S => <<e>> \in Seq(S)
         /\ Once(<<e>>)
BY DEF Range, Once

LEMMA RangeNone == Range(<<>>) = {} /\ Published(<<>>) = {} /\ Once(<<>>)
BY DEF Range, Published, Once

LEMMA RangeElement ==
  ASSUME NEW S, NEW s \in Seq(S), NEW p \in Range(s)
  PROVE  p \in S
BY ElementOfSeq, LenProperties DEF Range

-----------------------------------------------------------------------------
(* What is published in them. *)
LEMMA PublishedSubset ==
  ASSUME NEW s, NEW t, Range(s) \subseteq Range(t)
  PROVE  Published(s) \subseteq Published(t)
BY DEF Published

LEMMA PublishedConcat ==
  ASSUME NEW S, NEW s \in Seq(S), NEW t \in Seq(S)
  PROVE  Published(s \o t) = Published(s) \cup Published(t)
BY RangeConcat DEF Published

LEMMA PublishedIs ==
  ASSUME NEW s, NEW m
  PROVE  m \in Published(s) <=> \E i \in DOMAIN s : s[i].type = "PUBLISH" /\ s[i].msg = m
BY DEF Published, Range

LEMMA OnceConcat ==
  ASSUME NEW S, NEW s \in Seq(S), NEW t \in Seq(S),
         Once(s), Once(t), Published(s) \cap Published(t) = {}
  PROVE  Once(s \o t)
<1> DEFINE u == s \o t
<1>1. Len(s) \in Nat /\ Len(t) \in Nat /\ DOMAIN s = 1 .. Len(s) /\ DOMAIN t = 1 .. Len(t)
  BY LenProperties
<1>2. DOMAIN u = 1 .. Len(s) + Len(t)
  BY ConcatProperties, LenProperties
<1>3. \A i \in 1 .. Len(s) + Len(t) : u[i] = IF i <= Len(s) THEN s[i] ELSE t[i - Len(s)]
  BY ConcatProperties
<1> HIDE DEF u
<1>4. SUFFICES ASSUME NEW i \in DOMAIN u, NEW j \in DOMAIN u, u[i].type = "PUBLISH",
                      u[j].type = "PUBLISH", u[i].msg = u[j].msg
               PROVE  i = j
  BY DEF Once, u
<1>5. ASSUME NEW k \in DOMAIN u
      PROVE  \/ k \in DOMAIN s /\ u[k] = s[k]
             \/ k - Len(s) \in DOMAIN t /\ u[k] = t[k - Len(s)]
  BY <1>1, <1>2, <1>3
<1>6. \A k \in DOMAIN s, l \in DOMAIN t :
         s[k].type = "PUBLISH" /\ t[l].type = "PUBLISH" => s[k].msg # t[l].msg
  BY PublishedIs
<1>7. CASE i \in DOMAIN s /\ u[i] = s[i]
  <2>1. j \in DOMAIN s /\ u[j] = s[j]
    BY <1>4, <1>5, <1>6, <1>7
  <2>2. QED BY <1>4, <1>7, <2>1 DEF Once
<1>8. CASE i - Len(s) \in DOMAIN t /\ u[i] = t[i - Len(s)]
  <2>1. j - Len(s) \in DOMAIN t /\ u[j] = t[j - Len(s)]
    BY <1>4, <1>5, <1>6, <1>8
  <2>2. i - Len(s) = j - Len(s)
    BY <1>4, <1>8, <2>1 DEF Once
  <2>3. QED BY <2>2, <1>1, <1>2
<1>9. QED BY <1>5, <1>7, <1>8

LEMMA OnceTail ==
  ASSUME NEW S, NEW s \in Seq(S), s # <<>>, Once(s)
  PROVE  /\ Once(Tail(s))
         /\ Head(s).type = "PUBLISH" => Head(s).msg \notin Published(Tail(s))
<1>1. \A i \in DOMAIN Tail(s) : i \in Nat /\ i > 0 /\ i + 1 \in DOMAIN s /\ Tail(s)[i] = s[i + 1]
  BY HeadTailProperties, LenProperties, EmptySeq
<1>2. 1 \in DOMAIN s /\ Head(s) = s[1]
  BY LenProperties, EmptySeq
<1>3. Once(Tail(s))
  <2>1. SUFFICES ASSUME NEW i \in DOMAIN Tail(s), NEW j \in DOMAIN Tail(s),
                        Tail(s)[i].type = "PUBLISH", Tail(s)[j].type = "PUBLISH",
                        Tail(s)[i].msg = Tail(s)[j].msg
                 PROVE  i = j
    BY DEF Once
  <2>2. i + 1 = j + 1
    BY <1>1, <2>1 DEF Once
  <2>3. QED BY <1>1, <2>2
<1>4. ASSUME Head(s).type = "PUBLISH", NEW i \in DOMAIN Tail(s), Tail(s)[i].type = "PUBLISH",
             Tail(s)[i].msg = Head(s).msg
      PROVE  FALSE
  <2>1. i + 1 = 1
    BY <1>1, <1>2, <1>4 DEF Once
  <2>2. QED BY <1>1, <2>1
<1>5. QED BY <1>3, <1>4, PublishedIs

LEMMA OnceSplit ==
  ASSUME NEW S, NEW s \in Seq(S), Once(s), NEW n \in 1 .. Len(s)
  PROVE  LET t == SubSeq(s, 1, n)
             u == SubSeq(s, n + 1, Len(s))
         IN  Once(t) /\ Once(u) /\ Published(t) \cap Published(u) = {}
<1> DEFINE t == SubSeq(s, 1, n)
           u == SubSeq(s, n + 1, Len(s))
<1>1. Len(s) \in Nat /\ n \in 0 .. Len(s) /\ n + 1 \in 1 .. Len(s) + 1
      /\ 1 \in 1 .. Len(s) + 1 /\ Len(s) \in 0 .. Len(s) 
  BY LenProperties
<1>2. \A i \in DOMAIN t : i \in Nat /\ i <= n /\ i \in DOMAIN s /\ t[i] = s[i]
  BY <1>1, RangeSubSeq
<1>3. \A i \in DOMAIN u : i \in Nat /\ i > 0 /\ n + i \in DOMAIN s /\ u[i] = s[n + i]
  BY <1>1, RangeSubSeq
<1> HIDE DEF t, u
<1>4. Once(t)
  BY <1>2 DEF Once
<1>5. Once(u)
  <2>1. SUFFICES ASSUME NEW i \in DOMAIN u, NEW j \in DOMAIN u, u[i].type = "PUBLISH",
                        u[j].type = "PUBLISH", u[i].msg = u[j].msg
                 PROVE  i = j
    BY DEF Once
  <2>2. n + i = n + j
    BY <1>3, <2>1 DEF Once
  <2>3. QED BY <1>3, <2>2
<1>6. ASSUME NEW i \in DOMAIN t, NEW j \in DOMAIN u, t[i].type = "PUBLISH",
             u[j].type = "PUBLISH", t[i].msg = u[j].msg
      PROVE  FALSE
  <2>1. i = n + j
    BY <1>2, <1>3, <1>6 DEF Once
  <2>2. QED BY <1>2, <1>3, <2>1
<1>7. Published(t) \cap Published(u) = {}
  BY <1>6, PublishedIs
<1>8. QED BY <1>4, <1>5, <1>7 DEF t, u

LEMMA OnceExcept ==
  ASSUME NEW S, NEW s \in Seq(S), NEW k \in DOMAIN s, NEW e \in S, Once(s),
         e.type = "PUBLISH" => s[k].type = "PUBLISH" /\ e.msg = s[k].msg
  PROVE  /\ Once([s EXCEPT ![k] = e])
         /\ Published([s EXCEPT ![k] = e]) \subseteq Published(s)
<1> DEFINE t == [s EXCEPT ![k] = e]
<1>1. DOMAIN t = DOMAIN s /\ \A i \in DOMAIN s : t[i] = IF i = k THEN e ELSE s[i]
  BY RangeExcept
<1> HIDE DEF t
<1>2. \A i \in DOMAIN t : t[i].type = "PUBLISH" => s[i].type = "PUBLISH" /\ t[i].msg = s[i].msg
  BY <1>1
<1>3. Once(t)
  BY <1>1, <1>2 DEF Once
<1>4. Published(t) \subseteq Published(s)
  BY <1>1, <1>2, PublishedIs
<1>5. QED BY <1>3, <1>4 DEF t

-----------------------------------------------------------------------------
(* A packet has the fields of its type. *)
LEMMA FromServerIs ==
  ASSUME NEW p \in FromServer
  PROVE  /\ p.type \in {"CONNACK", "PUBACK", "PUBREC", "PUBREL", "PUBCOMP", "PUBLISH", "BAD"}
         /\ p.id \in Nat
         /\ p.type \in {"PUBLISH", "BAD"} =>
              /\ p.msg \in Msgs /\ p.qos \in 0 .. 2
              /\ p = [type |-> p.type, id |-> p.id, msg |-> p.msg, qos |-> p.qos]
BY DEF FromServer

LEMMA FromClientIs ==
  ASSUME NEW p \in FromClient
  PROVE  /\ p.type \in {"CONNECT", "TORN", "PUBACK", "PUBREC", "PUBREL", "PUBCOMP", "PUBLISH"}
         /\ p.id \in Nat
         /\ p.type = "PUBLISH" => p.msg \in Own /\ p.qos \in 0 .. 2
BY DEF FromClient

LEMMA PktIs ==
  ASSUME NEW t, NEW i \in Nat
  PROVE  /\ Pkt(t, i).type = t /\ Pkt(t, i).id = i
         /\ t \in {"CONNACK", "PUBACK", "PUBREC", "PUBREL", "PUBCOMP"} => Pkt(t, i) \in FromServer
         /\ t \in {"CONNECT", "TORN", "PUBACK", "PUBREC", "PUBREL", "PUBCOMP"} =>
              Pkt(t, i) \in FromClient
BY DEF Pkt, FromServer, FromClient

LEMMA MsgConstants ==
  ASSUME NEW m \in Msgs
  PROVE  MsgId[m] \in Nat \ {0} /\ MsgQos[m] \in 0 .. 2
<1>1. MsgId[m] \in PktIds /\ MsgQos[m] \in 0 .. 2
  BY MqttSessionAssumption
<1>2. \A i \in PktIds : i \in Nat \ {0}
  BY SMTT(30) DEF PktIds
<1>3. QED BY <1>1, <1>2

LEMMA OnTheWay ==
  ASSUME Typed
  PROVE  /\ Range(toClient) \subseteq FromServer
         /\ Range(buf) \subseteq FromServer
         /\ Range(toServer) \subseteq FromClient
<1>1. Range(toClient) \subseteq FromServer
  BY RangeElement, Zenon DEF Typed
<1>2. Range(buf) \subseteq FromServer
  BY RangeElement, Zenon DEF Typed
<1>3. Range(toServer) \subseteq FromClient
  BY RangeElement, Zenon DEF Typed
<1>4. QED BY <1>1, <1>2, <1>3

-----------------------------------------------------------------------------
(* A packet that is sent, in either direction. *)
LEMMA Arrival ==
  ASSUME Typed, NEW p \in FromServer, Arrives(<<p>>)
  PROVE  /\ toClient' \in Seq(FromServer)
         /\ Range(toClient') \subseteq Range(toClient) \cup {p}
         /\ \A m \in Published(toClient') :
              m \in Published(toClient) \/ (p.type = "PUBLISH" /\ m = p.msg)
         /\ Once(toClient) /\ (p.type = "PUBLISH" => p.msg \notin Published(toClient))
              => Once(toClient')
<1>1. <<p>> \in Seq(FromServer) /\ Range(<<p>>) = {p} /\ Once(<<p>>) /\ toClient \in Seq(FromServer)
  BY RangeOne DEF Typed
<1>2. \A m \in Published(<<p>>) : p.type = "PUBLISH" /\ m = p.msg
  BY <1>1 DEF Published
<1> DEFINE one == <<p>>
           all == toClient \o one
<1> HIDE DEF one
<1>3. all \in Seq(FromServer)
  BY <1>1, ConcatProperties DEF one
<1>4. Range(all) = Range(toClient) \cup {p}
  <2>1. Range(all) = Range(toClient) \cup Range(one)
    BY <1>1, RangeConcat, Zenon DEF one
  <2>2. QED BY <1>1, <2>1 DEF one
<1>5. Published(all) = Published(toClient) \cup Published(one)
  BY <1>1, PublishedConcat, ZenonT(60) DEF one
<1>6. Once(toClient) /\ (p.type = "PUBLISH" => p.msg \notin Published(toClient)) => Once(all)
  <2>1. SUFFICES ASSUME Once(toClient), p.type = "PUBLISH" => p.msg \notin Published(toClient)
                 PROVE  Once(all)
    OBVIOUS
  <2>2. Published(toClient) \cap Published(one) = {}
    BY <1>2, <2>1 DEF one
  <2>3. QED BY <1>1, <2>1, <2>2, OnceConcat, Zenon DEF one
<1>7. toClient' = IF open THEN all ELSE toClient
  BY DEF one, Arrives
<1> HIDE DEF all
<1>8. QED BY <1>1, <1>2, <1>3, <1>4, <1>5, <1>6, <1>7 DEF one

LEMMA NoArrival ==
  ASSUME Typed, Arrives(<<>>)
  PROVE  toClient' = toClient
BY ConcatEmptySeq DEF Arrives, Typed

LEMMA Sending ==
  ASSUME Typed, NEW p \in FromClient, Sends(<<p>>)
  PROVE  /\ toServer' \in Seq(FromClient)
         /\ Range(toServer') \subseteq Range(toServer) \cup {p}
         /\ Once(toServer) /\ (p.type = "PUBLISH" => p.msg \notin Published(toServer))
              => Once(toServer')
<1>1. <<p>> \in Seq(FromClient) /\ Range(<<p>>) = {p} /\ Once(<<p>>) /\ toServer \in Seq(FromClient)
  BY RangeOne DEF Typed
<1>2. \A m \in Published(<<p>>) : p.type = "PUBLISH" /\ m = p.msg
  BY <1>1 DEF Published
<1> DEFINE one == <<p>>
           all == toServer \o one
<1> HIDE DEF one
<1>3. all \in Seq(FromClient)
  BY <1>1, ConcatProperties DEF one
<1>4. Range(all) = Range(toServer) \cup {p}
  <2>1. Range(all) = Range(toServer) \cup Range(one)
    BY <1>1, RangeConcat, Zenon DEF one
  <2>2. QED BY <1>1, <2>1 DEF one
<1>5. Once(toServer) /\ (p.type = "PUBLISH" => p.msg \notin Published(toServer)) => Once(all)
  <2>1. SUFFICES ASSUME Once(toServer), p.type = "PUBLISH" => p.msg \notin Published(toServer)
                 PROVE  Once(all)
    OBVIOUS
  <2>2. Published(toServer) \cap Published(one) = {}
    BY <1>2, <2>1 DEF one
  <2>3. QED BY <1>1, <2>1, <2>2, OnceConcat, Zenon DEF one
<1>6. toServer' = IF peer THEN all ELSE toServer
  BY DEF one, Sends
<1> HIDE DEF all
<1>7. QED BY <1>1, <1>2, <1>3, <1>4, <1>5, <1>6 DEF one

LEMMA NoSending ==
  ASSUME Typed, Sends(<<>>)
  PROVE  toServer' = toServer
BY ConcatEmptySeq DEF Sends, Typed

-----------------------------------------------------------------------------
(* The server's actions keep the invariant. *)
LEMMA ServeSound ==
  ASSUME Sound, NEW m \in Msgs, Serve(m)
  PROVE  Sound'
<1> DEFINE p == Publish(m, MsgId[m], MsgQos[m])
<1> USE DEF Sound
<1>1. /\ down[m] = "new"
      /\ down' = [down EXCEPT ![m] = "sent"]
      /\ Arrives(<<p>>)
      /\ UNCHANGED <<caller, open, pc, toServer, buf, cursor, heard, got, held, pktId, faults>>
  BY DEF Serve, link, ids, recv, app
<1>0. p \in FromServer /\ p.type = "PUBLISH" /\ p.msg = m /\ p.id = MsgId[m] /\ p.qos = MsgQos[m]
  <2>1. MsgId[m] \in Nat /\ MsgQos[m] \in 0 .. 2
    BY MsgConstants
  <2>2. QED BY <2>1 DEF FromServer, Publish
<1> HIDE DEF p
<1>2. m \notin Published(toClient) /\ m \notin Published(buf)
  BY <1>1 DEF Downward, Published
<1>3. /\ toClient' \in Seq(FromServer)
      /\ Range(toClient') \subseteq Range(toClient) \cup {p}
      /\ Published(toClient') \subseteq Published(toClient) \cup {m}
      /\ Once(toClient')
  BY <1>0, <1>1, <1>2, Arrival DEF Downward
<1>4. Typed'
  BY <1>0, <1>1, <1>3 DEF Typed
<1>5. Upward'
  BY <1>0, <1>1, <1>3 DEF Upward, Arrived
<1>6. Downward'
  <2>1. Once(toClient') /\ Once(buf') /\ Published(buf') \cap Published(toClient') = {}
    BY <1>0, <1>1, <1>2, <1>3 DEF Downward
  <2>2. heard'[m] = 0 /\ \A n \in Msgs : down'[n] = IF n = m THEN "sent" ELSE down[n]
    BY <1>1 DEF Downward, Typed
  <2>3. \A n \in Msgs : down'[n] = "new" => heard'[n] = 0
    BY <1>0, <1>1, <2>2 DEF Downward
  <2>4. \A q \in Range(buf) : q.type = "PUBLISH" => q.msg \in Msgs
    BY OnTheWay, FromServerIs
  <2>5. \A q \in Range(toClient) : q.type = "PUBLISH" => q.msg \in Msgs
    BY OnTheWay, FromServerIs
  <2>6. \A q \in Range(toClient') :
       /\ q.type # "BAD"
       /\ q.type = "PUBLISH" => /\ q.id = MsgId[q.msg] /\ q.qos = MsgQos[q.msg]
                                /\ down'[q.msg] # "new" /\ heard'[q.msg] = 0
    BY <1>0, <1>1, <1>3, <2>2, <2>5 DEF Downward
  <2>7. \A q \in Range(buf') : q.type = "PUBLISH" =>
       /\ q.qos = MsgQos[q.msg] /\ down'[q.msg] # "new"
       /\ q.qos = 0 => heard'[q.msg] = 0
    BY <1>0, <1>1, <2>2, <2>4 DEF Downward
  <2>8. \A n \in Msgs : down'[n] = "received" => MsgQos[n] > 0
    BY <2>2 DEF Downward
  <2>9. QED BY <2>1, <2>3, <2>6, <2>7, <2>8 DEF Downward
<1>7. Undamaged'
  BY <1>1 DEF Undamaged
<1>8. Acknowledged'
  BY <1>1 DEF Acknowledged, Typed
<1>9. QED BY <1>4, <1>5, <1>6, <1>7, <1>8

LEMMA ServerClosesSound ==
  ASSUME Sound, ServerCloses
  PROVE  Sound'
<1> USE DEF Sound
<1>1. /\ toServer' = <<>>
      /\ UNCHANGED <<caller, open, pc, toClient, buf, cursor, down, heard, got, held, pktId, faults>>
  BY DEF ServerCloses, ids, recv, app
<1>2. <<>> \in Seq(FromClient)
  BY EmptySeq
<1>3. Typed'
  BY <1>1, <1>2 DEF Typed
<1>4. Upward'
  BY <1>1, RangeNone DEF Upward, Arrived
<1>5. Downward'
  BY <1>1 DEF Downward
<1>6. Undamaged'
  BY <1>1 DEF Undamaged
<1>7. Acknowledged'
  BY <1>1, RangeNone DEF Acknowledged
<1>8. QED BY <1>3, <1>4, <1>5, <1>6, <1>7

(* What the server does with a packet. *)
Answers == {"CONNACK", "PUBACK", "PUBREC", "PUBREL", "PUBCOMP"}

LEMMA AnswerArrives ==
  ASSUME Typed, Once(toClient), NEW t \in Answers, NEW i \in Nat, Arrives(<<Pkt(t, i)>>)
  PROVE  /\ toClient' \in Seq(FromServer)
         /\ Once(toClient')
         /\ Published(toClient') \subseteq Published(toClient)
         /\ \A p \in Range(toClient') : p \in Range(toClient) \/ (p.type = t /\ p.id = i)
<1> DEFINE p == Pkt(t, i)
<1>1. p \in FromServer /\ p.type = t /\ p.id = i /\ p.type # "PUBLISH"
  BY PktIs DEF Answers
<1> HIDE DEF p
<1>2. Arrives(<<p>>)
  BY DEF p
<1>3. QED BY <1>1, <1>2, Arrival

LEMMA ServerTakesEffect ==
  ASSUME Sound, NEW p \in Range(toServer), ServerTakes(p)
  PROVE  /\ toClient' \in Seq(FromServer)
         /\ Once(toClient')
         /\ Published(toClient') \subseteq Published(toClient)
         /\ \A q \in Range(toClient') :
              \/ q \in Range(toClient)
              \/ /\ q.type \in Answers
                 /\ q.type \in {"PUBACK", "PUBREC", "PUBCOMP"} => q.id \in Own /\ OwnQos[q.id] > 0 /\ got'[q.id] > 0
         /\ got' \in [Own -> Nat]
         /\ \A o \in Own : \/ got'[o] = got[o]
                           \/ p.type = "PUBLISH" /\ o = p.msg /\ got'[o] = got[o] + 1
         /\ held' \subseteq Own /\ \A o \in held' : got'[o] > 0
         /\ down' \in [Msgs -> {"new", "sent", "received", "done", "dropped"}]
         /\ \A m \in Msgs : /\ down'[m] = "new" <=> down[m] = "new"
                            /\ down'[m] = "received" =>
                                 \/ down[m] = "received"
                                 \/ p.type = "PUBREC" /\ MsgId[m] = p.id /\ MsgQos[m] > 0
<1> USE DEF Sound
<1>1. /\ p \in FromClient /\ p.id \in Nat
      /\ p.type = "PUBLISH" => /\ p.msg \in Own /\ p.id = p.msg /\ p.qos = OwnQos[p.msg]
                               /\ p.qos \in 0 .. 2 /\ got[p.msg] = 0
      /\ p.type = "PUBREL" => Arrived(p.id)
  BY OnTheWay, FromClientIs DEF Upward
<1>2. /\ toClient \in Seq(FromServer) /\ Once(toClient)
      /\ got \in [Own -> Nat] /\ held \subseteq Own /\ \A o \in held : got[o] > 0
      /\ down \in [Msgs -> {"new", "sent", "received", "done", "dropped"}]
  BY DEF Typed, Upward, Downward
<1>3. CASE /\ p.type = "CONNECT"
           /\ Arrives(<<Pkt("CONNACK", 0)>>)
           /\ UNCHANGED <<down, held, got>>
  BY <1>2, <1>3, AnswerArrives DEF Answers
<1>4. CASE /\ p.type = "PUBLISH" /\ p.qos < 2
           /\ got' = [got EXCEPT ![p.msg] = @ + 1]
           /\ Arrives(IF p.qos = 1 THEN <<Pkt("PUBACK", p.id)>> ELSE <<>>)
           /\ UNCHANGED <<down, held>>
  <2>1. got'[p.msg] = 1
    BY <1>1, <1>2, <1>4
  <2>2. CASE p.qos = 1
    <3>1. Arrives(<<Pkt("PUBACK", p.id)>>)
      BY <1>4, <2>2
    <3>2. QED BY <1>1, <1>2, <1>4, <2>1, <2>2, <3>1, AnswerArrives DEF Answers
  <2>3. CASE p.qos # 1
    <3>1. toClient' = toClient
      BY <1>4, <2>3, NoArrival
    <3>2. QED BY <1>1, <1>2, <1>4, <2>1, <3>1
  <2>4. QED BY <2>2, <2>3
<1>5. CASE /\ p.type = "PUBLISH" /\ p.qos = 2
           /\ got' = [got EXCEPT ![p.msg] = IF p.id \in held THEN @ ELSE @ + 1]
           /\ held' = held \cup {p.id}
           /\ Arrives(<<Pkt("PUBREC", p.id)>>)
           /\ UNCHANGED down
  <2>1. p.id \notin held
    BY <1>1, <1>2, <1>5
  <2>2. got' = [got EXCEPT ![p.msg] = @ + 1] /\ got'[p.msg] = 1
    BY <1>1, <1>2, <1>5, <2>1
  <2>3. held' \subseteq Own /\ \A o \in held' : got'[o] > 0
    BY <1>1, <1>2, <1>5, <2>2
  <2>4. QED BY <1>1, <1>2, <1>5, <2>2, <2>3, AnswerArrives DEF Answers
<1>6. CASE /\ p.type = "PUBREL"
           /\ held' = held \ {p.id}
           /\ Arrives(<<Pkt("PUBCOMP", p.id)>>)
           /\ UNCHANGED <<down, got>>
  BY <1>1, <1>2, <1>6, AnswerArrives DEF Answers, Arrived
<1>7. CASE /\ p.type = "PUBACK"
           /\ Move({ m \in InFlight(p.id, "sent") : MsgQos[m] = 1 }, "done")
           /\ UNCHANGED <<held, got, toClient>>
  BY <1>1, <1>2, <1>7 DEF Move, InFlight
<1>8. CASE /\ p.type = "PUBREC"
           /\ LET ms == { m \in InFlight(p.id, "sent") : MsgQos[m] = 2 }
              IN  /\ Move(ms, "received")
                  /\ Arrives(IF ms # {} THEN <<Pkt("PUBREL", p.id)>> ELSE <<>>)
           /\ UNCHANGED <<held, got>>
  <2>1. /\ down' \in [Msgs -> {"new", "sent", "received", "done", "dropped"}]
        /\ \A m \in Msgs : /\ down'[m] = "new" <=> down[m] = "new"
                           /\ down'[m] = "received" =>
                                down[m] = "received" \/ (MsgId[m] = p.id /\ MsgQos[m] > 0)
    BY <1>2, <1>8 DEF Move, InFlight
  <2>2. CASE Arrives(<<Pkt("PUBREL", p.id)>>)
    BY <1>1, <1>2, <1>8, <2>1, <2>2, AnswerArrives DEF Answers
  <2>3. CASE Arrives(<<>>)
    <3>1. toClient' = toClient
      BY <2>3, NoArrival
    <3>2. QED BY <1>2, <1>8, <2>1, <3>1
  <2>4. QED BY <1>8, <2>2, <2>3
<1>9. CASE /\ p.type = "PUBCOMP"
           /\ Move(InFlight(p.id, "received"), "done")
           /\ UNCHANGED <<held, got, toClient>>
  BY <1>1, <1>2, <1>9 DEF Move, InFlight
<1>10. QED BY <1>3, <1>4, <1>5, <1>6, <1>7, <1>8, <1>9 DEF ServerTakes

LEMMA ServerReadsSound ==
  ASSUME Sound, ServerReads
  PROVE  Sound'
<1> DEFINE p == Head(toServer)
<1> USE DEF Sound
<1>1. /\ toServer # <<>> /\ ServerTakes(p) /\ toServer' = Tail(toServer)
      /\ UNCHANGED <<caller, open, pc, buf, cursor, heard, pktId, faults>>
  BY DEF ServerReads, link, ids, recv, app
<1>2. /\ p \in Range(toServer)
      /\ toServer' \in Seq(FromClient)
      /\ Range(toServer') \subseteq Range(toServer)
      /\ Once(toServer')
      /\ p.type = "PUBLISH" => p.msg \notin Published(toServer')
  BY <1>1, RangeTail, OnceTail, HeadTailProperties DEF Typed, Upward
<1> HIDE DEF p
<1>3. /\ toClient' \in Seq(FromServer)
      /\ Once(toClient')
      /\ Published(toClient') \subseteq Published(toClient)
      /\ \A q \in Range(toClient') :
           \/ q \in Range(toClient)
           \/ /\ q.type \in Answers
              /\ q.type \in {"PUBACK", "PUBREC", "PUBCOMP"} => q.id \in Own /\ OwnQos[q.id] > 0 /\ got'[q.id] > 0
  BY <1>1, <1>2, ServerTakesEffect
<1>4. /\ got' \in [Own -> Nat]
      /\ \A o \in Own : \/ got'[o] = got[o]
                        \/ p.type = "PUBLISH" /\ o = p.msg /\ got'[o] = got[o] + 1
      /\ held' \subseteq Own /\ \A o \in held' : got'[o] > 0
  BY <1>1, <1>2, ServerTakesEffect
<1>5. /\ down' \in [Msgs -> {"new", "sent", "received", "done", "dropped"}]
      /\ \A m \in Msgs : /\ down'[m] = "new" <=> down[m] = "new"
                         /\ down'[m] = "received" =>
                              \/ down[m] = "received"
                              \/ p.type = "PUBREC" /\ MsgId[m] = p.id /\ MsgQos[m] > 0
  BY <1>1, <1>2, ServerTakesEffect
<1>6. Typed'
  BY <1>1, <1>2, <1>3, <1>4, <1>5 DEF Typed
<1>7. Upward'
  <2>1. \A o \in Own : got[o] > 0 => got'[o] > 0
    BY <1>4 DEF Typed
  <2>2. \A q \in Range(toServer') : q.type = "PUBLISH" =>
          q.msg \in Own /\ ~(p.type = "PUBLISH" /\ q.msg = p.msg)
    BY <1>2, OnTheWay, FromClientIs DEF Published
  <2>3. \A q \in Range(toServer') : q.type = "PUBLISH" =>
          q.id = q.msg /\ q.qos = OwnQos[q.msg] /\ q.msg <= pktId' /\ got'[q.msg] = 0
    BY <1>1, <1>2, <1>4, <2>2 DEF Upward
  <2>4. \A o \in Own : o > pktId' => got'[o] = 0
    <3>1. p.type = "PUBLISH" => p.msg \in Own /\ p.msg <= pktId
      BY <1>2, OnTheWay, FromClientIs DEF Upward
    <3>2. \A o \in Own : o \in Nat
      BY MqttSessionAssumption, LenProperties DEF Own
    <3>3. SUFFICES ASSUME NEW o \in Own, o > pktId PROVE got'[o] = 0
      BY <1>1
    <3>4. ~(p.type = "PUBLISH" /\ o = p.msg)
      BY <3>1, <3>2, <3>3 DEF Typed
    <3>5. QED BY <1>4, <3>3, <3>4 DEF Upward
  <2>5. \A q \in Range(toServer') : q.type = "PUBREL" => Arrived(q.id)'
    BY <1>2, <2>1 DEF Upward, Arrived
  <2>6. \A q \in Range(toClient') \cup Range(buf') :
          q.type \in {"PUBACK", "PUBREC", "PUBCOMP"} => Arrived(q.id)'
    BY <1>1, <1>3, <2>1 DEF Upward, Arrived
  <2>7. QED BY <1>2, <1>4, <2>3, <2>4, <2>5, <2>6 DEF Upward
<1>8. Downward'
  <2>1. \A q \in Range(toClient) \cup Range(buf) : q.type = "PUBLISH" => q.msg \in Msgs
    BY OnTheWay, FromServerIs
  <2>2. \A q \in Range(toClient') :
       /\ q.type # "BAD"
       /\ q.type = "PUBLISH" => /\ q.id = MsgId[q.msg] /\ q.qos = MsgQos[q.msg]
                                /\ down'[q.msg] # "new" /\ heard'[q.msg] = 0
    BY <1>1, <1>3, <1>5, <2>1 DEF Downward, Answers
  <2>3. \A q \in Range(buf') : q.type = "PUBLISH" =>
       /\ q.qos = MsgQos[q.msg] /\ down'[q.msg] # "new"
       /\ q.qos = 0 => heard'[q.msg] = 0
    BY <1>1, <1>5, <2>1 DEF Downward
  <2>4. QED BY <1>1, <1>3, <1>5, <2>2, <2>3 DEF Downward
<1>9. Undamaged'
  BY <1>1 DEF Undamaged
<1>10. Acknowledged'
  BY <1>1, <1>2, <1>5 DEF Acknowledged
<1>11. QED BY <1>6, <1>7, <1>8, <1>9, <1>10

-----------------------------------------------------------------------------
(* The client's commands and its reads keep the invariant. *)
LEMMA ConnectSound ==
  ASSUME Sound, Connect
  PROVE  Sound'
<1> USE DEF Sound
<1>1. /\ toClient' = <<>> /\ held' = {}
      /\ toServer' = <<Pkt("CONNECT", 0)>>
      /\ down' = [m \in Msgs |-> IF down[m] \in {"sent", "received"} THEN "dropped" ELSE down[m]]
      /\ UNCHANGED <<caller, pc, buf, cursor, heard, got, pktId, faults>>
  BY DEF Connect, Connection, Move, app
<1>2. <<>> \in Seq(FromServer) /\ Range(<<>>) = {} /\ Published(<<>>) = {} /\ Once(<<>>)
  BY EmptySeq, RangeNone
<1>3. /\ toServer' \in Seq(FromClient) /\ Once(toServer')
      /\ \A p \in Range(toServer') : p.type = "CONNECT"
  <2> DEFINE p == Pkt("CONNECT", 0)
  <2>1. p \in FromClient /\ p.type = "CONNECT"
    BY PktIs
  <2> HIDE DEF p
  <2>2. toServer' = <<p>>
    BY <1>1 DEF p
  <2>3. QED BY <2>1, <2>2, RangeOne
<1>4. \A m \in Msgs : /\ down'[m] = "new" <=> down[m] = "new"
                      /\ down'[m] # "received"
                      /\ down'[m] \in {"new", "sent", "received", "done", "dropped"}
  BY <1>1 DEF Typed
<1>5. Typed'
  BY <1>1, <1>2, <1>3, <1>4 DEF Typed
<1>6. Upward'
  BY <1>1, <1>2, <1>3 DEF Upward, Arrived
<1>7. Downward'
  <2>1. \A p \in Range(buf) : p.type = "PUBLISH" => p.msg \in Msgs
    BY OnTheWay, FromServerIs
  <2>2. QED BY <1>1, <1>2, <1>4, <2>1 DEF Downward
<1>8. Undamaged'
  BY <1>1 DEF Undamaged
<1>9. Acknowledged'
  BY <1>1, <1>3, <1>4 DEF Acknowledged
<1>10. QED BY <1>5, <1>6, <1>7, <1>8, <1>9

LEMMA CmdPublishSound ==
  ASSUME Sound, CmdPublish
  PROVE  Sound'
<1> DEFINE o == pktId + 1
           p == Publish(o, o, OwnQos[o])
<1> USE DEF Sound
<1>1. /\ pktId < Len(OwnQos) /\ pktId' = o /\ Sends(<<p>>)
      /\ UNCHANGED <<caller, open, pc, toClient, buf, cursor, down, heard, got, held, faults>>
  BY DEF CmdPublish, link, server, recv, app
<1>2. /\ Len(OwnQos) \in Nat /\ Own = 1 .. Len(OwnQos) /\ \A i \in Own : OwnQos[i] \in 0 .. 2
  BY MqttSessionAssumption, LenProperties, ElementOfSeq DEF Own
<1>3. pktId \in Nat /\ o \in Own /\ o \in Nat /\ o <= Len(OwnQos)
  BY <1>1, <1>2 DEF Typed
<1>4. /\ p \in FromClient /\ p.type = "PUBLISH" /\ p.msg = o /\ p.id = o /\ p.qos = OwnQos[o]
  <2>1. OwnQos[o] \in 0 .. 2
    BY <1>2, <1>3
  <2>2. QED BY <1>3, <2>1 DEF Publish, FromClient
<1> HIDE DEF p
<1>5. \A q \in Range(toServer) : q.type = "PUBLISH" => q.msg \in Own /\ q.msg <= pktId
  BY OnTheWay, FromClientIs DEF Upward
<1>6. o \notin Published(toServer)
  <2>1. SUFFICES ASSUME NEW q \in Range(toServer), q.type = "PUBLISH", q.msg = o PROVE FALSE
    BY DEF Published
  <2>2. o <= pktId
    BY <1>5, <2>1
  <2>3. QED BY <1>3, <2>2
<1>7. /\ toServer' \in Seq(FromClient)
      /\ Range(toServer') \subseteq Range(toServer) \cup {p}
      /\ Once(toServer')
  BY <1>1, <1>4, <1>6, Sending DEF Upward
<1>8. Typed'
  BY <1>1, <1>2, <1>3, <1>7 DEF Typed
<1>9. Upward'
  <2>1. got[o] = 0
    BY <1>2, <1>3 DEF Upward
  <2>2. \A i \in Own : i > pktId' => got'[i] = 0
    BY <1>1, <1>2, <1>3 DEF Upward
  <2>3. \A q \in Range(toServer) : q.type = "PUBLISH" => q.msg <= o
    BY <1>2, <1>3, <1>5
  <2>4. \A q \in Range(toServer') : q.type = "PUBLISH" =>
          q.id = q.msg /\ q.qos = OwnQos[q.msg] /\ q.msg <= pktId' /\ got'[q.msg] = 0
    <3>1. o <= o
      BY <1>3
    <3>2. QED BY <1>1, <1>4, <1>7, <2>1, <2>3, <3>1 DEF Upward
  <2>5. \A q \in Range(toServer') : q.type = "PUBREL" => Arrived(q.id)'
    BY <1>1, <1>4, <1>7 DEF Upward, Arrived
  <2>6. \A q \in Range(toClient') \cup Range(buf') :
          q.type \in {"PUBACK", "PUBREC", "PUBCOMP"} => Arrived(q.id)'
    BY <1>1 DEF Upward, Arrived
  <2>7. QED BY <1>1, <1>7, <2>2, <2>4, <2>5, <2>6 DEF Upward
<1>10. Downward'
  BY <1>1 DEF Downward
<1>11. Undamaged'
  BY <1>1 DEF Undamaged
<1>12. Acknowledged'
  BY <1>1, <1>4, <1>7 DEF Acknowledged
<1>13. QED BY <1>8, <1>9, <1>10, <1>11, <1>12

(* A step that at most empties the wire and the buffer. *)
LEMMA QuietSound ==
  ASSUME Sound,
         UNCHANGED <<caller, toServer, down, heard, got, held, pktId, faults>>,
         toClient' \in {toClient, <<>>},
         buf' \in {buf, <<>>},
         cursor' \in Nat,
         pc' \in {"epoll", "first", "recv", "parse", "exit"},
         Undamaged'
  PROVE  Sound'
<1> USE DEF Sound
<1>1. /\ <<>> \in Seq(FromServer) /\ Range(<<>>) = {} /\ Published(<<>>) = {} /\ Once(<<>>)
  BY EmptySeq, RangeNone
<1>2. /\ Range(toClient') \subseteq Range(toClient) /\ Published(toClient') \subseteq Published(toClient)
      /\ Range(buf') \subseteq Range(buf) /\ Published(buf') \subseteq Published(buf)
  BY <1>1
<1>3. Typed'
  BY <1>1 DEF Typed
<1>4. Upward'
  BY <1>2 DEF Upward, Arrived
<1>5. Downward'
  BY <1>1, <1>2 DEF Downward
<1>6. Acknowledged'
  BY DEF Acknowledged
<1>7. QED BY <1>3, <1>4, <1>5, <1>6

LEMMA PollsSound ==
  ASSUME Sound, Disconnect \/ Poll \/ RecvAgain \/ RecvEof \/ Finish
  PROVE  Sound'
<1> USE DEF Sound
<1>1. CASE Disconnect
  <2>1. /\ toClient' = <<>>
        /\ UNCHANGED <<caller, toServer, buf, cursor, pc, down, heard, got, held, pktId, faults>>
    BY <1>1 DEF Disconnect, Closed, server, ids, app
  <2>2. QED BY <2>1, QuietSound DEF Typed, Undamaged
<1>2. CASE Poll
  <2>1. /\ pc = "epoll" /\ pc' = "first"
        /\ UNCHANGED <<caller, toClient, toServer, buf, cursor, down, heard, got, held, pktId, faults>>
    BY <1>2 DEF Poll, server, wires, ids, app
  <2>2. QED BY <2>1, QuietSound DEF Typed, Undamaged
<1>3. CASE RecvAgain
  <2>1. /\ pc = "recv" /\ pc' = "epoll"
        /\ UNCHANGED <<caller, toClient, toServer, buf, cursor, down, heard, got, held, pktId, faults>>
    BY <1>3 DEF RecvAgain, server, wires, ids, app
  <2>2. QED BY <2>1, QuietSound DEF Typed, Undamaged
<1>4. CASE RecvEof
  <2>1. /\ toClient' = <<>> /\ buf' = <<>> /\ pc' = "epoll"
        /\ UNCHANGED <<caller, toServer, cursor, down, heard, got, held, pktId, faults>>
    BY <1>4 DEF RecvEof, Closed, server, ids, app
  <2>2. QED BY <2>1, QuietSound DEF Typed, Undamaged
<1>5. CASE Finish
  <2>1. /\ buf' = <<>> /\ cursor' = 0 /\ pc' = "recv"
        /\ UNCHANGED <<caller, toClient, toServer, down, heard, got, held, pktId, faults>>
    BY <1>5 DEF Finish, server, wires, ids, app
  <2>2. QED BY <2>1, QuietSound DEF Typed, Undamaged
<1>6. QED BY <1>1, <1>2, <1>3, <1>4, <1>5

LEMMA RecvDataSound ==
  ASSUME Sound, NEW n \in {1, Len(toClient)}, toClient # <<>>, RecvData(n)
  PROVE  Sound'
<1> DEFINE t == SubSeq(toClient, 1, n)
           u == SubSeq(toClient, n + 1, Len(toClient))
<1> USE DEF Sound
<1>1. /\ pc \in {"first", "recv"} /\ buf' = buf \o t /\ toClient' = u /\ cursor' = 0 /\ pc' = "parse"
      /\ UNCHANGED <<caller, toServer, down, heard, got, held, pktId, faults>>
  BY DEF RecvData, server, ids, app
<1>2. /\ Len(toClient) \in Nat \ {0} /\ toClient \in Seq(FromServer) /\ buf \in Seq(FromServer)
      /\ Once(toClient) /\ Once(buf) /\ Published(buf) \cap Published(toClient) = {}
  BY EmptySeq DEF Typed, Downward
<1>3. /\ n \in 1 .. Len(toClient) /\ n \in 0 .. Len(toClient) /\ n + 1 \in 1 .. Len(toClient) + 1
      /\ 1 \in 1 .. Len(toClient) + 1 /\ Len(toClient) \in 0 .. Len(toClient)
  BY <1>2
<1>4. t \in Seq(FromServer) /\ Range(t) \subseteq Range(toClient)
  BY <1>2, <1>3, RangeSubSeq
<1>5. u \in Seq(FromServer) /\ Range(u) \subseteq Range(toClient)
  BY <1>2, <1>3, RangeSubSeq
<1>6. Once(t) /\ Once(u) /\ Published(t) \cap Published(u) = {}
  BY <1>2, <1>3, OnceSplit
<1> HIDE DEF t, u
<1>7. Published(t) \subseteq Published(toClient) /\ Published(u) \subseteq Published(toClient)
  BY <1>4, <1>5, PublishedSubset
<1>8. /\ buf \o t \in Seq(FromServer)
      /\ Range(buf \o t) = Range(buf) \cup Range(t)
      /\ Published(buf \o t) = Published(buf) \cup Published(t)
      /\ Once(buf \o t)
  <2>0. buf \in Seq(FromServer) /\ t \in Seq(FromServer)
    BY <1>2, <1>4
  <2>1. buf \o t \in Seq(FromServer)
    BY <1>2, <1>4, ConcatProperties, Zenon
  <2>2. Range(buf \o t) = Range(buf) \cup Range(t)
    BY <2>0, RangeConcat
  <2>3. Published(buf \o t) = Published(buf) \cup Published(t)
    BY <2>0, PublishedConcat
  <2>4. Published(buf) \cap Published(t) = {}
    BY <1>2, <1>7
  <2>5. Once(buf \o t)
    BY <1>2, <1>4, <1>6, <2>4, OnceConcat, Zenon
  <2>6. QED BY <2>1, <2>2, <2>3, <2>5
<1>9. Typed'
  BY <1>1, <1>5, <1>8 DEF Typed
<1>10. Upward'
  BY <1>1, <1>4, <1>5, <1>8 DEF Upward, Arrived
<1>11. Downward'
  <2>1. Published(buf') \cap Published(toClient') = {}
    BY <1>1, <1>2, <1>6, <1>7, <1>8
  <2>2. QED BY <1>1, <1>4, <1>5, <1>6, <1>8, <2>1 DEF Downward
<1>12. Undamaged'
  <2>1. SUFFICES ASSUME "retried" \notin faults, NEW i \in DOMAIN buf'
                 PROVE  /\ buf'[i].type # "BAD"
                        /\ buf'[i].type = "PUBLISH" =>
                             buf'[i].id = MsgId[buf'[i].msg] /\ heard[buf'[i].msg] = 0
    BY <1>1 DEF Undamaged
  <2>2. buf = <<>>
    BY <1>1, <2>1 DEF Undamaged
  <2>3. buf' = t
    BY <1>1, <1>4, <2>2, ConcatEmptySeq
  <2>4. buf'[i] \in Range(toClient)
    BY <1>4, <2>1, <2>3 DEF Range
  <2>5. QED BY <2>4 DEF Downward
<1>13. Acknowledged'
  BY <1>1 DEF Acknowledged
<1>14. QED BY <1>9, <1>10, <1>11, <1>12, <1>13

-----------------------------------------------------------------------------
(* The client handles the packet at cursor. *)
LEMMA FrontIs ==
  ASSUME Typed, cursor < Len(buf)
  PROVE  /\ cursor + 1 \in DOMAIN buf /\ Front = buf[cursor + 1]
         /\ Front \in Range(buf) /\ Front \in FromServer
<1>1. buf \in Seq(FromServer) /\ cursor \in Nat /\ Len(buf) \in Nat /\ DOMAIN buf = 1 .. Len(buf)
  BY LenProperties DEF Typed
<1>2. cursor + 1 \in DOMAIN buf
  BY <1>1
<1>3. Front = buf[cursor + 1] /\ Front \in Range(buf)
  BY <1>2 DEF Front, Range
<1>4. QED BY <1>2, <1>3, OnTheWay

LEMMA DamagedIs ==
  ASSUME NEW p \in FromServer
  PROVE  /\ Damaged(p) \in FromServer
         /\ p.type # "PUBLISH" => Damaged(p) = p
         /\ p.type = "PUBLISH" => /\ Damaged(p).type \in {"PUBLISH", "BAD"}
                                  /\ Damaged(p).msg = p.msg /\ Damaged(p).qos = p.qos
                                  /\ Damaged(p).type = "PUBLISH" => p.qos > 0
<1>1. CASE p.type # "PUBLISH"
  BY <1>1 DEF Damaged
<1>2. CASE p.type = "PUBLISH"
  <2>1. /\ p.msg \in Msgs /\ p.qos \in 0 .. 2 /\ p.id \in Nat
        /\ p = [type |-> "PUBLISH", id |-> p.id, msg |-> p.msg, qos |-> p.qos]
    BY <1>2, FromServerIs
  <2>2. CASE p.qos = 0
    <3>1. Damaged(p) = [type |-> "BAD", id |-> p.id, msg |-> p.msg, qos |-> p.qos]
      BY <1>2, <2>1, <2>2 DEF Damaged
    <3>2. QED BY <1>2, <2>1, <3>1 DEF FromServer
  <2>3. CASE p.qos # 0
    <3>1. Damaged(p) = [type |-> "PUBLISH", id |-> p.id % 256, msg |-> p.msg, qos |-> p.qos]
      BY <1>2, <2>1, <2>3 DEF Damaged
    <3>2. p.id % 256 \in Nat
      BY <2>1
    <3>3. QED BY <1>2, <2>1, <2>3, <3>1, <3>2 DEF FromServer
  <2>4. QED BY <2>2, <2>3
<1>3. QED BY <1>1, <1>2

(* Every answer is one packet, with the id of what it answers. *)
LEMMA AnswerIs ==
  ASSUME NEW p
  PROVE  /\ (p.type = "PUBLISH" /\ p.qos = 1) => Answer(p) = <<Pkt("PUBACK", p.id)>>
         /\ (p.type = "PUBLISH" /\ p.qos = 2) => Answer(p) = <<Pkt("PUBREC", p.id)>>
         /\ (p.type = "PUBLISH" /\ p.qos \notin {1, 2}) => Answer(p) = <<>>
         /\ p.type = "PUBREC" => Answer(p) = <<Pkt("PUBREL", p.id)>>
         /\ p.type = "PUBREL" => Answer(p) = <<Pkt("PUBCOMP", p.id)>>
         /\ p.type \notin {"PUBLISH", "PUBREC", "PUBREL"} => Answer(p) = <<>>
BY DEF Answer

(* What has been sent after a handler has run: the answer, or a part. *)
Handled(p) == Sends(Answer(p)) \/ Sends(<<>>) \/ Sends(<<Pkt("TORN", 0)>>)

LEMMA HandledSends ==
  ASSUME Typed, Once(toServer), NEW p \in FromServer, Handled(p)
  PROVE  /\ toServer' \in Seq(FromClient)
         /\ Once(toServer')
         /\ \A q \in Range(toServer') :
              \/ q \in Range(toServer)
              \/ /\ q.type # "PUBLISH"
                 /\ q.type = "PUBREL" => p.type = "PUBREC" /\ q.id = p.id
                 /\ q.type \in {"PUBACK", "PUBREC"} => p.type = "PUBLISH" /\ p.qos > 0 /\ q.id = p.id
<1>1. p.id \in Nat /\ 0 \in Nat /\ (p.type = "PUBLISH" => p.qos \in 0 .. 2)
  BY FromServerIs
<1>2. ASSUME NEW t \in {"TORN", "PUBACK", "PUBREC", "PUBREL", "PUBCOMP"}, NEW i \in Nat,
             Sends(<<Pkt(t, i)>>)
      PROVE  /\ toServer' \in Seq(FromClient)
             /\ Once(toServer')
             /\ \A q \in Range(toServer') : q \in Range(toServer) \/ (q.type = t /\ q.id = i)
  <2> DEFINE q == Pkt(t, i)
  <2>1. q \in FromClient /\ q.type = t /\ q.id = i /\ q.type # "PUBLISH"
    BY PktIs
  <2> HIDE DEF q
  <2>2. Sends(<<q>>)
    BY <1>2 DEF q
  <2>3. QED BY <2>1, <2>2, Sending
<1>3. CASE Sends(<<>>)
  BY <1>3, NoSending DEF Typed
<1>4. CASE Sends(<<Pkt("TORN", 0)>>)
  BY <1>1, <1>2, <1>4
<1>5. CASE Sends(Answer(p))
  <2>1. CASE p.type = "PUBLISH" /\ p.qos = 1
    <3>1. Sends(<<Pkt("PUBACK", p.id)>>)
      BY <1>5, <2>1, AnswerIs
    <3>2. QED BY <1>1, <1>2, <2>1, <3>1
  <2>2. CASE p.type = "PUBLISH" /\ p.qos = 2
    <3>1. Sends(<<Pkt("PUBREC", p.id)>>)
      BY <1>5, <2>2, AnswerIs
    <3>2. QED BY <1>1, <1>2, <2>2, <3>1
  <2>3. CASE p.type = "PUBREC"
    <3>1. Sends(<<Pkt("PUBREL", p.id)>>)
      BY <1>5, <2>3, AnswerIs
    <3>2. QED BY <1>1, <1>2, <2>3, <3>1
  <2>4. CASE p.type = "PUBREL"
    <3>1. Sends(<<Pkt("PUBCOMP", p.id)>>)
      BY <1>5, <2>4, AnswerIs
    <3>2. QED BY <1>1, <1>2, <2>4, <3>1
  <2>5. CASE \/ p.type \notin {"PUBLISH", "PUBREC", "PUBREL"}
             \/ p.type = "PUBLISH" /\ p.qos \notin {1, 2}
    <3>1. Sends(<<>>)
      BY <1>5, <2>5, AnswerIs
    <3>2. QED BY <1>3, <3>1
  <2>6. QED BY <2>1, <2>2, <2>3, <2>4, <2>5
<1>6. QED BY <1>3, <1>4, <1>5 DEF Handled

(* The part that Dispatch and DispatchFails have in common.  They differ in
   what they send, and in where the client goes on. *)
Handles ==
  /\ pc = "parse" /\ cursor < Len(buf)
  /\ Called(Front)
  /\ Handled(Front)
  /\ buf' = [buf EXCEPT ![cursor + 1] = Damaged(Front)]
  /\ toClient' \in {toClient, <<>>}
  /\ Meets(Front) \subseteq faults' /\ faults' \subseteq {"retried", "renumbered"}
  /\ \/ pc' = "parse" /\ cursor' = cursor + 1
     \/ pc' = "exit" /\ cursor' = 0
     \/ pc' = "epoll" /\ cursor' = 0 /\ "retried" \in faults'
  /\ UNCHANGED <<caller, down, got, held, pktId>>

LEMMA CalledIs ==
  ASSUME Typed, NEW p \in FromServer, Called(p)
  PROVE  /\ heard' \in [Msgs -> Nat]
         /\ \A m \in Msgs : heard'[m] = IF p.type = "PUBLISH" /\ m = p.msg THEN heard[m] + 1 ELSE heard[m]
<1>1. heard \in [Msgs -> Nat] /\ (p.type = "PUBLISH" => p.msg \in Msgs)
  BY FromServerIs DEF Typed
<1>2. QED BY <1>1 DEF Called

LEMMA HandlesSound ==
  ASSUME Sound, Handles
  PROVE  Sound'
<1> DEFINE k == cursor + 1
           d == Damaged(Front)
<1> USE DEF Sound
<1>1. /\ k \in DOMAIN buf /\ Front = buf[k] /\ Front \in Range(buf) /\ Front \in FromServer
      /\ Front.type = "PUBLISH" => Front.msg \in Msgs
  BY FrontIs, FromServerIs DEF Handles
<1>2. /\ d \in FromServer
      /\ Front.type # "PUBLISH" => d = Front
      /\ Front.type = "PUBLISH" => /\ d.type \in {"PUBLISH", "BAD"}
                                   /\ d.msg = Front.msg /\ d.qos = Front.qos
                                   /\ d.type = "PUBLISH" => Front.qos > 0
  BY <1>1, DamagedIs
<1>3. /\ buf' \in Seq(FromServer) /\ DOMAIN buf' = DOMAIN buf
      /\ \A i \in DOMAIN buf : buf'[i] = IF i = k THEN d ELSE buf[i]
      /\ Range(buf') \subseteq Range(buf) \cup {d}
  <2>1. buf \in Seq(FromServer) /\ buf' = [buf EXCEPT ![k] = d]
    BY DEF Typed, Handles
  <2> HIDE DEF d, k
  <2>2. QED BY <1>1, <1>2, <2>1, RangeExcept
<1>4. Once(buf') /\ Published(buf') \subseteq Published(buf)
  <2>1. buf \in Seq(FromServer) /\ buf' = [buf EXCEPT ![k] = d] /\ Once(buf)
    BY DEF Typed, Handles, Downward
  <2>2. d.type = "PUBLISH" => buf[k].type = "PUBLISH" /\ d.msg = buf[k].msg
    BY <1>1, <1>2
  <2> HIDE DEF d, k
  <2>3. QED BY <1>1, <1>2, <2>1, <2>2, OnceExcept
<1>5. /\ heard' \in [Msgs -> Nat]
      /\ \A m \in Msgs : heard'[m] = IF Front.type = "PUBLISH" /\ m = Front.msg
                                     THEN heard[m] + 1 ELSE heard[m]
  BY <1>1, CalledIs DEF Handles
<1>6. /\ toServer' \in Seq(FromClient)
      /\ Once(toServer')
      /\ \A q \in Range(toServer') :
           \/ q \in Range(toServer)
           \/ /\ q.type # "PUBLISH"
              /\ q.type = "PUBREL" => Front.type = "PUBREC" /\ q.id = Front.id
              /\ q.type \in {"PUBACK", "PUBREC"} => Front.type = "PUBLISH" /\ Front.qos > 0 /\ q.id = Front.id
  BY <1>1, HandledSends DEF Handles, Upward
<1>7. /\ toClient' \in Seq(FromServer) /\ Range(toClient') \subseteq Range(toClient)
      /\ Once(toClient') /\ Published(toClient') \subseteq Published(toClient)
  BY EmptySeq, RangeNone DEF Handles, Typed, Downward
<1>8. /\ cursor' \in Nat /\ pc' \in {"epoll", "first", "recv", "parse", "exit"}
      /\ faults' \subseteq {"retried", "renumbered"} /\ faults \subseteq faults'
      /\ UNCHANGED <<caller, down, got, held, pktId>>
  BY DEF Handles, Typed, Meets
<1> HIDE DEF d, k
(* No other packet carries the message of Front. *)
<1>9. /\ \A i \in DOMAIN buf : i # k /\ buf[i].type = "PUBLISH" /\ Front.type = "PUBLISH"
           => buf[i].msg # Front.msg
      /\ \A q \in Range(toClient) : q.type = "PUBLISH" /\ Front.type = "PUBLISH"
           => q.msg # Front.msg
  <2>1. \A i \in DOMAIN buf : i # k /\ buf[i].type = "PUBLISH" /\ Front.type = "PUBLISH"
          => buf[i].msg # Front.msg
    BY <1>1 DEF Downward, Once
  <2>2. Published(buf) \cap Published(toClient) = {}
    BY DEF Downward
  <2>3. \A q \in Range(toClient) : q.type = "PUBLISH" /\ Front.type = "PUBLISH"
          => q.msg # Front.msg
    BY <1>1, <2>2 DEF Published
  <2>4. QED BY <2>1, <2>3
<1>10. Typed'
  BY <1>3, <1>5, <1>6, <1>7, <1>8 DEF Typed
<1>11. Upward'
  <2>1. \A q \in Range(toServer') : q.type = "PUBREL" => Arrived(q.id)'
    BY <1>1, <1>6, <1>8 DEF Upward, Arrived
  <2>2. \A q \in Range(buf') : q.type \in {"PUBACK", "PUBREC", "PUBCOMP"} => q \in Range(buf)
    BY <1>1, <1>2, <1>3
  <2>3. \A q \in Range(toClient') \cup Range(buf') :
          q.type \in {"PUBACK", "PUBREC", "PUBCOMP"} => Arrived(q.id)'
    BY <1>7, <1>8, <2>2 DEF Upward, Arrived
  <2>4. QED BY <1>6, <1>8, <2>1, <2>3 DEF Upward
<1>12. Downward'
  <2>1. Published(buf') \cap Published(toClient') = {}
    BY <1>4, <1>7 DEF Downward
  <2>2. \A m \in Msgs : down'[m] = "new" => heard'[m] = 0
    BY <1>1, <1>5, <1>8 DEF Downward
  <2>3. \A q \in Range(toClient) \cup Range(buf) : q.type = "PUBLISH" => q.msg \in Msgs
    BY OnTheWay, FromServerIs
  <2>4. \A q \in Range(toClient') :
       /\ q.type # "BAD"
       /\ q.type = "PUBLISH" => /\ q.id = MsgId[q.msg] /\ q.qos = MsgQos[q.msg]
                                /\ down'[q.msg] # "new" /\ heard'[q.msg] = 0
    BY <1>5, <1>7, <1>8, <1>9, <2>3 DEF Downward
  <2>5. ASSUME NEW i \in DOMAIN buf, buf'[i].type = "PUBLISH"
        PROVE  /\ buf'[i].qos = MsgQos[buf'[i].msg] /\ down'[buf'[i].msg] # "new"
               /\ buf'[i].qos = 0 => heard'[buf'[i].msg] = 0
    <3>1. CASE i = k
      <4>1. buf'[i] = d /\ Front.type = "PUBLISH" /\ d.msg = Front.msg /\ d.qos = Front.qos /\ Front.qos > 0
        BY <1>1, <1>2, <1>3, <2>5, <3>1
      <4>2. Front.qos \in 0 .. 2 /\ Front.qos = MsgQos[Front.msg] /\ down[Front.msg] # "new"
        BY <1>1, <4>1, FromServerIs DEF Downward
      <4>3. QED BY <1>8, <4>1, <4>2
    <3>2. CASE i # k
      <4>1. buf'[i] = buf[i] /\ buf[i].type = "PUBLISH" /\ buf[i] \in Range(buf)
        BY <1>3, <2>5, <3>2 DEF Range
      <4>2. buf[i].msg \in Msgs /\ heard'[buf[i].msg] = heard[buf[i].msg]
        BY <1>5, <1>9, <2>3, <3>2, <4>1
      <4>3. QED BY <1>8, <4>1, <4>2 DEF Downward
    <3>3. QED BY <3>1, <3>2
  <2>6. \A q \in Range(buf') : q.type = "PUBLISH" =>
       /\ q.qos = MsgQos[q.msg] /\ down'[q.msg] # "new"
       /\ q.qos = 0 => heard'[q.msg] = 0
    BY <1>3, <2>5 DEF Range
  <2>7. \A m \in Msgs : down'[m] = "received" => MsgQos[m] > 0
    BY <1>8 DEF Downward
  <2>8. QED BY <1>4, <1>7, <2>1, <2>2, <2>4, <2>6, <2>7 DEF Downward
<1>13. Undamaged'
  <2>1. SUFFICES ASSUME "retried" \notin faults'
                 PROVE  /\ pc' \in {"epoll", "first", "recv"} => buf' = <<>>
                        /\ pc' = "parse" => \A i \in DOMAIN buf' : i > cursor' =>
                             /\ buf'[i].type # "BAD"
                             /\ buf'[i].type = "PUBLISH" =>
                                  buf'[i].id = MsgId[buf'[i].msg] /\ heard'[buf'[i].msg] = 0
    BY DEF Undamaged
  <2>2. pc' \notin {"epoll", "first", "recv"}
    BY <2>1 DEF Handles
  <2>3. ASSUME pc' = "parse", NEW i \in DOMAIN buf', i > cursor'
        PROVE  /\ buf'[i].type # "BAD"
               /\ buf'[i].type = "PUBLISH" =>
                    buf'[i].id = MsgId[buf'[i].msg] /\ heard'[buf'[i].msg] = 0
    <3>1. i \in DOMAIN buf /\ i > cursor /\ i # k
      <4>1. cursor' = k /\ cursor \in Nat
        BY <2>3 DEF Handles, Typed, k
      <4>2. i \in DOMAIN buf /\ i \in Nat
        BY <1>3, <2>3, LenProperties DEF Typed
      <4>3. QED BY <2>3, <4>1, <4>2 DEF k
    <3>2. buf'[i] = buf[i] /\ buf[i] \in Range(buf)
      BY <1>3, <3>1 DEF Range
    <3>3. /\ buf[i].type # "BAD"
          /\ buf[i].type = "PUBLISH" => buf[i].id = MsgId[buf[i].msg] /\ heard[buf[i].msg] = 0
      BY <1>8, <2>1, <3>1 DEF Undamaged, Handles
    <3>4. buf[i].type = "PUBLISH" => buf[i].msg \in Msgs
      BY <3>2, OnTheWay, FromServerIs
    <3>5. QED BY <1>5, <1>9, <3>1, <3>2, <3>3, <3>4
  <2>4. QED BY <2>2, <2>3
<1>14. Acknowledged'
  <2>1. SUFFICES ASSUME "renumbered" \notin faults'
                 PROVE  /\ \A q \in Range(toServer') : q.type \in {"PUBACK", "PUBREC"} =>
                             \A m \in Msgs : MsgId[m] = q.id => heard'[m] > 0
                        /\ \A m \in Msgs : down'[m] = "received" => heard'[m] > 0
    BY DEF Acknowledged
  <2>2. \A m \in Msgs : heard[m] \in Nat /\ heard'[m] >= heard[m]
    <3>1. heard \in [Msgs -> Nat]
      BY DEF Typed
    <3>2. \A m \in Msgs : heard[m] \in Nat
      BY <3>1
    <3>3. QED BY <1>5, <3>2
  <2>3. \A m \in Msgs : heard[m] > 0 => heard'[m] > 0
    BY <1>5, <2>2
  <2>4. ASSUME Front.type = "PUBLISH", Front.qos > 0, NEW m \in Msgs, MsgId[m] = Front.id
        PROVE  heard'[m] > 0
    <3>1. Front.id = MsgId[Front.msg]
      BY <2>1, <2>4 DEF Handles, Meets, Renumbered
    <3>2. m = Front.msg
      BY <1>1, <2>4, <3>1, MqttSessionAssumption
    <3>3. QED BY <1>5, <2>2, <2>4, <3>2
  <2>5. QED BY <1>6, <1>8, <2>1, <2>3, <2>4 DEF Acknowledged
<1>15. QED BY <1>10, <1>11, <1>12, <1>13, <1>14

LEMMA DispatchHandles ==
  ASSUME Typed, Dispatch \/ DispatchFails
  PROVE  Handles
<1>1. CASE Dispatch
  BY <1>1 DEF Dispatch, Handles, Handled, Typed, Meets, server, link, ids
<1>2. CASE DispatchFails
  <2>1. Handled(Front)
    BY <1>2 DEF DispatchFails, Handled
  <2>2. \/ caller = "sample" /\ pc' = "exit" /\ toClient' = <<>>
        \/ caller = "app" /\ pc' = "epoll" /\ toClient' = toClient
    BY <1>2 DEF DispatchFails, Fail, Closed, Typed
  <2>3. QED BY <1>2, <2>1, <2>2 DEF DispatchFails, Handles, Typed, Meets, Fail, server, ids
<1>3. QED BY <1>1, <1>2

LEMMA IllegalSound ==
  ASSUME Sound, Illegal
  PROVE  Sound'
<1> USE DEF Sound
<1>1. /\ pc = "parse" /\ cursor < Len(buf) /\ Refused(Front)
      /\ cursor' = 0
      /\ \/ pc' = "exit" /\ toClient' = <<>>
         \/ pc' = "epoll" /\ toClient' = toClient
      /\ UNCHANGED <<caller, toServer, buf, down, heard, got, held, pktId, faults>>
  BY DEF Illegal, Fail, Closed, server, ids, app
<1>2. cursor + 1 \in DOMAIN buf /\ cursor + 1 > cursor /\ Front = buf[cursor + 1] /\ Front \in FromServer
  BY <1>1, FrontIs DEF Typed
<1>3. "retried" \in faults
  <2>1. SUFFICES ASSUME "retried" \notin faults PROVE FALSE
    OBVIOUS
  <2>2. /\ Front.type # "BAD"
        /\ Front.type = "PUBLISH" => Front.id = MsgId[Front.msg]
    BY <1>1, <1>2, <2>1 DEF Undamaged
  <2>3. Front.type = "PUBLISH" /\ Front.id = 0
    BY <1>1, <2>2 DEF Refused
  <2>4. QED BY <1>2, <2>2, <2>3, FromServerIs, MsgConstants
<1>4. Undamaged'
  BY <1>1, <1>3 DEF Undamaged
<1>5. QED BY <1>1, <1>4, QuietSound

-----------------------------------------------------------------------------
(* mqtt.c:390-648, the handlers, with the packets on their way.  No message
   is twice on a wire or in the buffer, one that waits there was not heard
   unless the caller has gone on after an error, and neither end acknowledges
   what it has not received, unless an answer carried another number. *)
THEOREM SessionSound == Spec => []Sound
<1>1. Init => Sound
  <2>1. SUFFICES ASSUME Init PROVE Sound
    OBVIOUS
  <2>2. /\ toServer \in Seq(FromClient) /\ Once(toServer)
        /\ \A p \in Range(toServer) : p.type = "CONNECT"
    <3> DEFINE p == Pkt("CONNECT", 0)
    <3>1. p \in FromClient /\ p.type = "CONNECT"
      BY PktIs
    <3> HIDE DEF p
    <3>2. toServer = <<p>> \/ toServer = <<>>
      BY <2>1 DEF Init, p
    <3>3. <<>> \in Seq(FromClient)
      BY EmptySeq
    <3>4. CASE toServer = <<p>>
      BY <3>1, <3>4, RangeOne
    <3>5. CASE toServer = <<>>
      BY <3>3, <3>5, RangeNone
    <3>6. QED BY <3>2, <3>4, <3>5
  <2>3. /\ toClient = <<>> /\ buf = <<>> /\ <<>> \in Seq(FromServer) /\ DOMAIN buf = {}
        /\ Range(<<>>) = {} /\ Published(<<>>) = {} /\ Once(<<>>)
    BY <2>1, EmptySeq, RangeNone DEF Init
  <2>4. Typed
    <3>1. Len(OwnQos) \in Nat
      BY MqttSessionAssumption, LenProperties
    <3>2. caller \in {"sample", "app"}
      BY <2>1, MqttSessionAssumption DEF Init
    <3>3. QED BY <2>1, <2>2, <2>3, <3>1, <3>2 DEF Init, Typed
  <2>5. Upward
    BY <2>1, <2>2, <2>3 DEF Init, Upward
  <2>6. Downward
    BY <2>1, <2>3 DEF Init, Downward
  <2>7. Undamaged
    BY <2>1, <2>3 DEF Init, Undamaged
  <2>8. Acknowledged
    BY <2>1, <2>2 DEF Init, Acknowledged
  <2>9. QED BY <2>4, <2>5, <2>6, <2>7, <2>8 DEF Sound
<1>2. Sound /\ [Next]_vars => Sound'
  <2>1. SUFFICES ASSUME Sound, [Next]_vars PROVE Sound'
    OBVIOUS
  <2>2. CASE UNCHANGED vars
    BY <2>1, <2>2 DEF Sound, Typed, Upward, Downward, Undamaged, Acknowledged, Arrived,
                      vars, link, server, wires, recv, app, ids
  <2>3. CASE \E m \in Msgs : Serve(m)
    BY <2>1, <2>3, ServeSound
  <2>4. CASE Hangup \/ ServerEof
    BY <2>1, <2>4, ServerClosesSound DEF Hangup, ServerEof
  <2>5. CASE ServerReads
    BY <2>1, <2>5, ServerReadsSound
  <2>6. CASE Connect
    BY <2>1, <2>6, ConnectSound
  <2>7. CASE CmdPublish
    BY <2>1, <2>7, CmdPublishSound
  <2>8. CASE Disconnect \/ Poll \/ RecvAgain \/ RecvEof \/ Finish
    BY <2>1, <2>8, PollsSound
  <2>9. CASE toClient # <<>> /\ \E n \in {1, Len(toClient)} : RecvData(n)
    BY <2>1, <2>9, RecvDataSound
  <2>10. CASE Dispatch \/ DispatchFails
    BY <2>1, <2>10, DispatchHandles, HandlesSound DEF Sound
  <2>11. CASE Illegal
    BY <2>1, <2>11, IllegalSound
  <2>12. QED
    BY <2>1, <2>2, <2>3, <2>4, <2>5, <2>6, <2>7, <2>8, <2>9, <2>10, <2>11 DEF Next, RecvPkt
<1>3. QED BY <1>1, <1>2, PTL DEF Spec

-----------------------------------------------------------------------------
(* Every step is one of the abstract specification, or none. *)
Promised == [Delivery!Next]_(Delivery!vars)

LEMMA StutterIs ==
  ASSUME UNCHANGED <<heard, got, told, faults>>,
         \A m \in Msgs : down'[m] = "done" <=> down[m] = "done"
  PROVE  Promised
<1>1. HandedOver' = HandedOver
  BY DEF HandedOver, Both, Own
<1>2. Settled' = Settled
  BY DEF Settled, Own
<1>3. Trouble' = Trouble
  BY DEF Trouble
<1>4. QED BY <1>1, <1>2, <1>3 DEF Promised, Delivery!vars

(* A message is handed over; the receiver may get into trouble on the way. *)
LEMMA HearIs ==
  ASSUME NEW x \in Both,
         HandedOver[x] = 0 \/ (Trouble # "none" /\ LevelOf[x] > 0),
         HandedOver' = [HandedOver EXCEPT ![x] = @ + 1],
         Settled' = Settled,
         faults \subseteq faults', faults' \subseteq {"retried", "renumbered"}
  PROVE  Promised
<1>1. Delivery!Worse
  BY DEF Delivery!Worse, Trouble
<1>2. Delivery!Hear(x)
  BY <1>1 DEF Delivery!Hear
<1>3. QED BY <1>2 DEF Promised, Delivery!Next

LEMMA TripIs ==
  ASSUME HandedOver' = HandedOver, Settled' = Settled,
         faults \subseteq faults', faults' \subseteq {"retried", "renumbered"}
  PROVE  Promised
<1>1. Delivery!Worse
  BY DEF Delivery!Worse, Trouble
<1>2. Delivery!Trip
  BY <1>1 DEF Delivery!Trip
<1>3. QED BY <1>2 DEF Promised, Delivery!Next

LEMMA SettleIs ==
  ASSUME NEW x \in Both, LevelOf[x] > 0,
         HandedOver[x] > 0 \/ Trouble = "renumbered",
         HandedOver' = HandedOver, Trouble' = Trouble,
         Settled' = Settled \cup {x}
  PROVE  Promised
<1>1. CASE x \in Settled
  <2>1. Settled' = Settled
    BY <1>1
  <2>2. QED BY <2>1 DEF Promised, Delivery!vars
<1>2. CASE x \notin Settled
  <2>1. Delivery!Settle(x)
    BY <1>2 DEF Delivery!Settle
  <2>2. QED BY <2>1 DEF Promised, Delivery!Next
<1>3. QED BY <1>1, <1>2

(* The abstract state of one message, down or up. *)
LEMMA DownIs ==
  ASSUME NEW m \in Msgs
  PROVE  /\ <<m, "down">> \in Both
         /\ HandedOver[<<m, "down">>] = heard[m]
         /\ LevelOf[<<m, "down">>] = MsgQos[m]
BY DEF Both, HandedOver, LevelOf

LEMMA UpIs ==
  ASSUME NEW o \in Own
  PROVE  /\ <<o, "up">> \in Both
         /\ HandedOver[<<o, "up">>] = got[o]
         /\ LevelOf[<<o, "up">>] = OwnQos[o]
BY DEF Both, HandedOver, LevelOf

LEMMA HandedDown ==
  ASSUME NEW m \in Msgs, heard \in [Msgs -> Nat], UNCHANGED got,
         heard' = [heard EXCEPT ![m] = @ + 1]
  PROVE  HandedOver' = [HandedOver EXCEPT ![<<m, "down">>] = @ + 1]
<1> DEFINE x == <<m, "down">>
           h == [HandedOver EXCEPT ![x] = @ + 1]
<1>1. /\ \A n \in Msgs : heard'[n] = IF n = m THEN heard[n] + 1 ELSE heard[n]
      /\ got' = got
  OBVIOUS
<1>2. ASSUME NEW y \in Both PROVE HandedOver'[y] = h[y]
  <2>1. CASE \E n \in Msgs : y = <<n, "down">>
    BY <1>1, <2>1 DEF HandedOver, Both
  <2>2. CASE \E o \in Own : y = <<o, "up">>
    BY <1>1, <2>2 DEF HandedOver, Both, Own
  <2>3. QED BY <2>1, <2>2 DEF Both
<1>3. HandedOver' = [y \in Both |-> HandedOver'[y]] /\ h = [y \in Both |-> h[y]]
  BY DEF HandedOver, Both, Own
<1> HIDE DEF h
<1>4. HandedOver' = h
  BY <1>2, <1>3, Zenon
<1>5. QED BY <1>4 DEF h

LEMMA HandedUp ==
  ASSUME NEW o \in Own, got \in [Own -> Nat], UNCHANGED heard,
         got' = [got EXCEPT ![o] = @ + 1]
  PROVE  HandedOver' = [HandedOver EXCEPT ![<<o, "up">>] = @ + 1]
<1> DEFINE x == <<o, "up">>
           h == [HandedOver EXCEPT ![x] = @ + 1]
<1>1. /\ \A n \in Own : got'[n] = IF n = o THEN got[n] + 1 ELSE got[n]
      /\ heard' = heard
  OBVIOUS
<1>2. ASSUME NEW y \in Both PROVE HandedOver'[y] = h[y]
  <2>1. CASE \E n \in Msgs : y = <<n, "down">>
    BY <1>1, <2>1 DEF HandedOver, Both
  <2>2. CASE \E n \in Own : y = <<n, "up">>
    BY <1>1, <2>2 DEF HandedOver, Both
  <2>3. QED BY <2>1, <2>2 DEF Both
<1>3. HandedOver' = [y \in Both |-> HandedOver'[y]] /\ h = [y \in Both |-> h[y]]
  BY DEF HandedOver, Both, Own
<1> HIDE DEF h
<1>4. HandedOver' = h
  BY <1>2, <1>3, Zenon
<1>5. QED BY <1>4 DEF h

LEMMA ServerReadsPromised ==
  ASSUME Sound, ServerReads
  PROVE  Promised
<1> DEFINE p == Head(toServer)
<1>1. ServerTakes(p) /\ toServer # <<>> /\ UNCHANGED <<heard, told, faults>>
  BY DEF ServerReads, app
<1>2. p \in Range(toServer) /\ p \in FromClient
  BY <1>1, RangeTail, OnTheWay DEF Sound, Typed
<1> HIDE DEF p
<1>3. p.type = "PUBLISH" => /\ p.msg \in Own /\ p.id = p.msg
                            /\ p.qos = OwnQos[p.msg] /\ got[p.msg] = 0
  BY <1>2, FromClientIs DEF Sound, Upward
<1>4. /\ got \in [Own -> Nat] /\ heard \in [Msgs -> Nat]
      /\ down \in [Msgs -> {"new", "sent", "received", "done", "dropped"}]
      /\ \A o \in held : got[o] > 0
  BY DEF Sound, Typed, Upward
<1>5. CASE p.type \in {"CONNECT", "PUBREL"} /\ UNCHANGED <<down, got>>
  BY <1>1, <1>5, StutterIs
<1>6. CASE p.type = "PUBLISH" /\ got' = [got EXCEPT ![p.msg] = @ + 1] /\ UNCHANGED down
  <2> DEFINE x == <<p.msg, "up">>
  <2>1. x \in Both /\ HandedOver[x] = 0
    BY <1>3, <1>6, UpIs
  <2>2. HandedOver' = [HandedOver EXCEPT ![x] = @ + 1]
    BY <1>1, <1>3, <1>4, <1>6, HandedUp
  <2>3. Settled' = Settled
    BY <1>1, <1>6 DEF Settled
  <2>4. faults \subseteq faults' /\ faults' \subseteq {"retried", "renumbered"}
    BY <1>1 DEF Sound, Typed
  <2> HIDE DEF x
  <2>5. QED BY <2>1, <2>2, <2>3, <2>4, HearIs
(* An acknowledgment settles a message that the client has heard. *)
<1>7. ASSUME NEW m \in Msgs, MsgQos[m] > 0, heard[m] > 0 \/ "renumbered" \in faults,
             down' = [n \in Msgs |-> IF n = m THEN "done" ELSE down[n]], UNCHANGED got
      PROVE  Promised
  <2> DEFINE x == <<m, "down">>
  <2>1. x \in Both /\ LevelOf[x] > 0
    BY <1>7, DownIs
  <2>2. HandedOver[x] > 0 \/ Trouble = "renumbered"
    BY <1>7, DownIs DEF Trouble
  <2>3. HandedOver' = HandedOver /\ Trouble' = Trouble
    BY <1>1, <1>7 DEF HandedOver, Trouble, Both
  <2>4. Settled' = Settled \cup {x}
    BY <1>1, <1>4, <1>7 DEF Settled
  <2> HIDE DEF x
  <2>5. QED BY <2>1, <2>2, <2>3, <2>4, SettleIs
<1>8. ASSUME NEW ms \in SUBSET Msgs, Move(ms, "done"), UNCHANGED got,
             \A m, n \in ms : m = n,
             \A m \in ms : MsgQos[m] > 0 /\ (heard[m] > 0 \/ "renumbered" \in faults)
      PROVE  Promised
  <2>1. CASE ms = {}
    BY <1>1, <1>4, <1>8, <2>1, StutterIs DEF Move
  <2>2. CASE ms # {}
    <3>1. PICK m \in ms : ms = {m}
      BY <1>8, <2>2
    <3>2. down' = [n \in Msgs |-> IF n = m THEN "done" ELSE down[n]]
      BY <1>8, <3>1 DEF Move
    <3>3. QED BY <1>7, <1>8, <3>1, <3>2
  <2>3. QED BY <2>1, <2>2
<1>9. CASE /\ p.type = "PUBACK"
           /\ Move({ m \in InFlight(p.id, "sent") : MsgQos[m] = 1 }, "done")
           /\ UNCHANGED got
  <2> DEFINE ms == { m \in InFlight(p.id, "sent") : MsgQos[m] = 1 }
  <2>1. ms \in SUBSET Msgs /\ \A m, n \in ms : m = n
    BY MqttSessionAssumption DEF InFlight
  <2>2. \A m \in ms : MsgQos[m] > 0 /\ (heard[m] > 0 \/ "renumbered" \in faults)
    BY <1>2, <1>9 DEF InFlight, Sound, Acknowledged
  <2> HIDE DEF ms
  <2>3. Move(ms, "done")
    BY <1>9 DEF ms
  <2>4. QED BY <1>8, <1>9, <2>1, <2>2, <2>3
<1>10. CASE p.type = "PUBREC" /\ UNCHANGED got
            /\ Move({ m \in InFlight(p.id, "sent") : MsgQos[m] = 2 }, "received")
  <2>1. \A m \in Msgs : down'[m] = "done" <=> down[m] = "done"
    BY <1>4, <1>10 DEF Move, InFlight
  <2>2. QED BY <1>1, <1>10, <2>1, StutterIs
<1>11. CASE p.type = "PUBCOMP" /\ Move(InFlight(p.id, "received"), "done") /\ UNCHANGED got
  <2> DEFINE ms == InFlight(p.id, "received")
  <2>1. ms \in SUBSET Msgs /\ \A m, n \in ms : m = n
    BY MqttSessionAssumption DEF InFlight
  <2>2. \A m \in ms : MsgQos[m] > 0 /\ (heard[m] > 0 \/ "renumbered" \in faults)
    BY DEF InFlight, Sound, Acknowledged, Downward
  <2> HIDE DEF ms
  <2>3. Move(ms, "done")
    BY <1>11 DEF ms
  <2>4. QED BY <1>8, <1>11, <2>1, <2>2, <2>3
<1>12. CASE p.type = "PUBLISH" /\ p.qos = 2 /\ UNCHANGED down
            /\ got' = [got EXCEPT ![p.msg] = IF p.id \in held THEN @ ELSE @ + 1]
  <2>1. p.id \notin held
    BY <1>3, <1>4, <1>12
  <2>2. got' = [got EXCEPT ![p.msg] = @ + 1]
    BY <1>12, <2>1
  <2>3. QED BY <1>6, <1>12, <2>2
<1>13. QED BY <1>1, <1>5, <1>6, <1>9, <1>10, <1>11, <1>12 DEF ServerTakes

LEMMA DispatchPromised ==
  ASSUME Sound, Dispatch \/ DispatchFails
  PROVE  Promised
<1>1. /\ Handles /\ Called(Front)
      /\ faults \subseteq faults' /\ faults' \subseteq {"retried", "renumbered"}
      /\ UNCHANGED <<down, got>>
      /\ pc = "parse" /\ cursor < Len(buf)
  BY DispatchHandles DEF Sound, Handles, Meets
<1>2. /\ cursor + 1 \in DOMAIN buf /\ cursor + 1 > cursor /\ Front = buf[cursor + 1]
      /\ Front \in Range(buf) /\ Front \in FromServer
      /\ Front.type = "PUBLISH" => Front.msg \in Msgs /\ Front.qos \in 0 .. 2
  BY <1>1, FrontIs, FromServerIs DEF Sound, Typed
<1>3. CASE Front.type = "PUBLISH"
  <2> DEFINE x == <<Front.msg, "down">>
  <2>1. heard' = [heard EXCEPT ![Front.msg] = @ + 1] /\ told' = told /\ heard \in [Msgs -> Nat]
    BY <1>1, <1>3 DEF Called, Sound, Typed
  <2>2. x \in Both /\ HandedOver[x] = heard[Front.msg] /\ LevelOf[x] = MsgQos[Front.msg]
    BY <1>2, <1>3, DownIs
  <2>3. HandedOver' = [HandedOver EXCEPT ![x] = @ + 1]
    BY <1>1, <1>2, <1>3, <2>1, HandedDown
  <2>4. Settled' = Settled
    BY <1>1, <2>1 DEF Settled
  <2>5. heard[Front.msg] = 0 \/ (Trouble # "none" /\ MsgQos[Front.msg] > 0)
    <3>1. CASE "retried" \notin faults
      BY <1>1, <1>2, <1>3, <3>1 DEF Sound, Undamaged
    <3>2. CASE "retried" \in faults
      <4>1. Trouble # "none"
        BY <3>2 DEF Trouble
      <4>2. Front.qos = MsgQos[Front.msg] /\ (Front.qos = 0 => heard[Front.msg] = 0)
        BY <1>2, <1>3 DEF Sound, Downward
      <4>3. QED BY <1>2, <1>3, <4>1, <4>2
    <3>3. QED BY <3>1, <3>2
  <2> HIDE DEF x
  <2>6. QED BY <1>1, <2>2, <2>3, <2>4, <2>5, HearIs
<1>4. CASE Front.type \in {"PUBACK", "PUBCOMP"}
  <2> DEFINE x == <<Front.id, "up">>
  <2>1. heard' = heard /\ told' = told \cup {Front.id}
    BY <1>1, <1>4 DEF Called
  <2>2. Front.id \in Own /\ OwnQos[Front.id] > 0 /\ got[Front.id] > 0
    BY <1>2, <1>4 DEF Sound, Upward, Arrived
  <2>3. x \in Both /\ LevelOf[x] > 0 /\ HandedOver[x] > 0
    BY <2>2, UpIs
  <2>4. HandedOver' = HandedOver
    BY <1>1, <2>1 DEF HandedOver, Both
  <2>5. Settled' = Settled \cup {x}
    BY <1>1, <2>1, <2>2 DEF Settled
  <2>6. Trouble' = Trouble
    <3>1. Dispatch
      BY <1>4, AnswerIs DEF DispatchFails
    <3>2. faults' = faults
      BY <1>4, <3>1 DEF Dispatch, Meets, Renumbered
    <3>3. QED BY <3>2 DEF Trouble
  <2> HIDE DEF x
  <2>7. QED BY <2>3, <2>4, <2>5, <2>6, SettleIs
<1>5. CASE Front.type \notin {"PUBLISH", "PUBACK", "PUBCOMP"}
  <2>1. heard' = heard /\ told' = told
    BY <1>1, <1>5 DEF Called
  <2>2. HandedOver' = HandedOver /\ Settled' = Settled
    BY <1>1, <2>1 DEF HandedOver, Settled, Both
  <2>3. QED BY <1>1, <2>2, TripIs
<1>6. QED BY <1>3, <1>4, <1>5

(***************************************************************************)
(* mqtt.h:56-60, mqtt.c:390-648.  The exchanges of every set of messages   *)
(* deliver what the levels of service promise, in both directions: no      *)
(* message is handed over twice or acknowledged before it has been handed  *)
(* over, unless a caller goes on after an error; one of level 0 never is.  *)
(***************************************************************************)
THEOREM SessionDelivers == Spec => Delivers
<1>1. Init => Delivery!Init
  <2>1. SUFFICES ASSUME Init PROVE Delivery!Init
    OBVIOUS
  <2>2. HandedOver = [x \in Both |-> 0]
    BY <2>1 DEF Init, HandedOver, Both
  <2>3. Settled = {}
    BY <2>1 DEF Init, Settled
  <2>4. Trouble = "none"
    BY <2>1 DEF Init, Trouble
  <2>5. QED BY <2>2, <2>3, <2>4 DEF Delivery!Init
<1>2. Sound /\ [Next]_vars => [Delivery!Next]_(Delivery!vars)
  <2>1. SUFFICES ASSUME Sound, [Next]_vars PROVE Promised
    BY DEF Promised
  <2>2. CASE UNCHANGED vars
    BY <2>2, StutterIs DEF vars, server, app
  <2>3. ASSUME NEW m \in Msgs, Serve(m) PROVE Promised
    <3>1. \A n \in Msgs : down'[n] = "done" <=> down[n] = "done"
      BY <2>1, <2>3 DEF Serve, Sound, Typed
    <3>2. QED BY <2>3, <3>1, StutterIs DEF Serve, app
  <2>4. CASE Hangup \/ ServerEof
    BY <2>4, StutterIs DEF Hangup, ServerEof, ServerCloses, app
  <2>5. CASE ServerReads
    BY <2>1, <2>5, ServerReadsPromised
  <2>6. CASE Connect
    <3>1. \A n \in Msgs : down'[n] = "done" <=> down[n] = "done"
      BY <2>6 DEF Connect, Move
    <3>2. QED BY <2>6, <3>1, StutterIs DEF Connect, app
  <2>7. CASE Disconnect \/ CmdPublish \/ Poll
    BY <2>7, StutterIs DEF Disconnect, CmdPublish, Poll, server, app
  <2>8. CASE RecvAgain \/ RecvEof \/ Finish \/ Illegal
    BY <2>8, StutterIs DEF RecvAgain, RecvEof, Finish, Illegal, Fail, server, app
  <2>9. CASE \E n \in {1, Len(toClient)} : RecvData(n)
    BY <2>9, StutterIs DEF RecvData, server, app
  <2>10. CASE Dispatch \/ DispatchFails
    BY <2>1, <2>10, DispatchPromised
  <2>11. QED
    BY <2>1, <2>2, <2>3, <2>4, <2>5, <2>6, <2>7, <2>8, <2>9, <2>10 DEF Next, RecvPkt
<1>3. QED BY <1>1, <1>2, SessionSound, PTL DEF Spec, Delivers, Delivery!Spec

=============================================================================
