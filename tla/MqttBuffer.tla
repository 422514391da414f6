----------------------------- MODULE MqttBuffer -----------------------------
(***************************************************************************)
(* The packet buffer of the MQTT SDK (mqtt/sdk/mqtt_buffer.c): an arena of *)
(* malloc'ed chunks from which extents are carved, each extent a header    *)
(* (struct MqttExtent) followed by its payload, and a list of the extents  *)
(* that make up the packet.  Every malloc may fail.                        *)
(*                                                                         *)
(* A chunk is its number in allocations[] and its size; an extent is where *)
(* it was carved and the payload bytes asked for.  The payload's content   *)
(* is left out.                                                            *)
(***************************************************************************)
EXTENDS Integers, Sequences, FiniteSets, SequencesExt

CONSTANTS
  Header,     \* sizeof(struct MqttExtent)
  Alignment,  \* MQTT_DEFAULT_ALIGNMENT
  MinExtent,  \* MQTT_MIN_EXTENT_SIZE
  Sizes,      \* payload sizes that callers ask for
  MaxChunks,  \* bound: chunks of one buffer
  MaxExts     \* bound: extents of one buffer

ASSUME MqttBufferAssumption ==
  /\ Header \in Nat \ {0}
  /\ Alignment \in Nat \ {0}
  /\ MinExtent \in Nat
  /\ Sizes \subseteq Nat
  /\ MaxChunks \in Nat
  /\ MaxExts \in Nat

VARIABLES
  chunks,    \* sizes of allocations[0 .. alloc_count - 1]
  max,       \* alloc_max_count: slots of the allocations array
  avail,     \* available_bytes
  used,      \* first_available, as an offset into the last chunk
  exts,      \* the extents carved since the last reset
  list,      \* first_ext .. last_ext: the packet, extents with their len
  buffered,  \* buffered_bytes
  heap       \* blocks that malloc has given out and free has not taken back

vars == <<chunks, max, avail, used, exts, list, buffered, heap>>

Extent == [chunk : Nat, off : Nat, room : Nat]

(***************************************************************************)
(* Sums and sizes.                                                         *)
(***************************************************************************)
(* Mutant: the extent's own header is forgotten. *)
AlignedNoHeader(bytes) ==
  bytes + ((Alignment - (bytes % Alignment)) % Alignment)

Aligned(bytes) ==
  LET n == bytes + Header
  IN  n + ((Alignment - (n % Alignment)) % Alignment)

(* Mutant: the test that the assertion in line 76 makes. *)
FitsUnaligned(bytes) == avail >= bytes

Fits(bytes) == avail >= Aligned(bytes)

ChunkSize(bytes) == IF Aligned(bytes) < MinExtent THEN MinExtent
                                                  ELSE Aligned(bytes)

(* Mutant: an array of 0 slots stays one. *)
GrownDouble == IF Len(chunks) = max THEN 2 * max ELSE max

(* The slots of the array after making room for one more chunk. *)
Grown == IF Len(chunks) = max THEN 2 * max + 1 ELSE max

(* A larger array replaces the old one, which is freed; the first is new. *)
ArrayBlocks(slots) == IF slots > 0 THEN 1 ELSE 0

Init ==
  /\ chunks = <<>>
  /\ max = 0
  /\ avail = 0
  /\ used = 0
  /\ exts = {}
  /\ list = <<>>
  /\ buffered = 0
  /\ heap = 0

-----------------------------------------------------------------------------
(***************************************************************************)
(* MqttBuffer_AllocExtent, successful: from the last chunk if it has room, *)
(* else from a new one, whose predecessor's rest is given up.              *)
(***************************************************************************)
CarveNoBump(bytes, e) ==
  /\ Fits(bytes)
  /\ e = [chunk |-> Len(chunks), off |-> used, room |-> bytes]
  /\ exts' = exts \cup {e}
  /\ avail' = avail - Aligned(bytes)
  /\ UNCHANGED <<used, chunks, max, heap>>

Carve(bytes, e) ==
  /\ Fits(bytes)
  /\ e = [chunk |-> Len(chunks), off |-> used, room |-> bytes]
  /\ exts' = exts \cup {e}
  /\ used' = used + Aligned(bytes)
  /\ avail' = avail - Aligned(bytes)
  /\ UNCHANGED <<chunks, max, heap>>

CarveNewChunk(bytes, e) ==
  /\ ~Fits(bytes)
  /\ Len(chunks) < MaxChunks
  /\ e = [chunk |-> Len(chunks) + 1, off |-> 0, room |-> bytes]
  /\ exts' = exts \cup {e}
  /\ max' = Grown
  /\ heap' = heap + 1 + ArrayBlocks(Grown) - ArrayBlocks(max)
  /\ chunks' = Append(chunks, ChunkSize(bytes))
  /\ used' = Aligned(bytes)
  /\ avail' = ChunkSize(bytes) - Aligned(bytes)

NewExtent(bytes, e) == Carve(bytes, e) \/ CarveNewChunk(bytes, e)

(* The extent that the next allocation of this size returns. *)
NextExtent(bytes) ==
  IF Fits(bytes) THEN [chunk |-> Len(chunks), off |-> used, room |-> bytes]
                 ELSE [chunk |-> Len(chunks) + 1, off |-> 0, room |-> bytes]

(* MqttBuffer_AllocExtent: the caller gets an extent and may link it later. *)
AllocExtent(bytes) ==
  /\ Cardinality(exts) < MaxExts
  /\ NewExtent(bytes, NextExtent(bytes))
  /\ UNCHANGED <<list, buffered>>

(***************************************************************************)
(* MqttBuffer_AllocExtent, NULL: the array's malloc fails and nothing has  *)
(* changed, or the chunk's fails and the larger array stays.               *)
(***************************************************************************)
AllocFails(bytes) ==
  /\ ~Fits(bytes)
  /\ \/ Len(chunks) = max /\ UNCHANGED <<max, heap>>
     \/ /\ max' = Grown
        /\ heap' = heap + ArrayBlocks(Grown) - ArrayBlocks(max)
  /\ UNCHANGED <<chunks, avail, used, exts, list, buffered>>

-----------------------------------------------------------------------------
(* MqttBuffer_AppendExtent. *)
LinkUncounted(e, len) ==
  /\ list' = Append(list, [ext |-> e, len |-> len])
  /\ UNCHANGED buffered

Link(e, len) ==
  /\ list' = Append(list, [ext |-> e, len |-> len])
  /\ buffered' = buffered + len

Linked(e) == \E i \in DOMAIN list : list[i].ext = e

(* An extent that was allocated earlier, its len adjusted (fix_head->len). *)
AppendExtent(e, len) ==
  /\ ~Linked(e)
  /\ len <= e.room
  /\ Link(e, len)
  /\ UNCHANGED <<chunks, max, avail, used, exts, heap>>

(* MqttBuffer_Append: a copy of the data (own), or a reference to it in an *)
(* extent with sizeof(struct MqttExtent) bytes of its own.                 *)
Append_(size, own) ==
  LET bytes == IF own THEN size ELSE Header
  IN  /\ Cardinality(exts) < MaxExts
      /\ NewExtent(bytes, NextExtent(bytes))
      /\ Link(NextExtent(bytes), size)

-----------------------------------------------------------------------------
(* Mutant: the array of chunk pointers is not freed. *)
ResetKeepsArray ==
  /\ chunks' = <<>>
  /\ max' = 0
  /\ avail' = 0
  /\ used' = 0
  /\ exts' = {}
  /\ list' = <<>>
  /\ buffered' = 0
  /\ heap' = heap - Len(chunks)

(* MqttBuffer_Reset (and _Destroy): every chunk and the array are freed,   *)
(* then MqttBuffer_Init.                                                   *)
Reset ==
  /\ chunks' = <<>>
  /\ max' = 0
  /\ avail' = 0
  /\ used' = 0
  /\ exts' = {}
  /\ list' = <<>>
  /\ buffered' = 0
  /\ heap' = heap - Len(chunks) - ArrayBlocks(max)

Next ==
  \/ \E bytes \in Sizes : AllocExtent(bytes) \/ AllocFails(bytes)
  \/ \E e \in exts : \E len \in Sizes : AppendExtent(e, len)
  \/ \E size \in Sizes : \E own \in BOOLEAN : Append_(size, own)
  \/ Reset

Spec == Init /\ [][Next]_vars

-----------------------------------------------------------------------------
TypeOK ==
  /\ chunks \in Seq(Nat)
  /\ max \in Nat
  /\ avail \in Nat
  /\ used \in Nat
  /\ exts \subseteq Extent
  /\ list \in Seq([ext : Extent, len : Nat])
  /\ buffered \in Nat
  /\ heap \in Int

(***************************************************************************)
(* mqtt_buffer.c:71: the pointer to a new chunk is stored inside the       *)
(* array, also after a growth whose chunk could not be allocated.          *)
(***************************************************************************)
SlotsSuffice == Len(chunks) <= max

(***************************************************************************)
(* mqtt_buffer.c:79-81, 101-102: every extent, header and payload, lies    *)
(* inside a chunk that the buffer still owns.                              *)
(***************************************************************************)
ExtentsInside ==
  \A e \in exts :
    /\ e.chunk \in DOMAIN chunks
    /\ e.off + Header + e.room <= chunks[e.chunk]

(***************************************************************************)
(* mqtt_buffer.c:79-85: no two extents share a byte, so filling one while  *)
(* a packet is packed never damages another.                               *)
(***************************************************************************)
Apart(e, f) == \/ e.chunk # f.chunk
               \/ e.off + Header + e.room <= f.off
               \/ f.off + Header + f.room <= e.off

ExtentsDisjoint == \A e, f \in exts : e # f => Apart(e, f)

(***************************************************************************)
(* mqtt_buffer.c:26-36, 45-74: the buffer owns all the memory it has taken *)
(* from malloc: nothing is lost when an allocation fails half way, and a   *)
(* reset gives back everything.                                            *)
(***************************************************************************)
NoLeak == heap = Len(chunks) + ArrayBlocks(max)

Total(extents) == FoldSeq(LAMBDA x, sum : x.len + sum, 0, extents)

(***************************************************************************)
(* mqtt_buffer.c:129: buffered_bytes, with which the callers decide        *)
(* whether a packet has been sent completely, is the length of the packet. *)
(***************************************************************************)
BufferedIsTotal == buffered = Total(list)
=============================================================================
