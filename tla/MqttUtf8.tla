------------------------------ MODULE MqttUtf8 ------------------------------
(***************************************************************************)
(* Mqtt_CheckUtf8 (mqtt/sdk/mqtt.c:219-304), which decides about topics,   *)
(* user names and data points.  It goes through the text character by      *)
(* character, but hands Mqtt_IsLegalUtf8 the beginning of the text each    *)
(* time, with the length of the character it is at.                        *)
(*                                                                         *)
(* char is unsigned, as on the ARM target.  The callers accept a text when *)
(* the result is its length.                                               *)
(***************************************************************************)
EXTENDS Integers, Sequences

CONSTANTS
  Bytes,  \* what texts are made of
  MaxText \* bound: bytes of a text

ASSUME MqttUtf8Assumption == Bytes \subseteq 0 .. 255 /\ MaxText \in Nat

VARIABLES
  str,
  pos,    \* i
  verdict \* "busy", "refused", "end": returns pos

utf8Vars == <<str, pos, verdict>>

-----------------------------------------------------------------------------
Trail == 128 .. 191

(* Mqtt_TrailingBytesForUTF8 + 1. *)
CharLen(b) ==
  IF b < 192 THEN 1
  ELSE IF b < 224 THEN 2
  ELSE IF b < 240 THEN 3
  ELSE IF b < 248 THEN 4
  ELSE IF b < 252 THEN 5
  ELSE 6

(* Mutant: the lowest second byte of F0 is taken for that of E0, too. *)
IsLegalUtf8Low(s, n) ==
  /\ n \in 1 .. 4
  /\ \A k \in 2 .. n : s[k] \in Trail
  /\ n > 1 => /\ s[1] = 224 => s[2] >= 144
              /\ s[1] = 237 => s[2] <= 159
              /\ s[1] = 240 => s[2] >= 144
              /\ s[1] = 244 => s[2] <= 143
  /\ s[1] \notin 128 .. 193
  /\ s[1] <= 244

IsLegalUtf8(s, n) ==
  /\ n \in 1 .. 4
  /\ \A k \in 2 .. n : s[k] \in Trail
  /\ n > 1 => /\ s[1] = 224 => s[2] >= 160
              /\ s[1] = 237 => s[2] <= 159
              /\ s[1] = 240 => s[2] >= 144
              /\ s[1] = 244 => s[2] <= 143
  /\ s[1] \notin 128 .. 193
  /\ s[1] <= 244

-----------------------------------------------------------------------------
(***************************************************************************)
(* Mqtt_CheckUtf8.                                                         *)
(***************************************************************************)
Utf8Init ==
  /\ str \in UNION { [1 .. n -> Bytes] : n \in 0 .. MaxText }
  /\ pos = 0
  /\ verdict = "busy"

Here == CharLen(str[pos + 1])

Passes == pos + Here <= Len(str) /\ IsLegalUtf8(str, Here)

NotUtf8 ==
  /\ verdict = "busy"
  /\ pos < Len(str)
  /\ ~Passes
  /\ verdict' = "refused"
  /\ UNCHANGED <<str, pos>>

(* A NUL inside the text ends it; what lies behind the text does not matter. *)
NextChar ==
  /\ verdict = "busy"
  /\ pos < Len(str)
  /\ Passes
  /\ pos' = pos + Here
  /\ verdict' = IF pos' < Len(str) /\ str[pos' + 1] # 0 THEN "busy" ELSE "end"
  /\ UNCHANGED str

Empty ==
  /\ verdict = "busy"
  /\ str = <<>>
  /\ verdict' = "end"
  /\ UNCHANGED <<str, pos>>

Utf8Next == NotUtf8 \/ NextChar \/ Empty

Utf8Spec == Utf8Init /\ [][Utf8Next]_utf8Vars

-----------------------------------------------------------------------------
Utf8TypeOK ==
  /\ str \in Seq(Bytes)
  /\ pos \in 0 .. Len(str)
  /\ verdict \in {"busy", "refused", "end"}

Accepted == verdict = "end" /\ pos = Len(str)

(* The characters that two, three and four bytes encode by RFC 3629. *)
Two(a, b) == 64 * (a - 192) + (b - 128)
Three(a, b, c) == 4096 * (a - 224) + 64 * (b - 128) + (c - 128)
Four(a, b, c, d) == 262144 * (a - 240) + 4096 * (b - 128) + 64 * (c - 128) + (d - 128)

Surrogate(c) == c >= 55296 /\ c <= 57343

(* The first n bytes are a character, not longer than necessary, no
   surrogate, nothing above 10FFFF. *)
Encodes(s, n) ==
  /\ \A k \in 2 .. n : s[k] \in Trail
  /\ \/ n = 1 /\ s[1] < 128
     \/ n = 2 /\ Two(s[1], s[2]) >= 128
     \/ n = 3 /\ Three(s[1], s[2], s[3]) >= 2048 /\ ~Surrogate(Three(s[1], s[2], s[3]))
     \/ n = 4 /\ Four(s[1], s[2], s[3], s[4]) >= 65536
              /\ Four(s[1], s[2], s[3], s[4]) <= 1114111

(***************************************************************************)
(* mqtt.c:219-304.  Of a text of one character the verdict is right, ASCII *)
(* other than NUL is never refused, and what is accepted begins with a     *)
(* character.  No more than that: line 292 looks at the beginning of the   *)
(* text for every character of it.                                         *)
(***************************************************************************)
TextJudged ==
  /\ verdict # "busy" /\ str # <<>> /\ CharLen(str[1]) = Len(str) =>
       (Accepted <=> Encodes(str, Len(str)))
  /\ (\A k \in DOMAIN str : str[k] \in 1 .. 127) => verdict # "refused"
  /\ Accepted /\ str # <<>> => Encodes(str, CharLen(str[1]))
=============================================================================
