----------------------------- MODULE PacketWalk -----------------------------
(***************************************************************************)
(* OpenPGP packet framing: pgppacket.Walk and the headers it has to        *)
(* understand.                                                             *)
(*                                                                         *)
(* Packets can be long, so a stream is described by the pieces somebody    *)
(* wrote: the bytes of a header, the first bytes of a body, and how many   *)
(* body bytes there are, the others being zero.  Walk itself sees only     *)
(* Byte(s, i) and s.len, which is less than what was written when the      *)
(* stream was cut.                                                         *)
(***************************************************************************)
EXTENDS Integers, Sequences

CONSTANT Refused \* in place of a result: the error return

Big(bytes) == \* a big-endian number
  LET upto[k \in 0 .. Len(bytes)] ==
        IF k = 0 THEN 0 ELSE 256 * upto[k - 1] + bytes[k]
  IN  upto[Len(bytes)]

Bytes(n, k) == [j \in 1 .. k |-> (n \div 256 ^ (k - j)) % 256]

(***************************************************************************)
(* Writers.                                                                *)
(***************************************************************************)
NewForms == {"new1", "new2", "new5"}
OldForms == {"old1", "old2", "old4"}
OtherForms == {"partial", "indefinite", "garbage"}
Forms == NewForms \cup OldForms \cup OtherForms
Octet == 0 .. 255

FormFits(form, n) ==
  CASE form = "new1" -> n < 192
    [] form = "new2" -> n \in 192 .. 8383
    [] form = "old1" -> n < 256
    [] form = "old2" -> n < 65536
    [] OTHER -> TRUE

HeaderBytes(form, tag, n) ==
  CASE form = "new1" -> <<192 + tag, n>>
    [] form = "new2" -> <<192 + tag, 192 + (n - 192) \div 256, (n - 192) % 256>>
    [] form = "new5" -> <<192 + tag, 255>> \o Bytes(n, 4)
    [] form = "old1" -> <<128 + 4 * tag>> \o Bytes(n, 1)
    [] form = "old2" -> <<129 + 4 * tag>> \o Bytes(n, 2)
    [] form = "old4" -> <<130 + 4 * tag>> \o Bytes(n, 4)
    [] form = "partial" -> <<192 + tag, 224>>
    [] form = "indefinite" -> <<131 + 4 * tag>>
    [] form = "garbage" -> <<tag>>

Piece(form, tag, n, head) ==
  [form |-> form, tag |-> tag, n |-> n, hdr |-> HeaderBytes(form, tag, n), head |-> head]

\* What can be written: an old header has four bits for the tag, and no header
\* more than four octets for the length.
Pieces == {p \in [form : Forms, tag : 0 .. 63, n : Nat, hdr : Seq(Octet), head : Seq(Octet)] :
             /\ p = Piece(p.form, p.tag, p.n, p.head)
             /\ FormFits(p.form, p.n) /\ p.n \div 256 ^ 3 \in Octet
             /\ p.form \in OldForms \cup {"indefinite"} => p.tag < 16}

Size(p) == Len(p.hdr) + p.n

Total(ps) ==
  LET upto[j \in 0 .. Len(ps)] == IF j = 0 THEN 0 ELSE upto[j - 1] + Size(ps[j])
  IN  upto[Len(ps)]

Stream(ps, len) ==
  [pieces |-> ps, starts |-> [j \in DOMAIN ps |-> Total(SubSeq(ps, 1, j - 1))], len |-> len]

IsStream(s) == /\ s.pieces \in Seq(Pieces) /\ s.len \in 0 .. Total(s.pieces)
               /\ s = Stream(s.pieces, s.len)

\* fingerprintOf's header around a body of n bytes.
KeyHeaderLate(n) == \* mutant: one octet too long
  HeaderBytes(IF n <= 192 THEN "new1" ELSE IF n < 8384 THEN "new2" ELSE "new5", 6, n)

KeyHeader(n) ==
  HeaderBytes(IF n < 192 THEN "new1" ELSE IF n < 8384 THEN "new2" ELSE "new5", 6, n)

(***************************************************************************)
(* The reader.                                                             *)
(***************************************************************************)
Byte(s, i) ==
  LET j == CHOOSE k \in DOMAIN s.pieces :
             i \in s.starts[k] .. s.starts[k] + Size(s.pieces[k]) - 1
      p == s.pieces[j]
      at == i - s.starts[j] + 1
  IN  CASE at <= Len(p.hdr) -> p.hdr[at]
        [] at - Len(p.hdr) \in DOMAIN p.head -> p.head[at - Len(p.hdr)]
        [] OTHER -> 0

Slice(s, i, k) == [j \in 1 .. k |-> Byte(s, i + j - 1)]

\* How many bytes give the length, none if the form is not supported; l1 is
\* the byte after the first.
LengthBytes(first, l1) ==
  IF first >= 192
    THEN CASE l1 < 192 -> 1 [] l1 \in 192 .. 223 -> 2 [] l1 = 255 -> 5 [] OTHER -> 0
    ELSE CASE first % 4 = 0 -> 1 [] first % 4 = 1 -> 2 [] first % 4 = 2 -> 4 [] OTHER -> 0

BodyLengthNoBase(new, bytes) == \* mutant: two octets count from 0
  CASE new /\ Len(bytes) = 2 -> 256 * (bytes[1] - 192) + bytes[2]
    [] new /\ Len(bytes) = 5 -> Big(Tail(bytes))
    [] OTHER -> Big(bytes)

\* The length that bytes give.
BodyLength(new, bytes) ==
  CASE new /\ Len(bytes) = 2 -> 256 * (bytes[1] - 192) + bytes[2] + 192
    [] new /\ Len(bytes) = 5 -> Big(Tail(bytes))
    [] OTHER -> Big(bytes)

\* The packet of first byte first, k bytes of length and n bytes of body.  Of
\* its body the first three bytes, which is as far as any caller looks.
PacketAt(s, i, first, k, n) ==
  IF first < 128 \/ k = 0 \/ i + k >= s.len \/ i + 1 + k + n > s.len
    THEN Refused
    ELSE [tag |-> IF first >= 192 THEN first - 192 ELSE (first - 128) \div 4,
          off |-> i, hdr |-> 1 + k, n |-> n,
          body |-> Slice(s, i + 1 + k, IF n < 3 THEN n ELSE 3)]

\* One turn of the loop: the packet whose header is at i.
Packet(s, i) ==
  LET first == Byte(s, i)
      k == LengthBytes(first, IF i + 1 < s.len THEN Byte(s, i + 1) ELSE 0)
  IN  PacketAt(s, i, first, k, BodyLength(first >= 192, Slice(s, i + 1, k)))

\* What Walk finds.
Packets == [tag : 0 .. 63, off : Nat, hdr : 1 .. 6, n : Nat, body : Seq(Octet)]

ASSUME RefusedAssumption == Refused \notin Packets \cup Seq(Packets)

\* A result before the results of the rest, which may be an error.
Before(x, rest) == IF rest = Refused THEN Refused ELSE <<x>> \o rest

Walk(s) ==
  LET from[i \in Nat] ==
        IF i >= s.len THEN <<>>
        ELSE LET p == Packet(s, i)
             IN  IF p = Refused THEN Refused ELSE Before(p, from[i + p.hdr + p.n])
  IN  from[0]

(***************************************************************************)
(* What a reader should find, told from the pieces.                        *)
(***************************************************************************)
Written(s) ==
  [j \in DOMAIN s.pieces |->
    LET p == s.pieces[j]
    IN  [tag |-> p.tag, off |-> s.starts[j], hdr |-> Len(p.hdr), n |-> p.n,
         body |-> SubSeq(p.head \o <<0, 0, 0>>, 1, IF p.n < 3 THEN p.n ELSE 3)]]

Whole(s) == /\ s.len = Total(s.pieces)
            /\ \A j \in DOMAIN s.pieces : s.pieces[j].form \in NewForms \cup OldForms
=============================================================================
