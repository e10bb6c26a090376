-------------------------------- MODULE Pprz --------------------------------
(***************************************************************************)
(* The framing of the telemetry line (pprz.cpp): a packet is a start byte, *)
(* its length, its payload and two checksums over length and payload.      *)
(* Strings of bytes begin at 1: circularBuffer_peek(cb, i) is q[i + 1].    *)
(***************************************************************************)
EXTENDS Integers, SequencesExt

CONSTANTS
  ByteMod,           \* the values of a uint8_t: 256
  PPRZ_STX,          \* the start byte: 0x99
  PPRZ_ALIVE_MSG_ID,
  PPRZ_RANGE_MSG_ID

ByteValue == 0 .. ByteMod - 1

ASSUME PprzAssumption ==
  /\ ByteMod \in Nat /\ ByteMod > 8
  /\ {PPRZ_STX, PPRZ_ALIVE_MSG_ID, PPRZ_RANGE_MSG_ID} \subseteq ByteValue

MinPacket == 5

\* Mutant: the sums are wider than a uint8_t.
ChecksumsWide(s) ==
  LET x == FoldLeft(LAMBDA y, c : <<y[1] + c, y[2] + y[1] + c>>, <<0, 0>>, s) IN x

\* checksumA is the sum of the bytes, checksumB the sum of the values A goes through.
Checksums(s) ==
  LET x == FoldLeft(LAMBDA y, c : [a |-> (y.a + c) % ByteMod,
                                   b |-> (y.b + y.a + c) % ByteMod],
                    [a |-> 0, b |-> 0], s)
  IN  <<x.a, x.b>>

\* The last two bytes are the checksums of those between the start byte and them.
Checked(p) ==
  SubSeq(p, Len(p) - 1, Len(p)) = Checksums(SubSeq(p, 2, Len(p) - 2))

\* Mutants: a packet that ends with the fill is not whole yet; the checksums are not looked at.
WholeTooLate(fill, m) == m[2] < fill
SoundUnchecked(m) == m[2] >= MinPacket

Whole(fill, m) == m[2] <= fill
Sound(m) == m[2] >= MinPacket /\ Checked(SubSeq(m, 1, m[2]))

\* check_pprz of a ring with the fill it has measured; m is the ring's memory from the
\* tail on.
CheckPprz(fill, m) ==
  IF fill < MinPacket THEN "SHORT"
  ELSE IF m[1] # PPRZ_STX THEN "BROKEN"
  ELSE IF ~Whole(fill, m) THEN "SHORT"
  ELSE IF Sound(m) THEN "OK" ELSE "BROKEN"

\* As main peeks at them; the comment at pprz.cpp:56-68 and the range messages have both
\* one place further to the front.
SenderId(m) == m[4]
MsgId(m) == m[5]

\* Mutant: the length does not count the checksums.
RangeMessageShort(node, src, dest, range) ==
  LET body == <<Len(range) + 6, node, PPRZ_RANGE_MSG_ID, src, dest>> \o range
  IN  <<PPRZ_STX>> \o body \o Checksums(body)

\* construct_pprz_range_message; range is the memory of the double.
RangeMessage(node, src, dest, range) ==
  LET body == <<Len(range) + 8, node, PPRZ_RANGE_MSG_ID, src, dest>> \o range
  IN  <<PPRZ_STX>> \o body \o Checksums(body)
-----------------------------------------------------------------------------
\* A whole packet: start byte, the length it says, checksums.
IsPacket(p) ==
  Len(p) >= MinPacket /\ p[1] = PPRZ_STX /\ p[2] = Len(p) /\ Checked(p)

\* The length a start byte at place i is followed by.
Claim(s, i) == IF s[i] # PPRZ_STX THEN 0 ELSE s[i + 1]

\* The packets from each place of a string of bytes on: from a packet the search goes on
\* behind it, from any other byte with the next; a start byte whose packet is not complete
\* ends it.
Search(s) ==
  LET from[i \in 1 .. Len(s) + 1] ==
        IF i + MinPacket - 1 > Len(s) \/ i + Claim(s, i) - 1 > Len(s) THEN << >>
        ELSE LET p == SubSeq(s, i, i + Claim(s, i) - 1)
             IN  IF IsPacket(p) THEN <<p>> \o from[i + Claim(s, i)] ELSE from[i + 1]
  IN  from

\* The packets in a string of bytes, looked at as a whole.
Packets(s) == Search(s)[1]
=============================================================================
