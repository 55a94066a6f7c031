------------------------------ MODULE Framing ------------------------------
(***************************************************************************)
(* The link layer of protocol/rwk35.py: checksums, frames and their CRC    *)
(* blocks.  A frame is a sequence of bytes, its first byte is frame[1].    *)
(* A set of bit positions stands for the number that has these bits, so    *)
(* that ^ is the symmetric difference.                                     *)
(***************************************************************************)
EXTENDS Integers, Sequences, FiniteSetsExt

Byte == 0..255

Least(m, n) == IF m < n THEN m ELSE n

BitsOf(n, width) == {i \in 0..width - 1 : (n \div 2^i) % 2 = 1}

NumberOf(S) == MapThenSumSet(LAMBDA i : 2^i, S)

-----------------------------------------------------------------------------
(* crc16_dnp.  The code masks its register at the end only; bits above the *)
(* 16th never come down again, so they are dropped at once here.           *)

Register == SUBSET (0..15)
Poly     == BitsOf(15717, 16)       \* 0x3D65

ShiftOnce[crc \in Register] ==
    LET shifted == {i + 1 : i \in crc \ {15}}
    IN IF 15 \in crc THEN SymDiff(shifted, Poly) ELSE shifted

AfterByte[crc \in Register, byte \in Byte] ==
    LET shifts[n \in 0..8] ==
            IF n = 0 THEN SymDiff(crc, {15 - i : i \in BitsOf(byte, 8)})
            ELSE ShiftOnce[shifts[n - 1]]
    IN shifts[8]

crc16_dnp(data) ==
    LET crc[n \in 0..Len(data)] ==
            IF n = 0 THEN {} ELSE AfterByte[crc[n - 1], data[n]]
    IN NumberOf((0..15) \ {15 - i : i \in crc[Len(data)]})

\* struct.pack("<H", n)
LE(n) == <<n % 256, (n \div 256) % 256>>

-----------------------------------------------------------------------------
(* Frames: ten bytes of header, then blocks of up to 16 bytes, each        *)
(* followed by its CRC.                                                    *)

NumBlocks(n) == (n + 15) \div 16

Block(payload, b) == SubSeq(payload, 16 * b + 1, Least(16 * b + 16, Len(payload)))

BlockCrc(payload, b) == LE(crc16_dnp(Block(payload, b)))

\* The payload with a CRC after each block: byte k is byte o of block b, or of
\* its CRC.
WithBlockCrcs(payload) ==
    LET n == Len(payload)
    IN [k \in 1..n + 2 * NumBlocks(n) |->
          LET b    == (k - 1) \div 18
              o    == (k - 1) % 18
              size == Least(16, n - 16 * b)
          IN IF o < size THEN payload[16 * b + o + 1]
             ELSE BlockCrc(payload, b)[o - size + 1]]

build_frame(src, dst, payload) ==
    LET header == <<5, 100, 5 + Len(payload), 196>> \o LE(dst) \o LE(src)
    IN header \o LE(crc16_dnp(header)) \o WithBlockCrcs(payload)

build_read_class0(src, dst, seq) ==
    LET ctrl == 192 + (seq % 16)
    IN build_frame(src, dst, <<ctrl, ctrl, 1, 60, 1, 6>>)

CLOSE_FRAME == <<5, 100, 26, 196, 1, 0, 2, 0, 79, 83, 220, 204, 5, 12, 1, 40, 1, 0,
    244, 1, 129, 1, 0, 0, 0, 0, 91, 145, 244, 1, 0, 0, 0, 14, 82>>
TRIP_FRAME == <<5, 100, 26, 196, 1, 0, 2, 0, 79, 83, 221, 205, 5, 12, 1, 40, 1, 0,
    246, 1, 129, 1, 0, 0, 0, 0, 235, 158, 244, 1, 0, 0, 0, 14, 82>>

\* The bytes that recv_dnp3_frame reads after the header, given its length byte.
PayloadSize(length) ==
    LET size == (length - 5) + NumBlocks(length - 5) * 2
    IN IF size < 0 THEN 0 ELSE size

validate_header_crc(data) ==
    Len(data) >= 10 /\ LE(crc16_dnp(SubSeq(data, 1, 8))) = SubSeq(data, 9, 10)

\* How many of n raw bytes are taken over.
Stripped(n) == (16 * (n \div 18)) + Least(16, n % 18)

\* Mutant: the payload is taken for one block.
StripOnlyTheLast(raw) == SubSeq(raw, 1, Len(raw) - 2)

\* 16 bytes are taken over and 2 skipped, and so on to the end.  A last block
\* of less than 16 bytes and its CRC fit in 16, so this CRC is taken over too.
strip_crc_blocks(raw) ==
    [j \in 1..Stripped(Len(raw)) |-> raw[18 * ((j - 1) \div 16) + ((j - 1) % 16) + 1]]
=============================================================================
