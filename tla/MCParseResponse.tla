-------------------------- MODULE MCParseResponse --------------------------
(* Model-checking instances of ParseResponse: what a device may send.      *)
EXTENDS ParseResponse, TLC

Report(id, flag, rest) == [id |-> id, flag |-> flag, rest |-> rest]
Object(kind, qualifier, samples) ==
    [kind |-> kind, qualifier |-> qualifier, samples |-> samples, bytes |-> <<>>]
Bytes(kind, bytes) == [kind |-> kind, qualifier |-> 0, samples |-> <<>>, bytes |-> bytes]

\* Index 1 comes twice, with either value; the bytes of the analog values and
\* of index 513 look like headers, so that a cut can lead the parser astray.
Objects ==
    {Object("binary", 0, <<Report(1, 129, <<>>), Report(2, 1, <<>>)>>),
     Object("binary", 1, <<Report(1, 1, <<>>)>>),
     Object("float", 1, <<Report(2012, 1, <<30, 2, 0, 5>>), Report(2013, 0, <<1, 2, 0, 1>>)>>),
     Object("float", 0, <<Report(7, 1, <<1, 2, 1, 0>>)>>),
     Object("short", 0, <<Report(8, 1, <<30, 2>>), Report(9, 1, <<1, 2>>)>>),
     Object("event", 40, <<Report(513, 0, <<1, 1, 129, 1, 1, 1>>), Report(1, 129, <<1, 2, 0, 1, 2, 3>>)>>),
     Bytes("unknown", <<10, 2, 0, 1, 1, 129>>)}

Message(func, objects, cut, damage) ==
    [func |-> func, objects |-> objects, cut |-> cut, damage |-> damage]

CutMessages(func, lists) ==
    UNION {{Message(func, s, cut, {}) : cut \in 0..Len(Fragment(Message(func, s, 0, {})))}
              : s \in lists}

Lists == {<<>>} \cup {<<o>> : o \in Objects} \cup (Objects \X Objects)

\* The first byte of what follows the indications opens a known header or not.
Noise == {<<Bytes("noise", s)>> : s \in UNION {[1..n -> {0, 1, 2, 30, 40}] : n \in 3..5}}

\* Any one or two bits of the header behind 05 64.
HeaderBits == (3..10) \X (0..7)
Damages    == {{b, c} : b, c \in HeaderBits}
Damaged    == <<CHOOSE o \in Objects : o.kind = "short">>

MCMessages ==
    CutMessages(129, Lists)
    \cup CutMessages(130, {<<o>> : o \in Objects})
    \cup CutMessages(0, {<<o>> : o \in Objects})
    \cup {Message(129, s, 5 + Len(s[1].bytes), {}) : s \in {t \in Noise : t[1].bytes[2] = 2}}
    \cup {Message(129, Damaged, 16, d) : d \in Damages}

\* What Python compares, as far as these messages tell values apart: a float this
\* small is rounded to 0, True is 1, and a NaN differs from all.
Exponent(r)   == 2 * (r.value[4] % 128) + r.value[3] \div 128
IsFloat(r)    == Len(r.value) = 4
NotANumber(r) == IsFloat(r) /\ Exponent(r) = 255 /\ (r.value[3] % 128) + r.value[2] + r.value[1] > 0
Rounded(r) ==
    CASE IsFloat(r) /\ Exponent(r) < 106       -> <<0>>
      [] Len(r.value) = 2 /\ r.value[2] = 0 -> <<r.value[1]>>
      [] OTHER                                 -> r.value
MCDiffers(r, s) == NotANumber(r) \/ NotANumber(s) \/ Rounded(r) # Rounded(s)

\* What the code writes out is what build_frame makes of it, from master 2 to
\* outstation 1; the receiver asks for exactly the bytes of a frame.
ASSUME WrittenFramesFit ==
    \A frame \in {CLOSE_FRAME, TRIP_FRAME} :
        frame = build_frame(2, 1, SubSeq(frame, 11, 26) \o SubSeq(frame, 29, 33))
ASSUME LengthFits ==
    \A n \in 0..250 : PayloadSize(5 + n) = Len(WithBlockCrcs([k \in 1..n |-> k]))
=============================================================================
