--------------------------- MODULE ParseResponse ---------------------------
(***************************************************************************)
(* parse_response (protocol/rwk35.py): from the frame that was received to *)
(* the list of points.  The device encodes objects, each a header and      *)
(* samples; of a long response the frame holds only the first bytes, and   *)
(* on the way bits of the frame's header may turn.  The parser's loops are *)
(* steps here, so that every read can be held against the end of app.      *)
(* A value is the bytes it is decoded from and its factor; which values    *)
(* are different when they are rounded to three digits is a parameter.     *)
(* Names, which follow from ids, and the time stamp are left out.          *)
(***************************************************************************)
EXTENDS Framing, SequencesExt

CONSTANTS
    Messages,           \* [func, objects, cut, damage], what the device may send
    Differs(_, _)       \* != of the values of two readings, true of a NaN and itself

VARIABLES
    message,            \* history: what was sent
    data,               \* the frame that was received
    mode,               \* frame, header (of an object), points or done
    app,                \* the payload, with what is left of its CRCs
    i,                  \* bytes of app that have been read
    object,             \* the object whose points are being read
    points

vars == <<message, data, mode, app, i, object, points>>

\* Bytes of a point after its flag, and the qualifiers of its object.
Kinds ==
    [binary |-> [group |-> 1,  var |-> 2, rest |-> 0, qualifiers |-> {0, 1}],
     float  |-> [group |-> 30, var |-> 5, rest |-> 4, qualifiers |-> {0, 1}],
     short  |-> [group |-> 30, var |-> 2, rest |-> 2, qualifiers |-> {0, 1}],
     event  |-> [group |-> 2,  var |-> 2, rest |-> 6, qualifiers |-> {40}]]

\* An event carries its index.
PointSize(kind) == 1 + Kinds[kind].rest + (IF kind = "event" THEN 2 ELSE 0)

RangeSize(qualifier) == IF qualifier = 1 THEN 4 ELSE 2

Reading(kind, id, flag, rest) ==
    LET binary == kind \in {"binary", "event"}
    IN [type           |-> IF binary THEN "binary" ELSE "analog",
        id             |-> id,
        value          |-> IF binary THEN <<flag \div 128>> ELSE rest,
        factor         |-> IF ~binary /\ id \in {2012, 2013, 2015} THEN 1000 ELSE 1,
        quality_online |-> flag % 2 = 1]

-----------------------------------------------------------------------------
(* The device and the line.                                                *)

EncodeRange(o) ==
    LET first == o.samples[1].id
        last  == first + Len(o.samples) - 1
    IN CASE o.qualifier = 0  -> <<first, last>>
         [] o.qualifier = 1  -> LE(first) \o LE(last)
         [] o.qualifier = 40 -> LE(Len(o.samples))

EncodeSample(kind, s) ==
    (IF kind = "event" THEN LE(s.id) ELSE <<>>) \o <<s.flag>> \o s.rest

\* An object that the parser does not know, and noise, are their bytes.
EncodeHeader(o) ==
    IF o.kind \in DOMAIN Kinds
    THEN <<Kinds[o.kind].group, Kinds[o.kind].var, o.qualifier>> \o EncodeRange(o)
    ELSE o.bytes

Encode(o) ==
    EncodeHeader(o) \o
        FlattenSeq([k \in DOMAIN o.samples |-> EncodeSample(o.kind, o.samples[k])])

\* Transport and application control, function code, indications, objects.
Fragment(m) ==
    <<192, 192, m.func, 0, 0>> \o FlattenSeq([k \in DOMAIN m.objects |-> Encode(m.objects[k])])

\* The bits of the header that turn on the way, as <<byte, bit>>.
Turned(byte, bits) == IF bits = {} THEN byte ELSE NumberOf(SymDiff(BitsOf(byte, 8), bits))

Received(m) ==
    LET frame == build_frame(1, 2, SubSeq(Fragment(m), 1, m.cut))
    IN [k \in DOMAIN frame |->
          Turned(frame[k], {b \in 0..7 : <<k, b>> \in m.damage})]

\* A response that is cut off at most, in objects of which some are unknown.
Answers(m) ==
    /\ m.damage = {}
    /\ m.func \in {129, 130}
    /\ m.cut >= 5
    /\ \A k \in DOMAIN m.objects : m.objects[k].kind # "noise"

\* What is in such a response: numbers of two bytes at most, and the indexes of a
\* range follow each other.
TwoBytes(n) == n \in Nat /\ n \div 256 \in Byte

Sample(kind, s) ==
    /\ TwoBytes(s.id) /\ s.flag \in Byte
    /\ s.rest \in Seq(Byte) /\ Len(s.rest) = Kinds[kind].rest

InRange(o) ==
    /\ Len(o.samples) > 0
    /\ \A k \in DOMAIN o.samples : o.samples[k].id = o.samples[1].id + k - 1
    /\ o.qualifier = 0 => o.samples[1].id + Len(o.samples) - 1 \in Byte

KnownObject(o) ==
    /\ o.qualifier \in Kinds[o.kind].qualifiers
    /\ TwoBytes(Len(o.samples)) /\ DOMAIN o.samples = 1..Len(o.samples)
    /\ \A k \in DOMAIN o.samples : Sample(o.kind, o.samples[k])
    /\ o.qualifier # 40 => InRange(o)

UnknownObject(o) ==
    /\ o.samples = <<>>
    /\ o.bytes \in Seq(Byte) /\ Len(o.bytes) >= 3
    /\ \A kind \in DOMAIN Kinds :
          \/ o.bytes[1] # Kinds[kind].group
          \/ o.bytes[2] # Kinds[kind].var
          \/ o.bytes[3] \notin Kinds[kind].qualifiers

WellFormed(m) ==
    /\ Len(m.objects) \in Nat /\ DOMAIN m.objects = 1..Len(m.objects)
    /\ \A k \in DOMAIN m.objects :
          IF m.objects[k].kind \in DOMAIN Kinds THEN KnownObject(m.objects[k])
                                                ELSE UnknownObject(m.objects[k])
    /\ m.cut \in 0..Len(Fragment(m))

\* What a socket gives are bytes, and what answers is a DNP3 device.
ASSUME BytesAssumption == \A m \in Messages : Received(m) \in Seq(Byte)
ASSUME DeviceAssumption == \A m \in Messages : Answers(m) => WellFormed(m)

-----------------------------------------------------------------------------
(* The parser.                                                             *)

NoObject == [kind |-> "binary", next |-> 0, left |-> 0]

Init ==
    /\ message \in Messages
    /\ data = Received(message)
    /\ mode = "frame"
    /\ app = <<>>
    /\ i = 0
    /\ object = NoObject
    /\ points = <<>>

\* app[k].  Past the end Python raises; InBounds says that this never happens.
At(k)   == IF k < Len(app) THEN app[k + 1] ELSE 0
Word(k) == At(k) + 256 * At(k + 1)

\* Mutant: no CRC check.
LooksLikeResponse(stripped) ==
    /\ Len(data) >= 10
    /\ Len(stripped) >= 5
    /\ stripped[3] \in {129, 130}

IsResponse(stripped) ==
    /\ validate_header_crc(data)
    /\ Len(stripped) >= 5
    /\ stripped[3] \in {129, 130}

Begin ==
    /\ mode = "frame"
    /\ LET stripped == strip_crc_blocks(SubSeq(data, 11, Len(data)))
       IN \/ /\ IsResponse(stripped)
             /\ app' = stripped
             /\ i' = 5
             /\ mode' = "header"
          \/ /\ ~IsResponse(stripped)
             /\ mode' = "done"
             /\ UNCHANGED <<app, i>>
    /\ UNCHANGED <<message, data, object, points>>

\* The object whose header is at i, if the parser knows its kind.
Matches(kind) ==
    /\ At(i) = Kinds[kind].group
    /\ At(i + 1) = Kinds[kind].var
    /\ At(i + 2) \in Kinds[kind].qualifiers

BeginObject(kind) ==
    /\ mode = "header"
    /\ i + 3 <= Len(app)
    /\ Matches(kind)
    /\ i + 3 + RangeSize(At(i + 2)) <= Len(app)
    /\ object' =
         CASE At(i + 2) = 0  -> [kind |-> kind, next |-> At(i + 3),
                                 left |-> At(i + 4) - At(i + 3) + 1]
           [] At(i + 2) = 1  -> [kind |-> kind, next |-> Word(i + 3),
                                 left |-> Word(i + 5) - Word(i + 3) + 1]
           [] At(i + 2) = 40 -> [kind |-> kind, next |-> 0, left |-> Word(i + 3)]
    /\ i' = i + 3 + RangeSize(At(i + 2))
    /\ mode' = "points"
    /\ UNCHANGED <<message, data, app, points>>

\* Mutant: an unknown object is not left with a break.
StopParsingNever ==
    /\ mode = "header"
    /\ i + 3 > Len(app)
    /\ mode' = "done"
    /\ UNCHANGED <<message, data, app, i, object, points>>

\* No room for a header, an unknown object, or its range is cut off.
StopParsing ==
    /\ mode = "header"
    /\ \/ i + 3 > Len(app)
       \/ \A kind \in DOMAIN Kinds : ~Matches(kind)
       \/ i + 3 + RangeSize(At(i + 2)) > Len(app)
    /\ mode' = "done"
    /\ UNCHANGED <<message, data, app, i, object, points>>

\* Mutant: the first report of an index is not counted.
CountedFromZero(reading) ==
    LET earlier == {k \in DOMAIN points : points[k].reading.id = reading.id}
    IN [reading |-> reading, count_update |-> Cardinality(earlier), change_count |-> 0]

\* _update_counts, _change_counts and _last_values, by index, of this call.
Counted(reading) ==
    LET earlier == {k \in DOMAIN points : points[k].reading.id = reading.id}
        last    == points[Max(earlier)]
    IN IF earlier = {}
       THEN [reading |-> reading, count_update |-> 1, change_count |-> 0]
       ELSE [reading |-> reading,
             count_update |-> last.count_update + 1,
             change_count |-> last.change_count +
                 IF Differs(last.reading, reading) THEN 1 ELSE 0]

\* Mutant: the room for a point is checked for its first byte only.
RoomForFirstByte(kind) == i < Len(app)

Room(kind) == i + PointSize(kind) <= Len(app)

NextPoint ==
    /\ mode = "points"
    /\ object.left > 0
    /\ Room(object.kind)
    /\ LET event == object.kind = "event"
           flag  == IF event THEN i + 2 ELSE i
           rest  == [k \in 1..Kinds[object.kind].rest |-> At(flag + k)]
           id    == IF event THEN Word(i) ELSE object.next
       IN points' = Append(points, Counted(Reading(object.kind, id, At(flag), rest)))
    /\ i' = i + PointSize(object.kind)
    /\ object' = [object EXCEPT !.next = @ + 1, !.left = @ - 1]
    /\ UNCHANGED <<message, data, mode, app>>

\* Mutant: a cut-off object drops the points before it.
EndObjectEmpty ==
    /\ mode = "points"
    /\ object.left <= 0 \/ ~Room(object.kind)
    /\ mode' = "header"
    /\ points' = IF object.left > 0 THEN <<>> ELSE points
    /\ UNCHANGED <<message, data, app, i, object>>

\* All points of the object are read, or the rest is cut off; then the outer
\* loop goes on with the bytes that are left.
EndObject ==
    /\ mode = "points"
    /\ object.left <= 0 \/ ~Room(object.kind)
    /\ mode' = "header"
    /\ UNCHANGED <<message, data, app, i, object, points>>

Next ==
    \/ Begin
    \/ \E kind \in DOMAIN Kinds : BeginObject(kind)
    \/ StopParsing
    \/ NextPoint
    \/ EndObject

Spec == Init /\ [][Next]_vars

\* The parser does not wait for anyone.
FairSpec == Spec /\ WF_vars(Next)

-----------------------------------------------------------------------------
(* Properties.                                                             *)

TypeOK ==
    /\ mode \in {"frame", "header", "points", "done"}
    /\ app \in Seq(Byte)
    /\ i \in Nat
    /\ object \in [kind : DOMAIN Kinds, next : Nat, left : Int]
    /\ \A k \in DOMAIN points :
          points[k].count_update \in 1..Len(points) /\ points[k].change_count \in Nat

\* No byte beyond the end of app is read, whatever the bytes are, so that the
\* parser never raises (rwk35.py:224-427).
InBounds == i <= Len(app)

\* The readings of the frame, in order, as far as they arrived whole; nothing
\* that follows an object that the parser does not know counts.
WhollyReceived(m) ==
    LET encoded == [k \in DOMAIN m.objects |-> Encode(m.objects[k])]
        start(n) == 5 + Len(FlattenSeq(SubSeq(encoded, 1, n - 1)))
        known   == {n \in DOMAIN m.objects :
                      \A k \in 1..n : m.objects[k].kind \in DOMAIN Kinds}
        arrived(n, k) ==
            start(n) + Len(EncodeHeader(m.objects[n])) + k * PointSize(m.objects[n].kind)
                <= m.cut
        readings(n) ==
            LET o     == m.objects[n]
                count == Cardinality({k \in DOMAIN o.samples : arrived(n, k)})
            IN [k \in 1..count |->
                  Reading(o.kind, o.samples[k].id, o.samples[k].flag, o.samples[k].rest)]
    IN FlattenSeq([n \in 1..Cardinality(known) |-> readings(n)])

Readings == [k \in DOMAIN points |-> points[k].reading]

Whole(m) == Answers(m) /\ m.cut = Len(Fragment(m))

\* The reports of the index of p[k] before it.
Earlier(p, k) == {l \in 1..k - 1 : p[l].reading.id = p[k].reading.id}

\* Those up to p[k] whose value differs from that of the report before.
Changes(p, k) == {l \in Earlier(p, k) \cup {k} :
    Earlier(p, l) # {} /\ Differs(p[Max(Earlier(p, l))].reading, p[l].reading)}

\* However the reports of several indexes are mixed, each index counts its own.
CountedByIndex ==
    \A k \in DOMAIN points :
        /\ points[k].count_update = Cardinality(Earlier(points, k)) + 1
        /\ points[k].change_count = Cardinality(Changes(points, k))

\* A response that fits its frame is parsed into what the device encoded, and
\* an index that is reported again counts on; the CRC that strip_crc_blocks
\* leaves behind never becomes a point (rwk35.py:75-82, 203-456).
Faithful ==
    mode = "done" /\ Whole(message) =>
        /\ Readings = WhollyReceived(message)
        /\ CountedByIndex

\* Of a response that is cut off, no point that arrived is lost or moved,
\* wherever the cut is (rwk35.py:240, 266, 295, 427).
CutKeepsPoints ==
    mode = "done" /\ Answers(message) => IsPrefix(WhollyReceived(message), Readings)

\* A header in which one or two bits have turned yields no point
\* (rwk35.py:146, 204).
DamageRefused == message.damage # {} => points = <<>>

\* Every received frame is parsed to an end (rwk35.py:224-454).
Terminates == <>(mode = "done")

\* What the name of strip_crc_blocks says (rwk35.py:75, 207): app is the payload
\* without its CRCs, so that nothing becomes a point but what was sent as one.
OnlySentPoints ==
    mode = "done" /\ Answers(message) => Readings = WhollyReceived(message)
=============================================================================
