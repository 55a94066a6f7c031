------------------------------ MODULE Receive ------------------------------
(***************************************************************************)
(* One call of recv_solicited or recv_solicited_async (protocol/rwk35.py)  *)
(* on a TCP connection whose other end sends bytes when it likes, or       *)
(* closes.  A frame is hunted by its start bytes 05 64; then its header    *)
(* and its payload are read.  A frame is                                   *)
(*    final     solicited (0x81) with FIN,                                 *)
(*    partial   solicited without FIN,                                     *)
(*    other     unsolicited, too short, or not a frame at all.             *)
(* No checksum is looked at here.  Time is counted in ticks.  Who calls it *)
(* is in PollDevice.                                                       *)
(***************************************************************************)
EXTENDS Naturals

CONSTANTS
    Timeout,        \* the timeout argument, in ticks
    HeaderRest,     \* bytes of a header after 05 64
    MaxPayload      \* bytes of the longest payload

ASSUME ConstantsAssumption ==
    /\ Timeout \in Nat \ {0}
    /\ HeaderRest \in Nat \ {0}
    /\ MaxPayload \in Nat

VARIABLES
    async,          \* recv_solicited_async was called, not recv_solicited
    phase,          \* hunt, hunt05 (the 05 is there), header or payload
    need,           \* bytes that the header or the payload still lacks
    clock,          \* ticks since the call, no further than Horizon
    quiet,          \* ticks on the timer of the pending read
    kept,           \* all_resp: the last solicited frame, "none" before it
    outcome,        \* pending, final, partial, none (None) or closed (raised)
    run             \* history: how many 05 came last in the hunt: 0, 1 or 2 (more)

vars == <<async, phase, need, clock, quiet, kept, outcome, run>>

Kinds   == {"final", "partial", "other"}
Horizon == 2 * Timeout + 1

Init ==
    /\ async \in BOOLEAN
    /\ phase = "hunt"
    /\ need = 0
    /\ clock = 0
    /\ quiet = 0
    /\ kept = "none"
    /\ outcome = "pending"
    /\ run = 0

-----------------------------------------------------------------------------
(* recv_dnp3_frame and its async twin.                                     *)

\* Mutant: wait_for is put around every read.
RestartAlways == quiet' = 0

\* The timer of the read restarts with every recv of the blocking version; the
\* async version has one timer for the whole frame.
Restart == quiet' = IF async THEN quiet ELSE 0

\* A start byte is looked for.  After a 05, another 05 starts the hunt anew.
StartByte05 ==
    /\ outcome = "pending"
    /\ phase \in {"hunt", "hunt05"}
    /\ phase' = IF phase = "hunt" THEN "hunt05" ELSE "hunt"
    /\ run' = IF run < 2 THEN run + 1 ELSE run
    /\ Restart
    /\ UNCHANGED <<async, need, clock, kept, outcome>>

StartByte64 ==
    /\ outcome = "pending"
    /\ phase = "hunt05"
    /\ phase' = "header"
    /\ need' = HeaderRest
    /\ run' = 0
    /\ Restart
    /\ UNCHANGED <<async, clock, kept, outcome>>

\* Mutant: the hunt does not start anew after a wrong second byte.
NoiseKeepsStart ==
    /\ outcome = "pending"
    /\ phase \in {"hunt", "hunt05"}
    /\ run' = 0
    /\ Restart
    /\ UNCHANGED <<async, phase, need, clock, kept, outcome>>

\* Any other byte, or a 64 that does not follow the 05, is dropped.
NoiseByte ==
    /\ outcome = "pending"
    /\ phase \in {"hunt", "hunt05"}
    /\ phase' = "hunt"
    /\ run' = 0
    /\ Restart
    /\ UNCHANGED <<async, need, clock, kept, outcome>>

\* A byte of the header or the payload, but not the last one.
MoreBytes ==
    /\ outcome = "pending"
    /\ phase \in {"header", "payload"}
    /\ need > 1
    /\ need' = need - 1
    /\ Restart
    /\ UNCHANGED <<async, phase, clock, kept, outcome, run>>

\* The header is complete, and its length byte promises a payload.
HeaderComplete ==
    /\ outcome = "pending"
    /\ phase = "header"
    /\ need = 1
    /\ need' \in 1..MaxPayload
    /\ phase' = "payload"
    /\ Restart
    /\ UNCHANGED <<async, clock, kept, outcome, run>>

-----------------------------------------------------------------------------
(* recv_solicited and its async twin.                                      *)

\* What the loop makes of a frame: the last solicited one is kept.
Keep(kind) == IF kind = "other" THEN kept ELSE kind

\* The deadline is looked at between frames, and then what is kept is returned.
Outcome(kind) ==
    IF kind = "final" THEN "final"
    ELSE IF clock < Timeout THEN "pending"
    ELSE Keep(kind)

\* The last byte of a frame.  A header alone, whose length byte promises
\* nothing, is too short to be an answer.
FrameComplete(kind) ==
    /\ outcome = "pending"
    /\ phase = "payload" \/ (phase = "header" /\ kind = "other")
    /\ need = 1
    /\ phase' = "hunt"
    /\ need' = 0
    /\ run' = 0
    /\ quiet' = 0
    /\ kept' = Keep(kind)
    /\ outcome' = Outcome(kind)
    /\ UNCHANGED <<async, clock>>

\* Mutant: a timeout starts the next frame.
TimeoutIgnored ==
    /\ outcome = "pending"
    /\ quiet = Timeout
    /\ quiet' = 0
    /\ phase' = "hunt"
    /\ need' = 0
    /\ run' = 0
    /\ UNCHANGED <<async, clock, kept, outcome>>

\* Mutant: settimeout is missing.
NoTimeout ==
    /\ outcome = "pending"
    /\ quiet > Timeout
    /\ outcome' = "none"
    /\ UNCHANGED <<async, phase, need, clock, quiet, kept, run>>

\* No byte, or no frame, in time: None, whatever is kept.
TimesOut ==
    /\ outcome = "pending"
    /\ quiet = Timeout
    /\ outcome' = "none"
    /\ UNCHANGED <<async, phase, need, clock, quiet, kept, run>>

\* ConnectionError, which no caller of the frame reader catches here.
Closes ==
    /\ outcome = "pending"
    /\ outcome' = "closed"
    /\ UNCHANGED <<async, phase, need, clock, quiet, kept, run>>

Tick ==
    /\ outcome = "pending"
    /\ quiet < Timeout
    /\ quiet' = quiet + 1
    /\ clock' = IF clock < Horizon THEN clock + 1 ELSE clock
    /\ UNCHANGED <<async, phase, need, kept, outcome, run>>

Bytes ==
    \/ StartByte05 \/ StartByte64 \/ NoiseByte
    \/ MoreBytes \/ HeaderComplete
    \/ \E kind \in Kinds : FrameComplete(kind)

Next == Bytes \/ TimesOut \/ Closes \/ Tick

Spec == Init /\ [][Next]_vars

-----------------------------------------------------------------------------
(* Properties.                                                             *)

TypeOK ==
    /\ async \in BOOLEAN
    /\ phase \in {"hunt", "hunt05", "header", "payload"}
    /\ need \in 0..HeaderRest + MaxPayload
    /\ clock \in 0..Horizon
    /\ quiet \in 0..Timeout
    /\ kept \in {"none", "partial", "final"}
    /\ outcome \in {"pending", "final", "partial", "none", "closed"}
    /\ run \in 0..2

\* The async version is back within twice its timeout, however the other end
\* spreads its bytes: the deadline and the timer of the frame that overlaps it
\* add up to no more (rwk35.py:510-524).
BoundedByTwice == async /\ outcome = "pending" => clock < 2 * Timeout

\* What the bound rests on: the frame that is being read was begun before the
\* deadline, at clock - quiet.
BegunInTime == async /\ outcome = "pending" => clock < Timeout + quiet

\* A 05 that follows another byte is always taken for a start byte, and nothing
\* else is (rwk35.py:87-96).  Of a 05 that follows a 05 nothing is said: every
\* second one is dropped, and the frame that it starts is missed.
LoneStartByteCounts ==
    outcome = "pending" /\ phase \in {"hunt", "hunt05"} =>
        /\ run = 0 => phase = "hunt"
        /\ run = 1 => phase = "hunt05"
=============================================================================
