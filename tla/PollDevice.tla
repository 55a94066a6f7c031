----------------------------- MODULE PollDevice -----------------------------
(***************************************************************************)
(* The two callers of Receive: poll_device (poll_reclosers.py), which is   *)
(* async, and _read_after_command (maneuvers/views.py), which blocks.      *)
(*                                                                         *)
(*   poll_device          connect, flush, READ, receive;  flush, READ,     *)
(*                        receive;  flush, close                           *)
(*   _read_after_command  connect, READ, receive, close                    *)
(*                                                                         *)
(* Each is left early with points or an exception.  Writing (drain) and    *)
(* wait_closed take a time of which the code has no limit; it is not       *)
(* counted here, and neither is what a chunk adds to a flush.              *)
(***************************************************************************)
EXTENDS Receive

CONSTANTS
    ConnectLimit,   \* timeout of the connect, in ticks
    Gap             \* silence that ends a flush, in ticks

ASSUME LimitsAssumption ==
    /\ ConnectLimit \in Nat
    /\ Gap \in Nat

VARIABLES
    stage,          \* connect, flush, send, receive, close or over
    attempt,        \* READs that were sent
    wait,           \* ticks on the timer of the connect or the flush
    eof,            \* the other end has closed
    result,         \* none (yet), points, empty or error
    spent           \* ticks since the call that count

receiver == <<phase, need, clock, quiet, kept, outcome, run>>
pvars    == <<async, receiver, stage, attempt, wait, eof, result, spent>>

\* What the timers of a poll add up to.
PollLimit == ConnectLimit + 2 * (2 * Timeout) + 3 * Gap

PollInit ==
    /\ async \in BOOLEAN
    /\ phase = "hunt" /\ need = 0 /\ clock = 0 /\ quiet = 0
    /\ kept = "none" /\ outcome = "none" /\ run = 0
    /\ stage = "connect"
    /\ attempt = 0
    /\ wait = 0
    /\ eof = FALSE
    /\ result = "none"
    /\ spent = 0

\* spent is cut off where the limit is passed.
Spend == spent' = IF spent <= PollLimit THEN spent + 1 ELSE spent

Leave(r) ==
    /\ stage' = "close"
    /\ result' = r

Flush ==
    /\ stage' = "flush"
    /\ wait' = 0
    /\ UNCHANGED result

-----------------------------------------------------------------------------
(* Before the READ.                                                        *)

Connects ==
    /\ stage = "connect"
    /\ stage' = IF async THEN "flush" ELSE "send"
    /\ wait' = 0
    /\ UNCHANGED <<async, receiver, attempt, eof, result, spent>>

\* Refused, or no answer in time: there is nothing to close yet.
ConnectFails ==
    /\ stage = "connect"
    /\ stage' = "over"
    /\ result' = "error"
    /\ UNCHANGED <<async, receiver, attempt, wait, eof, spent>>

\* flush_socket_async: each chunk starts the silence anew.
FlushChunk ==
    /\ stage = "flush"
    /\ ~eof
    /\ wait' = 0
    /\ spent' = spent - wait
    /\ UNCHANGED <<async, receiver, stage, attempt, eof, result>>

\* Mutant: READ until there is an answer.
FlushEndsForEver ==
    /\ stage = "flush"
    /\ wait = Gap \/ eof
    /\ stage' = "send"
    /\ UNCHANGED <<async, receiver, attempt, wait, eof, result, spent>>

\* Mutant: the device is not asked again.
FlushEndsAtOnce ==
    /\ stage = "flush"
    /\ wait = Gap \/ eof
    /\ IF attempt = 0 THEN stage' = "send" /\ UNCHANGED result ELSE Leave("empty")
    /\ UNCHANGED <<async, receiver, attempt, wait, eof, spent>>

\* There are two attempts.
FlushEnds ==
    /\ stage = "flush"
    /\ wait = Gap \/ eof
    /\ IF attempt < 2 THEN stage' = "send" /\ UNCHANGED result ELSE Leave("empty")
    /\ UNCHANGED <<async, receiver, attempt, wait, eof, spent>>

\* The connection is reset while a flush reads or a READ is written; sendall
\* may also time out.
LineBreaks ==
    /\ stage \in {"flush", "send"}
    /\ Leave("error")
    /\ eof' = TRUE
    /\ UNCHANGED <<async, receiver, attempt, wait, spent>>

\* The READ is out, and recv_solicited[_async] is called.
SendRead ==
    /\ stage = "send"
    /\ stage' = "receive"
    /\ attempt' = attempt + 1
    /\ phase' = "hunt" /\ need' = 0 /\ clock' = 0 /\ quiet' = 0
    /\ kept' = "none" /\ outcome' = "pending" /\ run' = 0
    /\ UNCHANGED <<async, wait, eof, result, spent>>

-----------------------------------------------------------------------------
(* The answer.                                                             *)

ReceiveBytes ==
    /\ stage = "receive"
    /\ ~eof
    /\ Bytes
    /\ UNCHANGED <<stage, attempt, wait, eof, result, spent>>

ReceiveEnds ==
    /\ stage = "receive"
    /\ TimesOut \/ (eof /\ Closes)
    /\ UNCHANGED <<stage, attempt, wait, eof, result, spent>>

\* parse_response finds points in the answer, or none.
Answered(usable) ==
    /\ stage = "receive"
    /\ outcome \in {"final", "partial"}
    /\ \/ usable /\ Leave("points") /\ UNCHANGED wait
       \/ ~usable /\ async /\ Flush
       \/ ~usable /\ ~async /\ Leave("empty") /\ UNCHANGED wait
    /\ UNCHANGED <<async, receiver, attempt, eof, spent>>

\* None.
Unanswered ==
    /\ stage = "receive"
    /\ outcome = "none"
    /\ IF async THEN Flush ELSE Leave("empty") /\ UNCHANGED wait
    /\ UNCHANGED <<async, receiver, attempt, eof, spent>>

\* ConnectionError.
ReceiveRaises ==
    /\ stage = "receive"
    /\ outcome = "closed"
    /\ Leave("error")
    /\ UNCHANGED <<async, receiver, attempt, wait, eof, spent>>

\* The finally clause.  wait_closed raises when the connection was lost, and its
\* exception takes the place of the points that were read.
CloseLine ==
    /\ stage = "close"
    /\ stage' = "over"
    /\ \/ UNCHANGED result
       \/ async /\ result' = "error"
    /\ UNCHANGED <<async, receiver, attempt, wait, eof, spent>>

-----------------------------------------------------------------------------
(* The other end and time.                                                 *)

PeerCloses ==
    /\ stage \in {"flush", "send", "receive"}
    /\ ~eof
    /\ eof' = TRUE
    /\ UNCHANGED <<async, receiver, stage, attempt, wait, result, spent>>

\* A connect is given up at its limit, and a flush ends with the silence.
TimerTicks ==
    /\ \/ stage = "connect" /\ wait < ConnectLimit
       \/ stage = "flush" /\ wait < Gap /\ ~eof
    /\ wait' = wait + 1
    /\ Spend
    /\ UNCHANGED <<async, receiver, stage, attempt, eof, result>>

ReceiverTicks ==
    /\ stage = "receive"
    /\ ~eof
    /\ Tick
    /\ Spend
    /\ UNCHANGED <<stage, attempt, wait, eof, result>>

\* What does not wait for the device.
Progress ==
    \/ Connects \/ ConnectFails
    \/ FlushEnds \/ LineBreaks \/ SendRead
    \/ ReceiveEnds
    \/ \E usable \in BOOLEAN : Answered(usable)
    \/ Unanswered \/ ReceiveRaises
    \/ CloseLine
    \/ TimerTicks \/ ReceiverTicks

PollNext == Progress \/ FlushChunk \/ ReceiveBytes \/ PeerCloses

PollSpec == PollInit /\ [][PollNext]_pvars

\* Time passes, the code goes on, and what is written is taken: see PollCycle.
PollFairSpec == PollSpec /\ WF_pvars(Progress)

-----------------------------------------------------------------------------
(* Properties.                                                             *)

PollTypeOK ==
    /\ TypeOK
    /\ stage \in {"connect", "flush", "send", "receive", "close", "over"}
    /\ attempt \in 0..2
    /\ wait \in Nat
    /\ eof \in BOOLEAN
    /\ result \in {"none", "points", "empty", "error"}
    /\ spent \in Nat

\* What a cycle waits for one device is bounded by the timers of the code,
\* however the device spreads its bytes over the two answers: only chunks
\* during a flush, and a peer that takes no bytes, add to it
\* (poll_reclosers.py:42-70, rwk35.py:476-524).
PollBounded == async => spent <= PollLimit

\* The worker may tell a device that is there but has nothing to say from one
\* that is not: no points only after two READs, each answered badly or not at
\* all, and never from a connection that was found closed while it waited for an
\* answer (poll_reclosers.py:51-67, 223-244).
ResultTells == async /\ result = "empty" => attempt = 2 /\ outcome # "closed"

\* A poll ends unless the device keeps a flush going: bytes that come while an
\* answer is waited for cannot hold it up (poll_reclosers.py:40-70).
PollReturns == async => (<>[][~FlushChunk]_pvars => <>(stage = "over"))

\* The verification read ends once the device falls silent; its timeout is one
\* of silence, so it need not otherwise (views.py:66-83, rwk35.py:492-507).
ReadReturns == <>[][~ReceiveBytes /\ ~FlushChunk]_pvars => <>(stage = "over")
=============================================================================
