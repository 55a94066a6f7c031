-------------------------- MODULE PollDeviceProofs --------------------------
(***************************************************************************)
(* What TLAPS proves about Receive and PollDevice for any timeouts and any *)
(* frame sizes.                                                            *)
(***************************************************************************)
EXTENDS PollDevice, TLAPS

-----------------------------------------------------------------------------
(* The time of one answer.                                                 *)

\* The types that the bound needs.
TimeTypes ==
    /\ async \in BOOLEAN
    /\ clock \in Nat
    /\ quiet \in 0..Timeout
    /\ kept \in {"none", "partial", "final"}

\* BoundedByTwice is not inductive: it says nothing of how much of the clock
\* the frame being read has used.  BegunInTime does.
BoundInv == TimeTypes /\ BegunInTime

\* BoundInv is inductive: a byte moves no clock, a frame that leaves the call
\* pending ends before the deadline, a tick moves the clock and the timer alike.
LEMMA BoundKept == BoundInv /\ [Next]_vars => BoundInv'
<1> SUFFICES ASSUME BoundInv, [Next]_vars PROVE BoundInv'
  OBVIOUS
<1>t. /\ async \in BOOLEAN /\ Timeout \in Nat
      /\ clock \in Nat /\ quiet \in 0..Timeout
      /\ kept \in {"none", "partial", "final"}
  BY ConstantsAssumption DEF BoundInv, TimeTypes
<1>1. CASE StartByte05 \/ StartByte64 \/ NoiseByte \/ MoreBytes \/ HeaderComplete
  <2>1. async' = async /\ clock' = clock /\ outcome' = outcome /\ kept' = kept
    BY <1>1 DEF StartByte05, StartByte64, NoiseByte, MoreBytes, HeaderComplete
  <2>2. quiet' = IF async THEN quiet ELSE 0
    BY <1>1 DEF StartByte05, StartByte64, NoiseByte, MoreBytes, HeaderComplete, Restart
  <2>3. TimeTypes'
    BY <1>t, <2>1, <2>2 DEF TimeTypes
  <2>4. BegunInTime'
    <3> SUFFICES ASSUME async', outcome' = "pending" PROVE clock' < Timeout + quiet'
      BY DEF BegunInTime
    <3>1. async /\ outcome = "pending"
      BY <2>1
    <3>2. clock < Timeout + quiet
      BY <3>1 DEF BoundInv, BegunInTime
    <3>3. quiet' = quiet
      BY <2>2, <3>1
    <3> QED
      BY <2>1, <3>2, <3>3
  <2> QED
    BY <2>3, <2>4 DEF BoundInv
<1>2. ASSUME NEW kind \in Kinds, FrameComplete(kind) PROVE BoundInv'
  <2>1. /\ async' = async /\ clock' = clock /\ quiet' = 0
        /\ kept' = Keep(kind) /\ outcome' = Outcome(kind)
    BY <1>2 DEF FrameComplete
  <2>2. Keep(kind) \in {"none", "partial", "final"}
    BY <1>t DEF Keep, Kinds
  <2>3. outcome' = "pending" => clock < Timeout
    BY <2>1, <2>2 DEF Outcome
  <2>4. TimeTypes'
    BY <1>t, <2>1, <2>2 DEF TimeTypes
  <2>5. BegunInTime'
    BY <1>t, <2>1, <2>3 DEF BegunInTime
  <2> QED
    BY <2>4, <2>5 DEF BoundInv
<1>3. CASE TimesOut \/ Closes
  <2>1. outcome' # "pending" /\ UNCHANGED <<async, clock, quiet, kept>>
    BY <1>3 DEF TimesOut, Closes
  <2> QED
    BY <1>t, <2>1 DEF BoundInv, TimeTypes, BegunInTime
<1>4. CASE Tick
  <2>1. /\ quiet < Timeout /\ quiet' = quiet + 1
        /\ clock' = clock + 1 \/ clock' = clock
        /\ async' = async /\ kept' = kept /\ outcome' = outcome
    BY <1>4 DEF Tick
  <2>2. TimeTypes'
    BY <1>t, <2>1 DEF TimeTypes
  <2>3. BegunInTime'
    <3> SUFFICES ASSUME async', outcome' = "pending" PROVE clock' < Timeout + quiet'
      BY DEF BegunInTime
    <3>1. async /\ outcome = "pending"
      BY <2>1
    <3>2. clock < Timeout + quiet
      BY <3>1 DEF BoundInv, BegunInTime
    <3> QED
      BY <1>t, <2>1, <3>2
  <2> QED
    BY <2>2, <2>3 DEF BoundInv
<1>5. CASE UNCHANGED vars
  BY <1>5 DEF vars, BoundInv, TimeTypes, BegunInTime
<1> QED
  BY <1>1, <1>2, <1>3, <1>4, <1>5 DEF Next, Bytes

\* Whatever its timeout and its frames, recv_solicited_async is never pending
\* twice its timeout after the call (rwk35.py:510-524), and at every moment
\* reads a frame that was begun before the deadline.
THEOREM Bounded == Spec => [](BoundedByTwice /\ BegunInTime)
<1>1. Init => BoundInv
  BY ConstantsAssumption DEF Init, BoundInv, TimeTypes, BegunInTime
<1>2. BoundInv /\ [Next]_vars => BoundInv'
  BY BoundKept
<1>3. BoundInv => BoundedByTwice /\ BegunInTime
  BY ConstantsAssumption DEF BoundInv, TimeTypes, BegunInTime, BoundedByTwice
<1> QED
  BY <1>1, <1>2, <1>3, PTL DEF Spec
-----------------------------------------------------------------------------
(* The receiver's types, and the hunt for the start bytes.                 *)

LEMMA ReceiverTypesKept == TypeOK /\ [Next]_vars => TypeOK'
<1> SUFFICES ASSUME TypeOK, [Next]_vars PROVE TypeOK'
  OBVIOUS
<1> USE ConstantsAssumption DEF TypeOK, Restart
<1>0. Timeout \in Nat /\ Horizon \in Nat /\ HeaderRest + MaxPayload \in Nat
  BY DEF Horizon
<1>1. CASE StartByte05 \/ StartByte64 \/ NoiseByte
  BY <1>0, <1>1 DEF StartByte05, StartByte64, NoiseByte
<1>2. CASE MoreBytes \/ HeaderComplete
  BY <1>0, <1>2 DEF MoreBytes, HeaderComplete
<1>3. ASSUME NEW kind \in Kinds, FrameComplete(kind) PROVE TypeOK'
  BY <1>0, <1>3 DEF FrameComplete, Kinds, Keep, Outcome
<1>4. CASE TimesOut \/ Closes
  BY <1>4 DEF TimesOut, Closes
<1>5. CASE Tick
  BY <1>0, <1>5 DEF Tick
<1>6. CASE UNCHANGED vars
  BY <1>6 DEF vars
<1> QED
  BY <1>1, <1>2, <1>3, <1>4, <1>5, <1>6 DEF Next, Bytes

\* LoneStartByteCounts, whether or not the call is over.
HuntInStep ==
    phase \in {"hunt", "hunt05"} =>
        /\ run = 0 => phase = "hunt"
        /\ run = 1 => phase = "hunt05"

LEMMA HuntKept == TypeOK /\ HuntInStep /\ [Next]_vars => HuntInStep'
<1> SUFFICES ASSUME TypeOK, HuntInStep, [Next]_vars PROVE HuntInStep'
  OBVIOUS
<1> USE DEF HuntInStep
<1>1. CASE StartByte05
  BY <1>1 DEF StartByte05, TypeOK
<1>2. CASE StartByte64 \/ NoiseByte \/ MoreBytes \/ HeaderComplete
  BY <1>2 DEF StartByte64, NoiseByte, MoreBytes, HeaderComplete
<1>3. ASSUME NEW kind \in Kinds, FrameComplete(kind) PROVE HuntInStep'
  BY <1>3 DEF FrameComplete
<1>4. CASE TimesOut \/ Closes \/ Tick \/ UNCHANGED vars
  BY <1>4 DEF TimesOut, Closes, Tick, vars
<1> QED
  BY <1>1, <1>2, <1>3, <1>4 DEF Next, Bytes

-----------------------------------------------------------------------------
(* The time of a poll.                                                     *)

\* What is spent at most before the flush that follows the a-th READ.
Before(a) == IF a = 0 THEN ConnectLimit
             ELSE IF a = 1 THEN ConnectLimit + 2 * Timeout + Gap
             ELSE ConnectLimit + 4 * Timeout + 2 * Gap

\* Each stage has a share of the limit: PollBounded alone does not say how much
\* of it is left for the stages to come.
Shares ==
    /\ spent \in Nat
    /\ wait \in Nat
    /\ attempt \in 0..2
    /\ stage \in {"connect", "flush", "send", "receive", "close", "over"}
    /\ stage = "connect" =>
         attempt = 0 /\ spent <= wait /\ wait <= ConnectLimit
    /\ stage = "flush" =>
         wait <= spent /\ wait <= Gap /\ spent <= Before(attempt) + wait
    /\ stage = "send" => attempt < 2 /\ spent <= Before(attempt) + Gap
    /\ stage = "receive" =>
         /\ attempt > 0
         /\ clock <= 2 * Timeout
         /\ spent <= Before(attempt - 1) + Gap + clock
    /\ stage \in {"close", "over"} => spent <= PollLimit

\* The receiver's own bound is the share of one answer.
PollInv == BoundInv /\ (async => Shares)

\* The limits are numbers, and the shares of the stages add up to the limit.
LEMMA SharesAddUp ==
    /\ Timeout \in Nat /\ ConnectLimit \in Nat /\ Gap \in Nat /\ PollLimit \in Nat
    /\ Before(0) = ConnectLimit
    /\ Before(1) = ConnectLimit + 2 * Timeout + Gap
    /\ Before(2) = ConnectLimit + 4 * Timeout + 2 * Gap
    /\ PollLimit = ConnectLimit + 4 * Timeout + 3 * Gap
BY ConstantsAssumption, LimitsAssumption DEF Before, PollLimit

\* No stage goes beyond its share.
LEMMA PollInvKept == PollInv /\ [PollNext]_pvars => PollInv'
<1> SUFFICES ASSUME PollInv, [PollNext]_pvars PROVE PollInv'
  OBVIOUS
<1>s. /\ Timeout \in Nat /\ ConnectLimit \in Nat /\ Gap \in Nat /\ PollLimit \in Nat
      /\ Before(0) = ConnectLimit
      /\ Before(1) = ConnectLimit + 2 * Timeout + Gap
      /\ Before(2) = ConnectLimit + 4 * Timeout + 2 * Gap
      /\ PollLimit = ConnectLimit + 4 * Timeout + 3 * Gap
  BY SharesAddUp
<1>i. BoundInv /\ clock \in Nat /\ (async => Shares)
  BY DEF PollInv, BoundInv, TimeTypes
\* Steps that leave the receiver alone.
<1>a. ASSUME UNCHANGED <<async, receiver>>, async => Shares' PROVE PollInv'
  <2>1. UNCHANGED vars
    BY <1>a DEF receiver, vars
  <2>2. BoundInv'
    BY <1>i, <2>1, BoundKept
  <2> QED
    BY <1>a, <2>2 DEF PollInv
<1>1. CASE Connects
  <2>1. async => Shares'
    BY <1>1, <1>s, <1>i DEF Connects, Shares, receiver
  <2> QED
    BY <1>1, <1>a, <2>1 DEF Connects
<1>2. CASE ConnectFails
  <2>1. async => Shares'
    BY <1>2, <1>s, <1>i DEF ConnectFails, Shares, receiver
  <2> QED
    BY <1>2, <1>a, <2>1 DEF ConnectFails
<1>3. CASE FlushEnds
  <2>1. async => Shares'
    BY <1>3, <1>s, <1>i DEF FlushEnds, Leave, Shares, receiver
  <2> QED
    BY <1>3, <1>a, <2>1 DEF FlushEnds
<1>4. CASE LineBreaks
  <2>1. async => Shares'
    BY <1>4, <1>s, <1>i DEF LineBreaks, Leave, Shares, receiver
  <2> QED
    BY <1>4, <1>a, <2>1 DEF LineBreaks
<1>5. CASE SendRead
  <2>1. async' = async /\ clock' = 0 /\ quiet' = 0 /\ kept' = "none"
    BY <1>5 DEF SendRead
  <2>2. BoundInv'
    BY <1>s, <1>i, <2>1, ConstantsAssumption DEF BoundInv, TimeTypes, BegunInTime
  <2>3. async => Shares'
    BY <1>5, <1>s, <1>i, <2>1 DEF SendRead, Shares
  <2> QED
    BY <2>1, <2>2, <2>3 DEF PollInv
<1>6. CASE ReceiveBytes \/ ReceiveEnds
  <2>1. Next /\ UNCHANGED <<async, clock, stage, attempt, wait, spent>>
    BY <1>6 DEF ReceiveBytes, ReceiveEnds, Next, Bytes, TimesOut, Closes, StartByte05,
       StartByte64, NoiseByte, MoreBytes, HeaderComplete, FrameComplete
  <2>2. BoundInv'
    BY <1>i, <2>1, BoundKept
  <2>3. async => Shares'
    BY <1>i, <2>1 DEF Shares, Before, PollLimit
  <2> QED
    BY <2>1, <2>2, <2>3 DEF PollInv
<1>7. ASSUME NEW usable \in BOOLEAN, Answered(usable) PROVE PollInv'
  <2>1. async => Shares'
    BY <1>7, <1>s, <1>i DEF Answered, Leave, Flush, Shares, receiver
  <2> QED
    BY <1>7, <1>a, <2>1 DEF Answered
<1>8. CASE Unanswered
  <2>1. async => Shares'
    BY <1>8, <1>s, <1>i DEF Unanswered, Leave, Flush, Shares, receiver
  <2> QED
    BY <1>8, <1>a, <2>1 DEF Unanswered
<1>9. CASE ReceiveRaises
  <2>1. async => Shares'
    BY <1>9, <1>s, <1>i DEF ReceiveRaises, Leave, Shares, receiver
  <2> QED
    BY <1>9, <1>a, <2>1 DEF ReceiveRaises
<1>10. CASE CloseLine
  <2>1. async => Shares'
    BY <1>10, <1>s, <1>i DEF CloseLine, Shares, receiver
  <2> QED
    BY <1>10, <1>a, <2>1 DEF CloseLine
<1>11. CASE TimerTicks
  <2>1. async => Shares'
    BY <1>11, <1>s, <1>i DEF TimerTicks, Spend, Shares, receiver
  <2> QED
    BY <1>11, <1>a, <2>1 DEF TimerTicks
\* A tick of the receiver moves its clock and what is spent alike: the clock is
\* not at its horizon, for the call is pending.
<1>12. CASE ReceiverTicks
  <2>1. Tick /\ stage = "receive" /\ Spend /\ UNCHANGED <<async, stage, attempt, wait>>
    BY <1>12 DEF ReceiverTicks, Tick
  <2>2. BoundInv'
    BY <1>i, <2>1, BoundKept DEF Next
  <2>3. ASSUME async PROVE Shares'
    <3>1. clock < 2 * Timeout
      BY <1>s, <1>i, <2>1, <2>3 DEF BoundInv, TimeTypes, BegunInTime, Tick
    <3>2. clock' = clock + 1
      BY <1>s, <1>i, <2>1, <3>1 DEF Tick, Horizon
    <3> QED
      BY <1>s, <1>i, <2>1, <2>3, <3>1, <3>2 DEF Spend, Shares
  <2> QED
    BY <2>1, <2>2, <2>3 DEF PollInv
<1>13. CASE FlushChunk
  <2>1. async => Shares'
    BY <1>13, <1>s, <1>i DEF FlushChunk, Shares, receiver
  <2> QED
    BY <1>13, <1>a, <2>1 DEF FlushChunk
<1>14. CASE PeerCloses
  <2>1. async => Shares'
    BY <1>14, <1>s, <1>i DEF PeerCloses, Shares, receiver
  <2> QED
    BY <1>14, <1>a, <2>1 DEF PeerCloses
<1>15. CASE UNCHANGED pvars
  <2>1. async => Shares'
    BY <1>15, <1>i DEF pvars, receiver, Shares, Before, PollLimit
  <2> QED
    BY <1>15, <1>a, <2>1 DEF pvars
<1> QED
  BY <1>1, <1>2, <1>3, <1>4, <1>5, <1>6, <1>7, <1>8, <1>9, <1>10, <1>11, <1>12, <1>13,
     <1>14, <1>15 DEF PollNext, Progress

LEMMA PollInvariant == PollSpec => []PollInv
<1>1. PollInit => PollInv
  BY SharesAddUp, ConstantsAssumption
     DEF PollInit, PollInv, BoundInv, TimeTypes, BegunInTime, Shares
<1> QED
  BY <1>1, PollInvKept, PTL DEF PollSpec

\* Whatever its timers, a poll waits for one device no longer than they add up
\* to: the connect, two answers of twice their timeout, three silences
\* (poll_reclosers.py:42-70, rwk35.py:476-524).
THEOREM PollWithinLimit == PollSpec => []PollBounded
<1>1. PollInv => PollBounded
  <2> SUFFICES ASSUME Shares, async, clock \in Nat PROVE spent <= PollLimit
    BY DEF PollInv, PollBounded, BoundInv, TimeTypes
  <2> QED
    BY SharesAddUp DEF Shares
<1> QED
  BY <1>1, PollInvariant, PTL

\* The same of each answer by itself: recv_solicited_async, called again for the
\* second READ, is never pending twice its timeout (rwk35.py:510-524).
THEOREM AnswerWithinTwice == PollSpec => []BoundedByTwice
<1>1. PollInv => BoundedByTwice
  BY ConstantsAssumption DEF PollInv, BoundInv, TimeTypes, BegunInTime, BoundedByTwice
<1> QED
  BY <1>1, PollInvariant, PTL

-----------------------------------------------------------------------------
(* The stages.                                                             *)

\* A step of a poll moves the receiver as Receive says, or calls it anew.
LEMMA PollMovesReceiver == [PollNext]_pvars => [Next]_vars \/ SendRead
<1> SUFFICES ASSUME [PollNext]_pvars, ~SendRead PROVE [Next]_vars
  OBVIOUS
<1>1. CASE ReceiveBytes \/ ReceiveEnds \/ ReceiverTicks
  BY <1>1 DEF ReceiveBytes, ReceiveEnds, ReceiverTicks, Next
<1>2. CASE UNCHANGED <<async, receiver>>
  BY <1>2 DEF receiver, vars
<1> QED
  BY <1>1, <1>2 DEF PollNext, Progress, Connects, ConnectFails, FlushEnds, LineBreaks,
     Answered, Unanswered, ReceiveRaises, CloseLine, TimerTicks, FlushChunk, PeerCloses,
     pvars

\* Each call of the receiver starts with the types and the hunt in order.
LEMMA ReceiverKept ==
    TypeOK /\ HuntInStep /\ [PollNext]_pvars => TypeOK' /\ HuntInStep'
<1> SUFFICES ASSUME TypeOK, HuntInStep, [PollNext]_pvars PROVE TypeOK' /\ HuntInStep'
  OBVIOUS
<1>1. CASE SendRead
  BY <1>1, ConstantsAssumption DEF SendRead, TypeOK, HuntInStep, Horizon
<1>2. CASE [Next]_vars
  BY <1>2, ReceiverTypesKept, HuntKept
<1> QED
  BY <1>1, <1>2, PollMovesReceiver

LEMMA ReceiverInvariant == PollSpec => [](TypeOK /\ HuntInStep)
<1>1. PollInit => TypeOK /\ HuntInStep
  BY ConstantsAssumption DEF PollInit, TypeOK, HuntInStep, Horizon
<1> QED
  BY <1>1, ReceiverKept, PTL DEF PollSpec

\* In every call of the receiver a 05 that follows another byte is taken for a
\* start byte, and nothing else is (rwk35.py:87-96).
THEOREM StartByteFound == PollSpec => []LoneStartByteCounts
<1>1. HuntInStep => LoneStartByteCounts
  BY DEF HuntInStep, LoneStartByteCounts
<1> QED
  BY <1>1, ReceiverInvariant, PTL

\* What the stages promise one another.  ResultTells speaks of the end: that a poll
\* without points has asked twice is known when the flush before a third READ ends,
\* and that the connection was not found closed, when the flush begins.
StagesInStep ==
    /\ stage \in {"connect", "flush", "send", "receive", "close", "over"}
    /\ result \in {"none", "points", "empty", "error"}
    /\ wait \in Nat /\ spent \in Nat /\ attempt \in 0..2
    /\ result # "none" => stage \in {"close", "over"}
    /\ stage = "connect" => attempt = 0
    /\ stage = "flush" => async /\ wait <= spent
    /\ stage = "send" => attempt < IF async THEN 2 ELSE 1
    /\ stage \in {"connect", "flush", "send"} => outcome # "closed"
    /\ ResultTells

\* Every stage keeps them.  FlushChunk gives back what the silence has cost, so it
\* is for the poll's own bound that spent does not fall below zero.
LEMMA StagesKept == PollInv /\ StagesInStep /\ [PollNext]_pvars => StagesInStep'
<1> SUFFICES ASSUME PollInv, StagesInStep, [PollNext]_pvars PROVE StagesInStep'
  OBVIOUS
<1>s. /\ PollLimit \in Nat /\ Gap \in Nat /\ Gap <= PollLimit
      /\ stage = "flush" => async /\ wait <= Gap /\ spent <= PollLimit
  <2>1. stage = "flush" => async /\ wait <= Gap /\ spent <= Before(attempt) + wait
    BY DEF StagesInStep, PollInv, Shares
  <2>2. wait \in Nat /\ spent \in Nat /\ attempt \in 0..2
    BY DEF StagesInStep
  <2> QED
    BY <2>1, <2>2, SharesAddUp
<1> USE DEF StagesInStep, ResultTells
<1>1. CASE Connects \/ ConnectFails
  BY <1>1 DEF Connects, ConnectFails, receiver
<1>2. CASE FlushEnds \/ LineBreaks
  BY <1>2 DEF FlushEnds, LineBreaks, Leave, receiver
<1>3. CASE SendRead
  BY <1>3 DEF SendRead
<1>4. CASE ReceiveBytes \/ ReceiveEnds
  <2>1. stage = "receive" /\ UNCHANGED <<async, stage, attempt, wait, eof, result, spent>>
    BY <1>4 DEF ReceiveBytes, ReceiveEnds, Bytes, TimesOut, Closes, StartByte05,
       StartByte64, NoiseByte, MoreBytes, HeaderComplete, FrameComplete
  <2> QED
    BY <2>1
<1>5. ASSUME NEW usable \in BOOLEAN, Answered(usable) PROVE StagesInStep'
  BY <1>5 DEF Answered, Leave, Flush, receiver
<1>6. CASE Unanswered \/ ReceiveRaises
  BY <1>6 DEF Unanswered, ReceiveRaises, Leave, Flush, receiver
<1>7. CASE CloseLine
  BY <1>7 DEF CloseLine, receiver
<1>8. CASE TimerTicks
  BY <1>8, <1>s DEF TimerTicks, Spend, receiver
<1>9. CASE ReceiverTicks
  BY <1>9, <1>s DEF ReceiverTicks, Tick, Spend
<1>10. CASE FlushChunk
  BY <1>10, <1>s DEF FlushChunk, receiver
<1>11. CASE PeerCloses
  BY <1>11 DEF PeerCloses, receiver
<1>12. CASE UNCHANGED pvars
  BY <1>12 DEF pvars, receiver
<1> QED
  BY <1>1, <1>2, <1>3, <1>4, <1>5, <1>6, <1>7, <1>8, <1>9, <1>10, <1>11, <1>12
     DEF PollNext, Progress

LEMMA StagesInvariant == PollSpec => []StagesInStep
<1>1. PollInit => StagesInStep
  BY DEF PollInit, StagesInStep, ResultTells
<1> QED
  BY <1>1, PollInvariant, StagesKept, PTL DEF PollSpec

LEMMA EofFlag == PollSpec => [](eof \in BOOLEAN)
<1>1. PollInit => eof \in BOOLEAN
  BY Zenon DEF PollInit
<1>2. eof \in BOOLEAN /\ [PollNext]_pvars => (eof \in BOOLEAN)'
  BY Zenon DEF PollNext, Progress, Connects, ConnectFails, FlushEnds, LineBreaks,
     SendRead, ReceiveBytes, ReceiveEnds, Answered, Unanswered, ReceiveRaises, CloseLine,
     TimerTicks, ReceiverTicks, FlushChunk, PeerCloses, pvars
<1> QED
  BY <1>1, <1>2, PTL DEF PollSpec

\* No variable of a poll or of a verification read leaves its type: there is no
\* third READ, and no timer runs backwards below zero.
THEOREM TypeCorrect == PollSpec => []PollTypeOK
<1>1. TypeOK /\ StagesInStep /\ eof \in BOOLEAN => PollTypeOK
  BY DEF PollTypeOK, StagesInStep
<1> QED
  BY <1>1, ReceiverInvariant, StagesInvariant, EofFlag, PTL

\* For any timeouts: a poll that ends without points and without an error has sent
\* two READs and did not find the connection closed while it waited for an answer
\* (poll_reclosers.py:51-67).
THEOREM ResultTold == PollSpec => []ResultTells
<1>1. StagesInStep => ResultTells
  BY DEF StagesInStep
<1> QED
  BY <1>1, StagesInvariant, PTL
=============================================================================
