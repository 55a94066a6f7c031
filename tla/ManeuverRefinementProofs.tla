---------------------- MODULE ManeuverRefinementProofs ----------------------
(***************************************************************************)
(* Maneuver implements ManeuverGate, for any set of requests and any TTLs, *)
(* while no request outlives its mutex and Redis keeps its keys.           *)
(***************************************************************************)
EXTENDS ManeuverRefinement, ManeuverProofs

\* The invariants the step simulation rests on.
GateInv == TypeOK /\ HolderKeepsMutex /\ AuditInStep

LEMMA GateInvariant == ASSUME Prompt PROVE Spec => []GateInv
<1>1. Init => AuditOfAll
  BY DEF Init, AuditOfAll, AuditOf, NoRow
<1>2. Spec => [](TypeOK /\ AuditOfAll)
  BY <1>1, TypeCorrect, AuditKept, PTL DEF Spec
<1>3. TypeOK /\ AuditOfAll => AuditInStep
  BY AuditSplits
<1> QED
  BY <1>2, <1>3, MutexInvariant, PTL DEF GateInv

\* The maneuver in progress is the request in the try block.
LEMMA TheOneInBody ==
    ASSUME HolderKeepsMutex, NEW r \in Requests, InBody(r) PROVE InProgress = r
BY DEF HolderKeepsMutex, InProgress

LEMMA NobodyInBody ==
    ASSUME \A r \in Requests : ~InBody(r) PROVE InProgress = Nobody
BY DEF InProgress

\* The same of the next state.
LEMMA TheOneInBodyNext ==
    ASSUME HolderKeepsMutex', NEW r \in Requests, InBody(r)' PROVE InProgress' = r
BY DEF HolderKeepsMutex, InProgress

LEMMA NobodyInBodyNext ==
    ASSUME \A r \in Requests : ~InBody(r)' PROVE InProgress' = Nobody
BY DEF InProgress

\* A step that moves nobody into or out of the try block.
LEMMA SameInProgress ==
    ASSUME HolderKeepsMutex, HolderKeepsMutex',
           \A r \in Requests : InBody(r)' = InBody(r)
    PROVE  InProgress' = InProgress
<1>1. CASE \E r \in Requests : InBody(r)
  <2>1. PICK r \in Requests : InBody(r)
    BY <1>1
  <2> QED
    BY <2>1, TheOneInBody, TheOneInBodyNext
<1>2. CASE \A r \in Requests : ~InBody(r)
  BY <1>2, NobodyInBody, NobodyInBodyNext
<1> QED
  BY <1>1, <1>2

\* r moves within the try block.
LEMMA MoveWithin ==
    ASSUME TypeOK, NEW r \in Requests, NEW step \in Body, InBody(r), Goto(r, step)
    PROVE  \A q \in Requests : InBody(q)' = InBody(q)
BY DEF Goto, InBody, TypeOK, Body

\* r moves outside of it.
LEMMA MoveOutside ==
    ASSUME TypeOK, NEW r \in Requests, NEW step \in {"lock", "done", "crashed"},
           ~InBody(r), Goto(r, step)
    PROVE  \A q \in Requests : InBody(q)' = InBody(q)
BY DEF Goto, InBody, TypeOK, Body

\* r leaves it.
LEMMA MoveOut ==
    ASSUME TypeOK, HolderKeepsMutex, NEW r \in Requests,
           NEW step \in {"done", "crashed"}, InBody(r), Goto(r, step)
    PROVE  InProgress = r /\ InProgress' = Nobody
<1>1. \A q \in Requests : ~InBody(q)'
  BY DEF Goto, InBody, TypeOK, Body, HolderKeepsMutex
<1> QED
  BY <1>1, TheOneInBody, NobodyInBodyNext

LEMMA StepSimulation ==
    ASSUME Prompt, GateInv, GateInv', [Next]_vars
    PROVE  [Gate!Next]_Gate!vars
<1> USE ConstantsAssumption DEF GateInv
<1> DEFINE Quiet == InProgress' = InProgress /\ cooldown' = cooldown /\ sent' = sent
<1>0. Quiet => [Gate!Next]_Gate!vars
  BY DEF Gate!vars
<1>1. ASSUME NEW r \in Requests,
             \/ Arrive(r) \/ TurnAway(r) \/ LockBusy(r) \/ LockError(r)
             \/ pc[r] = "lock" /\ Crash(r)
      PROVE Quiet
  <2>1. /\ ~InBody(r) /\ UNCHANGED <<cooldown, sent>>
        /\ \E step \in {"lock", "done", "crashed"} : Goto(r, step)
    BY <1>1 DEF Arrive, TurnAway, LockBusy, LockError, AnswerLocked, Crash,
                InBody, Body, redis, traces
  <2> QED
    BY <2>1, MoveOutside, SameInProgress
<1>2. ASSUME NEW r \in Requests, Acquire(r) PROVE Gate!Start(r)
  <2>1. \A q \in Requests : ~InBody(q)
    BY <1>2 DEF Acquire, HolderKeepsMutex, Prompt, TypeOK
  <2>2. InProgress = Nobody
    BY <2>1, NobodyInBody
  <2>3. InProgress' = r
    BY <1>2, TheOneInBodyNext DEF Acquire, Goto, InBody, Body, TypeOK
  <2>4. r \notin sent
    BY <1>2 DEF Acquire, AuditInStep
  <2> QED
    BY <1>2, <2>2, <2>3, <2>4 DEF Acquire, Gate!Start, traces
<1>3. ASSUME NEW r \in Requests,
             \/ CooldownRefuses(r) \/ CooldownPasses(r)
             \/ GuardNoTelemetry(r) \/ GuardRefuses(r) \/ GuardPasses(r)
             \/ PingFails(r) \/ PingAnswers(r) \/ SendFails(r)
             \/ ReplyOrTimeout(r) \/ ReplyFails(r)
             \/ VerifyRead(r) \/ Persist(r) \/ WriteLog(r) \/ Broadcast(r) \/ Abort(r)
      PROVE Quiet
  <2>1. /\ InBody(r) /\ UNCHANGED <<cooldown, sent>>
        /\ \E step \in Body : Goto(r, step)
    BY <1>3 DEF CooldownRefuses, CooldownPasses, GuardNoTelemetry, GuardRefuses,
                GuardPasses, PingFails, PingAnswers, SendFails, ReplyOrTimeout,
                ReplyFails, VerifyRead, Persist, WriteLog, Broadcast, Abort,
                LeaveAudited, Leave, InBody, Body, redis, traces
  <2> QED
    BY <2>1, MoveWithin, SameInProgress
<1>4. ASSUME NEW r \in Requests, SendFrame(r) PROVE Gate!Command(r)
  <2>1. InBody(r) /\ Goto(r, "reply") /\ "reply" \in Body
    BY <1>4 DEF SendFrame, InBody, Body
  <2>2. InProgress' = InProgress /\ InProgress = r
    BY <2>1, MoveWithin, SameInProgress, TheOneInBody
  <2>3. cooldown = 0 /\ r \notin sent
    BY <1>4 DEF SendFrame, HolderKeepsMutex, AuditInStep
  <2> QED
    BY <1>4, <2>2, <2>3 DEF SendFrame, Gate!Command, redis
<1>5. ASSUME NEW r \in Requests, SetCooldown(r) PROVE [Gate!Next]_Gate!vars
  <2>1. InBody(r) /\ Goto(r, "broadcast") /\ "broadcast" \in Body /\ sent' = sent
    BY <1>5 DEF SetCooldown, InBody, Body, traces
  <2>2. InProgress' = InProgress /\ InProgress = r
    BY <2>1, MoveWithin, SameInProgress, TheOneInBody
  <2>3. r \in sent
    BY <1>5 DEF SetCooldown, AuditInStep, AuditSound
  <2>4. CASE cooldown' = cooldown
    BY <1>0, <2>1, <2>2, <2>4
  <2>5. CASE cooldown' = CooldownTTL
    <3>1. cooldown' > 0
      BY <2>5
    <3> QED
      BY <2>1, <2>2, <2>3, <3>1 DEF Gate!Next, Gate!StartCooling
  <2> QED
    BY <1>5, <2>4, <2>5 DEF SetCooldown
<1>6. ASSUME NEW r \in Requests, Release(r) \/ (InBody(r) /\ Crash(r))
      PROVE Gate!Finish(r)
  <2>1. /\ InBody(r) /\ UNCHANGED <<cooldown, sent>>
        /\ \E step \in {"done", "crashed"} : Goto(r, step)
    BY <1>6 DEF Release, Crash, InBody, Body, redis, traces
  <2> QED
    BY <2>1, MoveOut DEF Gate!Finish
<1>7. CASE Tick
  <2>1. InProgress' = InProgress /\ sent' = sent
    BY <1>7, SameInProgress DEF Tick, InBody, traces
  <2>2. CASE cooldown' > 0 <=> cooldown > 0
    BY <2>1, <2>2 DEF Gate!vars
  <2>3. CASE cooldown > 0 /\ ~(cooldown' > 0)
    BY <2>1, <2>3 DEF Gate!Next, Gate!StopCooling
  <2>4. cooldown' > 0 => cooldown > 0
    BY <1>7 DEF Tick, Less, TypeOK
  <2> QED
    BY <2>2, <2>3, <2>4
<1>8. CASE PollerPersists \/ UNCHANGED vars
  <2>1. UNCHANGED <<pc, cooldown, sent>>
    BY <1>8 DEF PollerPersists, vars, redis, traces
  <2> QED
    BY <1>0, <2>1, SameInProgress DEF InBody
<1>9. CASE RedisRestarts
  BY <1>9 DEF RedisRestarts, Prompt
<1>10. ASSUME NEW r \in Requests, Crash(r)
       PROVE pc[r] = "lock" \/ InBody(r)
  BY <1>10 DEF Crash
<1>11. (\E r \in Requests : Gate!Start(r) \/ Gate!Command(r) \/ Gate!Finish(r))
       => Gate!Next
  BY DEF Gate!Next
<1> QED
  BY <1>0, <1>1, <1>2, <1>3, <1>4, <1>5, <1>6, <1>7, <1>8, <1>9, <1>10, <1>11
     DEF Next, Step

\* The view, its Redis keys and its unconditional DEL implement the gate: one
\* maneuver at a time, one frame each, none during a cooldown, and no cooldown
\* without a frame (views.py:97-259).
THEOREM Implementation == ASSUME Prompt PROVE Spec => ImplementsGate
<1>1. Init => Gate!Init
  <2> SUFFICES ASSUME Init PROVE Gate!Init
    OBVIOUS
  <2>1. InProgress = Nobody
    BY NobodyInBody DEF Init, InBody, Body
  <2> QED
    BY <2>1 DEF Init, Gate!Init
<1>2. GateInv /\ GateInv' /\ [Next]_vars => [Gate!Next]_Gate!vars
  BY StepSimulation
<1> QED
  BY <1>1, <1>2, GateInvariant, PTL DEF Spec, ImplementsGate, Gate!Spec
=============================================================================
