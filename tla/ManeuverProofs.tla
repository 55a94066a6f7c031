--------------------------- MODULE ManeuverProofs ---------------------------
(***************************************************************************)
(* What TLAPS proves about Maneuver for any set of requests and any TTLs.  *)
(***************************************************************************)
EXTENDS Maneuver, TLAPS

-----------------------------------------------------------------------------
(* Types.                                                                  *)

LEMMA LeaveTypes ==
    ASSUME TypeOK, NEW r \in Requests, NEW code \in Codes, Leave(r, code)
    PROVE  /\ pc' \in [Requests -> Body \cup {"idle", "lock", "done", "crashed"}]
           /\ resp' \in [Requests -> Codes \cup {0}]
BY DEF TypeOK, Leave, Goto, Body

LEMMA LeaveAuditedTypes ==
    ASSUME TypeOK, NEW r \in Requests,
           NEW result \in Refusals \cup {"fail_tcp"}, LeaveAudited(r, result)
    PROVE  TypeOK'
<1>1. StatusCode[result] \in Codes
  BY DEF StatusCode, Codes, Refusals
<1>2. Leave(r, StatusCode[result])
  BY DEF LeaveAudited
<1>3. log' \subseteq Entry
  BY DEF LeaveAudited, Audit, TypeOK, Entry, Results
<1> QED
  BY <1>1, <1>2, <1>3, LeaveTypes DEF LeaveAudited, TypeOK, redis

LEMMA ForgetTypes ==
    ASSUME TypeOK, NEW r \in Requests, Forget(r)
    PROVE  /\ action' \in [Requests -> Actions \cup {"none"}]
           /\ post' \in [Requests -> Status \cup {"none"}]
           /\ held' \in [Requests -> 0..HoldLimit]
BY ConstantsAssumption DEF TypeOK, Forget

LEMMA AnswerLockedTypes ==
    ASSUME TypeOK, NEW r \in Requests, AnswerLocked(r),
           mutex' \in 0..MutexTTL, owner' \in Requests
    PROVE  TypeOK'
<1>1. pc' \in [Requests -> Body \cup {"idle", "lock", "done", "crashed"}]
  BY DEF AnswerLocked, Goto, TypeOK
<1>2. /\ resp' \in [Requests -> Codes \cup {0}]
      /\ log' \subseteq Entry
  BY DEF AnswerLocked, Audit, TypeOK, Codes, Unaudited, Entry, Results, Refusals
<1>3. /\ action' \in [Requests -> Actions \cup {"none"}]
      /\ post' \in [Requests -> Status \cup {"none"}]
      /\ held' \in [Requests -> 0..HoldLimit]
  BY ForgetTypes DEF AnswerLocked
<1> QED
  BY <1>1, <1>2, <1>3 DEF AnswerLocked, TypeOK

LEMMA TypesKept == TypeOK /\ [Next]_vars => TypeOK'
<1> SUFFICES ASSUME TypeOK, [Next]_vars PROVE TypeOK'
  OBVIOUS
<1> USE ConstantsAssumption
<1>1. ASSUME NEW r \in Requests, Arrive(r) PROVE TypeOK'
  BY <1>1 DEF Arrive, TypeOK, Goto, redis, traces
<1>2. ASSUME NEW r \in Requests, TurnAway(r) PROVE TypeOK'
  BY <1>2 DEF TurnAway, TypeOK, Goto, redis, traces, Codes, Unaudited
<1>3. ASSUME NEW r \in Requests, Acquire(r) PROVE TypeOK'
  BY <1>3 DEF Acquire, TypeOK, Goto, traces, Body
<1>4. ASSUME NEW r \in Requests, LockBusy(r) PROVE TypeOK'
  BY <1>4, AnswerLockedTypes DEF LockBusy, TypeOK
<1>5. ASSUME NEW r \in Requests, LockError(r) PROVE TypeOK'
  BY <1>5, AnswerLockedTypes DEF LockError, TypeOK
<1>6. ASSUME NEW r \in Requests,
             \/ CooldownRefuses(r) \/ GuardRefuses(r) \/ PingFails(r)
             \/ SendFails(r) \/ ReplyFails(r)
      PROVE TypeOK'
  BY <1>6, LeaveAuditedTypes
     DEF CooldownRefuses, GuardRefuses, PingFails, SendFails, ReplyFails, Refusals
<1>7. ASSUME NEW r \in Requests,
             \/ CooldownPasses(r) \/ GuardPasses(r) \/ PingAnswers(r)
             \/ SendFrame(r) \/ ReplyOrTimeout(r)
      PROVE TypeOK'
  BY <1>7 DEF CooldownPasses, GuardPasses, PingAnswers, SendFrame,
              ReplyOrTimeout, TypeOK, Goto, redis, traces, Body
<1>8. ASSUME NEW r \in Requests, GuardNoTelemetry(r) \/ Abort(r) PROVE TypeOK'
  BY <1>8, LeaveTypes
     DEF GuardNoTelemetry, Abort, TypeOK, redis, traces, Codes, Unaudited
<1>9. ASSUME NEW r \in Requests, VerifyRead(r) \/ Persist(r) PROVE TypeOK'
  BY <1>9 DEF VerifyRead, Persist, TypeOK, Goto, redis, traces, Body
<1>10. ASSUME NEW r \in Requests, WriteLog(r) PROVE TypeOK'
  BY <1>10 DEF WriteLog, Audit, TypeOK, Goto, redis, Body, Entry, Results, Verdicts
<1>11. ASSUME NEW r \in Requests, SetCooldown(r) PROVE TypeOK'
  BY <1>11 DEF SetCooldown, TypeOK, Goto, traces, Body
<1>12. ASSUME NEW r \in Requests, Broadcast(r) PROVE TypeOK'
  BY <1>12, LeaveTypes DEF Broadcast, TypeOK, redis, Codes, Unaudited
<1>13. ASSUME NEW r \in Requests, Release(r) PROVE TypeOK'
  BY <1>13, ForgetTypes DEF Release, TypeOK, Goto, traces
<1>14. ASSUME NEW r \in Requests, Crash(r) PROVE TypeOK'
  BY <1>14, ForgetTypes DEF Crash, TypeOK, Goto, redis, traces
<1>15. CASE PollerPersists
  BY <1>15 DEF PollerPersists, TypeOK, redis, traces
<1>16. CASE Tick
  <2>1. held' \in [Requests -> 0..HoldLimit]
    BY <1>16 DEF Tick, TypeOK
  <2> QED
    BY <1>16, <2>1 DEF Tick, TypeOK, Less, traces
<1>17. CASE RedisRestarts
  BY <1>17 DEF RedisRestarts, TypeOK, traces
<1>18. CASE UNCHANGED vars
  BY <1>18 DEF vars, TypeOK
<1> QED
  BY <1>1, <1>2, <1>3, <1>4, <1>5, <1>6, <1>7, <1>8, <1>9, <1>10, <1>11,
     <1>12, <1>13, <1>14, <1>15, <1>16, <1>17, <1>18 DEF Next, Step

\* Every variable of the endpoint keeps its type, in whatever order requests,
\* crashes, expirations and the poller interleave (views.py:86-259).
THEOREM TypeCorrect == Spec => []TypeOK
<1>1. Init => TypeOK
  BY ConstantsAssumption DEF Init, TypeOK
<1> QED
  BY <1>1, TypesKept, PTL DEF Spec

-----------------------------------------------------------------------------
(* The mutex and the cooldown.                                             *)

\* A step in which r moves within the try block or out of it, touching neither
\* the keys nor the time of the others.
Moves(r) ==
    /\ InBody(r)
    /\ pc' = [pc EXCEPT ![r] = pc'[r]]
    /\ held' = [held EXCEPT ![r] = held'[r]]
    /\ InBody(r)' => held'[r] = held[r]

LEMMA MovesKeepsMutex ==
    ASSUME TypeOK, Prompt, HolderKeepsMutex, NEW r \in Requests, Moves(r),
           owner' = owner, mutex' = mutex \/ ~InBody(r)',
           cooldown' = cooldown \/ pc'[r] \notin {"guard", "ping", "send"},
           pc'[r] \in {"guard", "ping", "send"} =>
               pc[r] \in {"guard", "ping", "send"} \/ cooldown = 0
    PROVE  HolderKeepsMutex'
<1> SUFFICES ASSUME NEW q \in Requests
             PROVE  /\ InBody(q)' => owner' = q /\ mutex' + held'[q] >= MutexTTL
                    /\ pc'[q] \in {"guard", "ping", "send"} => cooldown' = 0
  BY DEF HolderKeepsMutex
<1>1. CASE q = r
  BY <1>1 DEF HolderKeepsMutex, Moves, TypeOK
<1>2. CASE q # r
  <2>1. ~InBody(q)
    BY <1>2 DEF HolderKeepsMutex, Moves
  <2>2. pc'[q] = pc[q]
    BY <1>2 DEF Moves, TypeOK
  <2> QED
    BY <2>1, <2>2 DEF InBody, Body
<1> QED
  BY <1>1, <1>2

LEMMA MutexKept ==
    TypeOK /\ Prompt /\ HolderKeepsMutex /\ [Next]_vars => HolderKeepsMutex'
<1> SUFFICES ASSUME TypeOK, Prompt, HolderKeepsMutex, [Next]_vars
             PROVE  HolderKeepsMutex'
  OBVIOUS
<1> USE ConstantsAssumption
<1>1. ASSUME NEW r \in Requests, Arrive(r) \/ TurnAway(r) PROVE HolderKeepsMutex'
  BY <1>1 DEF Arrive, TurnAway, Goto, HolderKeepsMutex, InBody, Body, TypeOK, redis
<1>2. ASSUME NEW r \in Requests, Acquire(r) PROVE HolderKeepsMutex'
  <2>1. \A q \in Requests : ~InBody(q)
    BY <1>2 DEF Acquire, HolderKeepsMutex, Prompt, TypeOK
  <2> QED
    BY <1>2, <2>1 DEF Acquire, Goto, HolderKeepsMutex, InBody, Body, TypeOK
<1>3. ASSUME NEW r \in Requests, LockBusy(r) PROVE HolderKeepsMutex'
  BY <1>3 DEF LockBusy, AnswerLocked, Goto, Forget, HolderKeepsMutex, InBody, Body, TypeOK
<1>4. ASSUME NEW r \in Requests, LockError(r) PROVE HolderKeepsMutex'
  <2>1. CASE UNCHANGED <<mutex, owner>>
    BY <1>4, <2>1 DEF LockError, AnswerLocked, Goto, Forget, HolderKeepsMutex,
                      InBody, Body, TypeOK
  <2>2. CASE mutex = 0
    <3>1. \A q \in Requests : ~InBody(q)
      BY <2>2 DEF HolderKeepsMutex, Prompt, TypeOK
    <3> QED
      BY <1>4, <3>1 DEF LockError, AnswerLocked, Goto, HolderKeepsMutex,
                        InBody, Body, TypeOK
  <2> QED
    BY <1>4, <2>1, <2>2 DEF LockError
<1>5. ASSUME NEW r \in Requests,
             \/ CooldownRefuses(r) \/ GuardRefuses(r) \/ PingFails(r)
             \/ SendFails(r) \/ ReplyFails(r)
      PROVE HolderKeepsMutex'
  <2>1. Moves(r) /\ pc'[r] = "finally" /\ UNCHANGED redis
    BY <1>5 DEF CooldownRefuses, GuardRefuses, PingFails, SendFails, ReplyFails,
                LeaveAudited, Leave, Goto, Moves, InBody, Body, TypeOK
  <2> QED
    BY <2>1, MovesKeepsMutex DEF redis
<1>6. ASSUME NEW r \in Requests, GuardNoTelemetry(r) \/ Abort(r) \/ Broadcast(r)
      PROVE HolderKeepsMutex'
  <2>1. Moves(r) /\ pc'[r] = "finally" /\ UNCHANGED redis
    BY <1>6 DEF GuardNoTelemetry, Abort, Broadcast, Leave, Goto, Moves, InBody,
                Body, TypeOK
  <2> QED
    BY <2>1, MovesKeepsMutex DEF redis
<1>7. ASSUME NEW r \in Requests,
             \/ CooldownPasses(r) \/ GuardPasses(r) \/ PingAnswers(r)
             \/ SendFrame(r) \/ ReplyOrTimeout(r)
             \/ VerifyRead(r) \/ Persist(r) \/ WriteLog(r)
      PROVE HolderKeepsMutex'
  <2>1. /\ Moves(r) /\ UNCHANGED redis
        /\ \/ pc[r] \in {"guard", "ping", "send"} \/ cooldown = 0
           \/ pc'[r] \notin {"guard", "ping", "send"}
    BY <1>7 DEF CooldownPasses, GuardPasses, PingAnswers, SendFrame, ReplyOrTimeout,
                VerifyRead, Persist, WriteLog, Goto, Moves, InBody, Body, TypeOK, redis
  <2> QED
    BY <2>1, MovesKeepsMutex DEF redis
<1>8. ASSUME NEW r \in Requests, SetCooldown(r) PROVE HolderKeepsMutex'
  <2>1. Moves(r) /\ pc'[r] = "broadcast" /\ UNCHANGED <<mutex, owner>>
    BY <1>8 DEF SetCooldown, Goto, Moves, InBody, Body, TypeOK
  <2> QED
    BY <2>1, MovesKeepsMutex
<1>9. ASSUME NEW r \in Requests, Release(r) PROVE HolderKeepsMutex'
  <2>1. Moves(r) /\ pc'[r] = "done" /\ UNCHANGED <<owner, cooldown>>
    BY <1>9 DEF Release, Forget, Goto, Moves, InBody, Body, TypeOK
  <2> QED
    BY <2>1, MovesKeepsMutex DEF InBody, Body
<1>10. ASSUME NEW r \in Requests, Crash(r) PROVE HolderKeepsMutex'
  BY <1>10 DEF Crash, Forget, Goto, HolderKeepsMutex, InBody, Body, TypeOK, redis
<1>11. CASE PollerPersists
  BY <1>11 DEF PollerPersists, HolderKeepsMutex, InBody, redis
<1>12. CASE Tick
  <2> SUFFICES ASSUME NEW q \in Requests
               PROVE  /\ InBody(q)' => owner' = q /\ mutex' + held'[q] >= MutexTTL
                      /\ pc'[q] \in {"guard", "ping", "send"} => cooldown' = 0
    BY DEF HolderKeepsMutex
  <2>1. pc' = pc /\ owner' = owner
    BY <1>12 DEF Tick
  <2>2. ASSUME InBody(q) PROVE mutex' + held'[q] >= MutexTTL
    BY <1>12, <2>2 DEF Tick, HolderKeepsMutex, Prompt, Less, TypeOK
  <2>3. cooldown = 0 => cooldown' = 0
    BY <1>12 DEF Tick, Less
  <2> QED
    BY <2>1, <2>2, <2>3 DEF HolderKeepsMutex, InBody
<1>13. CASE RedisRestarts
  BY <1>13 DEF RedisRestarts, Prompt
<1>14. CASE UNCHANGED vars
  BY <1>14 DEF vars, HolderKeepsMutex, InBody
<1> QED
  BY <1>1, <1>2, <1>3, <1>4, <1>5, <1>6, <1>7, <1>8, <1>9, <1>10, <1>11,
     <1>12, <1>13, <1>14 DEF Next, Step

\* While no request outlives its mutex and Redis keeps its keys, whoever is in the
\* try block owns the mutex, and past the look at the cooldown there is none
\* (views.py:100, 128-259).
THEOREM MutexHeld == ASSUME Prompt PROVE Spec => []HolderKeepsMutex
<1>1. Init => HolderKeepsMutex
  BY DEF Init, HolderKeepsMutex, InBody, Body
<1> QED
  BY <1>1, TypeCorrect, MutexKept, PTL DEF Spec

LEMMA MutexInvariant ==
    ASSUME Prompt PROVE Spec => [](TypeOK /\ HolderKeepsMutex)
BY TypeCorrect, MutexHeld, PTL

\* While no request outlives its mutex and Redis keeps its keys, the requests
\* have the recloser one at a time: SET NX EX and DEL (views.py:100, 259) are a
\* lock, for any number of requests and any TTLs.
THEOREM Exclusion == ASSUME Prompt PROVE Spec => []MutualExclusion
<1>1. TypeOK /\ HolderKeepsMutex => MutualExclusion
  BY DEF HolderKeepsMutex, MutualExclusion
<1> QED
  BY <1>1, MutexInvariant, PTL

\* Under the same assumption the DEL of views.py:259 removes the request's own
\* key and no other.
THEOREM OwnRelease == ASSUME Prompt PROVE Spec => ReleasesOwnMutex
<1>1. ASSUME TypeOK, HolderKeepsMutex, [Next]_vars, NEW r \in Requests,
             pc[r] = "finally"
      PROVE  owner = r
  BY <1>1 DEF HolderKeepsMutex, InBody, Body
<1>2. TypeOK /\ HolderKeepsMutex /\ [Next]_vars
      => [\A r \in Requests : pc[r] = "finally" /\ pc'[r] = "done" /\ mutex' # mutex
             => owner = r]_vars
  BY <1>1
<1> QED
  BY <1>2, MutexInvariant, PTL DEF Spec, ReleasesOwnMutex

\* Only the send step puts a frame on the wire, only the poller and the
\* persist step renew the newest record.
LEMMA WhoChangesWhat ==
    ASSUME [Next]_vars
    PROVE  /\ sent' # sent => \E r \in Requests : pc[r] = "send"
           /\ latest' # latest =>
                 \/ \E r \in Requests : pc[r] = "persist"
                 \/ pc' = pc
<1>1. ASSUME NEW r \in Requests, Step(r)
      PROVE  /\ sent' # sent => pc[r] = "send"
             /\ latest' # latest => pc[r] = "persist"
  BY <1>1 DEF Step, Acquire, LockBusy, LockError, AnswerLocked, CooldownRefuses,
              CooldownPasses, GuardNoTelemetry, GuardRefuses, GuardPasses, PingFails,
              PingAnswers, SendFails, SendFrame, ReplyOrTimeout, ReplyFails,
              VerifyRead, Persist, WriteLog, SetCooldown, Broadcast, Abort, Release,
              LeaveAudited, traces
<1>2. ASSUME NEW r \in Requests, Arrive(r) \/ TurnAway(r) \/ Crash(r)
      PROVE  UNCHANGED <<sent, latest>>
  BY <1>2 DEF Arrive, TurnAway, Crash, traces
<1>3. PollerPersists \/ Tick \/ RedisRestarts \/ UNCHANGED vars
      => UNCHANGED <<sent, pc>>
  BY DEF PollerPersists, Tick, RedisRestarts, vars, traces
<1> QED
  BY <1>1, <1>2, <1>3 DEF Next

\* Under the same assumption no control frame leaves during a cooldown, although
\* the key is looked at (views.py:128) long before the frame is sent (182).
THEOREM CooldownStands == ASSUME Prompt PROVE Spec => CooldownHonoured
<1>1. TypeOK /\ HolderKeepsMutex /\ [Next]_vars => [sent' # sent => cooldown = 0]_vars
  BY WhoChangesWhat DEF HolderKeepsMutex
<1> QED
  BY <1>1, MutexInvariant, PTL DEF Spec, CooldownHonoured

\* Under the same assumption the record that the guard read (views.py:143) is
\* replaced before the frame is sent by the poller alone.
THEOREM GuardStable == ASSUME Prompt PROVE Spec => GuardStableButForPoller
<1>1. TypeOK /\ HolderKeepsMutex /\ [Next]_vars
      => [(\E r \in Requests : pc[r] \in {"ping", "send"}) /\ latest' # latest
             => pc' = pc]_vars
  <2>1. ASSUME HolderKeepsMutex, NEW q \in Requests, NEW r \in Requests,
               pc[q] = "persist", pc[r] \in {"ping", "send"}
        PROVE  FALSE
    BY <2>1 DEF HolderKeepsMutex, InBody, Body
  <2> QED
    BY <2>1, WhoChangesWhat
<1> QED
  BY <1>1, MutexInvariant, PTL DEF Spec, GuardStableButForPoller

-----------------------------------------------------------------------------
(* The audit log.  Nothing is assumed of time or of Redis.                 *)

NoRow(q) == \A e \in log : e.req # q

\* What AuditInStep says of one request.
AuditOf(q) ==
    /\ \A e, f \in log : e.req = q /\ f.req = q => e = f
    /\ \A e \in log : e.req = q /\ e.result \in Refusals => q \notin sent
    /\ \A e \in log : e.req = q /\ e.result \in Verdicts => q \in sent
    /\ q \in announced => \E e \in log : e.req = q /\ e.result \in Verdicts
    /\ pc[q] \in {"idle", "lock", "cooldown", "guard", "ping", "send"}
          => q \notin sent
    /\ pc[q] \in {"reply", "verify", "persist", "log"} => q \in sent
    /\ pc[q] \notin {"setcd", "broadcast", "finally", "done", "crashed"} => NoRow(q)
    /\ pc[q] \in {"setcd", "broadcast"}
          => \E e \in log : e.req = q /\ e.result \in Verdicts
    /\ pc[q] \in {"finally", "done"} => Backed(q)

AuditOfAll == \A q \in Requests : AuditOf(q)

LEMMA AuditSplits == TypeOK /\ AuditOfAll => AuditInStep
<1> SUFFICES ASSUME TypeOK, AuditOfAll PROVE AuditInStep
  OBVIOUS
<1>1. \A e \in log : e.req \in Requests
  BY DEF TypeOK, Entry
<1>2. announced \subseteq Requests
  BY DEF TypeOK
<1> QED
  BY <1>1, <1>2 DEF AuditOfAll, AuditInStep, AuditSound, AuditOf, NoRow

\* The rows of q and what else AuditOf(q) speaks of stay as they are.
Untouched(q) ==
    /\ pc'[q] = pc[q] /\ resp'[q] = resp[q]
    /\ log' \ log \subseteq {e \in log' : e.req # q}
    /\ log \subseteq log'
    /\ (q \in sent') = (q \in sent)
    /\ (q \in announced') = (q \in announced)

LEMMA UntouchedKeepsAudit ==
    ASSUME NEW q \in Requests, AuditOf(q), Untouched(q) PROVE AuditOf(q)'
<1>1. \A e \in log' : e.req = q => e \in log
  BY DEF Untouched
<1>2. (\E e \in log : e.req = q /\ e.result \in Verdicts)
      => \E e \in log' : e.req = q /\ e.result \in Verdicts
  BY DEF Untouched
<1>3. NoRow(q) => NoRow(q)'
  BY <1>1 DEF NoRow
<1>4. Backed(q) => Backed(q)'
  BY <1>1 DEF Backed, Untouched
<1> QED
  BY <1>1, <1>2, <1>3, <1>4 DEF AuditOf, Untouched

\* A row is written for r, which had none.
LEMMA AuditedOnce ==
    ASSUME NEW r \in Requests, NEW result \in Results, AuditOf(r), NoRow(r),
           r \notin announced, Audit(r, result),
           pc'[r] \in {"finally", "done"} /\ resp'[r] = StatusCode[result],
           (r \in sent') = (r \in sent), (r \in announced') = (r \in announced),
           result \in Refusals => r \notin sent,
           result \in Verdicts => r \in sent
    PROVE  AuditOf(r)'
<1> DEFINE row == [req |-> r, result |-> result]
<1>1. \A e \in log' : e.req = r => e = row
  BY DEF Audit, NoRow
<1>2. row \in log' /\ row.req = r /\ row.result = result
  BY DEF Audit
<1>3. Backed(r)'
  BY <1>2 DEF Backed
<1> QED
  BY <1>1, <1>2, <1>3 DEF AuditOf

LEMMA NoRowUnannounced ==
    ASSUME NEW r \in Requests, AuditOf(r), NoRow(r) PROVE r \notin announced
BY DEF AuditOf, NoRow

ViewStep(r) == Arrive(r) \/ TurnAway(r) \/ Step(r) \/ Crash(r)

\* A request's step leaves what the log says of the others alone.
LEMMA OthersUntouched ==
    ASSUME TypeOK, NEW r \in Requests, NEW q \in Requests, q # r, ViewStep(r)
    PROVE  Untouched(q)
<1>1. pc'[q] = pc[q] /\ resp'[q] = resp[q]
  BY DEF ViewStep, Arrive, TurnAway, Step, Crash, Acquire, LockBusy, LockError,
         AnswerLocked, CooldownRefuses, CooldownPasses, GuardNoTelemetry, GuardRefuses,
         GuardPasses, PingFails, PingAnswers, SendFails, SendFrame, ReplyOrTimeout,
         ReplyFails, VerifyRead, Persist, WriteLog, SetCooldown, Broadcast, Abort,
         Release, LeaveAudited, Leave, Goto, TypeOK
<1>2. log' = log \/ \E result \in Results : Audit(r, result)
  BY DEF ViewStep, Arrive, TurnAway, Step, Crash, Acquire, LockBusy, LockError,
         AnswerLocked, CooldownRefuses, CooldownPasses, GuardNoTelemetry, GuardRefuses,
         GuardPasses, PingFails, PingAnswers, SendFails, SendFrame, ReplyOrTimeout,
         ReplyFails, VerifyRead, Persist, WriteLog, SetCooldown, Broadcast, Abort,
         Release, LeaveAudited, traces, Results, Refusals, Verdicts
<1>3. /\ sent' \in {sent, sent \cup {r}}
      /\ announced' \in {announced, announced \cup {r}}
  BY DEF ViewStep, Arrive, TurnAway, Step, Crash, Acquire, LockBusy, LockError,
         AnswerLocked, CooldownRefuses, CooldownPasses, GuardNoTelemetry, GuardRefuses,
         GuardPasses, PingFails, PingAnswers, SendFails, SendFrame, ReplyOrTimeout,
         ReplyFails, VerifyRead, Persist, WriteLog, SetCooldown, Broadcast, Abort,
         Release, LeaveAudited, traces
<1>4. /\ log' \ log \subseteq {e \in log' : e.req # q}
      /\ log \subseteq log'
  BY <1>2 DEF Audit
<1> QED
  BY <1>1, <1>3, <1>4 DEF Untouched

\* A request's own step keeps what the log says of it.
LEMMA OwnStepKeepsAudit ==
    ASSUME TypeOK, NEW r \in Requests, AuditOf(r), ViewStep(r)
    PROVE  AuditOf(r)'
<1> DEFINE Same == UNCHANGED <<log, sent, announced>>
<1>1. CASE Arrive(r) \/ Acquire(r) \/ CooldownPasses(r) \/ GuardPasses(r)
           \/ PingAnswers(r) \/ ReplyOrTimeout(r) \/ VerifyRead(r) \/ Persist(r)
  <2>1. Same
    BY <1>1 DEF Arrive, Acquire, CooldownPasses, GuardPasses, PingAnswers,
                ReplyOrTimeout, VerifyRead, Persist, traces
  <2>2. \/ /\ pc[r] \in {"idle", "lock", "cooldown", "guard", "ping"}
           /\ pc'[r] \in {"lock", "cooldown", "guard", "ping", "send"}
        \/ /\ pc[r] \in {"reply", "verify", "persist"}
           /\ pc'[r] \in {"verify", "persist", "log"}
    BY <1>1 DEF Arrive, Acquire, CooldownPasses, GuardPasses, PingAnswers,
                ReplyOrTimeout, VerifyRead, Persist, Goto, TypeOK
  <2> QED
    BY <2>1, <2>2 DEF AuditOf, NoRow
<1>2. CASE TurnAway(r) \/ GuardNoTelemetry(r) \/ Abort(r)
  <2>1. Same
    BY <1>2 DEF TurnAway, GuardNoTelemetry, Abort, traces
  <2>2. NoRow(r) /\ pc'[r] \in {"done", "finally"}
    BY <1>2 DEF TurnAway, GuardNoTelemetry, Abort, Leave, Goto, AuditOf, Body, TypeOK
  <2>3. resp'[r] \in Unaudited /\ (r \in sent => resp'[r] = 500)
    BY <1>2 DEF TurnAway, GuardNoTelemetry, Abort, Leave, Goto, AuditOf, Unaudited,
                TypeOK
  <2>4. Backed(r)'
    BY <2>1, <2>2, <2>3 DEF Backed, NoRow
  <2> QED
    BY <2>1, <2>2, <2>4 DEF AuditOf, NoRow
<1>3. CASE LockBusy(r) \/ LockError(r)
  <2>1. /\ pc[r] = "lock" /\ pc'[r] = "done" /\ NoRow(r)
        /\ UNCHANGED <<sent, announced>>
    BY <1>3 DEF LockBusy, LockError, AnswerLocked, Goto, TypeOK, AuditOf
  <2>2. CASE Audit(r, "fail_locked") /\ resp' = [resp EXCEPT ![r] = 409]
    <3>1. resp'[r] = StatusCode["fail_locked"]
      BY <2>2 DEF StatusCode, TypeOK
    <3>2. "fail_locked" \in Refusals /\ "fail_locked" \notin Verdicts /\ "fail_locked" \in Results
      BY DEF Refusals, Verdicts, Results
    <3>3. r \notin sent /\ r \notin announced
      BY <2>1, NoRowUnannounced DEF AuditOf
    <3> QED
      BY <2>1, <2>2, <3>1, <3>2, <3>3, AuditedOnce
  <2>3. CASE UNCHANGED log /\ resp' = [resp EXCEPT ![r] = 500]
    <3>1. Backed(r)'
      BY <2>1, <2>3 DEF Backed, NoRow, Unaudited, TypeOK
    <3> QED
      BY <2>1, <2>3, <3>1 DEF AuditOf, NoRow
  <2> QED
    BY <1>3, <2>2, <2>3 DEF LockBusy, LockError, AnswerLocked
<1>4. ASSUME NEW result \in Refusals \cup {"fail_tcp"}, LeaveAudited(r, result),
             pc[r] \in {"cooldown", "guard", "ping", "send", "reply"},
             pc[r] = "reply" => result = "fail_tcp"
      PROVE  AuditOf(r)'
  <2>1. /\ pc'[r] = "finally" /\ resp'[r] = StatusCode[result]
        /\ Audit(r, result) /\ UNCHANGED <<sent, announced>>
    BY <1>4 DEF LeaveAudited, Leave, Goto, TypeOK
  <2>2. result \in Results /\ result \notin Verdicts /\ "fail_tcp" \notin Refusals
    BY DEF Results, Verdicts, Refusals
  <2>3. NoRow(r) /\ r \notin announced /\ (result \in Refusals => r \notin sent)
    BY <1>4, <2>2, NoRowUnannounced DEF AuditOf
  <2> QED
    BY <2>1, <2>2, <2>3, AuditedOnce
<1>5. CASE CooldownRefuses(r) \/ GuardRefuses(r) \/ PingFails(r) \/ SendFails(r)
           \/ ReplyFails(r)
  BY <1>4, <1>5 DEF CooldownRefuses, GuardRefuses, PingFails, SendFails, ReplyFails,
                    Refusals
<1>6. CASE SendFrame(r)
  <2>1. /\ pc[r] = "send" /\ pc'[r] = "reply" /\ sent' = sent \cup {r}
        /\ UNCHANGED <<log, announced>>
    BY <1>6 DEF SendFrame, Goto, TypeOK
  <2> QED
    BY <2>1 DEF AuditOf, NoRow
<1>7. CASE WriteLog(r)
  <2>1. PICK result \in Verdicts : Audit(r, result)
    BY <1>7 DEF WriteLog, Verdicts
  <2>2. /\ pc[r] = "log" /\ pc'[r] = "setcd" /\ UNCHANGED <<sent, announced>>
    BY <1>7 DEF WriteLog, Goto, TypeOK
  <2>3. /\ \A e \in log' : e.req = r => e = [req |-> r, result |-> result]
        /\ [req |-> r, result |-> result] \in log'
    BY <2>1, <2>2 DEF AuditOf, NoRow, Audit
  <2>4. r \in sent
    BY <2>2 DEF AuditOf
  <2>5. \E e \in log' : e.req = r /\ e.result \in Verdicts
    BY <2>3
  <2>6. Verdicts \cap Refusals = {}
    BY DEF Verdicts, Refusals
  <2> QED
    BY <2>2, <2>3, <2>4, <2>5, <2>6 DEF AuditOf
<1>8. CASE SetCooldown(r)
  <2>1. Same /\ pc[r] = "setcd" /\ pc'[r] = "broadcast"
    BY <1>8 DEF SetCooldown, Goto, TypeOK, traces
  <2> QED
    BY <2>1 DEF AuditOf, NoRow
<1>9. CASE Broadcast(r)
  <2>1. /\ pc[r] = "broadcast" /\ pc'[r] = "finally" /\ resp'[r] = 200
        /\ UNCHANGED <<log, sent>>
    BY <1>9 DEF Broadcast, Leave, Goto, TypeOK
  <2>2. \E e \in log : e.req = r /\ e.result \in Verdicts
    BY <2>1 DEF AuditOf
  <2>3. Backed(r)'
    BY <2>1, <2>2 DEF Backed, Verdicts, StatusCode
  <2> QED
    BY <2>1, <2>2, <2>3 DEF AuditOf, NoRow
<1>10. CASE Release(r)
  <2>1. Same /\ pc[r] = "finally" /\ pc'[r] = "done" /\ resp' = resp
    BY <1>10 DEF Release, Goto, TypeOK, traces
  <2> QED
    BY <2>1 DEF AuditOf, NoRow, Backed
<1>11. CASE Crash(r)
  <2>1. Same /\ pc'[r] = "crashed"
    BY <1>11 DEF Crash, Goto, TypeOK, traces
  <2> QED
    BY <2>1 DEF AuditOf, NoRow
<1> QED
  BY <1>1, <1>2, <1>3, <1>5, <1>6, <1>7, <1>8, <1>9, <1>10, <1>11 DEF ViewStep, Step

LEMMA AuditKept == TypeOK /\ AuditOfAll /\ [Next]_vars => AuditOfAll'
<1> SUFFICES ASSUME TypeOK, AuditOfAll, [Next]_vars, NEW q \in Requests
             PROVE  AuditOf(q)'
  BY DEF AuditOfAll
<1>1. AuditOf(q)
  BY DEF AuditOfAll
<1>2. ASSUME NEW r \in Requests, ViewStep(r) PROVE AuditOf(q)'
  BY <1>1, <1>2, OthersUntouched, UntouchedKeepsAudit, OwnStepKeepsAudit
<1>3. CASE PollerPersists \/ Tick \/ RedisRestarts \/ UNCHANGED vars
  <2>1. Untouched(q)
    BY <1>3 DEF PollerPersists, Tick, RedisRestarts, vars, traces, Untouched
  <2> QED
    BY <1>1, <2>1, UntouchedKeepsAudit
<1> QED
  BY <1>2, <1>3 DEF Next, ViewStep

\* Each place in the view leaves the log, the wire and the announcements in the
\* state that the properties below rest on, whatever expires, crashes or is lost.
THEOREM AuditStepwise == Spec => []AuditInStep
<1>1. Init => AuditOfAll
  BY DEF Init, AuditOfAll, AuditOf, NoRow
<1> QED
  BY <1>1, TypeCorrect, AuditKept, AuditSplits, PTL DEF Spec

\* The audit log tells the truth: at most one row of a request, a refusal only
\* where no frame was sent, a verdict only where one was (views.py:101-242), for
\* any number of requests.
THEOREM AuditTrue == Spec => []AuditSound
<1>1. AuditInStep => AuditSound
  BY DEF AuditInStep
<1> QED
  BY <1>1, AuditStepwise, PTL

\* The audit log backs every answer but those for which the code writes no row
\* (views.py:101-255).
THEOREM AuditBacks == Spec => []AuditComplete
<1>1. AuditInStep => AuditComplete
  BY DEF AuditInStep, AuditComplete
<1> QED
  BY <1>1, AuditStepwise, PTL
=============================================================================
