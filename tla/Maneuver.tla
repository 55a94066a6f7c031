------------------------------ MODULE Maneuver ------------------------------
(***************************************************************************)
(* The maneuver endpoint (apps/maneuvers/views.py, maneuver_view): several *)
(* requests, each running in a thread of its own, want to TRIP or CLOSE    *)
(* the recloser of ONE project.  They meet in Redis (the keys maneuver:<id>*)
(* and cooldown:<id>), in the telemetry table, in the audit log and at the *)
(* device.  Both Redis keys carry the project id and nothing else is       *)
(* shared, so projects do not interact and one project is enough.          *)
(*                                                                         *)
(* A request's program counter names the step of the view it takes next:   *)
(*                                                                         *)
(*   idle -> lock -> cooldown -> guard -> ping -> send -> reply -> verify  *)
(*        -> persist -> log -> setcd -> broadcast -> finally -> done       *)
(*                                                                         *)
(* Time is counted in ticks.  A Redis key is represented by the ticks its  *)
(* TTL has left (0: the key does not exist), so no clock grows for ever.   *)
(***************************************************************************)
EXTENDS Naturals

CONSTANTS
    Requests,       \* the POST requests, each made once
    MutexTTL,       \* settings.MANEUVER_MUTEX_TTL_SECONDS, in ticks
    CooldownTTL,    \* settings.MANEUVER_COOLDOWN_SECONDS, in ticks
    HoldLimit,      \* most ticks a request spends between SET NX and DEL
    RedisForgets    \* whether Redis may restart without its keys

ASSUME ConstantsAssumption ==
    /\ MutexTTL \in Nat \ {0}
    /\ CooldownTTL \in Nat \ {0}
    /\ HoldLimit \in Nat
    /\ RedisForgets \in BOOLEAN

VARIABLES
    pc,             \* where each request is in maneuver_view
    action,         \* the validated action of the request
    post,           \* post_status, the result of the verification read
    resp,           \* the HTTP status the request is answered with
    held,           \* ticks since the request's SET NX succeeded
    mutex,          \* ticks the key maneuver:<id> has left
    owner,          \* history: the request whose SET NX made that key
    cooldown,       \* ticks the key cooldown:<id> has left
    latest,         \* derived_status of the newest TelemetryRecord
    log,            \* the ManeuverLog rows
    sent,           \* history: requests whose control frame left for the device
    announced       \* history: requests whose maneuver.complete was broadcast

vars == <<pc, action, post, resp, held, mutex, owner, cooldown,
          latest, log, sent, announced>>

redis  == <<mutex, owner, cooldown>>
traces == <<log, sent, announced>>

Actions  == {"TRIP", "CLOSE"}
Status   == {"OPEN", "CLOSED", "ERROR"}
Refusals == {"fail_locked", "fail_cooldown", "fail_guard", "fail_tunnel"}
Verdicts == {"success", "fail_verify"}
Results  == Refusals \cup Verdicts \cup {"fail_tcp"}
Entry    == [req : Requests, result : Results]

Required == [TRIP |-> "CLOSED", CLOSE |-> "OPEN"]
Expected == [TRIP |-> "OPEN", CLOSE |-> "CLOSED"]

StatusCode == [fail_locked |-> 409, fail_cooldown |-> 429, fail_guard |-> 422,
               fail_tunnel |-> 503, fail_tcp |-> 502,
               success |-> 200, fail_verify |-> 200]
Unaudited  == {400, 403, 404, 500}
Codes      == Unaudited \cup {200, 409, 422, 429, 502, 503}

\* The body of the try block that begins at views.py:126, where the request
\* believes that it holds the mutex.
Body == {"cooldown", "guard", "ping", "send", "reply", "verify", "persist",
         "log", "setcd", "broadcast", "finally"}
InBody(r) == pc[r] \in Body

-----------------------------------------------------------------------------
(* Steps shared by the actions.                                            *)

Goto(r, step) == pc' = [pc EXCEPT ![r] = step]

Audit(r, result) == log' = log \cup {[req |-> r, result |-> result]}

\* A return or an exception inside the try block: the answer is fixed, and
\* the finally clause runs next.
Leave(r, code) ==
    /\ Goto(r, "finally")
    /\ resp' = [resp EXCEPT ![r] = code]

\* A ManeuverLog row is written and the view returns the status that goes
\* with its result.
LeaveAudited(r, result) ==
    /\ Leave(r, StatusCode[result])
    /\ Audit(r, result)
    /\ UNCHANGED <<action, post, held, redis, latest, sent, announced>>

\* The view is over, and with it the request's local variables.
Forget(r) ==
    /\ action' = [action EXCEPT ![r] = "none"]
    /\ post' = [post EXCEPT ![r] = "none"]
    /\ held' = [held EXCEPT ![r] = 0]

Init ==
    /\ pc = [r \in Requests |-> "idle"]
    /\ action = [r \in Requests |-> "none"]
    /\ post = [r \in Requests |-> "none"]
    /\ resp = [r \in Requests |-> 0]
    /\ held = [r \in Requests |-> 0]
    /\ mutex = 0
    /\ owner \in Requests
    /\ cooldown = 0
    /\ latest = "none"
    /\ log = {}
    /\ sent = {}
    /\ announced = {}

-----------------------------------------------------------------------------
(* Before the mutex.                                                       *)

\* IsOperator, the serializer and get_object_or_404 all let the request in.
Arrive(r) ==
    /\ pc[r] = "idle"
    /\ \E a \in Actions : action' = [action EXCEPT ![r] = a]
    /\ Goto(r, "lock")
    /\ UNCHANGED <<post, resp, held, redis, latest, traces>>

\* One of them does not: no operator (403), an unknown action (400), a
\* project that is missing or disabled (404).
TurnAway(r) ==
    /\ pc[r] = "idle"
    /\ \E code \in {400, 403, 404} : resp' = [resp EXCEPT ![r] = code]
    /\ Goto(r, "done")
    /\ UNCHANGED <<action, post, held, redis, latest, traces>>

\* Mutant: SET without NX.
AcquireWithoutNX(r) ==
    /\ pc[r] = "lock"
    /\ mutex' = MutexTTL
    /\ owner' = r
    /\ Goto(r, "cooldown")
    /\ UNCHANGED <<action, post, resp, held, cooldown, latest, traces>>

\* SET mutex_key NX EX: the key did not exist and now is the request's.
Acquire(r) ==
    /\ pc[r] = "lock"
    /\ mutex = 0
    /\ mutex' = MutexTTL
    /\ owner' = r
    /\ Goto(r, "cooldown")
    /\ UNCHANGED <<action, post, resp, held, cooldown, latest, traces>>

\* The request is answered without the mutex: 409 and a fail_locked row, or
\* 500 when the row cannot be written (the second create is not protected).
AnswerLocked(r) ==
    /\ Goto(r, "done")
    /\ \/ Audit(r, "fail_locked") /\ resp' = [resp EXCEPT ![r] = 409]
       \/ UNCHANGED log /\ resp' = [resp EXCEPT ![r] = 500]
    /\ Forget(r)
    /\ UNCHANGED <<cooldown, latest, sent, announced>>

\* Mutant: the busy answer is given inside the try block.
LockBusyInsideTry(r) ==
    /\ pc[r] = "lock"
    /\ mutex > 0
    /\ LeaveAudited(r, "fail_locked")

\* Mutant: the busy row is written, and the return is missing.
LockBusyWithoutReturn(r) ==
    /\ pc[r] = "lock"
    /\ mutex > 0
    /\ Audit(r, "fail_locked")
    /\ Goto(r, "cooldown")
    /\ UNCHANGED <<action, post, resp, held, redis, latest, sent, announced>>

\* SET NX found the key: "Another maneuver is in progress".
LockBusy(r) ==
    /\ pc[r] = "lock"
    /\ mutex > 0
    /\ AnswerLocked(r)
    /\ UNCHANGED <<mutex, owner>>

\* The call raised: Redis did not run the SET, or ran it and the reply was
\* lost, which leaves a key that no request knows to be its own.
LockError(r) ==
    /\ pc[r] = "lock"
    /\ AnswerLocked(r)
    /\ \/ UNCHANGED <<mutex, owner>>
       \/ mutex = 0 /\ mutex' = MutexTTL /\ owner' = r

-----------------------------------------------------------------------------
(* Inside the try block.                                                   *)

\* Step 2: the cooldown key exists.
CooldownRefuses(r) ==
    /\ pc[r] = "cooldown"
    /\ cooldown > 0
    /\ LeaveAudited(r, "fail_cooldown")

\* Mutant: the cooldown is not looked at.
CooldownUnchecked(r) ==
    /\ pc[r] = "cooldown"
    /\ Goto(r, "guard")
    /\ UNCHANGED <<action, post, resp, held, redis, latest, traces>>

CooldownPasses(r) ==
    /\ pc[r] = "cooldown"
    /\ cooldown = 0
    /\ Goto(r, "guard")
    /\ UNCHANGED <<action, post, resp, held, redis, latest, traces>>

\* Step 3: the newest telemetry record is missing (404, not audited), shows
\* another status than the action requires (422), or lets the action pass.
\* Its age is not looked at.
GuardNoTelemetry(r) ==
    /\ pc[r] = "guard"
    /\ latest = "none"
    /\ Leave(r, 404)
    /\ UNCHANGED <<action, post, held, redis, latest, traces>>

GuardRefuses(r) ==
    /\ pc[r] = "guard"
    /\ latest \notin {"none", Required[action[r]]}
    /\ LeaveAudited(r, "fail_guard")

GuardPasses(r) ==
    /\ pc[r] = "guard"
    /\ latest = Required[action[r]]
    /\ Goto(r, "ping")
    /\ UNCHANGED <<action, post, resp, held, redis, latest, traces>>

\* Mutant: the row is written, and the return is missing.
PingFailsWithoutReturn(r) ==
    /\ pc[r] = "ping"
    /\ Audit(r, "fail_tunnel")
    /\ Goto(r, "send")
    /\ UNCHANGED <<action, post, resp, held, redis, latest, sent, announced>>

\* Step 4: _ping_host.
PingFails(r) ==
    /\ pc[r] = "ping"
    /\ LeaveAudited(r, "fail_tunnel")

\* Mutant: the cooldown is set before the frame is sent.
PingAnswersAndCools(r) ==
    /\ pc[r] = "ping"
    /\ cooldown' = CooldownTTL
    /\ Goto(r, "send")
    /\ UNCHANGED <<action, post, resp, held, mutex, owner, latest, traces>>

PingAnswers(r) ==
    /\ pc[r] = "ping"
    /\ Goto(r, "send")
    /\ UNCHANGED <<action, post, resp, held, redis, latest, traces>>

\* Mutant: the failure is answered and not audited.
SendFailsUnaudited(r) ==
    /\ pc[r] = "send"
    /\ Leave(r, 502)
    /\ UNCHANGED <<action, post, held, redis, latest, traces>>

\* Step 5: _send_control_frame.  The connection or the send fails before the
\* frame is out, or the frame leaves and the reply is awaited.
SendFails(r) ==
    /\ pc[r] = "send"
    /\ LeaveAudited(r, "fail_tcp")

\* Mutant: the mutex guards the send alone.
SendFrameAndUnlock(r) ==
    /\ pc[r] = "send"
    /\ sent' = sent \cup {r}
    /\ mutex' = 0
    /\ Goto(r, "reply")
    /\ UNCHANGED <<action, post, resp, held, owner, cooldown, latest, log, announced>>

SendFrame(r) ==
    /\ pc[r] = "send"
    /\ sent' = sent \cup {r}
    /\ Goto(r, "reply")
    /\ UNCHANGED <<action, post, resp, held, redis, latest, log, announced>>

\* A reply frame arrives, or the receive times out: both continue.  Any other
\* error (the device closes the connection) is reported as fail_tcp, although
\* the frame is out.
ReplyOrTimeout(r) ==
    /\ pc[r] = "reply"
    /\ Goto(r, "verify")
    /\ UNCHANGED <<action, post, resp, held, redis, latest, traces>>

\* The device closes or resets the connection instead.
ReplyFails(r) ==
    /\ pc[r] = "reply"
    /\ LeaveAudited(r, "fail_tcp")

\* Step 6: _read_after_command.  The recloser may be anywhere by now, also by
\* its own protection; no usable answer is "ERROR".
VerifyRead(r) ==
    /\ pc[r] = "verify"
    /\ \E s \in Status : post' = [post EXCEPT ![r] = s]
    /\ Goto(r, "persist")
    /\ UNCHANGED <<action, resp, held, redis, latest, traces>>

\* Step 7: the new TelemetryRecord becomes the newest one.
Persist(r) ==
    /\ pc[r] = "persist"
    /\ latest' = post[r]
    /\ Goto(r, "log")
    /\ UNCHANGED <<action, post, resp, held, redis, traces>>

\* Mutant: the status read back is stored in the place of the verdict.
WriteLogOfStatus(r) ==
    /\ pc[r] = "log"
    /\ Audit(r, post[r])
    /\ Goto(r, "setcd")
    /\ UNCHANGED <<action, post, resp, held, redis, latest, sent, announced>>

\* Step 8: the ManeuverLog row with the verdict.
WriteLog(r) ==
    /\ pc[r] = "log"
    /\ Audit(r, IF post[r] = Expected[action[r]] THEN "success" ELSE "fail_verify")
    /\ Goto(r, "setcd")
    /\ UNCHANGED <<action, post, resp, held, redis, latest, sent, announced>>

\* Step 9: SET cooldown_key EX; an error is suppressed.
SetCooldown(r) ==
    /\ pc[r] = "setcd"
    /\ cooldown' \in {CooldownTTL, cooldown}
    /\ Goto(r, "broadcast")
    /\ UNCHANGED <<action, post, resp, held, mutex, owner, latest, traces>>

\* Step 10: group_send of maneuver.complete; an error is suppressed.
Broadcast(r) ==
    /\ pc[r] = "broadcast"
    /\ announced' \in {announced \cup {r}, announced}
    /\ Leave(r, 200)
    /\ UNCHANGED <<action, post, held, redis, latest, log, sent>>

\* An exception that nothing catches leaves the try block from any step up to
\* the audit row: Redis or the database fails, or _read_after_command raises.
\* Django answers 500 and no row is written.
Abort(r) ==
    /\ pc[r] \in Body \ {"setcd", "broadcast", "finally"}
    /\ Leave(r, 500)
    /\ UNCHANGED <<action, post, held, redis, latest, traces>>

\* Mutant: DEL is repeated until it reports that it removed the key.
ReleaseRetried(r) ==
    /\ pc[r] = "finally"
    /\ mutex > 0
    /\ mutex' = 0
    /\ Goto(r, "done")
    /\ Forget(r)
    /\ UNCHANGED <<resp, owner, cooldown, latest, traces>>

\* The finally clause: DEL mutex_key, whoever made the key; an error is
\* suppressed.
Release(r) ==
    /\ pc[r] = "finally"
    /\ mutex' \in {0, mutex}
    /\ Goto(r, "done")
    /\ Forget(r)
    /\ UNCHANGED <<resp, owner, cooldown, latest, traces>>

\* The process that runs the request is killed: no finally clause.
Crash(r) ==
    /\ pc[r] = "lock" \/ InBody(r)
    /\ Goto(r, "crashed")
    /\ Forget(r)
    /\ UNCHANGED <<resp, redis, latest, traces>>

-----------------------------------------------------------------------------
(* The surroundings.                                                       *)

\* The poller (persist_points) stores a record with any status, at any time.
PollerPersists ==
    /\ \E s \in Status : latest' = s
    /\ UNCHANGED <<pc, action, post, resp, held, redis, traces>>

Less(n) == IF n > 0 THEN n - 1 ELSE 0

\* Mutant: SET without EX, the mutex does not expire.
TickWithoutExpiry ==
    /\ \A r \in Requests : InBody(r) => held[r] < HoldLimit
    /\ cooldown' = Less(cooldown)
    /\ held' = [r \in Requests |-> IF InBody(r) THEN held[r] + 1 ELSE held[r]]
    /\ UNCHANGED <<pc, action, post, resp, mutex, owner, latest, traces>>

\* Time passes: TTLs run down.  HoldLimit bounds how long a request stays in
\* its try block; it is an assumption on the network, not on the code.
Tick ==
    /\ \A r \in Requests : InBody(r) => held[r] < HoldLimit
    /\ mutex' = Less(mutex)
    /\ cooldown' = Less(cooldown)
    /\ held' = [r \in Requests |-> IF InBody(r) THEN held[r] + 1 ELSE held[r]]
    /\ UNCHANGED <<pc, action, post, resp, owner, latest, traces>>

\* Redis restarts and comes back without its keys.
RedisRestarts ==
    /\ RedisForgets
    /\ mutex' = 0
    /\ cooldown' = 0
    /\ UNCHANGED <<pc, action, post, resp, held, owner, latest, traces>>

\* The steps the view itself takes once the request is in.
Step(r) ==
    \/ Acquire(r) \/ LockBusy(r) \/ LockError(r)
    \/ CooldownRefuses(r) \/ CooldownPasses(r)
    \/ GuardNoTelemetry(r) \/ GuardRefuses(r) \/ GuardPasses(r)
    \/ PingFails(r) \/ PingAnswers(r)
    \/ SendFails(r) \/ SendFrame(r)
    \/ ReplyOrTimeout(r) \/ ReplyFails(r)
    \/ VerifyRead(r) \/ Persist(r) \/ WriteLog(r)
    \/ SetCooldown(r) \/ Broadcast(r)
    \/ Abort(r) \/ Release(r)

Next ==
    \/ \E r \in Requests : Arrive(r) \/ TurnAway(r) \/ Step(r) \/ Crash(r)
    \/ PollerPersists
    \/ Tick
    \/ RedisRestarts

Spec == Init /\ [][Next]_vars

\* Time passes, and a request that is not killed takes its next step: every
\* call of the view has a timeout.  (recv_dnp3_frame has one for each recv, so
\* this also assumes a device that does not trickle bytes for ever.)  Nothing
\* is assumed of the clients, the poller, Redis or crashes.
FairSpec ==
    /\ Spec
    /\ WF_vars(Tick)
    /\ \A r \in Requests : WF_vars(Step(r))

-----------------------------------------------------------------------------
(* Properties.                                                             *)

\* Every variable has its type.
TypeOK ==
    /\ pc \in [Requests -> Body \cup {"idle", "lock", "done", "crashed"}]
    /\ action \in [Requests -> Actions \cup {"none"}]
    /\ post \in [Requests -> Status \cup {"none"}]
    /\ resp \in [Requests -> Codes \cup {0}]
    /\ held \in [Requests -> 0..HoldLimit]
    /\ mutex \in 0..MutexTTL
    /\ owner \in Requests
    /\ cooldown \in 0..CooldownTTL
    /\ latest \in Status \cup {"none"}
    /\ log \subseteq Entry
    /\ sent \subseteq Requests
    /\ announced \subseteq Requests

\* At most one request is between its SET NX and its DEL: the mutex of
\* views.py:97-100 does keep a second maneuver of the project out.
MutualExclusion ==
    \A p, q \in Requests : InBody(p) /\ InBody(q) => p = q

\* The unconditional DEL of views.py:259 never removes the key of another
\* request, although the key's value does not say whose it is.
ReleasesOwnMutex ==
    [][\A r \in Requests :
          pc[r] = "finally" /\ pc'[r] = "done" /\ mutex' # mutex => owner = r]_vars

\* No control frame leaves while the cooldown key exists, although the check
\* (views.py:128) and the send (views.py:182) are far apart.
CooldownHonoured ==
    [][sent' # sent => cooldown = 0]_vars

\* From the guard's read of the newest record to the control frame, only the
\* poller can put a newer record in the table: no other maneuver decides
\* about the recloser in between.
GuardStableButForPoller ==
    [][(\E r \in Requests : pc[r] \in {"ping", "send"}) /\ latest' # latest
          => pc' = pc]_vars

\* The audit log is truthful: one row for a request at most; a row that says
\* the maneuver was refused belongs to a request that never sent a frame; a
\* verdict belongs to one that did; only verdicts are announced.
AuditSound ==
    /\ \A e, f \in log : e.req = f.req => e = f
    /\ \A e \in log : e.result \in Refusals => e.req \notin sent
    /\ \A e \in log : e.result \in Verdicts => e.req \in sent
    /\ \A r \in announced : \E e \in log : e.req = r /\ e.result \in Verdicts

\* The answer of r and its audit row agree: an answer other than 400, 403, 404
\* and 500 is backed by the row with the result it reports, and an unaudited
\* answer other than 500 means that no frame was sent.
Backed(r) ==
    \/ /\ resp[r] \in Unaudited
       /\ \A e \in log : e.req # r
       /\ r \in sent => resp[r] = 500
    \/ \E e \in log : e.req = r /\ resp[r] = StatusCode[e.result]

\* Every request that was answered has the audit row its answer speaks of,
\* whichever of the seven creates of views.py:101-227 was to write it.
AuditComplete ==
    \A r \in Requests : pc[r] = "done" => Backed(r)

\* Every request the view lets in is answered unless its process is killed.
Answered ==
    \A r \in Requests : pc[r] = "lock" ~> pc[r] \in {"done", "crashed"}

\* The mutex does not stay with a request that is gone: killed, cut off from
\* Redis, or never told that it got the key.
MutexFreed ==
    \A r \in Requests :
        mutex > 0 /\ owner = r /\ ~InBody(r) ~> (mutex = 0 \/ owner # r)

-----------------------------------------------------------------------------
(* The inductive invariants behind the safety properties.                  *)

\* No request outlives the mutex it made, and Redis keeps its keys.
Prompt == HoldLimit < MutexTTL /\ ~RedisForgets

\* Under Prompt: the key of the request in the try block (views.py:126-259) is
\* its own and runs down no faster than the request's time there; and the
\* cooldown that it found missing stays missing until its frame is sent.
HolderKeepsMutex ==
    \A r \in Requests :
        /\ InBody(r) => owner = r /\ mutex + held[r] >= MutexTTL
        /\ pc[r] \in {"guard", "ping", "send"} => cooldown = 0

\* What the log, the wire and the step a request has reached have to do with
\* one another: no row and no frame before the send, a frame and no row until
\* the verdict, a row that backs the answer from then on (views.py:97-259).
AuditInStep ==
    /\ AuditSound
    /\ \A r \in Requests :
        /\ pc[r] \in {"idle", "lock", "cooldown", "guard", "ping", "send"}
              => r \notin sent
        /\ pc[r] \in {"reply", "verify", "persist", "log"} => r \in sent
        /\ pc[r] \notin {"setcd", "broadcast", "finally", "done", "crashed"}
              => \A e \in log : e.req # r
        /\ pc[r] \in {"setcd", "broadcast"}
              => \E e \in log : e.req = r /\ e.result \in Verdicts
        /\ pc[r] \in {"finally", "done"} => Backed(r)
=============================================================================
