-------------------------------- MODULE Feed --------------------------------
(***************************************************************************)
(* The live feed: WebSocket connections (telemetry/consumers.py) subscribe *)
(* to groups of the channel layer, to which the worker (poll_reclosers.py) *)
(* and maneuvers (maneuvers/views.py) send.                                *)
(*                                                                         *)
(* The channel layer is modelled from its use: a group is a set of         *)
(* channels; group_send puts an event into the queue of each, and where a  *)
(* queue is full it is dropped silently; memberships expire, and are lost  *)
(* with Redis.                                                             *)
(*                                                                         *)
(* Records are numbered in the order in which they were stored, those of   *)
(* the worker and of maneuvers alike.                                      *)
(***************************************************************************)
EXTENDS Naturals, Sequences, FiniteSets, SequencesExt

CONSTANTS
    Clients,        \* connections; each is made once and has its own channel
    Projects,
    Capacity,       \* of a channel's queue
    MaxRecords,     \* bound on the records stored
    MaxSent         \* bound on the events sent

ASSUME NumbersAssumption ==
    /\ Capacity \in Nat \ {0}
    /\ MaxRecords \in Nat
    /\ MaxSent \in Nat

VARIABLES
    conn,           \* new, joining, joined, open, leaving or gone
    route,          \* the group that the path of a connection stands for
    members,        \* pairs of a connection and a group
    queue,          \* events in a channel
    seen,           \* events that the consumer has sent to its client
    stored,         \* records stored so far
    worker,         \* what the worker announces, and where it stands
    verified,       \* the record of a maneuver that is not announced yet, or 0
    log,            \* history: every event sent, with its group
    since,          \* history: what was sent before a connection was accepted
    lossy,          \* history: connections that the layer has failed
    abandoned       \* history: connections that ended without group_discard

layer      == <<members, queue>>
publishers == <<stored, worker, verified>>
history    == <<log, since, lossy, abandoned>>
vars       == <<conn, route, layer, seen, publishers, history>>

All    == "telemetry"
Groups == Projects \cup {All}
Update == "telemetry.update"
Done   == "maneuver.complete"
Idle   == [at |-> "idle"]

\* The name of a project's group is project_ and its id.
ASSUME GroupsAssumption == All \notin Projects

Init ==
    /\ conn = [c \in Clients |-> "new"]
    /\ route \in [Clients -> Groups]
    /\ members = {}
    /\ queue = [c \in Clients |-> <<>>]
    /\ seen = [c \in Clients |-> <<>>]
    /\ stored = 0
    /\ worker = Idle
    /\ verified = [p \in Projects |-> 0]
    /\ log = <<>>
    /\ since = [c \in Clients |-> 0]
    /\ lossy = {}
    /\ abandoned = {}

-----------------------------------------------------------------------------
(* A connection.  connect() runs to its end before any event is dispatched *)
(* and before disconnect() is.                                             *)

Arrives(c) ==
    /\ conn[c] = "new"
    /\ conn' = [conn EXCEPT ![c] = "joining"]
    /\ UNCHANGED <<route, layer, seen, publishers, history>>

\* Nobody is logged in, or group_add raises.
Refused(c) ==
    /\ conn[c] \in {"new", "joining"}
    /\ conn' = [conn EXCEPT ![c] = "gone"]
    /\ UNCHANGED <<route, layer, seen, publishers, history>>

\* Mutant: the path is taken to have a project always.
JoinsProject(c) ==
    /\ conn[c] = "joining"
    /\ conn' = [conn EXCEPT ![c] = "joined"]
    /\ members' = members \cup ({c} \X ({route[c]} \ {All}))
    /\ UNCHANGED <<route, queue, seen, publishers, history>>

\* group_add.
Joins(c) ==
    /\ conn[c] = "joining"
    /\ conn' = [conn EXCEPT ![c] = "joined"]
    /\ members' = members \cup {<<c, route[c]>>}
    /\ UNCHANGED <<route, queue, seen, publishers, history>>

Accepted(c) ==
    /\ conn[c] = "joined"
    /\ conn' = [conn EXCEPT ![c] = "open"]
    /\ since' = [since EXCEPT ![c] = Len(log)]
    /\ UNCHANGED <<route, layer, seen, publishers, log, lossy, abandoned>>

\* telemetry_update, maneuver_complete or device_offline.
Delivers(c) ==
    /\ conn[c] = "open"
    /\ queue[c] # <<>>
    /\ seen' = [seen EXCEPT ![c] = Append(@, Head(queue[c]))]
    /\ queue' = [queue EXCEPT ![c] = Tail(@)]
    /\ UNCHANGED <<conn, route, members, publishers, history>>

Leaves(c) ==
    /\ conn[c] = "open"
    /\ conn' = [conn EXCEPT ![c] = "leaving"]
    /\ UNCHANGED <<route, layer, seen, publishers, history>>

\* Mutant: only the global group is left.
DisconnectsGlobal(c) ==
    /\ conn[c] = "leaving"
    /\ conn' = [conn EXCEPT ![c] = "gone"]
    /\ members' = members \ {<<c, All>>}
    /\ UNCHANGED <<route, queue, seen, publishers, history>>

\* group_discard of what was joined.
Disconnects(c) ==
    /\ conn[c] = "leaving"
    /\ conn' = [conn EXCEPT ![c] = "gone"]
    /\ members' = members \ {<<c, route[c]>>}
    /\ UNCHANGED <<route, queue, seen, publishers, history>>

\* group_add raises although Redis has run it, group_discard raises, or the
\* process of the connection dies.
Abandoned(c) ==
    /\ conn[c] \in {"joined", "open", "leaving"}
    /\ conn' = [conn EXCEPT ![c] = "gone"]
    /\ abandoned' = abandoned \cup {c}
    /\ UNCHANGED <<route, layer, seen, publishers, log, since, lossy>>

-----------------------------------------------------------------------------
(* The channel layer.                                                      *)

Listeners(g) == {c \in Clients : conn[c] # "gone" /\ <<c, g>> \in members}
Full(g)      == {c \in Listeners(g) : Len(queue[c]) = Capacity}

group_send(g, event) ==
    /\ Len(log) < MaxSent
    /\ log' = Append(log, [to |-> g, event |-> event])
    /\ queue' = [c \in Clients |->
                   IF c \in Listeners(g) \ Full(g) THEN Append(queue[c], event)
                   ELSE queue[c]]
    /\ lossy' = lossy \cup Full(g)
    /\ UNCHANGED <<conn, route, members, seen, since, abandoned>>

\* It raises, or does not answer within CHANNEL_SEND_TIMEOUT_SECONDS.
NothingSent == UNCHANGED <<conn, route, layer, seen, history>>

\* A membership has a time to live, and is not renewed; Redis may restart
\* without its keys.
Forgets ==
    /\ \E lost \in {{pair} : pair \in members} \cup {members} : members' = members \ lost
    /\ queue' \in {queue, [c \in Clients |-> <<>>]}
    /\ lossy' = lossy \cup
          {c \in Clients : \/ queue'[c] # queue[c]
                           \/ <<c, route[c]>> \in members \ members'}
    /\ UNCHANGED <<conn, route, seen, publishers, log, since, abandoned>>

-----------------------------------------------------------------------------
(* The worker.                                                             *)

\* persist_points; broadcast_telemetry follows.
WorkerStores(p) ==
    /\ worker.at = "idle"
    /\ stored < MaxRecords
    /\ stored' = stored + 1
    /\ worker' = [at |-> "project", project |-> p, record |-> stored']
    /\ UNCHANGED <<conn, route, layer, seen, verified, history>>

Announced == [kind |-> Update, project |-> worker.project, record |-> worker.record]

\* Mutant: a send that raised is tried again, also when Redis has run it.
AnnounceUntilSent ==
    /\ worker.at = "project"
    /\ \/ group_send(worker.project, Announced) /\ UNCHANGED worker
       \/ group_send(worker.project, Announced) /\ worker' = [worker EXCEPT !.at = "all"]
    /\ UNCHANGED <<stored, verified>>

\* The first send; where it raises, even after Redis has run it, the second is
\* skipped.
AnnounceToProject ==
    /\ worker.at = "project"
    /\ \/ group_send(worker.project, Announced) /\ worker' = [worker EXCEPT !.at = "all"]
       \/ group_send(worker.project, Announced) /\ worker' = Idle
       \/ NothingSent /\ worker' = Idle
    /\ UNCHANGED <<stored, verified>>

AnnounceToAll ==
    /\ worker.at = "all"
    /\ group_send(All, Announced) \/ NothingSent
    /\ worker' = Idle
    /\ UNCHANGED <<stored, verified>>

\* mark_offline tells the project's group alone.
mark_offline(p) ==
    /\ worker.at = "idle"
    /\ group_send(p, [kind |-> "device.offline", project |-> p, record |-> 0])
    /\ UNCHANGED publishers

-----------------------------------------------------------------------------
(* A maneuver; there is one at a time of a project, see Maneuver.          *)

ManeuverStores(p) ==
    /\ verified[p] = 0
    /\ stored < MaxRecords
    /\ stored' = stored + 1
    /\ verified' = [verified EXCEPT ![p] = stored']
    /\ UNCHANGED <<conn, route, layer, seen, worker, history>>

\* It tells the project's group alone, or nobody when the send raises.
ManeuverAnnounces(p) ==
    /\ verified[p] # 0
    /\ verified' = [verified EXCEPT ![p] = 0]
    /\ \/ group_send(p, [kind |-> Done, project |-> p, record |-> verified[p]])
       \/ NothingSent
    /\ UNCHANGED <<stored, worker>>

Next ==
    \/ \E c \in Clients :
         \/ Arrives(c) \/ Refused(c) \/ Joins(c) \/ Accepted(c)
         \/ Delivers(c)
         \/ Leaves(c) \/ Disconnects(c) \/ Abandoned(c)
    \/ Forgets
    \/ \E p \in Projects :
         \/ WorkerStores(p) \/ mark_offline(p)
         \/ ManeuverStores(p) \/ ManeuverAnnounces(p)
    \/ AnnounceToProject \/ AnnounceToAll

Spec == Init /\ [][Next]_vars

-----------------------------------------------------------------------------
(* Properties.                                                             *)

\* What the client of a connection has been sent or is about to be.
Heard(c) == seen[c] \o queue[c]

Served == {c \in Clients : conn[c] = "open" /\ c \notin lossy}

\* What was sent to its group since it was accepted, by its place in the log.
Due(c) == {i \in since[c] + 1..Len(log) : log[i].to = route[c]}

DueAfter(c, i) == {j \in Due(c) : j > i}

\* From the moment it is accepted, a connection is sent every event of its
\* group, in the order of the sends, unless the layer lost it: there is no gap
\* between group_add and accept (consumers.py:16-33).
NothingMissed ==
    \A c \in Served : \A i \in Due(c) :
        LET later == Cardinality(DueAfter(c, i))
        IN  /\ later < Len(Heard(c))
            /\ Heard(c)[Len(Heard(c)) - later] = log[i].event

\* The events of a kind that come after the i-th with an older record, or the same.
Older(heard, i, kind) == {j \in i + 1..Len(heard) :
    /\ heard[j].kind = kind
    /\ heard[j].project = heard[i].project
    /\ heard[j].record <= heard[i].record}

InOrder(heard) ==
    /\ \A i, j \in DOMAIN heard :
         i < j /\ heard[i].kind = Update /\ heard[j].kind = Update =>
             heard[i].record < heard[j].record
    /\ \A i \in DOMAIN heard :
         heard[i].kind = Done =>
             /\ Older(heard, i, Done) = {}
             /\ Cardinality(Older(heard, i, Update)) <= 1

\* A client is told of no record twice and of none after a newer one, whatever
\* fails and is lost in between: but after the outcome of a maneuver one update
\* may come that was stored before it, the one that the worker was about to
\* announce (poll_reclosers.py:119-172, 232-233, maneuvers/views.py:233-253).
ToldInOrder == \A c \in Clients : InOrder(Heard(c))

\* A connection that is over is in no group, unless its end was not seen to:
\* else every browser that ever looked would stay a member until the layer's
\* time to live removes it (consumers.py:35-37).
LeavesNoTrace ==
    \A c \in Clients \ abandoned :
        conn[c] = "gone" => \A g \in Groups : <<c, g>> \notin members

\* "Broadcasts telemetry updates and maneuver events to connected clients ...
\* global subscription (all projects)" (consumers.py:9-13): the global view
\* hears of a maneuver that any group was told of.
GlobalHearsManeuvers ==
    \A c \in Served : route[c] = All =>
        \A i \in since[c] + 1..Len(log) :
            log[i].event.kind = Done => Contains(Heard(c), log[i].event)
=============================================================================
