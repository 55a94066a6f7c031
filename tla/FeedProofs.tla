----------------------------- MODULE FeedProofs -----------------------------
(***************************************************************************)
(* What TLAPS proves about Feed for any connections and projects, any      *)
(* capacity of a channel and any number of records.                        *)
(***************************************************************************)
EXTENDS Feed, SequenceTheorems, FiniteSetTheorems, TLAPS

-----------------------------------------------------------------------------
(* Types.                                                                  *)

Event == [kind : {Update, Done, "device.offline"}, project : Projects, record : Nat]
Entry == [to : Groups, event : Event]
Busy  == [at : {"project", "all"}, project : Projects, record : Nat]

ConnectionTypes ==
    /\ conn \in [Clients -> {"new", "joining", "joined", "open", "leaving", "gone"}]
    /\ route \in [Clients -> Groups]
    /\ queue \in [Clients -> Seq(Event)]
    /\ seen \in [Clients -> Seq(Event)]

PublisherTypes ==
    /\ stored \in Nat
    /\ worker \in {Idle} \cup Busy
    /\ verified \in [Projects -> Nat]

HistoryTypes ==
    /\ log \in Seq(Entry)
    /\ since \in [Clients -> Nat]
    /\ \A c \in Clients : since[c] <= Len(log)

FeedTypes == ConnectionTypes /\ PublisherTypes /\ HistoryTypes

-----------------------------------------------------------------------------
(* Who is in a group.                                                      *)

\* A connection is in no group but its own, and that from group_add to
\* group_discard: LeavesNoTrace alone does not say that one which is refused was
\* never added.
Membership ==
    \A c \in Clients, g \in Groups :
        /\ <<c, g>> \in members => g = route[c] /\ conn[c] \notin {"new", "joining"}
        /\ conn[c] = "gone" /\ c \notin abandoned => <<c, g>> \notin members

\* Of a connection that the layer has not failed, the membership is there.
Subscribed ==
    \A c \in Clients :
        conn[c] \in {"joined", "open"} /\ c \notin lossy => <<c, route[c]>> \in members

-----------------------------------------------------------------------------
(* What a client has heard.                                                *)

\* What a client that listens to group g has heard, held against the records
\* stored so far (n) and those that the worker (w) and the maneuvers (v) are about
\* to announce.  InOrder alone does not say what may still come.
Tidy(h, g, n, w, v) ==
    /\ \A i \in 1..Len(h) : h[i].record <= n
    /\ \A i \in 1..Len(h) : h[i].kind = Update =>
          /\ w.at = "project" => h[i].record < w.record
          /\ w.at = "all" /\ g = All => h[i].record < w.record
    /\ \A i \in 1..Len(h) : h[i].kind = Done =>
          /\ g # All
          /\ v[h[i].project] # 0 => h[i].record < v[h[i].project]
          /\ w.at = "project" /\ w.project = h[i].project /\ w.record <= h[i].record
                => Older(h, i, Update) = {}
          /\ Older(h, i, Done) = {}
          /\ \A j, k \in Older(h, i, Update) : j = k
    /\ \A i, j \in 1..Len(h) :
          i < j /\ h[i].kind = Update /\ h[j].kind = Update => h[i].record < h[j].record

\* What is to be announced is stored.
Announcing ==
    /\ worker.at # "idle" => worker.record <= stored
    /\ \A p \in Projects : verified[p] <= stored

AllTidy == \A c \in Clients : Tidy(Heard(c), route[c], stored, worker, verified)

-----------------------------------------------------------------------------
(* Sequences.                                                              *)

\* What is put at the end of the queue comes at the end of what is heard.
LEMMA AppendedLast ==
    ASSUME NEW S, NEW s \in Seq(S), NEW q \in Seq(S), NEW e \in S
    PROVE  s \o Append(q, e) = Append(s \o q, e)
<1>1. s \o q \in Seq(S) /\ <<e>> \in Seq(S)
  BY ConcatProperties
<1>2. Append(q, e) = q \o <<e>> /\ Append(s \o q, e) = (s \o q) \o <<e>>
  BY <1>1, AppendIsConcat
<1> QED
  BY <1>1, <1>2, ConcatAssociative

\* Taking an event out of the queue and sending it changes nothing of what is
\* heard.
LEMMA DeliveredInPlace ==
    ASSUME NEW S, NEW s \in Seq(S), NEW q \in Seq(S), q # <<>>
    PROVE  /\ Append(s, Head(q)) \o Tail(q) = s \o q
           /\ Append(s, Head(q)) \in Seq(S) /\ Tail(q) \in Seq(S)
<1> DEFINE l == Append(s, Head(q)) \o Tail(q)
           r == s \o q
<1>1. /\ Head(q) \in S /\ Head(q) = q[1] /\ Tail(q) \in Seq(S)
      /\ Len(Tail(q)) = Len(q) - 1 /\ Len(q) \in Nat \ {0} /\ Len(s) \in Nat
      /\ \A i \in 1..Len(q) - 1 : Tail(q)[i] = q[i + 1]
  BY HeadTailProperties, LenProperties, EmptySeq
<1>2. /\ Append(s, Head(q)) \in Seq(S) /\ Len(Append(s, Head(q))) = Len(s) + 1
      /\ \A i \in 1..Len(s) : Append(s, Head(q))[i] = s[i]
      /\ Append(s, Head(q))[Len(s) + 1] = q[1]
  BY <1>1, AppendProperties
<1>3. /\ l \in Seq(S) /\ Len(l) = Len(s) + Len(q)
      /\ \A i \in 1..Len(s) + Len(q) :
           l[i] = IF i <= Len(s) + 1 THEN Append(s, Head(q))[i]
                  ELSE Tail(q)[i - (Len(s) + 1)]
  BY <1>1, <1>2, ConcatProperties
<1>4. /\ r \in Seq(S) /\ Len(r) = Len(s) + Len(q)
      /\ \A i \in 1..Len(s) + Len(q) :
           r[i] = IF i <= Len(s) THEN s[i] ELSE q[i - Len(s)]
  BY ConcatProperties
<1>5. ASSUME NEW i \in 1..Len(l) PROVE l[i] = r[i]
  <2>1. CASE i <= Len(s)
    BY <1>1, <1>2, <1>3, <1>4, <2>1
  <2>2. CASE i = Len(s) + 1
    BY <1>1, <1>2, <1>3, <1>4, <2>2
  <2>3. CASE i > Len(s) + 1
    <3>1. i - (Len(s) + 1) \in 1..Len(q) - 1
      BY <1>1, <1>3, <2>3
    <3>2. Tail(q)[i - (Len(s) + 1)] = q[(i - (Len(s) + 1)) + 1]
      BY <1>1, <3>1
    <3> QED
      BY <1>1, <1>3, <1>4, <2>3, <3>2
  <2> QED
    BY <1>1, <1>3, <2>1, <2>2, <2>3
<1> QED
  BY <1>1, <1>2, <1>3, <1>4, <1>5, SeqEqual

-----------------------------------------------------------------------------
(* What a send does.                                                       *)

\* To whom an event gets: the members of the group whose queue has room.
Reached(g) == Listeners(g) \ Full(g)

LEMMA SendTypes ==
    ASSUME ConnectionTypes, HistoryTypes, NEW g \in Groups, NEW e \in Event,
           group_send(g, e)
    PROVE  ConnectionTypes' /\ HistoryTypes'
<1>1. queue' \in [Clients -> Seq(Event)]
  BY AppendProperties DEF group_send, ConnectionTypes
<1>2. [to |-> g, event |-> e] \in Entry
  BY DEF Entry
<1>3. log' \in Seq(Entry) /\ Len(log') = Len(log) + 1 /\ Len(log) \in Nat
  BY <1>2, AppendProperties, LenProperties DEF group_send, HistoryTypes
<1> QED
  BY <1>1, <1>3 DEF group_send, ConnectionTypes, HistoryTypes

LEMMA SendHeard ==
    ASSUME ConnectionTypes, NEW g \in Groups, NEW e \in Event, group_send(g, e),
           NEW c \in Clients
    PROVE  Heard(c)' = IF c \in Reached(g) THEN Append(Heard(c), e) ELSE Heard(c)
<1>1. seen' = seen /\ queue'[c] = IF c \in Reached(g) THEN Append(queue[c], e) ELSE queue[c]
  BY DEF group_send, Reached
<1>2. seen[c] \in Seq(Event) /\ queue[c] \in Seq(Event)
  BY DEF ConnectionTypes
<1>3. \A s, q \in Seq(Event) : s \o Append(q, e) = Append(s \o q, e)
  BY AppendedLast
<1>4. seen[c] \o Append(queue[c], e) = Append(seen[c] \o queue[c], e)
  BY <1>2, <1>3
<1>5. Heard(c)' = seen'[c] \o queue'[c] /\ Heard(c) = seen[c] \o queue[c]
  BY DEF Heard
<1> QED
  BY <1>1, <1>5, <1>4

-----------------------------------------------------------------------------
(* The types are kept.                                                     *)

ClientStep(c) ==
    \/ Arrives(c) \/ Refused(c) \/ Joins(c) \/ Accepted(c)
    \/ Delivers(c)
    \/ Leaves(c) \/ Disconnects(c) \/ Abandoned(c)

LEMMA GroupsOfProjects == Projects \subseteq Groups /\ All \in Groups
BY DEF Groups

LEMMA AnnouncedType ==
    ASSUME PublisherTypes, worker.at # "idle"
    PROVE  Announced \in Event /\ worker.project \in Projects /\ worker \in Busy
BY DEF PublisherTypes, Announced, Event, Busy, Idle

\* The events that go out, and to which groups.
SendStep(g, e) ==
    /\ group_send(g, e)
    /\ \/ /\ worker.at = "project" /\ g = worker.project /\ e = Announced
          /\ worker' \in {Idle, [worker EXCEPT !.at = "all"]}
          /\ UNCHANGED <<stored, verified>>
       \/ /\ worker.at = "all" /\ g = All /\ e = Announced
          /\ worker' = Idle /\ UNCHANGED <<stored, verified>>
       \/ /\ worker.at = "idle" /\ g \in Projects
          /\ e = [kind |-> "device.offline", project |-> g, record |-> 0]
          /\ UNCHANGED publishers
       \/ /\ g \in Projects /\ verified[g] # 0
          /\ e = [kind |-> Done, project |-> g, record |-> verified[g]]
          /\ verified' = [verified EXCEPT ![g] = 0] /\ UNCHANGED <<stored, worker>>

\* A publisher stores a record, or is done without having sent.
QuietStep ==
    /\ UNCHANGED <<conn, route, layer, seen, history>>
    /\ \/ \E p \in Projects : WorkerStores(p) \/ ManeuverStores(p)
       \/ worker.at # "idle" /\ worker' = Idle /\ UNCHANGED <<stored, verified>>
       \/ \E p \in Projects : /\ verified' = [verified EXCEPT ![p] = 0]
                              /\ UNCHANGED <<stored, worker>>

\* These, the steps of the connections, and what the layer forgets, are all.
LEMMA StepKinds ==
    ASSUME PublisherTypes, [Next]_vars
    PROVE  \/ \E c \in Clients : ClientStep(c)
           \/ Forgets
           \/ \E g \in Groups, e \in Event : SendStep(g, e)
           \/ QuietStep
           \/ UNCHANGED vars
<1>1. ASSUME NEW p \in Projects, WorkerStores(p) \/ ManeuverStores(p) PROVE QuietStep
  BY <1>1 DEF WorkerStores, ManeuverStores, QuietStep
<1>2. ASSUME NEW p \in Projects, mark_offline(p)
      PROVE  \E g \in Groups, e \in Event : SendStep(g, e)
  <2> DEFINE e == [kind |-> "device.offline", project |-> p, record |-> 0]
  <2>1. e \in Event /\ p \in Groups
    BY GroupsOfProjects DEF Event
  <2>2. SendStep(p, e)
    BY <1>2 DEF mark_offline, SendStep
  <2> QED
    BY <2>1, <2>2
<1>3. ASSUME NEW p \in Projects, ManeuverAnnounces(p)
      PROVE  QuietStep \/ \E g \in Groups, e \in Event : SendStep(g, e)
  <2> DEFINE e == [kind |-> Done, project |-> p, record |-> verified[p]]
  <2>1. e \in Event /\ p \in Groups
    BY GroupsOfProjects DEF Event, PublisherTypes
  <2>2. CASE group_send(p, e)
    <3>1. SendStep(p, e)
      BY <1>3, <2>2 DEF ManeuverAnnounces, SendStep
    <3> QED
      BY <2>1, <3>1
  <2>3. CASE NothingSent
    BY <1>3, <2>3 DEF ManeuverAnnounces, NothingSent, QuietStep
  <2> QED
    BY <1>3, <2>2, <2>3 DEF ManeuverAnnounces
<1>4. CASE AnnounceToProject
  <2>1. Announced \in Event /\ worker.project \in Groups
    BY <1>4, AnnouncedType, GroupsOfProjects DEF AnnounceToProject
  <2>2. CASE group_send(worker.project, Announced)
             /\ worker' \in {Idle, [worker EXCEPT !.at = "all"]}
    <3>1. SendStep(worker.project, Announced)
      BY <1>4, <2>2 DEF AnnounceToProject, SendStep
    <3> QED
      BY <2>1, <3>1
  <2>3. CASE NothingSent /\ worker' = Idle
    BY <1>4, <2>3 DEF AnnounceToProject, NothingSent, QuietStep
  <2> QED
    BY <1>4, <2>2, <2>3 DEF AnnounceToProject
<1>5. CASE AnnounceToAll
  <2>1. Announced \in Event /\ All \in Groups
    BY <1>5, AnnouncedType, GroupsOfProjects DEF AnnounceToAll
  <2>2. CASE group_send(All, Announced)
    <3>1. SendStep(All, Announced)
      BY <1>5, <2>2 DEF AnnounceToAll, SendStep
    <3> QED
      BY <2>1, <3>1
  <2>3. CASE NothingSent
    BY <1>5, <2>3 DEF AnnounceToAll, NothingSent, QuietStep
  <2> QED
    BY <1>5, <2>2, <2>3 DEF AnnounceToAll
<1> QED
  BY <1>1, <1>2, <1>3, <1>4, <1>5 DEF Next, ClientStep

LEMMA TypesKept == FeedTypes /\ [Next]_vars => FeedTypes'
<1> SUFFICES ASSUME FeedTypes, [Next]_vars PROVE FeedTypes'
  OBVIOUS
<1>t. ConnectionTypes /\ PublisherTypes /\ HistoryTypes
  BY DEF FeedTypes
<1>1. ASSUME NEW c \in Clients, ClientStep(c) PROVE FeedTypes'
  <2>1. ConnectionTypes'
    <3>1. CASE Delivers(c)
      <4>1. queue[c] \in Seq(Event) /\ seen[c] \in Seq(Event) /\ queue[c] # <<>>
        BY <1>t, <3>1 DEF ConnectionTypes, Delivers
      <4>2. Append(seen[c], Head(queue[c])) \in Seq(Event) /\ Tail(queue[c]) \in Seq(Event)
        BY <4>1, DeliveredInPlace
      <4> QED
        BY <1>t, <3>1, <4>2 DEF ConnectionTypes, Delivers
    <3>2. CASE ~Delivers(c)
      BY <1>t, <1>1, <3>2 DEF ClientStep, Arrives, Refused, Joins, Accepted, Leaves,
         Disconnects, Abandoned, ConnectionTypes, layer
    <3> QED
      BY <3>1, <3>2
  <2>2. PublisherTypes'
    BY <1>t, <1>1 DEF ClientStep, Arrives, Refused, Joins, Accepted, Delivers, Leaves,
       Disconnects, Abandoned, PublisherTypes, publishers
  <2>3. HistoryTypes'
    <3>1. Len(log) \in Nat
      BY <1>t, LenProperties DEF HistoryTypes
    <3>2. log' = log /\ since' \in {since, [since EXCEPT ![c] = Len(log)]}
      BY <1>1 DEF ClientStep, Arrives, Refused, Joins, Accepted, Delivers, Leaves,
         Disconnects, Abandoned, history
    <3> QED
      BY <1>t, <3>1, <3>2 DEF HistoryTypes
  <2> QED
    BY <2>1, <2>2, <2>3 DEF FeedTypes
<1>2. CASE Forgets
  <2>1. queue' \in [Clients -> Seq(Event)]
    BY <1>t, <1>2, EmptySeq DEF Forgets, ConnectionTypes
  <2> QED
    BY <1>t, <1>2, <2>1 DEF Forgets, FeedTypes, ConnectionTypes, PublisherTypes,
       HistoryTypes, publishers
<1>3. ASSUME NEW g \in Groups, NEW e \in Event, SendStep(g, e) PROVE FeedTypes'
  <2>1. ConnectionTypes' /\ HistoryTypes'
    BY <1>t, <1>3, SendTypes DEF SendStep
  <2>2. [worker EXCEPT !.at = "all"] \in Busy \/ worker.at # "project"
    BY <1>t, AnnouncedType DEF Busy
  <2>3. PublisherTypes'
    BY <1>t, <1>3, <2>2 DEF SendStep, PublisherTypes, publishers
  <2> QED
    BY <2>1, <2>3 DEF FeedTypes
<1>4. CASE QuietStep
  <2>1. ConnectionTypes' /\ HistoryTypes'
    BY <1>t, <1>4 DEF QuietStep, ConnectionTypes, HistoryTypes, layer, history
  <2>2. PublisherTypes'
    BY <1>t, <1>4 DEF QuietStep, WorkerStores, ManeuverStores, PublisherTypes, Busy
  <2> QED
    BY <2>1, <2>2 DEF FeedTypes
<1>5. CASE UNCHANGED vars
  BY <1>t, <1>5 DEF vars, layer, publishers, history, FeedTypes, ConnectionTypes,
     PublisherTypes, HistoryTypes
<1> QED
  BY <1>t, <1>1, <1>2, <1>3, <1>4, <1>5, StepKinds

LEMMA TypesInvariant == Spec => []FeedTypes
<1>1. Init => FeedTypes
  <2> SUFFICES ASSUME Init PROVE FeedTypes
    OBVIOUS
  <2>1. <<>> \in Seq(Event) /\ <<>> \in Seq(Entry) /\ Len(<<>>) = 0
    BY EmptySeq
  <2> QED
    BY <2>1 DEF Init, FeedTypes, ConnectionTypes, PublisherTypes, HistoryTypes
<1> QED
  BY <1>1, TypesKept, PTL DEF Spec

-----------------------------------------------------------------------------
(* The groups.                                                             *)

LEMMA MembershipKept ==
    FeedTypes /\ Membership /\ Subscribed /\ [Next]_vars => Membership' /\ Subscribed'
<1> SUFFICES ASSUME FeedTypes, Membership, Subscribed, [Next]_vars
             PROVE  Membership' /\ Subscribed'
  OBVIOUS
<1>t. /\ conn \in [Clients -> {"new", "joining", "joined", "open", "leaving", "gone"}]
      /\ route \in [Clients -> Groups] /\ PublisherTypes
  BY DEF FeedTypes, ConnectionTypes
<1> USE <1>t DEF Membership, Subscribed
<1>1. ASSUME NEW c \in Clients, Arrives(c) PROVE Membership' /\ Subscribed'
  BY <1>1 DEF Arrives, layer, history
<1>2. ASSUME NEW c \in Clients, Refused(c) PROVE Membership' /\ Subscribed'
  BY <1>2 DEF Refused, layer, history
<1>3. ASSUME NEW c \in Clients, Joins(c) PROVE Membership' /\ Subscribed'
  BY <1>3 DEF Joins, history
<1>4. ASSUME NEW c \in Clients, Accepted(c) \/ Leaves(c) PROVE Membership' /\ Subscribed'
  BY <1>4 DEF Accepted, Leaves, layer, history
<1>5. ASSUME NEW c \in Clients, Delivers(c) PROVE Membership' /\ Subscribed'
  BY <1>5 DEF Delivers, history
<1>6. ASSUME NEW c \in Clients, Disconnects(c) PROVE Membership' /\ Subscribed'
  BY <1>6 DEF Disconnects, history
<1>7. ASSUME NEW c \in Clients, Abandoned(c) PROVE Membership' /\ Subscribed'
  BY <1>7 DEF Abandoned, layer
<1>8. CASE Forgets
  BY <1>8 DEF Forgets
<1>9. ASSUME NEW g \in Groups, NEW e \in Event, SendStep(g, e)
      PROVE  Membership' /\ Subscribed'
  BY <1>9 DEF SendStep, group_send
<1>10. CASE QuietStep \/ UNCHANGED vars
  BY <1>10 DEF QuietStep, vars, layer, history
<1> QED
  BY <1>1, <1>2, <1>3, <1>4, <1>5, <1>6, <1>7, <1>8, <1>9, <1>10, StepKinds DEF ClientStep

LEMMA MembershipInvariant == Spec => [](Membership /\ Subscribed)
<1>1. Init => Membership /\ Subscribed
  BY DEF Init, Membership, Subscribed
<1> QED
  BY <1>1, TypesInvariant, MembershipKept, PTL DEF Spec

\* For any connections and groups: one that is over is in no group, unless its end
\* was not seen to (consumers.py:16-37).
THEOREM NoTraceLeft == Spec => []LeavesNoTrace
<1>1. Membership => LeavesNoTrace
  BY DEF Membership, LeavesNoTrace
<1> QED
  BY <1>1, MembershipInvariant, PTL

-----------------------------------------------------------------------------
(* What is missed.                                                         *)

\* NothingMissed of one connection.
Follows(c) ==
    \A i \in Due(c) :
        /\ Cardinality(DueAfter(c, i)) < Len(Heard(c))
        /\ Heard(c)[Len(Heard(c)) - Cardinality(DueAfter(c, i))] = log[i].event

LEMMA FollowsAll == NothingMissed <=> \A c \in Served : Follows(c)
BY DEF NothingMissed, Follows

LEMMA HeardType ==
    ASSUME ConnectionTypes, NEW c \in Clients
    PROVE  Heard(c) \in Seq(Event) /\ Len(Heard(c)) \in Nat
<1>1. seen[c] \in Seq(Event) /\ queue[c] \in Seq(Event)
  BY DEF ConnectionTypes
<1>2. \A s, q \in Seq(Event) : s \o q \in Seq(Event) /\ Len(s \o q) \in Nat
  BY ConcatProperties, LenProperties
<1> QED
  BY <1>1, <1>2 DEF Heard

\* Only so many events can be due.
LEMMA DueFinite ==
    ASSUME HistoryTypes, NEW c \in Clients, NEW i
    PROVE  /\ IsFiniteSet(DueAfter(c, i))
           /\ Cardinality(DueAfter(c, i)) \in Nat
           /\ Due(c) \subseteq 1..Len(log)
<1>1. Len(log) \in Nat /\ since[c] \in Nat
  BY LenProperties DEF HistoryTypes
<1>2. DueAfter(c, i) \subseteq 1..Len(log) /\ Due(c) \subseteq 1..Len(log)
  BY <1>1 DEF DueAfter, Due
<1>3. IsFiniteSet(1..Len(log))
  BY <1>1, FS_Interval
<1> QED
  BY <1>2, <1>3, FS_Subset, FS_CardinalityType

\* An event for another group is due to nobody here.
LEMMA DueElsewhere ==
    ASSUME HistoryTypes, NEW c \in Clients, NEW g \in Groups, NEW e \in Event,
           group_send(g, e), g # route[c]
    PROVE  /\ Due(c)' = Due(c)
           /\ \A i \in Due(c) : DueAfter(c, i)' = DueAfter(c, i) /\ log'[i] = log[i]
<1> DEFINE entry == [to |-> g, event |-> e]
<1>1. log' = Append(log, entry) /\ since' = since /\ route' = route /\ entry \in Entry
  BY DEF group_send, Entry
<1>2. /\ Len(log) \in Nat /\ since[c] \in Nat /\ Len(log') = Len(log) + 1
      /\ \A i \in 1..Len(log) : log'[i] = log[i]
      /\ log'[Len(log) + 1] = entry
  BY <1>1, LenProperties, AppendProperties DEF HistoryTypes
<1>3. Due(c)' = {i \in since[c] + 1..Len(log) + 1 : log'[i].to = route[c]}
  BY <1>1, <1>2 DEF Due
<1>4. Due(c)' = Due(c)
  BY <1>2, <1>3 DEF Due
<1> QED
  BY <1>2, <1>4, DueFinite DEF DueAfter

\* An event for its group is one more that is due, after all others.
LEMMA DueHere ==
    ASSUME HistoryTypes, NEW c \in Clients, NEW g \in Groups, NEW e \in Event,
           group_send(g, e), g = route[c]
    PROVE  /\ \A i \in Due(c)' : i \notin Due(c) => log'[i].event = e /\ DueAfter(c, i)' = {}
           /\ \A i \in Due(c) : /\ DueAfter(c, i)' = DueAfter(c, i) \cup {Len(log) + 1}
                                /\ Len(log) + 1 \notin DueAfter(c, i)
                                /\ log'[i] = log[i]
<1> DEFINE entry == [to |-> g, event |-> e]
           last  == Len(log) + 1
<1>1. log' = Append(log, entry) /\ since' = since /\ route' = route /\ entry \in Entry
  BY DEF group_send, Entry
<1>2. /\ Len(log) \in Nat /\ since[c] \in Nat /\ Len(log') = last /\ since[c] <= Len(log)
      /\ \A i \in 1..Len(log) : log'[i] = log[i]
      /\ log'[last] = entry
  BY <1>1, LenProperties, AppendProperties DEF HistoryTypes
<1>3. Due(c)' = {i \in since[c] + 1..last : log'[i].to = route[c]}
  BY <1>1, <1>2 DEF Due
<1>4. Due(c)' = Due(c) \cup {last}
  BY <1>2, <1>3 DEF Due
<1>5. \A i \in Due(c) : i \in 1..Len(log)
  BY DueFinite
<1>6. \A i \in Due(c) : log'[i] = log[i] /\ last > i /\ last \notin DueAfter(c, i)
  BY <1>2, <1>5 DEF DueAfter
<1>7. \A i \in Due(c)' : i \notin Due(c) => log'[i].event = e /\ DueAfter(c, i)' = {}
  <2> SUFFICES ASSUME NEW i \in Due(c)', i \notin Due(c)
               PROVE  log'[i].event = e /\ DueAfter(c, i)' = {}
    OBVIOUS
  <2>1. i = last
    BY <1>4
  <2>2. DueAfter(c, i)' = {j \in Due(c)' : j > i}
    BY DEF DueAfter
  <2> QED
    BY <1>2, <1>4, <1>5, <2>1, <2>2
<1>8. ASSUME NEW i \in Due(c) PROVE DueAfter(c, i)' = DueAfter(c, i) \cup {last}
  <2>1. DueAfter(c, i)' = {j \in Due(c)' : j > i}
    BY DEF DueAfter
  <2> QED
    BY <1>4, <1>6, <2>1 DEF DueAfter
<1> QED
  BY <1>6, <1>7, <1>8

\* Of a connection that is served and reached, what is due and what is heard grow
\* alike.
LEMMA FollowsSend ==
    ASSUME FeedTypes, NEW c \in Clients, Follows(c), NEW g \in Groups, NEW e \in Event,
           group_send(g, e), c \in Reached(g) <=> g = route[c]
    PROVE  Follows(c)'
<1>t. ConnectionTypes /\ HistoryTypes
  BY DEF FeedTypes
<1>1. CASE g # route[c]
  <2>1. Heard(c)' = Heard(c)
    BY <1>t, <1>1, SendHeard
  <2> QED
    BY <1>t, <1>1, <2>1, DueElsewhere DEF Follows
<1>2. CASE g = route[c]
  <2> DEFINE h == Heard(c)
  <2>1. /\ h \in Seq(Event) /\ Len(h) \in Nat /\ Heard(c)' = Append(h, e)
        /\ Len(Append(h, e)) = Len(h) + 1
        /\ \A k \in 1..Len(h) : Append(h, e)[k] = h[k]
        /\ Append(h, e)[Len(h) + 1] = e
    BY <1>t, <1>2, HeardType, SendHeard, AppendProperties
  <2> SUFFICES ASSUME NEW i \in Due(c)'
               PROVE  /\ Cardinality(DueAfter(c, i)') < Len(Heard(c)')
                      /\ Heard(c)'[Len(Heard(c)') - Cardinality(DueAfter(c, i)')]
                           = log'[i].event
    BY DEF Follows
  <2>2. Heard(c)' = Append(h, e)
    BY <2>1
  <2>3. CASE i \notin Due(c)
    <3>1. log'[i].event = e /\ Cardinality(DueAfter(c, i)') = 0
      BY <1>t, <1>2, <2>3, DueHere, FS_EmptySet
    <3> QED
      BY <2>1, <2>2, <3>1
  <2>4. CASE i \in Due(c)
    <3> DEFINE later == Cardinality(DueAfter(c, i))
    <3>1. /\ DueAfter(c, i)' = DueAfter(c, i) \cup {Len(log) + 1}
          /\ Len(log) + 1 \notin DueAfter(c, i) /\ log'[i] = log[i]
      BY <1>t, <1>2, <2>4, DueHere
    <3>2. Cardinality(DueAfter(c, i)') = later + 1 /\ later \in Nat
      BY <1>t, <3>1, DueFinite, FS_AddElement
    <3>3. later < Len(h) /\ h[Len(h) - later] = log[i].event
      BY <2>4 DEF Follows
    <3> HIDE DEF later
    <3>4. Len(h) - later \in 1..Len(h) /\ Len(h) + 1 - (later + 1) = Len(h) - later
      BY <2>1, <3>2, <3>3
    <3> QED
      BY <2>1, <2>2, <3>1, <3>2, <3>3, <3>4
  <2> QED
    BY <2>3, <2>4
<1> QED
  BY <1>1, <1>2

LEMMA MissedKept ==
    FeedTypes /\ Membership /\ Subscribed /\ NothingMissed /\ [Next]_vars => NothingMissed'
<1> SUFFICES ASSUME FeedTypes, Membership, Subscribed, NothingMissed, [Next]_vars,
                    NEW c \in Clients, conn'[c] = "open", c \notin lossy'
             PROVE  Follows(c)'
  BY DEF NothingMissed, Follows, Served
<1>t. ConnectionTypes /\ PublisherTypes /\ HistoryTypes
  BY DEF FeedTypes
<1>f. ASSUME conn[c] = "open", c \notin lossy PROVE Follows(c)
  BY <1>f, FollowsAll DEF Served
\* Steps that leave the log alone and what c has heard.
<1>s. ASSUME conn[c] = "open", c \notin lossy, Heard(c)' = Heard(c),
             UNCHANGED <<log, route>>, since'[c] = since[c]
      PROVE  Follows(c)'
  BY <1>f, <1>s DEF Follows, Due, DueAfter
<1>1. ASSUME NEW d \in Clients, ClientStep(d) PROVE Follows(c)'
  <2>1. CASE Accepted(d) /\ d = c
    <3>1. since'[c] = Len(log) /\ log' = log /\ Len(log) \in Nat
      BY <1>t, <2>1, LenProperties DEF Accepted, HistoryTypes
    <3>2. Due(c)' = {}
      BY <3>1 DEF Due
    <3> QED
      BY <3>2 DEF Follows
  <2>2. CASE Delivers(d)
    <3>1. seen[d] \in Seq(Event) /\ queue[d] \in Seq(Event) /\ queue[d] # <<>>
      BY <1>t, <2>2 DEF ConnectionTypes, Delivers
    <3>2. Append(seen[d], Head(queue[d])) \o Tail(queue[d]) = seen[d] \o queue[d]
      BY <3>1, DeliveredInPlace
    <3>3. Heard(c)' = Heard(c)
      BY <1>t, <2>2, <3>2 DEF Heard, Delivers, ConnectionTypes
    <3>4. UNCHANGED <<conn, lossy, log, route, since>>
      BY <2>2 DEF Delivers, history
    <3> QED
      BY <1>s, <3>3, <3>4
  <2>3. CASE ~Delivers(d) /\ ~(Accepted(d) /\ d = c)
    <3>1. /\ conn[c] = "open" /\ since'[c] = since[c]
          /\ UNCHANGED <<seen, queue, lossy, log, route>>
      BY <1>t, <1>1, <2>3 DEF ClientStep, Arrives, Refused, Joins, Accepted, Leaves,
         Disconnects, Abandoned, ConnectionTypes, HistoryTypes, layer, history
    <3> QED
      BY <1>s, <3>1 DEF Heard
  <2> QED
    BY <2>1, <2>2, <2>3
<1>2. CASE Forgets
  <2>1. c \notin lossy /\ queue'[c] = queue[c] /\ UNCHANGED <<conn, route, seen, log, since>>
    BY <1>2 DEF Forgets
  <2> QED
    BY <1>s, <2>1 DEF Heard
<1>3. ASSUME NEW g \in Groups, NEW e \in Event, SendStep(g, e) PROVE Follows(c)'
  <2>1. group_send(g, e)
    BY <1>3 DEF SendStep
  <2>2. conn[c] = "open" /\ c \notin lossy /\ c \notin Full(g) /\ <<c, route[c]>> \in members
    BY <2>1 DEF group_send, Subscribed
  <2>3. c \in Reached(g) <=> g = route[c]
    BY <2>2 DEF Reached, Listeners, Membership
  <2> QED
    BY <1>f, <2>1, <2>2, <2>3, FollowsSend
<1>4. CASE QuietStep \/ UNCHANGED vars
  <2>1. UNCHANGED <<conn, route, seen, queue, lossy, log, since>>
    BY <1>4 DEF QuietStep, vars, layer, history
  <2> QED
    BY <1>s, <2>1 DEF Heard
<1> QED
  BY <1>t, <1>1, <1>2, <1>3, <1>4, StepKinds

\* For any connections, any groups and any capacity of a channel: from the moment it
\* is accepted a connection is sent every event of its group in the order of the
\* sends, unless the layer lost one of its events or its membership
\* (consumers.py:16-33).
THEOREM NoneMissed == Spec => []NothingMissed
<1>1. Init => NothingMissed
  BY DEF Init, NothingMissed, Served
<1> QED
  BY <1>1, TypesInvariant, MembershipInvariant, MissedKept, PTL DEF Spec

-----------------------------------------------------------------------------
(* The order of what is told.                                              *)

\* An event more at the end comes after all others.
LEMMA LastHeard ==
    ASSUME NEW h \in Seq(Event), NEW e \in Event
    PROVE  /\ Len(Append(h, e)) = Len(h) + 1 /\ Len(h) \in Nat
           /\ Append(h, e)[Len(h) + 1] = e
           /\ \A i \in 1..Len(h) : Append(h, e)[i] = h[i] /\ h[i] \in Event
           /\ \A i \in 1..Len(Append(h, e)) : i \in 1..Len(h) \/ i = Len(h) + 1
           /\ \A kind : Older(Append(h, e), Len(h) + 1, kind) = {}
<1> DEFINE k == Append(h, e)
<1>1. /\ Len(k) = Len(h) + 1 /\ Len(h) \in Nat /\ k[Len(h) + 1] = e
      /\ \A i \in 1..Len(h) : k[i] = h[i] /\ h[i] \in Event
  BY AppendProperties, LenProperties, ElementOfSeq
<1> HIDE DEF k
<1>2. \A kind : Older(k, Len(h) + 1, kind) = {}
  BY <1>1 DEF Older
<1>3. \A i \in 1..Len(k) : i \in 1..Len(h) \/ i = Len(h) + 1
  BY <1>1
<1> QED
  BY <1>1, <1>2, <1>3 DEF k

\* It may be one that is older than what comes before it.
LEMMA OlderAppend ==
    ASSUME NEW h \in Seq(Event), NEW e \in Event, NEW kind, NEW i \in 1..Len(h)
    PROVE  /\ Older(Append(h, e), i, kind) \subseteq Older(h, i, kind) \cup {Len(h) + 1}
           /\ e.kind # kind \/ e.project # h[i].project \/ ~(e.record <= h[i].record)
                => Older(Append(h, e), i, kind) = Older(h, i, kind)
<1> DEFINE k == Append(h, e)
<1>1. /\ Len(k) = Len(h) + 1 /\ Len(h) \in Nat /\ k[Len(h) + 1] = e
      /\ \A j \in 1..Len(h) : k[j] = h[j]
  BY LastHeard
<1> HIDE DEF k
<1>2. i + 1..Len(k) = (i + 1..Len(h)) \cup {Len(h) + 1}
  BY <1>1
<1>3. \A j \in i + 1..Len(h) : k[j] = h[j]
  BY <1>1
<1>4. /\ Older(k, i, kind) \subseteq Older(h, i, kind) \cup {Len(h) + 1}
      /\ e.kind # kind \/ e.project # h[i].project \/ ~(e.record <= h[i].record)
           => Older(k, i, kind) = Older(h, i, kind)
  BY <1>1, <1>2, <1>3 DEF Older
<1> QED
  BY <1>4 DEF k

\* What the publishers do while a client hears nothing: a record gets a number that
\* is greater than any before, and an announcement is over or moves on.
LEMMA TidyLater ==
    ASSUME NEW h \in Seq(Event), NEW g, NEW n \in Nat, NEW m \in Nat, n <= m,
           NEW w \in {Idle} \cup Busy, NEW x \in {Idle} \cup Busy,
           NEW v \in [Projects -> Nat], NEW y \in [Projects -> Nat],
           Tidy(h, g, n, w, v),
           \/ x \in {Idle, w}
           \/ w.at = "project" /\ x = [w EXCEPT !.at = "all"]
           \/ x.at = "project" /\ x.record > n,
           \A p \in Projects : y[p] \in {0, v[p]} \/ y[p] > n
    PROVE  Tidy(h, g, m, x, y)
<1>e. \A i \in 1..Len(h) : h[i] \in Event
  BY ElementOfSeq
<1>1. \A i \in 1..Len(h) : /\ h[i].project \in Projects
                           /\ h[i].record \in Nat /\ h[i].record <= n
  BY <1>e DEF Tidy, Event
<1>2. ASSUME NEW i \in 1..Len(h), h[i].kind = Update
      PROVE  /\ x.at = "project" => h[i].record < x.record
             /\ x.at = "all" /\ g = All => h[i].record < x.record
  BY <1>1, <1>2 DEF Tidy, Idle, Busy
<1>3. ASSUME NEW i \in 1..Len(h), h[i].kind = Done
      PROVE  /\ y[h[i].project] # 0 => h[i].record < y[h[i].project]
             /\ x.at = "project" /\ x.project = h[i].project /\ x.record <= h[i].record
                  => Older(h, i, Update) = {}
  <2>1. /\ v[h[i].project] # 0 => h[i].record < v[h[i].project]
        /\ w.at = "project" /\ w.project = h[i].project /\ w.record <= h[i].record
             => Older(h, i, Update) = {}
    BY <1>3 DEF Tidy
  <2>2. y[h[i].project] \in {0, v[h[i].project]} \/ y[h[i].project] > n
    BY <1>1
  <2>3. y[h[i].project] # 0 => h[i].record < y[h[i].project]
    BY <1>1, <2>1, <2>2
  <2>4. x.at = "project" => x = w \/ x.record > n
    BY DEF Idle, Busy
  <2>5. x.at = "project" => x.record \in Nat
    BY DEF Idle, Busy
  <2>6. x.at = "project" /\ x.record <= h[i].record => x = w
    BY <1>1, <2>4, <2>5
  <2> QED
    BY <2>1, <2>3, <2>6
<1> QED
  BY <1>1, <1>2, <1>3 DEF Tidy

\* The worker's announcement is newer than all updates before it, and of those that
\* come after an outcome it is the first to be older.
LEMMA TidyUpdate ==
    ASSUME NEW h \in Seq(Event), NEW g, NEW n \in Nat,
           NEW w \in Busy, NEW x \in {Idle} \cup Busy, NEW v, NEW e \in Event,
           Tidy(h, g, n, w, v),
           e.kind = Update, e.project = w.project, e.record = w.record, w.record <= n,
           \/ w.at = "project" /\ g # All /\ x \in {Idle, [w EXCEPT !.at = "all"]}
           \/ w.at = "all" /\ g = All /\ x = Idle
    PROVE  Tidy(Append(h, e), g, n, x, v)
<1> DEFINE k == Append(h, e)
<1>1. /\ Len(k) = Len(h) + 1 /\ Len(h) \in Nat /\ k[Len(h) + 1] = e
      /\ \A i \in 1..Len(h) : k[i] = h[i] /\ h[i] \in Event
      /\ \A i \in 1..Len(k) : i \in 1..Len(h) \/ i = Len(h) + 1
  BY LastHeard
<1>2. ASSUME NEW i \in 1..Len(h)
      PROVE  /\ Older(k, i, Done) = Older(h, i, Done)
             /\ Older(k, i, Update) \subseteq Older(h, i, Update) \cup {Len(h) + 1}
             /\ w.project # h[i].project \/ w.record > h[i].record
                  => Older(k, i, Update) = Older(h, i, Update)
  <2>1. w.record \in Nat /\ h[i].record \in Nat
    BY <1>1 DEF Event, Busy
  <2>2. \A kind :
          /\ Older(k, i, kind) \subseteq Older(h, i, kind) \cup {Len(h) + 1}
          /\ e.kind # kind \/ e.project # h[i].project \/ ~(e.record <= h[i].record)
               => Older(k, i, kind) = Older(h, i, kind)
    BY OlderAppend
  <2>3. e.kind # Done
    BY DEF Update, Done
  <2> HIDE DEF k
  <2> QED
    BY <2>1, <2>2, <2>3
<1>3. x.at # "project" /\ (x.at = "all" => g # All)
  BY DEF Idle, Busy
<1> HIDE DEF k
<1>4. \A i \in 1..Len(k) : k[i].record <= n
  BY <1>1 DEF Tidy
<1>5. ASSUME NEW i \in 1..Len(k), k[i].kind = Done
      PROVE  /\ g # All
             /\ v[k[i].project] # 0 => k[i].record < v[k[i].project]
             /\ Older(k, i, Done) = {}
             /\ \A j, l \in Older(k, i, Update) : j = l
  <2>1. i \in 1..Len(h) /\ k[i] = h[i]
    BY <1>1, <1>5 DEF Update, Done
  <2>2. w.at = "project" /\ w.project = h[i].project /\ w.record <= h[i].record
          => Older(h, i, Update) = {}
    BY <1>5, <2>1 DEF Tidy
  <2>3. w.record > h[i].record \/ w.record <= h[i].record
    BY <1>1, <2>1 DEF Event, Busy
  <2>4. g # All /\ Older(h, i, Done) = {} /\ \A j, l \in Older(h, i, Update) : j = l
    BY <1>5, <2>1 DEF Tidy
  <2>5. v[k[i].project] # 0 => k[i].record < v[k[i].project]
    BY <1>5, <2>1 DEF Tidy
  <2>6. \A j, l \in Older(k, i, Update) : j = l
    BY <1>2, <2>1, <2>2, <2>3, <2>4
  <2> QED
    BY <1>2, <2>1, <2>4, <2>5, <2>6
<1>6. ASSUME NEW i \in 1..Len(k), NEW j \in 1..Len(k), i < j,
             k[i].kind = Update, k[j].kind = Update
      PROVE  k[i].record < k[j].record
  <2>1. i \in 1..Len(h) /\ k[i] = h[i]
    BY <1>1, <1>6
  <2>2. CASE j \in 1..Len(h)
    BY <1>1, <1>6, <2>1, <2>2 DEF Tidy
  <2>3. CASE j = Len(h) + 1
    BY <1>1, <1>6, <2>1, <2>3 DEF Tidy
  <2> QED
    BY <1>1, <2>2, <2>3
<1>7. Tidy(k, g, n, x, v)
  BY <1>3, <1>4, <1>5, <1>6 DEF Tidy
<1> QED
  BY <1>7 DEF k

\* The outcome of a maneuver is newer than those of the project before it.
LEMMA TidyDone ==
    ASSUME NEW h \in Seq(Event), NEW g \in Projects, NEW n \in Nat,
           NEW w \in {Idle} \cup Busy, NEW v \in [Projects -> Nat], NEW e \in Event,
           Tidy(h, g, n, w, v),
           e.kind = Done, e.project = g, e.record = v[g], v[g] # 0, v[g] <= n
    PROVE  Tidy(Append(h, e), g, n, w, [v EXCEPT ![g] = 0])
<1> DEFINE k == Append(h, e)
           y == [v EXCEPT ![g] = 0]
<1>1. /\ Len(k) = Len(h) + 1 /\ Len(h) \in Nat /\ k[Len(h) + 1] = e
      /\ \A i \in 1..Len(h) : k[i] = h[i] /\ h[i] \in Event
      /\ \A i \in 1..Len(k) : i \in 1..Len(h) \/ i = Len(h) + 1
      /\ \A kind : Older(k, Len(h) + 1, kind) = {}
  BY LastHeard
<1>2. ASSUME NEW i \in 1..Len(h)
      PROVE  /\ Older(k, i, Update) = Older(h, i, Update)
             /\ g # h[i].project \/ v[g] > h[i].record
                  => Older(k, i, Done) = Older(h, i, Done)
  <2>1. v[g] \in Nat /\ h[i].record \in Nat
    BY <1>1 DEF Event
  <2>2. \A kind :
          e.kind # kind \/ e.project # h[i].project \/ ~(e.record <= h[i].record)
            => Older(k, i, kind) = Older(h, i, kind)
    BY OlderAppend
  <2>3. e.kind # Update
    BY DEF Update, Done
  <2> HIDE DEF k
  <2> QED
    BY <2>1, <2>2, <2>3
<1>3. g # All /\ \A p \in Projects : y[p] \in {0, v[p]}
  BY GroupsAssumption
<1>4. y[g] = 0
  OBVIOUS
<1> HIDE DEF k, y
<1>5. \A i \in 1..Len(k) : k[i].record <= n
  BY <1>1 DEF Tidy
<1>6. ASSUME NEW i \in 1..Len(k), k[i].kind = Update
      PROVE  /\ w.at = "project" => k[i].record < w.record
             /\ w.at = "all" /\ g = All => k[i].record < w.record
  BY <1>1, <1>6 DEF Tidy, Update, Done
<1>7. ASSUME NEW i \in 1..Len(k), k[i].kind = Done
      PROVE  /\ y[k[i].project] # 0 => k[i].record < y[k[i].project]
             /\ w.at = "project" /\ w.project = k[i].project /\ w.record <= k[i].record
                  => Older(k, i, Update) = {}
             /\ Older(k, i, Done) = {}
             /\ \A j, l \in Older(k, i, Update) : j = l
  <2>1. CASE i = Len(h) + 1
    BY <1>1, <1>4, <2>1
  <2>2. CASE i \in 1..Len(h)
    <3>1. k[i] = h[i] /\ h[i].project \in Projects
      BY <1>1, <2>2 DEF Event
    <3>2. /\ v[h[i].project] # 0 => h[i].record < v[h[i].project]
          /\ w.at = "project" /\ w.project = h[i].project /\ w.record <= h[i].record
               => Older(h, i, Update) = {}
          /\ Older(h, i, Done) = {}
          /\ \A j, l \in Older(h, i, Update) : j = l
      BY <1>7, <2>2, <3>1 DEF Tidy
    <3>3. g # h[i].project \/ v[g] > h[i].record
      BY <1>1, <2>2, <3>2 DEF Event
    <3>4. y[k[i].project] # 0 => k[i].record < y[k[i].project]
      BY <1>3, <3>1, <3>2
    <3> QED
      BY <1>2, <2>2, <3>1, <3>2, <3>3, <3>4
  <2> QED
    BY <1>1, <2>1, <2>2
<1>8. ASSUME NEW i \in 1..Len(k), NEW j \in 1..Len(k), i < j,
             k[i].kind = Update, k[j].kind = Update
      PROVE  k[i].record < k[j].record
  BY <1>1, <1>8 DEF Tidy, Update, Done
<1>9. Tidy(k, g, n, w, y)
  BY <1>3, <1>5, <1>6, <1>7, <1>8 DEF Tidy
<1> QED
  BY <1>9 DEF k, y

\* device.offline counts neither as an update nor as an outcome.
LEMMA TidyOther ==
    ASSUME NEW h \in Seq(Event), NEW g, NEW n \in Nat, NEW w, NEW v, NEW e \in Event,
           Tidy(h, g, n, w, v), e.kind \notin {Update, Done}, e.record <= n
    PROVE  Tidy(Append(h, e), g, n, w, v)
<1> DEFINE k == Append(h, e)
<1>1. /\ Len(k) = Len(h) + 1 /\ Len(h) \in Nat /\ k[Len(h) + 1] = e
      /\ \A i \in 1..Len(h) : k[i] = h[i]
      /\ \A i \in 1..Len(k) : i \in 1..Len(h) \/ i = Len(h) + 1
  BY LastHeard
<1>2. \A i \in 1..Len(h), kind \in {Update, Done} : Older(k, i, kind) = Older(h, i, kind)
  <2> SUFFICES ASSUME NEW i \in 1..Len(h), NEW kind \in {Update, Done}
               PROVE  Older(k, i, kind) = Older(h, i, kind)
    OBVIOUS
  <2>1. e.kind # kind
    OBVIOUS
  <2> QED
    BY <2>1, OlderAppend
<1> HIDE DEF k
<1>3. \A i \in 1..Len(k) : k[i].kind \in {Update, Done} => i \in 1..Len(h) /\ k[i] = h[i]
  BY <1>1
<1>4. \A i \in 1..Len(k) : k[i].record <= n
  BY <1>1 DEF Tidy
<1>5. Tidy(k, g, n, w, v)
  BY <1>2, <1>3, <1>4 DEF Tidy
<1> QED
  BY <1>5 DEF k

\* What the layer loses of a queue it loses at the end.
LEMMA TidyPrefix ==
    ASSUME NEW k \in Seq(Event), NEW q \in Seq(Event), NEW g, NEW n, NEW w, NEW v,
           Tidy(k \o q, g, n, w, v)
    PROVE  Tidy(k, g, n, w, v)
<1> DEFINE h == k \o q
<1>1. /\ Len(k) \in Nat /\ Len(h) \in Nat /\ Len(k) <= Len(h)
      /\ \A i \in 1..Len(k) : i \in 1..Len(h) /\ k[i] = h[i]
  BY ConcatProperties, LenProperties
<1> HIDE DEF h
<1>2. \A i \in 1..Len(k) : \A kind : Older(k, i, kind) \subseteq Older(h, i, kind)
  BY <1>1 DEF Older
<1>3. Tidy(h, g, n, w, v)
  BY DEF h
<1> QED
  BY <1>1, <1>2, <1>3 DEF Tidy

-----------------------------------------------------------------------------
LEMMA AnnouncingKept == FeedTypes /\ Announcing /\ [Next]_vars => Announcing'
<1> SUFFICES ASSUME FeedTypes, Announcing, [Next]_vars PROVE Announcing'
  OBVIOUS
<1>t. PublisherTypes
  BY DEF FeedTypes
<1> USE <1>t DEF Announcing, PublisherTypes
<1>1. ASSUME UNCHANGED publishers PROVE Announcing'
  BY <1>1 DEF publishers
<1>2. CASE \E c \in Clients : ClientStep(c)
  <2>1. UNCHANGED publishers
    BY <1>2 DEF ClientStep, Arrives, Refused, Joins, Accepted, Delivers, Leaves,
       Disconnects, Abandoned
  <2> QED
    BY <1>1, <2>1
<1>3. CASE Forgets \/ UNCHANGED vars
  BY <1>1, <1>3 DEF Forgets, vars
<1>4. ASSUME NEW g \in Groups, NEW e \in Event, SendStep(g, e) PROVE Announcing'
  <2>1. /\ stored' = stored
        /\ worker' \in {worker, Idle} \/ worker' = [worker EXCEPT !.at = "all"]
        /\ verified' \in {verified, [verified EXCEPT ![g] = 0]}
    BY <1>4 DEF SendStep, publishers
  <2>2. \A p \in Projects : verified'[p] \in {0, verified[p]}
    BY <2>1
  <2>3. worker'.at # "idle" => worker.at # "idle" /\ worker'.record = worker.record
    BY <1>4, <2>1 DEF SendStep, Idle, Busy, publishers
  <2> QED
    BY <2>1, <2>2, <2>3
<1>5. CASE QuietStep
  <2>1. ASSUME NEW p \in Projects, WorkerStores(p) PROVE Announcing'
    BY <2>1 DEF WorkerStores
  <2>2. ASSUME NEW p \in Projects, ManeuverStores(p) PROVE Announcing'
    <3>1. /\ stored' = stored + 1 /\ worker' = worker
          /\ \A q \in Projects : verified'[q] \in {verified[q], stored'}
      BY <2>2 DEF ManeuverStores
    <3> QED
      BY <3>1 DEF Idle, Busy
  <2>3. CASE worker' = Idle /\ UNCHANGED <<stored, verified>>
    BY <2>3 DEF Idle
  <2>4. ASSUME NEW p \in Projects, verified' = [verified EXCEPT ![p] = 0],
               UNCHANGED <<stored, worker>>
        PROVE  Announcing'
    BY <2>4
  <2> QED
    BY <1>5, <2>1, <2>2, <2>3, <2>4 DEF QuietStep
<1> QED
  BY <1>2, <1>3, <1>4, <1>5, StepKinds

\* What the publishers do, to one who hears nothing of it.
LEMMA PublishersLater ==
    ASSUME FeedTypes, FeedTypes', NEW c \in Clients,
           Tidy(Heard(c), route[c], stored, worker, verified),
           QuietStep \/ \E g \in Groups, e \in Event : SendStep(g, e)
    PROVE  Tidy(Heard(c), route[c], stored', worker', verified')
<1>t. PublisherTypes /\ PublisherTypes' /\ ConnectionTypes
  BY DEF FeedTypes
<1>1. Heard(c) \in Seq(Event)
  BY <1>t, HeardType
<1>2. stored \in Nat /\ stored' \in Nat /\ stored <= stored'
  BY <1>t DEF QuietStep, WorkerStores, ManeuverStores, SendStep, publishers, PublisherTypes
<1>3. \/ worker' \in {Idle, worker}
      \/ worker.at = "project" /\ worker' = [worker EXCEPT !.at = "all"]
      \/ worker'.at = "project" /\ worker'.record > stored
  BY <1>t DEF QuietStep, WorkerStores, ManeuverStores, SendStep, publishers, PublisherTypes
<1>4. \A p \in Projects : verified'[p] \in {0, verified[p]} \/ verified'[p] > stored
  BY <1>t DEF QuietStep, WorkerStores, ManeuverStores, SendStep, publishers, PublisherTypes
<1>5. /\ worker \in {Idle} \cup Busy /\ worker' \in {Idle} \cup Busy
      /\ verified \in [Projects -> Nat] /\ verified' \in [Projects -> Nat]
  BY <1>t DEF PublisherTypes
<1> QED
  BY <1>1, <1>2, <1>3, <1>4, <1>5, TidyLater

\* What is sent, to one whom it reaches.
LEMMA TidySend ==
    ASSUME FeedTypes, FeedTypes', Announcing, NEW c \in Clients,
           Tidy(Heard(c), route[c], stored, worker, verified),
           NEW e \in Event, SendStep(route[c], e)
    PROVE  Tidy(Append(Heard(c), e), route[c], stored', worker', verified')
<1>t. PublisherTypes /\ ConnectionTypes /\ PublisherTypes'
  BY DEF FeedTypes
<1> DEFINE h == Heard(c)
           g == route[c]
<1>1. h \in Seq(Event) /\ stored \in Nat /\ verified \in [Projects -> Nat]
      /\ worker \in {Idle} \cup Busy /\ worker' \in {Idle} \cup Busy
  BY <1>t, HeardType DEF PublisherTypes
<1>2. Tidy(h, g, stored, worker, verified)
  OBVIOUS
<1>3. SendStep(g, e)
  OBVIOUS
<1> HIDE DEF h, g
<1>4. CASE worker.at \in {"project", "all"} /\ e = Announced /\ UNCHANGED <<stored, verified>>
           /\ \/ /\ worker.at = "project" /\ g = worker.project
                 /\ worker' \in {Idle, [worker EXCEPT !.at = "all"]}
              \/ worker.at = "all" /\ g = All /\ worker' = Idle
  <2>1. worker \in Busy /\ worker.record <= stored
    BY <1>1, <1>4 DEF Idle, Announcing
  <2>2. worker.project \in Projects
    BY <2>1 DEF Busy
  <2>3. e.kind = Update /\ e.project = worker.project /\ e.record = worker.record
    BY <1>4 DEF Announced
  <2>4. \/ worker.at = "project" /\ g # All /\ worker' \in {Idle, [worker EXCEPT !.at = "all"]}
        \/ worker.at = "all" /\ g = All /\ worker' = Idle
    BY <1>4, <2>2, GroupsAssumption
  <2>5. Tidy(Append(h, e), g, stored, worker', verified)
    BY <1>1, <1>2, <2>1, <2>3, <2>4, TidyUpdate
  <2> QED
    BY <1>4, <2>5 DEF h, g
<1>5. CASE e = [kind |-> "device.offline", project |-> g, record |-> 0]
           /\ UNCHANGED publishers
  <2>1. e.kind \notin {Update, Done} /\ e.record <= stored
    BY <1>1, <1>5 DEF Update, Done
  <2>2. Tidy(Append(h, e), g, stored, worker, verified)
    BY <1>1, <1>2, <2>1, TidyOther
  <2> QED
    BY <1>5, <2>2 DEF publishers, h, g
<1>6. CASE g \in Projects /\ verified[g] # 0
           /\ e = [kind |-> Done, project |-> g, record |-> verified[g]]
           /\ verified' = [verified EXCEPT ![g] = 0] /\ UNCHANGED <<stored, worker>>
  <2>1. e.kind = Done /\ e.project = g /\ e.record = verified[g] /\ verified[g] <= stored
    BY <1>6 DEF Announcing
  <2>2. Tidy(Append(h, e), g, stored, worker, [verified EXCEPT ![g] = 0])
    BY <1>1, <1>2, <1>6, <2>1, TidyDone
  <2> QED
    BY <1>6, <2>2 DEF h, g
<1> QED
  BY <1>3, <1>4, <1>5, <1>6 DEF SendStep

LEMMA TidyKept ==
    FeedTypes /\ FeedTypes' /\ Membership /\ Announcing /\ AllTidy /\ [Next]_vars => AllTidy'
<1> SUFFICES ASSUME FeedTypes, FeedTypes', Membership, Announcing, AllTidy, [Next]_vars,
                    NEW c \in Clients
             PROVE  Tidy(Heard(c)', route'[c], stored', worker', verified')
  BY DEF AllTidy
<1>t. ConnectionTypes /\ PublisherTypes
  BY DEF FeedTypes
<1>c. Tidy(Heard(c), route[c], stored, worker, verified)
  BY DEF AllTidy
\* Steps that leave the publishers alone and what c has heard.
<1>s. ASSUME Heard(c)' = Heard(c), UNCHANGED <<route, publishers>>
      PROVE  Tidy(Heard(c)', route'[c], stored', worker', verified')
  BY <1>c, <1>s DEF publishers
<1>1. ASSUME NEW d \in Clients, ClientStep(d)
      PROVE  Tidy(Heard(c)', route'[c], stored', worker', verified')
  <2>1. UNCHANGED <<route, publishers>>
    BY <1>1 DEF ClientStep, Arrives, Refused, Joins, Accepted, Delivers, Leaves,
       Disconnects, Abandoned
  <2>2. CASE Delivers(d)
    <3>1. seen[d] \in Seq(Event) /\ queue[d] \in Seq(Event) /\ queue[d] # <<>>
      BY <1>t, <2>2 DEF ConnectionTypes, Delivers
    <3>2. Append(seen[d], Head(queue[d])) \o Tail(queue[d]) = seen[d] \o queue[d]
      BY <3>1, DeliveredInPlace
    <3>3. Heard(c)' = Heard(c)
      BY <1>t, <2>2, <3>2 DEF Heard, Delivers, ConnectionTypes
    <3> QED
      BY <1>s, <2>1, <3>3
  <2>3. CASE ~Delivers(d)
    <3>1. UNCHANGED <<seen, queue>>
      BY <1>1, <2>3 DEF ClientStep, Arrives, Refused, Joins, Accepted, Leaves,
         Disconnects, Abandoned, layer
    <3> QED
      BY <1>s, <2>1, <3>1 DEF Heard
  <2> QED
    BY <2>2, <2>3
<1>2. CASE Forgets
  <2>1. UNCHANGED <<route, seen, publishers>> /\ queue'[c] \in {queue[c], <<>>}
    BY <1>2 DEF Forgets
  <2>2. CASE queue'[c] = queue[c]
    BY <1>s, <2>1, <2>2 DEF Heard
  <2>3. CASE queue'[c] = <<>>
    <3>1. seen[c] \in Seq(Event) /\ queue[c] \in Seq(Event)
      BY <1>t DEF ConnectionTypes
    <3>2. Tidy(seen[c], route[c], stored, worker, verified)
      BY <1>c, <3>1, TidyPrefix DEF Heard
    <3>3. Heard(c)' = seen[c]
      BY <2>1, <2>3, <3>1, ConcatEmptySeq DEF Heard
    <3> QED
      BY <2>1, <3>2, <3>3 DEF publishers
  <2> QED
    BY <2>1, <2>2, <2>3
<1>3. ASSUME NEW g \in Groups, NEW e \in Event, SendStep(g, e)
      PROVE  Tidy(Heard(c)', route'[c], stored', worker', verified')
  <2>1. group_send(g, e) /\ route' = route
    BY <1>3 DEF SendStep, group_send
  <2>2. CASE c \in Reached(g)
    <3>1. g = route[c]
      BY <2>2 DEF Reached, Listeners, Membership
    <3>2. Heard(c)' = Append(Heard(c), e)
      BY <1>t, <2>1, <2>2, SendHeard
    <3> QED
      BY <1>3, <1>c, <2>1, <3>1, <3>2, TidySend
  <2>3. CASE c \notin Reached(g)
    <3>1. Heard(c)' = Heard(c)
      BY <1>t, <2>1, <2>3, SendHeard
    <3> QED
      BY <1>3, <1>c, <2>1, <3>1, PublishersLater
  <2> QED
    BY <2>2, <2>3
<1>4. CASE QuietStep
  <2>1. Heard(c)' = Heard(c) /\ route' = route
    BY <1>4 DEF QuietStep, layer, Heard
  <2> QED
    BY <1>4, <1>c, <2>1, PublishersLater
<1>5. CASE UNCHANGED vars
  BY <1>s, <1>5 DEF vars, layer, Heard
<1> QED
  BY <1>t, <1>1, <1>2, <1>3, <1>4, <1>5, StepKinds

LEMMA TidyInOrder ==
    ASSUME NEW h \in Seq(Event), NEW g, NEW n, NEW w, NEW v, Tidy(h, g, n, w, v)
    PROVE  InOrder(h)
<1>1. DOMAIN h = 1..Len(h)
  BY LenProperties
<1>2. ASSUME NEW i \in DOMAIN h, h[i].kind = Done
      PROVE  Cardinality(Older(h, i, Update)) <= 1
  <2>1. \A j, k \in Older(h, i, Update) : j = k
    BY <1>1, <1>2 DEF Tidy
  <2>2. CASE Older(h, i, Update) = {}
    BY <2>2, FS_EmptySet
  <2>3. CASE \E j : j \in Older(h, i, Update)
    <3>1. PICK j : Older(h, i, Update) = {j}
      BY <2>1, <2>3
    <3>2. Cardinality({j}) = 1
      BY FS_Singleton
    <3> QED
      BY <3>1, <3>2
  <2> QED
    BY <2>2, <2>3
<1> QED
  BY <1>1, <1>2 DEF Tidy, InOrder

\* For any connections, groups and capacity, whatever fails and is lost: no client is
\* told of a record twice or of one after a newer, except that after the outcome of a
\* maneuver one update may come that was stored before it (poll_reclosers.py:119-172,
\* maneuvers/views.py:233-253).
THEOREM ToldOrderly == Spec => []ToldInOrder
<1>1. Init => Announcing /\ AllTidy
  <2> SUFFICES ASSUME Init PROVE Announcing /\ AllTidy
    OBVIOUS
  <2>1. Announcing
    BY DEF Init, Announcing, Idle
  <2>2. ASSUME NEW c \in Clients PROVE Heard(c) = <<>>
    BY EmptySeq, ConcatEmptySeq DEF Init, Heard
  <2>3. Len(<<>>) = 0 /\ 1..0 = {}
    BY EmptySeq
  <2> QED
    BY <2>1, <2>2, <2>3 DEF AllTidy, Tidy
<1>2. FeedTypes /\ AllTidy => ToldInOrder
  <2> SUFFICES ASSUME FeedTypes, AllTidy, NEW c \in Clients PROVE InOrder(Heard(c))
    BY DEF ToldInOrder
  <2>1. Heard(c) \in Seq(Event)
    BY HeardType DEF FeedTypes
  <2> QED
    BY <2>1, TidyInOrder DEF AllTidy
<1> QED
  BY <1>1, <1>2, TypesInvariant, MembershipInvariant, AnnouncingKept, TidyKept, PTL DEF Spec
=============================================================================
