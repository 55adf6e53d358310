------------------------------ MODULE SessionPod ------------------------------
(***************************************************************************)
(* The session pod (packages/helpers/src/session-pod.ts) over its session  *)
(* hosts: slots prepared for an orchestrator, clients that join and leave  *)
(* their signaling rooms, the one idle timer of a session, teardown in     *)
(* flight, and the hosts retired with leases in quarantine.                *)
(* The signaling server, the clients, their transports and the             *)
(* orchestrator act whenever the event loop is free.                       *)
(***************************************************************************)
EXTENDS SessionHost

VARIABLES
    slots,           \* sessions with a slot
    preparing,       \* preparingSessions, by what the preparation waits for
    timer,           \* the idle timer of a session, by the reason it was armed with
    polls,           \* polls for the last peer, by the grace they will arm
    reason,          \* pendingEndReason of a slot
    flight,          \* the teardown in flight of a session
    ending,          \* the end reason of that teardown
    retired,         \* retiredHosts: the retired host of a session, 0 if none
    online,          \* slots whose agent is in its signaling room
    present,         \* clients in their room, at the signaling server
    announced,       \* clients the server has announced to the agent's socket
    joined,          \* sessions whose host has had a client (history)
    owed             \* connections an event of their own has asked to close (history)

podVars == <<slots, preparing, timer, polls, reason, flight, ending, retired,
             online, present, announced, joined, owed>>
vars == <<scope, hostVars, podVars>>

Init ==
    /\ HostInit
    /\ scope \in Scopes
    /\ slots = {}
    /\ preparing = [s \in Sessions |-> "none"]
    /\ timer = [s \in Sessions |-> "off"]
    /\ polls = [s \in Sessions |-> {}]
    /\ reason = [s \in Sessions |-> "none"]
    /\ flight = [s \in Sessions |-> "none"]
    /\ ending = [s \in Sessions |-> "none"]
    /\ retired = [s \in Sessions |-> 0]
    /\ online = {}
    /\ present = {}
    /\ announced = {}
    /\ joined = {}
    /\ owed = {}

Connecting(s) == \E c \in Peers(s) : ConnectingPeer(c)
Busy(s) == \E c \in Peers(s) : work[c] # Idle \/ peerOps[c] # <<>>

\* The event loop takes its next event only when no continuation is left to run.
Settled ==
    /\ QueuesSettled
    /\ \A s \in Sessions :
         /\ flight[s] = "connects" => Connecting(s)
         /\ flight[s] = "closes" => Busy(s)

RecycleRequired ==
    \/ \E s \in slots : Host(s) \in recycleRequired
    \/ \E s \in Sessions : <<s, retired[s]>> \in recycleRequired

(***************************************************************************)
(* The pod's handler, called by a host at the start of a peer's teardown.  *)
(* Only onPeerDisconnected after a hangup asks for no grace.               *)
(***************************************************************************)
Grace(session) == IF session.ready /\ session.hung THEN "none" ELSE "grace"
Unregistered(c) == Live(c) /\ sessions'[c] = NoSession
NotifyDisconnected ==
    polls' = [s \in Sessions |->
                polls[s] \cup {Grace(sessions[c]) : c \in {d \in Peers(s) : Unregistered(d)}}]

HostStep(step) ==
    /\ step
    /\ NotifyDisconnected
    /\ UNCHANGED <<scope, slots, preparing, timer, reason, flight, ending, retired,
                   online, present, announced, joined, owed>>

\* cancelTeardownTimer
Uncancelled(s) == UNCHANGED <<timer, reason>>
CancelTimer_KeepsReason(s) ==
    /\ timer' = [timer EXCEPT ![s] = "off"]
    /\ UNCHANGED reason
CancelTimer(s) ==
    /\ timer' = [timer EXCEPT ![s] = "off"]
    /\ reason' = [reason EXCEPT ![s] = IF @ = "never_connected" THEN "none" ELSE @]

(***************************************************************************)
(* Preparing a slot: ensureSession, prepareSessionSlot.                    *)
(***************************************************************************)
Occupied == Cardinality(slots) + Cardinality({s \in Sessions : preparing[s] # "none"})
FitsCapacity == Occupied + 1 <= scope.max_prepared

Prepare(s) ==
    /\ Settled
    /\ s \in scope.rooms \ slots /\ preparing[s] = "none"
    /\ ~RecycleRequired
    /\ scope.max_prepared # 0 => FitsCapacity
    /\ incarnation[s] < scope.hosts
    /\ preparing' = [preparing EXCEPT ![s] = "connecting"]
    /\ UNCHANGED hostVars
    /\ UNCHANGED <<scope, slots, timer, polls, reason, flight, ending, retired,
                   online, present, announced, joined, owed>>

\* The agent's socket to the signaling server did not open.
PrepareFails(s) ==
    /\ Settled
    /\ preparing[s] = "connecting"
    /\ preparing' = [preparing EXCEPT ![s] = "none"]
    /\ UNCHANGED hostVars
    /\ UNCHANGED <<scope, slots, timer, polls, reason, flight, ending, retired,
                   online, present, announced, joined, owed>>

\* It opened: a new host, its slot and the timer for the first client.
Commit(s) ==
    /\ Settled
    /\ preparing[s] = "connecting"
    /\ preparing' = [preparing EXCEPT ![s] = "created"]
    /\ slots' = slots \cup {s}
    /\ incarnation' = [incarnation EXCEPT ![s] = @ + 1]
    /\ hostClosing' = hostClosing \ {s}
    /\ reason' = [reason EXCEPT ![s] = "never_connected"]
    /\ timer' = [timer EXCEPT ![s] = IF @ = "off" THEN "never_connected" ELSE @]
    /\ online' = online \cup {s}
    /\ announced' = announced \ Peers(s)
    /\ joined' = joined \ {s}
    /\ UNCHANGED <<leases, sessions, work, peerOps, quarantineWaits, recycleRequired, born, asked>>
    /\ UNCHANGED <<scope, polls, flight, ending, retired, present, owed>>

\* The created hook has returned or thrown.
Created(s) ==
    /\ Settled
    /\ preparing[s] = "created"
    /\ preparing' = [preparing EXCEPT ![s] = "none"]
    /\ UNCHANGED hostVars
    /\ UNCHANGED <<scope, slots, timer, polls, reason, flight, ending, retired,
                   online, present, announced, joined, owed>>

(***************************************************************************)
(* Tearing a session down: teardownSession, teardownSessionOnce.           *)
(***************************************************************************)
StartTeardown(s, why) ==
    /\ s \in slots /\ flight[s] = "none"
    /\ flight' = [flight EXCEPT ![s] = "connects"]
    /\ ending' = [ending EXCEPT ![s] = IF why # "none" THEN why ELSE reason[s]]
    /\ reason' = [reason EXCEPT ![s] = "none"]
    /\ timer' = [timer EXCEPT ![s] = "off"]
    /\ hostClosing' = hostClosing \cup {s}
    /\ UNCHANGED <<leases, sessions, work, peerOps, quarantineWaits, recycleRequired,
                   incarnation, born, asked>>
    /\ UNCHANGED <<slots, preparing, retired, online, present, announced, joined, owed>>

\* The reason a caller gives a teardown that is in flight is kept for a retry.
JoinTeardown(s, why) ==
    /\ s \in slots /\ flight[s] # "none"
    /\ reason' = [reason EXCEPT ![s] = IF @ = "none" THEN why ELSE @]
    /\ UNCHANGED hostVars
    /\ UNCHANGED <<slots, preparing, flight, ending, retired, online, present, announced,
                   joined, owed>>

Teardown(s, why) == StartTeardown(s, why) \/ (JoinTeardown(s, why) /\ UNCHANGED timer)

EndSession(s) ==
    /\ Settled
    /\ scope.forced > 0
    /\ scope' = [scope EXCEPT !.forced = @ - 1]
    /\ Teardown(s, "ended")
    /\ UNCHANGED polls

\* host.close(): connects in progress are awaited, then every peer is closed.
ConnectsOver(s) ==
    /\ flight[s] = "connects" /\ ~Connecting(s)
    /\ flight' = [flight EXCEPT ![s] = "closes"]
    /\ peerOps' = [c \in Clients |-> IF Room[c] = s /\ Active(c) THEN Append(peerOps[c], Close)
                                                                ELSE peerOps[c]]
    /\ UNCHANGED <<leases, sessions, work, quarantineWaits, recycleRequired, hostClosing,
                   incarnation, born, asked>>
    /\ UNCHANGED <<scope, slots, preparing, timer, polls, reason, ending, retired,
                   online, present, announced, joined, owed>>

\* The agent leaves the room, and the destroyed hook is called.
ClosesOver(s) ==
    /\ flight[s] = "closes" /\ ~Busy(s)
    /\ flight' = [flight EXCEPT ![s] = "hook"]
    /\ online' = online \ {s}
    /\ announced' = announced \ Peers(s)
    /\ UNCHANGED hostVars
    /\ UNCHANGED <<scope, slots, preparing, timer, polls, reason, ending, retired,
                   present, joined, owed>>

Retires(s) == Host(s) \in recycleRequired \/ QuarantinedOf(Host(s)) # {}
Destroyed(s) ==
    /\ Settled
    /\ flight[s] = "hook"
    /\ flight' = [flight EXCEPT ![s] = "none"]
    /\ retired' = [retired EXCEPT ![s] = IF Retires(s) THEN incarnation[s] ELSE @]
    /\ slots' = slots \ {s}
    /\ UNCHANGED hostVars
    /\ UNCHANGED <<scope, preparing, timer, polls, reason, ending, online, present,
                   announced, joined, owed>>

\* The hook has failed: the slot is retained, for a caller to try again.
DestroyedFails(s) ==
    /\ Settled
    /\ flight[s] = "hook" /\ scope.hook_fails
    /\ flight' = [flight EXCEPT ![s] = "none"]
    /\ UNCHANGED hostVars
    /\ UNCHANGED <<scope, slots, preparing, timer, polls, reason, ending, retired,
                   online, present, announced, joined, owed>>

(***************************************************************************)
(* Idle teardown.                                                          *)
(***************************************************************************)
\* scheduleIdleTeardown for the last peer: a timer that runs is left as it is.
ScheduleIdle(s, grace) ==
    \/ /\ timer[s] = "off" /\ grace = "none"
       /\ Teardown(s, "none")
    \/ /\ timer[s] = "off" /\ grace # "none"
       /\ timer' = [timer EXCEPT ![s] = "idle"]
       /\ UNCHANGED hostVars
       /\ UNCHANGED <<slots, preparing, reason, flight, ending, retired, online, present,
                      announced, joined, owed>>
    \/ /\ timer[s] # "off"
       /\ UNCHANGED hostVars
       /\ UNCHANGED <<slots, preparing, timer, reason, flight, ending, retired, online, present,
                      announced, joined, owed>>

Forgotten == UNCHANGED <<hostVars, scope, slots, preparing, timer, reason, flight, ending,
                         retired, online, present, announced, joined, owed>>

\* maybeScheduleIdleTeardownAfterLastPeer: the poll ends without a slot, and
\* arms the timer once no peer is active.
Poll(s, grace) ==
    /\ Settled
    /\ grace \in polls[s]
    /\ polls' = [polls EXCEPT ![s] = @ \ {grace}]
    /\ \/ s \notin slots /\ Forgotten
       \/ s \in slots /\ ActiveClientCount(s) = 0 /\ ScheduleIdle(s, grace) /\ UNCHANGED scope

\* ... or gives up: 15 s are longer than any close, but not than a new call.
PollGivesUp_AtOnce(s, grace) ==
    /\ Settled
    /\ grace \in polls[s]
    /\ s \in slots /\ ActiveClientCount(s) > 0
    /\ polls' = [polls EXCEPT ![s] = @ \ {grace}]
    /\ Forgotten
PollGivesUp(s, grace) ==
    /\ Settled
    /\ grace \in polls[s]
    /\ s \in slots
    /\ \E c \in Peers(s) : Live(c) \/ ConnectingPeer(c)
    /\ polls' = [polls EXCEPT ![s] = @ \ {grace}]
    /\ Forgotten

TimerFires(s) ==
    /\ Settled
    /\ timer[s] # "off"
    /\ LET why == IF reason[s] # "none" THEN reason[s]
                  ELSE IF timer[s] = "idle" THEN "none" ELSE timer[s]
       IN  \/ ActiveClientCount(s) = 0 /\ StartTeardown(s, why)
           \/ ActiveClientCount(s) = 0 /\ JoinTeardown(s, why) /\ timer' = [timer EXCEPT ![s] = "off"]
           \/ /\ s \notin slots \/ ActiveClientCount(s) > 0
              /\ timer' = [timer EXCEPT ![s] = "off"]
              /\ UNCHANGED hostVars
              /\ UNCHANGED <<slots, preparing, reason, flight, ending, retired, online, present,
                             announced, joined, owed>>
    /\ UNCHANGED <<scope, polls>>

(***************************************************************************)
(* The clients, their signaling and their transports.                      *)
(***************************************************************************)
Outside == UNCHANGED <<scope, slots, preparing, polls, flight, ending, retired, online>>

\* A client opens or closes its socket at the signaling server. It opens a new
\* one once the agent has heard of the old one: the messages keep their order.
Arrive(c) ==
    /\ Settled
    /\ c \in scope.clients \ (present \cup announced) /\ asked < scope.joins
    /\ present' = present \cup {c}
    /\ UNCHANGED hostVars
    /\ UNCHANGED <<timer, reason, announced, joined, owed>>
    /\ Outside
Leave(c) ==
    /\ Settled
    /\ c \in present
    /\ present' = present \ {c}
    /\ UNCHANGED hostVars
    /\ UNCHANGED <<timer, reason, announced, joined, owed>>
    /\ Outside

\* peer-joined: the host queues the join, the pod cancels the idle timer.
PeerJoined(c) ==
    /\ Settled
    /\ Room[c] \in online /\ c \in present \ announced /\ asked < scope.joins
    /\ announced' = announced \cup {c}
    /\ asked' = asked + 1
    /\ Enqueue(c, Join)
    /\ CancelTimer(Room[c])
    /\ joined' = IF flight[Room[c]] = "none" THEN joined \cup {Room[c]} ELSE joined
    /\ UNCHANGED <<leases, sessions, work, quarantineWaits, recycleRequired, hostClosing,
                   incarnation, born>>
    /\ UNCHANGED <<present, owed>>
    /\ Outside

\* peer-left: a registered session that did not hang up is kept, its transport
\* watched for the grace unless it is up.
PeerLeft(c) ==
    /\ Settled
    /\ Room[c] \in online /\ c \in announced \ present
    /\ announced' = announced \ {c}
    /\ \/ /\ Live(c)
          /\ sessions' = [sessions EXCEPT ![c].left = TRUE,
                                          ![c].grace = @ \/ (sessions[c].pc # "up" /\ ~sessions[c].hung)]
          /\ IF sessions[c].hung THEN Enqueue(c, Close) ELSE UNCHANGED peerOps
       \/ ~Live(c) /\ UNCHANGED sessions /\ Enqueue(c, Close)
    /\ UNCHANGED <<leases, work, quarantineWaits, recycleRequired, hostClosing, incarnation,
                   born, asked>>
    /\ UNCHANGED <<timer, reason, present, joined, owed>>
    /\ Outside

\* The agent's socket is lost and reopened: who left meanwhile is not reported,
\* who is there is announced again (reconnectAgentSignaling).
AgentReconnects(s) ==
    /\ Settled
    /\ scope.drops > 0 /\ s \in online /\ s \notin hostClosing
    /\ scope' = [scope EXCEPT !.drops = @ - 1]
    /\ announced' = announced \ Peers(s)
    /\ UNCHANGED hostVars
    /\ UNCHANGED <<slots, preparing, timer, polls, reason, flight, ending, retired,
                   online, present, joined, owed>>

ChangesSession(c) ==
    /\ UNCHANGED <<leases, work, quarantineWaits, recycleRequired, hostClosing, incarnation, born>>
    /\ UNCHANGED <<present, announced, joined>>
    /\ Outside

\* The connection is up and its control channel open: onPeerTransportReady.
TransportUp(c) ==
    /\ Settled
    /\ Live(c) /\ work[c] = Idle /\ sessions[c].pc # "up"
    /\ sessions' = [sessions EXCEPT ![c].pc = "up", ![c].ready = TRUE, ![c].grace = FALSE]
    /\ IF sessions[c].ready THEN Uncancelled(Room[c]) ELSE CancelTimer(Room[c])
    /\ UNCHANGED <<peerOps, asked, owed>>
    /\ ChangesSession(c)

\* The transport is lost, or ICE fails before the connection was ever up.
TransportDown(c) ==
    /\ Settled
    /\ Live(c) /\ work[c] = Idle
    /\ \/ sessions[c].pc = "up" /\ scope.transport_fails
       \/ sessions[c].pc = "new" /\ scope.connect_fails
    /\ sessions' = [sessions EXCEPT ![c].pc = "down", ![c].grace = TRUE]
    /\ UNCHANGED <<peerOps, asked, owed, timer, reason>>
    /\ ChangesSession(c)

\* scheduleTransportDisconnect: at its end only a transport that was up closes.
GraceEnds(c) ==
    /\ Settled
    /\ Live(c) /\ sessions[c].grace
    /\ sessions' = [sessions EXCEPT ![c].grace = FALSE]
    /\ \/ /\ sessions[c].pc = "down"
          /\ Enqueue(c, CloseIf(sessions[c].lease))
          /\ owed' = owed \cup {sessions[c].lease}
       \/ /\ sessions[c].pc # "down"
          /\ UNCHANGED <<peerOps, owed>>
    /\ UNCHANGED <<asked, timer, reason>>
    /\ ChangesSession(c)

\* maybeReofferAfterTransportLoss
ReofferDue(c) ==
    /\ Settled
    /\ Live(c) /\ sessions[c].grace /\ ~sessions[c].left /\ ~sessions[c].hung
    /\ Room[c] \notin hostClosing /\ asked < scope.joins
    /\ asked' = asked + 1
    /\ Enqueue(c, Reoffer(sessions[c].lease))
    /\ UNCHANGED <<sessions, owed, timer, reason>>
    /\ ChangesSession(c)

\* A hangup message, or the control channel closed by the client.
Hangup(c) ==
    /\ Settled
    /\ Live(c) /\ sessions[c].ready /\ ~sessions[c].hung
    /\ sessions' = [sessions EXCEPT ![c].hung = TRUE]
    /\ Enqueue(c, CloseIf(sessions[c].lease))
    /\ owed' = owed \cup {sessions[c].lease}
    /\ UNCHANGED <<asked, timer, reason>>
    /\ ChangesSession(c)

\* A connection that never came up: it closed, its answer was refused, or it
\* stalled after ICE connected.
ConnectDies(c) ==
    /\ Settled
    /\ scope.connect_fails
    /\ Live(c) /\ sessions[c].pc = "new"
    /\ sessions[c].lease \notin owed
    /\ Enqueue(c, CloseIf(sessions[c].lease))
    /\ owed' = owed \cup {sessions[c].lease}
    /\ UNCHANGED <<sessions, asked, timer, reason>>
    /\ ChangesSession(c)

\* A late event of a connection that is being closed.
LateEvent(c) ==
    /\ Settled
    /\ scope.late > 0 /\ ClosingPeer(c)
    /\ scope' = [scope EXCEPT !.late = @ - 1]
    /\ Enqueue(c, CloseIf(work[c].lease))
    /\ owed' = owed \cup {work[c].lease}
    /\ UNCHANGED <<leases, sessions, work, quarantineWaits, recycleRequired, hostClosing,
                   incarnation, born, asked>>
    /\ UNCHANGED <<slots, preparing, timer, polls, reason, flight, ending, retired,
                   online, present, announced, joined>>

(***************************************************************************)
(* The next step.                                                          *)
(***************************************************************************)
Build(c) == Register(c) \/ (scope.connect_fails /\ BuildFails(c))
Offer(c) == OfferSent(c) \/ (scope.connect_fails /\ OfferFails(c))
EndClose(c) ==
    \E pc, agent \in Outcomes :
        (scope.close_fails \/ {pc, agent} = {"ok"}) /\ CloseEnds(c, pc, agent)
Answer(lease) == \E side \in {"pc", "agent"} : LateAnswer(lease, side)

\* What a host awaits is over.
HostAwait(c) == Settled /\ (Build(c) \/ Offer(c) \/ PartialClosed(c) \/ EndClose(c))

PeerStep(c) ==
    \/ HostStep(RunOp(c))
    \/ HostStep(HostAwait(c))
    \/ Arrive(c) \/ Leave(c) \/ PeerJoined(c) \/ PeerLeft(c)
    \/ TransportUp(c) \/ TransportDown(c) \/ GraceEnds(c) \/ ReofferDue(c)
    \/ Hangup(c) \/ ConnectDies(c) \/ LateEvent(c)

SessionStep(s) ==
    \/ Prepare(s) \/ PrepareFails(s) \/ Commit(s) \/ Created(s)
    \/ EndSession(s) \/ ConnectsOver(s) \/ ClosesOver(s) \/ Destroyed(s) \/ DestroyedFails(s)
    \/ \E grace \in polls[s] : Poll(s, grace) \/ PollGivesUp(s, grace)
    \/ TimerFires(s) \/ AgentReconnects(s)

Next ==
    \/ \E c \in Clients : PeerStep(c)
    \/ \E s \in Sessions : SessionStep(s)
    \/ \E lease \in Quarantined : HostStep(Settled /\ Answer(lease))

Spec == Init /\ [][Next]_vars

\* Every await of a host is bounded by a timeout, the hooks settle, timers fire
\* and messages of an open socket arrive. Nothing is assumed of a client, of its
\* transport, of a late answer or of the orchestrator.
Fairness ==
    /\ \A c \in Clients :
         /\ WF_vars(HostStep(RunOp(c))) /\ WF_vars(HostStep(HostAwait(c)))
         /\ WF_vars(PeerJoined(c)) /\ WF_vars(PeerLeft(c)) /\ WF_vars(GraceEnds(c))
    /\ \A s \in Sessions :
         /\ WF_vars(PrepareFails(s) \/ Commit(s)) /\ WF_vars(Created(s))
         /\ WF_vars(ConnectsOver(s)) /\ WF_vars(ClosesOver(s))
         /\ WF_vars(Destroyed(s) \/ DestroyedFails(s))
         /\ WF_vars(TimerFires(s))
         /\ \A grace \in {"none", "grace"} : WF_vars(Poll(s, grace))
FairSpec == Spec /\ Fairness

(***************************************************************************)
(* Properties.                                                             *)
(***************************************************************************)
\* The variables have their types.
LeaseOrNone == Leases \cup {NoLease}
TypeOK ==
    /\ scope \in Limits /\ leases \subseteq Leases
    /\ sessions \in [Clients -> {NoSession} \cup
         [lease : Leases, pc : {"new", "up", "down"}, ready : BOOLEAN, hung : BOOLEAN,
          left : BOOLEAN, grace : BOOLEAN]]
    /\ work \in [Clients -> [step : {"idle", "build", "offer", "partial", "closing"},
                              lease : LeaseOrNone, ready : BOOLEAN]]
    /\ peerOps \in [Clients -> Seq([op : {"join", "connect", "close", "reoffer"}, of : LeaseOrNone])]
    /\ Quarantined \subseteq Leases
    /\ quarantineWaits \in [Quarantined -> [pc : Outcomes, agent : Outcomes]]
    /\ hostClosing \subseteq Sessions /\ slots \subseteq Sessions /\ online \subseteq Sessions
    /\ incarnation \in [Sessions -> Nat] /\ retired \in [Sessions -> Nat]
    /\ born \in [Clients -> Nat] /\ asked \in Nat
    /\ preparing \in [Sessions -> {"none", "connecting", "created"}]
    /\ timer \in [Sessions -> {"off", "never_connected", "idle"}]
    /\ polls \in [Sessions -> SUBSET {"none", "grace"}]
    /\ reason \in [Sessions -> {"none", "never_connected", "ended"}]
    /\ ending \in [Sessions -> {"none", "never_connected", "ended"}]
    /\ flight \in [Sessions -> {"none", "connects", "closes", "hook"}]
    /\ present \subseteq Clients /\ announced \subseteq Clients
    /\ joined \subseteq Sessions /\ owed \subseteq Leases

\* The budget is the sum of what holds a lease: every lease belongs to exactly
\* one registered session, connect, close or quarantine, and there are never more
\* than VOICE_MAX_CONCURRENT_SESSIONS. So no lease is lost or released twice,
\* whatever becomes of the two halves of a close.
AtWorkLeases == {work[c].lease : c \in {d \in Clients : work[d].step \in {"build", "partial", "closing"}}}
LiveLeases == {sessions[c].lease : c \in {d \in Clients : Live(d)}}
LeasesAccounted ==
    /\ leases = AtWorkLeases \cup LiveLeases \cup Quarantined
    /\ AtWorkLeases \cap LiveLeases = {}
    /\ (AtWorkLeases \cup LiveLeases) \cap Quarantined = {}
    /\ scope.max_sessions # 0 => Cardinality(leases) <= scope.max_sessions

\* A host admits nobody else exactly while it has a lease in quarantine.
RecycleMatchesQuarantine == recycleRequired = {HostOf(lease) : lease \in Quarantined}

\* A lease in quarantine stays visible to the pod: its host is in a slot or
\* retired, so the pod refuses new sessions until the last one is released.
QuarantineStaysVisible ==
    \A lease \in Quarantined :
        LET s == Room[lease.peer]
        IN  (s \in slots /\ Host(s) = HostOf(lease)) \/ retired[s] = lease.host

\* The process never runs more connections than it may, nor loses one it could:
\* the budget, the quarantine and what the pod sees of it agree.
CapacityAccounted == LeasesAccounted /\ RecycleMatchesQuarantine /\ QuarantineStaysVisible

\* Once host.close() has returned nothing of the session is left but its
\* quarantine: no session, no connect, no close and no queued operation.
TornDownIsEmpty ==
    \A s \in Sessions : flight[s] = "hook" \/ s \notin slots =>
        \A c \in Peers(s) : ~Active(c) /\ peerOps[c] = <<>>

\* The slots in use and in preparation never exceed maxPreparedSessions.
PreparedWithinCapacity == scope.max_prepared # 0 => Cardinality(slots) <= scope.max_prepared

\* The idle timer of a session runs only while it has no peer.
TimerMeansIdle == \A s \in slots : timer[s] # "off" => ActiveClientCount(s) = 0

\* A session that ends as never_connected has never had a client.
NeverConnectedIsTrue ==
    \A s \in slots : flight[s] # "none" /\ ending[s] = "never_connected" => s \notin joined

\* The pod's view of a session is what its host holds: nothing once it is torn
\* down, no more slots than there are, and idle only if nobody is there, or was.
SlotsTellTheTruth ==
    TornDownIsEmpty /\ PreparedWithinCapacity /\ TimerMeansIdle /\ NeverConnectedIsTrue

\* A session whose client is in the room ends only by an event of its own, with
\* its host, or to be replaced: late events of an earlier connection spare it.
Succeeded(c) == \E i \in 1 .. Len(peerOps[c]) : peerOps[c][i].op \in {"join", "connect"}
LateEventsSpareSuccessor ==
    [][\A c \in Clients : Unregistered(c) =>
         \/ sessions[c].lease \in owed
         \/ c \notin present \cap announced
         \/ Room[c] \in hostClosing
         \/ work[c].step = "offer"
         \/ Succeeded(c)']_vars

\* A teardown always comes to its end.
TeardownEnds == \A s \in Sessions : flight[s] # "none" ~> flight[s] = "none"

\* A client that hangs up frees its slot, unless it, or somebody else, asks
\* for the session again or the destroyed hook fails.
Retained(s) == s \in slots /\ s \in hostClosing /\ flight[s] = "none"
HangupFreesSlot ==
    \A c \in Clients : \A n \in UNION {1 .. s.joins : s \in Scopes} :
        Live(c) /\ sessions[c].hung /\ asked = n ~>
            \/ Room[c] \notin slots \/ Retained(Room[c])
            \/ asked > n
            \/ \E d \in Peers(Room[c]) \ {c} : d \in present \/ Active(d)

\* So no session, wanted or not, keeps its slot by accident.
SlotsAreFreed == TeardownEnds /\ HangupFreesSlot

=============================================================================
