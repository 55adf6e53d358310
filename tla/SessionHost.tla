----------------------------- MODULE SessionHost -----------------------------
(***************************************************************************)
(* The voice session hosts of one process and the lease budget they share  *)
(* (packages/helpers/src/voice-agent-session-host.ts,                      *)
(* voice-session-budget.ts): one host per session slot, one queue of       *)
(* operations per client, one lease per WebRTC connection.                 *)
(*                                                                         *)
(* A step is what the event loop does without returning to its queue of    *)
(* timers and input, or a part of it: an operation at the head of a        *)
(* client's queue starts before the next event is taken (Settled).         *)
(***************************************************************************)
EXTENDS Naturals, Sequences, FiniteSets

CONSTANTS
    Sessions,        \* session ids: one signaling room and one slot each
    Clients,         \* browser peers
    Room,            \* the session each client asks for
    Scopes           \* the limits and the bounds of a behaviour: one of these

\* A scope gives the two limits of the process, VOICE_MAX_CONCURRENT_SESSIONS and
\* maxPreparedSessions (0 is no limit), and what a behaviour may meet: which
\* sessions and clients act, how often clients ask to be connected, how many hosts
\* a session gets, how many stale events of a closing connection arrive, how often
\* the agent's signaling socket is lost, how often the orchestrator ends a session,
\* and whether a connect, a close, a transport or the destroyed hook may fail.
Limits == [rooms : SUBSET Sessions, clients : SUBSET Clients, max_sessions : Nat, max_prepared : Nat,
           joins : Nat, hosts : Nat, late : Nat, drops : Nat, forced : Nat,
           connect_fails : BOOLEAN, close_fails : BOOLEAN, transport_fails : BOOLEAN, hook_fails : BOOLEAN]
ASSUME HostAssumption ==
    /\ Room \in [Clients -> Sessions] /\ IsFiniteSet(Clients)
    /\ Scopes \subseteq Limits

VARIABLES
    scope,           \* the limits and bounds of this behaviour
    leases,          \* VoiceSessionBudget.leases
    sessions,        \* the registered ClientSession of each client
    work,            \* the operation at work for each client
    peerOps,         \* the operations behind it (peerOpTail)
    quarantineWaits, \* leases in quarantine: what is known of their two closes
    recycleRequired, \* hosts that admit nobody
    hostClosing,     \* sessions whose host is closing or closed
    incarnation,     \* hosts made so far for each session: the last is its host
    born,            \* leases acquired for each client
    asked            \* joins and re-offers so far, for scope.joins

hostVars == <<leases, sessions, work, peerOps, quarantineWaits, recycleRequired,
              hostClosing, incarnation, born, asked>>

\* A lease, and the connection it was acquired for.
Leases == [peer : Clients, host : Nat, no : Nat]
HostOf(lease) == <<Room[lease.peer], lease.host>>
Host(s) == <<s, incarnation[s]>>
Peers(s) == {c \in Clients : Room[c] = s}

NoLease == [peer |-> "none"]
NoSession == [lease |-> NoLease]
Idle == [step |-> "idle", lease |-> NoLease, ready |-> FALSE]

\* The parts of a ClientSession that its host decides by: the transport, whether
\* transport-ready was notified, and why the session may be ending.
ClientSession_Unleased(lease) ==
    [lease |-> NoLease, pc |-> "new", ready |-> FALSE, hung |-> FALSE, left |-> FALSE, grace |-> FALSE]
ClientSession(lease) ==
    [lease |-> lease, pc |-> "new", ready |-> FALSE, hung |-> FALSE, left |-> FALSE, grace |-> FALSE]

Live(c) == sessions[c] # NoSession
ClosingPeer(c) == work[c].step = "closing"
ConnectingPeer(c) == work[c].step \in {"build", "offer", "partial"}
Active(c) == Live(c) \/ ClosingPeer(c) \/ ConnectingPeer(c)
ActiveClientCount(s) == Cardinality({c \in Peers(s) : Active(c)})

Quarantined == DOMAIN quarantineWaits
QuarantinedOf(host) == {lease \in Quarantined : HostOf(lease) = host}

\* Operations of a client's queue. Connect is the second half of a join or a
\* re-offer whose first half closed the session before it.
Join == [op |-> "join", of |-> NoLease]
Connect == [op |-> "connect", of |-> NoLease]
Close == [op |-> "close", of |-> NoLease]
CloseIf(lease) == [op |-> "close", of |-> lease]
Reoffer(lease) == [op |-> "reoffer", of |-> lease]

Enqueue(c, op) == peerOps' = [peerOps EXCEPT ![c] = Append(@, op)]

HostInit ==
    /\ leases = {}
    /\ sessions = [c \in Clients |-> NoSession]
    /\ work = [c \in Clients |-> Idle]
    /\ peerOps = [c \in Clients |-> <<>>]
    /\ quarantineWaits = [lease \in {} |-> {}]
    /\ recycleRequired = {}
    /\ hostClosing = {}
    /\ incarnation = [s \in Sessions |-> 0]
    /\ born = [c \in Clients |-> 0]
    /\ asked = 0

\* No operation is about to start.
QueuesSettled == \A c \in Clients : work[c] = Idle => peerOps[c] = <<>>

\* The budget takes a lease back, and a host admits anybody again once none of
\* its leases is left in quarantine.
Release_Forgotten(lease) == UNCHANGED leases
Release(lease) == leases' = leases \ {lease}
RecycleUnless(host, kept) == IF kept = {} THEN recycleRequired \ {host} ELSE recycleRequired

(***************************************************************************)
(* Operations at the head of a queue.                                      *)
(***************************************************************************)
AdmittedInRecycle(c) ==
    Host(Room[c]) \in recycleRequired =>
        \E lease \in QuarantinedOf(Host(Room[c])) : lease.peer = c
HasRoom == scope.max_sessions = 0 \/ Cardinality(leases) < scope.max_sessions
Admitted(c) == Room[c] \notin hostClosing /\ AdmittedInRecycle(c) /\ HasRoom

\* connectClientInner up to its first await; rest is the queue behind it.
ConnectClient(c, rest) ==
    /\ peerOps' = [peerOps EXCEPT ![c] = rest]
    /\ \/ /\ Admitted(c)
          /\ LET lease == [peer |-> c, host |-> incarnation[Room[c]], no |-> born[c] + 1]
             IN  /\ leases' = leases \cup {lease}
                 /\ work' = [work EXCEPT ![c] = [Idle EXCEPT !.step = "build", !.lease = lease]]
          /\ born' = [born EXCEPT ![c] = @ + 1]
       \/ ~Admitted(c) /\ UNCHANGED <<leases, work, born>>
    /\ UNCHANGED <<sessions, quarantineWaits, recycleRequired, hostClosing, incarnation, asked>>

\* closeClientTeardown up to the closing of the connection and of the agent.
CloseSession(c, rest) ==
    /\ Live(c)
    /\ sessions' = [sessions EXCEPT ![c] = NoSession]
    /\ work' = [work EXCEPT ![c] = [step |-> "closing", lease |-> sessions[c].lease,
                                    ready |-> sessions[c].ready]]
    /\ peerOps' = [peerOps EXCEPT ![c] = rest]
    /\ UNCHANGED <<leases, quarantineWaits, recycleRequired, hostClosing, incarnation, born, asked>>

Skip(c) ==
    /\ peerOps' = [peerOps EXCEPT ![c] = Tail(@)]
    /\ UNCHANGED <<leases, sessions, work, quarantineWaits, recycleRequired, hostClosing,
                   incarnation, born, asked>>

Starts(c, op) == work[c] = Idle /\ peerOps[c] # <<>> /\ Head(peerOps[c]).op = op

\* peer-joined: a stale session of the same client is closed first.
RunJoin(c) ==
    /\ Starts(c, "join")
    /\ \/ Room[c] \in hostClosing /\ Skip(c)
       \/ Room[c] \notin hostClosing /\ CloseSession(c, <<Connect>> \o Tail(peerOps[c]))
       \/ Room[c] \notin hostClosing /\ ~Live(c) /\ ConnectClient(c, Tail(peerOps[c]))

RunConnect(c) ==
    /\ Starts(c, "connect")
    /\ ConnectClient(c, Tail(peerOps[c]))

\* A close that names a session is void once that session was replaced.
MayClose_Any(c, op) == Live(c)
MayClose(c, op) == Live(c) /\ (op.of = NoLease \/ op.of = sessions[c].lease)
RunClose(c) ==
    /\ Starts(c, "close")
    /\ \/ MayClose(c, Head(peerOps[c])) /\ CloseSession(c, Tail(peerOps[c]))
       \/ ~MayClose(c, Head(peerOps[c])) /\ Skip(c)

\* A re-offer replaces the session whose transport was lost.
RunReoffer(c) ==
    /\ Starts(c, "reoffer")
    /\ LET mine == Room[c] \notin hostClosing /\ sessions[c].lease = Head(peerOps[c]).of
       IN  IF mine THEN CloseSession(c, <<Connect>> \o Tail(peerOps[c])) ELSE Skip(c)

RunOp(c) == RunJoin(c) \/ RunConnect(c) \/ RunClose(c) \/ RunReoffer(c)

(***************************************************************************)
(* The awaits of an operation.                                             *)
(***************************************************************************)
AtWork(c) == UNCHANGED <<peerOps, hostClosing, incarnation, born, asked>>

\* connectClientBuildSession: the tracks were added, the session is registered.
Register(c) ==
    /\ work[c].step = "build"
    /\ sessions' = [sessions EXCEPT ![c] = ClientSession(work[c].lease)]
    /\ work' = [work EXCEPT ![c].step = "offer"]
    /\ UNCHANGED <<leases, quarantineWaits, recycleRequired>>
    /\ AtWork(c)

\* ... or adding them failed: teardownPartialConnect closes what there is.
BuildFails(c) ==
    /\ work[c].step = "build"
    /\ work' = [work EXCEPT ![c].step = "partial"]
    /\ UNCHANGED <<leases, sessions, quarantineWaits, recycleRequired>>
    /\ AtWork(c)

\* ... and the lease is released whatever the outcome.
PartialClosed(c) ==
    /\ work[c].step = "partial"
    /\ Release(work[c].lease)
    /\ work' = [work EXCEPT ![c] = Idle]
    /\ UNCHANGED <<sessions, quarantineWaits, recycleRequired>>
    /\ AtWork(c)

OfferSent(c) ==
    /\ work[c].step = "offer"
    /\ work' = [work EXCEPT ![c] = Idle]
    /\ UNCHANGED <<leases, sessions, quarantineWaits, recycleRequired>>
    /\ AtWork(c)

\* The data channels or the offer failed: the registered session is closed.
OfferFails(c) ==
    /\ work[c].step = "offer"
    /\ CloseSession(c, peerOps[c])

\* finalizeTeardownCapacity: what each of the two closes came to within its bound.
Outcomes == {"ok", "failed", "pending"}
BothOk(wait) == wait.pc = "ok" /\ wait.agent = "ok"

SoftReleases(ready, wait) == BothOk(wait) \/ ~ready
CloseEnds(c, pc, agent) ==
    /\ ClosingPeer(c)
    /\ LET lease == work[c].lease
           wait == [pc |-> pc, agent |-> agent]
       IN    \/ /\ SoftReleases(work[c].ready, wait)
                /\ Release(lease)
                /\ recycleRequired' = IF BothOk(wait)
                                      THEN RecycleUnless(HostOf(lease), QuarantinedOf(HostOf(lease)))
                                      ELSE recycleRequired
                /\ UNCHANGED quarantineWaits
             \/ /\ ~SoftReleases(work[c].ready, wait)
                /\ quarantineWaits' = [l \in Quarantined \cup {lease} |->
                                         IF l = lease THEN wait ELSE quarantineWaits[l]]
                /\ recycleRequired' = recycleRequired \cup {HostOf(lease)}
                /\ UNCHANGED leases
    /\ work' = [work EXCEPT ![c] = Idle]
    /\ UNCHANGED sessions
    /\ AtWork(c)

\* onLateTeardownComponent: a close that was still pending is over.
LateAnswer(lease, side) ==
    /\ quarantineWaits[lease][side] = "pending"
    /\ \E result \in {"ok", "failed"} :
         LET wait == [quarantineWaits[lease] EXCEPT ![side] = result]
         IN  \/ /\ ~BothOk(wait)
                /\ quarantineWaits' = [quarantineWaits EXCEPT ![lease] = wait]
                /\ UNCHANGED <<leases, recycleRequired>>
             \/ /\ BothOk(wait)
                /\ quarantineWaits' = [l \in Quarantined \ {lease} |-> quarantineWaits[l]]
                /\ Release(lease)
                /\ recycleRequired' = RecycleUnless(HostOf(lease), QuarantinedOf(HostOf(lease)) \ {lease})
    /\ UNCHANGED <<sessions, work, peerOps, hostClosing, incarnation, born, asked>>

=============================================================================
