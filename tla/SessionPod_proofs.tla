-------------------------- MODULE SessionPod_proofs --------------------------
(***************************************************************************)
(* The session pod for any number of sessions and clients and any limits:  *)
(* types, the lease budget, the slots and the events of closing            *)
(* connections.                                                            *)
(*                                                                         *)
(* What carries the proof: outside quarantine a client holds at most one   *)
(* lease, through its connect, its registered session or its close         *)
(* (ClientInv); a client whose session has no slot, or whose host has      *)
(* closed, has nothing and asks for nothing (SlotInv); and a session is    *)
(* made again only when no lease of it is left in quarantine, so all its   *)
(* leases in quarantine belong to one host (QuarantineInv).                *)
(***************************************************************************)
EXTENDS SessionPod, FiniteSetTheorems, SequenceTheorems, TLAPS

Ops == [op : {"join", "connect", "close", "reoffer"}, of : LeaseOrNone]

\* The lease a client holds outside quarantine.
HeldBy(c) == IF Live(c) THEN sessions[c].lease ELSE work[c].lease
Held == {HeldBy(c) : c \in {d \in Clients : Active(d)}}

ClientInv ==
    \A c \in Clients :
        /\ work[c].step = "idle" => work[c] = Idle
        /\ work[c].step = "offer" => Live(c) /\ work[c].lease = sessions[c].lease
        /\ Live(c) => work[c].step \in {"idle", "offer"}
        /\ Active(c) => /\ HeldBy(c) \in Leases /\ HeldBy(c).peer = c
                        /\ HeldBy(c).host = incarnation[Room[c]]
                        /\ HeldBy(c).no <= born[c]
                        /\ HeldBy(c) \notin Quarantined

\* A connect waits at the head, for the close it follows.
QueueInv ==
    \A c \in Clients : \A i \in 1 .. Len(peerOps[c]) :
        /\ peerOps[c][i].op = "connect" =>
             i = 1 /\ ~Live(c) /\ work[c].step \in {"idle", "closing"}
        /\ peerOps[c][i].op = "reoffer" => peerOps[c][i].of \in Leases

LeaseInv ==
    /\ leases = Held \cup Quarantined
    /\ \A lease \in Quarantined : lease.no <= born[lease.peer]
    /\ IsFiniteSet(leases)
    /\ scope.max_sessions # 0 => Cardinality(leases) <= scope.max_sessions

SlotInv ==
    \A s \in Sessions :
        /\ flight[s] # "none" => s \in slots /\ s \in hostClosing
        /\ s \in online => s \in slots /\ flight[s] # "hook"
        /\ preparing[s] = "connecting" => s \notin slots
        /\ flight[s] = "closes" =>
             \A c \in Peers(s) :
                 /\ ~ConnectingPeer(c)
                 /\ Live(c) => \E i \in 1 .. Len(peerOps[c]) : peerOps[c][i] = Close

QuarantineInv ==
    \A lease \in Quarantined :
        LET s == Room[lease.peer]
        IN  /\ preparing[s] # "connecting"
            /\ lease.host = IF s \in slots THEN incarnation[s] ELSE retired[s]

TimerInv ==
    \A c \in Clients : timer[Room[c]] # "off" =>
        /\ ~Active(c)
        /\ \A i \in 1 .. Len(peerOps[c]) : peerOps[c][i].op \notin {"join", "connect"}

NeverInv ==
    \A s \in slots :
        \/ reason[s] = "never_connected"
        \/ timer[s] = "never_connected"
        \/ flight[s] # "none" /\ ending[s] = "never_connected"
        => s \notin joined

Reserved == slots \cup {s \in Sessions : preparing[s] # "none"}
CapacityInv ==
    /\ IsFiniteSet(Reserved)
    /\ scope.max_prepared # 0 => Cardinality(Reserved) <= scope.max_prepared

\* A queued close was asked for by an event of its connection, or by its host, or
\* by the client's leaving, behind which a new join may have been queued.
CloseInv ==
    \A c \in Clients : \A i \in 1 .. Len(peerOps[c]) : peerOps[c][i].op = "close" =>
        \/ peerOps[c][i].of \in owed
        \/ /\ peerOps[c][i].of = NoLease
           /\ \/ Room[c] \in hostClosing
              \/ c \notin present \cap announced
              \/ \E j \in i + 1 .. Len(peerOps[c]) : peerOps[c][j].op = "join"

PodInv ==
    /\ TypeOK /\ ClientInv /\ QueueInv /\ LeaseInv /\ RecycleMatchesQuarantine
    /\ SlotInv /\ TornDownIsEmpty /\ QuarantineInv
    /\ TimerInv /\ NeverInv /\ CapacityInv /\ CloseInv

-----------------------------------------------------------------------------
(* Values and queues. *)

\* What is no lease differs from every lease.
LEMMA NoLeaseIsNone == NoLease \notin Leases
<1>1. DOMAIN NoLease = {"peer"}
  BY DEF NoLease
<1>2. \A lease \in Leases : "host" \in DOMAIN lease
  BY DEF Leases
<1>. QED  BY <1>1, <1>2

LiveRecords == [lease : Leases, pc : {"new", "up", "down"}, ready : BOOLEAN, hung : BOOLEAN,
                left : BOOLEAN, grace : BOOLEAN]

\* A registered session is known by its lease.
LEMMA LiveMeans ==
  ASSUME TypeOK
  PROVE  \A c \in Clients : /\ Live(c) <=> sessions[c] \in LiveRecords
                            /\ Live(c) <=> sessions[c].lease \in Leases
                            /\ ~Live(c) <=> sessions[c].lease = NoLease
                            /\ ~Live(c) <=> sessions[c] = NoSession
<1>1. NoSession.lease = NoLease
  BY DEF NoSession
<1>2. \A c \in Clients : sessions[c] \in {NoSession} \cup LiveRecords
  BY DEF TypeOK, LiveRecords
<1>3. \A r \in LiveRecords : r.lease \in Leases
  BY DEF LiveRecords
<1>. QED  BY <1>1, <1>2, <1>3, NoLeaseIsNone DEF Live

\* The three ways a queue changes.
LEMMA AppendOp ==
  ASSUME NEW q \in Seq(Ops), NEW o \in Ops
  PROVE  /\ Append(q, o) \in Seq(Ops) /\ Len(Append(q, o)) = Len(q) + 1 /\ Len(q) \in Nat
         /\ \A i \in 1 .. Len(q) : i \in 1 .. Len(Append(q, o)) /\ Append(q, o)[i] = q[i]
         /\ Append(q, o)[Len(q) + 1] = o /\ Append(q, o) # <<>>
  BY AppendProperties, LenProperties

LEMMA TailOp ==
  ASSUME NEW q \in Seq(Ops), q # <<>>
  PROVE  /\ Head(q) \in Ops /\ Head(q) = q[1] /\ Tail(q) \in Seq(Ops)
         /\ Len(q) \in Nat \ {0} /\ Len(Tail(q)) = Len(q) - 1
         /\ \A i \in 1 .. Len(Tail(q)) : i + 1 \in 1 .. Len(q) /\ Tail(q)[i] = q[i + 1]
<1>1. Len(q) \in Nat \ {0}
  BY EmptySeq
<1>2. Head(q) = q[1]
  OBVIOUS
<1>. QED  BY <1>1, <1>2, HeadTailProperties

LEMMA ConnectOp ==
  ASSUME NEW q \in Seq(Ops), q # <<>>
  PROVE  /\ <<Connect>> \o Tail(q) \in Seq(Ops) /\ Len(<<Connect>> \o Tail(q)) = Len(q)
         /\ (<<Connect>> \o Tail(q))[1] = Connect
         /\ \A i \in 2 .. Len(q) : (<<Connect>> \o Tail(q))[i] = q[i]
<1>1. Connect \in Ops /\ <<Connect>> \in Seq(Ops) /\ Len(<<Connect>>) = 1
  BY DEF Connect, Ops, LeaseOrNone
<1>2. Tail(q) \in Seq(Ops) /\ Len(q) \in Nat \ {0} /\ Len(Tail(q)) = Len(q) - 1
  BY TailOp
<1>. DEFINE w == <<Connect>> \o Tail(q)
<1>3. /\ w \in Seq(Ops) /\ Len(w) = 1 + Len(Tail(q))
      /\ \A i \in 1 .. 1 + Len(Tail(q)) : w[i] = IF i <= 1 THEN <<Connect>>[i] ELSE Tail(q)[i - 1]
  <2>. HIDE DEF w
  <2>. QED  BY <1>1, <1>2, ConcatProperties DEF w
<1>4. \A i \in 2 .. Len(q) : Tail(q)[i - 1] = q[i]
  BY <1>2, TailOp
<1>. HIDE DEF w
<1>5. w[1] = Connect /\ \A i \in 2 .. Len(q) : w[i] = q[i]
  BY <1>2, <1>3, <1>4
<1>. QED  BY <1>2, <1>3, <1>5 DEF w

\* The operations have their types.
LEMMA OpsTyped ==
    /\ Join \in Ops /\ Connect \in Ops /\ Close \in Ops
    /\ \A lease \in Leases : CloseIf(lease) \in Ops /\ Reoffer(lease) \in Ops
  BY DEF Join, Connect, Close, CloseIf, Reoffer, Ops, LeaseOrNone

-----------------------------------------------------------------------------
(* Types. *)

LEMMA TypeInit == Init => TypeOK
<1>. SUFFICES ASSUME Init PROVE TypeOK
  OBVIOUS
<1>1. <<>> \in Seq(Ops)
  BY EmptySeq
<1>2. Idle \in [step : {"idle", "build", "offer", "partial", "closing"},
               lease : LeaseOrNone, ready : BOOLEAN]
  BY DEF Idle, LeaseOrNone
<1>3. Quarantined = {} /\ quarantineWaits \in [Quarantined -> [pc : Outcomes, agent : Outcomes]]
  BY DEF Init, HostInit, Quarantined
<1>4. 0 \in Nat /\ scope \in Limits
  BY HostAssumption DEF Init
<1>. QED  BY <1>1, <1>2, <1>3, <1>4 DEF Init, HostInit, TypeOK, Ops, NoSession

Works == [step : {"idle", "build", "offer", "partial", "closing"}, lease : LeaseOrNone, ready : BOOLEAN]

\* An operation at the head of a queue is void, or closes the session, or connects.
LEMMA RunMeans ==
  ASSUME NEW c \in Clients, RunOp(c)
  PROVE  /\ work[c] = Idle /\ peerOps[c] # <<>>
         /\ \/ Skip(c) /\ (Head(peerOps[c]) = Close => ~Live(c))
            \/ /\ Head(peerOps[c]).op = "close" /\ MayClose(c, Head(peerOps[c]))
               /\ CloseSession(c, Tail(peerOps[c]))
            \/ CloseSession(c, <<Connect>> \o Tail(peerOps[c]))
            \/ /\ Head(peerOps[c]).op \in {"join", "connect"}
               /\ Head(peerOps[c]).op = "join" => ~Live(c)
               /\ ConnectClient(c, Tail(peerOps[c]))
  BY DEF RunOp, RunJoin, RunConnect, RunClose, RunReoffer, Starts, MayClose, Close

\* What a client's turn or an await of its host may be.
HostMove(c) ==
    \/ /\ work[c] = Idle /\ peerOps[c] # <<>>
       /\ \/ Skip(c) /\ (Head(peerOps[c]) = Close => ~Live(c))
          \/ CloseSession(c, Tail(peerOps[c]))
          \/ CloseSession(c, <<Connect>> \o Tail(peerOps[c]))
          \/ /\ ~Live(c) /\ Head(peerOps[c]).op \in {"join", "connect"}
             /\ ConnectClient(c, Tail(peerOps[c]))
    \/ Register(c) \/ BuildFails(c) \/ PartialClosed(c) \/ OfferSent(c) \/ OfferFails(c)
    \/ \E pc, agent \in Outcomes : CloseEnds(c, pc, agent)

LEMMA StepIsMove ==
  ASSUME TypeOK, QueueInv, NEW c \in Clients, RunOp(c) \/ HostAwait(c)
  PROVE  HostMove(c)
<1>1. CASE RunOp(c)
  <2>1. peerOps[c] # <<>> => 1 \in 1 .. Len(peerOps[c]) /\ Head(peerOps[c]) = peerOps[c][1]
    BY TailOp DEF TypeOK, Ops
  <2>2. peerOps[c] # <<>> /\ Head(peerOps[c]).op = "connect" => ~Live(c)
    BY <2>1 DEF QueueInv
  <2>. QED  BY <1>1, <2>2, RunMeans DEF HostMove
<1>2. CASE HostAwait(c)
  BY <1>2 DEF HostMove, HostAwait, Build, Offer, EndClose
<1>. QED  BY <1>1, <1>2

\* A client is active exactly while it holds a lease.
LEMMA ActiveMeans ==
  ASSUME TypeOK, ClientInv
  PROVE  \A c \in Clients :
           /\ Active(c) <=> Live(c) \/ work[c].step # "idle"
           /\ work[c].step \in {"idle", "build", "offer", "partial", "closing"}
           /\ work[c].step # "idle" => work[c].lease = HeldBy(c) /\ work[c].lease \in Leases
<1>. SUFFICES ASSUME NEW c \in Clients
     PROVE  /\ Active(c) <=> Live(c) \/ work[c].step # "idle"
            /\ work[c].step \in {"idle", "build", "offer", "partial", "closing"}
            /\ work[c].step # "idle" => work[c].lease = HeldBy(c) /\ work[c].lease \in Leases
  OBVIOUS
<1>1. work[c].step \in {"idle", "build", "offer", "partial", "closing"}
  BY DEF TypeOK
<1>2. Active(c) <=> Live(c) \/ work[c].step # "idle"
  BY <1>1 DEF Active, ClosingPeer, ConnectingPeer
<1>3. work[c].step # "idle" => work[c].lease = HeldBy(c)
  BY DEF ClientInv, HeldBy
<1>4. Active(c) => HeldBy(c) \in Leases
  BY DEF ClientInv
<1>. QED  BY <1>1, <1>2, <1>3, <1>4

\* What a host does keeps the types of what it does it to.
LEMMA TypeHost ==
  ASSUME TypeOK, ClientInv, NEW c \in Clients, HostMove(c), scope' = scope
  PROVE  /\ leases' \subseteq Leases
         /\ sessions' \in [Clients -> {NoSession} \cup LiveRecords]
         /\ work' \in [Clients -> Works] /\ peerOps' \in [Clients -> Seq(Ops)]
         /\ Quarantined' \subseteq Leases
         /\ quarantineWaits' \in [Quarantined' -> [pc : Outcomes, agent : Outcomes]]
         /\ hostClosing' = hostClosing /\ incarnation' = incarnation
         /\ born' \in [Clients -> Nat] /\ asked' = asked
<1>0. /\ leases \subseteq Leases /\ sessions \in [Clients -> {NoSession} \cup LiveRecords]
      /\ peerOps[c] \in Seq(Ops) /\ peerOps \in [Clients -> Seq(Ops)]
      /\ work \in [Clients -> Works] /\ Room[c] \in Sessions /\ incarnation \in [Sessions -> Nat]
      /\ Quarantined \subseteq Leases /\ born \in [Clients -> Nat]
      /\ quarantineWaits \in [Quarantined -> [pc : Outcomes, agent : Outcomes]]
  BY HostAssumption DEF TypeOK, Ops, LiveRecords, Works
<1>1. work[c].step # "idle" => work[c].lease \in Leases
  BY ActiveMeans
<1>2. Idle \in Works
  BY DEF Idle, Works, LeaseOrNone
<1>3. CASE Skip(c) /\ peerOps[c] # <<>>
  <2>1. Tail(peerOps[c]) \in Seq(Ops)
    BY <1>0, <1>3, TailOp
  <2>. QED  BY <1>0, <1>3, <2>1 DEF Skip, Quarantined
<1>4. ASSUME NEW q \in Seq(Ops), CloseSession(c, q)
      PROVE  /\ sessions' \in [Clients -> {NoSession} \cup LiveRecords]
             /\ work' \in [Clients -> Works] /\ peerOps' \in [Clients -> Seq(Ops)]
             /\ UNCHANGED <<leases, quarantineWaits, hostClosing, incarnation, born, asked>>
  <2>1. sessions[c] \in LiveRecords
    BY <1>0, <1>4 DEF CloseSession, Live
  <2>2. [step |-> "closing", lease |-> sessions[c].lease, ready |-> sessions[c].ready] \in Works
    BY <2>1 DEF LiveRecords, Works, LeaseOrNone
  <2>. QED  BY <1>0, <1>4, <2>2 DEF CloseSession
<1>5. CASE /\ peerOps[c] # <<>>
           /\ \/ CloseSession(c, Tail(peerOps[c]))
              \/ CloseSession(c, <<Connect>> \o Tail(peerOps[c]))
  <2>1. Tail(peerOps[c]) \in Seq(Ops) /\ <<Connect>> \o Tail(peerOps[c]) \in Seq(Ops)
    BY <1>0, <1>5, TailOp, ConnectOp
  <2>. QED  BY <1>0, <1>4, <1>5, <2>1 DEF Quarantined
<1>6. CASE OfferFails(c)
  BY <1>0, <1>4, <1>6 DEF OfferFails, Quarantined
<1>7. CASE ConnectClient(c, Tail(peerOps[c])) /\ peerOps[c] # <<>>
  <2>1. Tail(peerOps[c]) \in Seq(Ops)
    BY <1>0, <1>7, TailOp
  <2>. DEFINE lease == [peer |-> c, host |-> incarnation[Room[c]], no |-> born[c] + 1]
              w == [Idle EXCEPT !.step = "build", !.lease = lease]
  <2>2. lease \in Leases
    BY <1>0 DEF Leases
  <2>3. w \in Works
    BY <2>2 DEF Works, Idle, LeaseOrNone
  <2>4. \/ leases' = leases \cup {lease} /\ work' = [work EXCEPT ![c] = w] /\ born' = [born EXCEPT ![c] = @ + 1]
        \/ UNCHANGED <<leases, work, born>>
    BY <1>7 DEF ConnectClient
  <2>5. /\ UNCHANGED <<sessions, quarantineWaits, hostClosing, incarnation, asked>>
        /\ peerOps' = [peerOps EXCEPT ![c] = Tail(peerOps[c])]
    BY <1>7 DEF ConnectClient
  <2>6. born' \in [Clients -> Nat]
    BY <1>0, <1>7 DEF ConnectClient
  <2>7. work' \in [Clients -> Works] /\ leases' \subseteq Leases
    <3>. HIDE DEF lease, w
    <3>. QED  BY <1>0, <2>2, <2>3, <2>4
  <2>. QED  BY <1>0, <2>1, <2>5, <2>6, <2>7 DEF Quarantined
<1>8. CASE Register(c)
  <2>1. ClientSession(work[c].lease) \in LiveRecords
    BY <1>1, <1>8 DEF ClientSession, LiveRecords, Register
  <2>. QED  BY <1>0, <1>8, <2>1 DEF Register, AtWork, Works, Quarantined
<1>9. CASE BuildFails(c) \/ PartialClosed(c) \/ OfferSent(c)
  <2>1. /\ leases' \subseteq leases
        /\ UNCHANGED <<sessions, quarantineWaits, peerOps, hostClosing, incarnation, born, asked>>
    BY <1>9 DEF BuildFails, PartialClosed, OfferSent, AtWork, Release
  <2>2. /\ [work[c] EXCEPT !.step = "partial"] \in Works
    BY <1>0 DEF Works
  <2>3. \/ work' = [work EXCEPT ![c] = Idle]
        \/ work' = [work EXCEPT ![c] = [work[c] EXCEPT !.step = "partial"]]
    BY <1>0, <1>9 DEF BuildFails, PartialClosed, OfferSent
  <2>. QED  BY <1>0, <1>2, <2>1, <2>2, <2>3 DEF Quarantined
<1>10. ASSUME NEW pc \in Outcomes, NEW agent \in Outcomes, CloseEnds(c, pc, agent)
       PROVE  /\ leases' \subseteq Leases /\ sessions' = sessions /\ work' \in [Clients -> Works]
              /\ Quarantined' \subseteq Leases
              /\ quarantineWaits' \in [Quarantined' -> [pc : Outcomes, agent : Outcomes]]
              /\ UNCHANGED <<peerOps, hostClosing, incarnation, born, asked>>
  <2>1. work[c].lease \in Leases
    BY <1>1, <1>10 DEF CloseEnds, ClosingPeer
  <2>2. \/ UNCHANGED quarantineWaits
        \/ quarantineWaits' = [l \in Quarantined \cup {work[c].lease} |->
                                 IF l = work[c].lease THEN [pc |-> pc, agent |-> agent] ELSE quarantineWaits[l]]
    BY <1>10 DEF CloseEnds
  <2>3. /\ leases' \subseteq leases /\ work' = [work EXCEPT ![c] = Idle] /\ sessions' = sessions
        /\ UNCHANGED <<peerOps, hostClosing, incarnation, born, asked>>
    BY <1>10 DEF CloseEnds, AtWork, Release
  <2>. QED  BY <1>0, <1>2, <2>1, <2>2, <2>3 DEF Quarantined
<1>. QED  BY <1>0, <1>3, <1>5, <1>6, <1>7, <1>8, <1>9, <1>10 DEF HostMove

\* A client's events change what its session knows of its transport, and its queue.
ClientEvent(c) ==
    \/ Arrive(c) \/ Leave(c) \/ PeerJoined(c) \/ PeerLeft(c)
    \/ TransportUp(c) \/ TransportDown(c) \/ GraceEnds(c) \/ ReofferDue(c)
    \/ Hangup(c) \/ ConnectDies(c) \/ LateEvent(c)

LEMMA NextMeans ==
  ASSUME Next
  PROVE  \/ \E c \in Clients : HostStep(RunOp(c)) \/ HostStep(HostAwait(c)) \/ ClientEvent(c)
         \/ \E s \in Sessions : SessionStep(s)
         \/ \E lease \in Quarantined, side \in {"pc", "agent"} :
                HostStep(Settled /\ LateAnswer(lease, side))
  BY DEF Next, PeerStep, ClientEvent, Answer, HostStep

\* The operations an event asks for.
Asked(c) ==
    {Join, Close} \cup
    (IF Live(c) THEN {CloseIf(sessions[c].lease), Reoffer(sessions[c].lease)} ELSE {}) \cup
    (IF ClosingPeer(c) THEN {CloseIf(work[c].lease)} ELSE {})

LEMMA EventMeans ==
  ASSUME TypeOK, ClientInv, NEW c \in Clients, ClientEvent(c)
  PROVE  /\ UNCHANGED <<leases, work, quarantineWaits, recycleRequired, hostClosing, incarnation, born,
                        slots, preparing, polls, flight, ending, retired, online>>
         /\ sessions' \in [Clients -> {NoSession} \cup LiveRecords]
         /\ \A d \in Clients : Live(d)' <=> Live(d)
         /\ \A d \in Clients : sessions'[d].lease = sessions[d].lease
         /\ UNCHANGED peerOps \/ \E o \in Asked(c) : Enqueue(c, o)
         /\ Asked(c) \subseteq Ops
<1>0. /\ sessions \in [Clients -> {NoSession} \cup LiveRecords]
      /\ \A d \in Clients : Live(d) => sessions[d] \in LiveRecords /\ sessions[d].lease \in Leases
      /\ ClosingPeer(c) => work[c].lease \in Leases
  BY LiveMeans, ActiveMeans DEF TypeOK, LiveRecords, ClosingPeer
<1>1. /\ UNCHANGED <<leases, work, quarantineWaits, recycleRequired, hostClosing, incarnation, born,
                     slots, preparing, polls, flight, ending, retired, online>>
      /\ UNCHANGED peerOps \/ \E o \in Asked(c) : Enqueue(c, o)
  BY DEF ClientEvent, Arrive, Leave, PeerJoined, PeerLeft, TransportUp, TransportDown, GraceEnds,
         ReofferDue, Hangup, ConnectDies, LateEvent, ChangesSession, Outside, hostVars, Asked
<1>2. \/ UNCHANGED sessions
      \/ Live(c) /\ \E r \in LiveRecords : r.lease = sessions[c].lease /\ sessions' = [sessions EXCEPT ![c] = r]
  <2>. DEFINE Marked(r) == r \in LiveRecords /\ r.lease = sessions[c].lease /\ sessions' = [sessions EXCEPT ![c] = r]
  <2>1. CASE Live(c)
    <3>0. sessions[c] \in LiveRecords
      BY <1>0, <2>1
    <3>1. CASE PeerLeft(c)
      <4>1. sessions' = [sessions EXCEPT ![c] = [@ EXCEPT !.left = TRUE,
                            !.grace = sessions[c].grace \/ (sessions[c].pc # "up" /\ ~sessions[c].hung)]]
        BY <1>0, <2>1, <3>1 DEF PeerLeft
      <4>. QED  BY <1>0, <2>1, <3>0, <4>1 DEF LiveRecords
    <3>2. CASE TransportUp(c)
      <4>1. Marked([sessions[c] EXCEPT !.pc = "up", !.ready = TRUE, !.grace = FALSE])
        BY <1>0, <3>0, <3>2 DEF TransportUp, LiveRecords
      <4>. QED  BY <2>1, <4>1
    <3>3. CASE TransportDown(c)
      <4>1. Marked([sessions[c] EXCEPT !.pc = "down", !.grace = TRUE])
        BY <1>0, <3>0, <3>3 DEF TransportDown, LiveRecords
      <4>. QED  BY <2>1, <4>1
    <3>4. CASE GraceEnds(c)
      <4>1. Marked([sessions[c] EXCEPT !.grace = FALSE])
        BY <1>0, <3>0, <3>4 DEF GraceEnds, LiveRecords
      <4>. QED  BY <2>1, <4>1
    <3>5. CASE Hangup(c)
      <4>1. Marked([sessions[c] EXCEPT !.hung = TRUE])
        BY <1>0, <3>0, <3>5 DEF Hangup, LiveRecords
      <4>. QED  BY <2>1, <4>1
    <3>6. CASE \/ Arrive(c) \/ Leave(c) \/ PeerJoined(c) \/ ReofferDue(c) \/ ConnectDies(c) \/ LateEvent(c)
      BY <3>6 DEF Arrive, Leave, PeerJoined, ReofferDue, ConnectDies, LateEvent, hostVars
    <3>. QED  BY <3>1, <3>2, <3>3, <3>4, <3>5, <3>6 DEF ClientEvent
  <2>2. CASE ~Live(c)
    BY <2>2 DEF ClientEvent, Arrive, Leave, PeerJoined, PeerLeft, TransportUp, TransportDown, GraceEnds,
         ReofferDue, Hangup, ConnectDies, LateEvent, hostVars
  <2>. QED  BY <2>1, <2>2
<1>3. /\ sessions' \in [Clients -> {NoSession} \cup LiveRecords]
      /\ \A d \in Clients : Live(d)' <=> Live(d)
      /\ \A d \in Clients : sessions'[d].lease = sessions[d].lease
  <2>1. CASE UNCHANGED sessions
    BY <1>0, <2>1 DEF Live
  <2>2. ASSUME NEW r \in LiveRecords, r.lease = sessions[c].lease,
               sessions' = [sessions EXCEPT ![c] = r], Live(c)
        PROVE  <1>3!:
    <3>1. r # NoSession
      BY <1>0, <2>2, NoLeaseIsNone DEF NoSession
    <3>. QED  BY <1>0, <2>2, <3>1 DEF Live
  <2>. QED  BY <1>2, <2>1, <2>2
<1>4. Asked(c) \subseteq Ops
  BY <1>0, OpsTyped DEF Asked
<1>. QED  BY <1>1, <1>3, <1>4

\* What happens to a slot leaves the leases, the sessions and their work alone.
LEMMA SessionMeans ==
  ASSUME NEW s \in Sessions, SessionStep(s)
  PROVE  /\ UNCHANGED <<leases, sessions, work, quarantineWaits, recycleRequired, born, asked, present, owed>>
         /\ UNCHANGED peerOps \/ ConnectsOver(s)
         /\ UNCHANGED incarnation \/ Commit(s)
         /\ UNCHANGED joined \/ Commit(s)
         /\ UNCHANGED retired \/ Destroyed(s)
         /\ UNCHANGED preparing \/ Prepare(s) \/ PrepareFails(s) \/ Commit(s) \/ Created(s)
         /\ announced' \subseteq announced
  BY DEF SessionStep, Prepare, PrepareFails, Commit, Created, EndSession, ConnectsOver, ClosesOver,
         Destroyed, DestroyedFails, Poll, PollGivesUp, TimerFires, AgentReconnects, Teardown,
         StartTeardown, JoinTeardown, ScheduleIdle, Forgotten, hostVars

SlotTypes ==
    /\ scope \in Limits /\ hostClosing \subseteq Sessions /\ slots \subseteq Sessions /\ online \subseteq Sessions
    /\ incarnation \in [Sessions -> Nat] /\ retired \in [Sessions -> Nat]
    /\ preparing \in [Sessions -> {"none", "connecting", "created"}]
    /\ polls \in [Sessions -> SUBSET {"none", "grace"}]
    /\ timer \in [Sessions -> {"off", "never_connected", "idle"}]
    /\ reason \in [Sessions -> {"none", "never_connected", "ended"}]
    /\ ending \in [Sessions -> {"none", "never_connected", "ended"}]
    /\ flight \in [Sessions -> {"none", "connects", "closes", "hook"}]
    /\ joined \subseteq Sessions

\* A slot's steps keep its types.
LEMMA TypeSession ==
  ASSUME SlotTypes, NEW s \in Sessions, SessionStep(s)
  PROVE  SlotTypes'
<1>. USE DEF SlotTypes
<1>1. CASE Prepare(s) \/ PrepareFails(s) \/ Created(s)
  BY <1>1 DEF Prepare, PrepareFails, Created, hostVars
<1>2. CASE Commit(s)
  <2>1. /\ incarnation' \in [Sessions -> Nat] /\ reason' \in [Sessions -> {"none", "never_connected", "ended"}]
        /\ preparing' \in [Sessions -> {"none", "connecting", "created"}]
    BY <1>2 DEF Commit
  <2>2. timer' \in [Sessions -> {"off", "never_connected", "idle"}]
    BY <1>2 DEF Commit
  <2>. QED  BY <1>2, <2>1, <2>2 DEF Commit
<1>3. \A why \in {"none", "never_connected", "ended"} : StartTeardown(s, why) =>
        /\ hostClosing' \subseteq Sessions
        /\ timer' \in [Sessions -> {"off", "never_connected", "idle"}]
        /\ reason' \in [Sessions -> {"none", "never_connected", "ended"}]
        /\ ending' \in [Sessions -> {"none", "never_connected", "ended"}]
        /\ flight' \in [Sessions -> {"none", "connects", "closes", "hook"}]
        /\ UNCHANGED <<slots, online, incarnation, retired, preparing, joined>>
  BY DEF StartTeardown
<1>4. \A why \in {"none", "never_connected", "ended"} : JoinTeardown(s, why) =>
        /\ reason' \in [Sessions -> {"none", "never_connected", "ended"}]
        /\ UNCHANGED <<hostClosing, slots, online, incarnation, retired, preparing, joined, ending, flight>>
  BY DEF JoinTeardown, hostVars
<1>5. CASE EndSession(s)
  <2>1. scope' \in Limits
    <3>1. scope.forced > 0 /\ scope' = [scope EXCEPT !.forced = @ - 1]
      BY <1>5 DEF EndSession
    <3>. QED  BY <3>1 DEF Limits
  <2>. QED  BY <1>3, <1>4, <1>5, <2>1 DEF EndSession, Teardown
<1>6. CASE ConnectsOver(s) \/ ClosesOver(s) \/ Destroyed(s) \/ DestroyedFails(s)
  <2>1. retired' \in [Sessions -> Nat]
    <3>1. retired' = retired \/ retired' = [retired EXCEPT ![s] = IF Retires(s) THEN incarnation[s] ELSE @]
      BY <1>6 DEF ConnectsOver, ClosesOver, Destroyed, DestroyedFails
    <3>. QED  BY <3>1
  <2>2. flight' \in [Sessions -> {"none", "connects", "closes", "hook"}]
    <3>1. \E v \in {"none", "closes", "hook"} : flight' = [flight EXCEPT ![s] = v]
      BY <1>6 DEF ConnectsOver, ClosesOver, Destroyed, DestroyedFails
    <3>. QED  BY <3>1
  <2>. QED  BY <1>6, <2>1, <2>2 DEF ConnectsOver, ClosesOver, Destroyed, DestroyedFails, hostVars
<1>7. ASSUME NEW grace \in polls[s], Poll(s, grace) \/ PollGivesUp(s, grace)
      PROVE  SlotTypes'
  <2>1. polls' \in [Sessions -> SUBSET {"none", "grace"}]
    BY <1>7 DEF Poll, PollGivesUp
  <2>2. CASE Forgotten
    BY <2>1, <2>2 DEF Forgotten, hostVars
  <2>3. CASE ScheduleIdle(s, grace) /\ UNCHANGED scope
    <3>1. CASE Teardown(s, "none")
      BY <1>3, <1>4, <2>1, <2>3, <3>1 DEF Teardown
    <3>2. CASE timer' = [timer EXCEPT ![s] = "idle"] /\ UNCHANGED <<hostVars, slots, preparing, reason, flight, ending, retired, online, joined>>
      BY <2>1, <2>3, <3>2 DEF hostVars
    <3>3. CASE UNCHANGED <<hostVars, slots, preparing, timer, reason, flight, ending, retired, online, joined>>
      BY <2>1, <2>3, <3>3 DEF hostVars
    <3>. QED  BY <2>3, <3>1, <3>2, <3>3 DEF ScheduleIdle
  <2>. QED  BY <1>7, <2>2, <2>3 DEF Poll, PollGivesUp
<1>8. CASE TimerFires(s)
  <2>. DEFINE why == IF reason[s] # "none" THEN reason[s] ELSE IF timer[s] = "idle" THEN "none" ELSE timer[s]
  <2>1. why \in {"none", "never_connected", "ended"}
    BY <1>8 DEF TimerFires
  <2>2. /\ UNCHANGED <<scope, polls>>
        /\ \/ StartTeardown(s, why)
           \/ JoinTeardown(s, why) /\ timer' = [timer EXCEPT ![s] = "off"]
           \/ /\ timer' = [timer EXCEPT ![s] = "off"]
              /\ UNCHANGED <<hostVars, slots, preparing, reason, flight, ending, retired, online, joined>>
    BY <1>8 DEF TimerFires
  <2>. HIDE DEF why
  <2>. QED  BY <1>3, <1>4, <2>1, <2>2 DEF hostVars
<1>9. CASE AgentReconnects(s)
  <2>1. scope' \in Limits
    <3>1. scope.drops > 0 /\ scope' = [scope EXCEPT !.drops = @ - 1]
      BY <1>9 DEF AgentReconnects
    <3>. QED  BY <3>1 DEF Limits
  <2>. QED  BY <1>9, <2>1 DEF AgentReconnects, hostVars
<1>. QED  BY <1>1, <1>2, <1>5, <1>6, <1>7, <1>8, <1>9 DEF SessionStep

LEMMA TypeStep == TypeOK /\ ClientInv /\ QueueInv /\ [Next]_vars => TypeOK'
<1>. SUFFICES ASSUME TypeOK, ClientInv, QueueInv, [Next]_vars PROVE TypeOK'
  OBVIOUS
<1>0. Room \in [Clients -> Sessions]
  BY HostAssumption
<1>1. ASSUME NEW c \in Clients, HostStep(RunOp(c)) \/ HostStep(HostAwait(c)) PROVE TypeOK'
  <2>1. HostMove(c) /\ scope' = scope
    BY <1>1, StepIsMove DEF HostStep
  <2>2. polls' \in [Sessions -> SUBSET {"none", "grace"}]
    <3>1. polls' = [s \in Sessions |->
                      polls[s] \cup {Grace(sessions[d]) : d \in {e \in Peers(s) : Unregistered(e)}}]
      BY <1>1 DEF HostStep, NotifyDisconnected
    <3>2. \A d : Grace(sessions[d]) \in {"none", "grace"}
      BY DEF Grace
    <3>3. polls \in [Sessions -> SUBSET {"none", "grace"}]
      BY DEF TypeOK
    <3>. QED  BY <3>1, <3>2, <3>3
  <2>3. UNCHANGED <<scope, slots, preparing, timer, reason, flight, ending, retired,
                    online, present, announced, joined, owed>>
    BY <1>1 DEF HostStep
  <2>4. /\ leases' \subseteq Leases
        /\ sessions' \in [Clients -> {NoSession} \cup LiveRecords]
        /\ work' \in [Clients -> Works] /\ peerOps' \in [Clients -> Seq(Ops)]
        /\ Quarantined' \subseteq Leases
        /\ quarantineWaits' \in [Quarantined' -> [pc : Outcomes, agent : Outcomes]]
        /\ hostClosing' = hostClosing /\ incarnation' = incarnation
        /\ born' \in [Clients -> Nat] /\ asked' = asked
    BY <2>1, TypeHost
  <2>. QED  BY <2>2, <2>3, <2>4 DEF TypeOK, LiveRecords, Works, Ops
<1>2. ASSUME NEW c \in Clients, ClientEvent(c) PROVE TypeOK'
  <2>1. /\ UNCHANGED <<leases, work, quarantineWaits, recycleRequired, hostClosing, incarnation, born,
                        slots, preparing, polls, flight, ending, retired, online>>
        /\ sessions' \in [Clients -> {NoSession} \cup LiveRecords]
    BY <1>2, EventMeans
  <2>2. peerOps' \in [Clients -> Seq(Ops)]
    <3>1. UNCHANGED peerOps \/ \E o \in Ops : peerOps' = [peerOps EXCEPT ![c] = Append(peerOps[c], o)]
      BY <1>2, EventMeans DEF Enqueue
    <3>2. peerOps \in [Clients -> Seq(Ops)]
      BY DEF TypeOK, Ops
    <3>. QED  BY <3>1, <3>2, AppendOp
  <2>3. scope' \in Limits
    <3>1. UNCHANGED scope \/ (scope.late > 0 /\ scope' = [scope EXCEPT !.late = @ - 1])
      BY <1>2 DEF ClientEvent, Arrive, Leave, PeerJoined, PeerLeft, TransportUp, TransportDown, GraceEnds,
         ReofferDue, Hangup, ConnectDies, LateEvent, ChangesSession, Outside
    <3>2. scope \in Limits
      BY DEF TypeOK
    <3>. QED  BY <3>1, <3>2 DEF Limits
  <2>4. /\ asked' \in Nat /\ present' \subseteq Clients /\ announced' \subseteq Clients /\ joined' \subseteq Sessions
    <3>1. /\ asked' = asked \/ asked' = asked + 1
          /\ present' \subseteq present \cup {c} /\ announced' \subseteq announced \cup {c}
          /\ joined' \subseteq joined \cup {Room[c]}
      BY <1>2 DEF ClientEvent, Arrive, Leave, PeerJoined, PeerLeft, TransportUp, TransportDown, GraceEnds,
         ReofferDue, Hangup, ConnectDies, LateEvent, ChangesSession, hostVars
    <3>. QED  BY <1>0, <3>1 DEF TypeOK
  <2>6. /\ timer' \in [Sessions -> {"off", "never_connected", "idle"}]
        /\ reason' \in [Sessions -> {"none", "never_connected", "ended"}]
    <3>1. \/ UNCHANGED <<timer, reason>>
          \/ /\ timer' = [timer EXCEPT ![Room[c]] = "off"]
             /\ reason' = [reason EXCEPT ![Room[c]] = IF @ = "never_connected" THEN "none" ELSE @]
      BY <1>2 DEF ClientEvent, Arrive, Leave, PeerJoined, PeerLeft, TransportUp, TransportDown, GraceEnds,
         ReofferDue, Hangup, ConnectDies, LateEvent, Uncancelled, CancelTimer
    <3>2. /\ timer \in [Sessions -> {"off", "never_connected", "idle"}]
          /\ reason \in [Sessions -> {"none", "never_connected", "ended"}]
      BY DEF TypeOK
    <3>. QED  BY <3>1, <3>2
  <2>5. owed' \subseteq Leases
    <3>1. UNCHANGED owed \/ (Live(c) /\ owed' = owed \cup {sessions[c].lease})
          \/ (ClosingPeer(c) /\ owed' = owed \cup {work[c].lease})
      BY <1>2 DEF ClientEvent, Arrive, Leave, PeerJoined, PeerLeft, TransportUp, TransportDown, GraceEnds,
         ReofferDue, Hangup, ConnectDies, LateEvent
    <3>2. Live(c) => sessions[c].lease \in Leases
      BY LiveMeans
    <3>3. ClosingPeer(c) => work[c].lease \in Leases
      BY ActiveMeans DEF ClosingPeer
    <3>. QED  BY <3>1, <3>2, <3>3 DEF TypeOK
  <2>. QED  BY <2>1, <2>2, <2>3, <2>4, <2>5, <2>6 DEF TypeOK, LiveRecords, Ops, Quarantined
<1>3. ASSUME NEW s \in Sessions, SessionStep(s) PROVE TypeOK'
  <2>1. /\ UNCHANGED <<leases, sessions, work, quarantineWaits, born, asked, present, owed>>
        /\ announced' \subseteq announced
    BY <1>3, SessionMeans
  <2>2. peerOps' \in [Clients -> Seq(Ops)]
    <3>1. peerOps \in [Clients -> Seq(Ops)]
      BY DEF TypeOK, Ops
    <3>2. CASE ConnectsOver(s)
      BY <3>1, <3>2, AppendOp, OpsTyped DEF ConnectsOver
    <3>. QED  BY <1>3, <3>1, <3>2, SessionMeans
  <2>3. SlotTypes'
    BY <1>3, TypeSession DEF TypeOK, SlotTypes
  <2>. QED  BY <2>1, <2>2, <2>3 DEF TypeOK, Ops, Quarantined, SlotTypes
<1>4. ASSUME NEW lease \in Quarantined, NEW side \in {"pc", "agent"},
             HostStep(Settled /\ LateAnswer(lease, side))
      PROVE  TypeOK'
  <2>. DEFINE Answered(result) == [quarantineWaits[lease] EXCEPT ![side] = result]
  <2>0. quarantineWaits \in [Quarantined -> [pc : Outcomes, agent : Outcomes]]
    BY DEF TypeOK
  <2>1. \A result \in {"ok", "failed"} : Answered(result) \in [pc : Outcomes, agent : Outcomes]
    BY <2>0 DEF Outcomes
  <2>2. \E result \in {"ok", "failed"} :
          \/ quarantineWaits' = [quarantineWaits EXCEPT ![lease] = Answered(result)]
          \/ quarantineWaits' = [l \in Quarantined \ {lease} |-> quarantineWaits[l]]
    BY <1>4 DEF HostStep, LateAnswer
  <2>3. Quarantined' \subseteq Quarantined /\ quarantineWaits' \in [Quarantined' -> [pc : Outcomes, agent : Outcomes]]
    <3>. HIDE DEF Answered
    <3>. QED  BY <2>0, <2>1, <2>2 DEF Quarantined
  <2>4. /\ UNCHANGED <<sessions, work, peerOps, hostClosing, incarnation, born, asked>>
        /\ leases' \subseteq leases
    BY <1>4 DEF HostStep, LateAnswer, Release
  <2>5. polls' = polls
    BY <1>4, <2>4 DEF HostStep, NotifyDisconnected, Unregistered, TypeOK, Live
  <2>6. UNCHANGED <<scope, slots, preparing, timer, reason, flight, ending, retired,
                    online, present, announced, joined, owed>>
    BY <1>4 DEF HostStep
  <2>. QED  BY <2>3, <2>4, <2>5, <2>6 DEF TypeOK
<1>5. CASE UNCHANGED vars
  BY <1>5 DEF TypeOK, vars, hostVars, podVars, Quarantined
<1>. QED  BY <1>1, <1>2, <1>3, <1>4, <1>5, NextMeans

-----------------------------------------------------------------------------
(* Clients: at most one lease each, and what waits in their queues. *)

LEMMA ClientInit == Init => ClientInv /\ QueueInv
<1>. SUFFICES ASSUME Init PROVE ClientInv /\ QueueInv
  OBVIOUS
<1>1. ClientInv
  BY DEF Init, HostInit, ClientInv, Idle, Live, NoSession, Active, ClosingPeer, ConnectingPeer
<1>2. \A c \in Clients : Len(peerOps[c]) = 0
  BY EmptySeq DEF Init, HostInit
<1>. QED  BY <1>1, <1>2 DEF QueueInv

\* A host works for one client at a time.
LEMMA OthersKept ==
  ASSUME TypeOK, ClientInv, NEW c \in Clients, HostMove(c)
  PROVE  /\ \A d \in Clients \ {c} : /\ sessions'[d] = sessions[d] /\ work'[d] = work[d]
                                     /\ peerOps'[d] = peerOps[d] /\ born'[d] = born[d]
         /\ born[c] <= born'[c]
         /\ UNCHANGED <<incarnation, hostClosing, asked>>
         /\ \/ UNCHANGED quarantineWaits
            \/ Active(c) /\ Quarantined' = Quarantined \cup {HeldBy(c)} /\ work'[c] = Idle /\ ~Live(c) /\ ~Live(c)'
<1>0. /\ sessions \in [Clients -> {NoSession} \cup LiveRecords] /\ work \in [Clients -> Works]
      /\ peerOps \in [Clients -> Seq(Ops)] /\ born \in [Clients -> Nat]
  BY DEF TypeOK, Ops, LiveRecords, Works
<1>1. CASE \/ Skip(c) \/ CloseSession(c, Tail(peerOps[c])) \/ CloseSession(c, <<Connect>> \o Tail(peerOps[c]))
           \/ Register(c) \/ BuildFails(c) \/ PartialClosed(c) \/ OfferSent(c) \/ OfferFails(c)
  BY <1>0, <1>1 DEF Skip, CloseSession, Register, BuildFails, PartialClosed, OfferSent, OfferFails, AtWork
<1>2. CASE ConnectClient(c, Tail(peerOps[c]))
  BY <1>0, <1>2 DEF ConnectClient
<1>3. ASSUME NEW pc \in Outcomes, NEW agent \in Outcomes, CloseEnds(c, pc, agent)
      PROVE  /\ \A d \in Clients \ {c} : work'[d] = work[d]
             /\ UNCHANGED <<incarnation, hostClosing, asked, sessions, peerOps, born>>
             /\ \/ UNCHANGED quarantineWaits
                \/ Active(c) /\ Quarantined' = Quarantined \cup {HeldBy(c)} /\ work'[c] = Idle /\ ~Live(c) /\ ~Live(c)'
  <2>1. ClosingPeer(c) /\ ~Live(c) /\ Active(c) /\ HeldBy(c) = work[c].lease
    BY <1>3 DEF CloseEnds, ClosingPeer, ClientInv, Active, HeldBy
  <2>2. /\ work' = [work EXCEPT ![c] = Idle]
        /\ UNCHANGED <<incarnation, hostClosing, asked, sessions, peerOps, born>>
    BY <1>3 DEF CloseEnds, AtWork
  <2>3. \/ UNCHANGED quarantineWaits
        \/ Quarantined' = Quarantined \cup {work[c].lease}
    BY <1>3 DEF CloseEnds, Quarantined
  <2>. QED  BY <1>0, <2>1, <2>2, <2>3 DEF Live
<1>. QED  BY <1>0, <1>1, <1>2, <1>3 DEF HostMove

ClientOk(c) ==
    /\ work[c].step = "idle" => work[c] = Idle
    /\ work[c].step = "offer" => Live(c) /\ work[c].lease = sessions[c].lease
    /\ Live(c) => work[c].step \in {"idle", "offer"}
    /\ Active(c) => /\ HeldBy(c) \in Leases /\ HeldBy(c).peer = c
                    /\ HeldBy(c).host = incarnation[Room[c]]
                    /\ HeldBy(c).no <= born[c]
                    /\ HeldBy(c) \notin Quarantined

LEMMA ClientHost ==
  ASSUME TypeOK, ClientInv, LeaseInv, NEW c \in Clients, HostMove(c)
  PROVE  ClientInv'
<1>. SUFFICES ASSUME NEW d \in Clients PROVE ClientOk(d)'
  BY DEF ClientInv, ClientOk
<1>0. /\ sessions \in [Clients -> {NoSession} \cup LiveRecords] /\ work \in [Clients -> Works]
      /\ born \in [Clients -> Nat] /\ incarnation \in [Sessions -> Nat] /\ Room[c] \in Sessions
      /\ ClientOk(c) /\ ClientOk(d)
  BY HostAssumption DEF TypeOK, LiveRecords, Works, ClientInv, ClientOk
<1>1. CASE d # c
  <2>1. /\ Live(d)' <=> Live(d)
        /\ Active(d)' <=> Active(d)
        /\ HeldBy(d)' = HeldBy(d)
        /\ work'[d] = work[d] /\ born'[d] = born[d] /\ incarnation' = incarnation /\ sessions'[d] = sessions[d]
    BY <1>1, OthersKept DEF Active, Live, ClosingPeer, ConnectingPeer, HeldBy
  <2>2. Active(d) => HeldBy(d) \notin Quarantined'
    <3>1. Quarantined' = Quarantined \/ (Active(c) /\ Quarantined' = Quarantined \cup {HeldBy(c)})
      BY OthersKept DEF Quarantined
    <3>. QED  BY <1>0, <1>1, <3>1 DEF ClientOk
  <2>. QED  BY <1>0, <2>1, <2>2 DEF ClientOk
<1>2. CASE d = c /\ UNCHANGED quarantineWaits
  <2>. SUFFICES ClientOk(c)'
    BY <1>2
  <2>0. Quarantined' = Quarantined /\ incarnation' = incarnation
    BY <1>2, OthersKept DEF Quarantined
  <2>1. CASE Skip(c)
    BY <1>0, <1>2, <2>0, <2>1 DEF Skip, ClientOk, Active, Live, ClosingPeer, ConnectingPeer, HeldBy
  <2>2. ASSUME NEW q, CloseSession(c, q), ClientOk(c) PROVE ClientOk(c)'
    <3>1. /\ Live(c) /\ ~Live(c)' /\ work'[c].step = "closing" /\ work'[c].lease = sessions[c].lease
          /\ born' = born
      BY <1>0, <2>2 DEF CloseSession, Live
    <3>. QED  BY <2>0, <2>2, <3>1 DEF ClientOk, Active, HeldBy
  <2>3. CASE ~Live(c) /\ ConnectClient(c, Tail(peerOps[c])) /\ work[c] = Idle
    <3>. DEFINE lease == [peer |-> c, host |-> incarnation[Room[c]], no |-> born[c] + 1]
    <3>1. CASE UNCHANGED <<leases, work, born>>
      BY <1>0, <2>0, <2>3, <3>1 DEF ConnectClient, ClientOk, Active, Live, ClosingPeer, ConnectingPeer, HeldBy
    <3>2. CASE /\ leases' = leases \cup {lease} /\ born' = [born EXCEPT ![c] = @ + 1]
               /\ work' = [work EXCEPT ![c] = [Idle EXCEPT !.step = "build", !.lease = lease]]
      <4>1. /\ ~Live(c)' /\ HeldBy(c)' = lease /\ work'[c].step = "build" /\ born'[c] = born[c] + 1
        BY <1>0, <2>3, <3>2 DEF ConnectClient, Live, HeldBy, Idle
      <4>2. lease \in Leases /\ lease.peer = c /\ lease.host = incarnation[Room[c]] /\ lease.no = born[c] + 1
        BY <1>0 DEF Leases
      <4>3. lease \notin Quarantined
        BY <1>0, <4>2 DEF LeaseInv, Leases
      <4>. HIDE DEF lease
      <4>. QED  BY <1>0, <2>0, <4>1, <4>2, <4>3 DEF ClientOk
    <3>. QED  BY <2>3, <3>1, <3>2 DEF ConnectClient
  <2>4. CASE Register(c)
    <3>1. /\ work[c].step = "build" /\ ~Live(c) /\ Active(c) /\ HeldBy(c) = work[c].lease
      BY <1>0, <2>4 DEF Register, ClientOk, Active, ConnectingPeer, HeldBy
    <3>2. /\ sessions'[c] = ClientSession(work[c].lease) /\ work'[c].step = "offer" /\ work'[c].lease = work[c].lease
          /\ born' = born
      BY <1>0, <2>4 DEF Register, AtWork, Works
    <3>3. sessions'[c].lease = work[c].lease /\ sessions'[c] # NoSession
      BY <1>0, <3>1, <3>2, NoLeaseIsNone DEF ClientSession, NoSession, ClientOk
    <3>. QED  BY <1>0, <2>0, <3>1, <3>2, <3>3 DEF ClientOk, Active, HeldBy, Live
  <2>5. CASE BuildFails(c)
    <3>1. /\ work[c].step = "build" /\ work'[c].step = "partial" /\ work'[c].lease = work[c].lease
          /\ sessions' = sessions /\ born' = born
      BY <1>0, <2>5 DEF BuildFails, AtWork, Works
    <3>. QED  BY <1>0, <2>0, <3>1 DEF ClientOk, Active, HeldBy, Live, ConnectingPeer, ClosingPeer
  <2>6. CASE PartialClosed(c) \/ OfferSent(c)
    <3>1. /\ work[c].step \in {"partial", "offer"} /\ work'[c] = Idle /\ Idle.step = "idle"
          /\ sessions' = sessions /\ born' = born
      BY <1>0, <2>6 DEF PartialClosed, OfferSent, AtWork, Works, Idle
    <3>. QED  BY <1>0, <2>0, <3>1 DEF ClientOk, Active, HeldBy, Live, ConnectingPeer, ClosingPeer
  <2>7. CASE \E pc, agent \in Outcomes : CloseEnds(c, pc, agent)
    <3>1. /\ work[c].step = "closing" /\ work'[c] = Idle /\ Idle.step = "idle" /\ sessions' = sessions
      BY <1>0, <2>7 DEF CloseEnds, ClosingPeer, Idle
    <3>. QED  BY <1>0, <3>1 DEF ClientOk, Active, Live, ConnectingPeer, ClosingPeer
  <2>. QED  BY <1>0, <1>2, <2>1, <2>2, <2>3, <2>4, <2>5, <2>6, <2>7 DEF HostMove, OfferFails
<1>3. CASE d = c /\ ~UNCHANGED quarantineWaits
  <2>. SUFFICES ClientOk(c)'
    BY <1>3
  <2>1. work'[c] = Idle /\ ~Live(c)' /\ Idle.step = "idle"
    BY <1>3, OthersKept DEF Idle
  <2>. QED  BY <1>3, <2>1 DEF ClientOk, Active, ClosingPeer, ConnectingPeer
<1>. QED  BY <1>1, <1>2, <1>3

\* A late answer only takes a lease out of quarantine.
LEMMA AnswerMeans ==
  ASSUME NEW lease \in Quarantined, NEW side \in {"pc", "agent"}, HostStep(Settled /\ LateAnswer(lease, side))
  PROVE  /\ UNCHANGED <<sessions, work, peerOps, hostClosing, incarnation, born, asked>>
         /\ UNCHANGED <<scope, slots, preparing, timer, reason, flight, ending, retired,
                        online, present, announced, joined, owed>>
         /\ \/ Quarantined' = Quarantined /\ UNCHANGED <<leases, recycleRequired>>
            \/ /\ Quarantined' = Quarantined \ {lease} /\ leases' = leases \ {lease}
               /\ recycleRequired' = RecycleUnless(HostOf(lease), QuarantinedOf(HostOf(lease)) \ {lease})
  BY DEF HostStep, LateAnswer, Release, Quarantined

\* A slot is made only for a session of which nothing is left.
LEMMA CommitMeans ==
  ASSUME TypeOK, SlotInv, TornDownIsEmpty, NEW s \in Sessions, Commit(s)
  PROVE  /\ s \notin slots /\ flight[s] = "none"
         /\ \A c \in Peers(s) : ~Active(c) /\ peerOps[c] = <<>>
         /\ incarnation' = [incarnation EXCEPT ![s] = @ + 1]
         /\ slots' = slots \cup {s} /\ hostClosing' = hostClosing \ {s} /\ online' = online \cup {s}
         /\ UNCHANGED <<leases, sessions, work, peerOps, quarantineWaits, recycleRequired, born, asked,
                        scope, polls, flight, ending, retired, present, owed>>
<1>1. s \notin slots
  BY DEF Commit, SlotInv
<1>2. flight[s] = "none"
  BY <1>1 DEF SlotInv
<1>. QED  BY <1>1, <1>2 DEF Commit, TornDownIsEmpty

LEMMA ClientStep ==
  TypeOK /\ ClientInv /\ QueueInv /\ LeaseInv /\ SlotInv /\ TornDownIsEmpty /\ [Next]_vars => ClientInv'
<1>. SUFFICES ASSUME TypeOK, ClientInv, QueueInv, LeaseInv, SlotInv, TornDownIsEmpty, [Next]_vars
     PROVE  ClientInv'
  OBVIOUS
<1>1. ASSUME NEW c \in Clients, HostStep(RunOp(c)) \/ HostStep(HostAwait(c)) PROVE ClientInv'
  BY <1>1, StepIsMove, ClientHost DEF HostStep
<1>2. ASSUME \A d \in Clients : (Live(d)' <=> Live(d)) /\ sessions'[d].lease = sessions[d].lease,
             work' = work, born' = born, Quarantined' \subseteq Quarantined,
             \A d \in Clients : Active(d) => incarnation'[Room[d]] = incarnation[Room[d]]
      PROVE  ClientInv'
  <2>. SUFFICES ASSUME NEW d \in Clients PROVE ClientOk(d)'
    BY DEF ClientInv, ClientOk
  <2>1. ClientOk(d)
    BY DEF ClientInv, ClientOk
  <2>2. /\ Live(d)' <=> Live(d)
        /\ Active(d)' <=> Active(d)
        /\ HeldBy(d)' = HeldBy(d)
    BY <1>2 DEF Active, ClosingPeer, ConnectingPeer, HeldBy
  <2>. QED  BY <1>2, <2>1, <2>2 DEF ClientOk
<1>3. ASSUME NEW c \in Clients, ClientEvent(c) PROVE ClientInv'
  BY <1>2, <1>3, EventMeans DEF Quarantined
<1>4. ASSUME NEW s \in Sessions, SessionStep(s) PROVE ClientInv'
  <2>1. UNCHANGED <<sessions, work, born, quarantineWaits>> /\ (UNCHANGED incarnation \/ Commit(s))
    BY <1>4, SessionMeans
  <2>2. ASSUME NEW d \in Clients, Active(d) PROVE incarnation'[Room[d]] = incarnation[Room[d]]
    <3>1. incarnation \in [Sessions -> Nat] /\ Room[d] \in Sessions
      BY HostAssumption DEF TypeOK
    <3>2. CASE Commit(s)
      <4>1. Room[d] # s
        BY <2>2, <3>2, CommitMeans DEF Peers
      <4>. QED  BY <3>1, <3>2, <4>1, CommitMeans
    <3>. QED  BY <2>1, <3>2
  <2>. QED  BY <1>2, <2>1, <2>2 DEF Live, Quarantined
<1>5. ASSUME NEW lease \in Quarantined, NEW side \in {"pc", "agent"},
             HostStep(Settled /\ LateAnswer(lease, side))
      PROVE  ClientInv'
  BY <1>2, <1>5, AnswerMeans DEF Live
<1>6. CASE UNCHANGED vars
  BY <1>2, <1>6 DEF vars, hostVars, Live, Quarantined
<1>. QED  BY <1>1, <1>3, <1>4, <1>5, <1>6, NextMeans

LEMMA QueueStep == TypeOK /\ ClientInv /\ QueueInv /\ [Next]_vars => QueueInv'
<1>. SUFFICES ASSUME TypeOK, ClientInv, QueueInv, [Next]_vars, NEW d \in Clients
     PROVE  \A i \in 1 .. Len(peerOps'[d]) :
              /\ peerOps'[d][i].op = "connect" => i = 1 /\ ~Live(d)' /\ work'[d].step \in {"idle", "closing"}
              /\ peerOps'[d][i].op = "reoffer" => peerOps'[d][i].of \in Leases
  BY DEF QueueInv
<1>. DEFINE Goal == \A i \in 1 .. Len(peerOps'[d]) :
              /\ peerOps'[d][i].op = "connect" => i = 1 /\ ~Live(d)' /\ work'[d].step \in {"idle", "closing"}
              /\ peerOps'[d][i].op = "reoffer" => peerOps'[d][i].of \in Leases
<1>0. /\ peerOps \in [Clients -> Seq(Ops)] /\ peerOps[d] \in Seq(Ops) /\ Len(peerOps[d]) \in Nat
      /\ sessions \in [Clients -> {NoSession} \cup LiveRecords] /\ work \in [Clients -> Works]
  BY LenProperties DEF TypeOK, Ops, LiveRecords, Works
<1>1. ASSUME NEW c \in Clients, HostStep(RunOp(c)) \/ HostStep(HostAwait(c)) PROVE Goal
  <2>1. HostMove(c)
    BY <1>1, StepIsMove DEF HostStep
  <2>2. CASE d # c
    <3>1. sessions'[d] = sessions[d] /\ work'[d] = work[d] /\ peerOps'[d] = peerOps[d]
      BY <2>1, <2>2, OthersKept
    <3>. QED  BY <3>1 DEF QueueInv, Live
  <2>3. CASE d = c /\ peerOps'[d] = Tail(peerOps[d]) /\ peerOps[d] # <<>>
    <3>1. \A i \in 1 .. Len(peerOps'[d]) : i + 1 \in 1 .. Len(peerOps[d]) /\ i + 1 # 1
             /\ peerOps'[d][i] = peerOps[d][i + 1]
      BY <1>0, <2>3, TailOp
    <3>. QED  BY <3>1 DEF QueueInv
  <2>4. CASE d = c /\ peerOps[d] # <<>> /\ CloseSession(c, <<Connect>> \o Tail(peerOps[d]))
    <3>1. ~Live(c)' /\ work'[c].step = "closing" /\ peerOps'[d] = <<Connect>> \o Tail(peerOps[d])
      BY <1>0, <2>4 DEF CloseSession, Live
    <3>2. /\ Len(peerOps'[d]) = Len(peerOps[d]) /\ peerOps'[d][1] = Connect
          /\ \A i \in 2 .. Len(peerOps[d]) : peerOps'[d][i] = peerOps[d][i]
      BY <1>0, <2>4, <3>1, ConnectOp
    <3>3. Connect.op = "connect"
      BY DEF Connect
    <3>. QED  BY <1>0, <2>4, <3>1, <3>2, <3>3 DEF QueueInv
  <2>5. CASE d = c /\ peerOps'[d] = peerOps[d] /\ work[c].step \in {"build", "offer", "partial"}
    BY <2>5 DEF QueueInv
  <2>6. CASE d = c /\ peerOps'[d] = peerOps[d] /\ work[c].step = "closing" /\ work'[c] = Idle /\ ~Live(c)'
    BY <2>6 DEF QueueInv, Idle
  <2>7. \/ /\ peerOps'[c] = Tail(peerOps[c]) /\ peerOps[c] # <<>>
        \/ peerOps[c] # <<>> /\ CloseSession(c, <<Connect>> \o Tail(peerOps[c]))
        \/ peerOps'[c] = peerOps[c] /\ work[c].step \in {"build", "offer", "partial"}
        \/ peerOps'[c] = peerOps[c] /\ work[c].step = "closing" /\ work'[c] = Idle /\ ~Live(c)'
    <3>1. CASE Skip(c) /\ peerOps[c] # <<>>
      BY <1>0, <3>1 DEF Skip
    <3>2. CASE CloseSession(c, Tail(peerOps[c])) /\ peerOps[c] # <<>>
      BY <1>0, <3>2 DEF CloseSession
    <3>3. CASE ConnectClient(c, Tail(peerOps[c])) /\ peerOps[c] # <<>>
      BY <1>0, <3>3 DEF ConnectClient
    <3>4. CASE Register(c) \/ BuildFails(c) \/ PartialClosed(c) \/ OfferSent(c) \/ OfferFails(c)
      BY <1>0, <3>4 DEF Register, BuildFails, PartialClosed, OfferSent, OfferFails, CloseSession, AtWork
    <3>5. CASE \E pc, agent \in Outcomes : CloseEnds(c, pc, agent)
      BY <1>0, <3>5 DEF CloseEnds, ClosingPeer, AtWork, ClientInv, Live
    <3>. QED  BY <2>1, <3>1, <3>2, <3>3, <3>4, <3>5 DEF HostMove
  <2>. QED  BY <2>2, <2>3, <2>4, <2>5, <2>6, <2>7
<1>2. ASSUME NEW o \in Ops, o.op # "connect", o.op = "reoffer" => o.of \in Leases,
             \/ peerOps'[d] = peerOps[d]
             \/ peerOps'[d] = Append(peerOps[d], o),
             Live(d)' <=> Live(d), work' = work
      PROVE  Goal
  <2>1. CASE peerOps'[d] = peerOps[d]
    BY <1>2, <2>1 DEF QueueInv
  <2>2. CASE peerOps'[d] = Append(peerOps[d], o)
    <3>. SUFFICES ASSUME NEW i \in 1 .. Len(peerOps'[d])
         PROVE  /\ peerOps'[d][i].op = "connect" =>
                     i = 1 /\ ~Live(d)' /\ work'[d].step \in {"idle", "closing"}
                /\ peerOps'[d][i].op = "reoffer" => peerOps'[d][i].of \in Leases
      OBVIOUS
    <3>1. \/ i \in 1 .. Len(peerOps[d]) /\ peerOps'[d][i] = peerOps[d][i]
          \/ peerOps'[d][i] = o
      BY <1>0, <1>2, <2>2, AppendOp
    <3>. QED  BY <1>2, <3>1 DEF QueueInv
  <2>. QED  BY <1>2, <2>1, <2>2
<1>3. ASSUME NEW c \in Clients, ClientEvent(c) PROVE Goal
  <2>1. /\ work' = work
        /\ Live(d)' <=> Live(d)
        /\ UNCHANGED peerOps \/ \E o \in Asked(c) : Enqueue(c, o)
    BY <1>3, EventMeans
  <2>2. \A o \in Asked(c) : o \in Ops /\ o.op # "connect" /\ (o.op = "reoffer" => o.of \in Leases)
    BY <1>3, EventMeans, LiveMeans DEF Asked, Join, Close, CloseIf, Reoffer
  <2>. QED  BY <1>0, <1>2, <2>1, <2>2, OpsTyped DEF Enqueue, Join
<1>4. ASSUME NEW s \in Sessions, SessionStep(s) PROVE Goal
  <2>1. UNCHANGED <<sessions, work>> /\ (UNCHANGED peerOps \/ ConnectsOver(s))
    BY <1>4, SessionMeans
  <2>2. peerOps'[d] = peerOps[d] \/ peerOps'[d] = Append(peerOps[d], Close)
    BY <2>1 DEF ConnectsOver
  <2>. QED  BY <1>2, <2>1, <2>2, OpsTyped DEF Close, Live
<1>5. ASSUME NEW lease \in Quarantined, NEW side \in {"pc", "agent"},
             HostStep(Settled /\ LateAnswer(lease, side))
      PROVE  Goal
  BY <1>2, <1>5, AnswerMeans, OpsTyped DEF Close, Live
<1>6. CASE UNCHANGED vars
  BY <1>2, <1>6, OpsTyped DEF vars, hostVars, Close, Live
<1>. QED  BY <1>1, <1>3, <1>4, <1>5, <1>6, NextMeans

-----------------------------------------------------------------------------
(* Leases: the budget, its bound, and the hosts that must be recycled. *)

\* What a move of a client's host does to its lease.
Keeps(c) ==
    /\ Active(c)' <=> Active(c)
    /\ Active(c) => HeldBy(c)' = HeldBy(c)
    /\ UNCHANGED <<leases, recycleRequired>> /\ Quarantined' = Quarantined
Acquires(c, lease) ==
    /\ ~Active(c) /\ Active(c)' /\ HeldBy(c)' = lease /\ HasRoom
    /\ leases' = leases \cup {lease} /\ UNCHANGED recycleRequired /\ Quarantined' = Quarantined
Drops(c) ==
    /\ Active(c) /\ ~Active(c)' /\ leases' = leases \ {HeldBy(c)} /\ Quarantined' = Quarantined
    /\ \/ UNCHANGED recycleRequired
       \/ recycleRequired' = RecycleUnless(HostOf(HeldBy(c)), QuarantinedOf(HostOf(HeldBy(c))))
Quarantines(c) ==
    /\ Active(c) /\ ~Active(c)' /\ UNCHANGED leases /\ Quarantined' = Quarantined \cup {HeldBy(c)}
    /\ recycleRequired' = recycleRequired \cup {HostOf(HeldBy(c))}

LEMMA LeaseMoves ==
  ASSUME TypeOK, ClientInv, NEW c \in Clients, HostMove(c)
  PROVE  \/ Keeps(c)
         \/ Acquires(c, [peer |-> c, host |-> incarnation[Room[c]], no |-> born[c] + 1])
         \/ Drops(c)
         \/ Quarantines(c)
<1>0. /\ sessions \in [Clients -> {NoSession} \cup LiveRecords] /\ work \in [Clients -> Works]
      /\ ClientOk(c) /\ Idle.step = "idle"
  BY DEF TypeOK, LiveRecords, Works, ClientInv, ClientOk, Idle
<1>1. CASE Skip(c)
  BY <1>1 DEF Skip, Keeps, Active, Live, ClosingPeer, ConnectingPeer, HeldBy, Quarantined
<1>2. ASSUME NEW q, CloseSession(c, q) PROVE Keeps(c)
  <2>1. /\ Live(c) /\ ~Live(c)' /\ work'[c].step = "closing" /\ work'[c].lease = sessions[c].lease
        /\ UNCHANGED <<leases, recycleRequired, quarantineWaits>>
    BY <1>0, <1>2 DEF CloseSession, Live
  <2>. QED  BY <2>1 DEF Keeps, Active, ClosingPeer, ConnectingPeer, HeldBy, Quarantined
<1>3. CASE ~Live(c) /\ work[c] = Idle /\ ConnectClient(c, Tail(peerOps[c]))
  <2>. DEFINE lease == [peer |-> c, host |-> incarnation[Room[c]], no |-> born[c] + 1]
  <2>1. UNCHANGED <<sessions, quarantineWaits, recycleRequired>> /\ Live(c)' = Live(c) /\ ~Active(c)
    BY <1>0, <1>3 DEF ConnectClient, Live, Active, ClosingPeer, ConnectingPeer
  <2>2. CASE UNCHANGED <<leases, work, born>>
    BY <1>3, <2>1, <2>2 DEF Keeps, Active, Live, ClosingPeer, ConnectingPeer, HeldBy, Quarantined
  <2>3. CASE /\ Admitted(c) /\ leases' = leases \cup {lease}
             /\ work' = [work EXCEPT ![c] = [Idle EXCEPT !.step = "build", !.lease = lease]]
    <3>1. work'[c].step = "build" /\ work'[c].lease = lease
      BY <1>0, <2>3 DEF Idle
    <3>. QED  BY <1>3, <2>1, <2>3, <3>1 DEF Acquires, Active, ConnectingPeer, HeldBy, Admitted, Quarantined
  <2>. QED  BY <1>3, <2>2, <2>3 DEF ConnectClient
<1>4. CASE Register(c)
  <2>1. /\ work[c].step = "build" /\ ~Live(c) /\ Active(c) /\ HeldBy(c) = work[c].lease
        /\ work[c].lease \in Leases
    BY <1>0, <1>4 DEF Register, ClientOk, Active, ConnectingPeer, HeldBy
  <2>2. /\ sessions'[c].lease = work[c].lease
        /\ UNCHANGED <<leases, recycleRequired, quarantineWaits>>
    BY <1>0, <1>4 DEF Register, AtWork, ClientSession
  <2>3. Live(c)'
    BY <2>1, <2>2, NoLeaseIsNone DEF Live, NoSession
  <2>. QED  BY <2>1, <2>2, <2>3 DEF Keeps, Active, HeldBy, Quarantined
<1>5. CASE BuildFails(c)
  <2>1. /\ work[c].step = "build" /\ work'[c].step = "partial" /\ work'[c].lease = work[c].lease
        /\ UNCHANGED <<sessions, leases, recycleRequired, quarantineWaits>>
    BY <1>0, <1>5 DEF BuildFails, AtWork, Works
  <2>. QED  BY <1>0, <2>1 DEF Keeps, ClientOk, Active, HeldBy, Live, ConnectingPeer, Quarantined
<1>6. CASE OfferSent(c)
  <2>1. /\ work[c].step = "offer" /\ work'[c] = Idle
        /\ UNCHANGED <<sessions, leases, recycleRequired, quarantineWaits>>
    BY <1>0, <1>6 DEF OfferSent, AtWork, Works
  <2>. QED  BY <1>0, <2>1 DEF Keeps, ClientOk, Active, HeldBy, Live, ConnectingPeer, Quarantined
<1>7. CASE PartialClosed(c)
  <2>1. /\ work[c].step = "partial" /\ work'[c] = Idle /\ leases' = leases \ {work[c].lease}
        /\ UNCHANGED <<sessions, recycleRequired, quarantineWaits>>
    BY <1>0, <1>7 DEF PartialClosed, AtWork, Works, Release
  <2>. QED  BY <1>0, <2>1 DEF Drops, ClientOk, Active, HeldBy, Live, ConnectingPeer, ClosingPeer, Quarantined
<1>8. ASSUME NEW pc \in Outcomes, NEW agent \in Outcomes, CloseEnds(c, pc, agent)
      PROVE  Drops(c) \/ Quarantines(c)
  <2>1. work[c].step = "closing" /\ work'[c] = Idle /\ UNCHANGED sessions
    BY <1>0, <1>8 DEF CloseEnds, ClosingPeer
  <2>2. Active(c) /\ ~Active(c)' /\ HeldBy(c) = work[c].lease
    BY <1>0, <2>1 DEF ClientOk, Active, HeldBy, Live, ConnectingPeer, ClosingPeer
  <2>. QED  BY <1>8, <2>2 DEF CloseEnds, Drops, Quarantines, Quarantined, Release
<1>. QED  BY <1>1, <1>2, <1>3, <1>4, <1>5, <1>6, <1>7, <1>8 DEF HostMove, OfferFails

LEMMA LeaseInit == Init => LeaseInv /\ RecycleMatchesQuarantine
<1>. SUFFICES ASSUME Init PROVE LeaseInv /\ RecycleMatchesQuarantine
  OBVIOUS
<1>1. leases = {} /\ Quarantined = {} /\ recycleRequired = {} /\ \A c \in Clients : ~Active(c)
  BY DEF Init, HostInit, Quarantined, Active, Live, ClosingPeer, ConnectingPeer, Idle, NoSession
<1>2. Held = {}
  BY <1>1 DEF Held
<1>3. scope \in Limits
  BY HostAssumption DEF Init
<1>. QED  BY <1>1, <1>2, <1>3, FS_EmptySet DEF LeaseInv, RecycleMatchesQuarantine, Limits

\* The leases of the clients a host does not work for stay with them.
LEMMA OthersHold ==
  ASSUME TypeOK, ClientInv, NEW c \in Clients, HostMove(c)
  PROVE  \A d \in Clients \ {c} : (Active(d)' <=> Active(d)) /\ HeldBy(d)' = HeldBy(d)
  BY OthersKept DEF Active, Live, ClosingPeer, ConnectingPeer, HeldBy

LEMMA LeaseHost ==
  ASSUME TypeOK, ClientInv, LeaseInv, NEW c \in Clients, HostMove(c), scope' = scope
  PROVE  LeaseInv'
<1>. DEFINE lease == [peer |-> c, host |-> incarnation[Room[c]], no |-> born[c] + 1]
<1>0. /\ \A l : l \in leases <=> l \in Quarantined \/ \E d \in Clients : Active(d) /\ l = HeldBy(d)
      /\ \A d \in Clients : Active(d) => HeldBy(d).peer = d /\ HeldBy(d) \notin Quarantined
  BY DEF LeaseInv, Held, ClientInv
<1>1. \A d \in Clients \ {c} : (Active(d)' <=> Active(d)) /\ HeldBy(d)' = HeldBy(d)
  BY OthersHold
<1>2. Keeps(c) \/ Acquires(c, lease) \/ Drops(c) \/ Quarantines(c)
  BY LeaseMoves
<1>. HIDE DEF lease
<1>3. \A l : l \in leases' <=> l \in Quarantined' \/ \E d \in Clients : Active(d)' /\ l = HeldBy(d)'
  <2>1. CASE Keeps(c)
    BY <1>0, <1>1, <2>1 DEF Keeps
  <2>2. CASE Acquires(c, lease)
    BY <1>0, <1>1, <2>2 DEF Acquires
  <2>3. CASE Drops(c)
    <3>1. \A l : l \in leases' <=> l \in leases /\ l # HeldBy(c)
      BY <2>3 DEF Drops
    <3>2. \A d \in Clients \ {c} : Active(d) => HeldBy(d) # HeldBy(c)
      BY <1>0, <2>3 DEF Drops
    <3>. QED  BY <1>0, <1>1, <2>3, <3>1, <3>2 DEF Drops
  <2>4. CASE Quarantines(c)
    BY <1>0, <1>1, <2>4 DEF Quarantines
  <2>. QED  BY <1>2, <2>1, <2>2, <2>3, <2>4
<1>4. leases' = (Held \cup Quarantined)'
  BY <1>3 DEF Held
<1>5. \A l \in Quarantined' : l.no <= born'[l.peer]
  <2>0. /\ born \in [Clients -> Nat] /\ born' \in [Clients -> Nat] /\ Quarantined' \subseteq Leases
        /\ \A d \in Clients : born[d] <= born'[d]
    <3>1. born \in [Clients -> Nat]
      BY DEF TypeOK
    <3>2. born' \in [Clients -> Nat] /\ Quarantined' \subseteq Leases
      BY TypeHost
    <3>3. \A d \in Clients \ {c} : born'[d] = born[d]
      BY OthersKept
    <3>4. born[c] <= born'[c]
      BY OthersKept
    <3>. QED  BY <3>1, <3>2, <3>3, <3>4
  <2>1. \A l \in Quarantined' : l \in Quarantined \/ (Active(c) /\ l = HeldBy(c))
    BY <1>2 DEF Keeps, Acquires, Drops, Quarantines
  <2>2. \A l \in Quarantined' : l.no <= born[l.peer]
    BY <2>1 DEF LeaseInv, ClientInv
  <2>. QED  BY <2>0, <2>2 DEF Leases
<1>6. IsFiniteSet(leases') /\ (scope'.max_sessions # 0 => Cardinality(leases') <= scope'.max_sessions)
  <2>0. scope.max_sessions \in Nat /\ IsFiniteSet(leases) /\ Cardinality(leases) \in Nat
    BY FS_CardinalityType DEF TypeOK, Limits, LeaseInv
  <2>1. CASE UNCHANGED leases
    BY <2>0, <2>1 DEF LeaseInv
  <2>2. CASE Acquires(c, lease)
    <3>1. /\ IsFiniteSet(leases \cup {lease})
          /\ Cardinality(leases \cup {lease}) = IF lease \in leases THEN Cardinality(leases)
                                                                  ELSE Cardinality(leases) + 1
      BY <2>0, FS_AddElement
    <3>2. leases' = leases \cup {lease} /\ (scope.max_sessions # 0 => Cardinality(leases) < scope.max_sessions)
      BY <2>2 DEF Acquires, HasRoom
    <3>. QED  BY <2>0, <3>1, <3>2
  <2>3. CASE Drops(c)
    <3>1. /\ IsFiniteSet(leases \ {HeldBy(c)})
          /\ Cardinality(leases \ {HeldBy(c)}) = IF HeldBy(c) \in leases THEN Cardinality(leases) - 1
                                                                        ELSE Cardinality(leases)
      BY <2>0, FS_RemoveElement
    <3>2. leases' = leases \ {HeldBy(c)} /\ (scope.max_sessions # 0 => Cardinality(leases) <= scope.max_sessions)
      BY <2>3 DEF Drops, LeaseInv
    <3>. QED  BY <2>0, <3>1, <3>2
  <2>. QED  BY <1>2, <2>1, <2>2, <2>3 DEF Keeps, Quarantines
<1>. QED  BY <1>4, <1>5, <1>6 DEF LeaseInv

LEMMA LeaseStep ==
  TypeOK /\ ClientInv /\ QueueInv /\ LeaseInv /\ [Next]_vars => LeaseInv'
<1>. SUFFICES ASSUME TypeOK, ClientInv, QueueInv, LeaseInv, [Next]_vars PROVE LeaseInv'
  OBVIOUS
<1>1. ASSUME NEW c \in Clients, HostStep(RunOp(c)) \/ HostStep(HostAwait(c)) PROVE LeaseInv'
  BY <1>1, StepIsMove, LeaseHost DEF HostStep
<1>2. ASSUME \A d \in Clients : (Live(d)' <=> Live(d)) /\ sessions'[d].lease = sessions[d].lease,
             work' = work
      PROVE  Held' = Held
  BY <1>2 DEF Held, HeldBy, Active, ClosingPeer, ConnectingPeer
<1>3. ASSUME NEW c \in Clients, ClientEvent(c) PROVE LeaseInv'
  <2>1. Held' = Held /\ Quarantined' = Quarantined /\ UNCHANGED <<leases, born>>
    BY <1>2, <1>3, EventMeans DEF Quarantined
  <2>2. scope'.max_sessions = scope.max_sessions
    <3>1. UNCHANGED scope \/ (scope' = [scope EXCEPT !.late = @ - 1])
      BY <1>3 DEF ClientEvent, Arrive, Leave, PeerJoined, PeerLeft, TransportUp, TransportDown, GraceEnds,
         ReofferDue, Hangup, ConnectDies, LateEvent, ChangesSession, Outside
    <3>. QED  BY <3>1 DEF TypeOK, Limits
  <2>. QED  BY <2>1, <2>2 DEF LeaseInv
<1>4. ASSUME NEW s \in Sessions, SessionStep(s) PROVE LeaseInv'
  <2>1. UNCHANGED <<leases, sessions, work, quarantineWaits, born>>
    BY <1>4, SessionMeans
  <2>2. Held' = Held /\ Quarantined' = Quarantined
    BY <1>2, <2>1 DEF Live, Quarantined
  <2>3. scope'.max_sessions = scope.max_sessions
    <3>1. UNCHANGED scope \/ (scope' = [scope EXCEPT !.forced = @ - 1]) \/ (scope' = [scope EXCEPT !.drops = @ - 1])
      BY <1>4 DEF SessionStep, Prepare, PrepareFails, Commit, Created, EndSession, ConnectsOver, ClosesOver,
         Destroyed, DestroyedFails, Poll, PollGivesUp, TimerFires, AgentReconnects, Forgotten
    <3>. QED  BY <3>1 DEF TypeOK, Limits
  <2>. QED  BY <2>1, <2>2, <2>3 DEF LeaseInv
<1>5. ASSUME NEW lease \in Quarantined, NEW side \in {"pc", "agent"},
             HostStep(Settled /\ LateAnswer(lease, side))
      PROVE  LeaseInv'
  <2>1. /\ UNCHANGED <<scope, sessions, work, born>>
        /\ \/ Quarantined' = Quarantined /\ UNCHANGED leases
           \/ Quarantined' = Quarantined \ {lease} /\ leases' = leases \ {lease}
    BY <1>5, AnswerMeans
  <2>2. Held' = Held
    BY <1>2, <2>1 DEF Live
  <2>3. lease \notin Held
    BY DEF Held, ClientInv
  <2>4. scope.max_sessions \in Nat /\ IsFiniteSet(leases) /\ Cardinality(leases) \in Nat
    BY FS_CardinalityType DEF TypeOK, Limits, LeaseInv
  <2>5. IsFiniteSet(leases \ {lease}) /\ Cardinality(leases \ {lease}) <= Cardinality(leases)
        /\ Cardinality(leases \ {lease}) \in Nat
    BY <2>4, FS_RemoveElement, FS_CardinalityType
  <2>6. leases' = (Held \cup Quarantined)' /\ \A l \in Quarantined' : l.no <= born'[l.peer]
    BY <2>1, <2>2, <2>3 DEF LeaseInv
  <2>7. IsFiniteSet(leases') /\ (scope.max_sessions # 0 => Cardinality(leases') <= scope.max_sessions)
    <3>1. scope.max_sessions # 0 => Cardinality(leases) <= scope.max_sessions
      BY DEF LeaseInv
    <3>2. CASE leases' = leases
      BY <2>4, <3>1, <3>2
    <3>3. CASE leases' = leases \ {lease}
      BY <2>4, <2>5, <3>1, <3>3
    <3>. QED  BY <2>1, <3>2, <3>3
  <2>. QED  BY <2>1, <2>6, <2>7 DEF LeaseInv
<1>6. CASE UNCHANGED vars
  BY <1>2, <1>6 DEF vars, hostVars, Live, Quarantined, LeaseInv
<1>. QED  BY <1>1, <1>3, <1>4, <1>5, <1>6, NextMeans

\* A host is cleared exactly when the last of its leases leaves quarantine.
LEMMA RecycleStep ==
  TypeOK /\ ClientInv /\ QueueInv /\ RecycleMatchesQuarantine /\ [Next]_vars => RecycleMatchesQuarantine'
<1>. SUFFICES ASSUME TypeOK, ClientInv, QueueInv, RecycleMatchesQuarantine, [Next]_vars
     PROVE  RecycleMatchesQuarantine'
  OBVIOUS
<1>0. \A host : host \in recycleRequired <=> \E l \in Quarantined : host = HostOf(l)
  BY DEF RecycleMatchesQuarantine
<1>. SUFFICES \A host : host \in recycleRequired' <=> \E l \in Quarantined' : host = HostOf(l)
  BY DEF RecycleMatchesQuarantine, HostOf
<1>1. CASE Quarantined' = Quarantined /\ UNCHANGED recycleRequired
  BY <1>0, <1>1
<1>2. ASSUME NEW c \in Clients, HostStep(RunOp(c)) \/ HostStep(HostAwait(c)),
             ~(Quarantined' = Quarantined /\ UNCHANGED recycleRequired)
      PROVE  \A host : host \in recycleRequired' <=> \E l \in Quarantined' : host = HostOf(l)
  <2>1. Drops(c) \/ Quarantines(c)
    BY <1>2, StepIsMove, LeaseMoves DEF HostStep, Keeps, Acquires
  <2>2. CASE Quarantines(c)
    BY <1>0, <2>2 DEF Quarantines
  <2>3. CASE Drops(c)
    BY <1>0, <2>3 DEF Drops, RecycleUnless, QuarantinedOf
  <2>. QED  BY <2>1, <2>2, <2>3
<1>3. ASSUME NEW lease \in Quarantined, NEW side \in {"pc", "agent"},
             HostStep(Settled /\ LateAnswer(lease, side))
      PROVE  \A host : host \in recycleRequired' <=> \E l \in Quarantined' : host = HostOf(l)
  BY <1>0, <1>3, AnswerMeans DEF RecycleUnless, QuarantinedOf
<1>. QED  BY <1>1, <1>2, <1>3, NextMeans, EventMeans, SessionMeans DEF vars, hostVars, Quarantined

-----------------------------------------------------------------------------
(* Slots: what a session is while it is torn down, and after. *)

LEMMA SlotInit == Init => SlotInv /\ TornDownIsEmpty
  BY DEF Init, HostInit, SlotInv, TornDownIsEmpty, Active, Live, ClosingPeer, ConnectingPeer, Idle, NoSession, Peers

\* What a step of a session does to its slot and its teardown.
LEMMA FlightMeans ==
  ASSUME NEW s \in Sessions, SessionStep(s)
  PROVE  \/ UNCHANGED <<slots, flight, hostClosing, online>> /\ ~Commit(s) /\ ~Destroyed(s)
         \/ Commit(s)
         \/ /\ s \in slots /\ flight[s] = "none" /\ flight' = [flight EXCEPT ![s] = "connects"]
            /\ hostClosing' = hostClosing \cup {s}
            /\ UNCHANGED <<slots, online, preparing, peerOps, incarnation, retired>>
         \/ ConnectsOver(s) \/ ClosesOver(s) \/ Destroyed(s) \/ DestroyedFails(s)
<1>1. CASE \E why : StartTeardown(s, why)
  BY <1>1 DEF StartTeardown
<1>2. CASE \E why : JoinTeardown(s, why)
  BY <1>2 DEF JoinTeardown, Commit, Destroyed, hostVars
<1>3. CASE Prepare(s) \/ PrepareFails(s) \/ Created(s) \/ AgentReconnects(s) \/ Forgotten
  BY <1>3 DEF Prepare, PrepareFails, Created, AgentReconnects, Forgotten, Commit, Destroyed, hostVars
<1>4. CASE TimerFires(s)
  BY <1>1, <1>2, <1>4 DEF TimerFires, Commit, Destroyed, hostVars
<1>5. CASE EndSession(s)
  BY <1>1, <1>2, <1>5 DEF EndSession, Teardown
<1>6. CASE \E grace \in polls[s] : Poll(s, grace) \/ PollGivesUp(s, grace)
  <2>1. CASE \E grace : ScheduleIdle(s, grace)
    BY <1>1, <1>2, <2>1 DEF ScheduleIdle, Teardown, Commit, Destroyed, hostVars
  <2>. QED  BY <1>3, <1>6, <2>1 DEF Poll, PollGivesUp
<1>. QED  BY <1>3, <1>4, <1>5, <1>6 DEF SessionStep

\* Only a client that is active or asks for something gives a host work.
LEMMA MoveMeans ==
  ASSUME NEW c \in Clients, HostMove(c)
  PROVE  Active(c) \/ peerOps[c] # <<>>
  BY DEF HostMove, Register, BuildFails, PartialClosed, OfferSent, OfferFails, CloseEnds, CloseSession,
         Active, ConnectingPeer

\* An event is queued for an active client, or while the agent is in the room.
LEMMA EventNeeds ==
  ASSUME NEW c \in Clients, ClientEvent(c), peerOps' # peerOps
  PROVE  Room[c] \in online \/ Active(c)
  BY DEF ClientEvent, Arrive, Leave, PeerJoined, PeerLeft, TransportUp, TransportDown, GraceEnds,
         ReofferDue, Hangup, ConnectDies, LateEvent, ChangesSession, hostVars, Active

Gone(c) == flight[Room[c]] = "hook" \/ Room[c] \notin slots
Empty(c) == ~Active(c) /\ peerOps[c] = <<>>

LEMMA TornDownStep ==
  TypeOK /\ ClientInv /\ QueueInv /\ SlotInv /\ TornDownIsEmpty /\ [Next]_vars => TornDownIsEmpty'
<1>. SUFFICES ASSUME TypeOK, ClientInv, QueueInv, SlotInv, TornDownIsEmpty, [Next]_vars,
                     NEW d \in Clients, Gone(d)'
     PROVE  Empty(d)'
  BY DEF TornDownIsEmpty, Gone, Empty, Peers
<1>0. /\ Room[d] \in Sessions /\ flight \in [Sessions -> {"none", "connects", "closes", "hook"}]
      /\ Gone(d) => Empty(d)
      /\ work \in [Clients -> Works]
  BY HostAssumption DEF TypeOK, Gone, Empty, TornDownIsEmpty, Peers, Works
<1>1. ASSUME NEW c \in Clients, HostStep(RunOp(c)) \/ HostStep(HostAwait(c)) PROVE Empty(d)'
  <2>1. HostMove(c) /\ UNCHANGED <<flight, slots>>
    BY <1>1, StepIsMove DEF HostStep
  <2>2. Empty(d)
    BY <1>0, <2>1 DEF Gone
  <2>3. d # c
    BY <2>1, <2>2, MoveMeans DEF Empty
  <2>. QED  BY <2>1, <2>2, <2>3, OthersHold, OthersKept DEF Empty
<1>2. ASSUME NEW c \in Clients, ClientEvent(c) PROVE Empty(d)'
  <2>1. /\ UNCHANGED <<flight, slots, work>>
        /\ Live(d)' <=> Live(d)
        /\ UNCHANGED peerOps \/ \E o \in Asked(c) : Enqueue(c, o)
    BY <1>2, EventMeans
  <2>2. Empty(d)
    BY <1>0, <2>1 DEF Gone
  <2>3. Room[d] \notin online
    BY <1>0, <2>1 DEF Gone, SlotInv
  <2>4. d = c => UNCHANGED peerOps
    BY <1>2, <2>2, <2>3, EventNeeds DEF Empty
  <2>5. peerOps'[d] = peerOps[d]
    BY <2>1, <2>4 DEF TypeOK, Enqueue
  <2>. QED  BY <2>1, <2>2, <2>5 DEF Empty, Active, ClosingPeer, ConnectingPeer
<1>3. ASSUME NEW s \in Sessions, SessionStep(s) PROVE Empty(d)'
  <2>1. /\ UNCHANGED <<sessions, work>>
        /\ UNCHANGED peerOps \/ ConnectsOver(s)
    BY <1>3, SessionMeans
  <2>2. ASSUME Empty(d), peerOps'[d] = peerOps[d] PROVE Empty(d)'
    BY <2>1, <2>2 DEF Empty, Active, Live, ClosingPeer, ConnectingPeer
  <2>3. CASE UNCHANGED <<slots, flight>> \/ Commit(s)
    BY <1>0, <2>1, <2>2, <2>3 DEF Gone, Commit, ConnectsOver
  <2>4. CASE flight' = [flight EXCEPT ![s] = "connects"] /\ UNCHANGED <<slots, peerOps>> /\ s \in slots
    BY <1>0, <2>2, <2>4 DEF Gone
  <2>5. CASE ConnectsOver(s)
    <3>1. s \in slots /\ slots' = slots /\ flight' = [flight EXCEPT ![s] = "closes"]
          /\ \A c \in Clients : Room[c] # s => peerOps'[c] = peerOps[c]
      BY <2>5 DEF ConnectsOver, SlotInv
    <3>. QED  BY <1>0, <2>2, <3>1 DEF Gone
  <2>6. CASE ClosesOver(s)
    <3>1. UNCHANGED <<slots, peerOps>> /\ flight[s] = "closes" /\ flight' = [flight EXCEPT ![s] = "hook"] /\ ~Busy(s)
      BY <2>6 DEF ClosesOver, hostVars
    <3>2. CASE Room[d] = s
      <4>1. work[d] = Idle /\ peerOps[d] = <<>> /\ Len(peerOps[d]) = 0
        BY <3>1, <3>2, EmptySeq DEF Busy, Peers
      <4>2. ~Live(d)
        BY <1>0, <3>1, <3>2, <4>1 DEF SlotInv, Peers
      <4>. QED  BY <2>2, <3>1, <4>1, <4>2 DEF Empty, Active, ClosingPeer, ConnectingPeer, Idle
    <3>. QED  BY <1>0, <2>2, <3>1, <3>2 DEF Gone
  <2>7. CASE Destroyed(s) \/ DestroyedFails(s)
    <3>1. flight[s] = "hook" /\ slots \ {s} \subseteq slots' /\ flight' = [flight EXCEPT ![s] = "none"] /\ UNCHANGED peerOps
      BY <2>7 DEF Destroyed, DestroyedFails, hostVars
    <3>. QED  BY <1>0, <2>2, <3>1 DEF Gone
  <2>. QED  BY <1>3, <2>3, <2>4, <2>5, <2>6, <2>7, FlightMeans
<1>4. CASE UNCHANGED <<slots, flight, sessions, work, peerOps>>
  BY <1>0, <1>4 DEF Gone, Empty, Active, Live, ClosingPeer, ConnectingPeer
<1>. QED  BY <1>1, <1>2, <1>3, <1>4, NextMeans, AnswerMeans DEF vars, hostVars, podVars

\* While a host closes, each of its sessions has a close in its queue.
WillClose(c) ==
    flight[Room[c]] = "closes" =>
        /\ ~ConnectingPeer(c)
        /\ Live(c) => \E i \in 1 .. Len(peerOps[c]) : peerOps[c][i] = Close
SlotShape(s) ==
    /\ flight[s] # "none" => s \in slots /\ s \in hostClosing
    /\ s \in online => s \in slots /\ flight[s] # "hook"
    /\ preparing[s] = "connecting" => s \notin slots

SlotClauses == (\A s \in Sessions : SlotShape(s)) /\ (\A c \in Clients : WillClose(c))

LEMMA SlotParts == SlotInv <=> SlotClauses
  BY HostAssumption DEF SlotInv, SlotClauses, SlotShape, WillClose, Peers

LEMMA SlotPartsNext == (SlotInv <=> SlotClauses)'
  BY SlotParts, PTL

LEMMA ShapeStep ==
  TypeOK /\ SlotInv /\ TornDownIsEmpty /\ [Next]_vars => \A s \in Sessions : SlotShape(s)'
<1>. SUFFICES ASSUME TypeOK, SlotInv, TornDownIsEmpty, [Next]_vars, NEW r \in Sessions
     PROVE  SlotShape(r)'
  OBVIOUS
<1>0. /\ flight \in [Sessions -> {"none", "connects", "closes", "hook"}] /\ SlotShape(r)
      /\ preparing \in [Sessions -> {"none", "connecting", "created"}]
  BY SlotParts DEF TypeOK, SlotClauses
<1>1. CASE UNCHANGED <<flight, slots, hostClosing, online, preparing>>
  BY <1>0, <1>1 DEF SlotShape
<1>2. ASSUME NEW s \in Sessions, SessionStep(s) PROVE SlotShape(r)'
  <2>1. CASE UNCHANGED <<slots, flight, hostClosing, online>> /\ ~Commit(s)
    <3>1. CASE Prepare(s)
      BY <1>0, <2>1, <3>1 DEF SlotShape, Prepare
    <3>2. preparing' = preparing \/ Prepare(s) \/ preparing' = [preparing EXCEPT ![s] = "none"]
      BY <1>2, <2>1, SessionMeans DEF PrepareFails, Created
    <3>. QED  BY <1>0, <2>1, <3>1, <3>2 DEF SlotShape
  <2>2. CASE Commit(s)
    <3>1. preparing' = [preparing EXCEPT ![s] = "created"]
      BY <2>2 DEF Commit
    <3>2. /\ flight[s] = "none" /\ flight' = flight
          /\ slots' = slots \cup {s} /\ hostClosing' = hostClosing \ {s} /\ online' = online \cup {s}
      BY <2>2, CommitMeans
    <3>. QED  BY <1>0, <3>1, <3>2 DEF SlotShape
  <2>3. CASE /\ s \in slots /\ flight[s] = "none" /\ flight' = [flight EXCEPT ![s] = "connects"]
             /\ hostClosing' = hostClosing \cup {s}
             /\ UNCHANGED <<slots, online, preparing>>
    BY <1>0, <2>3 DEF SlotShape
  <2>4. CASE ConnectsOver(s)
    BY <1>0, <2>4 DEF SlotShape, ConnectsOver
  <2>5. CASE ClosesOver(s)
    BY <1>0, <2>5 DEF SlotShape, ClosesOver, hostVars
  <2>6. CASE Destroyed(s)
    BY <1>0, <2>6 DEF SlotShape, Destroyed, hostVars
  <2>7. CASE DestroyedFails(s)
    BY <1>0, <2>7 DEF SlotShape, DestroyedFails, hostVars
  <2>. QED  BY <1>2, <2>1, <2>2, <2>3, <2>4, <2>5, <2>6, <2>7, FlightMeans
<1>3. ASSUME NEW c \in Clients, HostStep(RunOp(c)) \/ HostStep(HostAwait(c)) PROVE SlotShape(r)'
  <2>1. UNCHANGED hostClosing
    BY <1>3 DEF HostStep, RunOp, RunJoin, RunConnect, RunClose, RunReoffer, HostAwait, Build, Offer, EndClose,
       Skip, CloseSession, ConnectClient, Register, BuildFails, PartialClosed, OfferSent, OfferFails, CloseEnds, AtWork
  <2>. QED  BY <1>1, <1>3, <2>1 DEF HostStep
<1>4. ASSUME NEW c \in Clients, ClientEvent(c) PROVE SlotShape(r)'
  BY <1>1, <1>4 DEF ClientEvent, Arrive, Leave, PeerJoined, PeerLeft, TransportUp, TransportDown, GraceEnds,
         ReofferDue, Hangup, ConnectDies, LateEvent, ChangesSession, Outside, hostVars
<1>. QED  BY <1>1, <1>2, <1>3, <1>4, NextMeans, AnswerMeans DEF vars, hostVars, podVars

LEMMA CloseStep ==
  TypeOK /\ ClientInv /\ QueueInv /\ SlotInv /\ [Next]_vars => \A d \in Clients : WillClose(d)'
<1>. SUFFICES ASSUME TypeOK, ClientInv, QueueInv, SlotInv, [Next]_vars, NEW d \in Clients,
                     flight'[Room[d]] = "closes"
     PROVE  /\ ~ConnectingPeer(d)'
            /\ Live(d)' => \E i \in 1 .. Len(peerOps'[d]) : peerOps'[d][i] = Close
  BY DEF WillClose
<1>. DEFINE Goal == /\ ~ConnectingPeer(d)'
                    /\ Live(d)' => \E i \in 1 .. Len(peerOps'[d]) : peerOps'[d][i] = Close
<1>0. /\ Room[d] \in Sessions /\ flight \in [Sessions -> {"none", "connects", "closes", "hook"}]
      /\ sessions \in [Clients -> {NoSession} \cup LiveRecords] /\ work \in [Clients -> Works]
      /\ peerOps \in [Clients -> Seq(Ops)] /\ peerOps[d] \in Seq(Ops) /\ WillClose(d)
  BY HostAssumption, SlotParts DEF TypeOK, Ops, LiveRecords, Works, SlotClauses
<1>1. ASSUME flight[Room[d]] = "closes", Live(d)' <=> Live(d), work'[d] = work[d],
             peerOps'[d] = peerOps[d] \/ \E o \in Ops : peerOps'[d] = Append(peerOps[d], o)
      PROVE  Goal
  <2>1. ~ConnectingPeer(d)'
    BY <1>0, <1>1 DEF WillClose, ConnectingPeer
  <2>2. \A i \in 1 .. Len(peerOps[d]) : i \in 1 .. Len(peerOps'[d]) /\ peerOps'[d][i] = peerOps[d][i]
    BY <1>0, <1>1, AppendOp
  <2>. QED  BY <1>0, <1>1, <2>1, <2>2 DEF WillClose
<1>2. ASSUME NEW c \in Clients, HostStep(RunOp(c)) \/ HostStep(HostAwait(c)) PROVE Goal
  <2>1. HostMove(c) /\ UNCHANGED flight
    BY <1>2, StepIsMove DEF HostStep
  <2>2. CASE d # c
    <3>1. sessions'[d] = sessions[d] /\ work'[d] = work[d] /\ peerOps'[d] = peerOps[d]
      BY <2>1, <2>2, OthersKept
    <3>. QED  BY <1>1, <2>1, <3>1 DEF Live
  <2>3. CASE d = c
    <3>0. ~ConnectingPeer(d) /\ Room[d] \in hostClosing
      BY <1>0, <2>1 DEF WillClose, SlotInv
    <3>1. ASSUME Skip(d), peerOps[d] # <<>>, Head(peerOps[d]) = Close => ~Live(d), work[d] = Idle PROVE Goal
      <4>1. UNCHANGED <<sessions, work>> /\ peerOps'[d] = Tail(peerOps[d])
        BY <1>0, <3>1 DEF Skip
      <4>2. Head(peerOps[d]) = peerOps[d][1] /\ Len(peerOps[d]) \in Nat \ {0}
            /\ \A i \in 2 .. Len(peerOps[d]) : i - 1 \in 1 .. Len(Tail(peerOps[d])) /\ Tail(peerOps[d])[i - 1] = peerOps[d][i]
        BY <1>0, <3>1, TailOp
      <4>3. ASSUME Live(d), NEW i \in 1 .. Len(peerOps[d]), peerOps[d][i] = Close
            PROVE  \E j \in 1 .. Len(Tail(peerOps[d])) : Tail(peerOps[d])[j] = Close
        <5>1. i # 1
          BY <3>1, <4>2, <4>3
        <5>. QED  BY <4>2, <4>3, <5>1
      <4>. QED  BY <1>0, <2>1, <3>0, <4>1, <4>3 DEF WillClose, Live, ConnectingPeer
    <3>2. ASSUME NEW q, CloseSession(d, q) PROVE Goal
      BY <1>0, <3>2 DEF CloseSession, Live, ConnectingPeer
    <3>3. CASE ConnectClient(d, Tail(peerOps[d])) /\ ~Live(d)
      BY <3>0, <3>3 DEF ConnectClient, Admitted, ConnectingPeer, Live
    <3>4. CASE Register(d) \/ BuildFails(d) \/ PartialClosed(d) \/ OfferSent(d) \/ OfferFails(d)
      BY <3>0, <3>4 DEF Register, BuildFails, PartialClosed, OfferSent, OfferFails, ConnectingPeer
    <3>5. CASE \E pc, agent \in Outcomes : CloseEnds(d, pc, agent)
      <4>1. UNCHANGED sessions /\ work'[d] = Idle /\ work[d].step = "closing" /\ Idle.step = "idle"
        BY <1>0, <3>5 DEF CloseEnds, ClosingPeer, Idle
      <4>. QED  BY <4>1 DEF ClientInv, ConnectingPeer, Live
    <3>6. HostMove(d)
      BY <2>1, <2>3
    <3>. QED  BY <3>1, <3>2, <3>3, <3>4, <3>5, <3>6 DEF HostMove
  <2>. QED  BY <2>2, <2>3
<1>3. ASSUME NEW c \in Clients, ClientEvent(c) PROVE Goal
  <2>1. /\ UNCHANGED <<flight, work>>
        /\ Live(d)' <=> Live(d)
        /\ UNCHANGED peerOps \/ \E o \in Asked(c) : Enqueue(c, o)
        /\ Asked(c) \subseteq Ops
    BY <1>3, EventMeans
  <2>. QED  BY <1>0, <1>1, <2>1 DEF Enqueue
<1>4. ASSUME NEW s \in Sessions, SessionStep(s) PROVE Goal
  <2>1. /\ UNCHANGED <<sessions, work>>
        /\ UNCHANGED peerOps \/ ConnectsOver(s)
    BY <1>4, SessionMeans
  <2>2. CASE ConnectsOver(s)
    <3>1. CASE Room[d] = s
      <4>1. ~ConnectingPeer(d)'
        BY <2>1, <2>2, <3>1 DEF ConnectsOver, Connecting, Peers, ConnectingPeer
      <4>2. Active(d) => peerOps'[d] = Append(peerOps[d], Close)
        BY <2>2, <3>1 DEF ConnectsOver
      <4>3. Active(d) => peerOps'[d][Len(peerOps[d]) + 1] = Close /\ Len(peerOps[d]) + 1 \in 1 .. Len(peerOps'[d])
        BY <1>0, <4>2, AppendOp, OpsTyped
      <4>. QED  BY <2>1, <4>1, <4>3 DEF Live, Active
    <3>2. CASE Room[d] # s
      <4>1. flight[Room[d]] = "closes" /\ peerOps'[d] = peerOps[d]
        BY <1>0, <2>2, <3>2 DEF ConnectsOver
      <4>. QED  BY <1>1, <2>1, <4>1 DEF Live
    <3>. QED  BY <3>1, <3>2
  <2>3. CASE ~ConnectsOver(s)
    <3>1. flight[Room[d]] = "closes"
      BY <1>0, <1>4, <2>3, FlightMeans DEF Commit, ClosesOver, Destroyed, DestroyedFails
    <3>. QED  BY <1>1, <2>1, <2>3, <3>1 DEF Live
  <2>. QED  BY <2>2, <2>3
<1>5. CASE UNCHANGED <<flight, sessions, work, peerOps>>
  BY <1>0, <1>1, <1>5 DEF Live
<1>. QED  BY <1>2, <1>3, <1>4, <1>5, NextMeans, AnswerMeans DEF vars, hostVars, podVars

-----------------------------------------------------------------------------
(* Quarantine: the leases of a session in quarantine belong to one host, which
   the pod sees in the session's slot or among its retired hosts. *)

LEMMA QuarantineInit == Init => QuarantineInv
  BY DEF Init, HostInit, QuarantineInv, Quarantined

SeenAt(lease) ==
    /\ preparing[Room[lease.peer]] # "connecting"
    /\ lease.host = IF Room[lease.peer] \in slots THEN incarnation[Room[lease.peer]] ELSE retired[Room[lease.peer]]

LEMMA QuarantineStep ==
  /\ TypeOK /\ ClientInv /\ QueueInv /\ RecycleMatchesQuarantine /\ SlotInv /\ TornDownIsEmpty /\ QuarantineInv
  /\ [Next]_vars
  => QuarantineInv'
<1>. SUFFICES ASSUME TypeOK, ClientInv, QueueInv, RecycleMatchesQuarantine, SlotInv, TornDownIsEmpty,
                     QuarantineInv, [Next]_vars, NEW l \in Quarantined'
     PROVE  SeenAt(l)'
  BY DEF QuarantineInv, SeenAt
<1>. DEFINE r == Room[l.peer]
<1>0. /\ Room \in [Clients -> Sessions] /\ Quarantined \subseteq Leases
      /\ preparing \in [Sessions -> {"none", "connecting", "created"}]
      /\ incarnation \in [Sessions -> Nat] /\ retired \in [Sessions -> Nat]
      /\ l \in Quarantined => SeenAt(l)
  BY HostAssumption DEF TypeOK, QuarantineInv, SeenAt
<1>1. CASE l \in Quarantined /\ UNCHANGED <<preparing, slots, incarnation, retired>>
  BY <1>0, <1>1 DEF SeenAt
<1>2. ASSUME NEW c \in Clients, HostStep(RunOp(c)) \/ HostStep(HostAwait(c)) PROVE SeenAt(l)'
  <2>1. HostMove(c) /\ UNCHANGED <<preparing, slots, retired>>
    BY <1>2, StepIsMove DEF HostStep
  <2>2. UNCHANGED incarnation /\ (Quarantined' = Quarantined \/ (Active(c) /\ Quarantined' = Quarantined \cup {HeldBy(c)}))
    BY <2>1, OthersKept DEF Quarantined
  <2>3. CASE l \notin Quarantined
    <3>1. Active(c) /\ l = HeldBy(c) /\ l.peer = c /\ l.host = incarnation[Room[c]]
      BY <2>2, <2>3 DEF ClientInv
    <3>2. Room[c] \in slots
      BY <1>0, <3>1 DEF TornDownIsEmpty, Peers
    <3>3. preparing[Room[c]] # "connecting"
      BY <1>0, <3>2 DEF SlotInv
    <3>. QED  BY <2>1, <2>2, <3>1, <3>2, <3>3 DEF SeenAt
  <2>. QED  BY <1>1, <2>1, <2>2, <2>3
<1>3. ASSUME NEW c \in Clients, ClientEvent(c) PROVE SeenAt(l)'
  BY <1>1, <1>3, EventMeans DEF Quarantined
<1>4. ASSUME NEW s \in Sessions, SessionStep(s) PROVE SeenAt(l)'
  <2>0. Quarantined' = Quarantined /\ l \in Quarantined /\ SeenAt(l) /\ r \in Sessions
    BY <1>0, <1>4, SessionMeans DEF Quarantined, Leases
  <2>1. CASE Prepare(s)
    <3>1. /\ UNCHANGED <<slots, incarnation, retired>> /\ preparing' = [preparing EXCEPT ![s] = "connecting"]
          /\ s \notin slots /\ <<s, retired[s]>> \notin recycleRequired
      BY <2>1 DEF Prepare, RecycleRequired, hostVars
    <3>2. r # s
      BY <2>0, <3>1 DEF SeenAt, RecycleMatchesQuarantine, HostOf
    <3>. QED  BY <1>0, <2>0, <3>1, <3>2 DEF SeenAt
  <2>2. CASE Commit(s)
    <3>1. /\ preparing[s] = "connecting" /\ preparing' = [preparing EXCEPT ![s] = "created"]
          /\ slots' = slots \cup {s} /\ incarnation' = [incarnation EXCEPT ![s] = @ + 1] /\ UNCHANGED retired
      BY <2>2 DEF Commit
    <3>2. r # s
      BY <2>0, <3>1 DEF SeenAt
    <3>. QED  BY <1>0, <2>0, <3>1, <3>2 DEF SeenAt
  <2>3. CASE PrepareFails(s) \/ Created(s)
    <3>1. UNCHANGED <<slots, incarnation, retired>> /\ preparing' = [preparing EXCEPT ![s] = "none"]
      BY <2>3 DEF PrepareFails, Created, hostVars
    <3>. QED  BY <1>0, <2>0, <3>1 DEF SeenAt
  <2>4. CASE Destroyed(s)
    <3>1. /\ slots' = slots \ {s} /\ UNCHANGED <<incarnation, preparing>> /\ flight[s] = "hook"
          /\ retired' = [retired EXCEPT ![s] = IF Retires(s) THEN incarnation[s] ELSE @]
      BY <2>4 DEF Destroyed, hostVars
    <3>2. s \in slots
      BY <3>1 DEF SlotInv
    <3>3. CASE r = s
      <4>1. l.host = incarnation[s]
        BY <2>0, <3>2, <3>3 DEF SeenAt
      <4>2. Retires(s)
        BY <2>0, <3>3, <4>1 DEF Retires, QuarantinedOf, HostOf, Host
      <4>. QED  BY <1>0, <2>0, <3>1, <3>3, <4>1, <4>2 DEF SeenAt
    <3>4. CASE r # s
      BY <1>0, <2>0, <3>1, <3>4 DEF SeenAt
    <3>. QED  BY <3>3, <3>4
  <2>5. CASE ~Prepare(s) /\ ~PrepareFails(s) /\ ~Commit(s) /\ ~Created(s) /\ ~Destroyed(s)
    <3>1. UNCHANGED <<preparing, incarnation, retired>>
      BY <1>4, <2>5, SessionMeans
    <3>2. slots' = slots
      BY <1>4, <2>5, FlightMeans DEF ConnectsOver, ClosesOver, DestroyedFails
    <3>. QED  BY <1>1, <2>0, <3>1, <3>2
  <2>. QED  BY <2>1, <2>2, <2>3, <2>4, <2>5
<1>5. CASE Quarantined' \subseteq Quarantined /\ UNCHANGED <<preparing, slots, incarnation, retired>>
  BY <1>1, <1>5
<1>. QED  BY <1>2, <1>3, <1>4, <1>5, NextMeans, AnswerMeans DEF vars, hostVars, podVars, Quarantined

-----------------------------------------------------------------------------
(* Capacity: slots and preparations stay within their limit. *)

LEMMA CapacityInit == Init => CapacityInv
<1>. SUFFICES ASSUME Init PROVE CapacityInv
  OBVIOUS
<1>1. Reserved = {}
  BY DEF Init, Reserved
<1>2. scope.max_prepared \in Nat
  BY HostAssumption DEF Init, Limits
<1>. QED  BY <1>1, <1>2, FS_EmptySet DEF CapacityInv

LEMMA CapacityStep == TypeOK /\ SlotInv /\ CapacityInv /\ [Next]_vars => CapacityInv'
<1>. SUFFICES ASSUME TypeOK, SlotInv, CapacityInv, [Next]_vars PROVE CapacityInv'
  OBVIOUS
<1>0. /\ preparing \in [Sessions -> {"none", "connecting", "created"}] /\ slots \subseteq Sessions
      /\ scope.max_prepared \in Nat /\ IsFiniteSet(Reserved) /\ Cardinality(Reserved) \in Nat
      /\ scope.max_prepared # 0 => Cardinality(Reserved) <= scope.max_prepared
  BY FS_CardinalityType DEF TypeOK, Limits, CapacityInv
<1>1. scope'.max_prepared = scope.max_prepared
  <2>1. \/ UNCHANGED scope \/ scope' = [scope EXCEPT !.late = @ - 1]
        \/ scope' = [scope EXCEPT !.forced = @ - 1] \/ scope' = [scope EXCEPT !.drops = @ - 1]
    <3>1. ASSUME NEW c \in Clients, ClientEvent(c) PROVE UNCHANGED scope \/ scope' = [scope EXCEPT !.late = @ - 1]
      BY <3>1 DEF ClientEvent, Arrive, Leave, PeerJoined, PeerLeft, TransportUp, TransportDown, GraceEnds,
         ReofferDue, Hangup, ConnectDies, LateEvent, ChangesSession, Outside
    <3>2. ASSUME NEW s \in Sessions, SessionStep(s)
          PROVE  \/ UNCHANGED scope \/ scope' = [scope EXCEPT !.forced = @ - 1] \/ scope' = [scope EXCEPT !.drops = @ - 1]
      BY <3>2 DEF SessionStep, Prepare, PrepareFails, Commit, Created, EndSession, ConnectsOver, ClosesOver,
         Destroyed, DestroyedFails, Poll, PollGivesUp, TimerFires, AgentReconnects, Forgotten
    <3>. QED  BY <3>1, <3>2, NextMeans DEF HostStep, vars
  <2>. QED  BY <2>1 DEF TypeOK, Limits
<1>2. ASSUME Reserved' \subseteq Reserved PROVE CapacityInv'
  <2>1. IsFiniteSet(Reserved') /\ Cardinality(Reserved') <= Cardinality(Reserved) /\ Cardinality(Reserved') \in Nat
    BY <1>0, <1>2, FS_Subset, FS_CardinalityType
  <2>. QED  BY <1>0, <1>1, <2>1 DEF CapacityInv
<1>3. ASSUME NEW s \in Sessions, SessionStep(s) PROVE CapacityInv'
  <2>1. CASE Prepare(s)
    <3>. DEFINE P == {t \in Sessions : preparing[t] # "none"}
    <3>1. /\ slots' = slots /\ preparing' = [preparing EXCEPT ![s] = "connecting"]
          /\ scope.max_prepared # 0 => Cardinality(slots) + Cardinality(P) + 1 <= scope.max_prepared
      BY <2>1 DEF Prepare, FitsCapacity, Occupied
    <3>2. Reserved' = Reserved \cup {s}
      BY <1>0, <3>1 DEF Reserved
    <3>3. /\ IsFiniteSet(slots) /\ IsFiniteSet(P) /\ Cardinality(slots) \in Nat /\ Cardinality(P) \in Nat
      BY <1>0, FS_Subset, FS_CardinalityType DEF Reserved
    <3>4. Cardinality(Reserved) <= Cardinality(slots) + Cardinality(P)
      <4>1. Reserved = slots \cup P
        BY DEF Reserved
      <4>2. IsFiniteSet(slots \cap P) /\ Cardinality(slots \cap P) \in Nat
        BY <3>3, FS_Subset, FS_CardinalityType
      <4>3. Cardinality(slots \cup P) = Cardinality(slots) + Cardinality(P) - Cardinality(slots \cap P)
        BY <3>3, FS_Union
      <4>. HIDE DEF P
      <4>. QED  BY <3>3, <4>1, <4>2, <4>3
    <3>5. /\ IsFiniteSet(Reserved \cup {s}) /\ Cardinality(Reserved \cup {s}) <= Cardinality(Reserved) + 1
          /\ Cardinality(Reserved \cup {s}) \in Nat
      BY <1>0, FS_AddElement, FS_CardinalityType
    <3>. HIDE DEF P
    <3>6. scope.max_prepared # 0 => Cardinality(Reserved \cup {s}) <= scope.max_prepared
      BY <1>0, <3>1, <3>3, <3>4, <3>5
    <3>. QED  BY <1>1, <3>2, <3>5, <3>6 DEF CapacityInv
  <2>2. CASE ~Prepare(s)
    <3>1. \/ UNCHANGED slots \/ slots' = slots \ {s}
          \/ (slots' = slots \cup {s} /\ preparing[s] = "connecting")
      BY <1>3, FlightMeans DEF Commit, ConnectsOver, ClosesOver, Destroyed, DestroyedFails
    <3>2. \/ UNCHANGED preparing \/ preparing' = [preparing EXCEPT ![s] = "none"]
          \/ (preparing' = [preparing EXCEPT ![s] = "created"] /\ preparing[s] = "connecting")
      BY <1>3, <2>2, SessionMeans DEF PrepareFails, Commit, Created
    <3>3. Reserved' \subseteq Reserved
      BY <1>0, <1>3, <3>1, <3>2 DEF Reserved
    <3>. QED  BY <1>2, <3>3
  <2>. QED  BY <2>1, <2>2
<1>4. CASE UNCHANGED <<slots, preparing>>
  BY <1>2, <1>4 DEF Reserved
<1>5. ASSUME NEW c \in Clients, ClientEvent(c) PROVE CapacityInv'
  BY <1>4, <1>5 DEF ClientEvent, Arrive, Leave, PeerJoined, PeerLeft, TransportUp, TransportDown, GraceEnds,
         ReofferDue, Hangup, ConnectDies, LateEvent, ChangesSession, Outside
<1>. QED  BY <1>3, <1>4, <1>5, NextMeans, AnswerMeans DEF HostStep, vars, podVars

-----------------------------------------------------------------------------
(* The idle timer, and sessions that end without a client. *)

TimerOk(c) ==
    timer[Room[c]] # "off" =>
        /\ ~Active(c)
        /\ \A i \in 1 .. Len(peerOps[c]) : peerOps[c][i].op \notin {"join", "connect"}

LEMMA TimerInit == Init => TimerInv /\ NeverInv
  BY HostAssumption DEF Init, HostInit, TimerInv, NeverInv

\* What an event does to the timer, and what it asks for unless it is a join.
LEMMA EventTimer ==
  ASSUME NEW c \in Clients, ClientEvent(c)
  PROVE  /\ timer' = timer \/ timer' = [timer EXCEPT ![Room[c]] = "off"]
         /\ PeerJoined(c) => timer' = [timer EXCEPT ![Room[c]] = "off"]
         /\ ~PeerJoined(c) =>
              UNCHANGED peerOps \/ \E o \in Asked(c) : Enqueue(c, o) /\ o.op \in {"close", "reoffer"}
  BY DEF ClientEvent, Arrive, Leave, PeerJoined, PeerLeft, TransportUp, TransportDown, GraceEnds,
         ReofferDue, Hangup, ConnectDies, LateEvent, ChangesSession, hostVars, Uncancelled, CancelTimer,
         Asked, Join, Close, CloseIf, Reoffer

\* The timer is armed for a new slot, or when nobody is left.
LEMMA TimerMeans ==
  ASSUME NEW s \in Sessions, SessionStep(s)
  PROVE  \/ timer' = timer \/ timer' = [timer EXCEPT ![s] = "off"] \/ Commit(s)
         \/ Settled /\ ActiveClientCount(s) = 0 /\ timer' = [timer EXCEPT ![s] = "idle"]
<1>1. CASE Prepare(s) \/ PrepareFails(s) \/ Created(s) \/ AgentReconnects(s) \/ ConnectsOver(s) \/ ClosesOver(s)
           \/ Destroyed(s) \/ DestroyedFails(s)
  BY <1>1 DEF Prepare, PrepareFails, Created, AgentReconnects, ConnectsOver, ClosesOver, Destroyed, DestroyedFails
<1>2. CASE EndSession(s) \/ TimerFires(s)
  BY <1>2 DEF EndSession, TimerFires, Teardown, StartTeardown
<1>3. CASE \E grace \in polls[s] : Poll(s, grace) \/ PollGivesUp(s, grace)
  BY <1>3 DEF Poll, PollGivesUp, ScheduleIdle, Teardown, StartTeardown, Forgotten
<1>. QED  BY <1>1, <1>2, <1>3 DEF SessionStep

\* No peer is active when none is counted.
LEMMA NobodyActive ==
  ASSUME TypeOK, NEW s \in Sessions
  PROVE  ActiveClientCount(s) = 0 <=> \A c \in Peers(s) : ~Active(c)
<1>. DEFINE P == {c \in Peers(s) : Active(c)}
<1>1. IsFiniteSet(P)
  <2>1. P \in SUBSET Clients /\ IsFiniteSet(Clients)
    BY HostAssumption DEF Peers
  <2>. QED  BY <2>1, FS_Subset
<1>2. Cardinality(P) = 0 <=> P = {}
  BY <1>1, FS_EmptySet
<1>. QED  BY <1>2 DEF ActiveClientCount

LEMMA TimerStep ==
  TypeOK /\ ClientInv /\ QueueInv /\ SlotInv /\ TornDownIsEmpty /\ TimerInv /\ [Next]_vars => TimerInv'
<1>. SUFFICES ASSUME TypeOK, ClientInv, QueueInv, SlotInv, TornDownIsEmpty, TimerInv, [Next]_vars,
                     NEW d \in Clients, timer'[Room[d]] # "off"
     PROVE  /\ ~Active(d)'
            /\ \A i \in 1 .. Len(peerOps'[d]) : peerOps'[d][i].op \notin {"join", "connect"}
  BY DEF TimerInv
<1>. DEFINE Goal == /\ ~Active(d)'
                    /\ \A i \in 1 .. Len(peerOps'[d]) : peerOps'[d][i].op \notin {"join", "connect"}
<1>0. /\ Room[d] \in Sessions /\ timer \in [Sessions -> {"off", "never_connected", "idle"}]
      /\ sessions \in [Clients -> {NoSession} \cup LiveRecords] /\ work \in [Clients -> Works]
      /\ peerOps \in [Clients -> Seq(Ops)] /\ peerOps[d] \in Seq(Ops) /\ TimerOk(d)
  BY HostAssumption DEF TypeOK, Ops, LiveRecords, Works, TimerInv, TimerOk
<1>1. ASSUME ~Active(d), \A i \in 1 .. Len(peerOps[d]) : peerOps[d][i].op \notin {"join", "connect"},
             Live(d)' <=> Live(d), work'[d] = work[d],
             \/ peerOps'[d] = peerOps[d]
             \/ \E o \in Ops : peerOps'[d] = Append(peerOps[d], o) /\ o.op \in {"close", "reoffer"}
             \/ peerOps[d] # <<>> /\ peerOps'[d] = Tail(peerOps[d])
      PROVE  Goal
  <2>1. ~Active(d)'
    BY <1>1 DEF Active, ClosingPeer, ConnectingPeer
  <2>2. CASE peerOps[d] # <<>> /\ peerOps'[d] = Tail(peerOps[d])
    <3>1. \A i \in 1 .. Len(peerOps'[d]) : i + 1 \in 1 .. Len(peerOps[d]) /\ peerOps'[d][i] = peerOps[d][i + 1]
      BY <1>0, <2>2, TailOp
    <3>. QED  BY <1>1, <2>1, <3>1
  <2>3. ASSUME NEW o \in Ops, peerOps'[d] = Append(peerOps[d], o), o.op \in {"close", "reoffer"}
        PROVE  Goal
    <3>1. \A i \in 1 .. Len(peerOps'[d]) : \/ i \in 1 .. Len(peerOps[d]) /\ peerOps'[d][i] = peerOps[d][i]
                                          \/ peerOps'[d][i] = o
      BY <1>0, <2>3, AppendOp
    <3>. QED  BY <1>1, <2>1, <2>3, <3>1
  <2>. QED  BY <1>1, <2>1, <2>2, <2>3
<1>2. ASSUME NEW c \in Clients, HostStep(RunOp(c)) \/ HostStep(HostAwait(c)) PROVE Goal
  <2>1. HostMove(c) /\ TimerOk(d) /\ timer[Room[d]] # "off"
    BY <1>0, <1>2, StepIsMove DEF HostStep
  <2>2. CASE d # c
    <3>1. sessions'[d] = sessions[d] /\ work'[d] = work[d] /\ peerOps'[d] = peerOps[d]
      BY <2>1, <2>2, OthersKept
    <3>. QED  BY <1>1, <2>1, <3>1 DEF TimerOk, Live
  <2>3. CASE d = c
    <3>1. peerOps[d] # <<>> => Head(peerOps[d]).op \notin {"join", "connect"}
      <4>1. peerOps[d] # <<>> => 1 \in 1 .. Len(peerOps[d]) /\ Head(peerOps[d]) = peerOps[d][1]
        BY <1>0, TailOp
      <4>. QED  BY <2>1, <4>1 DEF TimerOk
    <3>2. Skip(d) /\ peerOps[d] # <<>>
      BY <2>1, <2>3, <3>1 DEF TimerOk, HostMove, Register, BuildFails, PartialClosed, OfferSent, OfferFails,
         CloseEnds, CloseSession, Active, ConnectingPeer
    <3>3. UNCHANGED <<sessions, work>> /\ peerOps'[d] = Tail(peerOps[d])
      BY <1>0, <3>2 DEF Skip
    <3>. QED  BY <1>1, <2>1, <3>2, <3>3 DEF TimerOk, Live
  <2>. QED  BY <2>2, <2>3
<1>3. ASSUME NEW c \in Clients, ClientEvent(c) PROVE Goal
  <2>1. /\ UNCHANGED work
        /\ Live(d)' <=> Live(d)
        /\ Asked(c) \subseteq Ops
        /\ UNCHANGED peerOps \/ \E o \in Asked(c) : Enqueue(c, o)
    BY <1>3, EventMeans
  <2>2. timer[Room[d]] # "off" /\ (Room[d] = Room[c] => ~PeerJoined(c))
    BY <1>0, <1>3, EventTimer
  <2>3. \/ peerOps'[d] = peerOps[d]
        \/ \E o \in Ops : peerOps'[d] = Append(peerOps[d], o) /\ o.op \in {"close", "reoffer"}
    BY <1>0, <1>3, <2>1, <2>2, EventTimer DEF Enqueue
  <2>. QED  BY <1>0, <1>1, <2>1, <2>2, <2>3 DEF TimerOk
<1>4. ASSUME NEW s \in Sessions, SessionStep(s) PROVE Goal
  <2>1. /\ UNCHANGED <<sessions, work>>
        /\ UNCHANGED peerOps \/ ConnectsOver(s)
    BY <1>4, SessionMeans
  <2>2. peerOps'[d] = peerOps[d] \/ \E o \in Ops : peerOps'[d] = Append(peerOps[d], o) /\ o.op \in {"close", "reoffer"}
    BY <1>0, <2>1, OpsTyped DEF ConnectsOver, Close
  <2>3. CASE timer[Room[d]] # "off"
    BY <1>0, <1>1, <2>1, <2>2, <2>3 DEF TimerOk, Live
  <2>4. CASE timer[Room[d]] = "off"
    <3>1. CASE Commit(s)
      <4>1. timer' = [timer EXCEPT ![s] = IF @ = "off" THEN "never_connected" ELSE @] /\ Room[d] = s
        BY <1>0, <2>4, <3>1 DEF Commit
      <4>2. ~Active(d) /\ peerOps[d] = <<>> /\ Len(peerOps[d]) = 0 /\ peerOps' = peerOps
        BY <3>1, <4>1, CommitMeans, EmptySeq DEF Peers
      <4>. QED  BY <1>1, <2>1, <4>2 DEF Live
    <3>2. CASE Settled /\ ActiveClientCount(s) = 0 /\ timer' = [timer EXCEPT ![s] = "idle"]
      <4>1. Room[d] = s
        BY <1>0, <2>4, <3>2
      <4>2. ~Active(d)
        BY <3>2, <4>1, NobodyActive DEF Peers
      <4>3. peerOps[d] = <<>> /\ Len(peerOps[d]) = 0
        BY <3>2, <4>2, ActiveMeans, EmptySeq DEF Settled, QueuesSettled, ClientInv
      <4>. QED  BY <1>1, <2>1, <2>2, <4>2, <4>3 DEF Live
    <3>. QED  BY <1>0, <1>4, <2>4, <3>1, <3>2, TimerMeans
  <2>. QED  BY <2>3, <2>4
<1>5. CASE UNCHANGED <<timer, sessions, work, peerOps>>
  BY <1>0, <1>1, <1>5 DEF TimerOk, Live
<1>. QED  BY <1>2, <1>3, <1>4, <1>5, NextMeans, AnswerMeans DEF vars, hostVars, podVars

NeverOk(s) ==
    \/ reason[s] = "never_connected"
    \/ timer[s] = "never_connected"
    \/ flight[s] # "none" /\ ending[s] = "never_connected"
    => s \notin joined

LEMMA NeverStep == TypeOK /\ ClientInv /\ SlotInv /\ TornDownIsEmpty /\ NeverInv /\ [Next]_vars => NeverInv'
<1>. SUFFICES ASSUME TypeOK, ClientInv, SlotInv, TornDownIsEmpty, NeverInv, [Next]_vars, NEW r \in slots'
     PROVE  NeverOk(r)'
  BY DEF NeverInv, NeverOk
<1>0. /\ slots \subseteq Sessions /\ timer \in [Sessions -> {"off", "never_connected", "idle"}]
      /\ reason \in [Sessions -> {"none", "never_connected", "ended"}]
      /\ ending \in [Sessions -> {"none", "never_connected", "ended"}]
      /\ flight \in [Sessions -> {"none", "connects", "closes", "hook"}]
      /\ r \in slots => NeverOk(r)
  BY DEF TypeOK, NeverInv, NeverOk
<1>1. CASE UNCHANGED <<slots, timer, reason, flight, ending, joined>>
  BY <1>0, <1>1 DEF NeverOk
<1>2. ASSUME NEW c \in Clients, ClientEvent(c) PROVE NeverOk(r)'
  <2>0. UNCHANGED <<slots, flight, ending>> /\ Room[c] \in Sessions
    BY <1>2, EventMeans, HostAssumption
  <2>1. CASE PeerJoined(c)
    <3>1. /\ timer' = [timer EXCEPT ![Room[c]] = "off"]
          /\ reason' = [reason EXCEPT ![Room[c]] = IF @ = "never_connected" THEN "none" ELSE @]
          /\ joined' = IF flight[Room[c]] = "none" THEN joined \cup {Room[c]} ELSE joined
      BY <2>1 DEF PeerJoined, CancelTimer
    <3>. QED  BY <1>0, <2>0, <3>1 DEF NeverOk
  <2>2. CASE ~PeerJoined(c)
    <3>1. /\ joined' = joined
          /\ \/ UNCHANGED <<timer, reason>>
             \/ /\ timer' = [timer EXCEPT ![Room[c]] = "off"]
                /\ reason' = [reason EXCEPT ![Room[c]] = IF @ = "never_connected" THEN "none" ELSE @]
      BY <1>2, <2>2 DEF ClientEvent, Arrive, Leave, PeerLeft, TransportUp, TransportDown, GraceEnds,
         ReofferDue, Hangup, ConnectDies, LateEvent, ChangesSession, CancelTimer, Uncancelled
    <3>. QED  BY <1>0, <2>0, <3>1 DEF NeverOk
  <2>. QED  BY <2>1, <2>2
<1>3. ASSUME NEW s \in Sessions, SessionStep(s) PROVE NeverOk(r)'
  <2>1. CASE Commit(s)
    <3>1. /\ reason' = [reason EXCEPT ![s] = "never_connected"] /\ slots' = slots \cup {s}
          /\ timer' = [timer EXCEPT ![s] = IF @ = "off" THEN "never_connected" ELSE @]
          /\ joined' = joined \ {s} /\ UNCHANGED <<flight, ending>>
      BY <2>1 DEF Commit
    <3>. QED  BY <1>0, <3>1 DEF NeverOk
  <2>2. ASSUME NEW why, StartTeardown(s, why), joined' = joined,
               why = "never_connected" => reason[s] = why \/ timer[s] = why
        PROVE  NeverOk(r)'
    <3>1. /\ flight' = [flight EXCEPT ![s] = "connects"] /\ UNCHANGED slots
          /\ ending' = [ending EXCEPT ![s] = IF why # "none" THEN why ELSE reason[s]]
          /\ reason' = [reason EXCEPT ![s] = "none"] /\ timer' = [timer EXCEPT ![s] = "off"]
      BY <2>2 DEF StartTeardown
    <3>. QED  BY <1>0, <2>2, <3>1 DEF NeverOk
  <2>3. ASSUME NEW why, JoinTeardown(s, why), joined' = joined,
               UNCHANGED timer \/ timer' = [timer EXCEPT ![s] = "off"],
               why = "never_connected" => reason[s] = why \/ timer[s] = why
        PROVE  NeverOk(r)'
    <3>1. reason' = [reason EXCEPT ![s] = IF @ = "none" THEN why ELSE @] /\ UNCHANGED <<slots, flight, ending>>
      BY <2>3 DEF JoinTeardown
    <3>. QED  BY <1>0, <2>3, <3>1 DEF NeverOk
  <2>4. CASE Prepare(s) \/ PrepareFails(s) \/ Created(s) \/ AgentReconnects(s)
    BY <1>1, <2>4 DEF Prepare, PrepareFails, Created, AgentReconnects
  <2>5. CASE ConnectsOver(s) \/ ClosesOver(s) \/ Destroyed(s) \/ DestroyedFails(s)
    <3>1. /\ slots' \subseteq slots /\ UNCHANGED <<reason, timer, ending, joined>>
          /\ flight[s] # "none" /\ \E v : flight' = [flight EXCEPT ![s] = v]
      BY <2>5 DEF ConnectsOver, ClosesOver, Destroyed, DestroyedFails
    <3>. QED  BY <1>0, <3>1 DEF NeverOk
  <2>6. CASE EndSession(s)
    BY <1>3, <2>2, <2>3, <2>6, SessionMeans DEF EndSession, Teardown, StartTeardown, JoinTeardown
  <2>7. CASE TimerFires(s)
    <3>. DEFINE why == IF reason[s] # "none" THEN reason[s] ELSE IF timer[s] = "idle" THEN "none" ELSE timer[s]
    <3>0. why = "never_connected" => reason[s] = why \/ timer[s] = why
      OBVIOUS
    <3>1. \/ StartTeardown(s, why) /\ joined' = joined
          \/ JoinTeardown(s, why) /\ timer' = [timer EXCEPT ![s] = "off"] /\ joined' = joined
          \/ timer' = [timer EXCEPT ![s] = "off"] /\ UNCHANGED <<slots, reason, flight, ending, joined>>
      BY <2>7 DEF TimerFires, StartTeardown, JoinTeardown
    <3>. HIDE DEF why
    <3>2. CASE timer' = [timer EXCEPT ![s] = "off"] /\ UNCHANGED <<slots, reason, flight, ending, joined>>
      BY <1>0, <3>2 DEF NeverOk
    <3>. QED  BY <2>2, <2>3, <3>0, <3>1, <3>2
  <2>8. ASSUME NEW grace \in polls[s], Poll(s, grace) \/ PollGivesUp(s, grace) PROVE NeverOk(r)'
    <3>1. CASE Forgotten
      BY <1>1, <3>1 DEF Forgotten
    <3>2. CASE ScheduleIdle(s, grace)
      <4>1. CASE timer' = [timer EXCEPT ![s] = "idle"] /\ UNCHANGED <<slots, reason, flight, ending, joined>>
        BY <1>0, <4>1 DEF NeverOk
      <4>2. CASE UNCHANGED <<slots, timer, reason, flight, ending, joined>>
        BY <1>1, <4>2
      <4>3. CASE StartTeardown(s, "none")
        BY <2>2, <4>3 DEF StartTeardown
      <4>4. CASE JoinTeardown(s, "none") /\ UNCHANGED timer
        BY <2>3, <4>4 DEF JoinTeardown
      <4>. QED  BY <3>2, <4>1, <4>2, <4>3, <4>4 DEF ScheduleIdle, Teardown
    <3>. QED  BY <2>8, <3>1, <3>2 DEF Poll, PollGivesUp
  <2>. QED  BY <1>3, <2>1, <2>4, <2>5, <2>6, <2>7, <2>8 DEF SessionStep
<1>. QED  BY <1>1, <1>2, <1>3, NextMeans, AnswerMeans DEF HostStep, vars, podVars

-----------------------------------------------------------------------------
(* Queued closes, and the events of connections that are closing. *)

CloseOk(c, q) ==
    \A i \in 1 .. Len(q) : q[i].op = "close" =>
        \/ q[i].of \in owed
        \/ /\ q[i].of = NoLease
           /\ \/ Room[c] \in hostClosing
              \/ c \notin present \cap announced
              \/ \E j \in i + 1 .. Len(q) : q[j].op = "join"

LEMMA CloseInit == Init => CloseInv
<1>. SUFFICES ASSUME Init PROVE CloseInv
  OBVIOUS
<1>1. \A c \in Clients : Len(peerOps[c]) = 0
  BY EmptySeq DEF Init, HostInit
<1>. QED  BY <1>1 DEF CloseInv

LEMMA CloseInvStep ==
  TypeOK /\ ClientInv /\ QueueInv /\ SlotInv /\ TornDownIsEmpty /\ CloseInv /\ [Next]_vars => CloseInv'
<1>. SUFFICES ASSUME TypeOK, ClientInv, QueueInv, SlotInv, TornDownIsEmpty, CloseInv, [Next]_vars,
                     NEW d \in Clients, NEW i \in 1 .. Len(peerOps'[d]), peerOps'[d][i].op = "close"
     PROVE  \/ peerOps'[d][i].of \in owed'
            \/ /\ peerOps'[d][i].of = NoLease
               /\ \/ Room[d] \in hostClosing'
                  \/ d \notin present' \cap announced'
                  \/ \E j \in i + 1 .. Len(peerOps'[d]) : peerOps'[d][j].op = "join"
  BY DEF CloseInv
<1>. DEFINE Goal == \/ peerOps'[d][i].of \in owed'
                    \/ /\ peerOps'[d][i].of = NoLease
                       /\ \/ Room[d] \in hostClosing'
                          \/ d \notin present' \cap announced'
                          \/ \E j \in i + 1 .. Len(peerOps'[d]) : peerOps'[d][j].op = "join"
<1>0. /\ Room[d] \in Sessions /\ work \in [Clients -> Works]
      /\ peerOps \in [Clients -> Seq(Ops)] /\ peerOps[d] \in Seq(Ops) /\ Len(peerOps[d]) \in Nat
      /\ CloseOk(d, peerOps[d])
  BY HostAssumption, LenProperties DEF TypeOK, Ops, Works, CloseInv, CloseOk
<1>1. ASSUME peerOps'[d] = peerOps[d], owed \subseteq owed',
             Room[d] \in hostClosing => Room[d] \in hostClosing',
             d \in present' \cap announced' => d \in present \cap announced
      PROVE  Goal
  BY <1>0, <1>1 DEF CloseOk
<1>2. ASSUME NEW c \in Clients, HostStep(RunOp(c)) \/ HostStep(HostAwait(c)) PROVE Goal
  <2>1. HostMove(c) /\ UNCHANGED <<owed, present, announced>>
    BY <1>2, StepIsMove DEF HostStep
  <2>2. UNCHANGED hostClosing /\ (d # c => peerOps'[d] = peerOps[d])
    BY <2>1, OthersKept
  <2>3. CASE peerOps'[d] = Tail(peerOps[d]) /\ peerOps[d] # <<>>
    <3>1. /\ i + 1 \in 1 .. Len(peerOps[d]) /\ peerOps'[d][i] = peerOps[d][i + 1]
          /\ \A j \in (i + 1) + 1 .. Len(peerOps[d]) :
               j - 1 \in i + 1 .. Len(peerOps'[d]) /\ peerOps'[d][j - 1] = peerOps[d][j]
      BY <1>0, <2>3, TailOp
    <3>. QED  BY <1>0, <2>1, <2>2, <3>1 DEF CloseOk
  <2>4. CASE peerOps'[d] = <<Connect>> \o Tail(peerOps[d]) /\ peerOps[d] # <<>>
    <3>1. /\ Len(peerOps'[d]) = Len(peerOps[d]) /\ peerOps'[d][1] = Connect
          /\ \A j \in 2 .. Len(peerOps[d]) : peerOps'[d][j] = peerOps[d][j]
      BY <1>0, <2>4, ConnectOp
    <3>2. i # 1
      BY <3>1 DEF Connect
    <3>3. i \in 2 .. Len(peerOps[d]) /\ \A j \in i + 1 .. Len(peerOps[d]) : j \in 2 .. Len(peerOps[d])
      BY <1>0, <3>1, <3>2
    <3>. QED  BY <1>0, <2>1, <2>2, <3>1, <3>3 DEF CloseOk
  <2>5. \/ peerOps'[d] = peerOps[d]
        \/ peerOps'[d] = Tail(peerOps[d]) /\ peerOps[d] # <<>>
        \/ peerOps'[d] = <<Connect>> \o Tail(peerOps[d]) /\ peerOps[d] # <<>>
    BY <1>0, <2>1, <2>2 DEF HostMove, Skip, CloseSession, ConnectClient, Register, BuildFails, PartialClosed,
       OfferSent, OfferFails, CloseEnds, AtWork
  <2>. QED  BY <1>1, <2>1, <2>2, <2>3, <2>4, <2>5
<1>3. ASSUME NEW c \in Clients, ClientEvent(c) PROVE Goal
  <2>1. UNCHANGED hostClosing /\ Asked(c) \subseteq Ops
    BY <1>3, EventMeans
  <2>2. owed \subseteq owed'
    BY <1>3 DEF ClientEvent, Arrive, Leave, PeerJoined, PeerLeft, TransportUp, TransportDown, GraceEnds,
         ReofferDue, Hangup, ConnectDies, LateEvent
  <2>3. CASE PeerJoined(c) /\ d = c
    <3>1. peerOps'[d] = Append(peerOps[d], Join)
      BY <1>0, <2>3 DEF PeerJoined, Enqueue
    <3>2. /\ Len(peerOps'[d]) = Len(peerOps[d]) + 1 /\ peerOps'[d][Len(peerOps[d]) + 1] = Join
          /\ \A j \in 1 .. Len(peerOps[d]) : peerOps'[d][j] = peerOps[d][j]
      BY <1>0, <3>1, AppendOp, OpsTyped
    <3>3. Join.op = "join"
      BY DEF Join
    <3>4. i \in 1 .. Len(peerOps[d]) /\ Len(peerOps[d]) + 1 \in i + 1 .. Len(peerOps'[d])
      BY <1>0, <3>2, <3>3
    <3>. QED  BY <1>0, <2>1, <2>2, <3>2, <3>3, <3>4 DEF CloseOk
  <2>4. CASE ~(PeerJoined(c) /\ d = c)
    <3>1. d \in present' \cap announced' => d \in present \cap announced
      BY <1>3, <2>4 DEF ClientEvent, Arrive, Leave, PeerJoined, PeerLeft, TransportUp, TransportDown, GraceEnds,
         ReofferDue, Hangup, ConnectDies, LateEvent, ChangesSession
    <3>. DEFINE Appended(o) == /\ peerOps'[d] = Append(peerOps[d], o)
                               /\ o.op = "close" => (o.of \in owed' \/ (o.of = NoLease /\ d \notin announced'))
    <3>2. peerOps'[d] = peerOps[d] \/ \E o \in Ops : Appended(o)
      <4>1. CASE d = c
        <5>1. CASE PeerLeft(c)
          <6>1. peerOps'[d] = peerOps[d] \/ peerOps'[d] = Append(peerOps[d], Close)
            BY <1>0, <4>1, <5>1 DEF PeerLeft, Enqueue
          <6>. QED  BY <4>1, <5>1, <6>1, OpsTyped DEF PeerLeft, Close
        <5>2. CASE ReofferDue(c)
          <6>1. peerOps'[d] = Append(peerOps[d], Reoffer(sessions[c].lease)) /\ Reoffer(sessions[c].lease) \in Ops
            BY <1>0, <4>1, <5>2, LiveMeans, OpsTyped DEF ReofferDue, Enqueue
          <6>. QED  BY <4>1, <6>1 DEF Reoffer
        <5>3. CASE GraceEnds(c) \/ Hangup(c) \/ ConnectDies(c)
          <6>1. \/ peerOps'[d] = peerOps[d]
                \/ /\ peerOps'[d] = Append(peerOps[d], CloseIf(sessions[c].lease))
                   /\ sessions[c].lease \in owed'
            BY <1>0, <4>1, <5>3 DEF GraceEnds, Hangup, ConnectDies, Enqueue
          <6>2. CloseIf(sessions[c].lease) \in Ops
            BY <5>3, LiveMeans, OpsTyped DEF GraceEnds, Hangup, ConnectDies
          <6>. QED  BY <4>1, <6>1, <6>2 DEF CloseIf
        <5>4. CASE LateEvent(c)
          <6>1. peerOps'[d] = Append(peerOps[d], CloseIf(work[c].lease)) /\ work[c].lease \in owed'
            BY <1>0, <4>1, <5>4 DEF LateEvent, Enqueue
          <6>2. CloseIf(work[c].lease) \in Ops
            BY <5>4, ActiveMeans, OpsTyped DEF LateEvent, ClosingPeer
          <6>. QED  BY <4>1, <6>1, <6>2 DEF CloseIf
        <5>5. CASE Arrive(c) \/ Leave(c) \/ TransportUp(c) \/ TransportDown(c)
          BY <5>5 DEF Arrive, Leave, TransportUp, TransportDown, hostVars
        <5>. QED  BY <1>3, <2>4, <4>1, <5>1, <5>2, <5>3, <5>4, <5>5 DEF ClientEvent
      <4>2. CASE d # c
        BY <1>0, <1>3, <4>2, EventMeans DEF Enqueue
      <4>. QED  BY <4>1, <4>2
    <3>3. ASSUME NEW o \in Ops, peerOps'[d] = Append(peerOps[d], o),
                 o.op = "close" => o.of \in owed' \/ (o.of = NoLease /\ d \notin announced')
          PROVE  Goal
      <4>1. /\ Len(peerOps'[d]) = Len(peerOps[d]) + 1 /\ peerOps'[d][Len(peerOps[d]) + 1] = o
            /\ \A j \in 1 .. Len(peerOps[d]) : peerOps'[d][j] = peerOps[d][j]
        BY <1>0, <3>3, AppendOp
      <4>2. CASE i = Len(peerOps[d]) + 1
        BY <3>3, <4>1, <4>2
      <4>3. CASE i \in 1 .. Len(peerOps[d])
        <5>1. \A j \in i + 1 .. Len(peerOps[d]) : j \in 1 .. Len(peerOps[d]) /\ j \in i + 1 .. Len(peerOps'[d])
          BY <1>0, <4>1, <4>3
        <5>. QED  BY <1>0, <2>1, <2>2, <3>1, <4>1, <4>3, <5>1 DEF CloseOk
      <4>. QED  BY <1>0, <4>1, <4>2, <4>3
    <3>4. CASE peerOps'[d] = peerOps[d]
      BY <1>1, <2>1, <2>2, <3>1, <3>4
    <3>5. CASE peerOps'[d] # peerOps[d]
      <4>1. PICK o \in Ops : Appended(o)
        <5>. HIDE DEF Appended
        <5>. QED  BY <3>2, <3>5
      <4>. QED  BY <3>3, <4>1
    <3>. QED  BY <3>4, <3>5
  <2>. QED  BY <2>3, <2>4
<1>4. ASSUME NEW s \in Sessions, SessionStep(s) PROVE Goal
  <2>1. UNCHANGED <<present, owed>> /\ announced' \subseteq announced /\ (UNCHANGED peerOps \/ ConnectsOver(s))
    BY <1>4, SessionMeans
  <2>2. CASE Commit(s)
    <3>1. Room[d] # s
      <4>1. Room[d] = s => peerOps'[d] = <<>> /\ Len(peerOps'[d]) = 0
        BY <2>2, CommitMeans, EmptySeq DEF Peers
      <4>. QED  BY <4>1
    <3>. QED  BY <1>1, <2>1, <2>2, <3>1, CommitMeans
  <2>3. CASE ConnectsOver(s) /\ Room[d] = s
    <3>1. s \in hostClosing /\ hostClosing' = hostClosing
      BY <2>3 DEF ConnectsOver, SlotInv
    <3>2. peerOps'[d] = peerOps[d] \/ peerOps'[d] = Append(peerOps[d], Close)
      BY <2>3 DEF ConnectsOver
    <3>3. peerOps'[d][i] = Close \/ (i \in 1 .. Len(peerOps[d]) /\ peerOps'[d][i] = peerOps[d][i])
      BY <1>0, <3>2, AppendOp, OpsTyped
    <3>. QED  BY <1>0, <2>1, <2>3, <3>1, <3>3 DEF CloseOk, Close
  <2>4. CASE ~Commit(s) /\ ~(ConnectsOver(s) /\ Room[d] = s)
    <3>1. hostClosing \subseteq hostClosing'
      BY <1>4, <2>4, FlightMeans DEF ConnectsOver, ClosesOver, Destroyed, DestroyedFails, hostVars
    <3>2. peerOps'[d] = peerOps[d]
      BY <2>1, <2>4 DEF ConnectsOver
    <3>. QED  BY <1>1, <2>1, <3>1, <3>2
  <2>. QED  BY <2>2, <2>3, <2>4
<1>5. CASE UNCHANGED <<peerOps, owed, hostClosing, present, announced>>
  BY <1>1, <1>5
<1>. QED  BY <1>2, <1>3, <1>4, <1>5, NextMeans, AnswerMeans DEF vars, hostVars, podVars

-----------------------------------------------------------------------------
(* The invariant, and what follows from it. *)

LEMMA PodInit == Init => PodInv
  BY TypeInit, ClientInit, LeaseInit, SlotInit, QuarantineInit, TimerInit, CapacityInit, CloseInit DEF PodInv

LEMMA PodStep == PodInv /\ [Next]_vars => PodInv'
<1>. SUFFICES ASSUME PodInv, [Next]_vars PROVE PodInv'
  OBVIOUS
<1>0. /\ TypeOK /\ ClientInv /\ QueueInv /\ LeaseInv /\ RecycleMatchesQuarantine
      /\ SlotInv /\ TornDownIsEmpty /\ QuarantineInv
      /\ TimerInv /\ NeverInv /\ CapacityInv /\ CloseInv
  BY DEF PodInv
<1>1. TypeOK' /\ ClientInv' /\ QueueInv' /\ LeaseInv' /\ RecycleMatchesQuarantine'
  BY <1>0, TypeStep, ClientStep, QueueStep, LeaseStep, RecycleStep
<1>2. SlotInv'
  <2>1. (\A s \in Sessions : SlotShape(s)') /\ (\A c \in Clients : WillClose(c)')
    BY <1>0, ShapeStep, CloseStep
  <2>. QED  BY <2>1, SlotPartsNext DEF SlotClauses
<1>3. TornDownIsEmpty' /\ QuarantineInv'
  BY <1>0, TornDownStep, QuarantineStep
<1>4. TimerInv' /\ NeverInv' /\ CapacityInv' /\ CloseInv'
  BY <1>0, TimerStep, NeverStep, CapacityStep, CloseInvStep
<1>. QED  BY <1>1, <1>2, <1>3, <1>4 DEF PodInv

\* The whole argument: every step of the hosts, the pod, the clients and their
\* transports keeps the invariant (voice-agent-session-host.ts, session-pod.ts).
THEOREM PodInvariant == Spec => []PodInv
  BY PodInit, PodStep, PTL DEF Spec

\* The types of the variables of the pod and of its hosts, for any number of
\* sessions and clients (voice-agent-session-host.ts, session-pod.ts).
THEOREM TypeCorrect == Spec => []TypeOK
<1>1. PodInv => TypeOK
  BY DEF PodInv
<1>. QED  BY <1>1, PodInvariant, PTL

LEMMA AccountedNow == PodInv => CapacityAccounted
<1>. SUFFICES ASSUME PodInv PROVE CapacityAccounted
  OBVIOUS
<1>0. TypeOK /\ ClientInv /\ LeaseInv /\ QuarantineInv /\ RecycleMatchesQuarantine
  BY DEF PodInv
<1>1. AtWorkLeases \cup LiveLeases = Held
  <2>2. ASSUME NEW c \in Clients, work[c].step \in {"build", "partial", "closing"} PROVE work[c].lease \in Held
    <3>1. Active(c) /\ work[c].lease = HeldBy(c)
      BY <1>0, <2>2, ActiveMeans DEF ClientInv, HeldBy
    <3>. QED  BY <3>1 DEF Held
  <2>3. ASSUME NEW c \in Clients, Live(c) PROVE sessions[c].lease \in Held
    <3>1. Active(c) /\ sessions[c].lease = HeldBy(c)
      BY <1>0, <2>3, ActiveMeans DEF ClientInv, HeldBy
    <3>. QED  BY <3>1 DEF Held
  <2>4. ASSUME NEW c \in Clients, Active(c) PROVE HeldBy(c) \in AtWorkLeases \cup LiveLeases
    <3>1. CASE Live(c)
      <4>1. HeldBy(c) = sessions[c].lease
        BY <1>0, <3>1, ActiveMeans DEF ClientInv, HeldBy
      <4>. QED  BY <3>1, <4>1 DEF LiveLeases
    <3>2. CASE ~Live(c)
      <4>1. HeldBy(c) = work[c].lease /\ work[c].step \in {"build", "partial", "closing"}
        BY <1>0, <2>4, <3>2, ActiveMeans DEF ClientInv, HeldBy
      <4>. QED  BY <4>1 DEF AtWorkLeases
    <3>. QED  BY <3>1, <3>2
  <2>. QED  BY <2>2, <2>3, <2>4 DEF AtWorkLeases, LiveLeases, Held
<1>2. AtWorkLeases \cap LiveLeases = {}
  <2>. SUFFICES ASSUME NEW c \in Clients, work[c].step \in {"build", "partial", "closing"},
                       NEW d \in Clients, Live(d), work[c].lease = sessions[d].lease
       PROVE  FALSE
    BY DEF AtWorkLeases, LiveLeases
  <2>1. ~Live(c) /\ Active(c) /\ HeldBy(c) = work[c].lease /\ HeldBy(d) = sessions[d].lease /\ Active(d)
    BY <1>0, ActiveMeans DEF ClientInv, HeldBy
  <2>. QED  BY <1>0, <2>1 DEF ClientInv
<1>3. Held \cap Quarantined = {}
  BY <1>0 DEF Held, ClientInv
<1>4. QuarantineStaysVisible
  <2>. SUFFICES ASSUME NEW lease \in Quarantined
       PROVE  \/ Room[lease.peer] \in slots /\ Host(Room[lease.peer]) = HostOf(lease)
              \/ retired[Room[lease.peer]] = lease.host
    BY DEF QuarantineStaysVisible
  <2>. QED  BY <1>0 DEF QuarantineInv, Host, HostOf
<1>. QED  BY <1>0, <1>1, <1>2, <1>3, <1>4 DEF CapacityAccounted, LeasesAccounted, LeaseInv

\* The budget is the sum of the connects, sessions, closes and quarantines that
\* hold a lease, within VOICE_MAX_CONCURRENT_SESSIONS; a host must be recycled
\* exactly while it has a lease in quarantine, and the pod sees every one of them
\* (finalizeTeardownCapacity, onLateTeardownComponent, SessionPod.isRecycleRequired).
THEOREM CapacityIsAccounted == Spec => []CapacityAccounted
  BY PodInvariant, AccountedNow, PTL

LEMMA TruthNow == PodInv => SlotsTellTheTruth
<1>. SUFFICES ASSUME PodInv PROVE SlotsTellTheTruth
  OBVIOUS
<1>0. TypeOK /\ TornDownIsEmpty /\ CapacityInv /\ TimerInv /\ NeverInv
  BY DEF PodInv
<1>1. PreparedWithinCapacity
  <2>1. IsFiniteSet(Reserved) /\ slots \in SUBSET Reserved /\ scope.max_prepared \in Nat
    BY <1>0 DEF CapacityInv, Reserved, TypeOK, Limits
  <2>2. /\ Cardinality(slots) <= Cardinality(Reserved) /\ Cardinality(slots) \in Nat
        /\ Cardinality(Reserved) \in Nat
    BY <2>1, FS_Subset, FS_CardinalityType
  <2>. QED  BY <1>0, <2>1, <2>2 DEF CapacityInv, PreparedWithinCapacity
<1>2. TimerMeansIdle
  <2>. SUFFICES ASSUME NEW s \in slots, timer[s] # "off" PROVE ActiveClientCount(s) = 0
    BY DEF TimerMeansIdle
  <2>1. s \in Sessions /\ \A c \in Peers(s) : ~Active(c)
    BY <1>0 DEF TypeOK, TimerInv, Peers
  <2>. QED  BY <1>0, <2>1, NobodyActive
<1>3. NeverConnectedIsTrue
  BY <1>0 DEF NeverInv, NeverConnectedIsTrue
<1>. QED  BY <1>0, <1>1, <1>2, <1>3 DEF SlotsTellTheTruth

\* What the pod believes of a slot is so: after host.close() the session holds
\* nothing, slots and preparations stay within maxPreparedSessions, the idle timer
\* runs only without peers and never_connected is said only of a session without
\* one (teardownSessionOnce, prepareSessionSlot, scheduleIdleTeardown).
THEOREM PodSeesTheTruth == Spec => []SlotsTellTheTruth
  BY PodInvariant, TruthNow, PTL

\* A client's session ends in its own turn, or when its offer could not be sent.
LEMMA SessionEnds ==
  ASSUME TypeOK, ClientInv, QueueInv, [Next]_vars, NEW c \in Clients, Unregistered(c), work[c].step # "offer"
  PROVE  /\ peerOps[c] # <<>>
         /\ \/ /\ Head(peerOps[c]).op = "close" /\ MayClose(c, Head(peerOps[c]))
               /\ peerOps'[c] = Tail(peerOps[c])
            \/ peerOps'[c] = <<Connect>> \o Tail(peerOps[c])
<1>0. /\ sessions \in [Clients -> {NoSession} \cup LiveRecords] /\ peerOps \in [Clients -> Seq(Ops)]
      /\ Live(c) /\ ~Live(c)' /\ sessions'[c] # sessions[c]
  BY DEF TypeOK, Ops, LiveRecords, Unregistered, Live
<1>1. ASSUME NEW d \in Clients, HostStep(RunOp(d)) PROVE d = c /\ RunOp(c)
  <2>1. RunOp(d) /\ HostMove(d)
    BY <1>1, StepIsMove DEF HostStep
  <2>. QED  BY <1>0, <2>1, OthersKept
<1>2. ASSUME RunOp(c)
      PROVE  /\ peerOps[c] # <<>>
             /\ \/ /\ Head(peerOps[c]).op = "close" /\ MayClose(c, Head(peerOps[c]))
                   /\ peerOps'[c] = Tail(peerOps[c])
                \/ peerOps'[c] = <<Connect>> \o Tail(peerOps[c])
  BY <1>0, <1>2, RunMeans DEF Skip, CloseSession, ConnectClient
<1>3. ASSUME NEW d \in Clients, HostStep(HostAwait(d)) PROVE FALSE
  <2>1. HostAwait(d) /\ HostMove(d)
    BY <1>3, StepIsMove DEF HostStep
  <2>2. d = c
    BY <1>0, <2>1, OthersKept
  <2>3. \/ Register(c) \/ BuildFails(c) \/ PartialClosed(c) \/ OfferSent(c)
        \/ \E pc, agent \in Outcomes : CloseEnds(c, pc, agent)
    BY <2>1, <2>2 DEF HostAwait, Build, Offer, EndClose, OfferFails
  <2>4. ~Register(c)
    BY <1>0 DEF Register, ClientInv
  <2>. QED  BY <1>0, <2>3, <2>4 DEF BuildFails, PartialClosed, OfferSent, CloseEnds
<1>4. ASSUME NEW d \in Clients, ClientEvent(d) PROVE FALSE
  BY <1>0, <1>4, EventMeans
<1>5. ASSUME NEW s \in Sessions, SessionStep(s) PROVE FALSE
  BY <1>0, <1>5, SessionMeans
<1>6. ASSUME NEW lease \in Quarantined, NEW side \in {"pc", "agent"},
             HostStep(Settled /\ LateAnswer(lease, side))
      PROVE  FALSE
  BY <1>0, <1>6, AnswerMeans
<1>7. ~UNCHANGED vars
  BY <1>0 DEF vars, hostVars
<1>. QED  BY <1>1, <1>2, <1>3, <1>4, <1>5, <1>6, <1>7, NextMeans

LEMMA SparedNow ==
  ASSUME TypeOK, ClientInv, QueueInv, CloseInv, [Next]_vars, NEW c \in Clients, Unregistered(c)
  PROVE  \/ sessions[c].lease \in owed
         \/ c \notin present \cap announced
         \/ Room[c] \in hostClosing
         \/ work[c].step = "offer"
         \/ Succeeded(c)'
<1>. SUFFICES ASSUME work[c].step # "offer"
     PROVE  sessions[c].lease \in owed \/ c \notin present \cap announced \/ Room[c] \in hostClosing \/ Succeeded(c)'
  OBVIOUS
<1>0. peerOps[c] \in Seq(Ops) /\ peerOps[c] # <<>> /\ owed \subseteq Leases /\ Live(c)
  BY SessionEnds DEF TypeOK, Ops, Unregistered
<1>1. CASE peerOps'[c] = <<Connect>> \o Tail(peerOps[c])
  <2>1. Len(peerOps'[c]) = Len(peerOps[c]) /\ peerOps'[c][1] = Connect /\ Len(peerOps[c]) \in Nat \ {0}
    BY <1>0, <1>1, ConnectOp, TailOp
  <2>2. 1 \in 1 .. Len(peerOps'[c]) /\ peerOps'[c][1].op \in {"join", "connect"}
    BY <2>1 DEF Connect
  <2>. QED  BY <2>2 DEF Succeeded
<1>2. CASE /\ Head(peerOps[c]).op = "close" /\ MayClose(c, Head(peerOps[c]))
           /\ peerOps'[c] = Tail(peerOps[c])
  <2>1. /\ 1 \in 1 .. Len(peerOps[c]) /\ Head(peerOps[c]) = peerOps[c][1] /\ Len(peerOps[c]) \in Nat
        /\ \A j \in 2 .. Len(peerOps[c]) : j - 1 \in 1 .. Len(peerOps'[c]) /\ peerOps'[c][j - 1] = peerOps[c][j]
    BY <1>0, <1>2, TailOp
  <2>2. CASE peerOps[c][1].of \in owed
    BY <1>0, <1>2, <2>1, <2>2, NoLeaseIsNone DEF MayClose
  <2>3. CASE \E j \in 2 .. Len(peerOps[c]) : peerOps[c][j].op = "join"
    BY <2>1, <2>3 DEF Succeeded
  <2>. QED  BY <1>2, <2>1, <2>2, <2>3 DEF CloseInv
<1>. QED  BY <1>1, <1>2, SessionEnds

\* A late event of an earlier connection never ends the session that replaced it:
\* a close names its connection or was asked for by the host's own closing, by the
\* client's leaving or ahead of a newer join (closeClientIfSession, closeClient).
THEOREM SuccessorIsSpared == Spec => LateEventsSpareSuccessor
<1>1. PodInv /\ [Next]_vars =>
        [\A c \in Clients : Unregistered(c) =>
           \/ sessions[c].lease \in owed
           \/ c \notin present \cap announced
           \/ Room[c] \in hostClosing
           \/ work[c].step = "offer"
           \/ Succeeded(c)']_vars
  BY SparedNow DEF PodInv
<1>. QED  BY <1>1, PodInvariant, PTL DEF Spec, LateEventsSpareSuccessor

=============================================================================
