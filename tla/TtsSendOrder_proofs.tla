------------------------ MODULE TtsSendOrder_proofs -------------------------
(***************************************************************************)
(* Proofs about TtsSendOrder, for any number of sends, flush passes and    *)
(* cuts, in three parts.                                                   *)
(*   - The order of the jobs. The invariants are layered: the types and    *)
(*     the ranges of the tickets, then who holds the queue lock, then      *)
(*     whose turn it is, then the order of the jobs, then what a flush     *)
(*     leaves behind. Each layer is preserved by every step in which the   *)
(*     layers below hold before and after it.                              *)
(*   - The reply ids: where a send with a pending reply id can be, then    *)
(*     that no reply id has two owners, then the order in which the reply  *)
(*     ends of a flush go out.                                             *)
(*   - The refinement of TtsQueueSpec: the tickets, turns, wake-ups and    *)
(*     locks are a first-in first-out queue with an atomic flush point.    *)
(*     The three places a send can be in are disjoint and ordered by       *)
(*     ticket: a job is at most the turn, a send still on its way at least *)
(*     the turn. Every step is mapped, through StatusOf, to the abstract   *)
(*     step it takes effect at, or to none.                                *)
(***************************************************************************)
EXTENDS TtsSendOrder, SequenceTheorems, TLAPS

\* The tickets that left "idle" are those handed out.
Issued == \A t \in Tickets : pc[t] = "idle" <=> t >= next_ticket

TypeInv == TypeOK /\ Issued

-----------------------------------------------------------------------------
(* What the sequencer's operations do to the turn. *)

\* Advancing the turn keeps it within the tickets handed out, at or above its
\* starting point, and leaves only tickets above it released ahead.
LEMMA AdvanceRange ==
    ASSUME TypeOK, NEW from \in 0 .. next_ticket,
           NEW ahead, ahead \subseteq from .. next_ticket - 1,
           Advance(from, ahead)
    PROVE  /\ next_turn' \in from .. next_ticket
           /\ released_ahead' \subseteq next_turn' + 1 .. next_ticket - 1
<1>. USE SendOrderAssumption
<1>1. next_ticket \in Nat /\ next_ticket <= MaxSends
  BY DEF TypeOK
<1>2. PICK turn \in from .. MaxSends :
         /\ \A t \in from .. turn - 1 : t \in ahead
         /\ turn \notin ahead
         /\ next_turn' = turn
         /\ released_ahead' = ahead \ (from .. turn - 1)
  BY DEF Advance
<1>3. turn <= next_ticket
  <2>1. SUFFICES ASSUME turn > next_ticket PROVE FALSE
    BY <1>1
  <2>2. next_ticket \in from .. turn - 1
    BY <2>1, <1>1
  <2>3. next_ticket \in ahead
    BY <2>2, <1>2
  <2>. QED  BY <2>3, <1>1
<1>4. ASSUME NEW t \in released_ahead'
      PROVE  t \in next_turn' + 1 .. next_ticket - 1
  <2>1. t \in ahead /\ t \in from .. next_ticket - 1 /\ t \notin from .. turn - 1
    BY <1>2, <1>4
  <2>2. t # turn
    BY <2>1, <1>2
  <2>. QED  BY <2>1, <2>2, <1>1, <1>2
<1>. QED  BY <1>1, <1>2, <1>3, <1>4

\* A release never moves the turn back, and moves it only for the ticket whose
\* turn it is.
LEMMA ReleaseRange ==
    ASSUME TypeInv, NEW t \in Tickets, pc[t] # "idle", ReleaseTurn(t)
    PROVE  /\ next_turn' \in next_turn .. next_ticket
           /\ released_ahead' \subseteq next_turn' + 1 .. next_ticket - 1
           /\ t # next_turn => next_turn' = next_turn
           /\ t = next_turn => next_turn' > next_turn
           /\ pending_reply' = pending_reply \ {t}
           /\ next_ticket' = next_ticket /\ cancel_below' = cancel_below
<1>. USE SendOrderAssumption
<1>1. /\ next_ticket \in 0 .. MaxSends /\ next_turn \in 0 .. next_ticket
      /\ released_ahead \subseteq next_turn + 1 .. next_ticket - 1
      /\ t \in 0 .. next_ticket - 1
  BY DEF TypeInv, TypeOK, Issued, Tickets
<1>0. /\ pending_reply' = pending_reply \ {t}
      /\ next_ticket' = next_ticket /\ cancel_below' = cancel_below
  BY DEF ReleaseTurn
<1>2. CASE t = next_turn /\ Advance(next_turn + 1, released_ahead)
  <2>1. next_turn + 1 \in 0 .. next_ticket
    BY <1>1, <1>2
  <2>2. /\ next_turn' \in next_turn + 1 .. next_ticket
        /\ released_ahead' \subseteq next_turn' + 1 .. next_ticket - 1
    BY <2>1, <1>1, <1>2, AdvanceRange DEF TypeInv
  <2>3. next_turn' \in next_turn .. next_ticket /\ next_turn' > next_turn
    BY <2>2, <1>1
  <2>. QED  BY <2>2, <2>3, <1>0, <1>2
<1>3. CASE t > next_turn /\ released_ahead' = released_ahead \union {t} /\ UNCHANGED next_turn
  BY <1>0, <1>1, <1>3
<1>4. CASE t < next_turn /\ UNCHANGED <<next_turn, released_ahead>>
  BY <1>0, <1>1, <1>4
<1>. QED  BY <1>2, <1>3, <1>4 DEF ReleaseTurn

\* The types of what a release changes.
LEMMA ReleaseTypes ==
    ASSUME TypeInv, NEW t \in Tickets, pc[t] # "idle", ReleaseTurn(t)
    PROVE  /\ next_ticket' \in 0 .. MaxSends
           /\ next_turn' \in 0 .. next_ticket'
           /\ released_ahead' \subseteq next_turn' + 1 .. next_ticket' - 1
           /\ cancel_below' \in 0 .. next_ticket'
           /\ pending_reply' \subseteq Tickets
<1>1. /\ next_ticket \in 0 .. MaxSends /\ next_turn \in 0 .. next_ticket
      /\ cancel_below \in 0 .. next_ticket /\ pending_reply \subseteq Tickets
  BY DEF TypeInv, TypeOK
<1>2. /\ next_turn' \in next_turn .. next_ticket
      /\ released_ahead' \subseteq next_turn' + 1 .. next_ticket - 1
      /\ pending_reply' = pending_reply \ {t}
      /\ next_ticket' = next_ticket /\ cancel_below' = cancel_below
  BY ReleaseRange
<1>3. next_turn' \in 0 .. next_ticket
  BY <1>1, <1>2, SendOrderAssumption
<1>. QED  BY <1>1, <1>2, <1>3

\* A cut moves the turn past every ticket handed out.
LEMMA CutRange ==
    ASSUME TypeInv, NEW c \in Cutters, Cut(c)
    PROVE  /\ cancel_below' = next_ticket
           /\ next_turn' = next_ticket
           /\ released_ahead' = {}
<1>. USE SendOrderAssumption
<1>1. /\ next_ticket \in 0 .. MaxSends /\ next_turn \in 0 .. next_ticket
      /\ cancel_below \in 0 .. next_ticket
      /\ released_ahead \subseteq next_turn + 1 .. next_ticket - 1
  BY DEF TypeInv, TypeOK
<1>2. cancel_below' = next_ticket
  BY <1>1 DEF Cut
<1>2a. IF next_turn < next_ticket
         THEN Advance(next_ticket, {t \in released_ahead : t >= next_ticket})
         ELSE UNCHANGED <<next_turn, released_ahead>>
  BY <1>2 DEF Cut
<1>3. {t \in released_ahead : t >= next_ticket} = {}
  <2>1. ASSUME NEW t \in released_ahead PROVE ~(t >= next_ticket)
    BY <1>1
  <2>. QED  BY <2>1
<1>4. CASE next_turn < next_ticket
  <2>1. Advance(next_ticket, {})
    BY <1>2a, <1>3, <1>4
  <2>2. /\ next_turn' \in next_ticket .. next_ticket
        /\ released_ahead' \subseteq next_turn' + 1 .. next_ticket - 1
    BY <2>1, <1>1, AdvanceRange DEF TypeInv
  <2>. QED  BY <2>2, <1>1, <1>2
<1>5. CASE next_turn = next_ticket
  <2>1. released_ahead = {}
    BY <1>1, <1>5
  <2>. QED  BY <2>1, <1>1, <1>2, <1>2a, <1>5
<1>. QED  BY <1>1, <1>4, <1>5

-----------------------------------------------------------------------------
(* Types and ranges. *)

LEMMA TypeInit == Init => TypeInv
<1>. USE SendOrderAssumption
<1>1. ASSUME Init PROVE TypeOK
  BY <1>1 DEF Init, TypeOK, Tickets, Stages, Nobody
<1>2. ASSUME Init PROVE Issued
  BY <1>2 DEF Init, Issued, Tickets
<1>. QED  BY <1>1, <1>2 DEF TypeInv

LEMMA TypeStep == TypeInv /\ [Next]_vars => TypeInv'
<1>. SUFFICES ASSUME TypeInv, [Next]_vars PROVE TypeInv'
  OBVIOUS
<1>. USE SendOrderAssumption DEF Tickets, Stages, Nobody
<1>. USE DEF TypeInv
<1>1. ASSUME NEW reply \in BOOLEAN, Reserve(reply) PROVE TypeInv'
  BY <1>1 DEF Reserve, Goto, TypeOK, Issued, worker, passes
<1>2. ASSUME NEW t \in Tickets, SendStep(t) PROVE TypeInv'
  <2>1. CASE Register(t)
    BY <2>1 DEF Register, Goto, TypeOK, Issued, order, worker, passes
  <2>2. CASE CheckTurn(t)
    BY <2>2 DEF CheckTurn, Goto, TypeOK, Issued, order, worker, passes
  <2>3. CASE LockQueue(t)
    BY <2>3 DEF LockQueue, Goto, TypeOK, Issued, order, worker, passes
  <2>4. CASE Claim(t)
    BY <2>4 DEF Claim, Goto, TypeOK, Issued, worker, passes
  <2>5. CASE Push(t)
    <3>1. queue' \in Seq(Tickets)
      BY <2>5 DEF Push, TypeOK
    <3>. QED  BY <2>5, <3>1 DEF Push, Goto, TypeOK, Issued, order, worker, passes
  <2>6. CASE Release(t)
    <3>1. ReleaseTurn(t) /\ pc[t] = "release"
      BY <2>6 DEF Release
    <3>2. /\ next_turn' \in next_turn .. next_ticket
          /\ released_ahead' \subseteq next_turn' + 1 .. next_ticket - 1
          /\ pending_reply' = pending_reply \ {t}
          /\ next_ticket' = next_ticket /\ cancel_below' = cancel_below
      BY <3>1, ReleaseRange
    <3>3. TypeOK'
      BY <2>6, <3>1, ReleaseTypes DEF Release, Goto, TypeOK, worker, passes
    <3>4. Issued'
      BY <2>6, <3>2 DEF Release, Goto, TypeOK, Issued
    <3>. QED  BY <3>3, <3>4
  <2>7. CASE DropCancelled(t)
    <3>1. ReleaseTurn(t) /\ pc[t] = "rejected"
      BY <2>7 DEF DropCancelled
    <3>2. /\ next_turn' \in next_turn .. next_ticket
          /\ released_ahead' \subseteq next_turn' + 1 .. next_ticket - 1
          /\ pending_reply' = pending_reply \ {t}
          /\ next_ticket' = next_ticket /\ cancel_below' = cancel_below
      BY <3>1, ReleaseRange
    <3>3. TypeOK'
      BY <2>7, <3>1, ReleaseTypes DEF DropCancelled, Goto, TypeOK, worker, passes
    <3>4. Issued'
      BY <2>7, <3>2 DEF DropCancelled, Goto, TypeOK, Issued
    <3>. QED  BY <3>3, <3>4
  <2>8. CASE NotifyRelease(t)
    BY <2>8 DEF NotifyRelease, NotifyWaiters, Goto, TypeOK, Issued, order, worker, passes
  <2>. QED  BY <1>2, <2>1, <2>2, <2>3, <2>4, <2>5, <2>6, <2>7, <2>8 DEF SendStep
<1>3. ASSUME NEW t \in Tickets, GiveUp(t) PROVE TypeInv'
  <2>1. ReleaseTurn(t) /\ pc[t] \in {"prepare", "sleep", "lock"}
    BY <1>3 DEF GiveUp
  <2>2. /\ next_turn' \in next_turn .. next_ticket
        /\ released_ahead' \subseteq next_turn' + 1 .. next_ticket - 1
        /\ pending_reply' = pending_reply \ {t}
        /\ next_ticket' = next_ticket /\ cancel_below' = cancel_below
    BY <2>1, ReleaseRange
  <2>3. TypeOK'
    BY <1>3, <2>1, ReleaseTypes DEF GiveUp, Goto, TypeOK, worker, passes
  <2>4. Issued'
    BY <1>3, <2>1, <2>2 DEF GiveUp, Goto, TypeOK, Issued
  <2>. QED  BY <2>3, <2>4
<1>4. ASSUME NEW c \in Cutters, Cut(c) PROVE TypeInv'
  <2>1. /\ cancel_below' = next_ticket
        /\ next_turn' = next_ticket
        /\ released_ahead' = {}
    BY <1>4, CutRange
  <2>2. cuts_taken' \in 0 .. MaxCuts
    BY <1>4 DEF Cut, TypeOK
  <2>3. cut' \in [Cutters -> [stage : {"idle", "notify", "collect", "emit"},
                             below : 0 .. MaxSends, replies : SUBSET Tickets]]
    BY <1>4 DEF Cut, TypeOK
  <2>4. pending_reply' \subseteq Tickets
    BY <1>4 DEF Cut, TypeOK
  <2>. QED  BY <1>4, <2>1, <2>2, <2>3, <2>4 DEF Cut, TypeOK, Issued, worker
<1>5. ASSUME NEW c \in Cutters, CutterStep(c) PROVE TypeInv'
  <2>1. CASE NotifyCut(c)
    BY <2>1 DEF NotifyCut, NotifyWaiters, TypeOK, Issued, order, worker
  <2>2. CASE Collect(c)
    <3>1. PICK n \in 0 .. Len(queue) :
            /\ queue' = SubSeq(queue, n + 1, Len(queue))
            /\ cut' = [cut EXCEPT ![c] = [stage |-> "emit", below |-> @.below,
                   replies |-> @.replies \union (({queue[i] : i \in 1 .. n}
                                   \union (IF held < cut[c].below THEN {held} ELSE {}))
                                 \intersect has_reply)]]
      BY <2>2 DEF Collect
    <3>2. queue' \in Seq(Tickets)
      <4>1. queue \in Seq(Tickets)
        BY DEF TypeOK
      <4>2. \A i \in n + 1 .. Len(queue) : queue[i] \in Tickets
        BY <4>1
      <4>. QED  BY <3>1, <4>1, <4>2, SubSeqProperties
    <3>3. cut[c] \in [stage : {"idle", "notify", "collect", "emit"},
                      below : 0 .. MaxSends, replies : SUBSET Tickets]
          /\ has_reply \subseteq Tickets
      BY DEF TypeOK
    <3>4. cut' \in [Cutters -> [stage : {"idle", "notify", "collect", "emit"},
                               below : 0 .. MaxSends, replies : SUBSET Tickets]]
      BY <3>1, <3>3 DEF TypeOK
    <3>. QED  BY <2>2, <3>2, <3>4 DEF Collect, TypeOK, Issued, order
  <2>3. CASE EmitReplyEnds(c)
    BY <2>3 DEF EmitReplyEnds, TypeOK, Issued, order, worker
  <2>. QED  BY <1>5, <2>1, <2>2, <2>3 DEF CutterStep
<1>6. CASE WorkerStep
  <2>1. CASE PopIntoHeld
    <3>1. held' \in Tickets /\ queue' \in Seq(Tickets)
      BY <2>1 DEF PopIntoHeld, TypeOK
    <3>. QED  BY <2>1, <3>1 DEF PopIntoHeld, TypeOK, Issued, order, passes
  <2>2. CASE TakeHeld
    BY <2>2 DEF TakeHeld, TypeOK, Issued, order, passes
  <2>. QED  BY <1>6, <2>1, <2>2 DEF WorkerStep
<1>7. CASE UNCHANGED vars
  BY <1>7 DEF vars, order, worker, passes, TypeOK, Issued
<1>. QED  BY <1>1, <1>2, <1>3, <1>4, <1>5, <1>6, <1>7 DEF Next

\* Every variable of the sequencer keeps its type; the turn never passes the
\* tickets handed out and the tickets released ahead stay above it
\* (tts_send_order.rs, OrderState).
THEOREM TypeCorrect == Spec => []TypeOK
<1>1. TypeInv => TypeOK
  BY DEF TypeInv
<1>. QED  BY TypeInit, TypeStep, <1>1, PTL DEF Spec

-----------------------------------------------------------------------------
(* Who holds the queue lock. *)

\* A send holds the queue lock exactly from its lock to its notification.
LockInv ==
    \A t \in Tickets : pc[t] \in {"claim", "push", "release", "wake_queued"} <=> queue_lock = t

LEMMA LockInit == Init => LockInv
  BY DEF Init, LockInv, Tickets, Nobody

LEMMA LockStep == TypeInv /\ LockInv /\ [Next]_vars => LockInv'
<1>. SUFFICES ASSUME TypeInv, LockInv, [Next]_vars PROVE LockInv'
  OBVIOUS
<1>. USE DEF Tickets, Nobody, LockInv
<1>0. pc \in [Tickets -> Stages] /\ next_ticket \in 0 .. MaxSends
  BY DEF TypeInv, TypeOK
<1>1. ASSUME NEW reply \in BOOLEAN, Reserve(reply) PROVE LockInv'
  <2>1. pc[next_ticket] = "idle"
    BY <1>1, SendOrderAssumption DEF Reserve, TypeInv, TypeOK, Issued
  <2>. QED  BY <1>0, <1>1, <2>1 DEF Reserve, Goto
<1>2. ASSUME NEW t \in Tickets, SendStep(t) \/ GiveUp(t) PROVE LockInv'
  <2>1. CASE Register(t)
    BY <1>0, <2>1 DEF Register, Goto
  <2>2. CASE CheckTurn(t)
    BY <1>0, <2>2 DEF CheckTurn, Goto
  <2>3. CASE LockQueue(t)
    BY <1>0, <2>3 DEF LockQueue, Goto
  <2>4. CASE Claim(t)
    <3>1. queue_lock = t
      BY <2>4 DEF Claim
    <3>2. CASE Goto(t, "rejected") /\ queue_lock' = Nobody
      BY <1>0, <3>1, <3>2 DEF Goto
    <3>3. CASE Goto(t, "push") /\ UNCHANGED queue_lock
      BY <1>0, <3>1, <3>3 DEF Goto
    <3>. QED  BY <2>4, <3>2, <3>3 DEF Claim
  <2>5. CASE Push(t)
    BY <1>0, <2>5 DEF Push, Goto
  <2>6. CASE Release(t)
    BY <1>0, <2>6 DEF Release, Goto
  <2>7. CASE DropCancelled(t)
    BY <1>0, <2>7 DEF DropCancelled, Goto
  <2>8. CASE NotifyRelease(t)
    <3>1. CASE pc[t] = "wake_queued" /\ Goto(t, "queued") /\ queue_lock' = Nobody
      <4>1. queue_lock = t
        BY <3>1
      <4>. QED  BY <1>0, <3>1, <4>1 DEF Goto
    <3>2. CASE /\ pc[t] \in {"wake_cancelled", "wake_gaveup"}
               /\ Goto(t, "cancelled") \/ Goto(t, "gaveup")
               /\ UNCHANGED queue_lock
      BY <1>0, <3>2 DEF Goto
    <3>. QED  BY <2>8, <3>1, <3>2 DEF NotifyRelease
  <2>9. CASE GiveUp(t)
    BY <1>0, <2>9 DEF GiveUp, Goto
  <2>. QED  BY <1>2, <2>1, <2>2, <2>3, <2>4, <2>5, <2>6, <2>7, <2>8, <2>9 DEF SendStep
<1>3. ASSUME NEW c \in Cutters, Cut(c) \/ CutterStep(c) PROVE LockInv'
  BY <1>3 DEF Cut, CutterStep, NotifyCut, Collect, EmitReplyEnds
<1>4. CASE WorkerStep
  BY <1>4 DEF WorkerStep, PopIntoHeld, TakeHeld
<1>5. CASE UNCHANGED vars
  BY <1>5 DEF vars
<1>. QED  BY <1>1, <1>2, <1>3, <1>4, <1>5 DEF Next

-----------------------------------------------------------------------------
(* Whose turn it is. *)

TurnInv == cancel_below <= next_turn /\ TurnIsExclusive

LEMMA TurnInit == Init => TurnInv
  BY DEF Init, TurnInv, TurnIsExclusive, Tickets

\* A release keeps the turn exclusive: the turn moves only when its own ticket
\* releases, and that ticket is no longer on its way.
LEMMA ReleaseKeepsTurn ==
    ASSUME TypeInv, TurnInv, NEW t \in Tickets, pc[t] # "idle", ReleaseTurn(t),
           NEW stage \in Stages \ {"lock", "claim", "push", "release"}, Goto(t, stage)
    PROVE  TurnInv'
<1>1. /\ next_turn \in Nat /\ next_turn' \in Nat /\ cancel_below \in Nat
      /\ pc \in [Tickets -> Stages]
  BY ReleaseTypes DEF TypeInv, TypeOK
<1>2. /\ next_turn' >= next_turn
      /\ t # next_turn => next_turn' = next_turn
      /\ cancel_below' = cancel_below
  BY ReleaseRange, <1>1 DEF TypeInv, TypeOK
<1>3. TurnIsExclusive'
  BY <1>1, <1>2 DEF TurnInv, TurnIsExclusive, Goto
<1>. QED  BY <1>1, <1>2, <1>3 DEF TurnInv

LEMMA TurnStep == TypeInv /\ TurnInv /\ [Next]_vars => TurnInv'
<1>. SUFFICES ASSUME TypeInv, TurnInv, [Next]_vars PROVE TurnInv'
  OBVIOUS
<1>. USE DEF TurnInv, TurnIsExclusive
<1>0. pc \in [Tickets -> Stages] /\ next_ticket \in 0 .. MaxSends
  BY DEF TypeInv, TypeOK
<1>1. ASSUME NEW reply \in BOOLEAN, Reserve(reply) PROVE TurnInv'
  BY <1>0, <1>1 DEF Reserve, Goto
<1>2. ASSUME NEW t \in Tickets, SendStep(t) \/ GiveUp(t) PROVE TurnInv'
  <2>1. CASE Register(t)
    BY <1>0, <2>1 DEF Register, Goto, order
  <2>2. CASE CheckTurn(t)
    BY <1>0, <2>2 DEF CheckTurn, Goto, order
  <2>3. CASE LockQueue(t)
    BY <1>0, <2>3 DEF LockQueue, Goto, order
  <2>4. CASE Claim(t)
    BY <1>0, <2>4 DEF Claim, Goto
  <2>5. CASE Push(t)
    BY <1>0, <2>5 DEF Push, Goto, order
  <2>6. CASE Release(t)
    BY <2>6, ReleaseKeepsTurn DEF Release, Stages
  <2>7. CASE DropCancelled(t)
    BY <2>7, ReleaseKeepsTurn DEF DropCancelled, Stages
  <2>8. CASE NotifyRelease(t)
    BY <1>0, <2>8 DEF NotifyRelease, Goto, order
  <2>9. CASE GiveUp(t)
    BY <2>9, ReleaseKeepsTurn DEF GiveUp, Stages
  <2>. QED  BY <1>2, <2>1, <2>2, <2>3, <2>4, <2>5, <2>6, <2>7, <2>8, <2>9 DEF SendStep
<1>3. ASSUME NEW c \in Cutters, Cut(c) PROVE TurnInv'
  <2>1. cancel_below' = next_ticket /\ next_turn' = next_ticket /\ pc' = pc
    BY <1>3, CutRange DEF Cut
  <2>2. \A t \in Tickets : t >= next_ticket => pc[t] = "idle"
    BY DEF TypeInv, Issued
  <2>. QED  BY <1>0, <2>1, <2>2
<1>4. ASSUME NEW c \in Cutters, CutterStep(c) PROVE TurnInv'
  BY <1>4 DEF CutterStep, NotifyCut, Collect, EmitReplyEnds, order
<1>5. CASE WorkerStep
  BY <1>5 DEF WorkerStep, PopIntoHeld, TakeHeld, order
<1>6. CASE UNCHANGED vars
  BY <1>6 DEF vars, order
<1>. QED  BY <1>1, <1>2, <1>3, <1>4, <1>5, <1>6 DEF Next

-----------------------------------------------------------------------------
(* The order of the jobs. *)

\* A job that reached the queue, whether or not it has started since.
Enqueued(t) == InQueue(t) \/ t \in started

\* Why the queue is increasing: every job in it is below the turn, except one
\* just pushed by the send whose turn it is; and a send that has claimed its
\* place is above every job.
JobInv ==
    /\ QueueInCallOrder
    /\ \A j \in Tickets : Enqueued(j) => j < next_turn \/ (j = next_turn /\ pc[j] = "release")
    /\ \A t, j \in Tickets : pc[t] = "push" /\ Enqueued(j) => j < t

JobVars == <<queue, held, started>>

LEMMA JobInit == Init => JobInv
  BY DEF Init, JobInv, QueueInCallOrder, Enqueued, InQueue, Tickets, Nobody

\* A step that touches no job keeps the order if it moves no turn back, leaves
\* no pushed send between its push and its release except past its turn, and
\* lets no send claim its place.
LEMMA JobFrame ==
    ASSUME TypeInv, TypeInv', JobInv, UNCHANGED JobVars, next_turn' >= next_turn,
           \A t \in Tickets : pc'[t] = "push" => pc[t] = "push",
           \A t \in Tickets : pc[t] = "release" /\ t = next_turn
                               => pc'[t] = "release" \/ next_turn' > next_turn
    PROVE  JobInv'
<1>1. next_turn \in Nat /\ next_turn' \in Nat
  BY DEF TypeInv, TypeOK
<1>2. QueueInCallOrder'
  BY DEF JobInv, QueueInCallOrder, JobVars
<1>3. ASSUME NEW j \in Tickets PROVE Enqueued(j)' <=> Enqueued(j)
  BY DEF Enqueued, InQueue, JobVars
<1>4. ASSUME NEW j \in Tickets, Enqueued(j)
      PROVE  (j < next_turn \/ (j = next_turn /\ pc[j] = "release"))'
  <2>1. j < next_turn \/ (j = next_turn /\ pc[j] = "release")
    BY <1>4 DEF JobInv
  <2>. QED  BY <2>1, <1>1 DEF Tickets
<1>5. ASSUME NEW t \in Tickets, NEW j \in Tickets, pc'[t] = "push", Enqueued(j)
      PROVE  j < t
  BY <1>5 DEF JobInv
<1>. QED  BY <1>2, <1>3, <1>4, <1>5 DEF JobInv

\* What a flush pass does to the jobs: it takes the held job and the front of
\* the queue, up to its cut.
LEMMA CollectEffect ==
    ASSUME TypeInv, QueueInCallOrder, NEW c \in Cutters, Collect(c)
    PROVE  /\ queue_lock = Nobody
           /\ held' \in {held, Nobody} /\ ~(held' \in Tickets /\ held' < cut[c].below)
           /\ started' = started
           /\ \E n \in 0 .. Len(queue) :
                /\ Len(queue') = Len(queue) - n
                /\ \A i \in 1 .. Len(queue') : queue'[i] = queue[i + n] /\ queue'[i] >= cut[c].below
<1>. USE DEF Tickets, Nobody
<1>1. /\ queue \in Seq(Tickets) /\ held \in Tickets \union {Nobody}
      /\ cut[c].below \in Nat /\ MaxSends \in Nat
  BY SendOrderAssumption DEF TypeInv, TypeOK
<1>2. PICK n \in 0 .. Len(queue) :
        /\ n < Len(queue) => queue[n + 1] >= cut[c].below
        /\ queue' = SubSeq(queue, n + 1, Len(queue))
  BY DEF Collect
<1>3. \A i \in n + 1 .. Len(queue) : queue[i] \in Tickets
  BY <1>1
<1>4. /\ Len(queue') = IF n + 1 <= Len(queue) THEN Len(queue) - n ELSE 0
      /\ \A i \in 1 .. Len(queue) - n : queue'[i] = queue[i + n]
  <2>1. /\ Len(queue') = IF n + 1 <= Len(queue) THEN Len(queue) - (n + 1) + 1 ELSE 0
        /\ \A i \in 1 .. Len(queue) - (n + 1) + 1 : queue'[i] = queue[(n + 1) + i - 1]
    BY <1>1, <1>2, <1>3, SubSeqProperties
  <2>2. Len(queue) \in Nat
    BY <1>1
  <2>. QED  BY <2>1, <2>2
<1>5. Len(queue') = Len(queue) - n
  BY <1>1, <1>4
<1>6. ASSUME NEW i \in 1 .. Len(queue')
      PROVE  queue'[i] = queue[i + n] /\ queue'[i] >= cut[c].below
  <2>1. queue'[i] = queue[i + n] /\ i + n \in 1 .. Len(queue) /\ n + 1 \in 1 .. Len(queue)
    BY <1>1, <1>4, <1>5, <1>6
  <2>2. queue[n + 1] <= queue[i + n]
    <3>1. CASE i = 1
      BY <1>1, <2>1, <3>1
    <3>2. CASE n + 1 < i + n
      BY <1>1, <2>1, <3>2 DEF QueueInCallOrder
    <3>. QED  BY <3>1, <3>2, <1>6
  <2>3. queue[n + 1] >= cut[c].below
    BY <1>1, <1>2, <2>1
  <2>. QED  BY <1>1, <2>1, <2>2, <2>3
<1>7. /\ queue_lock = Nobody /\ started' = started
      /\ held' = IF held < cut[c].below THEN Nobody ELSE held
  BY DEF Collect
<1>8. held' \in {held, Nobody} /\ ~(held' \in Tickets /\ held' < cut[c].below)
  <2>1. CASE held < cut[c].below
    BY <1>7, <2>1
  <2>2. CASE ~(held < cut[c].below)
    BY <1>7, <2>2
  <2>. QED  BY <2>1, <2>2
<1>9. \E m \in 0 .. Len(queue) :
        /\ Len(queue') = Len(queue) - m
        /\ \A i \in 1 .. Len(queue') : queue'[i] = queue[i + m] /\ queue'[i] >= cut[c].below
  BY <1>5, <1>6
<1>. QED  BY <1>7, <1>8, <1>9

LEMMA JobStep == TypeInv /\ TypeInv' /\ LockInv /\ TurnInv /\ JobInv /\ [Next]_vars => JobInv'
<1>. SUFFICES ASSUME TypeInv, TypeInv', LockInv, TurnInv, JobInv, [Next]_vars PROVE JobInv'
  OBVIOUS
<1>0. /\ pc \in [Tickets -> Stages] /\ next_turn \in Nat /\ cancel_below \in Nat
      /\ next_ticket \in Nat
      /\ queue \in Seq(Tickets) /\ held \in Tickets \union {Nobody} /\ started \subseteq Tickets
  BY DEF TypeInv, TypeOK
<1>1. ASSUME NEW reply \in BOOLEAN, Reserve(reply) PROVE JobInv'
  <2>1. pc[next_ticket] = "idle"
    BY <1>1, SendOrderAssumption DEF Reserve, TypeInv, TypeOK, Issued, Tickets
  <2>. QED  BY <1>0, <1>1, <2>1, JobFrame DEF Reserve, Goto, worker, JobVars
<1>2. ASSUME NEW t \in Tickets, SendStep(t) \/ GiveUp(t) PROVE JobInv'
  <2>1. CASE Register(t)
    BY <1>0, <2>1, JobFrame DEF Register, Goto, order, worker, JobVars
  <2>2. CASE CheckTurn(t)
    BY <1>0, <2>2, JobFrame DEF CheckTurn, Goto, order, worker, JobVars
  <2>3. CASE LockQueue(t)
    BY <1>0, <2>3, JobFrame DEF LockQueue, Goto, order, worker, JobVars
  <2>4. CASE Claim(t)
    <3>1. CASE t < cancel_below
      <4>1. Goto(t, "rejected") /\ pc[t] = "claim"
        BY <1>0, <2>4, <3>1 DEF Claim, Tickets
      <4>2. UNCHANGED JobVars /\ next_turn' = next_turn
        BY <2>4 DEF Claim, worker, JobVars
      <4>. QED  BY <1>0, <4>1, <4>2, JobFrame DEF Goto
    <3>2. CASE t >= cancel_below
      <4>1. t = next_turn /\ pc[t] = "claim"
        BY <2>4, <3>2 DEF Claim, TurnInv, TurnIsExclusive
      <4>2. /\ pc' = [pc EXCEPT ![t] = "push"] /\ next_turn' = next_turn
            /\ queue' = queue /\ held' = held /\ started' = started
        BY <1>0, <2>4, <3>2 DEF Claim, Goto, worker, Tickets
      <4>3. \A j \in Tickets : Enqueued(j)' <=> Enqueued(j)
        BY <4>2 DEF Enqueued, InQueue
      <4>4. \A j \in Tickets : Enqueued(j) => j < t
        BY <4>1 DEF JobInv
      <4>5. QueueInCallOrder'
        BY <4>2 DEF JobInv, QueueInCallOrder
      <4>6. \A j \in Tickets : Enqueued(j) => j < next_turn'
        BY <4>1, <4>2, <4>4
      <4>7. \A s, j \in Tickets : pc'[s] = "push" /\ Enqueued(j) => j < s
        BY <1>0, <4>2, <4>4 DEF JobInv
      <4>. QED  BY <4>3, <4>5, <4>6, <4>7 DEF JobInv
    <3>. QED  BY <1>0, <3>1, <3>2 DEF Tickets
  <2>5. CASE Push(t)
    <3>1. /\ pc[t] = "push" /\ queue' = Append(queue, t) /\ held' = held /\ started' = started
          /\ pc' = [pc EXCEPT ![t] = "release"] /\ next_turn' = next_turn
      BY <2>5 DEF Push, Goto, order, worker
    <3>2. \A j \in Tickets : Enqueued(j) => j < t
      BY <3>1 DEF JobInv
    <3>3. /\ Len(queue') = Len(queue) + 1
          /\ \A i \in 1 .. Len(queue) : queue'[i] = queue[i]
          /\ queue'[Len(queue) + 1] = t
      BY <1>0, <3>1
    <3>4. \A j \in Tickets : Enqueued(j)' => Enqueued(j) \/ j = t
      BY <1>0, <3>1, <3>3 DEF Enqueued, InQueue
    <3>5. t < next_turn \/ t = next_turn
      BY <1>0, <3>1 DEF TurnInv, TurnIsExclusive, Tickets
    <3>6. QueueInCallOrder'
      <4>1. \A i \in 1 .. Len(queue) : queue[i] \in Tickets /\ queue[i] < t
        BY <1>0, <3>2 DEF Enqueued, InQueue
      <4>2. held < t
        BY <1>0, <3>2 DEF Enqueued, InQueue, Nobody, Tickets
      <4>3. \A s \in started : s < t
        BY <1>0, <3>2 DEF Enqueued
      <4>. QED  BY <1>0, <3>1, <3>3, <4>1, <4>2, <4>3 DEF JobInv, QueueInCallOrder
    <3>7. \A s \in Tickets : pc'[s] # "push"
      <4>1. \A s \in Tickets : pc[s] = "push" => s = t
        BY <3>1 DEF LockInv
      <4>. QED  BY <1>0, <3>1, <4>1
    <3>8. \A j \in Tickets : Enqueued(j)' => j < next_turn \/ (j = next_turn /\ pc'[j] = "release")
      BY <1>0, <3>1, <3>4, <3>5 DEF JobInv
    <3>. QED  BY <3>1, <3>6, <3>7, <3>8 DEF JobInv
  <2>6. CASE Release(t)
    <3>1. ReleaseTurn(t) /\ pc[t] = "release" /\ Goto(t, "wake_queued") /\ UNCHANGED JobVars
      BY <2>6 DEF Release, worker, JobVars
    <3>2. next_turn' >= next_turn /\ (t = next_turn => next_turn' > next_turn)
      <4>1. /\ next_turn' \in next_turn .. next_ticket
            /\ t = next_turn => next_turn' > next_turn
        BY <3>1, ReleaseRange
      <4>. QED  BY <1>0, <4>1
    <3>. QED  BY <1>0, <3>1, <3>2, JobFrame DEF Goto
  <2>7. CASE DropCancelled(t)
    <3>1. ReleaseTurn(t) /\ pc[t] = "rejected" /\ Goto(t, "wake_cancelled") /\ UNCHANGED JobVars
      BY <2>7 DEF DropCancelled, worker, JobVars
    <3>2. next_turn' >= next_turn /\ (t = next_turn => next_turn' > next_turn)
      <4>1. /\ next_turn' \in next_turn .. next_ticket
            /\ t = next_turn => next_turn' > next_turn
        BY <3>1, ReleaseRange
      <4>. QED  BY <1>0, <4>1
    <3>. QED  BY <1>0, <3>1, <3>2, JobFrame DEF Goto
  <2>8. CASE NotifyRelease(t)
    BY <1>0, <2>8, JobFrame DEF NotifyRelease, Goto, order, worker, JobVars
  <2>9. CASE GiveUp(t)
    <3>1. /\ ReleaseTurn(t) /\ pc[t] \in {"prepare", "sleep", "lock"}
          /\ Goto(t, "wake_gaveup") /\ UNCHANGED JobVars
      BY <2>9 DEF GiveUp, worker, JobVars
    <3>2. next_turn' >= next_turn /\ (t = next_turn => next_turn' > next_turn)
      <4>1. /\ next_turn' \in next_turn .. next_ticket
            /\ t = next_turn => next_turn' > next_turn
        BY <3>1, ReleaseRange
      <4>. QED  BY <1>0, <4>1
    <3>. QED  BY <1>0, <3>1, <3>2, JobFrame DEF Goto
  <2>. QED  BY <1>2, <2>1, <2>2, <2>3, <2>4, <2>5, <2>6, <2>7, <2>8, <2>9 DEF SendStep
<1>3. ASSUME NEW c \in Cutters, Cut(c) PROVE JobInv'
  <2>1. next_turn' = next_ticket /\ next_turn' >= next_turn
    BY <1>3, CutRange DEF TypeInv, TypeOK
  <2>. QED  BY <1>0, <1>3, <2>1, JobFrame DEF Cut, worker, JobVars
<1>4. ASSUME NEW c \in Cutters, CutterStep(c) PROVE JobInv'
  <2>1. CASE NotifyCut(c)
    BY <1>0, <2>1, JobFrame DEF NotifyCut, order, worker, JobVars
  <2>2. CASE Collect(c)
    <3>1. QueueInCallOrder
      BY DEF JobInv
    <3>2. /\ held' \in {held, Nobody} /\ started' = started
          /\ \E n \in 0 .. Len(queue) :
               /\ Len(queue') = Len(queue) - n
               /\ \A i \in 1 .. Len(queue') : queue'[i] = queue[i + n]
      BY <2>2, <3>1, CollectEffect
    <3>3. pc' = pc /\ next_turn' = next_turn
      BY <2>2 DEF Collect, order
    <3>4. \A j \in Tickets : Enqueued(j)' => Enqueued(j)
      BY <1>0, <3>2 DEF Enqueued, InQueue, Nobody, Tickets
    <3>5. QueueInCallOrder'
      <4>1. PICK n \in 0 .. Len(queue) :
              /\ Len(queue') = Len(queue) - n
              /\ \A i \in 1 .. Len(queue') : queue'[i] = queue[i + n]
        BY <3>2
      <4>2. \A i \in 1 .. Len(queue') : i + n \in 1 .. Len(queue) /\ queue'[i] \in Tickets
        BY <1>0, <4>1
      <4>3. \A i \in 1 .. Len(queue') : Nobody < queue'[i]
        BY <4>2 DEF Tickets, Nobody
      <4>4. \A i, k \in 1 .. Len(queue') : i < k => queue'[i] < queue'[k]
        BY <1>0, <3>1, <4>1, <4>2 DEF QueueInCallOrder
      <4>5. \A i \in 1 .. Len(queue') : held' < queue'[i]
        BY <3>1, <3>2, <4>1, <4>2, <4>3 DEF QueueInCallOrder
      <4>6. \A s \in started' : \A i \in 1 .. Len(queue') : s < queue'[i]
        BY <3>1, <3>2, <4>1, <4>2 DEF QueueInCallOrder
      <4>7. \A s \in started' : held' # Nobody => s < held'
        BY <3>1, <3>2 DEF QueueInCallOrder
      <4>. QED  BY <4>4, <4>5, <4>6, <4>7 DEF QueueInCallOrder
    <3>. QED  BY <3>3, <3>4, <3>5 DEF JobInv
  <2>3. CASE EmitReplyEnds(c)
    BY <1>0, <2>3, JobFrame DEF EmitReplyEnds, order, worker, JobVars
  <2>. QED  BY <1>4, <2>1, <2>2, <2>3 DEF CutterStep
<1>5. CASE WorkerStep
  <2>1. CASE PopIntoHeld
    <3>1. /\ queue # <<>> /\ held = Nobody /\ held' = Head(queue) /\ queue' = Tail(queue)
          /\ started' = started /\ pc' = pc /\ next_turn' = next_turn
      BY <2>1 DEF PopIntoHeld, order
    <3>2. /\ Len(queue) > 0 /\ held' = queue[1] /\ Len(queue') = Len(queue) - 1
          /\ \A i \in 1 .. Len(queue') : queue'[i] = queue[i + 1]
      BY <1>0, <3>1
    <3>3. \A j \in Tickets : Enqueued(j)' => Enqueued(j)
      BY <1>0, <3>1, <3>2 DEF Enqueued, InQueue
    <3>4. QueueInCallOrder'
      BY <1>0, <3>1, <3>2 DEF JobInv, QueueInCallOrder
    <3>. QED  BY <3>1, <3>3, <3>4 DEF JobInv
  <2>2. CASE TakeHeld
    <3>1. /\ held # Nobody /\ held' = Nobody /\ started' = started \union {held}
          /\ queue' = queue /\ pc' = pc /\ next_turn' = next_turn
      BY <2>2 DEF TakeHeld, order
    <3>2. \A j \in Tickets : Enqueued(j)' => Enqueued(j)
      BY <1>0, <3>1 DEF Enqueued, InQueue, Nobody, Tickets
    <3>3. QueueInCallOrder'
      <4>1. \A i \in 1 .. Len(queue) : queue[i] \in Tickets
        BY <1>0
      <4>2. \A i \in 1 .. Len(queue) : Nobody < queue[i]
        BY <4>1 DEF Tickets, Nobody
      <4>. QED  BY <3>1, <4>2 DEF JobInv, QueueInCallOrder
    <3>. QED  BY <3>1, <3>2, <3>3 DEF JobInv
  <2>. QED  BY <1>5, <2>1, <2>2 DEF WorkerStep
<1>6. CASE UNCHANGED vars
  BY <1>0, <1>6, JobFrame DEF vars, order, worker, JobVars
<1>. QED  BY <1>1, <1>2, <1>3, <1>4, <1>5, <1>6 DEF Next

\* Jobs are queued, held and started in call order (VOICE-API.md: sends play
\* in call order), whatever the order in which the send tasks are polled.
THEOREM CallOrder == Spec => []QueueInCallOrder
<1>1. Init => TypeInv /\ LockInv /\ TurnInv /\ JobInv
  BY TypeInit, LockInit, TurnInit, JobInit
<1>2. TypeInv /\ LockInv /\ TurnInv /\ JobInv /\ [Next]_vars
        => (TypeInv /\ LockInv /\ TurnInv /\ JobInv)'
  BY TypeStep, LockStep, TurnStep, JobStep
<1>3. JobInv => QueueInCallOrder
  BY DEF JobInv
<1>. QED  BY <1>1, <1>2, <1>3, PTL DEF Spec

\* No two sends that are still wanted race for the queue lock: the one past its
\* turn check is the one whose turn it is (tts_send_order.rs, wait_turn).
THEOREM ExclusiveTurn == Spec => []TurnIsExclusive
<1>1. Init => TypeInv /\ TurnInv
  BY TypeInit, TurnInit
<1>2. TypeInv /\ TurnInv /\ [Next]_vars => (TypeInv /\ TurnInv)'
  BY TypeStep, TurnStep
<1>3. TurnInv => TurnIsExclusive
  BY DEF TurnInv
<1>. QED  BY <1>1, <1>2, <1>3, PTL DEF Spec

\* Sends reach the vendor in call order (VOICE-API.md): the two halves together.
THEOREM SendsKeepCallOrder == Spec => []SendsInCallOrder
<1>1. QueueInCallOrder /\ TurnIsExclusive => SendsInCallOrder
  BY DEF SendsInCallOrder
<1>. QED  BY <1>1, CallOrder, ExclusiveTurn, PTL

-----------------------------------------------------------------------------
(* What a flush leaves behind. *)

\* A pass that has taken its cut never cuts beyond the cancelled tickets.
CutInv ==
    /\ \A c \in Cutters : cut[c].stage # "idle" => cut[c].below <= cancel_below
    /\ CutLeavesNothingBehind

LEMMA CutInit == Init => CutInv
  BY DEF Init, CutInv, CutLeavesNothingBehind

LEMMA CutStep ==
    TypeInv /\ TypeInv' /\ LockInv /\ JobInv /\ CutInv /\ [Next]_vars => CutInv'
<1>. SUFFICES ASSUME TypeInv, TypeInv', LockInv, JobInv, CutInv, [Next]_vars PROVE CutInv'
  OBVIOUS
<1>0. /\ pc \in [Tickets -> Stages] /\ cancel_below \in Nat /\ next_ticket \in Nat
      /\ cancel_below <= next_ticket
      /\ queue \in Seq(Tickets) /\ held \in Tickets \union {Nobody}
      /\ cut \in [Cutters -> [stage : {"idle", "notify", "collect", "emit"},
                              below : 0 .. MaxSends, replies : SUBSET Tickets]]
  BY DEF TypeInv, TypeOK
<1>1. ASSUME NEW reply \in BOOLEAN, Reserve(reply) PROVE CutInv'
  BY <1>0, <1>1 DEF Reserve, Goto, worker, passes, CutInv, CutLeavesNothingBehind, InQueue
<1>2. ASSUME NEW t \in Tickets, SendStep(t) \/ GiveUp(t) PROVE CutInv'
  <2>1. cut' = cut
    BY <1>2 DEF SendStep, GiveUp, Register, CheckTurn, LockQueue, Claim, Push, Release,
                DropCancelled, NotifyRelease, passes
  <2>2. cancel_below' = cancel_below
    BY <1>2 DEF SendStep, GiveUp, Register, CheckTurn, LockQueue, Claim, Push, Release,
                DropCancelled, NotifyRelease, ReleaseTurn, order
  <2>3. \A s \in Tickets : InQueue(s)' => InQueue(s) \/ pc[s] = "push"
    <3>1. CASE Push(t)
      <4>1. pc[t] = "push" /\ queue' = Append(queue, t) /\ held' = held
        BY <3>1 DEF Push, worker
      <4>. QED  BY <1>0, <4>1 DEF InQueue
    <3>2. CASE ~Push(t)
      <4>1. queue' = queue /\ held' = held
        BY <1>2, <3>2 DEF SendStep, GiveUp, Register, CheckTurn, LockQueue, Claim, Release,
                          DropCancelled, NotifyRelease, worker
      <4>. QED  BY <4>1 DEF InQueue
    <3>. QED  BY <3>1, <3>2
  <2>4. \A s \in Tickets : pc'[s] = "push" => pc[s] = "push" \/ s >= cancel_below
    BY <1>0, <1>2 DEF SendStep, GiveUp, Register, CheckTurn, LockQueue, Claim, Push, Release,
                      DropCancelled, NotifyRelease, Goto
  <2>. QED  BY <1>0, <2>1, <2>2, <2>3, <2>4 DEF CutInv, CutLeavesNothingBehind, Tickets
<1>3. ASSUME NEW c \in Cutters, Cut(c) PROVE CutInv'
  <2>1. cancel_below' = next_ticket
    BY <1>3, CutRange
  <2>2. cut' = [cut EXCEPT ![c] = [stage |-> "notify", below |-> next_ticket,
                                   replies |-> {t \in pending_reply : t < cancel_below'}]]
        /\ pc' = pc /\ queue' = queue /\ held' = held
    BY <1>3 DEF Cut, worker
  <2>. QED  BY <1>0, <2>1, <2>2 DEF CutInv, CutLeavesNothingBehind, InQueue
<1>4. ASSUME NEW c \in Cutters, CutterStep(c) PROVE CutInv'
  <2>1. CASE NotifyCut(c)
    BY <1>0, <2>1 DEF NotifyCut, order, worker, CutInv, CutLeavesNothingBehind, InQueue
  <2>2. CASE Collect(c)
    <3>1. /\ cut[c].stage = "collect" /\ queue_lock = Nobody /\ pc' = pc
          /\ cancel_below' = cancel_below
          /\ \A d \in Cutters \ {c} : cut'[d] = cut[d]
          /\ cut'[c].below = cut[c].below
      BY <1>0, <2>2 DEF Collect, order
    <3>2. /\ held' \in {held, Nobody} /\ ~(held' \in Tickets /\ held' < cut[c].below)
          /\ \E n \in 0 .. Len(queue) :
                /\ Len(queue') = Len(queue) - n
                /\ \A i \in 1 .. Len(queue') : queue'[i] = queue[i + n] /\ queue'[i] >= cut[c].below
      BY <2>2, CollectEffect DEF JobInv
    <3>3. \A t \in Tickets : InQueue(t)' => InQueue(t) /\ ~(t < cut[c].below)
      BY <1>0, <3>2 DEF InQueue, Nobody, Tickets
    <3>4. \A t \in Tickets : pc[t] # "push"
      BY <3>1 DEF LockInv, Nobody, Tickets
    <3>. QED  BY <1>0, <3>1, <3>3, <3>4 DEF CutInv, CutLeavesNothingBehind
  <2>3. CASE EmitReplyEnds(c)
    BY <1>0, <2>3 DEF EmitReplyEnds, order, worker, CutInv, CutLeavesNothingBehind, InQueue
  <2>. QED  BY <1>4, <2>1, <2>2, <2>3 DEF CutterStep
<1>5. CASE WorkerStep
  <2>1. /\ cut' = cut /\ cancel_below' = cancel_below /\ pc' = pc
    BY <1>5 DEF WorkerStep, PopIntoHeld, TakeHeld, order, passes
  <2>2. \A t \in Tickets : InQueue(t)' => InQueue(t)
    <3>1. CASE PopIntoHeld
      BY <1>0, <3>1 DEF PopIntoHeld, InQueue
    <3>2. CASE TakeHeld
      BY <1>0, <3>2 DEF TakeHeld, InQueue, Nobody, Tickets
    <3>. QED  BY <1>5, <3>1, <3>2 DEF WorkerStep
  <2>. QED  BY <2>1, <2>2 DEF CutInv, CutLeavesNothingBehind
<1>6. CASE UNCHANGED vars
  BY <1>6 DEF vars, order, worker, passes, CutInv, CutLeavesNothingBehind, InQueue
<1>. QED  BY <1>1, <1>2, <1>3, <1>4, <1>5, <1>6 DEF Next

\* Once a flush has collected the queue, no send called before its cut is
\* queued or can still be (agent.rs, cancel_pending_tts_synthesis_collect_before).
THEOREM FlushIsComplete == Spec => []CutLeavesNothingBehind
<1>1. Init => TypeInv /\ LockInv /\ TurnInv /\ JobInv /\ CutInv
  BY TypeInit, LockInit, TurnInit, JobInit, CutInit
<1>2. TypeInv /\ LockInv /\ TurnInv /\ JobInv /\ CutInv /\ [Next]_vars
        => (TypeInv /\ LockInv /\ TurnInv /\ JobInv /\ CutInv)'
  BY TypeStep, LockStep, TurnStep, JobStep, CutStep
<1>3. CutInv => CutLeavesNothingBehind
  BY DEF CutInv
<1>. QED  BY <1>1, <1>2, <1>3, PTL DEF Spec

-----------------------------------------------------------------------------
(***************************************************************************)
(* The reply ids                                                           *)
(***************************************************************************)

\* A job is in the queue, held or started only after its push.
StageInv ==
    /\ \A t \in Tickets : Enqueued(t) => pc[t] \in {"release", "wake_queued", "queued"}
    /\ \A t \in has_reply : pc[t] # "idle"

\* A reply id is in the map only while its send is on its way, uncancelled, and
\* the turn has not passed it.
PendInv ==
    \A t \in pending_reply :
        /\ t \in has_reply
        /\ pc[t] \in {"prepare", "check", "sleep", "lock", "claim"}
        /\ cancel_below <= t
        /\ next_turn <= t
        /\ t \notin released_ahead

-----------------------------------------------------------------------------
(* Where a job, and a send with a pending reply id, can be. *)

LEMMA StageInit == Init => StageInv
  BY DEF Init, StageInv, Enqueued, InQueue, Tickets, Nobody

LEMMA StageStep == TypeInv /\ JobInv /\ StageInv /\ [Next]_vars => StageInv'
<1>. SUFFICES ASSUME TypeInv, JobInv, StageInv, [Next]_vars PROVE StageInv'
  OBVIOUS
<1>0. /\ pc \in [Tickets -> Stages] /\ next_ticket \in 0 .. MaxSends
      /\ queue \in Seq(Tickets) /\ held \in Tickets \union {Nobody} /\ started \subseteq Tickets
      /\ has_reply \subseteq Tickets
  BY DEF TypeInv, TypeOK
<1>1. ASSUME NEW reply \in BOOLEAN, Reserve(reply) PROVE StageInv'
  <2>1. pc[next_ticket] = "idle" /\ next_ticket \in Tickets
    BY <1>1, SendOrderAssumption DEF Reserve, TypeInv, TypeOK, Issued, Tickets
  <2>2. \A t \in Tickets : Enqueued(t)' <=> Enqueued(t)
    BY <1>1 DEF Reserve, Enqueued, InQueue, worker
  <2>. QED  BY <1>0, <1>1, <2>1, <2>2 DEF Reserve, Goto, StageInv
<1>2. ASSUME NEW t \in Tickets, SendStep(t) \/ GiveUp(t) PROVE StageInv'
  <2>1. has_reply' = has_reply
    BY <1>2 DEF SendStep, GiveUp, Register, CheckTurn, LockQueue, Claim, Push, Release,
                DropCancelled, NotifyRelease
  <2>2. CASE Push(t)
    <3>1. /\ pc[t] = "push" /\ queue' = Append(queue, t) /\ held' = held /\ started' = started
          /\ pc' = [pc EXCEPT ![t] = "release"]
      BY <2>2 DEF Push, Goto, worker
    <3>2. \A j \in Tickets : Enqueued(j)' => Enqueued(j) \/ j = t
      BY <1>0, <3>1 DEF Enqueued, InQueue
    <3>. QED  BY <1>0, <2>1, <3>1, <3>2 DEF StageInv
  <2>3. CASE ~Push(t)
    <3>1. queue' = queue /\ held' = held /\ started' = started
      BY <1>2, <2>3 DEF SendStep, GiveUp, Register, CheckTurn, LockQueue, Claim, Release,
                        DropCancelled, NotifyRelease, worker
    <3>2. \A j \in Tickets : Enqueued(j)' <=> Enqueued(j)
      BY <3>1 DEF Enqueued, InQueue
    <3>3. \E stage \in Stages \ {"idle"} :
            /\ pc' = [pc EXCEPT ![t] = stage]
            /\ pc[t] = "release" => stage = "wake_queued"
            /\ pc[t] = "wake_queued" => stage = "queued"
            /\ pc[t] # "queued"
      BY <1>2, <2>3 DEF SendStep, GiveUp, Register, CheckTurn, LockQueue, Claim, Release,
                        DropCancelled, NotifyRelease, Goto, Stages
    <3>. QED  BY <1>0, <2>1, <3>2, <3>3 DEF StageInv
  <2>. QED  BY <2>2, <2>3
<1>3. ASSUME NEW c \in Cutters, Cut(c) PROVE StageInv'
  BY <1>3 DEF Cut, worker, StageInv, Enqueued, InQueue
<1>4. ASSUME NEW c \in Cutters, CutterStep(c) PROVE StageInv'
  <2>1. pc' = pc /\ has_reply' = has_reply
    BY <1>4 DEF CutterStep, NotifyCut, Collect, EmitReplyEnds
  <2>2. \A j \in Tickets : Enqueued(j)' => Enqueued(j)
    <3>1. CASE Collect(c)
      <4>1. /\ held' \in {held, Nobody} /\ started' = started
            /\ \E n \in 0 .. Len(queue) :
                 /\ Len(queue') = Len(queue) - n
                 /\ \A i \in 1 .. Len(queue') : queue'[i] = queue[i + n]
        BY <3>1, CollectEffect DEF JobInv
      <4>. QED  BY <1>0, <4>1 DEF Enqueued, InQueue, Nobody, Tickets
    <3>2. CASE NotifyCut(c) \/ EmitReplyEnds(c)
      BY <3>2 DEF NotifyCut, EmitReplyEnds, worker, Enqueued, InQueue
    <3>. QED  BY <1>4, <3>1, <3>2 DEF CutterStep
  <2>. QED  BY <2>1, <2>2 DEF StageInv
<1>5. CASE WorkerStep
  <2>1. pc' = pc /\ has_reply' = has_reply
    BY <1>5 DEF WorkerStep, PopIntoHeld, TakeHeld
  <2>2. \A j \in Tickets : Enqueued(j)' => Enqueued(j)
    <3>1. CASE PopIntoHeld
      BY <1>0, <3>1 DEF PopIntoHeld, Enqueued, InQueue
    <3>2. CASE TakeHeld
      BY <1>0, <3>2 DEF TakeHeld, Enqueued, InQueue, Nobody, Tickets
    <3>. QED  BY <1>5, <3>1, <3>2 DEF WorkerStep
  <2>. QED  BY <2>1, <2>2 DEF StageInv
<1>6. CASE UNCHANGED vars
  BY <1>6 DEF vars, worker, StageInv, Enqueued, InQueue
<1>. QED  BY <1>1, <1>2, <1>3, <1>4, <1>5, <1>6 DEF Next

\* The turn stops at the first ticket that has not released.
LEMMA AdvanceStops ==
    ASSUME NEW from \in Nat, NEW ahead, Advance(from, ahead),
           NEW u \in Nat, from <= u, u \notin ahead
    PROVE  next_turn' <= u /\ u \notin released_ahead'
  BY SendOrderAssumption DEF Advance

\* A release moves the turn past no other send that is still on its way.
LEMMA ReleaseStops ==
    ASSUME TypeInv, NEW t \in Tickets, ReleaseTurn(t),
           NEW u \in Tickets \ {t}, next_turn <= u, u \notin released_ahead
    PROVE  next_turn' <= u /\ u \notin released_ahead'
<1>1. next_turn \in Nat /\ t \in Nat /\ u \in Nat
  BY DEF TypeInv, TypeOK, Tickets
<1>2. CASE t = next_turn /\ Advance(next_turn + 1, released_ahead)
  <2>1. next_turn + 1 \in Nat /\ next_turn + 1 <= u
    BY <1>1, <1>2
  <2>. QED  BY <1>1, <1>2, <2>1, AdvanceStops
<1>3. CASE t > next_turn /\ released_ahead' = released_ahead \union {t} /\ UNCHANGED next_turn
  BY <1>3
<1>4. CASE t < next_turn /\ UNCHANGED <<next_turn, released_ahead>>
  BY <1>4
<1>. QED  BY <1>2, <1>3, <1>4 DEF ReleaseTurn

LEMMA PendInit == Init => PendInv
  BY DEF Init, PendInv

LEMMA PendStep == TypeInv /\ PendInv /\ [Next]_vars => PendInv'
<1>. SUFFICES ASSUME TypeInv, PendInv, [Next]_vars PROVE PendInv'
  OBVIOUS
<1>0. /\ pc \in [Tickets -> Stages] /\ next_ticket \in 0 .. MaxSends
      /\ next_turn \in 0 .. next_ticket /\ cancel_below \in 0 .. next_ticket
      /\ released_ahead \subseteq next_turn + 1 .. next_ticket - 1
      /\ pending_reply \subseteq Tickets
      /\ next_ticket \in Nat /\ next_turn \in Nat /\ cancel_below \in Nat
      /\ \A u \in Tickets : u \in Nat
  BY SendOrderAssumption DEF TypeInv, TypeOK, Tickets
<1>1. ASSUME NEW reply \in BOOLEAN, Reserve(reply) PROVE PendInv'
  <2>1. pc[next_ticket] = "idle" /\ next_ticket \in Tickets
    BY <1>1, SendOrderAssumption DEF Reserve, TypeInv, TypeOK, Issued, Tickets
  <2>2. cancel_below <= next_ticket /\ next_turn <= next_ticket
    BY <1>0, SendOrderAssumption
  <2>3. next_ticket \notin released_ahead
    BY <1>0
  <2>4. /\ pc' = [pc EXCEPT ![next_ticket] = "prepare"]
        /\ UNCHANGED <<next_turn, released_ahead, cancel_below>>
        /\ pending_reply' \subseteq pending_reply \union {next_ticket}
        /\ \A t \in pending_reply' : t \in has_reply \/ t = next_ticket
        /\ next_ticket \in pending_reply' => next_ticket \in has_reply' \/ next_ticket \in pending_reply
        /\ has_reply \subseteq has_reply'
    BY <1>1 DEF Reserve, Goto, PendInv
  <2>. QED  BY <1>0, <2>1, <2>2, <2>3, <2>4 DEF PendInv
<1>2. ASSUME NEW t \in Tickets, SendStep(t) \/ GiveUp(t) PROVE PendInv'
  <2>1. CASE Register(t)
    BY <1>0, <2>1 DEF Register, Goto, order, PendInv
  <2>2. CASE CheckTurn(t)
    <3>1. t \in pending_reply => ~(t < cancel_below)
      BY <1>0 DEF PendInv
    <3>. QED  BY <1>0, <2>2, <3>1 DEF CheckTurn, Goto, order, PendInv
  <2>3. CASE LockQueue(t)
    BY <1>0, <2>3 DEF LockQueue, Goto, order, PendInv
  <2>4. CASE Claim(t)
    <3>1. t \in pending_reply => ~(t < cancel_below)
      BY <1>0 DEF PendInv
    <3>. QED  BY <1>0, <2>4, <3>1 DEF Claim, Goto, PendInv
  <2>5. CASE Push(t)
    BY <1>0, <2>5 DEF Push, Goto, order, PendInv
  <2>6. CASE Release(t) \/ DropCancelled(t) \/ GiveUp(t)
    <3>1. /\ ReleaseTurn(t) /\ pending_reply' = pending_reply \ {t}
          /\ has_reply' = has_reply /\ cancel_below' = cancel_below
          /\ \A u \in Tickets \ {t} : pc'[u] = pc[u]
      BY <1>0, <2>6 DEF Release, DropCancelled, GiveUp, ReleaseTurn, Goto
    <3>2. ASSUME NEW u \in pending_reply'
          PROVE  next_turn' <= u /\ u \notin released_ahead'
      BY <1>0, <3>1, <3>2, ReleaseStops DEF PendInv
    <3>. QED  BY <1>0, <3>1, <3>2 DEF PendInv
  <2>7. CASE NotifyRelease(t)
    BY <1>0, <2>7 DEF NotifyRelease, Goto, order, PendInv
  <2>. QED  BY <1>2, <2>1, <2>2, <2>3, <2>4, <2>5, <2>6, <2>7 DEF SendStep
<1>3. ASSUME NEW c \in Cutters, Cut(c) PROVE PendInv'
  <2>1. cancel_below' = next_ticket
    BY <1>3, CutRange
  <2>2. \A u \in pending_reply : u < next_ticket
    BY <1>0 DEF PendInv, TypeInv, Issued, Tickets
  <2>3. pending_reply' = {}
    <3>1. pending_reply' = {t \in pending_reply : t >= next_ticket}
      BY <1>3, <2>1 DEF Cut
    <3>2. \A u \in pending_reply : ~(u >= next_ticket)
      BY <1>0, <2>2
    <3>. QED  BY <3>1, <3>2
  <2>. QED  BY <2>3 DEF PendInv
<1>4. ASSUME NEW c \in Cutters, CutterStep(c) PROVE PendInv'
  BY <1>4 DEF CutterStep, NotifyCut, Collect, EmitReplyEnds, order, PendInv
<1>5. CASE WorkerStep
  BY <1>5 DEF WorkerStep, PopIntoHeld, TakeHeld, order, PendInv
<1>6. CASE UNCHANGED vars
  BY <1>6 DEF vars, order, PendInv
<1>. QED  BY <1>1, <1>2, <1>3, <1>4, <1>5, <1>6 DEF Next

-----------------------------------------------------------------------------
(* The order in which the reply ends of one flush go out. *)

LEMMA OrderInit == Init => ReplyEndsInTicketOrder
  BY DEF Init, ReplyEndsInTicketOrder

\* At its cut a pass takes the replies of the sends still on their way, whose
\* tickets the turn has not passed; every job is below the turn. A send that
\* claims its place later is above the cut.
LEMMA OrderStep ==
    /\ TypeInv /\ TurnInv /\ JobInv /\ CutInv /\ PendInv
    /\ ReplyEndsInTicketOrder /\ [Next]_vars
    => ReplyEndsInTicketOrder'
<1>. SUFFICES ASSUME TypeInv, TurnInv, JobInv, CutInv, PendInv, ReplyEndsInTicketOrder, [Next]_vars
              PROVE  ReplyEndsInTicketOrder'
  OBVIOUS
<1>0. /\ pc \in [Tickets -> Stages] /\ next_ticket \in Nat /\ next_turn \in Nat
      /\ cancel_below \in Nat /\ pending_reply \subseteq Tickets
      /\ queue \in Seq(Tickets) /\ held \in Tickets \union {Nobody}
      /\ cut \in [Cutters -> [stage : {"idle", "notify", "collect", "emit"},
                              below : 0 .. MaxSends, replies : SUBSET Tickets]]
      /\ \A t \in Tickets : t \in Nat
      /\ \A c \in Cutters : cut[c].below \in Nat
  BY SendOrderAssumption DEF TypeInv, TypeOK, Tickets
<1>1. ASSUME NEW reply \in BOOLEAN, Reserve(reply) PROVE ReplyEndsInTicketOrder'
  <2>1. \A t \in Tickets : pc'[t] = "push" => pc[t] = "push"
    BY <1>0, <1>1 DEF Reserve, Goto
  <2>. QED  BY <1>1, <2>1 DEF Reserve, worker, passes, InQueue, ReplyEndsInTicketOrder
<1>2. ASSUME NEW t \in Tickets, SendStep(t) \/ GiveUp(t) PROVE ReplyEndsInTicketOrder'
  <2>1. cut' = cut
    BY <1>2 DEF SendStep, GiveUp, Register, CheckTurn, LockQueue, Claim, Push, Release,
                DropCancelled, NotifyRelease, passes
  <2>2. \A s \in Tickets : InQueue(s)' => InQueue(s) \/ pc[s] = "push"
    <3>1. CASE Push(t)
      <4>1. pc[t] = "push" /\ queue' = Append(queue, t) /\ held' = held
        BY <3>1 DEF Push, worker
      <4>. QED  BY <1>0, <4>1 DEF InQueue
    <3>2. CASE ~Push(t)
      <4>1. queue' = queue /\ held' = held
        BY <1>2, <3>2 DEF SendStep, GiveUp, Register, CheckTurn, LockQueue, Claim, Release,
                          DropCancelled, NotifyRelease, worker
      <4>. QED  BY <4>1 DEF InQueue
    <3>. QED  BY <3>1, <3>2
  <2>3. \A s \in Tickets : pc'[s] = "push" => pc[s] = "push" \/ s >= cancel_below
    BY <1>0, <1>2 DEF SendStep, GiveUp, Register, CheckTurn, LockQueue, Claim, Push, Release,
                      DropCancelled, NotifyRelease, Goto
  <2>4. \A c \in Cutters : cut[c].stage # "idle" => cut[c].below <= cancel_below
    BY DEF CutInv
  <2>5. ASSUME NEW c \in Cutters, NEW r \in Tickets, NEW q \in Tickets,
               cut'[c].stage \in {"notify", "collect"}, r \in cut'[c].replies,
               q < cut'[c].below, (InQueue(q) \/ pc[q] = "push")'
        PROVE  q < r
    <3>1. InQueue(q) \/ pc[q] = "push" \/ q >= cancel_below
      BY <2>2, <2>3, <2>5
    <3>2. ~(q >= cancel_below)
      BY <1>0, <2>1, <2>4, <2>5
    <3>. QED  BY <2>1, <2>5, <3>1, <3>2 DEF ReplyEndsInTicketOrder
  <2>. QED  BY <2>5 DEF ReplyEndsInTicketOrder
<1>3. ASSUME NEW d \in Cutters, Cut(d) PROVE ReplyEndsInTicketOrder'
  <2>1. cut' = [cut EXCEPT ![d] = [stage |-> "notify", below |-> next_ticket,
                                   replies |-> {t \in pending_reply : t < cancel_below'}]]
        /\ pc' = pc /\ queue' = queue /\ held' = held
    BY <1>3 DEF Cut, worker
  <2>2. \A t \in Tickets : (InQueue(t) \/ pc[t] = "push")' <=> InQueue(t) \/ pc[t] = "push"
    BY <2>1 DEF InQueue
  <2>3. ASSUME NEW r \in pending_reply, NEW q \in Tickets, InQueue(q) \/ pc[q] = "push"
        PROVE  q < r
    <3>1. next_turn <= r /\ cancel_below <= r /\ pc[r] \notin {"push", "release"}
      BY DEF PendInv
    <3>2. CASE InQueue(q)
      <4>1. q < next_turn \/ (q = next_turn /\ pc[q] = "release")
        BY <3>2 DEF JobInv, Enqueued
      <4>. QED  BY <1>0, <3>1, <4>1
    <3>3. CASE pc[q] = "push"
      <4>1. q < cancel_below \/ q = next_turn
        BY <1>0, <3>3 DEF TurnInv, TurnIsExclusive
      <4>2. q # r
        BY <3>1, <3>3
      <4>. QED  BY <1>0, <3>1, <4>1, <4>2
    <3>. QED  BY <2>3, <3>2, <3>3
  <2>4. ASSUME NEW c \in Cutters, NEW r \in Tickets, NEW q \in Tickets,
               cut'[c].stage \in {"notify", "collect"}, r \in cut'[c].replies,
               q < cut'[c].below, InQueue(q) \/ pc[q] = "push"
        PROVE  q < r
    <3>1. CASE c = d
      <4>1. r \in pending_reply
        BY <1>0, <2>1, <2>4, <3>1
      <4>. QED  BY <2>3, <2>4, <4>1
    <3>2. CASE c # d
      <4>1. cut'[c] = cut[c]
        BY <1>0, <2>1, <3>2
      <4>. QED  BY <2>4, <4>1 DEF ReplyEndsInTicketOrder
    <3>. QED  BY <3>1, <3>2
  <2>. QED  BY <2>2, <2>4 DEF ReplyEndsInTicketOrder
<1>4. ASSUME NEW d \in Cutters, CutterStep(d) PROVE ReplyEndsInTicketOrder'
  <2>1. pc' = pc
    BY <1>4 DEF CutterStep, NotifyCut, Collect, EmitReplyEnds
  <2>2. \A t \in Tickets : InQueue(t)' => InQueue(t)
    <3>1. CASE Collect(d)
      <4>1. /\ held' \in {held, Nobody}
            /\ \E n \in 0 .. Len(queue) :
                 /\ Len(queue') = Len(queue) - n
                 /\ \A i \in 1 .. Len(queue') : queue'[i] = queue[i + n]
        BY <3>1, CollectEffect DEF JobInv
      <4>. QED  BY <1>0, <4>1 DEF InQueue, Nobody, Tickets
    <3>2. CASE NotifyCut(d) \/ EmitReplyEnds(d)
      BY <3>2 DEF NotifyCut, EmitReplyEnds, worker, InQueue
    <3>. QED  BY <1>4, <3>1, <3>2 DEF CutterStep
  <2>3. \A c \in Cutters : cut'[c].stage \in {"notify", "collect"}
                             => /\ cut[c].stage \in {"notify", "collect"}
                                /\ cut'[c].replies = cut[c].replies
                                /\ cut'[c].below = cut[c].below
    <3>1. CASE NotifyCut(d)
      BY <1>0, <3>1 DEF NotifyCut
    <3>2. CASE Collect(d)
      BY <1>0, <3>2 DEF Collect
    <3>3. CASE EmitReplyEnds(d)
      BY <1>0, <3>3 DEF EmitReplyEnds
    <3>. QED  BY <1>4, <3>1, <3>2, <3>3 DEF CutterStep
  <2>. QED  BY <2>1, <2>2, <2>3 DEF ReplyEndsInTicketOrder
<1>5. CASE WorkerStep
  <2>1. cut' = cut /\ pc' = pc
    BY <1>5 DEF WorkerStep, PopIntoHeld, TakeHeld, passes
  <2>2. \A t \in Tickets : InQueue(t)' => InQueue(t)
    <3>1. CASE PopIntoHeld
      BY <1>0, <3>1 DEF PopIntoHeld, InQueue
    <3>2. CASE TakeHeld
      BY <1>0, <3>2 DEF TakeHeld, InQueue, Nobody, Tickets
    <3>. QED  BY <1>5, <3>1, <3>2 DEF WorkerStep
  <2>. QED  BY <2>1, <2>2 DEF ReplyEndsInTicketOrder
<1>6. CASE UNCHANGED vars
  BY <1>6 DEF vars, worker, passes, InQueue, ReplyEndsInTicketOrder
<1>. QED  BY <1>1, <1>2, <1>3, <1>4, <1>5, <1>6 DEF Next

\* The two groups of reply ends a flush emits, the drained jobs first and then
\* the sends it cancelled, are in ticket order ("Every queued ticket is below
\* every ticket still on its way", agent.rs).
THEOREM ReplyEndsOrder == Spec => []ReplyEndsInTicketOrder
<1>1. Init => TypeInv /\ LockInv /\ TurnInv /\ JobInv /\ CutInv /\ PendInv
                /\ ReplyEndsInTicketOrder
  BY TypeInit, LockInit, TurnInit, JobInit, CutInit, PendInit, OrderInit
<1>2. TypeInv /\ LockInv /\ TurnInv /\ JobInv /\ CutInv /\ PendInv /\ ReplyEndsInTicketOrder
        /\ [Next]_vars
        => (TypeInv /\ LockInv /\ TurnInv /\ JobInv /\ CutInv /\ PendInv
              /\ ReplyEndsInTicketOrder)'
  BY TypeStep, LockStep, TurnStep, JobStep, CutStep, PendStep, OrderStep
<1>. QED  BY <1>1, <1>2, PTL DEF Spec

-----------------------------------------------------------------------------
(* Who owns a reply id. *)

HasJob(t) == pc[t] = "push" \/ Enqueued(t)
InCut(t, c) == t \in cut[c].replies

\* A job, a flush and an emitted reply end exclude each other, and a pending
\* reply id excludes the last two (StageInv and PendInv keep it from having a
\* job). What a flush or a reply end owns is cancelled, so its send cannot
\* claim a place any more.
OwnerInv ==
    /\ \A t \in Tickets :
         /\ reply_ends[t] \in {0, 1}
         /\ reply_ends[t] = 1 => /\ t \in has_reply /\ t < cancel_below
                                 /\ t \notin pending_reply /\ ~HasJob(t)
         /\ \A c \in Cutters : InCut(t, c) =>
               /\ t \in has_reply /\ t < cancel_below
               /\ t \notin pending_reply /\ ~HasJob(t)
               /\ reply_ends[t] = 0
               /\ \A d \in Cutters : InCut(t, d) => c = d
         /\ t \in has_reply =>
               \/ t \in pending_reply
               \/ HasJob(t)
               \/ reply_ends[t] = 1
               \/ \E c \in Cutters : InCut(t, c)
               \/ pc[t] \in {"wake_gaveup", "gaveup"}
    /\ \A c \in Cutters : cut[c].stage = "idle" => cut[c].replies = {}

LEMMA OwnerInit == Init => OwnerInv
  BY DEF Init, OwnerInv, HasJob, InCut, Enqueued, InQueue, Tickets, Nobody

\* A step that moves no reply id keeps every owner.
LEMMA OwnerFrame ==
    ASSUME OwnerInv, UNCHANGED <<has_reply, pending_reply, cancel_below, reply_ends>>,
           \A t \in Tickets : HasJob(t)' <=> HasJob(t),
           \A t \in Tickets : pc[t] \in {"wake_gaveup", "gaveup"}
                                => pc'[t] \in {"wake_gaveup", "gaveup"},
           \A c \in Cutters : cut'[c].replies = cut[c].replies
                              /\ (cut'[c].stage = "idle" => cut[c].stage = "idle")
    PROVE  OwnerInv'
<1>1. \A t \in Tickets, c \in Cutters : InCut(t, c)' <=> InCut(t, c)
  BY DEF InCut
<1>. QED  BY <1>1 DEF OwnerInv

\* What a pass takes while it holds the queue lock: the jobs that go are
\* cancelled ones, and exactly their reply ids become its own.
LEMMA CollectOwners ==
    ASSUME TypeInv, LockInv, JobInv, CutInv, NEW c \in Cutters, Collect(c)
    PROVE  /\ \A t \in Tickets : pc[t] # "push"
           /\ \A t \in Tickets : Enqueued(t)' => Enqueued(t)
           /\ \A t \in Tickets : Enqueued(t) /\ ~Enqueued(t)' => t < cancel_below
           /\ \A t \in Tickets :
                InCut(t, c)' <=> InCut(t, c) \/ (t \in has_reply /\ Enqueued(t) /\ ~Enqueued(t)')
<1>0. /\ queue \in Seq(Tickets) /\ held \in Tickets \union {Nobody} /\ started \subseteq Tickets
      /\ cut[c].below \in Nat /\ cancel_below \in Nat /\ has_reply \subseteq Tickets
      /\ Len(queue) \in Nat
      /\ \A t \in Tickets : t \in Nat /\ t # Nobody
      /\ cut \in [Cutters -> [stage : {"idle", "notify", "collect", "emit"},
                              below : 0 .. MaxSends, replies : SUBSET Tickets]]
  BY SendOrderAssumption DEF TypeInv, TypeOK, Tickets, Nobody
<1>1. PICK n \in 0 .. Len(queue) :
        /\ \A i \in 1 .. n : queue[i] < cut[c].below
        /\ queue' = SubSeq(queue, n + 1, Len(queue))
        /\ cut' = [cut EXCEPT ![c] = [stage |-> "emit", below |-> @.below,
               replies |-> @.replies \union (({queue[i] : i \in 1 .. n}
                               \union (IF held < cut[c].below THEN {held} ELSE {}))
                             \intersect has_reply)]]
  BY DEF Collect
<1> DEFINE Settled1(t) == (\E i \in 1 .. n : t = queue[i]) \/ (t = held /\ held < cut[c].below)
<1>2. /\ held' = IF held < cut[c].below THEN Nobody ELSE held
      /\ started' = started /\ has_reply' = has_reply /\ pc' = pc
      /\ cut[c].stage = "collect" /\ queue_lock = Nobody
  BY DEF Collect
<1>3. \A t \in Tickets : pc[t] # "push"
  BY <1>0, <1>2 DEF LockInv
<1>4. cut[c].below <= cancel_below
  BY <1>2 DEF CutInv
<1>5. /\ Len(queue') = Len(queue) - n
      /\ \A i \in 1 .. Len(queue) - n : queue'[i] = queue[i + n]
  <2>1. \A i \in n + 1 .. Len(queue) : queue[i] \in Tickets
    BY <1>0
  <2>2. /\ Len(queue') = IF n + 1 <= Len(queue) THEN Len(queue) - (n + 1) + 1 ELSE 0
        /\ \A i \in 1 .. Len(queue) - (n + 1) + 1 : queue'[i] = queue[(n + 1) + i - 1]
    BY <1>0, <1>1, <2>1, SubSeqProperties
  <2>3. Len(queue) \in Nat
    BY <1>0
  <2>. QED  BY <2>2, <2>3
<1>6. \A i \in 1 .. Len(queue') : queue'[i] >= cut[c].below
  BY CollectEffect DEF JobInv
<1>7. ASSUME NEW t \in Tickets, Settled1(t)
      PROVE  Enqueued(t) /\ ~Enqueued(t)' /\ t < cut[c].below
  <2>1. t < cut[c].below /\ InQueue(t)
    BY <1>0, <1>1, <1>7 DEF InQueue
  <2>2. t \notin started
    BY <1>0, <1>1, <1>7 DEF JobInv, QueueInCallOrder
  <2>3. t # held'
    BY <1>0, <1>2, <2>1
  <2>4. ~ \E i \in 1 .. Len(queue') : queue'[i] = t
    BY <1>0, <1>6, <2>1
  <2>. QED  BY <1>2, <2>1, <2>2, <2>3, <2>4 DEF Enqueued, InQueue
<1>8. ASSUME NEW t \in Tickets, Enqueued(t), ~Settled1(t) PROVE Enqueued(t)'
  <2>1. CASE t \in started
    BY <1>2, <2>1 DEF Enqueued
  <2>2. CASE t = held
    BY <1>2, <1>8, <2>2 DEF Enqueued, InQueue
  <2>3. ASSUME NEW i \in 1 .. Len(queue), queue[i] = t PROVE Enqueued(t)'
    <3>1. i - n \in 1 .. Len(queue') /\ queue'[i - n] = t
      <4>1. i \in n + 1 .. Len(queue)
        BY <1>0, <1>8, <2>3
      <4>. QED  BY <1>0, <1>5, <2>3, <4>1
    <3>. QED  BY <3>1 DEF Enqueued, InQueue
  <2>. QED  BY <1>8, <2>1, <2>2, <2>3 DEF Enqueued, InQueue
<1>9. ASSUME NEW t \in Tickets, Enqueued(t)' PROVE Enqueued(t)
  <2>1. CASE t \in started'
    BY <1>2, <2>1 DEF Enqueued
  <2>2. CASE t = held'
    BY <1>0, <1>2, <2>2 DEF Enqueued, InQueue
  <2>3. ASSUME NEW i \in 1 .. Len(queue'), queue'[i] = t PROVE Enqueued(t)
    <3>1. i + n \in 1 .. Len(queue) /\ queue[i + n] = t
      BY <1>0, <1>5, <2>3
    <3>. QED  BY <3>1 DEF Enqueued, InQueue
  <2>. QED  BY <1>9, <2>1, <2>2, <2>3 DEF Enqueued, InQueue
<1>10. ASSUME NEW t \in Tickets
       PROVE  t \in cut'[c].replies <=> t \in cut[c].replies \/ (t \in has_reply /\ Settled1(t))
  <2>1. cut'[c].replies = cut[c].replies \union (({queue[i] : i \in 1 .. n}
                               \union (IF held < cut[c].below THEN {held} ELSE {}))
                             \intersect has_reply)
    BY <1>0, <1>1
  <2>2. t \in {queue[i] : i \in 1 .. n} <=> \E i \in 1 .. n : t = queue[i]
    OBVIOUS
  <2>3. t \in (IF held < cut[c].below THEN {held} ELSE {}) <=> t = held /\ held < cut[c].below
    OBVIOUS
  <2>. QED  BY <2>1, <2>2, <2>3
<1>11. ASSUME NEW t \in Tickets PROVE Settled1(t) <=> Enqueued(t) /\ ~Enqueued(t)'
  BY <1>7, <1>8
<1>12. \A t \in Tickets : Enqueued(t) /\ ~Enqueued(t)' => t < cancel_below
  <2>1. \A t \in Tickets : Settled1(t) => t < cut[c].below
    BY <1>7
  <2>. QED  BY <1>0, <1>4, <1>11, <2>1
<1>13. \A t \in Tickets :
         InCut(t, c)' <=> InCut(t, c) \/ (t \in has_reply /\ Enqueued(t) /\ ~Enqueued(t)')
  BY <1>10, <1>11 DEF InCut
<1>. QED  BY <1>3, <1>9, <1>12, <1>13

LEMMA OwnerStep ==
    /\ TypeInv /\ TypeInv' /\ LockInv /\ TurnInv /\ JobInv /\ CutInv
    /\ StageInv /\ PendInv /\ StageInv' /\ PendInv' /\ OwnerInv /\ [Next]_vars
    => OwnerInv'
<1>. SUFFICES ASSUME TypeInv, TypeInv', LockInv, TurnInv, JobInv, CutInv, StageInv, PendInv,
                     StageInv', PendInv', OwnerInv, [Next]_vars
              PROVE  OwnerInv'
  OBVIOUS
<1>0. /\ pc \in [Tickets -> Stages] /\ next_ticket \in Nat /\ next_turn \in Nat
      /\ cancel_below \in Nat /\ pending_reply \subseteq Tickets /\ has_reply \subseteq Tickets
      /\ queue \in Seq(Tickets) /\ held \in Tickets \union {Nobody} /\ started \subseteq Tickets
      /\ cut \in [Cutters -> [stage : {"idle", "notify", "collect", "emit"},
                              below : 0 .. MaxSends, replies : SUBSET Tickets]]
      /\ reply_ends \in [Tickets -> Nat]
      /\ \A t \in Tickets : t \in Nat /\ t # Nobody
  <2>1. \A t \in Tickets : t \in Nat /\ t # Nobody
    BY SendOrderAssumption DEF Tickets, Nobody
  <2>2. next_ticket \in Nat /\ next_turn \in Nat /\ cancel_below \in Nat
    BY SendOrderAssumption DEF TypeInv, TypeOK
  <2>. QED  BY <2>1, <2>2 DEF TypeInv, TypeOK
<1>1. ASSUME NEW reply \in BOOLEAN, Reserve(reply) PROVE OwnerInv'
  <2>1. pc[next_ticket] = "idle" /\ next_ticket \in Tickets
    BY <1>1, SendOrderAssumption DEF Reserve, TypeInv, TypeOK, Issued, Tickets
  <2>2. next_ticket \notin has_reply
    BY <2>1 DEF StageInv
  <2>3. \A c \in Cutters : ~InCut(next_ticket, c)
    BY <2>1, <2>2 DEF OwnerInv
  <2>4. reply_ends[next_ticket] = 0
    BY <2>1, <2>2 DEF OwnerInv
  <2>5. /\ pc' = [pc EXCEPT ![next_ticket] = "prepare"]
        /\ cut' = cut /\ reply_ends' = reply_ends /\ cancel_below' = cancel_below
        /\ UNCHANGED <<queue, held, started>>
        /\ \/ /\ pending_reply' = pending_reply \union {next_ticket}
              /\ has_reply' = has_reply \union {next_ticket}
           \/ pending_reply' = pending_reply /\ has_reply' = has_reply
    BY <1>1 DEF Reserve, Goto, worker, passes
  <2>6. \A t \in Tickets : HasJob(t)' <=> HasJob(t)
    BY <1>0, <2>1, <2>5 DEF HasJob, Enqueued, InQueue
  <2>7. \A t \in Tickets, c \in Cutters : InCut(t, c)' <=> InCut(t, c)
    BY <2>5 DEF InCut
  <2>8. \A t \in Tickets \ {next_ticket} :
          /\ t \in pending_reply' <=> t \in pending_reply
          /\ t \in has_reply' <=> t \in has_reply
          /\ pc'[t] = pc[t]
    BY <1>0, <2>5
  <2>9. next_ticket \in has_reply' => next_ticket \in pending_reply'
    BY <2>2, <2>5
  <2>. QED  BY <2>3, <2>4, <2>5, <2>6, <2>7, <2>8, <2>9 DEF OwnerInv
<1>2. ASSUME NEW t \in Tickets, SendStep(t) \/ GiveUp(t) PROVE OwnerInv'
  <2>0. cut' = cut /\ reply_ends' = reply_ends /\ has_reply' = has_reply
        /\ cancel_below' = cancel_below
    BY <1>2 DEF SendStep, GiveUp, Register, CheckTurn, LockQueue, Claim, Push, Release,
                DropCancelled, NotifyRelease, ReleaseTurn, order, passes
  <2>1. CASE Register(t) \/ CheckTurn(t) \/ LockQueue(t) \/ NotifyRelease(t)
    <3>1. /\ UNCHANGED <<pending_reply, queue, held, started>>
          /\ \A u \in Tickets : pc'[u] = "push" <=> pc[u] = "push"
          /\ \A u \in Tickets : pc[u] \in {"wake_gaveup", "gaveup"}
                                  => pc'[u] \in {"wake_gaveup", "gaveup"}
      BY <1>0, <2>1 DEF Register, CheckTurn, LockQueue, NotifyRelease, Goto, order, worker
    <3>2. \A u \in Tickets : HasJob(u)' <=> HasJob(u)
      BY <3>1 DEF HasJob, Enqueued, InQueue
    <3>. QED  BY <2>0, <3>1, <3>2, OwnerFrame
  <2>2. CASE Claim(t) /\ t < cancel_below
    <3>1. /\ UNCHANGED <<pending_reply, queue, held, started>>
          /\ pc[t] = "claim" /\ pc' = [pc EXCEPT ![t] = "rejected"]
      BY <1>0, <2>2 DEF Claim, Goto, worker
    <3>2. \A u \in Tickets : HasJob(u)' <=> HasJob(u)
      BY <1>0, <3>1 DEF HasJob, Enqueued, InQueue
    <3>. QED  BY <1>0, <2>0, <3>1, <3>2, OwnerFrame
  <2>3. CASE Claim(t) /\ t >= cancel_below
    <3>1. /\ UNCHANGED <<queue, held, started>> /\ pending_reply' = pending_reply \ {t}
          /\ pc[t] = "claim" /\ pc' = [pc EXCEPT ![t] = "push"]
      BY <1>0, <2>3 DEF Claim, Goto, worker
    <3>2. /\ \A u \in Tickets \ {t} : HasJob(u)' <=> HasJob(u)
          /\ HasJob(t)'
          /\ \A u \in Tickets \ {t} : pc'[u] = pc[u]
      BY <1>0, <3>1 DEF HasJob, Enqueued, InQueue
    <3>3. reply_ends[t] = 0 /\ \A c \in Cutters : ~InCut(t, c)
      BY <1>0, <2>3 DEF OwnerInv
    <3>4. \A u \in Tickets, c \in Cutters : InCut(u, c)' <=> InCut(u, c)
      BY <2>0 DEF InCut
    <3>. QED  BY <2>0, <3>1, <3>2, <3>3, <3>4 DEF OwnerInv
  <2>4. CASE Push(t)
    <3>1. /\ pc[t] = "push" /\ queue' = Append(queue, t) /\ held' = held /\ started' = started
          /\ pc' = [pc EXCEPT ![t] = "release"] /\ pending_reply' = pending_reply
      BY <2>4 DEF Push, Goto, order, worker
    <3>2. \A u \in Tickets : InQueue(u)' <=> InQueue(u) \/ u = t
      <4>1. /\ Len(queue) \in Nat /\ Len(queue') = Len(queue) + 1
            /\ \A i \in 1 .. Len(queue) : queue'[i] = queue[i]
            /\ queue'[Len(queue) + 1] = t
        BY <1>0, <3>1
      <4>. QED  BY <3>1, <4>1 DEF InQueue
    <3>3. \A u \in Tickets : HasJob(u)' <=> HasJob(u)
      BY <1>0, <3>1, <3>2 DEF HasJob, Enqueued
    <3>. QED  BY <1>0, <2>0, <3>1, <3>3, OwnerFrame
  <2>5. CASE Release(t) \/ DropCancelled(t)
    <3>1. /\ UNCHANGED <<queue, held, started>> /\ pending_reply' = pending_reply \ {t}
          /\ pc[t] \in {"release", "rejected"}
          /\ \E stage \in {"wake_queued", "wake_cancelled"} : pc' = [pc EXCEPT ![t] = stage]
      BY <2>5 DEF Release, DropCancelled, ReleaseTurn, Goto, worker
    <3>2. t \notin pending_reply
      BY <3>1 DEF PendInv
    <3>3. pending_reply' = pending_reply
      BY <3>1, <3>2
    <3>4. \A u \in Tickets : HasJob(u)' <=> HasJob(u)
      BY <1>0, <3>1 DEF HasJob, Enqueued, InQueue
    <3>. QED  BY <1>0, <2>0, <3>1, <3>3, <3>4, OwnerFrame
  <2>6. CASE GiveUp(t)
    <3>1. /\ UNCHANGED <<queue, held, started>> /\ pending_reply' = pending_reply \ {t}
          /\ pc[t] \in {"prepare", "sleep", "lock"} /\ pc' = [pc EXCEPT ![t] = "wake_gaveup"]
      BY <2>6 DEF GiveUp, ReleaseTurn, Goto, worker
    <3>2. \A u \in Tickets : HasJob(u)' <=> HasJob(u)
      BY <1>0, <3>1 DEF HasJob, Enqueued, InQueue
    <3>3. /\ pc'[t] = "wake_gaveup"
          /\ \A u \in Tickets \ {t} : pc'[u] = pc[u] /\ (u \in pending_reply' <=> u \in pending_reply)
      BY <1>0, <3>1
    <3>4. \A u \in Tickets, c \in Cutters : InCut(u, c)' <=> InCut(u, c)
      BY <2>0 DEF InCut
    <3>5. t \notin pending_reply'
      BY <3>1
    <3>. QED  BY <2>0, <3>2, <3>3, <3>4, <3>5 DEF OwnerInv
  <2>. QED  BY <1>0, <1>2, <2>1, <2>2, <2>3, <2>4, <2>5, <2>6 DEF SendStep, Claim
<1>3. ASSUME NEW d \in Cutters, Cut(d) PROVE OwnerInv'
  <2>1. cancel_below' = next_ticket
    BY <1>3, CutRange
  <2>2. /\ cut[d].stage = "idle" /\ pc' = pc /\ UNCHANGED <<queue, held, started>>
        /\ has_reply' = has_reply /\ reply_ends' = reply_ends
        /\ pending_reply' = {t \in pending_reply : t >= next_ticket}
        /\ cut' = [cut EXCEPT ![d] = [stage |-> "notify", below |-> next_ticket,
                                      replies |-> {t \in pending_reply : t < next_ticket}]]
    BY <1>3, <2>1 DEF Cut, worker
  <2>3. \A t \in pending_reply : t < next_ticket
    <3>1. \A t \in Tickets : pc[t] # "idle" => ~(t >= next_ticket)
      BY DEF TypeInv, Issued
    <3>2. \A t \in pending_reply : ~(t >= next_ticket)
      BY <1>0, <3>1 DEF PendInv
    <3>. QED  BY <1>0, <3>2
  <2>4. pending_reply' = {}
    BY <1>0, <2>2, <2>3
  <2>5. /\ \A t \in Tickets : InCut(t, d)' <=> t \in pending_reply
        /\ \A t \in Tickets, c \in Cutters \ {d} : InCut(t, c)' <=> InCut(t, c)
        /\ \A c \in Cutters : cut'[c].stage = "idle" => c # d /\ cut'[c] = cut[c]
    BY <1>0, <2>2, <2>3 DEF InCut
  <2>6. \A t \in Tickets : ~InCut(t, d)
    BY <2>2 DEF OwnerInv, InCut
  <2>7. \A t \in Tickets : HasJob(t)' <=> HasJob(t)
    BY <2>2 DEF HasJob, Enqueued, InQueue
  <2>8. \A t \in pending_reply :
          /\ t \in has_reply /\ t < next_ticket /\ ~HasJob(t) /\ reply_ends[t] = 0
          /\ \A c \in Cutters : ~InCut(t, c)
    <3>1. ASSUME NEW t \in pending_reply PROVE t \in has_reply /\ ~HasJob(t)
      BY <1>0 DEF PendInv, StageInv, HasJob
    <3>2. ASSUME NEW t \in pending_reply
          PROVE  reply_ends[t] = 0 /\ \A c \in Cutters : ~InCut(t, c)
      BY <1>0 DEF OwnerInv
    <3>. QED  BY <2>3, <3>1, <3>2
  <2>9. cancel_below <= next_ticket
    BY DEF TypeInv, TypeOK
  <2>10. ASSUME NEW t \in Tickets, t < cancel_below PROVE t < cancel_below'
    BY <1>0, <2>1, <2>9, <2>10
  <2>11. /\ \A t \in Tickets : t \notin pending_reply'
         /\ \A t \in Tickets : t < cancel_below => t < cancel_below'
         /\ \A t \in pending_reply : t < cancel_below'
    BY <2>1, <2>4, <2>8, <2>10
  <2>12. \A t \in Tickets :
         /\ reply_ends'[t] \in {0, 1}
         /\ reply_ends'[t] = 1 => /\ t \in has_reply' /\ t < cancel_below'
                                  /\ t \notin pending_reply' /\ ~HasJob(t)'
    BY <2>2, <2>7, <2>11 DEF OwnerInv
  <2>13. ASSUME NEW t \in Tickets, NEW c \in Cutters, InCut(t, c)'
         PROVE  /\ t \in has_reply' /\ t < cancel_below'
                /\ t \notin pending_reply' /\ ~HasJob(t)'
                /\ reply_ends'[t] = 0
                /\ \A e \in Cutters : InCut(t, e)' => c = e
    <3>1. CASE c = d
      BY <2>2, <2>5, <2>7, <2>8, <2>11, <2>13, <3>1
    <3>2. CASE c # d
      BY <2>2, <2>5, <2>7, <2>8, <2>11, <2>13, <3>2 DEF OwnerInv
    <3>. QED  BY <3>1, <3>2
  <2>14. ASSUME NEW t \in has_reply'
         PROVE  \/ HasJob(t)' \/ reply_ends'[t] = 1 \/ \E c \in Cutters : InCut(t, c)'
                \/ pc'[t] \in {"wake_gaveup", "gaveup"}
    BY <1>0, <2>2, <2>5, <2>6, <2>7, <2>14 DEF OwnerInv
  <2>15. \A c \in Cutters : cut'[c].stage = "idle" => cut'[c].replies = {}
    BY <2>5 DEF OwnerInv
  <2>. QED  BY <2>12, <2>13, <2>14, <2>15 DEF OwnerInv
<1>4. ASSUME NEW d \in Cutters, CutterStep(d) PROVE OwnerInv'
  <2>1. CASE NotifyCut(d)
    <3>1. /\ UNCHANGED <<has_reply, pending_reply, cancel_below, reply_ends, pc, queue, held, started>>
          /\ \A c \in Cutters : cut'[c].replies = cut[c].replies
                                /\ (cut'[c].stage = "idle" => cut[c].stage = "idle")
      BY <1>0, <2>1 DEF NotifyCut, order, worker
    <3>2. \A t \in Tickets : HasJob(t)' <=> HasJob(t)
      BY <3>1 DEF HasJob, Enqueued, InQueue
    <3>. QED  BY <3>1, <3>2, OwnerFrame
  <2>2. CASE Collect(d)
    <3>1. /\ UNCHANGED <<has_reply, pending_reply, cancel_below, reply_ends, pc>>
          /\ \A c \in Cutters \ {d} : cut'[c] = cut[c]
          /\ cut'[d].stage = "emit"
      BY <1>0, <2>2 DEF Collect, order
    <3>2. /\ \A t \in Tickets : pc[t] # "push"
          /\ \A t \in Tickets : Enqueued(t)' => Enqueued(t)
          /\ \A t \in Tickets : Enqueued(t) /\ ~Enqueued(t)' => t < cancel_below
          /\ \A t \in Tickets :
               InCut(t, d)' <=> InCut(t, d) \/ (t \in has_reply /\ Enqueued(t) /\ ~Enqueued(t)')
      BY <2>2, CollectOwners
    <3>3. /\ \A t \in Tickets : (HasJob(t) <=> Enqueued(t)) /\ (HasJob(t)' <=> Enqueued(t)')
          /\ \A t \in Tickets, c \in Cutters \ {d} : InCut(t, c)' <=> InCut(t, c)
      BY <3>1, <3>2 DEF HasJob, InCut
    <3>4. \A t \in pending_reply : ~Enqueued(t)
      BY <1>0 DEF PendInv, StageInv
    <3>5. ASSUME NEW t \in Tickets, NEW c \in Cutters, InCut(t, c)'
          PROVE  /\ t \in has_reply' /\ t < cancel_below'
                 /\ t \notin pending_reply' /\ ~HasJob(t)'
                 /\ reply_ends'[t] = 0
                 /\ \A e \in Cutters : InCut(t, e)' => c = e
      <4>1. CASE InCut(t, c)
        <5>1. ~Enqueued(t)
          BY <3>3, <4>1 DEF OwnerInv
        <5>. QED  BY <3>1, <3>2, <3>3, <4>1, <5>1 DEF OwnerInv
      <4>2. CASE ~InCut(t, c)
        <5>1. c = d /\ t \in has_reply /\ Enqueued(t) /\ ~Enqueued(t)' /\ t < cancel_below
          BY <3>2, <3>3, <3>5, <4>2
        <5>2. \A e \in Cutters : ~InCut(t, e)
          BY <3>3, <5>1 DEF OwnerInv
        <5>3. reply_ends[t] = 0
          BY <3>3, <5>1 DEF OwnerInv
        <5>. QED  BY <3>1, <3>2, <3>3, <3>4, <5>1, <5>2, <5>3
      <4>. QED  BY <4>1, <4>2
    <3>6. \A t \in Tickets :
            /\ reply_ends'[t] \in {0, 1}
            /\ reply_ends'[t] = 1 => /\ t \in has_reply' /\ t < cancel_below'
                                     /\ t \notin pending_reply' /\ ~HasJob(t)'
      BY <3>1, <3>2, <3>3 DEF OwnerInv
    <3>7. ASSUME NEW t \in has_reply'
          PROVE  \/ t \in pending_reply' \/ HasJob(t)' \/ reply_ends'[t] = 1
                 \/ \E c \in Cutters : InCut(t, c)'
                 \/ pc'[t] \in {"wake_gaveup", "gaveup"}
      BY <1>0, <3>1, <3>2, <3>3, <3>7 DEF OwnerInv
    <3>8. \A c \in Cutters : cut'[c].stage = "idle" => cut'[c].replies = {}
      BY <3>1 DEF OwnerInv
    <3>. QED  BY <3>5, <3>6, <3>7, <3>8 DEF OwnerInv
  <2>3. CASE EmitReplyEnds(d)
    <3>1. /\ UNCHANGED <<has_reply, pending_reply, cancel_below, pc, queue, held, started>>
          /\ \A c \in Cutters \ {d} : cut'[c] = cut[c]
          /\ cut'[d].replies = {}
          /\ \A t \in Tickets : reply_ends'[t] = reply_ends[t] + (IF InCut(t, d) THEN 1 ELSE 0)
      BY <1>0, <2>3 DEF EmitReplyEnds, order, worker, InCut
    <3>2. \A t \in Tickets : HasJob(t)' <=> HasJob(t)
      BY <3>1 DEF HasJob, Enqueued, InQueue
    <3>3. \A t \in Tickets, c \in Cutters : InCut(t, c)' <=> InCut(t, c) /\ c # d
      BY <3>1 DEF InCut
    <3>4. \A t \in Tickets : reply_ends'[t] = IF InCut(t, d) THEN 1 ELSE reply_ends[t]
      BY <1>0, <3>1 DEF OwnerInv
    <3>5. \A c \in Cutters : cut'[c].stage = "idle" => cut'[c].replies = {}
      BY <3>1 DEF OwnerInv
    <3>6. ASSUME NEW t \in has_reply'
          PROVE  \/ t \in pending_reply' \/ HasJob(t)' \/ reply_ends'[t] = 1
                 \/ \E c \in Cutters : InCut(t, c)'
                 \/ pc'[t] \in {"wake_gaveup", "gaveup"}
      BY <1>0, <3>1, <3>2, <3>3, <3>4, <3>6 DEF OwnerInv
    <3>7. ASSUME NEW t \in Tickets, NEW c \in Cutters, InCut(t, c)'
          PROVE  /\ t \in has_reply' /\ t < cancel_below'
                 /\ t \notin pending_reply' /\ ~HasJob(t)'
                 /\ reply_ends'[t] = 0
                 /\ \A e \in Cutters : InCut(t, e)' => c = e
      <4>1. InCut(t, c) /\ c # d /\ ~InCut(t, d)
        BY <3>3, <3>7 DEF OwnerInv
      <4>. QED  BY <3>1, <3>2, <3>3, <3>4, <4>1 DEF OwnerInv
    <3>8. ASSUME NEW t \in Tickets
          PROVE  /\ reply_ends'[t] \in {0, 1}
                 /\ reply_ends'[t] = 1 => /\ t \in has_reply' /\ t < cancel_below'
                                          /\ t \notin pending_reply' /\ ~HasJob(t)'
      BY <3>1, <3>2, <3>4 DEF OwnerInv
    <3>. QED  BY <3>5, <3>6, <3>7, <3>8 DEF OwnerInv
  <2>. QED  BY <1>4, <2>1, <2>2, <2>3 DEF CutterStep
<1>5. CASE WorkerStep
  <2>1. /\ cut' = cut /\ reply_ends' = reply_ends /\ pc' = pc
        /\ UNCHANGED <<has_reply, pending_reply, cancel_below>>
    BY <1>5 DEF WorkerStep, PopIntoHeld, TakeHeld, order, passes
  <2>2. \A t \in Tickets : Enqueued(t)' <=> Enqueued(t)
    <3>1. CASE PopIntoHeld
      <4>1. /\ held = Nobody /\ held' = queue[1] /\ started' = started
            /\ Len(queue) \in Nat /\ Len(queue) > 0 /\ Len(queue') = Len(queue) - 1
            /\ \A i \in 1 .. Len(queue') : queue'[i] = queue[i + 1]
        BY <1>0, <3>1 DEF PopIntoHeld
      <4>2. ASSUME NEW t \in Tickets, Enqueued(t) PROVE Enqueued(t)'
        <5>1. ASSUME NEW i \in 1 .. Len(queue), queue[i] = t PROVE Enqueued(t)'
          <6>1. CASE i = 1
            BY <4>1, <5>1, <6>1 DEF Enqueued, InQueue
          <6>2. CASE i # 1
            <7>1. i - 1 \in 1 .. Len(queue') /\ queue'[i - 1] = t
              BY <4>1, <5>1, <6>2
            <7>. QED  BY <7>1 DEF Enqueued, InQueue
          <6>. QED  BY <6>1, <6>2
        <5>. QED  BY <1>0, <4>1, <4>2, <5>1 DEF Enqueued, InQueue
      <4>3. ASSUME NEW t \in Tickets, Enqueued(t)' PROVE Enqueued(t)
        <5>1. ASSUME NEW i \in 1 .. Len(queue'), queue'[i] = t PROVE Enqueued(t)
          <6>1. i + 1 \in 1 .. Len(queue) /\ queue[i + 1] = t
            BY <4>1, <5>1
          <6>. QED  BY <6>1 DEF Enqueued, InQueue
        <5>2. 1 \in 1 .. Len(queue)
          BY <4>1
        <5>. QED  BY <4>1, <4>3, <5>1, <5>2 DEF Enqueued, InQueue
      <4>. QED  BY <4>2, <4>3
    <3>2. CASE TakeHeld
      BY <1>0, <3>2 DEF TakeHeld, Enqueued, InQueue
    <3>. QED  BY <1>5, <3>1, <3>2 DEF WorkerStep
  <2>3. \A t \in Tickets : HasJob(t)' <=> HasJob(t)
    BY <2>1, <2>2 DEF HasJob
  <2>. QED  BY <2>1, <2>3, OwnerFrame
<1>6. CASE UNCHANGED vars
  <2>1. \A t \in Tickets : HasJob(t)' <=> HasJob(t)
    BY <1>6 DEF vars, worker, HasJob, Enqueued, InQueue
  <2>. QED  BY <1>6, <2>1, OwnerFrame DEF vars, order, passes
<1>. QED  BY <1>1, <1>2, <1>3, <1>4, <1>5, <1>6 DEF Next

LEMMA OneOwner ==
    ASSUME TypeInv, StageInv, PendInv, OwnerInv
    PROVE  ReplyHasOneOwner
<1>. SUFFICES ASSUME NEW t \in has_reply
              PROVE  /\ reply_ends[t] <= 1
                     /\ \A o, p \in Owners(t) : o = p
                     /\ Owners(t) = {} => pc[t] \in {"wake_gaveup", "gaveup"}
  BY DEF ReplyHasOneOwner
<1>0. t \in Tickets /\ reply_ends[t] \in {0, 1}
  BY DEF TypeInv, TypeOK, OwnerInv
<1>1. t \in pending_reply => ~HasJob(t)
  BY <1>0 DEF PendInv, StageInv, HasJob
<1>2. /\ reply_ends[t] > 0 <=> reply_ends[t] = 1
      /\ HasJob(t) <=> pc[t] = "push" \/ InQueue(t) \/ t \in started
      /\ \A c \in Cutters : InCut(t, c) <=> t \in cut[c].replies
  BY <1>0 DEF HasJob, Enqueued, InCut
<1>3. \A o : o \in Owners(t) <=>
         \/ o = "send" /\ t \in pending_reply
         \/ o = "job" /\ HasJob(t)
         \/ o = "ended" /\ reply_ends[t] = 1
         \/ o \in Cutters /\ InCut(t, o)
  BY <1>2 DEF Owners
<1>4. \A o, p \in Owners(t) : o = p
  BY <1>0, <1>1, <1>3 DEF OwnerInv
<1>5. Owners(t) = {} => pc[t] \in {"wake_gaveup", "gaveup"}
  BY <1>0, <1>3 DEF OwnerInv
<1>. QED  BY <1>0, <1>4, <1>5

\* The reply id of a send is owned by one party at a time, from its ticket to
\* its end: a flush and a claim of the same send never both take it, and none
\* is lost, so a dropped reply ends exactly once (tts_send_order.rs, claim and
\* cut; agent.rs, emit_dropped_reply_ends).
THEOREM OneOwnerPerReply == Spec => []ReplyHasOneOwner
<1>1. Init => TypeInv /\ LockInv /\ TurnInv /\ JobInv /\ CutInv /\ StageInv /\ PendInv /\ OwnerInv
  BY TypeInit, LockInit, TurnInit, JobInit, CutInit, StageInit, PendInit, OwnerInit
<1>2. TypeInv /\ LockInv /\ TurnInv /\ JobInv /\ CutInv /\ StageInv /\ PendInv /\ OwnerInv
        /\ [Next]_vars
        => (TypeInv /\ LockInv /\ TurnInv /\ JobInv /\ CutInv /\ StageInv /\ PendInv /\ OwnerInv)'
  BY TypeStep, LockStep, TurnStep, JobStep, CutStep, StageStep, PendStep, OwnerStep
<1>3. TypeInv /\ StageInv /\ PendInv /\ OwnerInv => ReplyHasOneOwner
  BY OneOwner
<1>. QED  BY <1>1, <1>2, <1>3, PTL DEF Spec

\* A reply id is accounted for from its ticket to its agent_reply_end, and the
\* ends of one flush come in the order of the calls: the two halves together.
THEOREM RepliesAccounted == Spec => []RepliesOwned
<1>1. ReplyHasOneOwner /\ ReplyEndsInTicketOrder => RepliesOwned
  BY DEF RepliesOwned
<1>. QED  BY <1>1, OneOwnerPerReply, ReplyEndsOrder, PTL

-----------------------------------------------------------------------------
(***************************************************************************)
(* The refinement of the abstract queue                                    *)
(***************************************************************************)

\* The stages of a send that has not claimed its place.
Coming == {"prepare", "check", "sleep", "lock", "claim"}

\* The turn has not passed a send that is on its way and not cancelled.
WaitInv ==
    \A t \in Tickets : pc[t] \in Coming /\ t >= cancel_below =>
        next_turn <= t /\ t \notin released_ahead

QueueInv == TypeInv /\ LockInv /\ TurnInv /\ JobInv /\ CutInv /\ StageInv /\ WaitInv

-----------------------------------------------------------------------------
(* The turn never passes a send on its way. *)

LEMMA WaitInit == Init => WaitInv
  BY DEF Init, WaitInv, Coming, Tickets

LEMMA WaitStep == TypeInv /\ WaitInv /\ [Next]_vars => WaitInv'
<1>. SUFFICES ASSUME TypeInv, WaitInv, [Next]_vars PROVE WaitInv'
  OBVIOUS
<1>. USE DEF Coming
<1>0. /\ pc \in [Tickets -> Stages] /\ next_ticket \in 0 .. MaxSends
      /\ next_turn \in 0 .. next_ticket /\ cancel_below \in 0 .. next_ticket
      /\ released_ahead \subseteq next_turn + 1 .. next_ticket - 1
      /\ next_ticket \in Nat /\ next_turn \in Nat /\ cancel_below \in Nat
      /\ \A u \in Tickets : u \in Nat
  BY SendOrderAssumption DEF TypeInv, TypeOK, Tickets
<1>1. ASSUME NEW reply \in BOOLEAN, Reserve(reply) PROVE WaitInv'
  <2>1. /\ next_turn <= next_ticket /\ next_ticket \notin released_ahead
        /\ pc' = [pc EXCEPT ![next_ticket] = "prepare"]
        /\ UNCHANGED <<next_turn, released_ahead, cancel_below>>
    BY <1>0, <1>1 DEF Reserve, Goto
  <2>. QED  BY <1>0, <2>1 DEF WaitInv
<1>2. ASSUME NEW t \in Tickets, SendStep(t) \/ GiveUp(t) PROVE WaitInv'
  <2>1. CASE Register(t)
    BY <1>0, <2>1 DEF Register, Goto, order, WaitInv
  <2>2. CASE CheckTurn(t)
    BY <1>0, <2>2 DEF CheckTurn, Goto, order, WaitInv
  <2>3. CASE LockQueue(t)
    BY <1>0, <2>3 DEF LockQueue, Goto, order, WaitInv
  <2>4. CASE Claim(t)
    BY <1>0, <2>4 DEF Claim, Goto, WaitInv
  <2>5. CASE Push(t)
    BY <1>0, <2>5 DEF Push, Goto, order, WaitInv
  <2>6. CASE Release(t) \/ DropCancelled(t) \/ GiveUp(t)
    <3>1. /\ ReleaseTurn(t) /\ cancel_below' = cancel_below
          /\ \A u \in Tickets \ {t} : pc'[u] = pc[u]
          /\ pc'[t] \notin Coming
      BY <1>0, <2>6 DEF Release, DropCancelled, GiveUp, ReleaseTurn, Goto
    <3>2. ASSUME NEW u \in Tickets \ {t}, pc[u] \in Coming, u >= cancel_below
          PROVE  next_turn' <= u /\ u \notin released_ahead'
      BY <1>0, <3>1, <3>2, ReleaseStops DEF WaitInv
    <3>. QED  BY <3>1, <3>2 DEF WaitInv
  <2>7. CASE NotifyRelease(t)
    BY <1>0, <2>7 DEF NotifyRelease, Goto, order, WaitInv
  <2>. QED  BY <1>2, <2>1, <2>2, <2>3, <2>4, <2>5, <2>6, <2>7 DEF SendStep
<1>3. ASSUME NEW c \in Cutters, Cut(c) PROVE WaitInv'
  <2>1. cancel_below' = next_ticket /\ pc' = pc
    BY <1>3, CutRange DEF Cut
  <2>. QED  BY <2>1 DEF WaitInv, TypeInv, Issued
<1>4. ASSUME NEW c \in Cutters, CutterStep(c) PROVE WaitInv'
  BY <1>4 DEF CutterStep, NotifyCut, Collect, EmitReplyEnds, order, WaitInv
<1>5. CASE WorkerStep
  BY <1>5 DEF WorkerStep, PopIntoHeld, TakeHeld, order, WaitInv
<1>6. CASE UNCHANGED vars
  BY <1>6 DEF vars, order, WaitInv
<1>. QED  BY <1>1, <1>2, <1>3, <1>4, <1>5, <1>6 DEF Next

LEMMA QueueInvInit == Init => QueueInv
  BY TypeInit, LockInit, TurnInit, JobInit, CutInit, StageInit, WaitInit DEF QueueInv

LEMMA QueueInvStep == QueueInv /\ [Next]_vars => QueueInv'
  BY TypeStep, LockStep, TurnStep, JobStep, CutStep, StageStep, WaitStep DEF QueueInv

-----------------------------------------------------------------------------
(* What the invariants say about the status a caller sees. *)

Status == [t \in Tickets |-> StatusOf(t)]

\* The five statuses, each by the stage and the jobs of its send alone.
StatusTable(t) ==
    /\ StatusOf(t) = "none" <=> pc[t] = "idle"
    /\ StatusOf(t) = "waiting" <=> pc[t] \in Coming /\ t >= cancel_below
    /\ StatusOf(t) = "queued" <=> pc[t] = "push" \/ InQueue(t)
    /\ StatusOf(t) = "started" <=> t \in started
    /\ StatusOf(t) \in {"none", "waiting", "queued", "started", "over"}

\* The cases of StatusOf exclude each other: a send on its way has no job, and
\* a job is past its claim and either queued or started.
LEMMA StatusMeans == QueueInv => \A t \in Tickets : StatusTable(t)
<1>. SUFFICES ASSUME QueueInv, NEW t \in Tickets PROVE StatusTable(t)
  OBVIOUS
<1>1. Enqueued(t) => pc[t] \in {"release", "wake_queued", "queued"}
  BY DEF QueueInv, StageInv
<1>2. ~(InQueue(t) /\ t \in started)
  <2>1. queue \in Seq(Tickets) /\ held \in Tickets \union {Nobody} /\ started \subseteq Tickets
    BY DEF QueueInv, TypeInv, TypeOK
  <2>2. QueueInCallOrder
    BY DEF QueueInv, JobInv
  <2>. QED  BY <2>1, <2>2 DEF QueueInCallOrder, InQueue, Tickets, Nobody
<1>. QED  BY <1>1, <1>2 DEF StatusTable, StatusOf, Coming, Enqueued

LEMMA StatusMeansNext == QueueInv' => \A t \in Tickets : StatusTable(t)'
<1>1. (QueueInv => \A t \in Tickets : StatusTable(t))'
  BY StatusMeans, PTL
<1>. QED  BY <1>1 DEF Tickets

\* A step that keeps every status is none of the abstract queue.
LEMMA Stutter ==
    ASSUME next_ticket' = next_ticket, cancel_below' = cancel_below,
           \A t \in Tickets : StatusOf(t)' = StatusOf(t)
    PROVE  UNCHANGED CallerView!vars
  BY DEF CallerView!vars

\* The status of a send changes only with its stage, its jobs and the cut.
LEMMA StatusFrame ==
    ASSUME QueueInv, QueueInv', cancel_below' = cancel_below, started' = started
    PROVE  \A t \in Tickets :
             /\ InQueue(t)' = InQueue(t)
             /\ \/ pc'[t] = pc[t]
                \/ pc[t] \in Coming /\ pc'[t] \in Coming
                \/ /\ pc[t] \notin Coming \union {"idle", "push"}
                   /\ pc'[t] \notin Coming \union {"idle", "push"}
             => StatusOf(t)' = StatusOf(t)
  BY StatusMeans, StatusMeansNext DEF StatusTable, Coming

-----------------------------------------------------------------------------
(* Every step, mapped. *)

\* A step of one send is its enqueueing, its giving up, or none.
LEMMA SendMaps ==
    ASSUME QueueInv, QueueInv', NEW t \in Tickets, SendStep(t) \/ GiveUp(t)
    PROVE  [CallerView!Next]_(CallerView!vars)
<1>0. /\ pc \in [Tickets -> Stages] /\ next_turn \in Nat /\ cancel_below \in Nat /\ t \in Nat
      /\ queue \in Seq(Tickets) /\ \A u \in Tickets : u \in Nat
  BY DEF QueueInv, TypeInv, TypeOK, Tickets
<1>1. /\ next_ticket' = next_ticket /\ cancel_below' = cancel_below /\ started' = started
      /\ \A u \in Tickets \ {t} : pc'[u] = pc[u]
  BY <1>0 DEF SendStep, GiveUp, Register, CheckTurn, LockQueue, Claim, Push, Release,
              DropCancelled, NotifyRelease, ReleaseTurn, Goto, order, worker
<1>2. \A u \in Tickets \ {t} : InQueue(u)' = InQueue(u)
  <2>1. CASE Push(t)
    BY <1>0, <2>1 DEF Push, worker, InQueue
  <2>2. CASE ~Push(t)
    BY <2>2 DEF SendStep, GiveUp, Register, CheckTurn, LockQueue, Claim, Release,
                DropCancelled, NotifyRelease, worker, InQueue
  <2>. QED  BY <2>1, <2>2
<1>3. \A u \in Tickets \ {t} : StatusOf(u)' = StatusOf(u)
  <2>. SUFFICES ASSUME NEW u \in Tickets \ {t} PROVE StatusOf(u)' = StatusOf(u)
    OBVIOUS
  <2>. QED  BY <1>1, <1>2, StatusFrame
<1>4. CASE StatusOf(t)' = StatusOf(t)
  BY <1>1, <1>3, <1>4, Stutter
<1>5. CASE Claim(t) /\ t >= cancel_below
  <2>1. pc[t] = "claim" /\ pc'[t] = "push"
    BY <1>0, <1>5 DEF Claim, Goto
  <2>2. StatusOf(t) = "waiting" /\ StatusOf(t)' = "queued"
    <3>1. StatusOf(t) = "waiting"
      BY <1>5, <2>1, StatusMeans DEF StatusTable, Coming
    <3>2. StatusOf(t)' = "queued"
      BY <2>1, StatusMeans, StatusMeansNext DEF StatusTable, Coming
    <3>. QED  BY <3>1, <3>2
  <2>3. ASSUME NEW r \in Tickets, r < t PROVE StatusOf(r) # "waiting"
    <3>1. t = next_turn
      BY <1>5, <2>1 DEF QueueInv, TurnInv, TurnIsExclusive
    <3>2. ~(pc[r] \in Coming /\ r >= cancel_below)
      BY <1>0, <2>3, <3>1 DEF QueueInv, WaitInv
    <3>. QED  BY <3>2, StatusMeans DEF StatusTable
  <2>4. CallerView!Enqueue(t)
    BY <1>1, <1>3, <2>2, <2>3 DEF CallerView!Enqueue, CallerView!Become, CallerView!Sends, Tickets
  <2>. QED  BY <2>4 DEF CallerView!Next, CallerView!Sends, Tickets
<1>6. CASE GiveUp(t) /\ t >= cancel_below
  <2>1. pc[t] \in {"prepare", "sleep", "lock"} /\ pc'[t] = "wake_gaveup"
        /\ queue' = queue /\ held' = held
    BY <1>0, <1>6 DEF GiveUp, Goto, worker
  <2>2. ~InQueue(t) /\ t \notin started
    BY <2>1 DEF QueueInv, StageInv, Enqueued
  <2>3. StatusOf(t) = "waiting"
    BY <1>6, <2>1, StatusMeans DEF StatusTable, Coming
  <2>4. StatusOf(t)' = "over"
    BY <1>1, <2>1, <2>2, StatusMeans, StatusMeansNext DEF StatusTable, InQueue, Coming
  <2>5. CallerView!GiveUp(t)
    BY <1>1, <1>3, <2>3, <2>4 DEF CallerView!GiveUp, CallerView!Become, CallerView!Sends, Tickets
  <2>. QED  BY <2>5 DEF CallerView!Next, CallerView!Sends, Tickets
<1>7. CASE ~(Claim(t) /\ t >= cancel_below) /\ ~(GiveUp(t) /\ t >= cancel_below)
  <2>1. CASE Push(t)
    <3>1. pc[t] = "push" /\ InQueue(t)' /\ pc'[t] = "release"
      BY <1>0, <2>1 DEF Push, Goto, InQueue
    <3>. QED  BY <1>4, <3>1, StatusMeans, StatusMeansNext DEF StatusTable, Coming
  <2>2. CASE (Claim(t) \/ GiveUp(t)) /\ t < cancel_below
    <3>1. /\ pc[t] \in {"prepare", "sleep", "lock", "claim"}
          /\ pc'[t] \in {"rejected", "wake_gaveup"}
          /\ queue' = queue /\ held' = held
      BY <1>0, <2>2 DEF Claim, GiveUp, Goto, worker
    <3>2. ~InQueue(t) /\ t \notin started
      BY <3>1 DEF QueueInv, StageInv, Enqueued
    <3>3. StatusOf(t) = "over"
      BY <1>0, <2>2, <3>1, <3>2, StatusMeans, StatusMeansNext DEF StatusTable, Coming
    <3>4. StatusOf(t)' = "over"
      BY <1>1, <3>1, <3>2, StatusMeans, StatusMeansNext DEF StatusTable, InQueue, Coming
    <3>. QED  BY <1>4, <3>3, <3>4
  <2>3. CASE CheckTurn(t) /\ t < cancel_below
    <3>1. /\ pc[t] = "check" /\ pc'[t] = "rejected" /\ queue' = queue /\ held' = held
      BY <1>0, <2>3 DEF CheckTurn, Goto, worker
    <3>2. ~InQueue(t) /\ t \notin started
      BY <3>1 DEF QueueInv, StageInv, Enqueued
    <3>3. StatusOf(t) = "over"
      BY <1>0, <2>3, <3>1, <3>2, StatusMeans, StatusMeansNext DEF StatusTable, Coming
    <3>4. StatusOf(t)' = "over"
      BY <1>1, <3>1, <3>2, StatusMeans, StatusMeansNext DEF StatusTable, InQueue, Coming
    <3>. QED  BY <1>4, <3>3, <3>4
  <2>4. CASE Register(t) \/ LockQueue(t) \/ (CheckTurn(t) /\ t >= cancel_below)
    <3>1. pc[t] \in Coming /\ pc'[t] \in Coming /\ (InQueue(t)' = InQueue(t))
      BY <1>0, <2>4 DEF Register, LockQueue, CheckTurn, Goto, Coming, InQueue, worker
    <3>. QED  BY <1>1, <1>4, <3>1, StatusFrame
  <2>5. CASE Release(t) \/ DropCancelled(t) \/ NotifyRelease(t)
    <3>1. /\ pc[t] \notin Coming \union {"idle", "push"}
          /\ pc'[t] \notin Coming \union {"idle", "push"}
          /\ (InQueue(t)' = InQueue(t))
      BY <1>0, <2>5 DEF Release, DropCancelled, NotifyRelease, Goto, Coming, InQueue, worker
    <3>. QED  BY <1>1, <1>4, <3>1, StatusFrame
  <2>6. t < cancel_below \/ t >= cancel_below
    BY <1>0
  <2>. QED  BY <1>7, <2>1, <2>2, <2>3, <2>4, <2>5, <2>6, Zenon DEF SendStep
<1>. QED  BY <1>5, <1>6, <1>7

\* A cut is the flush point: what is on its way is over at once.
LEMMA CutMaps ==
    ASSUME QueueInv, QueueInv', NEW c \in Cutters, Cut(c)
    PROVE  CallerView!Flush
<1>1. /\ cancel_below' = next_ticket /\ next_ticket' = next_ticket /\ pc' = pc
      /\ queue' = queue /\ held' = held /\ started' = started
  BY CutRange DEF Cut, worker, QueueInv
<1>2. ASSUME NEW t \in Tickets
      PROVE  StatusOf(t)' = IF StatusOf(t) = "waiting" THEN "over" ELSE StatusOf(t)
  <2>1. InQueue(t)' = InQueue(t)
    BY <1>1 DEF InQueue
  <2>2. pc[t] \in Coming => ~(t >= cancel_below')
    BY <1>1 DEF QueueInv, TypeInv, Issued, Coming
  <2>3. pc[t] \in Coming => ~InQueue(t) /\ t \notin started
    BY DEF QueueInv, StageInv, Enqueued, Coming
  <2>4. CASE pc[t] \in Coming
    <3>1. StatusOf(t)' = "over"
      BY <1>1, <2>1, <2>2, <2>3, <2>4, StatusMeans, StatusMeansNext DEF StatusTable, Coming
    <3>2. StatusOf(t) \in {"waiting", "over"}
      BY <2>3, <2>4, StatusMeans, StatusMeansNext DEF StatusTable, Coming
    <3>. QED  BY <3>1, <3>2
  <2>5. CASE pc[t] \notin Coming
    <3>1. StatusOf(t)' = StatusOf(t)
      BY <1>1, <2>1, <2>5, StatusMeans, StatusMeansNext DEF StatusTable, Coming
    <3>2. StatusOf(t) # "waiting"
      BY <2>5, StatusMeans DEF StatusTable
    <3>. QED  BY <3>1, <3>2
  <2>. QED  BY <2>4, <2>5
<1>. QED  BY <1>1, <1>2 DEF CallerView!Flush, CallerView!Sends, Tickets

\* A pass that collects the queue drops the jobs called before its cut.
LEMMA CollectMaps ==
    ASSUME QueueInv, QueueInv', NEW c \in Cutters, Collect(c)
    PROVE  CallerView!Drop
<1>1. /\ cancel_below' = cancel_below /\ next_ticket' = next_ticket /\ pc' = pc
      /\ started' = started
  BY DEF Collect, order
<1>2. /\ \A t \in Tickets : pc[t] # "push"
      /\ \A t \in Tickets : Enqueued(t)' => Enqueued(t)
      /\ \A t \in Tickets : Enqueued(t) /\ ~Enqueued(t)' => t < cancel_below
  BY CollectOwners DEF QueueInv
<1>5. ASSUME NEW t \in Tickets, InQueue(t)' PROVE InQueue(t)
  <2>1. PICK n \in 0 .. Len(queue) :
          /\ Len(queue') = Len(queue) - n
          /\ \A i \in 1 .. Len(queue') : queue'[i] = queue[i + n]
    BY CollectEffect DEF QueueInv, JobInv
  <2>2. held' \in {held, Nobody} /\ queue \in Seq(Tickets)
    BY CollectEffect DEF QueueInv, JobInv, TypeInv, TypeOK
  <2>. QED  BY <1>5, <2>1, <2>2 DEF InQueue, Nobody, Tickets
<1>. DEFINE dropped == {t \in Tickets : Enqueued(t) /\ ~Enqueued(t)'}
<1>3. ASSUME NEW t \in Tickets
      PROVE  StatusOf(t)' = IF t \in dropped THEN "over" ELSE StatusOf(t)
  <2>1. CASE t \in dropped
    <3>1. ~InQueue(t)' /\ t \notin started' /\ pc[t] \in {"release", "wake_queued", "queued"}
      BY <2>1 DEF Enqueued, QueueInv, StageInv
    <3>. QED  BY <1>1, <2>1, <3>1, StatusMeans, StatusMeansNext DEF StatusTable, Coming
  <2>2. CASE t \notin dropped
    <3>1. InQueue(t)' = InQueue(t)
      <4>1. ~(InQueue(t) /\ t \in started)
        BY StatusMeans DEF StatusTable
      <4>2. InQueue(t)' <=> InQueue(t)
        BY <1>1, <1>5, <2>2, <4>1 DEF Enqueued
      <4>. QED  BY <4>2 DEF InQueue
    <3>. QED  BY <1>1, <2>2, <3>1, StatusFrame
  <2>. QED  BY <2>1, <2>2
<1>4. dropped \in SUBSET {t \in Tickets : StatusOf(t) = "queued" /\ t < cancel_below}
  <2>. SUFFICES ASSUME NEW t \in dropped
                PROVE  t \in Tickets /\ StatusOf(t) = "queued" /\ t < cancel_below
    OBVIOUS
  <2>1. InQueue(t)
    BY <1>1 DEF Enqueued
  <2>. QED  BY <1>2, <2>1, StatusMeans DEF StatusTable
<1>. HIDE DEF dropped
<1>. QED  BY <1>1, <1>3, <1>4 DEF CallerView!Drop, CallerView!Sends, Tickets

\* The worker takes the oldest send a caller still sees as waiting or queued.
LEMMA TakeMaps ==
    ASSUME QueueInv, QueueInv', TakeHeld
    PROVE  \E job \in Tickets : CallerView!Start(job)
<1>. PICK job \in Tickets : job = held
  BY DEF TakeHeld, QueueInv, TypeInv, TypeOK
<1>0. /\ queue \in Seq(Tickets) /\ next_turn \in Nat
      /\ \A u \in Tickets : u \in Nat
  BY DEF QueueInv, TypeInv, TypeOK, Tickets
<1>1. /\ cancel_below' = cancel_below /\ next_ticket' = next_ticket /\ pc' = pc
      /\ started' = started \union {job} /\ held' = Nobody /\ queue' = queue
  BY DEF TakeHeld, order
<1>2. /\ \A i \in 1 .. Len(queue) : job < queue[i] /\ queue[i] \in Tickets
      /\ InQueue(job)
  BY <1>0 DEF QueueInv, JobInv, QueueInCallOrder, InQueue
<1>3. pc[job] \in {"release", "wake_queued", "queued"} /\ job <= next_turn
  BY <1>0, <1>2 DEF QueueInv, StageInv, JobInv, Enqueued
<1>4. ASSUME NEW r \in Tickets, r < job
      PROVE  StatusOf(r) \notin {"waiting", "queued"}
  <2>1. ~InQueue(r)
    BY <1>0, <1>2, <1>4 DEF InQueue
  <2>2. pc[r] # "push"
    BY <1>0, <1>2, <1>4 DEF QueueInv, JobInv, Enqueued
  <2>3. ~(pc[r] \in Coming /\ r >= cancel_below)
    BY <1>0, <1>3, <1>4 DEF QueueInv, WaitInv
  <2>. QED  BY <2>1, <2>2, <2>3, StatusMeans DEF StatusTable
<1>5. StatusOf(job) = "queued"
  BY <1>2, StatusMeans DEF StatusTable
<1>6. StatusOf(job)' = "started"
  BY <1>1, StatusMeansNext DEF StatusTable
<1>7. ASSUME NEW t \in Tickets \ {job} PROVE StatusOf(t)' = StatusOf(t)
  <2>1. InQueue(t)' = InQueue(t) /\ (t \in started' <=> t \in started)
    BY <1>0, <1>1 DEF InQueue, Nobody, Tickets
  <2>. QED  BY <1>1, <2>1, StatusMeans, StatusMeansNext DEF StatusTable
<1>8. CallerView!Start(job)
  BY <1>1, <1>4, <1>5, <1>6, <1>7
     DEF CallerView!Start, CallerView!Become, CallerView!Sends, Tickets
<1>. QED  BY <1>8

LEMMA StepMaps == QueueInv /\ QueueInv' /\ [Next]_vars => [CallerView!Next]_(CallerView!vars)
<1>. SUFFICES ASSUME QueueInv, QueueInv', [Next]_vars PROVE [CallerView!Next]_(CallerView!vars)
  OBVIOUS
<1>. USE DEF CallerView!Next, CallerView!Sends, Tickets
<1>1. ASSUME NEW reply \in BOOLEAN, Reserve(reply) PROVE CallerView!Call
  <2>. PICK n \in Tickets : n = next_ticket
    BY <1>1, SendOrderAssumption DEF Reserve, QueueInv, TypeInv, TypeOK
  <2>1. /\ next_ticket' = n + 1 /\ n < MaxSends
        /\ pc' = [pc EXCEPT ![n] = "prepare"] /\ pc \in [Tickets -> Stages]
        /\ n >= cancel_below
        /\ cancel_below' = cancel_below /\ started' = started
        /\ queue' = queue /\ held' = held
    BY <1>1 DEF Reserve, Goto, worker, QueueInv, TypeInv, TypeOK
  <2>2. StatusOf(n)' = "waiting"
    BY <2>1, StatusMeansNext DEF StatusTable, Coming
  <2>3. ASSUME NEW t \in Tickets \ {n} PROVE StatusOf(t)' = StatusOf(t)
    <3>1. InQueue(t)' = InQueue(t) /\ pc'[t] = pc[t]
      BY <2>1 DEF InQueue
    <3>. QED  BY <2>1, <3>1, StatusFrame
  <2>. QED  BY <2>1, <2>2, <2>3 DEF CallerView!Call, CallerView!Become
<1>2. ASSUME NEW t \in Tickets, SendStep(t) \/ GiveUp(t)
      PROVE  [CallerView!Next]_(CallerView!vars)
  BY <1>2, SendMaps
<1>3. ASSUME NEW c \in Cutters, Cut(c) PROVE CallerView!Flush
  BY <1>3, CutMaps
<1>4. ASSUME NEW c \in Cutters, Collect(c) PROVE CallerView!Drop
  BY <1>4, CollectMaps
<1>5. ASSUME NEW c \in Cutters, NotifyCut(c) \/ EmitReplyEnds(c)
      PROVE  UNCHANGED CallerView!vars
  BY <1>5, Stutter, StatusMeans, StatusMeansNext
  DEF NotifyCut, EmitReplyEnds, order, worker, StatusTable, InQueue, Coming
<1>6. ASSUME PopIntoHeld PROVE UNCHANGED CallerView!vars
  <2>1. queue \in Seq(Tickets)
    BY DEF QueueInv, TypeInv, TypeOK
  <2>2. ASSUME NEW t \in Tickets PROVE InQueue(t)' = InQueue(t)
    BY <1>6, <2>1 DEF PopIntoHeld, InQueue, Nobody
  <2>. QED  BY <1>6, <2>2, Stutter, StatusMeans, StatusMeansNext DEF PopIntoHeld, order, StatusTable, Coming
<1>7. ASSUME TakeHeld PROVE \E s \in Tickets : CallerView!Start(s)
  BY <1>7, TakeMaps
<1>8. CASE UNCHANGED vars
  BY <1>8, Stutter, StatusMeans, StatusMeansNext DEF vars, order, worker, StatusTable, InQueue, Coming
<1>. QED  BY <1>1, <1>2, <1>3, <1>4, <1>5, <1>6, <1>7, <1>8, Zenon DEF Next, CutterStep, WorkerStep

LEMMA InitMaps == Init => CallerView!Init
<1>. SUFFICES ASSUME Init PROVE CallerView!Init
  OBVIOUS
<1>1. \A t \in Tickets : StatusOf(t) = "none"
  BY QueueInvInit, StatusMeans DEF Init, StatusTable
<1>. QED  BY <1>1 DEF Init, CallerView!Init, CallerView!Sends, Tickets

\* The send order as its callers see it (VOICE-API.md: sends play in call
\* order, a flush cancels the sends called before it and keeps later ones):
\* the tickets, turns, wake-ups and locks of tts_send_order.rs implement a
\* first-in first-out queue with an atomic flush point.
THEOREM QueueImplemented == Spec => ImplementsQueue
<1>1. Init => QueueInv /\ CallerView!Init
  BY QueueInvInit, InitMaps
<1>2. QueueInv /\ [Next]_vars => QueueInv'
  BY QueueInvStep
<1>3. QueueInv /\ QueueInv' /\ [Next]_vars => [CallerView!Next]_(CallerView!vars)
  BY StepMaps
<1>. QED  BY <1>1, <1>2, <1>3, PTL DEF Spec, ImplementsQueue, CallerView!Spec

=============================================================================
