---------------------------- MODULE TtsSendOrder ----------------------------
(***************************************************************************)
(* The ticket sequencer in front of the TTS synthesis queue of one         *)
(* VoiceAgent (crates/speech/src/tts_send_order.rs), with the three kinds  *)
(* of tasks that meet there (crates/speech/src/agent.rs):                  *)
(*   - one task per send, which takes a ticket synchronously when it is    *)
(*     called, waits for its turn on a tokio Notify, then claims its place *)
(*     and pushes its job under the queue lock;                            *)
(*   - flush, barge-in and stop passes ("cutters"), which take a cut       *)
(*     without the queue lock and collect the queue later, under it;       *)
(*   - the synthesis worker, which pops a job into the held slot and later *)
(*     takes it back to start it, both under the queue lock.               *)
(* A step is the code between two points where another task can run. The   *)
(* state mutex of the sequencer, the queue lock and the edge-triggered     *)
(* notification are three separate steps of a send, as in the code.        *)
(* A send is identified with its ticket: ids are handed out in call order. *)
(***************************************************************************)
EXTENDS Integers, Sequences

CONSTANTS
    MaxSends,            \* bound on the number of tickets issued
    Cutters,             \* the flush / barge-in / stop passes
    MaxCuts              \* bound on the number of cuts taken

ASSUME SendOrderAssumption ==
    /\ MaxSends \in Nat
    /\ MaxCuts \in Nat

Tickets == 0 .. MaxSends - 1
Nobody == -1             \* no task holds the queue lock; the held slot is empty

VARIABLES
    \* OrderState, behind one std mutex
    next_ticket,
    next_turn,
    released_ahead,
    cancel_below,
    pending_reply,       \* the tickets whose reply id is in the map
    \* Notify: the futures enabled and not yet woken
    registered,
    \* the sends
    pc,
    has_reply,           \* the tickets reserved with a reply id
    \* the synthesis queue (job = ticket), its lock, the worker's held slot
    queue_lock,
    queue,
    held,
    started,             \* the tickets whose synthesis started
    \* the flush passes
    cut,
    cuts_taken,
    \* reply ends emitted for dropped replies: how often, per ticket
    reply_ends

order == <<next_ticket, next_turn, released_ahead, cancel_below, pending_reply>>
worker == <<held, started>>
passes == <<cut, cuts_taken, reply_ends>>
vars == <<order, registered, pc, has_reply, queue_lock, queue, worker, passes>>

\* The stages of a send. "prepare" covers the checks and the hook before the
\* wait; "check" is one poll of the turn; "sleep" is the await on the Notify;
\* "lock" waits for the queue lock; the wake_* stages are between a release
\* and its notify_waiters; the last three are final.
Stages == {"idle", "prepare", "check", "sleep", "lock", "claim", "push", "release",
           "wake_queued", "rejected", "wake_cancelled", "wake_gaveup",
           "queued", "cancelled", "gaveup"}
Settled == {"queued", "cancelled", "gaveup"}

Init ==
    /\ next_ticket = 0
    /\ next_turn = 0
    /\ released_ahead = {}
    /\ cancel_below = 0
    /\ pending_reply = {}
    /\ registered = {}
    /\ pc = [t \in Tickets |-> "idle"]
    /\ has_reply = {}
    /\ queue_lock = Nobody
    /\ queue = <<>>
    /\ held = Nobody
    /\ started = {}
    /\ cut = [c \in Cutters |-> [stage |-> "idle", below |-> 0, replies |-> {}]]
    /\ cuts_taken = 0
    /\ reply_ends = [t \in Tickets |-> 0]

Goto(t, stage) == pc' = [pc EXCEPT ![t] = stage]

-----------------------------------------------------------------------------
(* The sequencer. *)

\* Variant: the turn is not moved past tickets that released out of order.
Advance_OneStep(from, ahead) == next_turn' = from /\ released_ahead' = ahead

\* Move the turn to `from`, then past every ticket that released ahead of it.
Advance(from, ahead) ==
    \E turn \in from .. MaxSends :
        /\ \A t \in from .. turn - 1 : t \in ahead
        /\ turn \notin ahead
        /\ next_turn' = turn
        /\ released_ahead' = ahead \ (from .. turn - 1)

\* TtsSendOrder::release, without its notification.
ReleaseTurn(t) ==
    /\ pending_reply' = pending_reply \ {t}
    /\ \/ t = next_turn /\ Advance(next_turn + 1, released_ahead)
       \/ t > next_turn /\ released_ahead' = released_ahead \union {t} /\ UNCHANGED next_turn
       \/ t < next_turn /\ UNCHANGED <<next_turn, released_ahead>>
    /\ UNCHANGED <<next_ticket, cancel_below>>

\* Notify::notify_waiters wakes exactly the futures enabled by now.
NotifyWaiters == registered' = {}

-----------------------------------------------------------------------------
(* One send. *)

\* reserve_with_reply: synchronous in the caller.
Reserve(reply) ==
    /\ next_ticket < MaxSends
    /\ next_ticket' = next_ticket + 1
    /\ pending_reply' = IF reply THEN pending_reply \union {next_ticket} ELSE pending_reply
    /\ has_reply' = IF reply THEN has_reply \union {next_ticket} ELSE has_reply
    /\ Goto(next_ticket, "prepare")
    /\ UNCHANGED <<next_turn, released_ahead, cancel_below, registered,
                   queue_lock, queue, worker, passes>>

\* wait_turn, first poll or woken: the future is enabled before the state is read.
Register(t) ==
    /\ pc[t] = "prepare" \/ (pc[t] = "sleep" /\ t \notin registered)
    /\ registered' = registered \union {t}
    /\ Goto(t, "check")
    /\ UNCHANGED <<order, has_reply, queue_lock, queue, worker, passes>>

\* Variant: a send does not wait for the tickets below it.
CheckTurn_NoWait(t) ==
    /\ pc[t] = "check"
    /\ Goto(t, IF t < cancel_below THEN "rejected" ELSE "lock")
    /\ registered' = registered \ {t}
    /\ UNCHANGED <<order, has_reply, queue_lock, queue, worker, passes>>

\* wait_turn, the check under the state mutex.
CheckTurn(t) ==
    /\ pc[t] = "check"
    /\ \/ /\ t < cancel_below
          /\ Goto(t, "rejected")
          /\ registered' = registered \ {t}
       \/ /\ t >= cancel_below /\ t = next_turn
          /\ Goto(t, "lock")
          /\ registered' = registered \ {t}
       \/ /\ t >= cancel_below /\ t # next_turn
          /\ Goto(t, "sleep")
          /\ UNCHANGED registered
    /\ UNCHANGED <<order, has_reply, queue_lock, queue, worker, passes>>

LockQueue(t) ==
    /\ pc[t] = "lock"
    /\ queue_lock = Nobody
    /\ queue_lock' = t
    /\ Goto(t, "claim")
    /\ UNCHANGED <<order, registered, has_reply, queue, worker, passes>>

\* Variant: the cut is not checked again under the queue lock.
Claim_Unchecked(t) ==
    /\ pc[t] = "claim"
    /\ Goto(t, "push")
    /\ pending_reply' = pending_reply \ {t}
    /\ UNCHANGED <<next_ticket, next_turn, released_ahead, cancel_below,
                   registered, has_reply, queue_lock, queue, worker, passes>>

\* Variant: a claimed ticket keeps its reply id in the map.
Claim_KeepsReply(t) ==
    /\ pc[t] = "claim"
    /\ \/ t < cancel_below /\ Goto(t, "rejected") /\ queue_lock' = Nobody
       \/ t >= cancel_below /\ Goto(t, "push") /\ UNCHANGED queue_lock
    /\ UNCHANGED <<order, registered, has_reply, queue, worker, passes>>

\* claim, under the queue lock. A cancelled send drops the lock with its guard.
Claim(t) ==
    /\ pc[t] = "claim"
    /\ \/ /\ t < cancel_below
          /\ Goto(t, "rejected")
          /\ queue_lock' = Nobody
          /\ UNCHANGED pending_reply
       \/ /\ t >= cancel_below
          /\ Goto(t, "push")
          /\ pending_reply' = pending_reply \ {t}
          /\ UNCHANGED queue_lock
    /\ UNCHANGED <<next_ticket, next_turn, released_ahead, cancel_below,
                   registered, has_reply, queue, worker, passes>>

Push(t) ==
    /\ pc[t] = "push"
    /\ queue' = Append(queue, t)
    /\ Goto(t, "release")
    /\ UNCHANGED <<order, registered, has_reply, queue_lock, worker, passes>>

\* ticket.release() after the push, still under the queue lock.
Release(t) ==
    /\ pc[t] = "release"
    /\ ReleaseTurn(t)
    /\ Goto(t, "wake_queued")
    /\ UNCHANGED <<registered, has_reply, queue_lock, queue, worker, passes>>

\* The ticket of a cancelled send is dropped, which releases it.
DropCancelled(t) ==
    /\ pc[t] = "rejected"
    /\ ReleaseTurn(t)
    /\ Goto(t, "wake_cancelled")
    /\ UNCHANGED <<registered, has_reply, queue_lock, queue, worker, passes>>

\* A send ends before it claims its place: reply id mismatch, empty text or no
\* TTS configured ("prepare"), or its future is dropped at an await.
GiveUp(t) ==
    /\ pc[t] \in {"prepare", "sleep", "lock"}
    /\ ReleaseTurn(t)
    /\ Goto(t, "wake_gaveup")
    /\ registered' = registered \ {t}
    /\ UNCHANGED <<has_reply, queue_lock, queue, worker, passes>>

\* The notify_waiters that ends a release; the queue guard goes right after it.
NotifyRelease(t) ==
    /\ \/ pc[t] = "wake_queued" /\ Goto(t, "queued") /\ queue_lock' = Nobody
       \/ pc[t] = "wake_cancelled" /\ Goto(t, "cancelled") /\ UNCHANGED queue_lock
       \/ pc[t] = "wake_gaveup" /\ Goto(t, "gaveup") /\ UNCHANGED queue_lock
    /\ NotifyWaiters
    /\ UNCHANGED <<order, has_reply, queue, worker, passes>>

-----------------------------------------------------------------------------
(* One flush, barge-in or stop pass. *)

\* Variant: a cut lets later tickets pass but cancels nobody.
Cut_CancelsNobody(c) ==
    /\ cut[c].stage = "idle"
    /\ cuts_taken < MaxCuts
    /\ cuts_taken' = cuts_taken + 1
    /\ Advance(next_ticket, {})
    /\ cut' = [cut EXCEPT ![c] = [stage |-> "notify", below |-> next_ticket, replies |-> {}]]
    /\ UNCHANGED <<next_ticket, cancel_below, pending_reply, registered, pc, has_reply,
                   queue_lock, queue, worker, reply_ends>>

\* TtsSendOrder::cut under the state mutex; it does not take the queue lock.
Cut(c) ==
    /\ cut[c].stage = "idle"
    /\ cuts_taken < MaxCuts
    /\ cuts_taken' = cuts_taken + 1
    /\ cancel_below' = IF cancel_below < next_ticket THEN next_ticket ELSE cancel_below
    /\ IF next_turn < cancel_below'
         THEN Advance(cancel_below', {t \in released_ahead : t >= cancel_below'})
         ELSE UNCHANGED <<next_turn, released_ahead>>
    /\ pending_reply' = {t \in pending_reply : t >= cancel_below'}
    /\ cut' = [cut EXCEPT ![c] = [stage |-> "notify", below |-> next_ticket,
                                  replies |-> {t \in pending_reply : t < cancel_below'}]]
    /\ UNCHANGED <<next_ticket, registered, pc, has_reply, queue_lock, queue,
                   worker, reply_ends>>

NotifyCut(c) ==
    /\ cut[c].stage = "notify"
    /\ NotifyWaiters
    /\ cut' = [cut EXCEPT ![c].stage = "collect"]
    /\ UNCHANGED <<order, pc, has_reply, queue_lock, queue, worker, cuts_taken, reply_ends>>

\* cancel_pending_tts_synthesis_collect_before, one critical section: settle the
\* held job, then drain the front of the queue up to the cut.
Collect(c) ==
    /\ cut[c].stage = "collect"
    /\ queue_lock = Nobody
    /\ \E n \in 0 .. Len(queue) :
         /\ \A i \in 1 .. n : queue[i] < cut[c].below
         /\ n < Len(queue) => queue[n + 1] >= cut[c].below
         /\ queue' = SubSeq(queue, n + 1, Len(queue))
         /\ LET settled == {queue[i] : i \in 1 .. n}
                             \union (IF held < cut[c].below THEN {held} ELSE {})
            IN  cut' = [cut EXCEPT ![c] = [stage |-> "emit", below |-> @.below,
                              replies |-> @.replies \union (settled \intersect has_reply)]]
    /\ held' = IF held < cut[c].below THEN Nobody ELSE held
    /\ UNCHANGED <<order, registered, pc, has_reply, queue_lock, started,
                   cuts_taken, reply_ends>>

\* emit_dropped_reply_ends, after the playback flush that is not modelled here.
EmitReplyEnds(c) ==
    /\ cut[c].stage = "emit"
    /\ reply_ends' = [t \in Tickets |->
                        reply_ends[t] + (IF t \in cut[c].replies THEN 1 ELSE 0)]
    /\ cut' = [cut EXCEPT ![c] = [stage |-> "idle", below |-> 0, replies |-> {}]]
    /\ UNCHANGED <<order, registered, pc, has_reply, queue_lock, queue, worker, cuts_taken>>

-----------------------------------------------------------------------------
(* The synthesis worker. *)

PopIntoHeld ==
    /\ queue_lock = Nobody
    /\ held = Nobody
    /\ queue # <<>>
    /\ held' = Head(queue)
    /\ queue' = Tail(queue)
    /\ UNCHANGED <<order, registered, pc, has_reply, queue_lock, started, passes>>

\* The job is taken back and its synthesis starts; the next job is popped only
\* after this one has run.
TakeHeld ==
    /\ queue_lock = Nobody
    /\ held # Nobody
    /\ started' = started \union {held}
    /\ held' = Nobody
    /\ UNCHANGED <<order, registered, pc, has_reply, queue_lock, queue, passes>>

-----------------------------------------------------------------------------
SendStep(t) ==
    \/ Register(t)
    \/ CheckTurn(t)
    \/ LockQueue(t)
    \/ Claim(t)
    \/ Push(t)
    \/ Release(t)
    \/ DropCancelled(t)
    \/ NotifyRelease(t)

CutterStep(c) == NotifyCut(c) \/ Collect(c) \/ EmitReplyEnds(c)

WorkerStep == PopIntoHeld \/ TakeHeld

Next ==
    \/ \E reply \in BOOLEAN : Reserve(reply)
    \/ \E t \in Tickets : SendStep(t) \/ GiveUp(t)
    \/ \E c \in Cutters : Cut(c) \/ CutterStep(c)
    \/ WorkerStep

Spec == Init /\ [][Next]_vars

\* The runtime polls every task that is ready. Nobody is obliged to call, give
\* up or flush. The tokio mutex is fair; weak fairness is enough here because
\* only finitely many sends ever take the queue lock.
Fairness ==
    /\ \A t \in Tickets : WF_vars(SendStep(t))
    /\ \A c \in Cutters : WF_vars(CutterStep(c))
    /\ WF_vars(WorkerStep)

FairSpec == Spec /\ Fairness

-----------------------------------------------------------------------------
(* What a send, and a reply, can count on. *)

InQueue(t) == t = held \/ \E i \in 1 .. Len(queue) : queue[i] = t

\* Every variable keeps its type, with the ranges the field comments of
\* OrderState give: the turn never passes the tickets handed out, and the
\* tickets released ahead are above the turn.
TypeOK ==
    /\ next_ticket \in 0 .. MaxSends
    /\ next_turn \in 0 .. next_ticket
    /\ released_ahead \subseteq next_turn + 1 .. next_ticket - 1
    /\ cancel_below \in 0 .. next_ticket
    /\ pending_reply \subseteq Tickets
    /\ registered \subseteq Tickets
    /\ pc \in [Tickets -> Stages]
    /\ has_reply \subseteq Tickets
    /\ queue_lock \in Tickets \union {Nobody}
    /\ queue \in Seq(Tickets)
    /\ held \in Tickets \union {Nobody}
    /\ started \subseteq Tickets
    /\ cut \in [Cutters -> [stage : {"idle", "notify", "collect", "emit"},
                            below : 0 .. MaxSends, replies : SUBSET Tickets]]
    /\ cuts_taken \in 0 .. MaxCuts
    /\ reply_ends \in [Tickets -> Nat]

\* Jobs start in call order, whatever the order in which the send tasks are
\* polled: the queue is increasing, and what is held or has started is below
\* everything behind it.
QueueInCallOrder ==
    /\ \A i, j \in 1 .. Len(queue) : i < j => queue[i] < queue[j]
    /\ \A i \in 1 .. Len(queue) : held < queue[i]
    /\ \A s \in started : /\ \A i \in 1 .. Len(queue) : s < queue[i]
                          /\ held # Nobody => s < held

\* A send past its turn check that no cut covers is the one whose turn it is,
\* so no two such sends race for the queue lock.
TurnIsExclusive ==
    \A t \in Tickets :
        pc[t] \in {"lock", "claim", "push", "release"} /\ t >= cancel_below => t = next_turn

\* Sends reach the vendor in call order (VOICE-API.md), for the two reasons the
\* sequencer has for it.
SendsInCallOrder == QueueInCallOrder /\ TurnIsExclusive

\* Once a flush has collected the queue, no send called before its cut is in
\* the queue or the held slot, or can still get there.
CutLeavesNothingBehind ==
    \A c \in Cutters, t \in Tickets :
        cut[c].stage = "emit" /\ t < cut[c].below => ~InQueue(t) /\ pc[t] # "push"

\* The reply id of a send has one owner at a time: the send on its way, the
\* job, one flush, or the reply end already emitted. It has none only after
\* the send gave up by itself. So a dropped reply ends exactly once.
Owners(t) ==
    {o \in {"send"} : t \in pending_reply}
      \union {o \in {"job"} : pc[t] = "push" \/ InQueue(t) \/ t \in started}
      \union {o \in {"ended"} : reply_ends[t] > 0}
      \union {c \in Cutters : t \in cut[c].replies}
ReplyHasOneOwner ==
    \A t \in has_reply :
        /\ reply_ends[t] <= 1
        /\ \A o, p \in Owners(t) : o = p
        /\ Owners(t) = {} => pc[t] \in {"wake_gaveup", "gaveup"}

\* A flush emits the queued replies' ends before those of the sends still on
\* their way, and that is ticket order: every job it will drop is below every
\* reply its cut took ("Every queued ticket is below every ticket still on its
\* way", agent.rs).
ReplyEndsInTicketOrder ==
    \A c \in Cutters, r, q \in Tickets :
        /\ cut[c].stage \in {"notify", "collect"}
        /\ r \in cut[c].replies
        /\ q < cut[c].below
        /\ InQueue(q) \/ pc[q] = "push"
        => q < r

\* Every reply id is accounted for, from its ticket to its agent_reply_end, and
\* the ends of one flush come in the order of the calls.
RepliesOwned == ReplyHasOneOwner /\ ReplyEndsInTicketOrder

\* Every send comes to an end: it is queued and then started or dropped, it is
\* told "TTS cancelled", or it gave up. No wake-up is lost between the check of
\* the turn and the sleep, and no ticket waits for one that will not move.
EverySendResolves ==
    \A t \in Tickets :
        pc[t] = "prepare" ~> /\ pc[t] \in Settled
                             /\ ~InQueue(t)

\* The sequencer implements the queue a caller sees: a send is queued at its
\* claim, and is over for the caller as soon as a cut covers it.
StatusOf(t) ==
    CASE pc[t] = "idle" -> "none"
      [] pc[t] \in {"prepare", "check", "sleep", "lock", "claim"} /\ t >= cancel_below -> "waiting"
      [] pc[t] = "push" \/ InQueue(t) -> "queued"
      [] t \in started -> "started"
      [] OTHER -> "over"

CallerView == INSTANCE TtsQueueSpec
    WITH calls <- next_ticket, status <- [t \in Tickets |-> StatusOf(t)], floor <- cancel_below

\* The tickets, turns and locks of the code behave like a first-in first-out
\* queue with an atomic flush point (VOICE-API.md: sends play in call order, a
\* flush cancels the sends called before it and keeps the later ones).
ImplementsQueue == CallerView!Spec

=============================================================================
