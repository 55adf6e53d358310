------------------------------- MODULE MixGraph -------------------------------
(***************************************************************************)
(* The shared mix of a conference room: one elastic queue per talker,      *)
(* played by a media clock that every listener's render advances, and one  *)
(* outbound loop per listener that renders its slots at their scheduled    *)
(* times (crates/mixer/src/graph.rs, pacer.rs; the loops that drive them:  *)
(* crates/conference/src/participant.rs). Each step below holds the lock   *)
(* of the graph, or is one wake-up of an outbound loop.                    *)
(*                                                                         *)
(* Time is a number; Tick of its units are the 20 ms of a frame. Tick t of *)
(* the clock is the t-th pop of every queue. The mix is on and nobody is   *)
(* muted: neither changes what a render does to the state below, except    *)
(* that a room that is off receives and counts nothing.                    *)
(***************************************************************************)
EXTENDS ElasticQueue

CONSTANTS
    Participants,
    Tick,                \* FRAME_MS
    MAX_CATCHUP_TICKS, MAX_BURST_WRITES,
    Scopes               \* bounds: [horizon, listeners, talkers, pushes, leaves]

ASSUME MixAssumption ==
    /\ Tick \in Nat \ {0}
    /\ MAX_CATCHUP_TICKS \in Nat \ {0} /\ MAX_BURST_WRITES \in Nat \ {0}

HISTORY_TICKS == 2 * MAX_CATCHUP_TICKS + 2

VARIABLES
    now,                 \* the wall clock
    clock,               \* of the latest media tick; None before the first push or render
    tick_count,
    listener_ticks,      \* the tick each listener heard last, None before its first render
    inputs,              \* talker -> its SourceSlot
    pumps,               \* listener -> its outbound loop
    resync_at,           \* where the clock went in its latest resync
    books,               \* listener -> what became of the ticks its cursor passed
    scope
mixVars == <<clock, tick_count, listener_ticks, inputs, resync_at, books>>
vars == <<mixVars, now, pumps, scope>>

Slot0 == [queue |-> Queue0, history |-> <<>>]
\* A loop: off, on, ended by itself, or aborted while it renders; anchored, with the
\* slots it has taken and those of them still to render.
Off == [st |-> "off", anchor |-> 0, written |-> 0, due |-> <<>>]
Book0(first) == [first |-> first, heard |-> 0, skipped |-> 0, again |-> None]

Init ==
    /\ scope \in Scopes
    /\ now = 0 /\ clock = None /\ tick_count = 0 /\ resync_at = None
    /\ listener_ticks = [l \in Participants |-> None]
    /\ inputs = [p \in {} |-> Slot0]
    /\ pumps = [l \in Participants |-> Off]
    /\ books = [l \in Participants |-> Book0(0)]

Elapse ==
    /\ now < scope.horizon
    /\ now' = now + 1
    /\ UNCHANGED <<mixVars, pumps, scope>>

(***************************************************************************)
(* The media clock.                                                        *)
(***************************************************************************)
\* Whole ticks from the clock to a render; beyond the catch-up the clock resyncs.
Elapsed(at) == IF clock # None /\ at > clock THEN (at - clock) \div Tick ELSE 0
Resyncs(at) == Elapsed(at) > MAX_CATCHUP_TICKS
TicksToRun(at) == IF Resyncs(at) THEN 1 ELSE Elapsed(at)
ClockAfter(at) ==
    IF clock = None \/ Resyncs(at) THEN at ELSE clock + Tick * Elapsed(at)

\* One tick of a source: the popped frame ends its history.
PopTick(slot) ==
    LET q == Pop(slot.queue)
        kept == IF Len(slot.history) = HISTORY_TICKS THEN Tail(slot.history) ELSE slot.history
    IN  [queue |-> q, history |-> Append(kept, q.out)]

PopTicks(slot, run) ==
    LET after[n \in 0 .. run] == IF n = 0 THEN slot ELSE PopTick(after[n - 1])
    IN  after[run]

(***************************************************************************)
(* The listeners.                                                          *)
(***************************************************************************)
\* A slot before the clock is early by whole ticks, rounded up, and may only hear the
\* ticks whose time had come by then.
CeilTicks(d) == (d + Tick - 1) \div Tick
NewestAt_Floor(at, clk, ticks) ==
    LET behind == IF at < clk THEN (clk - at) \div Tick ELSE 0
    IN  IF behind < ticks THEN ticks - behind ELSE 0
NewestAt(at, clk, ticks) ==
    LET behind == IF at < clk THEN CeilTicks(clk - at) ELSE 0
    IN  IF behind < ticks THEN ticks - behind ELSE 0

OldestHeld(ticks) == IF ticks > HISTORY_TICKS - 1 THEN ticks - (HISTORY_TICKS - 1) ELSE 0
IsHeld(t, ticks) == ticks - t < HISTORY_TICKS

\* next_listener_step: the ticks from .. to are played as one frame (two of them merged),
\* to is the new cursor, skipped ticks are counted as never heard.
ListenerStep_NoHistoryCheck(cursor, newest, ticks) ==
    LET trailing == IF newest > cursor THEN newest - cursor ELSE 0
    IN  IF trailing <= 1
          THEN [from |-> cursor + trailing, to |-> cursor + trailing, skipped |-> 0]
        ELSE IF trailing > MAX_CATCHUP_TICKS
          THEN [from |-> newest, to |-> newest, skipped |-> trailing - 1]
        ELSE [from |-> cursor + 1, to |-> cursor + 2, skipped |-> 0]
ListenerStep(cursor, newest, ticks) ==
    LET trailing == IF newest > cursor THEN newest - cursor ELSE 0
        oldest == OldestHeld(ticks)
    IN  IF trailing > 0 /\ cursor + 1 < oldest
          THEN IF newest < oldest
                 THEN [from |-> newest, to |-> newest, skipped |-> trailing]
               ELSE IF newest - oldest >= MAX_CATCHUP_TICKS
                 THEN [from |-> newest, to |-> newest, skipped |-> trailing - 1]
               ELSE [from |-> oldest, to |-> oldest, skipped |-> oldest - cursor - 1]
        ELSE IF trailing <= 1
          THEN [from |-> cursor + trailing, to |-> cursor + trailing, skipped |-> 0]
        ELSE IF trailing > MAX_CATCHUP_TICKS
          THEN [from |-> newest, to |-> newest, skipped |-> trailing - 1]
        ELSE [from |-> cursor + 1, to |-> cursor + 2, skipped |-> 0]

\* The ledger: a tick past the old cursor was heard if the histories still hold it, and
\* hearing the old one again is a repeat of the slot at `at`.
Entry(book, cursor, step, ticks, at) ==
    [first |-> book.first,
     heard |-> book.heard + (IF step.from > cursor /\ IsHeld(step.from, ticks)
                               THEN step.to - step.from + 1 ELSE 0),
     skipped |-> book.skipped + step.skipped,
     again |-> IF step.to = cursor /\ cursor > 0 THEN at ELSE book.again]

\* render_output for the next slot of l: advance the clock, move the cursor.
Render(l) ==
    /\ pumps[l].due # <<>>
    /\ LET at == Head(pumps[l].due)
           ticks == tick_count + TicksToRun(at)
           newest == NewestAt(at, ClockAfter(at), ticks)
           first == listener_ticks[l] = None
           cursor == IF first THEN newest ELSE listener_ticks[l]
           step == ListenerStep(cursor, newest, ticks)
           book == IF first THEN Book0(newest) ELSE Entry(books[l], cursor, step, ticks, at)
       IN  /\ clock' = ClockAfter(at)
           /\ tick_count' = ticks
           /\ inputs' = [p \in DOMAIN inputs |-> PopTicks(inputs[p], TicksToRun(at))]
           /\ listener_ticks' = [listener_ticks EXCEPT ![l] = step.to]
           /\ books' = [books EXCEPT ![l] = book]
           /\ resync_at' = IF Resyncs(at) THEN at ELSE resync_at
    /\ pumps' = [pumps EXCEPT ![l].due = Tail(@)]
    /\ UNCHANGED <<now, scope>>

(***************************************************************************)
(* The outbound loop of a listener (pacer.rs).                             *)
(***************************************************************************)
\* The connection is up: the loop anchors its slots here.
PumpStarts(l) ==
    /\ l \in scope.listeners /\ pumps[l].st = "off"
    /\ pumps' = [pumps EXCEPT ![l] = [st |-> "on", anchor |-> now, written |-> 0, due |-> <<>>]]
    /\ UNCHANGED <<mixVars, now, scope>>

\* due_slots: every slot that has come, and of a longer stall only the latest ones.
DueSlots_All(pump, at) ==
    LET elapsed == (at - pump.anchor) \div Tick
        from == pump.written
    IN  [st |-> pump.st, anchor |-> pump.anchor, written |-> elapsed,
         due |-> [i \in 1 .. elapsed - from |-> pump.anchor + Tick * (from + i)]]
DueSlots(pump, at) ==
    LET elapsed == (at - pump.anchor) \div Tick
        from == IF elapsed - pump.written > MAX_BURST_WRITES
                  THEN elapsed - MAX_BURST_WRITES ELSE pump.written
    IN  [st |-> pump.st, anchor |-> pump.anchor, written |-> elapsed,
         due |-> [i \in 1 .. elapsed - from |-> pump.anchor + Tick * (from + i)]]

Wake(l) ==
    /\ pumps[l].st = "on" /\ pumps[l].due = <<>>
    /\ now >= pumps[l].anchor + Tick * (pumps[l].written + 1)
    /\ pumps' = [pumps EXCEPT ![l] = DueSlots(@, now)]
    /\ UNCHANGED <<mixVars, now, scope>>

\* The connection is down or a write failed; nobody starts the loop again.
PumpEnds(l) ==
    /\ pumps[l].st = "on" /\ scope.leaves > 0
    /\ pumps' = [pumps EXCEPT ![l] = [Off EXCEPT !.st = "ended"]]
    /\ UNCHANGED <<mixVars, now, scope>>

(***************************************************************************)
(* The talkers and the room.                                               *)
(***************************************************************************)
\* push_frame: the first one starts the clock, and a push makes the slot if there is none.
PushFrame(p, target) ==
    /\ p \in scope.talkers
    /\ LET known == p \in DOMAIN inputs
           slot == IF known THEN inputs[p] ELSE Slot0
       IN  /\ slot.queue.pushed < scope.pushes
           /\ inputs' = [q \in DOMAIN inputs \union {p} |->
                            IF q = p THEN [slot EXCEPT !.queue = Push(@, now, target)]
                            ELSE inputs[q]]
    /\ clock' = IF clock = None THEN now ELSE clock
    /\ UNCHANGED <<tick_count, listener_ticks, resync_at, books, now, pumps, scope>>

\* add_input, when a participant joins before its audio does.
AddInput(p) ==
    /\ p \in scope.talkers /\ p \notin DOMAIN inputs
    /\ inputs' = [q \in DOMAIN inputs \union {p} |-> IF q = p THEN Slot0 ELSE inputs[q]]
    /\ UNCHANGED <<clock, tick_count, listener_ticks, resync_at, books, now, pumps, scope>>

\* Participant::shutdown: the loop is aborted, then remove_input forgets slot and cursor.
Leave(p) ==
    /\ pumps[p].st \in {"on", "ended"} /\ scope.leaves > 0
    /\ scope' = [scope EXCEPT !.leaves = @ - 1]
    /\ pumps' = [pumps EXCEPT ![p].st = "aborted"]
    /\ inputs' = [q \in DOMAIN inputs \ {p} |-> inputs[q]]
    /\ listener_ticks' = [listener_ticks EXCEPT ![p] = None]
    /\ UNCHANGED <<clock, tick_count, resync_at, books, now>>

\* An abort takes effect where the loop next waits; until then it goes on rendering.
AbortTakesEffect(l) ==
    /\ pumps[l].st = "aborted"
    /\ pumps' = [pumps EXCEPT ![l] = Off]
    /\ UNCHANGED <<mixVars, now, scope>>

Next ==
    \/ Elapse
    \/ \E p \in Participants :
         \/ PumpStarts(p) \/ Wake(p) \/ Render(p) \/ PumpEnds(p)
         \/ AddInput(p) \/ Leave(p) \/ AbortTakesEffect(p)
         \/ \E target \in Targets : PushFrame(p, target)

Spec == Init /\ [][Next]_vars

-------------------------------------------------------------------------------
\* Types and limits (graph.rs, elastic.rs, pacer.rs): a queue holds at most its capacity,
\* a history its ticks, and an outbound loop writes at most one burst at a time.
TypeOK ==
    /\ now \in Nat /\ tick_count \in Nat
    /\ clock \in Nat \union {None} /\ resync_at \in Nat \union {None}
    /\ listener_ticks \in [Participants -> Nat \union {None}]
    /\ \A p \in DOMAIN inputs :
         /\ Len(inputs[p].queue.frames) <= QUEUE_CAPACITY
         /\ inputs[p].queue.target \in Targets
         /\ Len(inputs[p].history) <= HISTORY_TICKS
    /\ \A l \in Participants :
         /\ pumps[l].st \in {"off", "on", "ended", "aborted"}
         /\ Len(pumps[l].due) <= MAX_BURST_WRITES
         /\ books[l].heard \in Nat /\ books[l].skipped \in Nat

\* graph.rs "a frame is never merged or skipped uncounted": every tick a listener's
\* cursor has passed was in the history when the listener played it, or is counted as
\* skipped, however late or early its slots were rendered; and the cursor is never past
\* the clock, from which its lag is subtracted.
EveryTickAccounted ==
    \A l \in Participants : listener_ticks[l] # None =>
        /\ listener_ticks[l] <= tick_count
        /\ listener_ticks[l] = books[l].first + books[l].heard + books[l].skipped

\* next_listener_step: bursts and renders out of order never make a listener play a tick
\* twice, except for a slot that lies before the place the clock was resynced to.
OncePerTick ==
    \A l \in Participants : books[l].again # None =>
        resync_at # None /\ books[l].again < resync_at

\* What a source played lately and still holds, oldest first.
Flow(slot) == slot.history \o slot.queue.frames
Earliest(f) == CHOOSE k \in f : \A j \in f : k <= j
Latest(f) == CHOOSE k \in f : \A j \in f : k >= j

\* After the i-th comes, silences apart, the frame that follows it, or it is the last.
Succeeds(flow, i, last) ==
    \/ Latest(flow[i]) = last /\ \A j \in i + 1 .. Len(flow) : flow[j] = Silence
    \/ \E j \in i + 1 .. Len(flow) :
         /\ flow[j] # Silence /\ Earliest(flow[j]) = Latest(flow[i]) + 1
         /\ \A k \in i + 1 .. j - 1 : flow[k] = Silence

\* elastic.rs "Accounting invariant": pushed = played + compressed + overflow_compressed
\* + depth; and no frame is lost, doubled or overtaken by a merge, an overflow, an underrun
\* or a new prefill: what a source plays and holds is every frame up to the latest, in order.
FramesConserved ==
    \A p \in DOMAIN inputs :
        LET q == inputs[p].queue
            flow == Flow(inputs[p])
        IN  /\ q.pushed = q.played + q.compressed + q.overflow_compressed + Len(q.frames)
            /\ \A i \in 1 .. Len(flow) : flow[i] # Silence =>
                 /\ Cardinality(flow[i]) = Latest(flow[i]) - Earliest(flow[i]) + 1
                 /\ Succeeds(flow, i, q.pushed)

=============================================================================
