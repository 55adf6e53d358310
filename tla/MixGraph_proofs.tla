--------------------------- MODULE MixGraph_proofs ---------------------------
(***************************************************************************)
(* What holds of the shared mix for any number of participants, any rate   *)
(* of ticks, any catch-up, capacity and history.                           *)
(* The ledger of a listener: the argument is about one render. Where the   *)
(* cursor was, no tick it may still play is older than the history unless  *)
(* the step says so, and then the step counts every tick up to the one it  *)
(* plays; the cursor itself is at most the newest tick of the slot, which  *)
(* is at most the clock's.                                                 *)
(* The frames of a source: a queue holds consecutive spans up to the       *)
(* latest pushed, and the history ends where the queue begins; one tick    *)
(* keeps both, and any number of ticks by induction.                       *)
(* Once per tick: see the last section but one.                            *)
(***************************************************************************)
EXTENDS MixGraph, LoopLemmas, FiniteSetTheorems, TLAPS

Books == [first : Nat, heard : Nat, skipped : Nat, again : Int]
Pumps == [st : {"off", "on", "ended", "aborted"}, anchor : Int, written : Int, due : Seq(Int)]

Typed ==
    /\ now \in Int /\ clock \in Int /\ tick_count \in Nat
    /\ listener_ticks \in [Participants -> Nat \union {None}]
    /\ books \in [Participants -> Books]
    /\ pumps \in [Participants -> Pumps]

AccountInv == Typed /\ EveryTickAccounted

-----------------------------------------------------------------------------
(* Operators *)

LEMMA Constant == Tick \in Nat /\ Tick > 0 /\ MAX_CATCHUP_TICKS \in Nat /\ MAX_CATCHUP_TICKS > 0
                  /\ HISTORY_TICKS \in Nat /\ HISTORY_TICKS > MAX_CATCHUP_TICKS + 1
BY MixAssumption DEF HISTORY_TICKS

LEMMA DivNat == \A d \in Nat : d \div Tick \in Nat
BY Constant

\* The clock never loses a tick.
LEMMA RunsForward ==
    ASSUME clock \in Int, NEW at \in Int
    PROVE  TicksToRun(at) \in Nat /\ ClockAfter(at) \in Int
<1>1. Elapsed(at) \in Nat
  <2>1. CASE clock # None /\ at > clock
    <3>1. at - clock \in Nat  BY <2>1
    <3>2. (at - clock) \div Tick \in Nat  BY <3>1, DivNat
    <3>. QED  BY <2>1, <3>2 DEF Elapsed
  <2>2. CASE ~(clock # None /\ at > clock)
    BY <2>2 DEF Elapsed
  <2>. QED  BY <2>1, <2>2
<1>2. Tick * Elapsed(at) \in Nat  BY <1>1, Constant
<1>. QED  BY <1>1, <1>2 DEF TicksToRun, ClockAfter

\* A slot hears no tick newer than the clock's.
LEMMA NewestBounded ==
    ASSUME NEW at \in Int, NEW clk \in Int, NEW ticks \in Nat
    PROVE  NewestAt(at, clk, ticks) \in 0 .. ticks
<1>1. CASE at < clk
  <2>1. clk - at + Tick - 1 \in Nat  BY <1>1, Constant
  <2>2. CeilTicks(clk - at) \in Nat  BY <2>1, DivNat DEF CeilTicks
  <2>. QED  BY <1>1, <2>2 DEF NewestAt
<1>2. CASE ~(at < clk)
  BY <1>2 DEF NewestAt
<1>. QED  BY <1>1, <1>2

\* One step of a listener: where the cursor goes, and that each tick passed is played
\* from the history or counted.
LEMMA StepAccounts ==
    ASSUME NEW cursor \in Nat, NEW ticks \in Nat, NEW newest \in 0 .. ticks, cursor <= ticks,
           NEW step, step = ListenerStep(cursor, newest, ticks)
    PROVE  /\ step.from \in Nat /\ step.to \in Nat /\ step.skipped \in Nat
           /\ step.to <= ticks
           /\ \/ step.from > cursor /\ IsHeld(step.from, ticks)
                 /\ step.to - step.from + 1 \in Nat
                 /\ step.to - cursor = step.skipped + step.to - step.from + 1
              \/ /\ ~(step.from > cursor /\ IsHeld(step.from, ticks))
                 /\ step.to - cursor = step.skipped
<1>. DEFINE trailing == IF newest > cursor THEN newest - cursor ELSE 0
            oldest == OldestHeld(ticks)
<1>1. oldest \in Nat /\ (\A t \in Nat : t >= oldest <=> IsHeld(t, ticks))
  BY Constant DEF OldestHeld, IsHeld
<1>. HIDE DEF oldest
<1>2. CASE trailing > 0 /\ cursor + 1 < oldest
  <2>1. CASE newest < oldest
    <3>1. step = [from |-> newest, to |-> newest, skipped |-> trailing]
      BY <1>2, <2>1 DEF ListenerStep, oldest
    <3>. QED  BY <1>1, <1>2, <2>1, <3>1
  <2>2. CASE newest >= oldest /\ newest - oldest >= MAX_CATCHUP_TICKS
    <3>1. step = [from |-> newest, to |-> newest, skipped |-> trailing - 1]
      BY <1>1, <1>2, <2>2 DEF ListenerStep, oldest
    <3>. QED  BY <1>1, <1>2, <2>2, <3>1
  <2>3. CASE newest >= oldest /\ newest - oldest < MAX_CATCHUP_TICKS
    <3>1. step = [from |-> oldest, to |-> oldest, skipped |-> oldest - cursor - 1]
      BY <1>1, <1>2, <2>3, Constant DEF ListenerStep, oldest
    <3>. QED  BY <1>1, <1>2, <2>3, <3>1
  <2>. QED  BY <1>1, <2>1, <2>2, <2>3, Constant
<1>3. CASE ~(trailing > 0 /\ cursor + 1 < oldest)
  <2>1. CASE trailing <= 1
    <3>1. step = [from |-> cursor + trailing, to |-> cursor + trailing, skipped |-> 0]
      BY <1>3, <2>1 DEF ListenerStep, oldest
    <3>. QED  BY <1>1, <1>3, <2>1, <3>1
  <2>2. CASE trailing > 1 /\ trailing > MAX_CATCHUP_TICKS
    <3>1. step = [from |-> newest, to |-> newest, skipped |-> trailing - 1]
      BY <1>3, <2>2 DEF ListenerStep, oldest
    <3>. QED  BY <1>1, <1>3, <2>2, <3>1
  <2>3. CASE trailing > 1 /\ ~(trailing > MAX_CATCHUP_TICKS)
    <3>1. step = [from |-> cursor + 1, to |-> cursor + 2, skipped |-> 0]
      BY <1>3, <2>3 DEF ListenerStep, oldest
    <3>. QED  BY <1>1, <1>3, <2>3, <3>1
  <2>. QED  BY <2>1, <2>2, <2>3, Constant
<1>. QED  BY <1>2, <1>3

\* A loop that wakes takes the slots since its last one.
LEMMA WakeTyped ==
    ASSUME NEW pump \in Pumps, NEW t \in Int, t >= pump.anchor + Tick * (pump.written + 1)
    PROVE  DueSlots(pump, t) \in Pumps
<1>. DEFINE elapsed == (t - pump.anchor) \div Tick
            from == IF elapsed - pump.written > MAX_BURST_WRITES
                      THEN elapsed - MAX_BURST_WRITES ELSE pump.written
            due == [i \in 1 .. elapsed - from |-> pump.anchor + Tick * (from + i)]
<1>1. /\ pump.anchor \in Int /\ pump.written \in Int /\ MAX_BURST_WRITES \in Nat
      /\ Tick \in Nat /\ Tick > 0
  BY Constant, MixAssumption DEF Pumps
<1>2. elapsed \in Int /\ elapsed >= pump.written + 1
  <2>. DEFINE d == t - pump.anchor
              w == pump.written + 1
  <2>1. d \in Int /\ w \in Int /\ d >= Tick * w  BY <1>1
  <2>. HIDE DEF d, w
  <2>2. d \div Tick \in Int /\ d \div Tick >= w  BY <2>1, <1>1
  <2>. QED  BY <2>2 DEF d, w
<1>. HIDE DEF elapsed
<1>3. from \in Int /\ elapsed - from \in Nat  BY <1>1, <1>2
<1>. HIDE DEF from
<1>4. due \in Seq(Int)
  <2>1. \A i \in 1 .. elapsed - from : pump.anchor + Tick * (from + i) \in Int
    BY <1>1, <1>3
  <2>. QED  BY <2>1, <1>3
<1>. HIDE DEF due
<1>5. DueSlots(pump, t)
          = [st |-> pump.st, anchor |-> pump.anchor, written |-> elapsed, due |-> due]
  BY DEF DueSlots, elapsed, from, due
<1>. QED  BY <1>2, <1>4, <1>5 DEF Pumps

-----------------------------------------------------------------------------
(* Invariance *)

LEMMA InitAccount == Init => AccountInv
<1>. SUFFICES ASSUME Init PROVE AccountInv  OBVIOUS
<1>1. Off \in Pumps  BY DEF Off, Pumps
<1>2. Book0(0) \in Books  BY DEF Book0, Books, None
<1>3. Typed  BY <1>1, <1>2 DEF Init, Typed, None
<1>4. EveryTickAccounted  BY DEF Init, EveryTickAccounted, None
<1>. QED  BY <1>3, <1>4 DEF AccountInv

\* The one step that moves a cursor.
LEMMA RenderAccounts ==
    ASSUME AccountInv, NEW l \in Participants, Render(l)
    PROVE  AccountInv'
<1>. DEFINE at == Head(pumps[l].due)
            ticks == tick_count + TicksToRun(at)
            newest == NewestAt(at, ClockAfter(at), ticks)
            first == listener_ticks[l] = None
            cursor == IF first THEN newest ELSE listener_ticks[l]
            step == ListenerStep(cursor, newest, ticks)
            book == IF first THEN Book0(newest) ELSE Entry(books[l], cursor, step, ticks, at)
<1>. USE DEF AccountInv
<1>1. at \in Int /\ Tail(pumps[l].due) \in Seq(Int)
  BY DEF Render, Typed, Pumps
<1>2. /\ clock' = ClockAfter(at) /\ tick_count' = ticks
      /\ listener_ticks' = [listener_ticks EXCEPT ![l] = step.to]
      /\ books' = [books EXCEPT ![l] = book]
      /\ pumps' = [pumps EXCEPT ![l].due = Tail(@)]
      /\ now' = now
  BY DEF Render
<1>3. ticks \in Nat /\ ticks >= tick_count /\ ClockAfter(at) \in Int
  <2>1. clock \in Int /\ tick_count \in Nat  BY DEF Typed
  <2>. HIDE DEF at, AccountInv
  <2>2. TicksToRun(at) \in Nat /\ ClockAfter(at) \in Int  BY <1>1, <2>1, RunsForward
  <2>. QED  BY <2>1, <2>2
<1>4. newest \in 0 .. ticks
  BY <1>1, <1>3, NewestBounded
<1>5. cursor \in Nat /\ cursor <= ticks
  <2>1. CASE first  BY <2>1, <1>3, <1>4
  <2>2. CASE ~first
    BY <2>2, <1>3 DEF Typed, EveryTickAccounted
  <2>. QED  BY <2>1, <2>2
<1>. HIDE DEF at, ticks, newest, cursor, first
<1>6. /\ step.from \in Nat /\ step.to \in Nat /\ step.skipped \in Nat
      /\ step.to <= ticks
      /\ \/ step.from > cursor /\ IsHeld(step.from, ticks)
            /\ step.to - step.from + 1 \in Nat
            /\ step.to - cursor = step.skipped + step.to - step.from + 1
         \/ /\ ~(step.from > cursor /\ IsHeld(step.from, ticks))
            /\ step.to - cursor = step.skipped
  BY <1>3, <1>4, <1>5, StepAccounts
<1>. HIDE DEF step
<1>7. book \in Books /\ step.to = book.first + book.heard + book.skipped
  <2>1. CASE first
    <3>1. cursor = newest /\ book = Book0(newest)  BY <2>1 DEF cursor
    <3>2. step.to = newest
      BY <3>1, <1>3, <1>4, Constant DEF step, ListenerStep, OldestHeld
    <3>. QED  BY <3>1, <3>2, <1>4 DEF Book0, Books, None
  <2>2. CASE ~first
    <3>1. cursor = listener_ticks[l] /\ book = Entry(books[l], cursor, step, ticks, at)
      BY <2>2 DEF cursor
    <3>2. /\ books[l] \in Books
          /\ cursor = books[l].first + books[l].heard + books[l].skipped
      BY <2>2, <3>1 DEF Typed, EveryTickAccounted, first
    <3>3. /\ books[l].first \in Nat /\ books[l].heard \in Nat /\ books[l].skipped \in Nat
          /\ books[l].again \in Int
      BY <3>2 DEF Books
    <3>. DEFINE again == IF step.to = cursor /\ cursor > 0 THEN at ELSE books[l].again
                played == IF step.from > cursor /\ IsHeld(step.from, ticks)
                            THEN step.to - step.from + 1 ELSE 0
    <3>4. again \in Int  BY <1>1, <3>3
    <3>5. played \in Nat /\ step.to - cursor = step.skipped + played
      BY <1>5, <1>6
    <3>6. book = [first |-> books[l].first, heard |-> books[l].heard + played,
                  skipped |-> books[l].skipped + step.skipped, again |-> again]
      BY <3>1 DEF Entry
    <3>. HIDE DEF book, again, played
    <3>7. book \in Books
      BY <1>6, <3>3, <3>4, <3>5, <3>6 DEF Books
    <3>8. step.to = book.first + book.heard + book.skipped
      BY <1>5, <1>6, <3>2, <3>3, <3>5, <3>6
    <3>. QED  BY <3>7, <3>8
  <2>. QED  BY <2>1, <2>2
<1>. HIDE DEF book
<1>8. Typed'
  BY <1>1, <1>2, <1>3, <1>6, <1>7 DEF Typed, Pumps
<1>9. EveryTickAccounted'
  <2>. SUFFICES ASSUME NEW m \in Participants, listener_ticks'[m] # None
                PROVE  /\ listener_ticks'[m] <= tick_count'
                       /\ listener_ticks'[m] = books'[m].first + books'[m].heard + books'[m].skipped
    BY DEF EveryTickAccounted
  <2>1. CASE m = l
    BY <2>1, <1>2, <1>6, <1>7 DEF Typed
  <2>2. CASE m # l
    <3>1. listener_ticks'[m] = listener_ticks[m] /\ books'[m] = books[m]
      BY <2>2, <1>2 DEF Typed
    <3>2. listener_ticks[m] \in Nat  BY <3>1 DEF Typed
    <3>. QED  BY <3>1, <3>2, <1>2, <1>3 DEF EveryTickAccounted, Typed
  <2>. QED  BY <2>1, <2>2
<1>. QED  BY <1>8, <1>9

LEMMA NextAccounts == AccountInv /\ [Next]_vars => AccountInv'
<1>. SUFFICES ASSUME AccountInv, [Next]_vars PROVE AccountInv'  OBVIOUS
<1>. USE DEF AccountInv
<1>1. CASE Elapse
  BY <1>1 DEF Elapse, mixVars, Typed, EveryTickAccounted
<1>2. ASSUME NEW p \in Participants, PumpStarts(p) PROVE AccountInv'
  <2>1. [st |-> "on", anchor |-> now, written |-> 0, due |-> <<>>] \in Pumps
    BY DEF Pumps, Typed
  <2>. QED  BY <1>2, <2>1 DEF PumpStarts, mixVars, Typed, EveryTickAccounted
<1>3. ASSUME NEW p \in Participants, Wake(p) PROVE AccountInv'
  <2>1. pumps[p] \in Pumps /\ now \in Int  BY DEF Typed
  <2>2. DueSlots(pumps[p], now) \in Pumps
    BY <1>3, <2>1, WakeTyped DEF Wake
  <2>. QED  BY <1>3, <2>2 DEF Wake, mixVars, Typed, EveryTickAccounted
<1>4. ASSUME NEW p \in Participants, Render(p) PROVE AccountInv'
  BY <1>4, RenderAccounts
<1>5. ASSUME NEW p \in Participants, PumpEnds(p) PROVE AccountInv'
  <2>1. Off \in Pumps  BY DEF Off, Pumps
  <2>2. [Off EXCEPT !.st = "ended"] \in Pumps  BY <2>1 DEF Pumps
  <2>. QED  BY <1>5, <2>2 DEF PumpEnds, mixVars, Typed, EveryTickAccounted
<1>6. ASSUME NEW p \in Participants, AddInput(p) PROVE AccountInv'
  BY <1>6 DEF AddInput, Typed, EveryTickAccounted
<1>7. ASSUME NEW p \in Participants, Leave(p) PROVE AccountInv'
  <2>1. [pumps[p] EXCEPT !.st = "aborted"] \in Pumps
    BY DEF Typed, Pumps
  <2>2. Typed'
    BY <1>7, <2>1 DEF Leave, Typed
  <2>3. \A m \in Participants : listener_ticks'[m] # None => listener_ticks'[m] = listener_ticks[m]
    BY <1>7 DEF Leave, Typed
  <2>. QED  BY <1>7, <2>2, <2>3 DEF Leave, EveryTickAccounted
<1>8. ASSUME NEW p \in Participants, AbortTakesEffect(p) PROVE AccountInv'
  <2>1. Off \in Pumps  BY DEF Off, Pumps
  <2>. QED  BY <1>8, <2>1 DEF AbortTakesEffect, mixVars, Typed, EveryTickAccounted
<1>9. ASSUME NEW p \in Participants, NEW target \in Targets, PushFrame(p, target) PROVE AccountInv'
  BY <1>9 DEF PushFrame, Typed, EveryTickAccounted
<1>10. CASE UNCHANGED vars
  BY <1>10 DEF vars, mixVars, Typed, EveryTickAccounted
<1>. QED  BY <1>1, <1>2, <1>3, <1>4, <1>5, <1>6, <1>7, <1>8, <1>9, <1>10 DEF Next

\* graph.rs "never merged or skipped uncounted": the ledger of every listener balances in
\* every reachable state, for every size of room, tick and catch-up.
THEOREM TicksAccounted == Spec => []EveryTickAccounted
<1>1. AccountInv => EveryTickAccounted  BY DEF AccountInv
<1>. QED  BY InitAccount, NextAccounts, <1>1, PTL DEF Spec

-----------------------------------------------------------------------------
(* The elastic queue: the frames that wait are the ones from the next to   *)
(* play up to the latest pushed.                                           *)

Span(f) == /\ Earliest(f) \in Nat /\ Latest(f) \in Nat /\ Earliest(f) <= Latest(f)
           /\ f = Earliest(f) .. Latest(f)

Queues ==
    [frames : Seq(SUBSET Nat), prefilling : BOOLEAN, prefill_waited : Nat, over_ticks : Nat,
     empty_ticks : Nat, last_arrival : Nat \union {None}, target : Targets,
     pushed : Nat, played : Nat, compressed : Nat, overflow_compressed : Nat, out : SUBSET Nat]

Waits(frames, pushed) ==
    \A i \in 1 .. Len(frames) :
        /\ Span(frames[i])
        /\ Latest(frames[i]) + 1 = IF i = Len(frames) THEN pushed + 1 ELSE Earliest(frames[i + 1])
NextFrame(q) == IF q.frames = <<>> THEN q.pushed + 1 ELSE Earliest(q.frames[1])

Balances(pushed, played, compressed, overflow, depth) ==
    pushed = played + compressed + overflow + depth

QueueOk(q) ==
    /\ q \in Queues /\ Len(q.frames) <= QUEUE_CAPACITY
    /\ Balances(q.pushed, q.played, q.compressed, q.overflow_compressed, Len(q.frames))
    /\ Waits(q.frames, q.pushed)

\* A frame pushed, merged with the next, or played, alone or with the next.
LEMMA CountsMove ==
    ASSUME NEW played \in Nat, NEW c \in Nat, NEW o \in Nat, NEW n \in Nat,
           NEW pushed, Balances(pushed, played, c, o, n)
    PROVE  /\ Balances(pushed + 1, played, c, o, n + 1)
           /\ n >= 1 => Balances(pushed, played + 1, c, o, n - 1)
           /\ n >= 2 => Balances(pushed, played, c, o + 1, n - 1)
           /\ n >= 2 => Balances(pushed, played + 1, c + 1, o, n - 2)
BY DEF Balances

\* Where a frame begins and ends.
LEMMA SpanMeans ==
    ASSUME NEW a \in Nat, NEW b \in Nat, a <= b
    PROVE  /\ Earliest(a .. b) = a /\ Latest(a .. b) = b /\ Span(a .. b)
           /\ a .. b # Silence /\ a .. b \in SUBSET Nat
<1>1. Earliest(a .. b) = a  BY DEF Earliest
<1>2. Latest(a .. b) = b  BY DEF Latest
<1>. QED  BY <1>1, <1>2 DEF Span, Silence

LEMMA SingleMeans ==
    ASSUME NEW k \in Nat
    PROVE  Span({k}) /\ Earliest({k}) = k /\ Latest({k}) = k /\ {k} # Silence /\ {k} \in SUBSET Nat
<1>1. {k} = k .. k  OBVIOUS
<1>2. /\ Span(k .. k) /\ Earliest(k .. k) = k /\ Latest(k .. k) = k
      /\ k .. k # Silence /\ k .. k \in SUBSET Nat
  <2>1. k <= k  OBVIOUS
  <2>. QED  BY <2>1, SpanMeans
<1>. QED  BY <1>1, <1>2

\* Two frames in a row become one.
LEMMA MergeMeans ==
    ASSUME NEW f, NEW g, Span(f), Span(g), Latest(f) + 1 = Earliest(g)
    PROVE  /\ Span(MergePair(f, g))
           /\ Earliest(MergePair(f, g)) = Earliest(f) /\ Latest(MergePair(f, g)) = Latest(g)
<1>1. MergePair(f, g) = Earliest(f) .. Latest(g)
  BY DEF Span, MergePair
<1>. QED  BY <1>1, SpanMeans DEF Span

LEMMA JitterKeeps ==
    ASSUME NEW q, QueueOk(q), NEW t \in Nat, NEW target \in Targets
    PROVE  /\ QueueOk(UpdateJitter(q, t, target))
           /\ UpdateJitter(q, t, target).frames = q.frames
           /\ UpdateJitter(q, t, target).pushed = q.pushed
<1>1. UpdateJitter(q, t, target) \in Queues
  BY DEF QueueOk, Queues, UpdateJitter
<1>. QED  BY <1>1 DEF QueueOk, Queues, UpdateJitter

\* At capacity the merge of the two oldest makes room and loses nothing.
LEMMA RoomMade ==
    ASSUME NEW q, QueueOk(q)
    PROVE  /\ QueueOk(MakeRoom(q)) /\ Len(MakeRoom(q).frames) < QUEUE_CAPACITY
           /\ MakeRoom(q).pushed = q.pushed
           /\ NextFrame(MakeRoom(q)) = NextFrame(q)
<1>0. /\ q \in Queues /\ q.frames \in Seq(SUBSET Nat) /\ Len(q.frames) \in Nat /\ q.pushed \in Nat
      /\ QUEUE_CAPACITY \in Nat /\ QUEUE_CAPACITY >= 2
  BY QueueAssumption DEF QueueOk, Queues
<1>1. CASE Len(q.frames) < QUEUE_CAPACITY
  BY <1>1 DEF MakeRoom
<1>2. CASE ~(Len(q.frames) < QUEUE_CAPACITY)
  <2>. DEFINE n == Len(q.frames)
              f == MergePair(q.frames[1], q.frames[2])
              rest == SubSeq(q.frames, 3, n)
              frames == <<f>> \o rest
  <2>1. n >= 2 /\ n = QUEUE_CAPACITY /\ n \in Nat /\ 1 \in 1 .. n /\ 2 \in 1 .. n
    BY <1>0, <1>2 DEF QueueOk
  <2>2. /\ Span(q.frames[1]) /\ Span(q.frames[2])
        /\ Latest(q.frames[1]) + 1 = Earliest(q.frames[2])
        /\ Latest(q.frames[2]) + 1 = IF n = 2 THEN q.pushed + 1 ELSE Earliest(q.frames[3])
    BY <2>1 DEF QueueOk, Waits
  <2>3. Span(f) /\ Earliest(f) = Earliest(q.frames[1]) /\ Latest(f) = Latest(q.frames[2])
    BY <2>2, MergeMeans
  <2>4. f \in SUBSET Nat
    BY <2>3 DEF Span
  <2>. HIDE DEF f
  <2>5. rest \in Seq(SUBSET Nat) /\ Len(rest) = n - 2 /\ \A i \in 1 .. n - 2 : rest[i] = q.frames[i + 2]
    BY <1>0, <2>1
  <2>. HIDE DEF rest
  <2>6. /\ frames \in Seq(SUBSET Nat) /\ Len(frames) = n - 1 /\ frames[1] = f
        /\ \A i \in 2 .. n - 1 : frames[i] = q.frames[i + 1]
    BY <1>0, <2>1, <2>4, <2>5
  <2>. HIDE DEF frames
  <2>7. /\ MakeRoom(q) = [q EXCEPT !.frames = frames, !.overflow_compressed = @ + 1]
    BY <1>2 DEF MakeRoom, frames, f, rest
  <2>8. MakeRoom(q) \in Queues /\ MakeRoom(q).frames = frames /\ MakeRoom(q).pushed = q.pushed
        /\ MakeRoom(q).played = q.played /\ MakeRoom(q).compressed = q.compressed
        /\ MakeRoom(q).overflow_compressed = q.overflow_compressed + 1
    <3>1. q.overflow_compressed + 1 \in Nat
      BY <1>0 DEF Queues
    <3>2. MakeRoom(q) = [q EXCEPT !.frames = frames, !.overflow_compressed = q.overflow_compressed + 1]
      BY <1>0, <2>7 DEF Queues
    <3>. QED  BY <1>0, <2>6, <3>1, <3>2 DEF Queues
  <2>9. Waits(frames, q.pushed)
    <3>. SUFFICES ASSUME NEW i \in 1 .. n - 1
         PROVE  /\ Span(frames[i])
                /\ Latest(frames[i]) + 1 = IF i = n - 1 THEN q.pushed + 1 ELSE Earliest(frames[i + 1])
      BY <2>6 DEF Waits
    <3>1. CASE i = 1
      BY <2>1, <2>2, <2>3, <2>6, <3>1
    <3>2. CASE i # 1
      <4>1. \A j \in 1 .. n :
              /\ Span(q.frames[j])
              /\ Latest(q.frames[j]) + 1 = IF j = n THEN q.pushed + 1 ELSE Earliest(q.frames[j + 1])
        BY DEF QueueOk, Waits
      <4>2. i + 1 \in 1 .. n /\ frames[i] = q.frames[i + 1] /\ (i + 1 = n <=> i = n - 1)
        BY <2>1, <2>6, <3>2
      <4>3. i # n - 1 => frames[i + 1] = q.frames[i + 2] /\ i + 1 + 1 = i + 2
        BY <2>1, <2>6, <3>2
      <4>. QED  BY <4>1, <4>2, <4>3
    <3>. QED  BY <3>1, <3>2
  <2>10. q.frames # <<>> /\ frames # <<>>
    BY <2>1, <2>6
  <2>11. q.played \in Nat /\ q.compressed \in Nat /\ q.overflow_compressed \in Nat
    BY <1>0 DEF Queues
  <2>12. QueueOk(MakeRoom(q))
    <3>1. Balances(q.pushed, q.played, q.compressed, q.overflow_compressed, n)
      BY DEF QueueOk
    <3>2. Balances(q.pushed, q.played, q.compressed, q.overflow_compressed + 1, n - 1)
      BY <2>1, <2>11, <3>1, CountsMove
    <3>3. n - 1 <= QUEUE_CAPACITY
      BY <2>1
    <3>. QED  BY <2>6, <2>8, <2>9, <3>2, <3>3 DEF QueueOk
  <2>13. NextFrame(MakeRoom(q)) = NextFrame(q)
    BY <2>3, <2>6, <2>8, <2>10 DEF NextFrame
  <2>. QED  BY <1>0, <2>1, <2>6, <2>8, <2>12, <2>13
<1>. QED  BY <1>1, <1>2

LEMMA PushKeeps ==
    ASSUME NEW q, QueueOk(q), NEW t \in Nat, NEW target \in Targets
    PROVE  QueueOk(Push(q, t, target)) /\ NextFrame(Push(q, t, target)) = NextFrame(q)
<1>. DEFINE jittered == UpdateJitter(q, t, target)
            room == MakeRoom(jittered)
            n == Len(room.frames)
            frames == Append(room.frames, {q.pushed + 1})
<1>1. QueueOk(jittered) /\ jittered.frames = q.frames /\ jittered.pushed = q.pushed
  BY JitterKeeps
<1>. HIDE DEF jittered
<1>2. /\ QueueOk(room) /\ n < QUEUE_CAPACITY /\ room.pushed = q.pushed
      /\ NextFrame(room) = NextFrame(q)
  BY <1>1, RoomMade DEF NextFrame
<1>. HIDE DEF room
<1>3. /\ room \in Queues /\ room.frames \in Seq(SUBSET Nat) /\ n \in Nat /\ q.pushed \in Nat
      /\ room.played \in Nat /\ room.compressed \in Nat /\ room.overflow_compressed \in Nat
      /\ QUEUE_CAPACITY \in Nat
  <2>1. room \in Queues
    BY <1>2 DEF QueueOk
  <2>2. /\ room.frames \in Seq(SUBSET Nat) /\ room.pushed \in Nat
        /\ room.played \in Nat /\ room.compressed \in Nat /\ room.overflow_compressed \in Nat
    BY <2>1 DEF Queues
  <2>. QED  BY <1>2, <2>1, <2>2, QueueAssumption
<1>4. Push(q, t, target) = [room EXCEPT !.frames = frames, !.pushed = q.pushed + 1]
  BY <1>2 DEF Push, room, jittered
<1>6. /\ Span({q.pushed + 1}) /\ Earliest({q.pushed + 1}) = q.pushed + 1
      /\ Latest({q.pushed + 1}) = q.pushed + 1 /\ {q.pushed + 1} \in SUBSET Nat
  <2>1. q.pushed + 1 \in Nat
    BY <1>3
  <2>. QED  BY <2>1, SingleMeans
<1>7. /\ frames \in Seq(SUBSET Nat) /\ Len(frames) = n + 1 /\ frames[n + 1] = {q.pushed + 1}
      /\ \A i \in 1 .. n : frames[i] = room.frames[i]
  BY <1>3, <1>6
<1>. HIDE DEF frames
<1>8. /\ Push(q, t, target) \in Queues
      /\ Push(q, t, target).frames = frames /\ Push(q, t, target).pushed = q.pushed + 1
      /\ Push(q, t, target).played = room.played /\ Push(q, t, target).compressed = room.compressed
      /\ Push(q, t, target).overflow_compressed = room.overflow_compressed
  <2>1. q.pushed + 1 \in Nat
    BY <1>3
  <2>. QED  BY <1>3, <1>4, <1>7, <2>1 DEF Queues
<1>9. Waits(frames, q.pushed + 1)
  <2>0. \A i \in 1 .. n :
           /\ Span(room.frames[i])
           /\ Latest(room.frames[i]) + 1 = IF i = n THEN q.pushed + 1 ELSE Earliest(room.frames[i + 1])
    BY <1>2 DEF QueueOk, Waits
  <2>. SUFFICES ASSUME NEW i \in 1 .. n + 1
       PROVE  /\ Span(frames[i])
              /\ Latest(frames[i]) + 1 = IF i = n + 1 THEN q.pushed + 1 + 1 ELSE Earliest(frames[i + 1])
    BY <1>7 DEF Waits
  <2>1. CASE i = n + 1
    BY <1>3, <1>6, <1>7, <2>1
  <2>2. CASE i = n
    <3>1. i \in 1 .. n /\ i + 1 = n + 1 /\ i # n + 1 /\ frames[i] = room.frames[i]
      BY <1>3, <1>7, <2>2
    <3>2. Span(frames[i]) /\ Latest(frames[i]) + 1 = q.pushed + 1
      BY <2>0, <2>2, <3>1
    <3>3. Earliest(frames[i + 1]) = q.pushed + 1
      BY <1>6, <1>7, <3>1
    <3>. QED  BY <3>1, <3>2, <3>3
  <2>3. CASE i < n
    <3>1. i \in 1 .. n /\ i + 1 \in 1 .. n /\ i # n
      BY <1>3, <2>3
    <3>. QED  BY <1>3, <1>7, <2>0, <3>1
  <2>. QED  BY <1>3, <2>1, <2>2, <2>3
<1>10. frames # <<>> /\ Earliest(frames[1]) = NextFrame(room)
  <2>1. CASE n = 0
    <3>1. room.frames = <<>> /\ frames[1] = {q.pushed + 1} /\ Len(frames) = 1
      BY <1>3, <1>7, <2>1
    <3>2. NextFrame(room) = q.pushed + 1
      BY <1>2, <3>1 DEF NextFrame
    <3>3. frames # <<>>
      BY <1>3, <1>7
    <3>. QED  BY <1>6, <3>1, <3>2, <3>3
  <2>2. CASE n # 0
    BY <1>3, <1>7, <2>2 DEF NextFrame
  <2>. QED  BY <2>1, <2>2
<1>11. NextFrame(Push(q, t, target)) = NextFrame(q)
  BY <1>2, <1>8, <1>10 DEF NextFrame
<1>12. QueueOk(Push(q, t, target))
  <2>1. Balances(q.pushed, room.played, room.compressed, room.overflow_compressed, n)
    BY <1>2 DEF QueueOk
  <2>2. Balances(q.pushed + 1, room.played, room.compressed, room.overflow_compressed, n + 1)
    BY <1>3, <2>1, CountsMove
  <2>3. n + 1 <= QUEUE_CAPACITY
    BY <1>2, <1>3
  <2>. QED  BY <1>7, <1>8, <1>9, <2>2, <2>3 DEF QueueOk
<1>. QED  BY <1>11, <1>12

\* The head plays, or the two oldest as one.
LEMMA PopFrameKeeps ==
    ASSUME NEW q, QueueOk(q), q.frames # <<>>
    PROVE  LET r == PopFrame(q)
           IN  /\ QueueOk(r) /\ Span(r.out)
               /\ Earliest(r.out) = NextFrame(q) /\ NextFrame(r) = Latest(r.out) + 1
<1>. DEFINE n == Len(q.frames)
            r == PopFrame(q)
            over == IF n > q.target + SHRINK_MARGIN_FRAMES THEN q.over_ticks + 1 ELSE 0
            slim == over >= SHRINK_AFTER_TICKS /\ n > 1
            taken == IF slim THEN 2 ELSE 1
            out == IF slim THEN MergePair(q.frames[1], q.frames[2]) ELSE Head(q.frames)
            frames == SubSeq(q.frames, taken + 1, n)
<1>1. /\ q \in Queues /\ q.frames \in Seq(SUBSET Nat) /\ n \in Nat \ {0} /\ q.pushed \in Nat
      /\ q.played \in Nat /\ q.compressed \in Nat /\ q.overflow_compressed \in Nat /\ q.over_ticks \in Nat
      /\ n <= QUEUE_CAPACITY /\ QUEUE_CAPACITY \in Nat
      /\ NextFrame(q) = Earliest(q.frames[1])
  BY QueueAssumption DEF QueueOk, Queues, NextFrame
<1>2. \A i \in 1 .. n :
        /\ Span(q.frames[i])
        /\ Latest(q.frames[i]) + 1 = IF i = n THEN q.pushed + 1 ELSE Earliest(q.frames[i + 1])
  BY DEF QueueOk, Waits
<1>3. over \in Nat
  BY <1>1
<1>. HIDE DEF over
<1>4. taken \in 1 .. n /\ (slim <=> taken = 2)
  BY <1>1
<1>5. /\ r = [q EXCEPT !.over_ticks = over, !.empty_ticks = 0, !.out = out, !.frames = frames,
                       !.compressed = q.compressed + (taken - 1), !.played = q.played + 1]
  <2>1. CASE slim
    <3>0. taken = 2
      BY <2>1
    <3>1. frames = SubSeq(q.frames, 3, n) /\ taken - 1 = 1
      <4>. HIDE DEF taken
      <4>. QED  BY <3>0
    <3>. QED  BY <1>1, <2>1, <3>1 DEF PopFrame, Queues, over
  <2>2. CASE ~slim
    <3>0. taken = 1
      BY <2>2
    <3>1. frames = SubSeq(q.frames, 2, n) /\ taken - 1 = 0
      <4>. HIDE DEF taken
      <4>. QED  BY <3>0
    <3>. QED  BY <1>1, <2>2, <3>1 DEF PopFrame, Queues, over
  <2>. QED  BY <2>1, <2>2
<1>6. /\ Span(out) /\ Earliest(out) = Earliest(q.frames[1]) /\ Latest(out) = Latest(q.frames[taken])
  <2>1. CASE slim
    <3>0. taken = 2 /\ n > 1
      BY <2>1
    <3>1. 1 \in 1 .. n /\ 2 \in 1 .. n /\ 1 # n /\ 1 + 1 = 2
      <4>1. n \in Nat /\ n > 1
        BY <1>1, <3>0
      <4>. HIDE DEF n
      <4>. QED  BY <4>1
    <3>2. Span(q.frames[1]) /\ Span(q.frames[2]) /\ Latest(q.frames[1]) + 1 = Earliest(q.frames[2])
      BY <1>2, <3>1
    <3>. QED  BY <2>1, <3>0, <3>2, MergeMeans
  <2>2. CASE ~slim
    <3>1. 1 \in 1 .. n /\ taken = 1 /\ out = q.frames[1]
      BY <1>1, <2>2
    <3>. QED  BY <1>2, <3>1
  <2>. QED  BY <2>1, <2>2
<1>7. out \in SUBSET Nat
  BY <1>6 DEF Span
<1>. HIDE DEF slim, out
<1>8. taken \in Nat /\ taken >= 1 /\ taken <= n /\ taken <= 2
  BY <1>1, <1>4
<1>. HIDE DEF taken
<1>9. /\ frames \in Seq(SUBSET Nat) /\ Len(frames) = n - taken
      /\ \A i \in 1 .. n - taken : frames[i] = q.frames[i + taken]
  BY <1>1, <1>8
<1>. HIDE DEF frames
<1>10. /\ r \in Queues
       /\ r.frames = frames /\ r.out = out /\ r.pushed = q.pushed /\ r.played = q.played + 1
       /\ r.compressed = q.compressed + (taken - 1) /\ r.overflow_compressed = q.overflow_compressed
  <2>. DEFINE played == q.played + 1
              compressed == q.compressed + (taken - 1)
  <2>1. played \in Nat /\ compressed \in Nat
    BY <1>1, <1>8
  <2>2. r = [q EXCEPT !.over_ticks = over, !.empty_ticks = 0, !.out = out, !.frames = frames,
                      !.compressed = compressed, !.played = played]
    BY <1>5
  <2>. HIDE DEF r, played, compressed
  <2>3. /\ r \in Queues
        /\ r.frames = frames /\ r.out = out /\ r.pushed = q.pushed /\ r.played = played
        /\ r.compressed = compressed /\ r.overflow_compressed = q.overflow_compressed
    BY <1>1, <1>3, <1>7, <1>9, <2>1, <2>2 DEF Queues
  <2>. QED  BY <2>3 DEF played, compressed
<1>. HIDE DEF r
<1>11. \A i \in 1 .. n - taken :
        /\ Span(frames[i])
        /\ Latest(frames[i]) + 1 = IF i = n - taken THEN q.pushed + 1 ELSE Earliest(frames[i + 1])
  <2>. SUFFICES ASSUME NEW i \in 1 .. n - taken
       PROVE  /\ Span(frames[i])
              /\ Latest(frames[i]) + 1 = IF i = n - taken THEN q.pushed + 1 ELSE Earliest(frames[i + 1])
    OBVIOUS
  <2>1. i + taken \in 1 .. n /\ frames[i] = q.frames[i + taken] /\ (i + taken = n <=> i = n - taken)
    BY <1>1, <1>8, <1>9
  <2>2. i # n - taken => frames[i + 1] = q.frames[i + taken + 1]
    <3>1. i # n - taken => i + 1 \in 1 .. n - taken /\ (i + 1) + taken = i + taken + 1
      BY <1>1, <1>8
    <3>. QED  BY <1>9, <3>1
  <2>. QED  BY <1>2, <2>1, <2>2
<1>12. QueueOk(r)
  <2>1. Balances(q.pushed, q.played, q.compressed, q.overflow_compressed, n)
    BY DEF QueueOk
  <2>2. Balances(q.pushed, q.played + 1, q.compressed + (taken - 1), q.overflow_compressed, n - taken)
    <3>1. CASE taken = 1
      <4>1. q.compressed + (taken - 1) = q.compressed /\ n >= 1
        BY <1>1, <1>8, <3>1
      <4>2. Balances(q.pushed, q.played + 1, q.compressed, q.overflow_compressed, n - 1)
        BY <1>1, <2>1, <4>1, CountsMove
      <4>. QED  BY <3>1, <4>1, <4>2
    <3>2. CASE taken = 2
      <4>1. taken - 1 = 1 /\ n >= 2
        BY <1>8, <3>2
      <4>2. Balances(q.pushed, q.played + 1, q.compressed + 1, q.overflow_compressed, n - 2)
        BY <1>1, <2>1, <4>1, CountsMove
      <4>. QED  BY <3>2, <4>1, <4>2
    <3>. QED  BY <1>8, <3>1, <3>2
  <2>3. n - taken <= QUEUE_CAPACITY
    BY <1>1, <1>8
  <2>4. Waits(frames, q.pushed)
    BY <1>9, <1>11 DEF Waits
  <2>. QED  BY <1>9, <1>10, <2>2, <2>3, <2>4 DEF QueueOk
<1>13. NextFrame(r) = Latest(out) + 1
  <2>1. CASE taken = n
    <3>1. frames = <<>> /\ taken \in 1 .. n
      BY <1>1, <1>8, <1>9, <2>1
    <3>2. Latest(q.frames[taken]) + 1 = q.pushed + 1
      BY <1>2, <2>1, <3>1
    <3>. QED  BY <1>6, <1>10, <3>1, <3>2 DEF NextFrame
  <2>2. CASE taken # n
    <3>1. frames # <<>> /\ taken \in 1 .. n /\ 1 \in 1 .. n - taken /\ 1 + taken = taken + 1
      BY <1>1, <1>8, <1>9, <2>2
    <3>2. Latest(q.frames[taken]) + 1 = Earliest(q.frames[taken + 1])
      BY <1>2, <2>2, <3>1
    <3>3. frames[1] = q.frames[taken + 1]
      BY <1>9, <3>1
    <3>. QED  BY <1>6, <1>10, <3>1, <3>2, <3>3 DEF NextFrame
  <2>. QED  BY <2>1, <2>2
<1>14. QueueOk(r) /\ Span(r.out) /\ Earliest(r.out) = NextFrame(q) /\ NextFrame(r) = Latest(r.out) + 1
  BY <1>1, <1>6, <1>10, <1>12, <1>13
<1>. QED  BY <1>14 DEF r

\* An empty queue only counts.
LEMMA EmptyKeeps ==
    ASSUME NEW q \in Queues
    PROVE  /\ Underrun(q) \in Queues
           /\ Underrun(q).frames = q.frames /\ Underrun(q).pushed = q.pushed
           /\ Underrun(q).played = q.played /\ Underrun(q).compressed = q.compressed
           /\ Underrun(q).overflow_compressed = q.overflow_compressed
           /\ Underrun(q).out = Silence
<1>. DEFINE empty == [q EXCEPT !.over_ticks = 0, !.empty_ticks = @ + 1, !.out = Silence]
<1>1. Silence \in SUBSET Nat /\ q.empty_ticks + 1 \in Nat
  BY DEF Queues, Silence
<1>2. /\ empty \in Queues
      /\ empty.frames = q.frames /\ empty.pushed = q.pushed
      /\ empty.played = q.played /\ empty.compressed = q.compressed
      /\ empty.overflow_compressed = q.overflow_compressed /\ empty.out = Silence
  BY <1>1 DEF Queues
<1>3. Underrun(q) = empty \/ Underrun(q) = [empty EXCEPT !.prefilling = TRUE, !.prefill_waited = 0]
  BY DEF Underrun
<1>. DEFINE again == [empty EXCEPT !.prefilling = TRUE, !.prefill_waited = 0]
<1>. HIDE DEF empty
<1>4. again \in Queues
  BY <1>2 DEF Queues
<1>5. /\ again.frames = empty.frames /\ again.pushed = empty.pushed
      /\ again.played = empty.played /\ again.compressed = empty.compressed
      /\ again.overflow_compressed = empty.overflow_compressed /\ again.out = empty.out
  BY <1>2 DEF Queues
<1>. HIDE DEF again
<1>6. Underrun(q) = empty \/ Underrun(q) = again
  BY <1>3 DEF again
<1>. QED  BY <1>2, <1>4, <1>5, <1>6

\* A tick plays the next frames, or nothing.
LEMMA PopKeeps ==
    ASSUME NEW q, QueueOk(q)
    PROVE  /\ QueueOk(Pop(q))
           /\ \/ Pop(q).out = Silence /\ NextFrame(Pop(q)) = NextFrame(q)
              \/ /\ Span(Pop(q).out)
                 /\ Earliest(Pop(q).out) = NextFrame(q) /\ NextFrame(Pop(q)) = Latest(Pop(q).out) + 1
<1>. DEFINE waited == IF q.frames # <<>> THEN q.prefill_waited + 1 ELSE q.prefill_waited
            playing == [q EXCEPT !.prefilling = FALSE,
                                 !.prefill_waited = IF q.prefilling THEN 0 ELSE @]
<1>1. q \in Queues /\ waited \in Nat
  BY DEF QueueOk, Queues
<1>2. CASE q.prefilling /\ ~PrefillEnds(q, waited)
  <2>1. Pop(q) = [q EXCEPT !.prefill_waited = waited, !.out = Silence]
    BY <1>2 DEF Pop
  <2>2. /\ Pop(q) \in Queues /\ Pop(q).frames = q.frames /\ Pop(q).pushed = q.pushed
        /\ Pop(q).played = q.played /\ Pop(q).compressed = q.compressed
        /\ Pop(q).overflow_compressed = q.overflow_compressed /\ Pop(q).out = Silence
    <3>. HIDE DEF waited
    <3>. QED  BY <1>1, <2>1 DEF Queues, Silence
  <2>. QED  BY <2>2 DEF QueueOk, NextFrame
<1>3. CASE ~(q.prefilling /\ ~PrefillEnds(q, waited))
  <2>1. Pop(q) = IF q.frames = <<>> THEN Underrun(playing) ELSE PopFrame(playing)
    BY <1>3 DEF Pop
  <2>2. /\ playing \in Queues /\ playing.frames = q.frames /\ playing.pushed = q.pushed
        /\ playing.played = q.played /\ playing.compressed = q.compressed
        /\ playing.overflow_compressed = q.overflow_compressed
    BY <1>1 DEF Queues
  <2>. HIDE DEF playing
  <2>3. QueueOk(playing) /\ NextFrame(playing) = NextFrame(q)
    BY <2>2 DEF QueueOk, NextFrame
  <2>4. CASE q.frames = <<>>
    <3>1. /\ Underrun(playing) \in Queues /\ Underrun(playing).frames = playing.frames
          /\ Underrun(playing).pushed = playing.pushed /\ Underrun(playing).played = playing.played
          /\ Underrun(playing).compressed = playing.compressed /\ Underrun(playing).out = Silence
          /\ Underrun(playing).overflow_compressed = playing.overflow_compressed
      BY <2>2, EmptyKeeps
    <3>. QED  BY <2>1, <2>3, <2>4, <3>1 DEF QueueOk, NextFrame
  <2>5. CASE q.frames # <<>>
    <3>1. /\ QueueOk(PopFrame(playing)) /\ Span(PopFrame(playing).out)
          /\ Earliest(PopFrame(playing).out) = NextFrame(playing)
          /\ NextFrame(PopFrame(playing)) = Latest(PopFrame(playing).out) + 1
      BY <2>2, <2>3, <2>5, PopFrameKeeps
    <3>. QED  BY <2>1, <2>3, <2>5, <3>1
  <2>. QED  BY <2>4, <2>5
<1>. QED  BY <1>2, <1>3

-----------------------------------------------------------------------------
(* A source: what it played lately joins on to what waits. *)

\* The next sounding frame after the i-th follows it, or what waits does.
Joins(h, i, next) ==
    \/ Latest(h[i]) + 1 = next /\ \A j \in i + 1 .. Len(h) : h[j] = Silence
    \/ \E j \in i + 1 .. Len(h) :
         /\ h[j] # Silence /\ Earliest(h[j]) = Latest(h[i]) + 1
         /\ \A k \in i + 1 .. j - 1 : h[k] = Silence
Played(h, next) ==
    /\ h \in Seq(SUBSET Nat) /\ Len(h) <= HISTORY_TICKS
    /\ \A i \in 1 .. Len(h) : h[i] # Silence => Span(h[i]) /\ Joins(h, i, next)

SlotOk(slot) ==
    /\ slot = [queue |-> slot.queue, history |-> slot.history]
    /\ QueueOk(slot.queue) /\ Played(slot.history, NextFrame(slot.queue))

\* The history forgets its oldest tick.
LEMMA ForgetKeeps ==
    ASSUME NEW h, NEW next, Played(h, next), h # <<>>
    PROVE  Played(Tail(h), next)
<1>. DEFINE n == Len(h)
            t == Tail(h)
<1>1. n \in Nat \ {0} /\ t \in Seq(SUBSET Nat) /\ Len(t) = n - 1 /\ \A i \in 1 .. n - 1 : t[i] = h[i + 1]
  BY DEF Played
<1>2. n <= HISTORY_TICKS /\ HISTORY_TICKS \in Nat
  BY Constant DEF Played
<1>3. \A i \in 1 .. n : h[i] # Silence => Span(h[i]) /\ Joins(h, i, next)
  BY DEF Played
<1>. HIDE DEF t, n
<1>4. ASSUME NEW i \in 1 .. n - 1, t[i] # Silence PROVE Span(t[i]) /\ Joins(t, i, next)
  <2>1. i + 1 \in 1 .. n /\ t[i] = h[i + 1] /\ (i + 1) + 1 = i + 2
    BY <1>1
  <2>2. Span(h[i + 1]) /\ Joins(h, i + 1, next)
    BY <1>3, <1>4, <2>1
  <2>3. \A j \in i + 1 .. n - 1 : j + 1 \in i + 2 .. n /\ t[j] = h[j + 1]
    BY <1>1
  <2>4. CASE Latest(h[i + 1]) + 1 = next /\ \A j \in i + 2 .. n : h[j] = Silence
    BY <1>1, <2>1, <2>2, <2>3, <2>4 DEF Joins
  <2>5. ASSUME NEW j \in i + 2 .. n, h[j] # Silence, Earliest(h[j]) = Latest(h[i + 1]) + 1,
               \A k \in i + 2 .. j - 1 : h[k] = Silence
        PROVE  Joins(t, i, next)
    <3>1. j - 1 \in i + 1 .. n - 1 /\ t[j - 1] = h[j]
      BY <1>1, <2>5
    <3>2. \A k \in i + 1 .. (j - 1) - 1 : k + 1 \in i + 2 .. j - 1 /\ t[k] = h[k + 1]
      BY <1>1, <2>5
    <3>. QED  BY <1>1, <2>1, <2>5, <3>1, <3>2 DEF Joins
  <2>. QED  BY <2>1, <2>2, <2>4, <2>5 DEF Joins, n
<1>. QED  BY <1>1, <1>2, <1>4 DEF Played, t

\* A tick is added: a silence, or the frames that were next.
LEMMA PlayKeeps ==
    ASSUME NEW h, NEW next, Played(h, next), Len(h) < HISTORY_TICKS,
           NEW out \in SUBSET Nat, NEW then,
           \/ out = Silence /\ then = next
           \/ Span(out) /\ out # Silence /\ Earliest(out) = next /\ then = Latest(out) + 1
    PROVE  Played(Append(h, out), then)
<1>. DEFINE n == Len(h)
            t == Append(h, out)
<1>1. /\ n \in Nat /\ t \in Seq(SUBSET Nat) /\ Len(t) = n + 1 /\ t[n + 1] = out
      /\ \A i \in 1 .. n : t[i] = h[i]
  BY DEF Played
<1>2. n + 1 <= HISTORY_TICKS
  BY <1>1, Constant
<1>3. \A i \in 1 .. n : h[i] # Silence => Span(h[i]) /\ Joins(h, i, next)
  BY DEF Played
<1>. HIDE DEF t, n
<1>4. ASSUME NEW i \in 1 .. n + 1, t[i] # Silence PROVE Span(t[i]) /\ Joins(t, i, then)
  <2>1. CASE i = n + 1
    <3>1. t[i] = out /\ out # Silence /\ \A j \in i + 1 .. n + 1 : FALSE
      BY <1>1, <1>4, <2>1
    <3>. QED  BY <1>1, <3>1 DEF Joins
  <2>2. CASE i \in 1 .. n
    <3>1. t[i] = h[i] /\ Span(h[i]) /\ Joins(h, i, next)
      BY <1>1, <1>3, <1>4, <2>2
    <3>2. CASE Latest(h[i]) + 1 = next /\ \A j \in i + 1 .. n : h[j] = Silence
      <4>1. \A j \in i + 1 .. n : t[j] = Silence
        BY <1>1, <2>2, <3>2
      <4>2. CASE out = Silence
        <5>1. \A j \in i + 1 .. n + 1 : t[j] = Silence
          BY <1>1, <2>2, <4>1, <4>2
        <5>. QED  BY <1>1, <3>1, <3>2, <4>2, <5>1 DEF Joins
      <4>3. CASE out # Silence
        <5>1. n + 1 \in i + 1 .. n + 1 /\ (n + 1) - 1 = n
          BY <1>1, <2>2
        <5>. QED  BY <1>1, <3>1, <3>2, <4>1, <4>3, <5>1 DEF Joins
      <4>. QED  BY <4>2, <4>3
    <3>3. ASSUME NEW j \in i + 1 .. n, h[j] # Silence, Earliest(h[j]) = Latest(h[i]) + 1,
                 \A k \in i + 1 .. j - 1 : h[k] = Silence
          PROVE  Joins(t, i, then)
      <4>1. j \in i + 1 .. n + 1 /\ t[j] = h[j] /\ \A k \in i + 1 .. j - 1 : t[k] = h[k]
        BY <1>1, <2>2
      <4>. QED  BY <1>1, <3>1, <3>3, <4>1 DEF Joins
    <3>. QED  BY <3>1, <3>2, <3>3 DEF Joins, n
  <2>. QED  BY <1>1, <2>1, <2>2
<1>. QED  BY <1>1, <1>2, <1>4 DEF Played, t

LEMMA TickKeeps ==
    ASSUME NEW slot, SlotOk(slot)
    PROVE  SlotOk(PopTick(slot))
<1>. DEFINE q == Pop(slot.queue)
            kept == IF Len(slot.history) = HISTORY_TICKS THEN Tail(slot.history) ELSE slot.history
<1>1. QueueOk(q) /\ q.out \in SUBSET Nat
  BY PopKeeps DEF SlotOk, QueueOk, Queues
<1>2. \/ q.out = Silence /\ NextFrame(q) = NextFrame(slot.queue)
      \/ /\ Span(q.out) /\ q.out # Silence
         /\ Earliest(q.out) = NextFrame(slot.queue) /\ NextFrame(q) = Latest(q.out) + 1
  <2>1. Span(q.out) => q.out # Silence
    BY DEF Span, Silence
  <2>. QED  BY <2>1, PopKeeps DEF SlotOk
<1>3. Played(kept, NextFrame(slot.queue)) /\ Len(kept) < HISTORY_TICKS
  <2>0. /\ Played(slot.history, NextFrame(slot.queue)) /\ slot.history \in Seq(SUBSET Nat)
        /\ Len(slot.history) \in Nat /\ Len(slot.history) <= HISTORY_TICKS
        /\ HISTORY_TICKS \in Nat /\ HISTORY_TICKS > 0
    BY Constant DEF SlotOk, Played
  <2>1. CASE Len(slot.history) = HISTORY_TICKS
    <3>1. slot.history # <<>> /\ Len(Tail(slot.history)) = Len(slot.history) - 1
      BY <2>0, <2>1
    <3>. QED  BY <2>0, <2>1, <3>1, ForgetKeeps
  <2>2. CASE Len(slot.history) # HISTORY_TICKS
    BY <2>0, <2>2
  <2>. QED  BY <2>1, <2>2
<1>4. PopTick(slot) = [queue |-> q, history |-> Append(kept, q.out)]
  BY DEF PopTick
<1>. HIDE DEF q, kept
<1>5. Played(Append(kept, q.out), NextFrame(q))
  BY <1>1, <1>2, <1>3, PlayKeeps
<1>. QED  BY <1>1, <1>4, <1>5 DEF SlotOk

-----------------------------------------------------------------------------
(* Any number of ticks: induction on a set of numbers. *)

\* The ticks of one render, one after the other.
Ticks(slot, g, run) == g = [n \in 0 .. run |-> IF n = 0 THEN slot ELSE PopTick(g[n - 1])]

LEMMA TicksExist ==
    ASSUME NEW slot, NEW run \in Nat
    PROVE  \E g : Ticks(slot, g, run)
<1>. DEFINE T == {r \in Nat : \E g : Ticks(slot, g, r)}
<1>1. 0 \in T
  <2>1. Ticks(slot, [n \in 0 .. 0 |-> slot], 0)
    BY DEF Ticks
  <2>. QED  BY <2>1
<1>2. ASSUME NEW r \in Nat, r \in T PROVE r + 1 \in T
  <2>1. PICK g : Ticks(slot, g, r)
    BY <1>2
  <2>. DEFINE h == [n \in 0 .. r + 1 |-> IF n = r + 1 THEN PopTick(g[r]) ELSE g[n]]
  <2>2. \A n \in 0 .. r : g[n] = IF n = 0 THEN slot ELSE PopTick(g[n - 1])
    BY <2>1 DEF Ticks
  <2>3. \A n \in 0 .. r + 1 : h[n] = IF n = 0 THEN slot ELSE PopTick(h[n - 1])
    <3>. SUFFICES ASSUME NEW n \in 0 .. r + 1 PROVE h[n] = IF n = 0 THEN slot ELSE PopTick(h[n - 1])
      OBVIOUS
    <3>1. CASE n = r + 1
      <4>1. r \in 0 .. r + 1 /\ r # r + 1 /\ n - 1 = r /\ n # 0
        BY <3>1
      <4>. QED  BY <3>1, <4>1
    <3>2. CASE n # r + 1 /\ n # 0
      <4>1. n \in 0 .. r /\ n - 1 \in 0 .. r + 1 /\ n - 1 # r + 1
        BY <3>2
      <4>. QED  BY <2>2, <3>2, <4>1
    <3>3. CASE n # r + 1 /\ n = 0
      BY <2>2, <3>3
    <3>. QED  BY <3>1, <3>2, <3>3
  <2>4. Ticks(slot, h, r + 1)
    <3>1. h = [n \in 0 .. r + 1 |-> h[n]]
      OBVIOUS
    <3>. HIDE DEF h
    <3>. QED  BY <2>3, <3>1 DEF Ticks
  <2>. QED  BY <2>4
<1>3. Nat \subseteq T
  <2>. HIDE DEF T
  <2>. QED  BY <1>1, <1>2, Inductive
<1>. QED  BY <1>3

LEMMA TicksKeep ==
    ASSUME NEW slot, SlotOk(slot), NEW run \in Nat
    PROVE  SlotOk(PopTicks(slot, run))
<1>1. PICK g : g = (CHOOSE f : Ticks(slot, f, run))
  OBVIOUS
<1>2. Ticks(slot, g, run)
  BY <1>1, TicksExist
<1>3. PopTicks(slot, run) = g[run]
  BY <1>1 DEF PopTicks, Ticks
<1>4. \A n \in 0 .. run : g[n] = IF n = 0 THEN slot ELSE PopTick(g[n - 1])
  BY <1>2 DEF Ticks
<1>. DEFINE T == {n \in Nat : n <= run => SlotOk(g[n])}
<1>5. 0 \in T
  BY <1>4
<1>6. ASSUME NEW n \in Nat, n \in T PROVE n + 1 \in T
  <2>1. n + 1 <= run => n \in 0 .. run /\ n + 1 \in 0 .. run /\ n + 1 # 0 /\ (n + 1) - 1 = n
    OBVIOUS
  <2>2. n + 1 <= run => SlotOk(g[n]) /\ g[n + 1] = PopTick(g[n])
    BY <1>4, <1>6, <2>1
  <2>. QED  BY <2>2, TickKeeps
<1>7. Nat \subseteq T
  <2>. HIDE DEF T
  <2>. QED  BY <1>5, <1>6, Inductive
<1>. QED  BY <1>3, <1>7

-----------------------------------------------------------------------------
(* Every source conserves its frames. *)

SourcesOk == /\ inputs = [p \in DOMAIN inputs |-> inputs[p]]
             /\ \A p \in DOMAIN inputs : SlotOk(inputs[p])

LEMMA NewSlot == SlotOk(Slot0)
<1>1. Queue0 \in Queues
  BY QueueAssumption DEF Queue0, Queues, Targets, Silence
<1>2. QueueOk(Queue0)
  BY <1>1, QueueAssumption DEF Queue0, QueueOk, Waits, Balances
<1>3. Played(<<>>, NextFrame(Queue0))
  BY Constant DEF Played
<1>. QED  BY <1>2, <1>3 DEF Slot0, SlotOk

LEMMA PushSlot ==
    ASSUME NEW slot, SlotOk(slot), NEW t \in Nat, NEW target \in Targets
    PROVE  SlotOk([slot EXCEPT !.queue = Push(@, t, target)])
<1>1. QueueOk(Push(slot.queue, t, target)) /\ NextFrame(Push(slot.queue, t, target)) = NextFrame(slot.queue)
  BY PushKeeps DEF SlotOk
<1>2. [slot EXCEPT !.queue = Push(@, t, target)]
        = [queue |-> Push(slot.queue, t, target), history |-> slot.history]
  BY DEF SlotOk
<1>. QED  BY <1>1, <1>2 DEF SlotOk

LEMMA SourcesInit == Init => SourcesOk
BY DEF Init, SourcesOk

LEMMA SourcesStep == SourcesOk /\ now \in Nat /\ AccountInv /\ [Next]_vars => SourcesOk'
<1>. SUFFICES ASSUME SourcesOk, now \in Nat, AccountInv, [Next]_vars PROVE SourcesOk'
  OBVIOUS
<1>1. ASSUME NEW l \in Participants, Render(l) PROVE SourcesOk'
  <2>. DEFINE run == TicksToRun(Head(pumps[l].due))
  <2>1. run \in Nat
    <3>1. clock \in Int /\ Head(pumps[l].due) \in Int
      BY <1>1 DEF AccountInv, Typed, Render, Pumps
    <3>. QED  BY <3>1, RunsForward
  <2>2. inputs' = [p \in DOMAIN inputs |-> PopTicks(inputs[p], run)]
    BY <1>1 DEF Render
  <2>. HIDE DEF run
  <2>. QED  BY <2>1, <2>2, TicksKeep DEF SourcesOk
<1>2. ASSUME NEW p \in Participants, NEW target \in Targets, PushFrame(p, target) PROVE SourcesOk'
  <2>. DEFINE slot == IF p \in DOMAIN inputs THEN inputs[p] ELSE Slot0
              pushed == [slot EXCEPT !.queue = Push(@, now, target)]
  <2>1. SlotOk(slot)
    BY NewSlot DEF SourcesOk
  <2>2. SlotOk(pushed)
    <3>. HIDE DEF slot
    <3>. QED  BY <2>1, PushSlot
  <2>3. inputs' = [q \in DOMAIN inputs \union {p} |-> IF q = p THEN pushed ELSE inputs[q]]
    BY <1>2 DEF PushFrame
  <2>. HIDE DEF pushed
  <2>. QED  BY <2>2, <2>3 DEF SourcesOk
<1>3. ASSUME NEW p \in Participants, AddInput(p) PROVE SourcesOk'
  BY <1>3, NewSlot DEF AddInput, SourcesOk
<1>4. ASSUME NEW p \in Participants, Leave(p) PROVE SourcesOk'
  BY <1>4 DEF Leave, SourcesOk
<1>5. CASE UNCHANGED inputs
  BY <1>5 DEF SourcesOk
<1>. QED  BY <1>1, <1>2, <1>3, <1>4, <1>5 DEF Next, vars, mixVars, Elapse, PumpStarts, Wake, PumpEnds, AbortTakesEffect

LEMMA FlowMeans ==
    ASSUME NEW h \in Seq(SUBSET Nat), NEW f \in Seq(SUBSET Nat)
    PROVE  /\ Len(h \o f) = Len(h) + Len(f) /\ Len(h) \in Nat /\ Len(f) \in Nat
           /\ \A i \in 1 .. Len(h) : (h \o f)[i] = h[i]
           /\ \A i \in 1 .. Len(f) : (h \o f)[Len(h) + i] = f[i]
<1>1. Len(h \o f) = Len(h) + Len(f) /\ Len(h) \in Nat /\ Len(f) \in Nat
  OBVIOUS
<1>2. \A i \in 1 .. Len(h) : (h \o f)[i] = h[i]
  BY <1>1
<1>3. ASSUME NEW i \in 1 .. Len(f) PROVE (h \o f)[Len(h) + i] = f[i]
  <2>1. Len(h) + i \in 1 .. Len(h) + Len(f) /\ ~(Len(h) + i <= Len(h)) /\ (Len(h) + i) - Len(h) = i
    BY <1>1
  <2>. QED  BY <1>1, <2>1
<1>. QED  BY <1>1, <1>2, <1>3

\* What a source played lately and what waits are the frames up to the latest.
LEMMA ConservedNow == SourcesOk => FramesConserved
<1>. SUFFICES ASSUME SourcesOk, NEW p \in DOMAIN inputs
     PROVE  LET q == inputs[p].queue
                flow == Flow(inputs[p])
            IN  /\ q.pushed = q.played + q.compressed + q.overflow_compressed + Len(q.frames)
                /\ \A i \in 1 .. Len(flow) : flow[i] # Silence =>
                     /\ Cardinality(flow[i]) = Latest(flow[i]) - Earliest(flow[i]) + 1
                     /\ Succeeds(flow, i, q.pushed)
  BY DEF FramesConserved
<1>. DEFINE q == inputs[p].queue
            h == inputs[p].history
            m == Len(h)
            n == Len(q.frames)
            flow == Flow(inputs[p])
<1>0. QueueOk(q) /\ Played(h, NextFrame(q))
  BY DEF SourcesOk, SlotOk
<1>1. /\ h \in Seq(SUBSET Nat) /\ q.frames \in Seq(SUBSET Nat) /\ m \in Nat /\ n \in Nat /\ q.pushed \in Nat
      /\ \A i \in 1 .. m : h[i] # Silence => Span(h[i]) /\ Joins(h, i, NextFrame(q))
      /\ \A i \in 1 .. n : /\ Span(q.frames[i])
                           /\ Latest(q.frames[i]) + 1 = IF i = n THEN q.pushed + 1 ELSE Earliest(q.frames[i + 1])
  BY <1>0 DEF Played, QueueOk, Queues, Waits
<1>2. /\ Len(flow) = m + n /\ \A i \in 1 .. m : flow[i] = h[i]
      /\ \A i \in 1 .. n : flow[m + i] = q.frames[i]
  BY <1>1, FlowMeans DEF Flow
<1>3. ASSUME NEW f, Span(f)
      PROVE  /\ f # Silence /\ Latest(f) \in Nat
             /\ Cardinality(f) = Latest(f) - Earliest(f) + 1
             /\ \A x \in Nat : Latest(f) + 1 = x + 1 => Latest(f) = x
  <2>1. /\ Earliest(f) \in Nat /\ Latest(f) \in Nat /\ Earliest(f) <= Latest(f) /\ f = Earliest(f) .. Latest(f)
    BY <1>3 DEF Span
  <2>2. Cardinality(Earliest(f) .. Latest(f)) = Latest(f) - Earliest(f) + 1
    BY <2>1, FS_Interval
  <2>. QED  BY <2>1, <2>2 DEF Silence
<1>4. n > 0 => NextFrame(q) = Earliest(q.frames[1]) /\ Span(q.frames[1])
  BY <1>1 DEF NextFrame
<1>5. n = 0 => NextFrame(q) = q.pushed + 1
  BY <1>1 DEF NextFrame
<1>6. q.pushed = q.played + q.compressed + q.overflow_compressed + n
  BY <1>0 DEF QueueOk, Balances
<1>. HIDE DEF flow, h, m, n, q
<1>7. ASSUME NEW i \in 1 .. Len(flow), flow[i] # Silence
      PROVE  /\ Cardinality(flow[i]) = Latest(flow[i]) - Earliest(flow[i]) + 1
             /\ Succeeds(flow, i, q.pushed)
  <2>1. CASE i \in 1 .. m
    <3>1. h[i] # Silence /\ Span(h[i]) /\ Joins(h, i, NextFrame(q)) /\ flow[i] = h[i]
      BY <1>1, <1>2, <1>7, <2>1
    <3>2. CASE Latest(h[i]) + 1 = NextFrame(q) /\ \A j \in i + 1 .. m : h[j] = Silence
      <4>0. \A j \in i + 1 .. m : flow[j] = Silence
        <5>1. \A j \in i + 1 .. m : j \in 1 .. m
          BY <1>1, <2>1
        <5>. QED  BY <1>2, <3>2, <5>1
      <4>1. CASE n = 0
        <5>1. Latest(h[i]) = q.pushed
          BY <1>1, <1>3, <1>5, <3>1, <3>2, <4>1
        <5>2. Len(flow) = m
          BY <1>1, <1>2, <4>1
        <5>. QED  BY <1>3, <3>1, <4>0, <5>1, <5>2 DEF Succeeds
      <4>2. CASE n > 0
        <5>1. m + 1 \in i + 1 .. Len(flow) /\ flow[m + 1] = q.frames[1] /\ (m + 1) - 1 = m
          BY <1>1, <1>2, <2>1, <4>2
        <5>2. flow[m + 1] # Silence /\ Earliest(flow[m + 1]) = Latest(flow[i]) + 1
          BY <1>3, <1>4, <3>1, <3>2, <4>2, <5>1
        <5>. QED  BY <1>3, <3>1, <4>0, <5>1, <5>2 DEF Succeeds
      <4>. QED  BY <1>1, <4>1, <4>2
    <3>3. ASSUME NEW j \in i + 1 .. m, h[j] # Silence, Earliest(h[j]) = Latest(h[i]) + 1,
                 \A k \in i + 1 .. j - 1 : h[k] = Silence
          PROVE  Succeeds(flow, i, q.pushed)
      <4>1. j \in i + 1 .. Len(flow) /\ flow[j] = h[j] /\ \A k \in i + 1 .. j - 1 : flow[k] = h[k]
        BY <1>1, <1>2, <2>1
      <4>. QED  BY <3>1, <3>3, <4>1 DEF Succeeds
    <3>. QED  BY <1>3, <3>1, <3>2, <3>3 DEF Joins, m
  <2>2. CASE i \notin 1 .. m
    <3>1. i - m \in 1 .. n /\ flow[i] = q.frames[i - m]
      BY <1>1, <1>2, <2>2
    <3>2. Span(q.frames[i - m])
      BY <1>1, <3>1
    <3>3. CASE i - m = n
      <4>1. Latest(q.frames[i - m]) + 1 = q.pushed + 1
        BY <1>1, <3>1, <3>3
      <4>2. Latest(flow[i]) = q.pushed
        BY <1>1, <1>3, <3>1, <3>2, <4>1
      <4>3. \A j \in i + 1 .. Len(flow) : FALSE
        BY <1>1, <1>2, <3>3
      <4>. QED  BY <1>3, <3>1, <3>2, <4>2, <4>3 DEF Succeeds
    <3>4. CASE i - m # n
      <4>1. /\ i - m + 1 \in 1 .. n /\ i + 1 = m + (i - m + 1)
            /\ i + 1 \in i + 1 .. Len(flow) /\ \A k \in i + 1 .. (i + 1) - 1 : FALSE
        <5>1. i \in Nat /\ m \in Nat /\ n \in Nat /\ i - m >= 1 /\ i - m < n /\ Len(flow) = m + n
          BY <1>1, <1>2, <3>1, <3>4
        <5>. QED  BY <5>1
      <4>2. flow[i + 1] = q.frames[i - m + 1] /\ Span(q.frames[i - m + 1])
        BY <1>1, <1>2, <4>1
      <4>3. Earliest(q.frames[i - m + 1]) = Latest(q.frames[i - m]) + 1
        BY <1>1, <3>1, <3>4
      <4>. QED  BY <1>3, <3>1, <3>2, <4>1, <4>2, <4>3 DEF Succeeds
    <3>. QED  BY <3>3, <3>4
  <2>. QED  BY <2>1, <2>2
<1>. QED  BY <1>6, <1>7 DEF flow, h, m, n, q

-----------------------------------------------------------------------------
(* Once per tick. The slots still to come of a listener that has heard a   *)
(* tick lie behind it on the clock, unless the clock was resynced past     *)
(* them: a slot is a whole tick after the one before it, and the clock     *)
(* moves by whole ticks.                                                   *)

Loops == [st : {"off", "on", "ended", "aborted"}, anchor : Nat, written : Nat, due : Seq(Nat)]

\* Where a loop is at time t: its slots lie one tick apart, and none is ahead of the time.
LoopOk(pump, t) ==
    /\ Len(pump.due) <= MAX_BURST_WRITES
    /\ pump.st \in {"off", "ended"} => pump.due = <<>>
    /\ pump.st = "on" => pump.anchor + Tick * pump.written <= t
    /\ \A i \in 1 .. Len(pump.due) : pump.due[i] <= t
    /\ \A i \in 1 .. Len(pump.due) - 1 : pump.due[i + 1] = pump.due[i] + Tick
    /\ pump.due # <<>> => pump.due[Len(pump.due)] = pump.anchor + Tick * pump.written

\* The earliest slot a loop may still render.
NextSlot(pump, t) ==
    IF pump.due # <<>> THEN Head(pump.due)
    ELSE IF pump.st = "on" THEN pump.anchor + Tick * (pump.written + 1) ELSE t + Tick

\* The tick after the cursor has come by the time of such a slot.
Ahead(l) ==
    listener_ticks[l] # None /\ listener_ticks[l] > 0 =>
        \A x \in Nat : x >= NextSlot(pumps[l], now) /\ (resync_at = None \/ x >= resync_at) =>
            Tick * (listener_ticks[l] + 1) + clock <= x + Tick * tick_count

Clocked ==
    /\ now \in Nat /\ clock \in Nat \union {None} /\ resync_at \in Nat \union {None}
    /\ resync_at # None => clock # None /\ resync_at <= clock
    /\ pumps \in [Participants -> Loops]
    /\ \A l \in Participants : LoopOk(pumps[l], now)
    /\ \A l \in Participants : listener_ticks[l] # None => clock # None
    /\ \A l \in Participants : Ahead(l)

PaceInv == AccountInv /\ Clocked /\ OncePerTick

\* Whole ticks.
LEMMA TickInt == ASSUME NEW a \in Int PROVE Tick * a \in Int /\ Tick * (a + 1) = Tick * a + Tick
BY Constant

LEMMA TickAdd ==
    ASSUME NEW a \in Int, NEW b \in Int
    PROVE  Tick * (a + b) = Tick * a + Tick * b /\ Tick * (a - b) = Tick * a - Tick * b
BY Constant

LEMMA TickOrder ==
    ASSUME NEW a \in Int, NEW b \in Int
    PROVE  (a <= b => Tick * a <= Tick * b) /\ (Tick * a < Tick * b => a < b)
BY Constant

LEMMA DivMeans ==
    \A d \in Nat : /\ d \div Tick \in Nat
                   /\ Tick * (d \div Tick) <= d
                   /\ d < Tick * (d \div Tick) + Tick
BY Constant, DivNat

LEMMA CeilMeans ==
    ASSUME NEW d \in Nat
    PROVE  /\ CeilTicks(d) \in Nat /\ d <= Tick * CeilTicks(d)
           /\ \A m \in Int : d <= Tick * m => CeilTicks(d) <= m
<1>. DEFINE b == CeilTicks(d)
<1>1. d + Tick - 1 \in Nat
  BY Constant
<1>2. b \in Nat /\ Tick * b <= d + Tick - 1 /\ d + Tick - 1 < Tick * b + Tick
  BY <1>1, DivMeans DEF CeilTicks
<1>. HIDE DEF b
<1>3. d <= Tick * b
  BY <1>2, Constant
<1>4. ASSUME NEW m \in Int, d <= Tick * m PROVE b <= m
  <2>1. Tick * b < Tick * (m + 1)
    BY <1>2, <1>4, TickInt, Constant
  <2>2. b < m + 1
    BY <1>2, <2>1, TickOrder
  <2>. QED  BY <1>2, <2>2
<1>. QED  BY <1>2, <1>3, <1>4 DEF b

\* A render starts the clock, moves it by whole ticks, or sets it to its slot.
LEMMA ClockMoves ==
    ASSUME clock \in Nat \union {None}, tick_count \in Nat, NEW at \in Nat
    PROVE  LET clk == ClockAfter(at)
               ticks == tick_count + TicksToRun(at)
           IN  /\ clk \in Nat /\ ticks \in Nat /\ ticks >= tick_count
               /\ clock # None => clk >= clock
               /\ clock = None => ~Resyncs(at)
               /\ clock # None /\ ~Resyncs(at) => /\ clk + Tick * tick_count = clock + Tick * ticks
                                                  /\ at < clk + Tick
               /\ Resyncs(at) => clk = at /\ ticks = tick_count + 1 /\ at > clock
<1>. DEFINE e == Elapsed(at)
            clk == ClockAfter(at)
            ticks == tick_count + TicksToRun(at)
<1>1. CASE clock = None
  <2>1. e = 0 /\ ~Resyncs(at)
    BY <1>1, Constant DEF Elapsed, Resyncs
  <2>2. clk = at /\ ticks = tick_count
    BY <1>1, <2>1 DEF ClockAfter, TicksToRun
  <2>. QED  BY <1>1, <2>1, <2>2
<1>2. CASE clock # None
  <2>0. clock \in Nat
    BY <1>2
  <2>1. e \in Nat /\ (at > clock => Tick * e <= at - clock) /\ at - clock < Tick * e + Tick
    <3>1. CASE at > clock
      <4>1. at - clock \in Nat /\ e = (at - clock) \div Tick
        BY <1>2, <2>0, <3>1 DEF Elapsed
      <4>. QED  BY <4>1, DivMeans
    <3>2. CASE ~(at > clock)
      <4>1. e = 0
        BY <3>2 DEF Elapsed
      <4>. QED  BY <2>0, <3>2, <4>1, Constant
    <3>. QED  BY <3>1, <3>2
  <2>2. CASE Resyncs(at)
    <3>1. clk = at /\ ticks = tick_count + 1
      BY <2>2 DEF ClockAfter, TicksToRun
    <3>2. at > clock
      BY <2>0, <2>2, Constant DEF Resyncs, Elapsed
    <3>. QED  BY <1>2, <2>0, <2>2, <3>1, <3>2
  <2>3. CASE ~Resyncs(at)
    <3>1. clk = clock + Tick * e /\ ticks = tick_count + e
      BY <1>2, <2>3 DEF ClockAfter, TicksToRun
    <3>. HIDE DEF e, clk, ticks
    <3>2. Tick * e \in Nat
      BY <2>1, Constant
    <3>3. Tick * ticks = Tick * tick_count + Tick * e /\ Tick * tick_count \in Int
      <4>1. Tick * (tick_count + e) = Tick * tick_count + Tick * e
        BY <2>1, TickAdd
      <4>2. Tick * tick_count \in Int
        BY TickInt
      <4>. QED  BY <3>1, <4>1, <4>2
    <3>4. /\ clk \in Nat /\ ticks \in Nat /\ ticks >= tick_count /\ clk >= clock
          /\ clk + Tick * tick_count = clock + Tick * ticks
      BY <2>0, <2>1, <3>1, <3>2, <3>3
    <3>5. at < clk + Tick
      BY <2>0, <2>1, <3>1, <3>2, Constant
    <3>. QED  BY <1>2, <2>3, <3>4, <3>5 DEF clk, ticks
  <2>. QED  BY <2>2, <2>3
<1>. QED  BY <1>1, <1>2

\* The newest tick of a slot is the last that had come by then.
LEMMA NewestMeans ==
    ASSUME NEW at \in Nat, NEW clk \in Nat, NEW ticks \in Nat
    PROVE  LET newest == NewestAt(at, clk, ticks)
           IN  /\ newest \in Nat
               /\ newest > 0 => \A x \in Nat : x >= at + Tick => Tick * (newest + 1) + clk <= x + Tick * ticks
               /\ \A c \in Nat : Tick * (c + 1) + clk <= at + Tick * ticks /\ at < clk + Tick => newest > c
<1>. DEFINE newest == NewestAt(at, clk, ticks)
<1>1. CASE at >= clk
  <2>1. newest = ticks
    BY <1>1 DEF NewestAt
  <2>. HIDE DEF newest
  <2>2. ASSUME NEW x \in Nat, x >= at + Tick PROVE Tick * (newest + 1) + clk <= x + Tick * ticks
    <3>1. Tick * (newest + 1) = Tick * ticks + Tick /\ Tick * ticks \in Int
      BY <2>1, TickInt
    <3>. QED  BY <1>1, <2>2, <3>1, Constant
  <2>3. ASSUME NEW c \in Nat, Tick * (c + 1) + clk <= at + Tick * ticks, at < clk + Tick
        PROVE  newest > c
    <3>1. Tick * (c + 1) = Tick * c + Tick /\ Tick * c \in Int /\ Tick * ticks \in Int
      BY TickInt
    <3>2. Tick * c < Tick * ticks
      BY <2>3, <3>1, Constant
    <3>3. c < ticks
      BY <3>2, TickOrder
    <3>. QED  BY <2>1, <3>3
  <2>. QED  BY <2>1, <2>2, <2>3 DEF newest
<1>2. CASE at < clk
  <2>. DEFINE behind == CeilTicks(clk - at)
  <2>1. clk - at \in Nat
    BY <1>2
  <2>2. /\ behind \in Nat /\ clk - at <= Tick * behind
        /\ \A m \in Int : clk - at <= Tick * m => behind <= m
    BY <2>1, CeilMeans
  <2>3. newest = IF behind < ticks THEN ticks - behind ELSE 0
    BY <1>2 DEF NewestAt
  <2>. HIDE DEF behind, newest
  <2>4. newest \in Nat
    BY <2>2, <2>3
  <2>5. ASSUME newest > 0, NEW x \in Nat, x >= at + Tick PROVE Tick * (newest + 1) + clk <= x + Tick * ticks
    <3>1. newest = ticks - behind
      BY <2>3, <2>5
    <3>2. /\ Tick * (newest + 1) = Tick * newest + Tick /\ Tick * newest = Tick * ticks - Tick * behind
          /\ Tick * ticks \in Int /\ Tick * behind \in Int
      <4>1. Tick * (ticks - behind) = Tick * ticks - Tick * behind
        BY <2>2, TickAdd
      <4>2. Tick * (newest + 1) = Tick * newest + Tick
        BY <2>4, TickInt
      <4>3. Tick * ticks \in Int /\ Tick * behind \in Int
        BY <2>2, TickInt
      <4>. QED  BY <3>1, <4>1, <4>2, <4>3
    <3>. QED  BY <2>2, <2>5, <3>2, Constant
  <2>6. ASSUME NEW c \in Nat, Tick * (c + 1) + clk <= at + Tick * ticks PROVE newest > c
    <3>1. Tick * (ticks - (c + 1)) = Tick * ticks - Tick * (c + 1) /\ Tick * ticks \in Int /\ Tick * (c + 1) \in Int
      BY TickAdd, TickInt
    <3>2. ticks - (c + 1) \in Int /\ clk - at <= Tick * (ticks - (c + 1))
      BY <2>6, <3>1
    <3>3. behind <= ticks - (c + 1)
      BY <2>2, <3>2
    <3>. QED  BY <2>2, <2>3, <3>3
  <2>. QED  BY <2>4, <2>5, <2>6 DEF newest
<1>. QED  BY <1>1, <1>2

\* A listener goes on exactly when there is a newer tick, and never beyond it.
LEMMA StepReaches ==
    ASSUME NEW cursor \in Nat, NEW ticks \in Nat, NEW newest \in Nat,
           NEW step, step = ListenerStep(cursor, newest, ticks)
    PROVE  /\ newest > cursor => step.to > cursor /\ step.to <= newest
           /\ newest <= cursor => step.to = cursor
<1>. DEFINE trailing == IF newest > cursor THEN newest - cursor ELSE 0
            oldest == OldestHeld(ticks)
<1>1. oldest \in Nat
  BY Constant DEF OldestHeld
<1>. HIDE DEF oldest
<1>2. CASE trailing > 0 /\ cursor + 1 < oldest
  <2>1. \/ newest < oldest /\ step.to = newest
        \/ newest >= oldest /\ step.to \in {newest, oldest}
    BY <1>1, <1>2 DEF ListenerStep, oldest
  <2>. QED  BY <1>1, <1>2, <2>1
<1>3. CASE ~(trailing > 0 /\ cursor + 1 < oldest)
  <2>1. CASE trailing <= 1
    <3>1. step.to = cursor + trailing
      BY <1>3, <2>1 DEF ListenerStep, oldest
    <3>. QED  BY <2>1, <3>1
  <2>2. CASE trailing > 1
    <3>1. step.to \in {newest, cursor + 2}
      BY <1>3, <2>2 DEF ListenerStep, oldest
    <3>. QED  BY <2>2, <3>1
  <2>. QED  BY <2>1, <2>2
<1>. QED  BY <1>2, <1>3

LEMMA ListIsSeq ==
    ASSUME NEW S, NEW n \in Nat, NEW f \in [1 .. n -> S] PROVE f \in Seq(S) /\ Len(f) = n
<1>1. f = [i \in 1 .. n |-> f[i]] /\ \A i \in 1 .. n : f[i] \in S
  OBVIOUS
<1>2. [i \in 1 .. n |-> f[i]] \in Seq(S)
  BY <1>1
<1>3. f \in Seq(S) /\ DOMAIN f = 1 .. n
  BY <1>1, <1>2
<1>. QED  BY <1>3

LEMMA EmptyMeans == ASSUME NEW S, NEW s \in Seq(S), Len(s) = 0 PROVE s = <<>>
OBVIOUS

\* The next slot of a loop is at most one tick away.
LEMMA NextSlotSoon ==
    ASSUME NEW pump \in Loops, NEW t \in Nat, LoopOk(pump, t)
    PROVE  NextSlot(pump, t) \in Nat /\ NextSlot(pump, t) <= t + Tick
<1>1. CASE pump.due # <<>>
  <2>1. pump.due \in Seq(Nat) /\ NextSlot(pump, t) = pump.due[1] /\ 1 \in 1 .. Len(pump.due)
    BY <1>1 DEF NextSlot, Loops
  <2>2. pump.due[1] \in Nat /\ pump.due[1] <= t
    BY <2>1 DEF LoopOk
  <2>. QED  BY <2>1, <2>2, Constant
<1>2. CASE pump.due = <<>> /\ pump.st = "on"
  <2>1. NextSlot(pump, t) = pump.anchor + Tick * (pump.written + 1)
    BY <1>2 DEF NextSlot
  <2>2. pump.anchor \in Nat /\ pump.written \in Nat /\ pump.anchor + Tick * pump.written <= t
    BY <1>2 DEF Loops, LoopOk
  <2>3. Tick * (pump.written + 1) = Tick * pump.written + Tick /\ Tick * pump.written \in Nat
    BY <2>2, Constant
  <2>. QED  BY <2>1, <2>2, <2>3, Constant
<1>3. CASE pump.due = <<>> /\ pump.st # "on"
  BY <1>3, Constant DEF NextSlot
<1>. QED  BY <1>1, <1>2, <1>3

\* A render takes the first slot, and the next one is a tick later.
LEMMA SlotTaken ==
    ASSUME NEW pump \in Loops, NEW t \in Nat, LoopOk(pump, t), pump.due # <<>>,
           NEW rest, rest = [pump EXCEPT !.due = Tail(@)]
    PROVE  /\ Head(pump.due) \in Nat /\ NextSlot(pump, t) = Head(pump.due)
           /\ rest \in Loops /\ LoopOk(rest, t)
           /\ NextSlot(rest, t) >= Head(pump.due) + Tick
<1>. DEFINE due == pump.due
            at == Head(due)
            n == Len(due)
<1>1. due \in Seq(Nat) /\ n \in Nat /\ n >= 1 /\ at = due[1] /\ at \in Nat
  BY DEF Loops
<1>2. /\ rest.st = pump.st /\ rest.anchor = pump.anchor /\ rest.written = pump.written
      /\ rest.due = Tail(due) /\ rest \in Loops
  <2>1. Tail(pump.due) \in Seq(Nat)
    BY <1>1
  <2>2. rest \in Loops
    BY <2>1 DEF Loops
  <2>. QED  BY <2>2 DEF Loops
<1>3. /\ Len(rest.due) = n - 1
      /\ \A i \in 1 .. n - 1 : rest.due[i] = due[i + 1]
  BY <1>1, <1>2
<1>4. /\ n <= MAX_BURST_WRITES /\ pump.st \notin {"off", "ended"}
      /\ pump.st = "on" => pump.anchor + Tick * pump.written <= t
      /\ \A i \in 1 .. n : due[i] <= t
      /\ \A i \in 1 .. n - 1 : due[i + 1] = due[i] + Tick
      /\ due[n] = pump.anchor + Tick * pump.written
  BY DEF LoopOk
<1>5. NextSlot(pump, t) = at
  BY DEF NextSlot
<1>. HIDE DEF at, due, n
<1>6. LoopOk(rest, t)
  <2>1. ASSUME NEW i \in 1 .. n - 1 PROVE rest.due[i] <= t
    <3>1. i + 1 \in 1 .. n
      BY <1>1
    <3>. QED  BY <3>1, <1>3, <1>4
  <2>2. ASSUME NEW i \in 1 .. n - 1 - 1 PROVE rest.due[i + 1] = rest.due[i] + Tick
    <3>1. i \in 1 .. n - 1 /\ i + 1 \in 1 .. n - 1
      BY <1>1
    <3>. QED  BY <3>1, <1>3, <1>4
  <2>3. rest.due # <<>> => rest.due[n - 1] = rest.anchor + Tick * rest.written
    <3>1. rest.due # <<>> => n - 1 \in 1 .. n - 1 /\ n - 1 + 1 = n
      BY <1>1, <1>2, <1>3
    <3>. QED  BY <3>1, <1>2, <1>3, <1>4
  <2>4. Len(rest.due) <= MAX_BURST_WRITES
    BY <1>1, <1>3, <1>4, MixAssumption
  <2>. QED  BY <1>2, <1>3, <1>4, <2>1, <2>2, <2>3, <2>4 DEF LoopOk
<1>7. NextSlot(rest, t) >= at + Tick
  <2>1. CASE n >= 2
    <3>1. 1 \in 1 .. n - 1 /\ rest.due # <<>>
      BY <1>1, <1>3, <2>1
    <3>2. rest.due[1] = due[2] /\ due[2] = due[1] + Tick
      BY <3>1, <1>3, <1>4
    <3>3. NextSlot(rest, t) = rest.due[1]
      BY <3>1 DEF NextSlot
    <3>4. at \in Nat /\ at = due[1]
      BY <1>1
    <3>5. NextSlot(rest, t) = at + Tick
      BY <3>2, <3>3, <3>4
    <3>. QED  BY <3>4, <3>5, Constant
  <2>2. CASE n = 1
    <3>1. rest.due = <<>>
      <4>1. Len(rest.due) = 0 /\ rest.due \in Seq(Nat)
        BY <1>2, <1>3, <2>2 DEF Loops
      <4>. QED  BY <4>1, EmptyMeans
    <3>2. at = pump.anchor + Tick * pump.written /\ at <= t
      BY <1>1, <1>4, <2>2
    <3>3. pump.written \in Nat /\ pump.anchor \in Nat
      BY DEF Loops
    <3>4. Tick * (pump.written + 1) = Tick * pump.written + Tick /\ Tick * pump.written \in Int
      BY <3>3, TickInt
    <3>5. CASE rest.st = "on"
      <4>1. NextSlot(rest, t) = pump.anchor + Tick * (pump.written + 1)
        BY <1>2, <3>1, <3>5 DEF NextSlot
      <4>. QED  BY <4>1, <3>2, <3>3, <3>4, Constant
    <3>6. CASE rest.st # "on"
      <4>1. NextSlot(rest, t) = t + Tick
        BY <3>1, <3>6 DEF NextSlot
      <4>. QED  BY <4>1, <3>2, <1>1, Constant
    <3>. QED  BY <3>5, <3>6
  <2>. QED  BY <1>1, <2>1, <2>2
<1>. QED  BY <1>1, <1>2, <1>5, <1>6, <1>7 DEF at, due

\* A loop that wakes takes slots that have come, none before its next one.
LEMMA SlotsDue ==
    ASSUME NEW pump \in Loops, NEW t \in Nat, LoopOk(pump, t), pump.st = "on", pump.due = <<>>,
           t >= pump.anchor + Tick * (pump.written + 1),
           NEW woken, woken = DueSlots(pump, t)
    PROVE  woken \in Loops /\ LoopOk(woken, t) /\ NextSlot(woken, t) >= NextSlot(pump, t)
<1>. DEFINE d == t - pump.anchor
            elapsed == d \div Tick
            from == IF elapsed - pump.written > MAX_BURST_WRITES
                      THEN elapsed - MAX_BURST_WRITES ELSE pump.written
            n == elapsed - from
            due == [i \in 1 .. n |-> pump.anchor + Tick * (from + i)]
            a == pump.anchor
            w == pump.written
<1>1. a \in Nat /\ w \in Nat /\ MAX_BURST_WRITES \in Nat /\ MAX_BURST_WRITES > 0
  BY MixAssumption DEF Loops
<1>2. woken = [st |-> "on", anchor |-> a, written |-> elapsed, due |-> due]
  BY DEF DueSlots
<1>3. NextSlot(pump, t) = a + Tick * (w + 1)
  BY DEF NextSlot
<1>4. t >= a + Tick * (w + 1)
  OBVIOUS
<1>5. d = t - a
  OBVIOUS
<1>6. from = IF elapsed - w > MAX_BURST_WRITES THEN elapsed - MAX_BURST_WRITES ELSE w
  OBVIOUS
<1>7. n = elapsed - from /\ due = [i \in 1 .. n |-> a + Tick * (from + i)]
  OBVIOUS
<1>. HIDE DEF a, w, due
<1>8. d \in Nat /\ Tick * (w + 1) <= d
  <2>1. Tick * (w + 1) \in Nat
    BY <1>1, Constant
  <2>. QED  BY <2>1, <1>1, <1>4, <1>5
<1>. HIDE DEF d
<1>9. elapsed \in Nat /\ Tick * elapsed <= d /\ d < Tick * elapsed + Tick
  BY <1>8, DivMeans
<1>. HIDE DEF elapsed
<1>10. elapsed >= w + 1
  <2>1. Tick * (elapsed + 1) = Tick * elapsed + Tick /\ Tick * elapsed \in Int /\ Tick * (w + 1) \in Int
    BY <1>1, <1>9, TickInt
  <2>2. Tick * (w + 1) < Tick * (elapsed + 1)
    BY <1>8, <1>9, <2>1, Constant
  <2>3. w + 1 < elapsed + 1
    BY <1>1, <1>9, <2>2, TickOrder
  <2>. QED  BY <1>1, <1>9, <2>3
<1>11. from \in Nat /\ from >= w /\ n \in Nat /\ n >= 1 /\ n <= MAX_BURST_WRITES /\ from + n = elapsed
  BY <1>1, <1>6, <1>7, <1>9, <1>10
<1>. HIDE DEF from, n
<1>12. ASSUME NEW i \in 1 .. n
       PROVE  /\ due[i] = a + Tick * (from + i) /\ due[i] \in Nat /\ due[i] <= t
              /\ Tick * (from + i) \in Nat
  <2>1. due[i] = a + Tick * (from + i) /\ from + i \in Nat /\ from + i <= elapsed
    BY <1>7, <1>11
  <2>2. Tick * (from + i) \in Nat
    BY <2>1, Constant
  <2>3. Tick * (from + i) <= Tick * elapsed /\ Tick * elapsed \in Int
    BY <2>1, <1>9, TickOrder, TickInt
  <2>. QED  BY <2>1, <2>2, <2>3, <1>1, <1>5, <1>8, <1>9
<1>13. due \in Seq(Nat) /\ Len(due) = n
  <2>1. \A i \in 1 .. n : a + Tick * (from + i) \in Nat
    BY <1>12
  <2>2. due \in [1 .. n -> Nat]
    BY <2>1, <1>7
  <2>. QED  BY <2>2, <1>11, ListIsSeq
<1>14. ASSUME NEW i \in 1 .. n - 1 PROVE due[i + 1] = due[i] + Tick
  <2>1. i \in 1 .. n /\ i + 1 \in 1 .. n /\ from + i \in Int /\ from + (i + 1) = from + i + 1
    BY <1>11
  <2>2. due[i] = a + Tick * (from + i) /\ due[i + 1] = a + Tick * (from + (i + 1)) /\ Tick * (from + i) \in Nat
    BY <2>1, <1>12
  <2>3. Tick * (from + i + 1) = Tick * (from + i) + Tick
    BY <2>1, TickInt
  <2>. QED  BY <2>1, <2>2, <2>3, <1>1, Constant
<1>15. due[n] = a + Tick * elapsed /\ due # <<>>
  <2>1. n \in 1 .. n
    BY <1>11
  <2>. QED  BY <2>1, <1>11, <1>12, <1>13
<1>16. Head(due) >= a + Tick * (w + 1)
  <2>1. 1 \in 1 .. n /\ from + 1 >= w + 1 /\ from + 1 \in Int /\ w + 1 \in Int
    BY <1>1, <1>11
  <2>2. Head(due) = a + Tick * (from + 1) /\ Tick * (from + 1) \in Nat
    BY <2>1, <1>12, <1>13, <1>15
  <2>3. Tick * (w + 1) <= Tick * (from + 1) /\ Tick * (w + 1) \in Int
    BY <2>1, TickOrder, TickInt
  <2>. QED  BY <2>2, <2>3, <1>1
<1>17. /\ woken.st = "on" /\ woken.anchor = a /\ woken.written = elapsed /\ woken.due = due
       /\ woken \in Loops
  BY <1>1, <1>2, <1>9, <1>13 DEF Loops
<1>18. a + Tick * elapsed <= t
  <2>1. Tick * elapsed \in Int
    BY <1>9, TickInt
  <2>. QED  BY <2>1, <1>1, <1>5, <1>8, <1>9
<1>19. LoopOk(woken, t)
  <2>1. \A i \in 1 .. Len(due) : due[i] <= t
    BY <1>12, <1>13
  <2>2. \A i \in 1 .. Len(due) - 1 : due[i + 1] = due[i] + Tick
    BY <1>13, <1>14
  <2>3. Len(due) <= MAX_BURST_WRITES /\ due[Len(due)] = a + Tick * elapsed
    BY <1>11, <1>13, <1>15
  <2>. QED  BY <1>17, <1>18, <2>1, <2>2, <2>3 DEF LoopOk
<1>20. NextSlot(woken, t) = Head(due)
  BY <1>15, <1>17 DEF NextSlot
<1>. QED  BY <1>3, <1>16, <1>17, <1>19, <1>20

-----------------------------------------------------------------------------
(* What keeps the pace. *)

LEMMA InitPace == Init => PaceInv
<1>. SUFFICES ASSUME Init PROVE PaceInv  OBVIOUS
<1>1. Off \in Loops /\ LoopOk(Off, 0)
  <2>1. Off \in Loops
    BY DEF Off, Loops
  <2>2. Off.due = <<>> /\ Off.st = "off" /\ Len(Off.due) = 0
    BY DEF Off
  <2>. QED  BY <2>1, <2>2, MixAssumption DEF LoopOk
<1>2. Clocked
  BY <1>1 DEF Init, Clocked, Ahead, None
<1>3. OncePerTick
  BY DEF Init, OncePerTick, Book0
<1>. QED  BY <1>2, <1>3, InitAccount DEF PaceInv

\* A step that leaves the clock alone moves no loop's next slot back.
LEMMA SlotsComeLater ==
    ASSUME Clocked, OncePerTick, Typed,
           clock' = clock, tick_count' = tick_count, resync_at' = resync_at, books' = books,
           now' \in Nat, pumps' \in [Participants -> Loops],
           \A l \in Participants :
               /\ LoopOk(pumps'[l], now')
               /\ listener_ticks'[l] \in {listener_ticks[l], None}
               /\ NextSlot(pumps'[l], now') >= NextSlot(pumps[l], now)
    PROVE  Clocked' /\ OncePerTick'
<1>1. OncePerTick'
  BY DEF OncePerTick
<1>2. ASSUME NEW l \in Participants PROVE Ahead(l)'
  <2>. SUFFICES ASSUME listener_ticks'[l] # None, listener_ticks'[l] > 0,
                       NEW x \in Nat, x >= NextSlot(pumps'[l], now'), resync_at = None \/ x >= resync_at
                PROVE  Tick * (listener_ticks'[l] + 1) + clock <= x + Tick * tick_count
    BY DEF Ahead
  <2>1. listener_ticks'[l] = listener_ticks[l]
    OBVIOUS
  <2>2. NextSlot(pumps[l], now) \in Nat /\ NextSlot(pumps'[l], now') \in Nat
    BY NextSlotSoon DEF Clocked
  <2>3. x >= NextSlot(pumps[l], now)
    BY <2>2
  <2>. QED  BY <2>1, <2>3 DEF Clocked, Ahead
<1>3. \A l \in Participants : listener_ticks'[l] # None => listener_ticks[l] # None
  OBVIOUS
<1>. QED  BY <1>1, <1>2, <1>3 DEF Clocked

\* Where a cursor is ahead of its slots, it still is when the clock has moved.
LEMMA AheadShifts ==
    ASSUME clock \in Nat, tick_count \in Nat, NEW clk \in Nat, NEW ticks \in Nat, NEW at \in Nat,
           NEW c \in Nat, NEW x \in Nat, c <= tick_count,
           \/ /\ clk + Tick * tick_count = clock + Tick * ticks
              /\ Tick * (c + 1) + clock <= x + Tick * tick_count
           \/ clk = at /\ ticks = tick_count + 1 /\ x >= at
    PROVE  Tick * (c + 1) + clk <= x + Tick * ticks
<1>1. Tick * (c + 1) \in Int /\ Tick * tick_count \in Int /\ Tick * ticks \in Int
  BY TickInt
<1>2. CASE clk + Tick * tick_count = clock + Tick * ticks /\ Tick * (c + 1) + clock <= x + Tick * tick_count
  BY <1>1, <1>2
<1>3. CASE clk = at /\ ticks = tick_count + 1 /\ x >= at
  <2>1. c + 1 \in Int /\ ticks \in Int /\ c + 1 <= ticks
    BY <1>3
  <2>2. Tick * (c + 1) <= Tick * ticks
    BY <2>1, TickOrder
  <2>. QED  BY <1>1, <1>3, <2>2
<1>. QED  BY <1>2, <1>3

LEMMA RenderPaces ==
    ASSUME PaceInv, NEW l \in Participants, Render(l)
    PROVE  Clocked' /\ OncePerTick'
<1>. DEFINE at == Head(pumps[l].due)
            clk == ClockAfter(at)
            ticks == tick_count + TicksToRun(at)
            newest == NewestAt(at, clk, ticks)
            first == listener_ticks[l] = None
            cursor == IF first THEN newest ELSE listener_ticks[l]
            step == ListenerStep(cursor, newest, ticks)
            book == IF first THEN Book0(newest) ELSE Entry(books[l], cursor, step, ticks, at)
            rest == [pumps[l] EXCEPT !.due = Tail(@)]
            resyncs == Resyncs(at)
<1>1. /\ clock' = clk /\ tick_count' = ticks /\ now' = now
      /\ listener_ticks' = [listener_ticks EXCEPT ![l] = step.to]
      /\ books' = [books EXCEPT ![l] = book]
      /\ resync_at' = IF resyncs THEN at ELSE resync_at
      /\ pumps' = [pumps EXCEPT ![l] = rest]
      /\ pumps[l].due # <<>>
  BY DEF Render
<1>2. /\ now \in Nat /\ clock \in Nat \union {None} /\ resync_at \in Nat \union {None}
      /\ resync_at # None => clock # None /\ resync_at <= clock
      /\ pumps \in [Participants -> Loops]
      /\ \A m \in Participants : LoopOk(pumps[m], now)
      /\ \A m \in Participants : listener_ticks[m] # None => clock # None
      /\ \A m \in Participants : Ahead(m)
  BY DEF PaceInv, Clocked
<1>3. /\ tick_count \in Nat /\ listener_ticks \in [Participants -> Nat \union {None}]
      /\ books \in [Participants -> Books]
      /\ \A m \in Participants : listener_ticks[m] # None => listener_ticks[m] <= tick_count
  BY DEF PaceInv, AccountInv, Typed, EveryTickAccounted
<1>4. /\ at \in Nat /\ NextSlot(pumps[l], now) = at
      /\ rest \in Loops /\ LoopOk(rest, now) /\ NextSlot(rest, now) >= at + Tick
      /\ NextSlot(rest, now) \in Nat
  <2>1. pumps[l] \in Loops /\ LoopOk(pumps[l], now)
    BY <1>2
  <2>2. /\ at \in Nat /\ NextSlot(pumps[l], now) = at
        /\ rest \in Loops /\ LoopOk(rest, now) /\ NextSlot(rest, now) >= at + Tick
    BY <1>1, <1>2, <2>1, SlotTaken
  <2>. QED  BY <1>2, <2>2, NextSlotSoon
<1>. HIDE DEF at, rest
<1>5. /\ clk \in Nat /\ ticks \in Nat /\ ticks >= tick_count
      /\ clock # None => clk >= clock
      /\ clock = None => ~resyncs
      /\ clock # None /\ ~resyncs => /\ clk + Tick * tick_count = clock + Tick * ticks
                                     /\ at < clk + Tick
      /\ resyncs => clk = at /\ ticks = tick_count + 1 /\ at > clock
  BY <1>2, <1>3, <1>4, ClockMoves
<1>. HIDE DEF clk, ticks, resyncs
<1>6. /\ newest \in Nat
      /\ newest > 0 => \A x \in Nat : x >= at + Tick => Tick * (newest + 1) + clk <= x + Tick * ticks
      /\ \A c \in Nat : Tick * (c + 1) + clk <= at + Tick * ticks /\ at < clk + Tick => newest > c
  BY <1>4, <1>5, NewestMeans
<1>. HIDE DEF newest
<1>7. cursor \in Nat /\ (first => cursor = newest) /\ (~first => cursor = listener_ticks[l])
  BY <1>3, <1>6
<1>. HIDE DEF cursor
<1>8. /\ newest > cursor => step.to > cursor /\ step.to <= newest
      /\ newest <= cursor => step.to = cursor
  BY <1>5, <1>6, <1>7, StepReaches
<1>9. step.to \in Nat
  <2>1. newest \in 0 .. ticks
    <3>1. at \in Int /\ clk \in Int
      BY <1>4, <1>5
    <3>. QED  BY <1>5, <3>1, NewestBounded DEF newest
  <2>2. cursor <= ticks
    BY <1>3, <1>5, <1>7, <2>1
  <2>. QED  BY <1>5, <1>7, <2>1, <2>2, StepAccounts
<1>. HIDE DEF step
<1>10. ASSUME NEW m \in Participants, listener_ticks[m] # None, listener_ticks[m] > 0,
              NEW x \in Nat, x >= NextSlot(pumps[m], now), resync_at' = None \/ x >= resync_at'
       PROVE  Tick * (listener_ticks[m] + 1) + clk <= x + Tick * ticks
  <2>1. /\ clock \in Nat /\ clock # None /\ listener_ticks[m] \in Nat
        /\ listener_ticks[m] <= tick_count
    BY <1>2, <1>3, <1>10
  <2>2. CASE resyncs
    <3>1. clk = at /\ ticks = tick_count + 1 /\ x >= at
      BY <1>1, <1>4, <1>5, <1>10, <2>2 DEF None
    <3>. QED  BY <1>3, <1>4, <1>5, <2>1, <3>1, AheadShifts
  <2>3. CASE ~resyncs
    <3>1. Tick * (listener_ticks[m] + 1) + clock <= x + Tick * tick_count
      BY <1>1, <1>2, <1>10, <2>3 DEF Ahead
    <3>2. clk + Tick * tick_count = clock + Tick * ticks
      BY <1>5, <2>1, <2>3
    <3>. QED  BY <1>3, <1>4, <1>5, <2>1, <3>1, <3>2, AheadShifts
  <2>. QED  BY <2>2, <2>3
<1>11. ASSUME ~first, cursor > 0, newest <= cursor PROVE resync_at' # None /\ at < resync_at'
  <2>. SUFFICES ASSUME resync_at' = None \/ at >= resync_at' PROVE FALSE
    BY <1>1, <1>2, <1>4 DEF None
  <2>1. listener_ticks[l] # None /\ listener_ticks[l] > 0 /\ clock # None
    BY <1>2, <1>7, <1>11 DEF first
  <2>2. Tick * (cursor + 1) + clk <= at + Tick * ticks
    <3>1. at >= NextSlot(pumps[l], now)
      BY <1>4
    <3>2. Tick * (listener_ticks[l] + 1) + clk <= at + Tick * ticks
      BY <1>4, <1>10, <2>1, <3>1
    <3>. QED  BY <1>7, <1>11, <3>2
  <2>3. at < clk + Tick
    BY <1>4, <1>5, <2>1, Constant
  <2>4. newest > cursor
    BY <1>6, <1>7, <2>2, <2>3
  <2>. QED  BY <1>6, <1>7, <1>11, <2>4
<1>12. resync_at # None => resync_at' # None /\ resync_at <= resync_at'
  BY <1>1, <1>2, <1>4, <1>5 DEF None
<1>13. OncePerTick'
  <2>. SUFFICES ASSUME NEW m \in Participants, books'[m].again # None
                PROVE  resync_at' # None /\ books'[m].again < resync_at'
    BY DEF OncePerTick
  <2>1. books[m].again # None => resync_at # None /\ books[m].again < resync_at
    BY DEF PaceInv, OncePerTick
  <2>2. books[m].again \in Int
    BY <1>3 DEF Books
  <2>3. CASE books'[m].again = books[m].again
    BY <1>1, <1>2, <1>4, <1>12, <2>1, <2>2, <2>3
  <2>4. CASE books'[m].again # books[m].again
    <3>1. m = l /\ books'[m] = book
      BY <1>1, <1>3, <2>4
    <3>2. ~first /\ book = Entry(books[l], cursor, step, ticks, at)
      BY <3>1 DEF Book0
    <3>3. step.to = cursor /\ cursor > 0 /\ books'[m].again = at
      BY <2>4, <3>1, <3>2 DEF Entry
    <3>4. newest <= cursor
      BY <1>6, <1>7, <1>8, <3>3
    <3>. QED  BY <1>11, <3>2, <3>3, <3>4
  <2>. QED  BY <2>3, <2>4
<1>14. ASSUME NEW m \in Participants PROVE Ahead(m)'
  <2>. SUFFICES ASSUME listener_ticks'[m] # None, listener_ticks'[m] > 0, NEW x \in Nat,
                       x >= NextSlot(pumps'[m], now), resync_at' = None \/ x >= resync_at'
                PROVE  Tick * (listener_ticks'[m] + 1) + clk <= x + Tick * ticks
    BY <1>1 DEF Ahead
  <2>1. CASE m # l
    <3>1. listener_ticks'[m] = listener_ticks[m] /\ pumps'[m] = pumps[m]
      BY <1>1, <1>2, <1>3, <2>1
    <3>. QED  BY <1>10, <3>1
  <2>2. CASE m = l
    <3>1. listener_ticks'[m] = step.to /\ pumps'[m] = rest
      BY <1>1, <1>2, <1>3, <2>2
    <3>2. x >= at + Tick /\ x >= at
      BY <1>4, <3>1, Constant
    <3>3. CASE newest > cursor \/ first
      <4>1. newest > 0 /\ step.to <= newest
        BY <1>6, <1>7, <1>8, <1>9, <3>1, <3>3
      <4>2. Tick * (newest + 1) + clk <= x + Tick * ticks
        BY <1>6, <3>2, <4>1
      <4>3. step.to + 1 \in Int /\ newest + 1 \in Int /\ step.to + 1 <= newest + 1
        BY <1>6, <1>9, <4>1
      <4>4. Tick * (step.to + 1) <= Tick * (newest + 1)
        BY <4>3, TickOrder
      <4>5. Tick * (step.to + 1) \in Int /\ Tick * (newest + 1) \in Int /\ Tick * ticks \in Int
        BY <1>5, <1>6, <1>9, TickInt
      <4>. QED  BY <1>5, <3>1, <4>2, <4>4, <4>5
    <3>4. CASE ~(newest > cursor) /\ ~first
      <4>1. step.to = cursor /\ cursor = listener_ticks[l]
        BY <1>6, <1>7, <1>8, <3>4
      <4>2. listener_ticks[l] # None /\ listener_ticks[l] > 0 /\ x >= NextSlot(pumps[l], now)
        BY <1>4, <3>1, <3>2, <3>4, <4>1
      <4>. QED  BY <1>10, <3>1, <4>1, <4>2
    <3>. QED  BY <3>3, <3>4
  <2>. QED  BY <2>1, <2>2
<1>15. resync_at' \in Nat \union {None} /\ (resync_at' # None => clock' # None /\ resync_at' <= clock')
  BY <1>1, <1>2, <1>4, <1>5 DEF None
<1>16. clock' \in Nat /\ clock' # None
  BY <1>1, <1>5 DEF None
<1>17. pumps' \in [Participants -> Loops] /\ \A m \in Participants : LoopOk(pumps'[m], now')
  BY <1>1, <1>2, <1>4
<1>. QED  BY <1>1, <1>2, <1>13, <1>14, <1>15, <1>16, <1>17 DEF Clocked

LEMMA NextPaces == PaceInv /\ [Next]_vars => PaceInv'
<1>. SUFFICES ASSUME PaceInv, [Next]_vars PROVE Clocked' /\ OncePerTick'
  BY NextAccounts DEF PaceInv
<1>. DEFINE Later ==
       /\ clock' = clock /\ tick_count' = tick_count /\ resync_at' = resync_at /\ books' = books
       /\ now' \in Nat /\ pumps' \in [Participants -> Loops]
       /\ \A l \in Participants :
             /\ LoopOk(pumps'[l], now')
             /\ listener_ticks'[l] \in {listener_ticks[l], None}
             /\ NextSlot(pumps'[l], now') >= NextSlot(pumps[l], now)
<1>1. /\ now \in Nat /\ pumps \in [Participants -> Loops]
      /\ \A l \in Participants : LoopOk(pumps[l], now)
  BY DEF PaceInv, Clocked
<1>2. \A l \in Participants : NextSlot(pumps[l], now) \in Nat /\ NextSlot(pumps[l], now) <= now + Tick
  BY <1>1, NextSlotSoon
<1>3. ASSUME Later PROVE Clocked' /\ OncePerTick'
  BY <1>3, SlotsComeLater DEF PaceInv, AccountInv
<1>4. ASSUME UNCHANGED <<mixVars, now>>, NEW p \in Participants, NEW pump \in Loops,
             pumps' = [pumps EXCEPT ![p] = pump], LoopOk(pump, now),
             NextSlot(pump, now) >= NextSlot(pumps[p], now)
      PROVE  Later
  BY <1>1, <1>2, <1>4 DEF mixVars
<1>5. CASE Elapse
  <2>1. now' = now + 1 /\ pumps' = pumps /\ UNCHANGED mixVars
    BY <1>5 DEF Elapse
  <2>2. ASSUME NEW l \in Participants
        PROVE  LoopOk(pumps[l], now + 1) /\ NextSlot(pumps[l], now + 1) >= NextSlot(pumps[l], now)
    <3>1. pumps[l] \in Loops /\ LoopOk(pumps[l], now)
      BY <1>1
    <3>2. \A i \in 1 .. Len(pumps[l].due) : pumps[l].due[i] \in Nat
      BY <3>1 DEF Loops
    <3>3. pumps[l].st = "on" => pumps[l].anchor + Tick * pumps[l].written \in Nat
      BY <3>1, Constant DEF Loops
    <3>4. LoopOk(pumps[l], now + 1)
      BY <1>1, <3>1, <3>2, <3>3 DEF LoopOk
    <3>5. \/ NextSlot(pumps[l], now + 1) = NextSlot(pumps[l], now)
          \/ NextSlot(pumps[l], now) = now + Tick /\ NextSlot(pumps[l], now + 1) = now + 1 + Tick
      BY DEF NextSlot
    <3>. QED  BY <1>1, <1>2, <3>4, <3>5, Constant
  <2>3. Later
    BY <1>1, <2>1, <2>2 DEF mixVars
  <2>. QED  BY <1>3, <2>3
<1>6. ASSUME NEW p \in Participants, PumpStarts(p) PROVE Clocked' /\ OncePerTick'
  <2>. DEFINE pump == [st |-> "on", anchor |-> now, written |-> 0, due |-> <<>>]
  <2>1. /\ pumps' = [pumps EXCEPT ![p] = pump] /\ UNCHANGED <<mixVars, now>>
        /\ pumps[p].st = "off"
    BY <1>6 DEF PumpStarts
  <2>2. pumps[p].due = <<>> /\ NextSlot(pumps[p], now) = now + Tick
    BY <1>1, <2>1 DEF LoopOk, NextSlot
  <2>3. pump \in Loops /\ pump.due = <<>> /\ pump.st = "on" /\ pump.anchor = now /\ pump.written = 0
    BY <1>1 DEF Loops
  <2>. HIDE DEF pump
  <2>4. LoopOk(pump, now)
    <3>1. Len(pump.due) = 0
      BY <2>3
    <3>. QED  BY <1>1, <2>3, <3>1, Constant, MixAssumption DEF LoopOk
  <2>5. NextSlot(pump, now) = now + Tick
    BY <1>1, <2>3, Constant DEF NextSlot
  <2>6. NextSlot(pump, now) >= NextSlot(pumps[p], now)
    BY <1>1, <2>2, <2>5, Constant
  <2>7. Later
    BY <1>4, <2>1, <2>3, <2>4, <2>6
  <2>. QED  BY <1>3, <2>7
<1>7. ASSUME NEW p \in Participants, Wake(p) PROVE Clocked' /\ OncePerTick'
  <2>. DEFINE pump == DueSlots(pumps[p], now)
  <2>1. /\ pumps' = [pumps EXCEPT ![p] = pump] /\ UNCHANGED <<mixVars, now>>
        /\ pumps[p].st = "on" /\ pumps[p].due = <<>>
        /\ now >= pumps[p].anchor + Tick * (pumps[p].written + 1)
    BY <1>7 DEF Wake
  <2>2. pumps[p] \in Loops /\ LoopOk(pumps[p], now)
    BY <1>1
  <2>3. pump \in Loops /\ LoopOk(pump, now) /\ NextSlot(pump, now) >= NextSlot(pumps[p], now)
    BY <1>1, <2>1, <2>2, SlotsDue
  <2>. HIDE DEF pump
  <2>4. Later
    BY <1>4, <2>1, <2>3
  <2>. QED  BY <1>3, <2>4
<1>8. ASSUME NEW p \in Participants, Render(p) PROVE Clocked' /\ OncePerTick'
  BY <1>8, RenderPaces
<1>9. ASSUME NEW p \in Participants, PumpEnds(p) \/ AbortTakesEffect(p) PROVE Clocked' /\ OncePerTick'
  <2>1. PICK pump \in {Off, [Off EXCEPT !.st = "ended"]} :
             pumps' = [pumps EXCEPT ![p] = pump] /\ UNCHANGED <<mixVars, now>>
    BY <1>9 DEF PumpEnds, AbortTakesEffect
  <2>2. pump \in Loops /\ pump.due = <<>> /\ pump.st \in {"off", "ended"}
    <3>1. CASE pump = Off
      BY <3>1 DEF Off, Loops
    <3>2. CASE pump = [Off EXCEPT !.st = "ended"]
      <4>1. pump = [st |-> "ended", anchor |-> 0, written |-> 0, due |-> <<>>]
        BY <3>2 DEF Off
      <4>. QED  BY <4>1 DEF Loops
    <3>. QED  BY <2>1, <3>1, <3>2
  <2>3. LoopOk(pump, now)
    <3>1. Len(pump.due) = 0
      BY <2>2
    <3>. QED  BY <2>2, <3>1, MixAssumption DEF LoopOk
  <2>4. NextSlot(pump, now) = now + Tick
    BY <2>2 DEF NextSlot
  <2>5. NextSlot(pump, now) >= NextSlot(pumps[p], now)
    BY <1>1, <1>2, <2>4, Constant
  <2>6. Later
    BY <1>4, <2>1, <2>2, <2>3, <2>5
  <2>. QED  BY <1>3, <2>6
<1>10. ASSUME NEW p \in Participants, AddInput(p) PROVE Clocked' /\ OncePerTick'
  <2>1. Later
    BY <1>1, <1>2, <1>10 DEF AddInput
  <2>. QED  BY <1>3, <2>1
<1>11. ASSUME NEW p \in Participants, Leave(p) PROVE Clocked' /\ OncePerTick'
  <2>. DEFINE pump == [pumps[p] EXCEPT !.st = "aborted"]
  <2>1. /\ pumps' = [pumps EXCEPT ![p] = pump]
        /\ listener_ticks' = [listener_ticks EXCEPT ![p] = None]
        /\ UNCHANGED <<clock, tick_count, resync_at, books, now>>
        /\ pumps[p].st \in {"on", "ended"}
    BY <1>11 DEF Leave
  <2>2. pumps[p] \in Loops /\ LoopOk(pumps[p], now)
    BY <1>1
  <2>3. /\ pump \in Loops /\ pump.st = "aborted" /\ pump.due = pumps[p].due
        /\ pump.anchor = pumps[p].anchor /\ pump.written = pumps[p].written
    BY <2>2 DEF Loops
  <2>. HIDE DEF pump
  <2>4. LoopOk(pump, now)
    BY <2>2, <2>3 DEF LoopOk
  <2>5. NextSlot(pump, now) >= NextSlot(pumps[p], now)
    <3>1. NextSlot(pump, now) = NextSlot(pumps[p], now) \/ NextSlot(pump, now) = now + Tick
      BY <2>3 DEF NextSlot
    <3>. QED  BY <1>1, <1>2, <3>1, Constant
  <2>6. \A l \in Participants : listener_ticks'[l] \in {listener_ticks[l], None}
    BY <2>1 DEF PaceInv, AccountInv, Typed
  <2>7. Later
    BY <1>1, <1>2, <2>1, <2>3, <2>4, <2>5, <2>6
  <2>. QED  BY <1>3, <2>7
<1>12. ASSUME NEW p \in Participants, NEW target \in Targets, PushFrame(p, target)
       PROVE  Clocked' /\ OncePerTick'
  <2>1. /\ UNCHANGED <<tick_count, listener_ticks, resync_at, books, now, pumps>>
        /\ clock' = IF clock = None THEN now ELSE clock
    BY <1>12 DEF PushFrame
  <2>2. CASE clock # None
    <3>1. Later
      BY <1>1, <1>2, <2>1, <2>2
    <3>. QED  BY <1>3, <3>1
  <2>3. CASE clock = None
    <3>1. resync_at = None /\ \A l \in Participants : listener_ticks[l] = None
      BY <2>3 DEF PaceInv, Clocked
    <3>2. clock' = now
      BY <2>1, <2>3
    <3>. QED  BY <1>1, <2>1, <3>1, <3>2 DEF PaceInv, Clocked, Ahead, OncePerTick
  <2>. QED  BY <2>2, <2>3
<1>13. CASE UNCHANGED vars
  <2>1. Later
    BY <1>1, <1>2, <1>13 DEF vars, mixVars
  <2>. QED  BY <1>3, <2>1
<1>. QED  BY <1>5, <1>6, <1>7, <1>8, <1>9, <1>10, <1>11, <1>12, <1>13 DEF Next

\* next_listener_step, render_output and pacer.rs due_slots: for any number of listeners
\* and loops that stall, catch up, end, or are aborted in any order, no listener plays a
\* tick twice but for a slot behind the place the clock was resynced to.
THEOREM PlayedOnce == Spec => []OncePerTick
<1>1. PaceInv => OncePerTick
  BY DEF PaceInv
<1>. QED  BY InitPace, NextPaces, <1>1, PTL DEF Spec

-----------------------------------------------------------------------------
(* The sources beside the clock. *)

GraphInv == PaceInv /\ SourcesOk

LEMMA GraphAlways == Spec => []GraphInv
<1>1. Init => GraphInv
  BY InitPace, SourcesInit DEF GraphInv
<1>2. GraphInv /\ [Next]_vars => GraphInv'
  <2>1. GraphInv => now \in Nat
    BY DEF GraphInv, PaceInv, Clocked
  <2>. QED  BY NextPaces, SourcesStep, <2>1 DEF GraphInv, PaceInv
<1>. QED  BY <1>1, <1>2, PTL DEF Spec

\* elastic.rs "Accounting invariant" and the merge, overflow, underrun and prefill of a
\* queue: whatever jitter the pushes have and however many ticks a render runs, what a
\* source has played and still holds are all its frames up to the latest, in order, and its
\* counters add up.
THEOREM FramesKept == Spec => []FramesConserved
<1>1. GraphInv => FramesConserved
  BY ConservedNow DEF GraphInv
<1>. QED  BY GraphAlways, <1>1, PTL

\* elastic.rs QUEUE_CAPACITY, graph.rs HISTORY_TICKS, pacer.rs MAX_BURST_WRITES: no queue,
\* history or burst grows beyond its limit, whatever the room does.
THEOREM GraphTyped == Spec => []TypeOK
<1>1. GraphInv => TypeOK
  <2>. SUFFICES ASSUME GraphInv PROVE TypeOK  OBVIOUS
  <2>1. /\ now \in Nat /\ tick_count \in Nat
        /\ clock \in Nat \union {None} /\ resync_at \in Nat \union {None}
        /\ listener_ticks \in [Participants -> Nat \union {None}]
    BY DEF GraphInv, PaceInv, Clocked, AccountInv, Typed
  <2>2. ASSUME NEW p \in DOMAIN inputs
        PROVE  /\ Len(inputs[p].queue.frames) <= QUEUE_CAPACITY
               /\ inputs[p].queue.target \in Targets
               /\ Len(inputs[p].history) <= HISTORY_TICKS
    BY DEF GraphInv, SourcesOk, SlotOk, QueueOk, Queues, Played
  <2>3. ASSUME NEW l \in Participants
        PROVE  /\ pumps[l].st \in {"off", "on", "ended", "aborted"}
               /\ Len(pumps[l].due) <= MAX_BURST_WRITES
               /\ books[l].heard \in Nat /\ books[l].skipped \in Nat
    <3>1. pumps[l] \in Loops /\ LoopOk(pumps[l], now) /\ books[l] \in Books
      BY DEF GraphInv, PaceInv, Clocked, AccountInv, Typed
    <3>. QED  BY <3>1 DEF Loops, LoopOk, Books
  <2>. QED  BY <2>1, <2>2, <2>3 DEF TypeOK
<1>. QED  BY GraphAlways, <1>1, PTL

=============================================================================
