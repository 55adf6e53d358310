--------------------------- MODULE InboundReorder ---------------------------
(***************************************************************************)
(* The RTP reorder buffer of one inbound audio track                       *)
(* (crates/core/src/inbound_audio/reorder.rs), as operators on one value.  *)
(* A packet is the position the sender gave it in its stream; the buffer   *)
(* sees only the sequence number, the position modulo SeqSpace, and unwraps  *)
(* it against the highest number it has seen. Packet is the inverse a      *)
(* reader of the model has and the code has not: the payload a number      *)
(* stands for is what the buffer carries next to it.                       *)
(***************************************************************************)
EXTENDS Integers, Sequences, FiniteSets, SequencesExt, FiniteSetsExt

CONSTANTS
    SeqSpace,              \* 2^16 in the code
    ResetJump,           \* RESET_JUMP
    MaxHeld,             \* MAX_HELD
    MaxLostRanges,       \* MAX_LOST_RANGES
    MinWait, MaxWait,    \* MIN_WAIT, MAX_WAIT
    WaitMargin,          \* WAIT_MARGIN
    ObservationWindow,   \* OBSERVATION_WINDOW
    MaxObservations      \* MAX_OBSERVATIONS

ASSUME ReorderAssumption ==
    /\ SeqSpace \in Nat /\ SeqSpace % 2 = 0
    /\ MaxHeld \in Nat \ {0} /\ ResetJump \in Nat
    /\ MaxHeld < ResetJump /\ 2 * ResetJump < SeqSpace
    /\ MaxLostRanges \in Nat \ {0} /\ MaxObservations \in Nat \ {0}
    /\ MinWait \in Nat \ {0} /\ MaxWait \in Nat /\ MinWait <= MaxWait
    /\ WaitMargin \in Nat /\ ObservationWindow \in Nat

None == -1

\* StageOut: the next packet in order, or a run of packets declared lost.
Packet(pos) == [kind |-> "packet", pos |-> pos, count |-> 1]
Lost(count) == [kind |-> "lost", pos |-> None, count |-> count]

NothingHeld == [ext \in {} |-> [pos |-> 0, arrived |-> 0]]

Buffer0 ==
    [started |-> FALSE,      \* next is Some
     next |-> 0,             \* the extended number to emit next
     max_ext |-> 0,          \* the highest one seen
     held |-> NothingHeld,   \* by extended number: packet and arrival
     ready |-> <<>>,         \* output not yet taken
     gap_since |-> None,     \* since when the head of held waits
     lost_ranges |-> <<>>,
     observations |-> <<>>,  \* how late packets were, and when that was seen
     wait |-> MinWait,
     discarded |-> 0,        \* packets_discarded
     resets |-> 0]

HeldNumbers(b) == DOMAIN b.held
Head0(b) == Min(HeldNumbers(b))

LastOf(s, n) == SubSeq(s, IF Len(s) > n THEN Len(s) - n + 1 ELSE 1, Len(s))

\* The difference of two sequence numbers as a signed number of half the width.
Signed(d) == LET u == d % SeqSpace IN IF u < SeqSpace \div 2 THEN u ELSE u - SeqSpace
\* The extended number: the one nearest to max_ext. (A plain difference forgets
\* that the numbers wrap.)
SeqDiff_Plain(b, pos) == (pos % SeqSpace) - (b.max_ext % SeqSpace)
SeqDiff(b, pos) == Signed((pos % SeqSpace) - b.max_ext)

(***************************************************************************)
(* The adaptive wait: the longest recent delay and a margin, clamped.      *)
(***************************************************************************)
Clamp_NoCap(x, low, high) == IF x < low THEN low ELSE x
Clamp(x, low, high) == IF x < low THEN low ELSE IF x > high THEN high ELSE x

RefreshWait(b, now) ==
    LET obs == b.observations
        fresh == {i \in DOMAIN obs : now - obs[i].at < ObservationWindow}
        recent == IF fresh = {} THEN <<>> ELSE SubSeq(obs, Min(fresh), Len(obs))
        longest == Max({0} \union {recent[i].delay : i \in DOMAIN recent})
    IN  [b EXCEPT !.observations = recent,
                  !.wait = Clamp(longest + WaitMargin, MinWait, MaxWait)]

Observe(b, now, delay) ==
    RefreshWait([b EXCEPT !.observations =
                    LastOf(Append(@, [at |-> now, delay |-> delay]), MaxObservations)], now)

(***************************************************************************)
(* Emission. A held packet comes out when all held below it have and the   *)
(* gap below it, if there is one, is over: it has waited long enough, or   *)
(* too much is held from there on. Then the gap is declared lost.          *)
(***************************************************************************)
\* The number of the packet, or of the gap, below a held one.
Below(b, ext) == Max({b.next - 1} \union {e \in HeldNumbers(b) : e < ext})
HasGap(b, ext) == Below(b, ext) < ext - 1

\* Since when the gap below a held packet waits.
Since(b, ext) ==
    IF ext = Head0(b) /\ b.gap_since # None THEN b.gap_since ELSE b.held[ext].arrived

GapIsOver_AtCapacity(b, ext, now) ==
    \/ now >= Since(b, ext) + b.wait
    \/ Cardinality({e \in HeldNumbers(b) : e >= ext}) >= MaxHeld
GapIsOver(b, ext, now) ==
    \/ now >= Since(b, ext) + b.wait
    \/ Cardinality({e \in HeldNumbers(b) : e >= ext}) > MaxHeld

\* The wait of the head that remains once some packets are emitted.
NextGapSince(b, exts) ==
    LET kept == HeldNumbers(b) \ exts
    IN  IF kept = {} THEN None
        ELSE IF exts = {} THEN Since(b, Head0(b))
        ELSE b.held[Min(kept)].arrived

InOrder(exts) ==
    CHOOSE s \in [1 .. Cardinality(exts) -> exts] : \A i, j \in DOMAIN s : i < j => s[i] < s[j]

\* Emit the held packets of a set that holds with a packet all held below it.
EmitHeld(b, exts) ==
    LET order == InOrder(exts)
        gaps == InOrder({ext \in exts : HasGap(b, ext)})
        kept == HeldNumbers(b) \ exts
        Out(ext) == (IF HasGap(b, ext) THEN <<Lost(ext - Below(b, ext) - 1)>> ELSE <<>>)
                      \o <<Packet(b.held[ext].pos)>>
        Range0(ext) == [start |-> Below(b, ext) + 1, end |-> ext, gap_since |-> Since(b, ext)]
    IN  [b EXCEPT !.next = Max({@} \union {ext + 1 : ext \in exts}),
                  !.held = [ext \in kept |-> @[ext]],
                  !.ready = @ \o FlattenSeq([i \in DOMAIN order |-> Out(order[i])]),
                  !.lost_ranges = LastOf(@ \o [i \in DOMAIN gaps |-> Range0(gaps[i])],
                                         MaxLostRanges),
                  !.gap_since = NextGapSince(b, exts)]

Advance(b, now) ==
    LET passes(ext) == HasGap(b, ext) => GapIsOver(b, ext, now)
    IN  EmitHeld(b, {ext \in HeldNumbers(b) :
                        \A e \in HeldNumbers(b) : e <= ext => passes(e)})

FlushHeld(b) == EmitHeld(b, HeldNumbers(b))

\* The stream starts over at this packet.
Rebase(b, pos) ==
    [b EXCEPT !.started = TRUE, !.next = (pos % SeqSpace) + 1, !.max_ext = pos % SeqSpace,
              !.ready = Append(@, Packet(pos))]
Reset(b, pos) ==
    Rebase([FlushHeld(b) EXCEPT !.lost_ranges = <<>>, !.resets = @ + 1], pos)

(***************************************************************************)
(* push                                                                    *)
(***************************************************************************)
\* A duplicate, or a packet whose gap was declared lost: what it says about the
\* wait is kept, the packet is not.
Discard(b, ext, now) ==
    LET dropped == [b EXCEPT !.discarded = @ + 1]
        late == {i \in DOMAIN b.lost_ranges :
                    b.lost_ranges[i].start <= ext /\ ext < b.lost_ranges[i].end}
    IN  IF ext < b.next /\ late # {}
          THEN Observe(dropped, now, Max({0, now - b.lost_ranges[Min(late)].gap_since}))
          ELSE dropped

Hold(b, ext, pos, now) ==
    LET filled == IF ext = b.next /\ b.gap_since # None
                    THEN Observe(b, now, now - b.gap_since) ELSE b
    IN  [filled EXCEPT !.held = [e \in HeldNumbers(b) \union {ext} |->
            IF e = ext THEN [pos |-> pos, arrived |-> now] ELSE b.held[e]]]

Accept(b, ext, pos, now) ==
    LET seen == [b EXCEPT !.max_ext = Max({@, ext})]
    IN  IF ext = b.next /\ HeldNumbers(b) = {}
          THEN [seen EXCEPT !.next = ext + 1, !.ready = Append(@, Packet(pos))]
          ELSE Advance(Hold(seen, ext, pos, now), now)

IsStale(b, ext) == ext < b.next \/ ext \in HeldNumbers(b)

Push(buffer, pos, now) ==
    LET b == RefreshWait(buffer, now)
        diff == SeqDiff(b, pos)
        ext == b.max_ext + diff
    IN  IF ~b.started THEN Rebase(b, pos)
        ELSE IF diff > ResetJump \/ -diff > ResetJump THEN Reset(b, pos)
        ELSE IF IsStale(b, ext) THEN Discard(b, ext, now)
        ELSE Accept(b, ext, pos, now)

\* poll and flush leave their output in ready; Drained takes it.
Poll(b, now) == Advance(RefreshWait(b, now), now)
Drained(b) == [b EXCEPT !.ready = <<>>]

\* next_deadline: None when nothing is held.
NextDeadline_OffByOne(b) ==
    IF Cardinality(HeldNumbers(b)) <= 1 \/ b.gap_since = None THEN None ELSE b.gap_since + b.wait
NextDeadline(b) ==
    IF HeldNumbers(b) = {} \/ b.gap_since = None THEN None ELSE b.gap_since + b.wait

=============================================================================
