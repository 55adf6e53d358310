----------------------------- MODULE ElasticQueue -----------------------------
(***************************************************************************)
(* The elastic frame queue of one mix source (crates/mixer/src/elastic.rs) *)
(* as operators on one value. A frame is the set of the source's frames it *)
(* carries: {k} is the k-th frame pushed, a merge carries two, {} is       *)
(* silence. The jitter estimate is a number the model leaves open: a push  *)
(* sets any target between the two bounds.                                 *)
(***************************************************************************)
EXTENDS Integers, Sequences, FiniteSets

CONSTANTS
    QUEUE_CAPACITY,
    MIN_TARGET_FRAMES, MAX_TARGET_FRAMES,
    SHRINK_MARGIN_FRAMES, SHRINK_AFTER_TICKS,
    REPREFILL_AFTER_EMPTY_TICKS,
    TALKSPURT_GAP        \* in the units of the clock

ASSUME QueueAssumption ==
    /\ QUEUE_CAPACITY \in Nat /\ QUEUE_CAPACITY >= 2
    /\ MIN_TARGET_FRAMES \in Nat \ {0} /\ MAX_TARGET_FRAMES \in Nat
    /\ MIN_TARGET_FRAMES <= MAX_TARGET_FRAMES
    /\ SHRINK_MARGIN_FRAMES \in Nat /\ SHRINK_AFTER_TICKS \in Nat
    /\ REPREFILL_AFTER_EMPTY_TICKS \in Nat /\ TALKSPURT_GAP \in Nat

None == -1
Silence == {}
Targets == MIN_TARGET_FRAMES .. MAX_TARGET_FRAMES

Queue0 ==
    [frames |-> <<>>,
     prefilling |-> TRUE, prefill_waited |-> 0,
     over_ticks |-> 0, empty_ticks |-> 0,
     last_arrival |-> None,
     target |-> MIN_TARGET_FRAMES,
     pushed |-> 0, played |-> 0, compressed |-> 0, overflow_compressed |-> 0,
     out |-> Silence]     \* the frame of the latest pop

\* merge_pair: one frame for two, or the louder one of them. Either way both are
\* taken, and both are accounted for as one played and one absorbed.
MergePair(a, b) == a \union b

\* update_jitter: after a pause the next frames wait for the prefill again.
UpdateJitter(q, now, target) ==
    LET first == q.last_arrival = None
        pause == ~first /\ now - q.last_arrival > TALKSPURT_GAP
    IN  [q EXCEPT !.last_arrival = now,
                  !.prefilling = @ \/ pause,
                  !.prefill_waited = IF pause THEN 0 ELSE @,
                  !.target = IF first \/ pause THEN @ ELSE target]

\* At capacity the two oldest frames become one.
MakeRoom_DropsOldest(q) ==
    IF Len(q.frames) < QUEUE_CAPACITY THEN q
    ELSE [q EXCEPT !.frames = Tail(@), !.overflow_compressed = @ + 1]
MakeRoom(q) ==
    IF Len(q.frames) < QUEUE_CAPACITY THEN q
    ELSE [q EXCEPT !.frames = <<MergePair(q.frames[1], q.frames[2])>>
                                \o SubSeq(@, 3, Len(@)),
                   !.overflow_compressed = @ + 1]

Push(q, now, target) ==
    LET room == MakeRoom(UpdateJitter(q, now, target))
    IN  [room EXCEPT !.frames = Append(@, {q.pushed + 1}), !.pushed = @ + 1]

(***************************************************************************)
(* pop: the frame of one media tick.                                       *)
(***************************************************************************)
\* The head plays alone; a queue that has been too long for a while gives two.
PopFrame(q) ==
    LET over == IF Len(q.frames) > q.target + SHRINK_MARGIN_FRAMES THEN q.over_ticks + 1 ELSE 0
        slim == over >= SHRINK_AFTER_TICKS /\ Len(q.frames) > 1
    IN  [q EXCEPT !.over_ticks = over, !.empty_ticks = 0,
                  !.out = IF slim THEN MergePair(q.frames[1], q.frames[2]) ELSE Head(q.frames),
                  !.frames = SubSeq(@, IF slim THEN 3 ELSE 2, Len(@)),
                  !.compressed = @ + (IF slim THEN 1 ELSE 0),
                  !.played = @ + 1]

\* An empty queue replays its last frame once, faded; that is no source frame.
Underrun(q) ==
    LET empty == [q EXCEPT !.over_ticks = 0, !.empty_ticks = @ + 1, !.out = Silence]
    IN  IF empty.empty_ticks >= REPREFILL_AFTER_EMPTY_TICKS
          THEN [empty EXCEPT !.prefilling = TRUE, !.prefill_waited = 0]
        ELSE empty

\* The prefill ends when enough is queued, or the oldest frame waited long enough.
PrefillEnds(q, waited) ==
    Len(q.frames) >= q.target \/ (q.frames # <<>> /\ waited >= q.target)

Pop(q) ==
    LET waited == IF q.frames # <<>> THEN q.prefill_waited + 1 ELSE q.prefill_waited
    IN  IF q.prefilling /\ ~PrefillEnds(q, waited)
          THEN [q EXCEPT !.prefill_waited = waited, !.out = Silence]
          ELSE LET playing == [q EXCEPT !.prefilling = FALSE,
                                        !.prefill_waited = IF q.prefilling THEN 0 ELSE @]
               IN  IF q.frames = <<>> THEN Underrun(playing) ELSE PopFrame(playing)

=============================================================================
