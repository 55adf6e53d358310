------------------------------ MODULE TtsBuffer ------------------------------
(***************************************************************************)
(* The outbound PCM buffer of one VoiceAgent and its ledger of replies     *)
(* (crates/speech/src/tts_buffer.rs), as operators on one value: each      *)
(* operator is one critical section of the buffer's mutex.                 *)
(* A PCM unit is the finest amount of audio the model tells apart; it is   *)
(* written as the reply it was synthesized for, so a byte can be followed  *)
(* from the vendor to the outbound track. FrameUnits units make a 20 ms    *)
(* frame. Every reply carries a reply id.                                  *)
(***************************************************************************)
EXTENDS Integers, Sequences, FiniteSets

CONSTANT FrameUnits      \* units in one outbound frame

ASSUME FrameAssumption == FrameUnits \in Nat \ {0}

\* A chunk of `units` units of reply r.
Chunk(r, units) == [reply |-> r, units |-> units]

Buffer0 ==
    [queue |-> <<>>,         \* chunks waiting for the drain
     speaking |-> FALSE,
     producing |-> FALSE,    \* a synthesis job may still push chunks
     held |-> FALSE,         \* the drain has a popped chunk in hand
     carry |-> <<>>,         \* the incomplete frame between two drain passes
     generation |-> 0,       \* flushes so far
     ledger |-> <<>>,        \* replies in queue order, with units queued and played
     flushed |-> <<>>]       \* replies flushed, their reply ends not yet emitted

LedgerEntry(r, queued) ==
    [reply |-> r, queued |-> queued, played |-> 0, started |-> FALSE, complete |-> FALSE]

\* enqueue_tagged_if_generation: the caller checks Accepts under the same lock.
Accepts(buf, generation) == buf.generation = generation
Enqueue(buf, chunk) ==
    LET n == Len(buf.ledger)
        tailMatches == n > 0 /\ buf.ledger[n].reply = chunk.reply /\ ~buf.ledger[n].complete
    IN  [buf EXCEPT !.speaking = TRUE,
                    !.queue = Append(@, chunk),
                    !.ledger = IF tailMatches
                                 THEN [buf.ledger EXCEPT ![n].queued = @ + chunk.units]
                                 ELSE Append(@, LedgerEntry(chunk.reply, chunk.units))]

\* mark_reply_complete: the last entry of the reply, if it is still booked.
MarkComplete(buf, r) ==
    LET mine == {i \in DOMAIN buf.ledger : buf.ledger[i].reply = r}
        isLast(i) == \A j \in mine : j <= i
    IN  [buf EXCEPT !.ledger = [i \in DOMAIN @ |->
            IF i \in mine /\ isLast(i) THEN [@[i] EXCEPT !.complete = TRUE] ELSE @[i]]]

\* An entry ends only when it is complete and fully played: an underrun of a
\* progressive reply does not end it.
IsOver(entry) == entry.complete /\ entry.started /\ entry.played >= entry.queued

\* One entry in the loop of consume_played: oldest reply first; the first entry that
\* is not over stops it.
BookEntry(acc, entry) ==
    LET open == entry.queued - entry.played
        take == IF acc.left < open THEN acc.left ELSE open
        booked == [entry EXCEPT !.played = @ + take, !.started = @ \/ take > 0]
        ends == IsOver(booked)
    IN  IF acc.stopped
          THEN [acc EXCEPT !.ledger = Append(@, entry)]
          ELSE [ledger |-> IF ends THEN acc.ledger ELSE Append(acc.ledger, booked),
                left |-> acc.left - take,
                stopped |-> ~ends,
                started |-> IF take > 0 /\ ~entry.started
                              THEN acc.started \union {entry.reply} ELSE acc.started,
                ended |-> IF ends THEN acc.ended \union {entry.reply} ELSE acc.ended]

\* consume_played: book n written units. Returns the remaining ledger and the
\* replies that started and ended.
ConsumePlayed(ledger, n) ==
    LET after[i \in 0 .. Len(ledger)] ==
          IF i = 0
            THEN [ledger |-> <<>>, left |-> n, stopped |-> FALSE, started |-> {}, ended |-> {}]
            ELSE BookEntry(after[i - 1], ledger[i])
    IN  after[Len(ledger)]

\* set_producing
SetProducing(buf, producing) ==
    [buf EXCEPT !.producing = producing,
                !.speaking = IF producing THEN TRUE ELSE IF buf.queue = <<>> THEN FALSE ELSE @]

\* flush: the replies it drops are those in the ledger.
LedgerReplies(buf) == [i \in DOMAIN buf.ledger |-> buf.ledger[i].reply]
Flush(buf) == [Buffer0 EXCEPT !.generation = buf.generation + 1,
                              !.flushed = buf.flushed \o LedgerReplies(buf)]

\* take_flushed_replies
TakeFlushed(buf) == [buf EXCEPT !.flushed = <<>>]

\* pop_chunk through a drain hold
Pop(buf) ==
    IF buf.queue = <<>>
      THEN [buf EXCEPT !.speaking = @ /\ buf.producing]
      ELSE [buf EXCEPT !.queue = Tail(@), !.held = TRUE]

\* TtsDrainHold::drop
DropHold(buf) == [buf EXCEPT !.held = FALSE]

TakeCarry(buf) == [buf EXCEPT !.carry = <<>>]
StoreCarry(buf, carry) == [buf EXCEPT !.carry = carry]

IsSpeaking(buf) == buf.speaking \/ buf.producing \/ buf.held

\* The units of some replies in a piece of audio.
UnitsOf(pcm, replies) == Cardinality({i \in DOMAIN pcm : pcm[i] \in replies})

\* The units of a chunk, and the complete frames at the front of a carry.
Units(chunk) == [i \in 1 .. chunk.units |-> chunk.reply]
FrameCount(carry) == Len(carry) \div FrameUnits
FrameAt(carry, i) == SubSeq(carry, (i - 1) * FrameUnits + 1, i * FrameUnits)
Frames(carry) == [i \in 1 .. FrameCount(carry) |-> FrameAt(carry, i)]
Remainder_Whole(carry) == carry
Remainder(carry) == SubSeq(carry, FrameCount(carry) * FrameUnits + 1, Len(carry))

=============================================================================
