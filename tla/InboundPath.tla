----------------------------- MODULE InboundPath -----------------------------
(***************************************************************************)
(* The way of a caller's audio from the network to the agent:              *)
(*   - the reader task of the inbound stage takes RTP packets off the      *)
(*     track and sends them over an unbounded channel                      *)
(*     (crates/core/src/inbound_audio/stage.rs);                           *)
(*   - read_sample pushes them through the reorder buffer and decodes or   *)
(*     conceals what comes out;                                            *)
(*   - the inbound pump (crates/speech/src/inbound_pump.rs) reads samples  *)
(*     on one task and feeds the agent on another, with a queue between;   *)
(*   - the bindings start and abort the pump                               *)
(*     (packages/bindings/src/speech/voice_agent.rs).                      *)
(* The network loses, duplicates and reorders. A sample is written as the  *)
(* buffer output it was made of. The raw path (NWR_INBOUND_REORDER=0) and  *)
(* gauges are left out.                                                    *)
(***************************************************************************)
EXTENDS InboundReorder

CONSTANTS
    TailFrames,          \* INBOUND_SILENCE_TAIL_FRAMES
    Scopes               \* what a behaviour may meet: one of these bounds

\* A scope gives the positions the sender's packets have, how often one may
\* arrive, the time until which packets arrive, whether the track may end and
\* whether the agent may be stopped.
ASSUME PathAssumption ==
    /\ TailFrames \in Nat
    /\ \A s \in Scopes :
         /\ s.stream \subseteq Nat /\ IsFiniteSet(s.stream)
         /\ s.copies \in Nat /\ s.horizon \in Nat
         /\ s.may_end \in BOOLEAN /\ s.may_stop \in BOOLEAN

VARIABLES
    scope,
    now,
    track,               \* "open", or the class of error its reader ended with
    arrived,             \* how often the reader got each packet (history)
    rx,                  \* the channel from the reader task to the stage
    stage,               \* StageState, and where read_sample is
    running,             \* the agent's flag the pump polls
    pump,                \* locals of the pump's reader task
    fed,                 \* what the pump queued for the agent, in order
    processed            \* how much of it the agent has been fed; None: aborted

network == <<track, arrived>>
vars == <<scope, now, network, rx, stage, running, pump, fed, processed>>

Silence == [kind |-> "silence", pos |-> None, count |-> 1]
TrackErrors == {"stream_end", "other_error"}

Rtp(pos) == [kind |-> "rtp", pos |-> pos]
RtpEnd == [kind |-> "end", pos |-> None]

Init ==
    /\ scope \in Scopes
    /\ now = 0
    /\ track = "open"
    /\ arrived = [pos \in scope.stream |-> 0]
    /\ rx = <<>>
    /\ stage = [buf |-> Buffer0, pending |-> <<>>, ended |-> FALSE, at |-> "scan"]
    /\ running = TRUE
    /\ pump = [pc |-> "read", awaiting_next_burst |-> FALSE, tail |-> 0]
    /\ fed = <<>>
    /\ processed = 0

(***************************************************************************)
(* The network, the track's reader task, and time.                         *)
(***************************************************************************)
Arrive(pos) ==
    /\ track = "open" /\ now <= scope.horizon
    /\ arrived[pos] < scope.copies
    /\ arrived' = [arrived EXCEPT ![pos] = @ + 1]
    /\ rx' = Append(rx, Rtp(pos))
    /\ UNCHANGED <<scope, now, track, stage, running, pump, fed, processed>>

TrackEnds ==
    /\ scope.may_end /\ track = "open"
    /\ track' \in TrackErrors
    /\ rx' = Append(rx, RtpEnd)
    /\ UNCHANGED <<scope, now, arrived, stage, running, pump, fed, processed>>

\* Time passes; beyond the horizon only for a deadline that is due later.
Tick ==
    /\ now < scope.horizon \/ NextDeadline(stage.buf) > now
    /\ now' = now + 1
    /\ UNCHANGED <<scope, network, rx, stage, running, pump, fed, processed>>

(***************************************************************************)
(* read_sample, called by the pump's reader: pending output first, then a  *)
(* poll of the buffer, then the rest at the end, then a wait for a packet  *)
(* or the deadline.                                                        *)
(***************************************************************************)
Reading == pump.pc = "read"

AfterRead == IF running THEN "read" ELSE "done"

\* A sample is returned; the pump queues it.
DeliverSample ==
    /\ Reading /\ stage.pending # <<>>
    /\ stage' = [stage EXCEPT !.pending = Tail(@), !.at = "scan"]
    /\ fed' = Append(fed, Head(stage.pending))
    /\ pump' = [pump EXCEPT !.pc = AfterRead, !.awaiting_next_burst = FALSE]
    /\ UNCHANGED <<scope, now, network, rx, running, processed>>

Scanning == Reading /\ stage.pending = <<>> /\ stage.at = "scan"
Polled == Poll(stage.buf, now)
Flushed == FlushHeld(Polled)
\* What the scan finds: ordered output, or at the end everything held.
Found_NoFlush == Polled
Found == IF stage.ended THEN Flushed ELSE Polled

ScanFinds ==
    /\ Scanning /\ Found.ready # <<>>
    /\ stage' = [stage EXCEPT !.buf = Drained(Found), !.pending = Found.ready]
    /\ UNCHANGED <<scope, now, network, rx, running, pump, fed, processed>>

ScanWaits ==
    /\ Scanning /\ Found.ready = <<>> /\ ~stage.ended
    /\ stage' = [stage EXCEPT !.buf = Found, !.at = "select"]
    /\ UNCHANGED <<scope, now, network, rx, running, pump, fed, processed>>

\* read_sample fails with the reader's error, now and at every later call: the
\* pump answers the first stream end of a burst with a tail of silence.
ScanFails ==
    /\ Scanning /\ Found.ready = <<>> /\ stage.ended
    /\ stage' = [stage EXCEPT !.buf = Found]
    /\ LET tail == track = "stream_end" /\ ~pump.awaiting_next_burst
       IN  pump' = [pc |-> IF tail THEN "tail" ELSE "pause",
                    awaiting_next_burst |-> pump.awaiting_next_burst \/ tail,
                    tail |-> IF tail THEN TailFrames ELSE 0]
    /\ UNCHANGED <<scope, now, network, rx, running, fed, processed>>

Receive ==
    /\ Reading /\ stage.at = "select" /\ rx # <<>>
    /\ rx' = Tail(rx)
    /\ stage' = IF Head(rx) = RtpEnd
                  THEN [stage EXCEPT !.ended = TRUE, !.at = "scan"]
                  ELSE [stage EXCEPT !.buf = Push(@, Head(rx).pos, now), !.at = "scan"]
    /\ UNCHANGED <<scope, now, network, running, pump, fed, processed>>

DeadlinePasses ==
    /\ Reading /\ stage.at = "select"
    /\ NextDeadline(stage.buf) # None /\ now >= NextDeadline(stage.buf)
    /\ stage' = [stage EXCEPT !.at = "scan"]
    /\ UNCHANGED <<scope, now, network, rx, running, pump, fed, processed>>

ReadSample ==
    DeliverSample \/ ScanFinds \/ ScanWaits \/ ScanFails \/ Receive \/ DeadlinePasses

(***************************************************************************)
(* The rest of the pump's reader task.                                     *)
(***************************************************************************)
\* One frame of the tail, or its end: all were queued, or the agent stopped.
FrameLeft_OffByOne == pump.tail > 1
FrameLeft == pump.tail > 0
TailFrame ==
    /\ pump.pc = "tail"
    /\ IF FrameLeft /\ running
         THEN /\ fed' = Append(fed, Silence)
              /\ pump' = [pump EXCEPT !.tail = @ - 1]
         ELSE /\ pump' = [pump EXCEPT !.pc = "pause", !.tail = 0]
              /\ UNCHANGED fed
    /\ UNCHANGED <<scope, now, network, rx, stage, running, processed>>

PauseEnds ==
    /\ pump.pc = "pause"
    /\ pump' = [pump EXCEPT !.pc = AfterRead]
    /\ UNCHANGED <<scope, now, network, rx, stage, running, fed, processed>>

PumpReader == ReadSample \/ TailFrame \/ PauseEnds

\* The processor: one frame at a time; an error of the agent is only logged.
Aborted == processed = None
Process ==
    /\ ~Aborted /\ processed < Len(fed)
    /\ processed' = processed + 1
    /\ UNCHANGED <<scope, now, network, rx, stage, running, pump, fed>>

(***************************************************************************)
(* The agent stops: running is cleared and the pump winds down by itself,  *)
(* or stop and Drop of the bindings abort both tasks where they are.       *)
(***************************************************************************)
StopRunning ==
    /\ scope.may_stop /\ running
    /\ running' = FALSE
    /\ UNCHANGED <<scope, now, network, rx, stage, pump, fed, processed>>

Abort ==
    /\ scope.may_stop /\ ~Aborted
    /\ pump' = [pump EXCEPT !.pc = "done"]
    /\ processed' = None
    /\ UNCHANGED <<scope, now, network, rx, stage, running, fed>>

Next ==
    \/ \E pos \in scope.stream : Arrive(pos)
    \/ TrackEnds
    \/ Tick
    \/ DeliverSample \/ ScanFinds \/ ScanWaits \/ ScanFails \/ Receive \/ DeadlinePasses
    \/ TailFrame \/ PauseEnds
    \/ Process
    \/ StopRunning \/ Abort

Spec == Init /\ [][Next]_vars

\* Time passes, and tokio polls a task that is ready. The fairness of the pump's
\* reader is WF_vars(PumpReader) with its ENABLED written out as ReaderIsReady.
ReaderIsReady ==
    \/ pump.pc \in {"tail", "pause"}
    \/ Reading /\ \/ stage.pending # <<>> \/ stage.at = "scan" \/ rx # <<>>
                  \/ NextDeadline(stage.buf) # None /\ now >= NextDeadline(stage.buf)

Fairness ==
    /\ WF_vars(Tick) /\ WF_vars(Process)
    /\ <>[]ReaderIsReady => []<><<PumpReader>>_vars

FairSpec == Spec /\ Fairness

(***************************************************************************)
(* Properties.                                                             *)
(***************************************************************************)
\* The output of the stage so far: what the pump queued and what is pending.
IsAudio(item) == item.kind # "silence"
Voiced == SelectSeq(fed, IsAudio) \o stage.pending

IsPacket(out, i) == i \in DOMAIN out /\ out[i].kind = "packet"
\* Item i starts the output, or starts it over: it does not follow the packet
\* before it, with nothing or the loss of what was sent in between.
Follows(out, i) ==
    \/ IsPacket(out, i - 1) /\ out[i].pos = out[i - 1].pos + 1
    \/ ~IsPacket(out, i - 1) /\ IsPacket(out, i - 2)
         /\ out[i].pos = out[i - 2].pos + 1 + out[i - 1].count
Starts(out) == {i \in DOMAIN out : out[i].kind = "packet" /\ ~Follows(out, i)}

\* The place of packet p in the output was given to a loss.
DeclaredLost(out, p) ==
    \E i \in DOMAIN out : /\ out[i].kind = "lost" /\ IsPacket(out, i - 1) /\ IsPacket(out, i + 1)
                          /\ out[i - 1].pos < p /\ p < out[i + 1].pos
\* Packet p was sent just before one the output starts with.
BeforeStart(out, p) ==
    \E i \in Starts(out) : p < out[i].pos /\ out[i].pos - p <= ResetJump

\* Types, and what read_sample relies on: whatever is held lies above next, the
\* wait stays in its bounds, and while the stage waits for a packet a held one
\* has a deadline (stage.rs: without one it would sleep until the next packet).
TypeOK ==
    LET b == stage.buf IN
    /\ track \in {"open"} \union TrackErrors
    /\ arrived \in [scope.stream -> 0 .. scope.copies]
    /\ pump.pc \in {"read", "tail", "pause", "done"} /\ pump.tail \in 0 .. TailFrames
    /\ processed \in {None} \union 0 .. Len(fed)
    /\ \A ext \in HeldNumbers(b) : b.next <= ext /\ ext <= b.max_ext
    /\ b.wait \in MinWait .. MaxWait
    /\ Len(b.lost_ranges) <= MaxLostRanges /\ Len(b.observations) <= MaxObservations
    /\ stage.at = "select" => (HeldNumbers(b) = {} \/ NextDeadline(b) # None)

\* The output follows the sender's order across the wrap of the sequence
\* numbers: from one packet to the next exactly the packets in between are
\* declared lost, but where the buffer started over; and it starts over only
\* for a sender whose numbers jump (reorder.rs: push, advance, reset).
OutputTiles ==
    /\ Cardinality(Starts(Voiced)) <= stage.buf.resets + 1
    /\ stage.buf.resets > 0 =>
           \E p, q \in scope.stream : arrived[p] > 0 /\ arrived[q] > 0 /\ p - q > ResetJump

\* A packet that arrived is waiting, held, or in the output, unless its own
\* place in the output had been declared lost or it was sent before the one the
\* output starts with (a buffer that starts waits for nothing: the first packet
\* of a stream that arrives reordered is its first packet). And the books agree:
\* every copy but the discarded ones is one packet of the output, so none is
\* dropped for capacity and none comes out twice (reorder.rs: "A received packet
\* is never dropped for capacity").
NothingReceivedVanishes ==
    LET out == Voiced \o stage.buf.ready
        waiting == SelectSeq(rx, LAMBDA msg : msg.kind = "rtp")
        held == {stage.buf.held[ext].pos : ext \in HeldNumbers(stage.buf)}
        packets == {i \in DOMAIN out : out[i].kind = "packet"}
    IN  /\ \A p \in scope.stream : arrived[p] > 0 =>
              \/ Contains(waiting, Rtp(p)) \/ p \in held \/ Contains(out, Packet(p))
              \/ DeclaredLost(out, p) \/ BeforeStart(out, p)
        /\ SumFunction(arrived) = Len(waiting) + Cardinality(held) + Cardinality(packets)
                                    + stage.buf.discarded

\* What goes in comes out, in the sender's order, with every hole named.
OutputIsWhole == OutputTiles /\ NothingReceivedVanishes

\* Packets are given up only when one sent after them has been waiting for
\* MIN_WAIT, or too much is held, or the stream ended or started over
\* (reorder.rs: advance keeps the time since which the head of held waits, and
\* the head may change under it).
LostOnlyAfterWait ==
    [][LET old == stage.buf
           new == stage'.buf
           ranges == {new.lost_ranges[i] : i \in DOMAIN new.lost_ranges}
                       \ {old.lost_ranges[i] : i \in DOMAIN old.lost_ranges}
           Patient(r) == \E ext \in HeldNumbers(old) :
                            ext >= r.end /\ now - old.held[ext].arrived >= MinWait
       IN  \A r \in ranges : Patient(r) \/ Cardinality(HeldNumbers(old)) >= MaxHeld
                             \/ stage.ended \/ new.resets > old.resets]_vars

\* When the agent hears the silence that ends an utterance, it has been fed all
\* the audio there was: what the reader had sent before the error, what was
\* held, and nothing comes after the silence (inbound_pump.rs: the tail is
\* injected "so the agent's VAD/STT sees the end of the utterance").
SilenceIsLast ==
    /\ pump.awaiting_next_burst =>
         rx = <<>> /\ HeldNumbers(stage.buf) = {} /\ stage.buf.ready = <<>> /\ stage.pending = <<>>
    /\ \A i, j \in DOMAIN fed : fed[i] = Silence /\ i < j => fed[j] = Silence
    /\ Cardinality({i \in DOMAIN fed : fed[i] = Silence}) <= TailFrames

\* While the agent runs, it is fed every packet that arrived, or the loss that
\* took its place, again and again however many more arrive: no packet waits for
\* one that never comes (reorder.rs: next_deadline; stage.rs: the select).
ArrivedIsServed ==
    LET heard == SubSeq(fed, 1, processed)
        Served(p) == Contains(heard, Packet(p)) \/ DeclaredLost(heard, p) \/ BeforeStart(heard, p)
    IN  []<>(~running \/ Aborted \/ \A p \in scope.stream : arrived[p] > 0 => Served(p))

\* While the agent runs, the end of its caller's stream reaches it as silence.
EndIsHeard ==
    track = "stream_end" ~>
        (~running \/ Aborted \/
            (TailFrames <= processed /\ \A n \in processed - TailFrames + 1 .. processed :
                                            fed[n] = Silence))

=============================================================================
