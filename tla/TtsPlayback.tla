---------------------------- MODULE TtsPlayback ----------------------------
(***************************************************************************)
(* The outbound half of a VoiceAgent's TTS (crates/speech/src/agent.rs):   *)
(* the tasks that meet at the TtsBuffer.                                   *)
(*   - the synthesis worker runs one streaming job at a time: it pushes    *)
(*     chunks while the vendor produces them, then waits for playback;     *)
(*   - the drain worker pops chunks, cuts them into frames, writes them to *)
(*     the outbound track and reports reply boundaries;                    *)
(*   - flush_tts and barge-in passes cut what is queued and playing.       *)
(* The buffer's mutex, the mutex of AgentInner (agent_speaking) and the    *)
(* event emissions are taken one after the other, never together: each is  *)
(* a step of its own. Waking the drain (notify_one, a permit that is not   *)
(* counted) is merged into the critical section before it.                 *)
(***************************************************************************)
EXTENDS TtsBuffer

CONSTANTS
    Replies,             \* bound: the replies are 1 .. Replies
    Flushers,            \* the flush_tts and barge-in passes
    Scopes               \* what a behaviour may meet: one of these bounds

(***************************************************************************)
(* Flushing: the two orders of flush_tts_from, the barge-in, the abort of  *)
(* a failed playback and the drain's own end of speaking are sequences of  *)
(* the same steps.                                                         *)
(***************************************************************************)
FlushPlan == <<"cut", "flush", "reply_ends", "end_speaking", "speaking_end">>
ManualBargePlan == <<"cut", "end_speaking", "flush", "reply_ends", "speaking_end">>
BargeInPlan == <<"end_speaking", "flush", "reply_ends", "speaking_end", "cut">>
AbortPlan == <<"fail", "flush", "reply_ends", "speaking_end">>
StopSpeakingPlan == <<"end_speaking", "speaking_end">>

\* A scope bounds the replies, the chunks of one and the units of those, and says which
\* flush passes run and in which orders, whether the outbound track may report
\* an error and whether a wait for playback may last 45 s.
ASSUME PlaybackAssumption ==
    /\ Replies \in Nat
    /\ IsFiniteSet(Flushers) /\ {"drain", "job"} \intersect Flushers = {}
    /\ \A s \in Scopes :
         /\ s.replies \in 0 .. Replies
         /\ s.max_chunks \in Nat /\ s.chunk_sizes \subseteq Nat \ {0}
         /\ s.flushers \subseteq Flushers
         /\ s.flush_orders \subseteq {FlushPlan, ManualBargePlan, BargeInPlan}
         /\ s.writer_may_fail \in BOOLEAN /\ s.deadline_may_pass \in BOOLEAN

ReplyIds == 1 .. Replies
Actors == Flushers \union {"drain", "job"}

VARIABLES
    scope,               \* the bounds of this behaviour
    buf,                 \* the TtsBuffer
    agent_speaking,
    tts_playback_failure_gen,
    tts_synthesis_epoch,
    tts_drain_wake,      \* the drain's stored permit
    drain,               \* locals of one run_tts_drain pass
    job,                 \* locals of one run_tts_synthesis_job_streaming
    plan,                \* per actor: the steps of the flush, stop or abort it is in
    ended,               \* per actor: it found agent_speaking set and cleared it
    flushers_left,       \* the passes that have not run
    tally                \* what the outside has seen (history)

agent == <<agent_speaking, tts_playback_failure_gen, tts_synthesis_epoch>>
passes == <<scope, plan, ended, flushers_left>>
vars == <<buf, agent, tts_drain_wake, drain, job, passes, tally>>

Drain0 == [pc |-> "idle", gen |-> 0, start_emitted |-> FALSE, played_any |-> FALSE,
           carry |-> <<>>, frames |-> <<>>, tail |-> FALSE]

Job0 == [pc |-> "idle", reply |-> 0, epoch |-> 0, gen |-> 0, failure_gen |-> 0, chunks |-> 0,
         queued_any |-> FALSE, discarded |-> FALSE, saw_speaking |-> FALSE, expired |-> FALSE]

NoUnits == [r \in ReplyIds |-> 0]

\* The books of the audio are kept per flush generation.
Tally0 ==
    [booked |-> NoUnits,         \* units the buffer accepted
     written |-> NoUnits,        \* units written to the outbound track
     started |-> {},             \* agent_reply_start emitted
     played |-> {},              \* agent_reply_end, not interrupted
     done_ok |-> {},             \* the blocking send returned Ok
     audible |-> {},             \* replies that ever had audio accepted
     ends |-> NoUnits,           \* agent_reply_end emitted, how often
     speaking |-> 0,             \* agent_speaking_start minus agent_speaking_end
     stale |-> {},               \* replies a flush cut off
     late |-> 0]                 \* units written of a reply after its flush

Init ==
    /\ scope \in Scopes
    /\ buf = Buffer0
    /\ agent_speaking = FALSE
    /\ tts_playback_failure_gen = 0
    /\ tts_synthesis_epoch = 0
    /\ tts_drain_wake = FALSE
    /\ drain = Drain0
    /\ job = Job0
    /\ plan = [a \in Actors |-> <<>>]
    /\ ended = [a \in Actors |-> FALSE]
    /\ flushers_left = scope.flushers
    /\ tally = Tally0

\* The replies 1 .. Replies whose end is emitted once more, for a sequence of replies.
CountEnds(ends, replies) ==
    [r \in ReplyIds |-> ends[r] + Cardinality({i \in DOMAIN replies : replies[i] = r})]

\* end_agent_speaking_inner: was agent_speaking set? It is cleared either way.
EndSpeaking_Always(a) ==
    /\ ended' = [ended EXCEPT ![a] = TRUE]
    /\ agent_speaking' = FALSE
EndSpeaking(a) ==
    /\ ended' = [ended EXCEPT ![a] = agent_speaking]
    /\ agent_speaking' = FALSE

\* A flush cuts off every reply with audio, and the one whose job has read the
\* generation it ends.
Producing == job.pc \notin {"idle", "taken"}
CutOff == tally.audible \union (IF Producing THEN {job.reply} ELSE {})

PlanStep(a) ==
    /\ plan[a] # <<>>
    /\ plan' = [plan EXCEPT ![a] = Tail(@)]
    /\ \/ /\ Head(plan[a]) = "cut"
          /\ tts_synthesis_epoch' = tts_synthesis_epoch + 1
          /\ UNCHANGED <<buf, agent_speaking, ended, tally, tts_playback_failure_gen>>
       \/ /\ Head(plan[a]) = "fail"
          /\ tts_playback_failure_gen' = tts_playback_failure_gen + 1
          /\ EndSpeaking(a)
          /\ UNCHANGED <<buf, tally, tts_synthesis_epoch>>
       \/ /\ Head(plan[a]) = "flush"
          /\ buf' = Flush(buf)
          /\ tally' = [tally EXCEPT !.stale = CutOff, !.booked = NoUnits, !.written = NoUnits,
                                    !.started = {}, !.played = {}, !.done_ok = {}]
          /\ UNCHANGED <<agent, ended>>
       \/ /\ Head(plan[a]) = "reply_ends"
          /\ buf' = TakeFlushed(buf)
          /\ tally' = [tally EXCEPT !.ends = CountEnds(@, buf.flushed)]
          /\ UNCHANGED <<agent, ended>>
       \/ /\ Head(plan[a]) = "end_speaking"
          /\ EndSpeaking(a)
          /\ UNCHANGED <<buf, tally, tts_playback_failure_gen, tts_synthesis_epoch>>
       \/ /\ Head(plan[a]) = "speaking_end"
          /\ tally' = [tally EXCEPT !.speaking = @ - (IF ended[a] THEN 1 ELSE 0)]
          /\ ended' = [ended EXCEPT ![a] = FALSE]
          /\ UNCHANGED <<buf, agent>>
    /\ UNCHANGED <<scope, tts_drain_wake, drain, job, flushers_left>>

\* flush_tts, with and without the manual barge-in, and a VAD or STT barge-in.
StartFlush(f) ==
    /\ f \in flushers_left
    /\ flushers_left' = flushers_left \ {f}
    /\ \E p \in scope.flush_orders : plan' = [plan EXCEPT ![f] = p]
    /\ UNCHANGED <<scope, buf, agent, tts_drain_wake, drain, job, ended, tally>>

(***************************************************************************)
(* The drain worker: one run_tts_drain pass.                               *)
(***************************************************************************)
DrainGoes(pc) == drain' = [drain EXCEPT !.pc = pc]

\* notified() takes the permit; the pass starts with the buffer's generation.
DrainBegin ==
    /\ drain.pc = "idle" /\ tts_drain_wake
    /\ tts_drain_wake' = FALSE
    /\ drain' = [Drain0 EXCEPT !.pc = "read_speaking", !.gen = buf.generation]
    /\ UNCHANGED <<buf, agent, job, passes, tally>>

\* Resume mid-utterance without a second agent_speaking_start.
DrainReadSpeaking ==
    /\ drain.pc = "read_speaking"
    /\ drain' = [drain EXCEPT !.pc = "take_carry", !.start_emitted = agent_speaking]
    /\ UNCHANGED <<buf, agent, tts_drain_wake, job, passes, tally>>

DrainTakeCarry ==
    /\ drain.pc = "take_carry"
    /\ drain' = [drain EXCEPT !.pc = "pop", !.carry = buf.carry]
    /\ buf' = TakeCarry(buf)
    /\ UNCHANGED <<agent, tts_drain_wake, job, passes, tally>>

\* Pop a chunk and cut off the complete frames; an empty queue ends the loop
\* unless a job is producing (read under a lock of its own).
DrainPop ==
    /\ drain.pc = "pop"
    /\ buf' = Pop(buf)
    /\ IF buf.queue = <<>>
         THEN drain' = [drain EXCEPT !.pc = "dry"]
         ELSE LET pcm == drain.carry \o Units(Head(buf.queue))
              IN  drain' = [drain EXCEPT !.carry = Remainder(pcm), !.frames = Frames(pcm),
                                         !.pc = IF Frames(pcm) = <<>> THEN "pop" ELSE "frame"]
    /\ UNCHANGED <<agent, tts_drain_wake, job, passes, tally>>

DrainDry ==
    /\ drain.pc = "dry"
    /\ DrainGoes(IF buf.producing THEN "dry_generation" ELSE "tail")
    /\ UNCHANGED <<buf, agent, tts_drain_wake, job, passes, tally>>

DrainDryGeneration ==
    /\ drain.pc = "dry_generation"
    /\ DrainGoes(IF Accepts(buf, drain.gen) THEN "pause" ELSE "tail")
    /\ UNCHANGED <<buf, agent, tts_drain_wake, job, passes, tally>>

\* More chunks to come: keep the incomplete frame for the next pass and return.
DrainPause_DropsCarry ==
    /\ drain.pc = "pause"
    /\ buf' = DropHold(buf)
    /\ drain' = Drain0
    /\ UNCHANGED <<agent, tts_drain_wake, job, passes, tally>>
DrainPause ==
    /\ drain.pc = "pause"
    /\ buf' = DropHold(StoreCarry(buf, drain.carry))
    /\ drain' = Drain0
    /\ UNCHANGED <<agent, tts_drain_wake, job, passes, tally>>

\* End of the utterance: the incomplete frame is padded and written; only its
\* real units count.
DrainTail ==
    /\ drain.pc = "tail"
    /\ DrainGoes(IF drain.carry # <<>> /\ ~buf.producing THEN "tail_generation" ELSE "store")
    /\ UNCHANGED <<buf, agent, tts_drain_wake, job, passes, tally>>

DrainTailGeneration ==
    /\ drain.pc = "tail_generation"
    /\ drain' = IF Accepts(buf, drain.gen)
                  THEN [drain EXCEPT !.pc = "frame", !.tail = TRUE, !.carry = <<>>,
                                     !.frames = <<drain.carry>>]
                  ELSE [drain EXCEPT !.pc = "store"]
    /\ UNCHANGED <<buf, agent, tts_drain_wake, job, passes, tally>>

\* store_frame_carry, then the hold is dropped.
DrainStore ==
    /\ drain.pc = "store"
    /\ buf' = DropHold(StoreCarry(buf, drain.carry))
    /\ drain' = [drain EXCEPT !.pc = "settle", !.carry = <<>>]
    /\ UNCHANGED <<agent, tts_drain_wake, job, passes, tally>>

\* The reply boundaries the ledger reports for n written units.
Book(n) ==
    LET booked == ConsumePlayed(buf.ledger, n)
    IN  /\ buf' = [buf EXCEPT !.ledger = booked.ledger]
        /\ tally' = [tally EXCEPT
                       !.started = @ \union booked.started,
                       !.played = @ \union booked.ended,
                       !.ends = [r \in ReplyIds |-> @[r] + IF r \in booked.ended THEN 1 ELSE 0]]

DrainSettle ==
    /\ drain.pc = "settle"
    /\ DrainGoes(IF Accepts(buf, drain.gen) THEN "settle_book" ELSE "close")
    /\ UNCHANGED <<buf, agent, tts_drain_wake, job, passes, tally>>

DrainSettleBook ==
    /\ drain.pc = "settle_book"
    /\ Book(0)
    /\ DrainGoes("close")
    /\ UNCHANGED <<agent, tts_drain_wake, job, passes>>

\* The pass ends, and speaking with it; what it still carried is lost.
DrainStops ==
    /\ drain' = [Drain0 EXCEPT !.pc = "stop"]
    /\ plan' = [plan EXCEPT !["drain"] = StopSpeakingPlan]

\* The end of a pass that wrote something and found nothing more to come.
DrainClose ==
    /\ drain.pc = "close"
    /\ IF drain.played_any /\ drain.start_emitted /\ ~buf.producing
         THEN DrainStops
         ELSE drain' = Drain0 /\ plan' = plan
    /\ UNCHANGED <<buf, agent, tts_drain_wake, job, scope, ended, flushers_left, tally>>

\* write_paced_tts_frames: the next frame. The first of a pass that did not
\* resume sets agent_speaking, then emits agent_speaking_start.
DrainFrame ==
    /\ drain.pc = "frame"
    /\ IF drain.frames = <<>>
         THEN /\ DrainGoes(IF drain.tail THEN "store" ELSE "pop")
              /\ UNCHANGED agent_speaking
         ELSE /\ drain' = [drain EXCEPT !.played_any = TRUE,
                                        !.pc = IF drain.start_emitted THEN "check" ELSE "emit_start"]
              /\ agent_speaking' = (agent_speaking \/ ~drain.start_emitted)
    /\ UNCHANGED <<buf, tts_playback_failure_gen, tts_synthesis_epoch, tts_drain_wake, job,
                   passes, tally>>

DrainEmitStart ==
    /\ drain.pc = "emit_start"
    /\ tally' = [tally EXCEPT !.speaking = @ + 1]
    /\ drain' = [drain EXCEPT !.pc = "check", !.start_emitted = TRUE]
    /\ UNCHANGED <<buf, agent, tts_drain_wake, job, passes>>

\* A flush since the pass began stops it.
DrainCheck ==
    /\ drain.pc = "check"
    /\ IF Accepts(buf, drain.gen)
         THEN DrainGoes("write") /\ plan' = plan
         ELSE DrainStops
    /\ UNCHANGED <<buf, agent, tts_drain_wake, job, scope, ended, flushers_left, tally>>

\* The writer may block for long: everyone else goes on meanwhile.
DrainWrite ==
    /\ drain.pc = "write"
    /\ LET frame == Head(drain.frames)
       IN  tally' = [tally EXCEPT !.written = [r \in ReplyIds |-> @[r] + UnitsOf(frame, {r})],
                                  !.late = @ + UnitsOf(frame, tally.stale)]
    /\ DrainGoes("book")
    /\ UNCHANGED <<buf, agent, tts_drain_wake, job, passes>>

\* The error ends the pass, drops its hold, and aborts the playback.
DrainWriteFails ==
    /\ scope.writer_may_fail
    /\ drain.pc = "write"
    /\ drain' = [Drain0 EXCEPT !.pc = "stop"]
    /\ buf' = DropHold(buf)
    /\ plan' = [plan EXCEPT !["drain"] = AbortPlan]
    /\ UNCHANGED <<agent, tts_drain_wake, job, scope, ended, flushers_left, tally>>

DrainBook ==
    /\ drain.pc = "book"
    /\ Book(Len(Head(drain.frames)))
    /\ DrainGoes("pace")
    /\ UNCHANGED <<agent, tts_drain_wake, job, passes>>

DrainPace ==
    /\ drain.pc = "pace"
    /\ IF Accepts(buf, drain.gen)
         THEN /\ drain' = [drain EXCEPT !.pc = "frame", !.frames = Tail(@)]
              /\ plan' = plan
         ELSE DrainStops
    /\ UNCHANGED <<buf, agent, tts_drain_wake, job, scope, ended, flushers_left, tally>>

\* The pass is over: its hold is dropped, what it carried is lost.
DrainStopped ==
    /\ drain.pc = "stop" /\ plan["drain"] = <<>>
    /\ buf' = DropHold(buf)
    /\ drain' = Drain0
    /\ UNCHANGED <<agent, tts_drain_wake, job, passes, tally>>

DrainStep ==
    \/ DrainBegin \/ DrainReadSpeaking \/ DrainTakeCarry \/ DrainPop
    \/ DrainDry \/ DrainDryGeneration \/ DrainPause \/ DrainTail \/ DrainTailGeneration
    \/ DrainStore \/ DrainSettle \/ DrainSettleBook \/ DrainClose
    \/ DrainFrame \/ DrainEmitStart \/ DrainCheck \/ DrainWrite \/ DrainWriteFails
    \/ DrainBook \/ DrainPace \/ DrainStopped
    \/ PlanStep("drain")

(***************************************************************************)
(* The synthesis worker: one run_tts_synthesis_job_streaming per reply.    *)
(***************************************************************************)
JobGoes(pc) == job' = [job EXCEPT !.pc = pc]
JobReturns == job' = [Job0 EXCEPT !.reply = job.reply]

\* The worker takes the next job back; the epoch is read under the same lock.
JobTake ==
    /\ job.pc = "idle" /\ job.reply < scope.replies
    /\ job' = [Job0 EXCEPT !.pc = "taken", !.reply = job.reply + 1,
                           !.epoch = tts_synthesis_epoch]
    /\ UNCHANGED <<buf, agent, tts_drain_wake, drain, passes, tally>>

JobReadGeneration ==
    /\ job.pc = "taken"
    /\ job' = [job EXCEPT !.pc = "read_failure", !.gen = buf.generation]
    /\ UNCHANGED <<buf, agent, tts_drain_wake, drain, passes, tally>>

JobReadFailure ==
    /\ job.pc = "read_failure"
    /\ job' = [job EXCEPT !.pc = "check_epoch", !.failure_gen = tts_playback_failure_gen]
    /\ UNCHANGED <<buf, agent, tts_drain_wake, drain, passes, tally>>

\* agent_reply_end, interrupted, of a reply that never reached the buffer
EmitDiscardedReplyEnd ==
    tally' = [tally EXCEPT !.ends = CountEnds(@, <<job.reply>>)]

JobCheckEpoch ==
    /\ job.pc = "check_epoch"
    /\ IF tts_synthesis_epoch # job.epoch
         THEN JobReturns /\ EmitDiscardedReplyEnd
         ELSE JobGoes("start") /\ UNCHANGED tally
    /\ UNCHANGED <<buf, agent, tts_drain_wake, drain, passes>>

WakeDrain == tts_drain_wake' = TRUE

JobStart ==
    /\ job.pc = "start"
    /\ buf' = SetProducing(buf, TRUE)
    /\ WakeDrain
    /\ JobGoes("synthesize")
    /\ UNCHANGED <<agent, drain, passes, tally>>

\* The vendor streams a chunk; a flush since the start discards it, and the
\* enqueue task takes no more of them.
JobChunk ==
    /\ job.pc = "synthesize" /\ job.chunks < scope.max_chunks /\ ~job.discarded
    /\ \E units \in scope.chunk_sizes :
         IF Accepts(buf, job.gen)
           THEN /\ buf' = Enqueue(buf, Chunk(job.reply, units))
                /\ WakeDrain
                /\ job' = [job EXCEPT !.chunks = @ + 1, !.queued_any = TRUE]
                /\ tally' = [tally EXCEPT !.booked[job.reply] = @ + units,
                                          !.audible = @ \union {job.reply}]
           ELSE /\ job' = [job EXCEPT !.chunks = @ + 1, !.discarded = TRUE]
                /\ UNCHANGED <<buf, tts_drain_wake, tally>>
    /\ UNCHANGED <<agent, drain, passes>>

\* The vendor call returned and the enqueue task has drained its channel.
JobComplete ==
    /\ job.pc = "synthesize"
    /\ buf' = MarkComplete(buf, job.reply)
    /\ JobGoes("produced")
    /\ UNCHANGED <<agent, tts_drain_wake, drain, passes, tally>>

JobProduced ==
    /\ job.pc = "produced"
    /\ buf' = SetProducing(buf, FALSE)
    /\ WakeDrain
    /\ \/ JobGoes("result")
       \/ JobGoes("failed")
    /\ UNCHANGED <<agent, drain, passes, tally>>

\* The vendor failed: agent_speak_failed, and the call returns without an error.
JobFailed ==
    /\ job.pc = "failed"
    /\ buf' = SetProducing(buf, FALSE)
    /\ WakeDrain
    /\ JobReturns
    /\ UNCHANGED <<agent, drain, passes, tally>>

\* The vendor succeeded. A reply cut while it was synthesized ends here when
\* none of it was booked; with nothing to wait for the job returns.
JobResult_EndsTwice ==
    /\ job.pc = "result"
    /\ IF tts_synthesis_epoch # job.epoch
         THEN JobReturns ELSE JobGoes("wait")
    /\ IF tts_synthesis_epoch # job.epoch \/ job.discarded
         THEN EmitDiscardedReplyEnd ELSE UNCHANGED tally
    /\ UNCHANGED <<buf, agent, tts_drain_wake, drain, passes>>
JobResult ==
    /\ job.pc = "result"
    /\ LET cutSince == tts_synthesis_epoch # job.epoch
       IN  /\ IF (cutSince \/ job.discarded) /\ ~job.queued_any
                THEN EmitDiscardedReplyEnd
                ELSE UNCHANGED tally
           /\ IF cutSince \/ (job.chunks = 0 /\ ~IsSpeaking(buf) /\ buf.queue = <<>>)
                THEN JobReturns
                ELSE JobGoes("wait")
    /\ UNCHANGED <<buf, agent, tts_drain_wake, drain, passes>>

\* wait_job_playback_idle, every 10 ms: the failure generation and
\* agent_speaking under one lock, the buffer under the other.
JobWait ==
    /\ job.pc = "wait"
    /\ IF tts_playback_failure_gen # job.failure_gen
         THEN JobReturns
         ELSE job' = [job EXCEPT !.pc = "wait_buffer", !.saw_speaking = agent_speaking]
    /\ UNCHANGED <<buf, agent, tts_drain_wake, drain, passes, tally>>

JobWaitBuffer_NoDeadline ==
    /\ job.pc = "wait_buffer"
    /\ IF ~job.saw_speaking /\ ~IsSpeaking(buf)
         THEN JobReturns /\ tally' = [tally EXCEPT !.done_ok = @ \union {job.reply}]
         ELSE JobGoes("wait") /\ UNCHANGED tally
    /\ UNCHANGED <<buf, agent, tts_drain_wake, drain, passes>>
JobWaitBuffer ==
    /\ job.pc = "wait_buffer"
    /\ IF ~job.saw_speaking /\ ~IsSpeaking(buf)
         THEN /\ JobReturns
              /\ tally' = [tally EXCEPT !.done_ok = @ \union {job.reply}]
              /\ UNCHANGED passes
         ELSE /\ IF job.expired
                   THEN /\ JobGoes("aborting")
                        /\ plan' = [plan EXCEPT !["job"] = AbortPlan]
                   ELSE JobGoes("wait") /\ plan' = plan
              /\ UNCHANGED <<scope, ended, flushers_left, tally>>
    /\ UNCHANGED <<buf, agent, tts_drain_wake, drain>>

\* 45 seconds of waiting have passed.
DeadlinePasses ==
    /\ scope.deadline_may_pass
    /\ job.pc \in {"wait", "wait_buffer"} /\ ~job.expired
    /\ job' = [job EXCEPT !.expired = TRUE]
    /\ UNCHANGED <<buf, agent, tts_drain_wake, drain, passes, tally>>

JobAborted ==
    /\ job.pc = "aborting" /\ plan["job"] = <<>>
    /\ JobReturns
    /\ UNCHANGED <<buf, agent, tts_drain_wake, drain, passes, tally>>

JobRuns ==
    \/ JobReadGeneration \/ JobReadFailure \/ JobCheckEpoch \/ JobStart
    \/ JobComplete \/ JobProduced \/ JobFailed \/ JobResult
    \/ JobWait \/ JobWaitBuffer \/ JobAborted
    \/ PlanStep("job")

FlushStep == \E f \in Flushers : PlanStep(f)

Next ==
    \/ DrainStep
    \/ JobTake \/ JobRuns \/ JobChunk \/ DeadlinePasses
    \/ \E f \in Flushers : StartFlush(f)
    \/ FlushStep

Spec == Init /\ [][Next]_vars

\* Tasks are scheduled, the writer returns, a vendor call ends, 45 seconds
\* pass. Nothing makes a host send another reply or flush.
FairSpec ==
    /\ Spec
    /\ WF_vars(DrainStep)
    /\ WF_vars(JobRuns)
    /\ WF_vars(DeadlinePasses)
    /\ \A f \in Flushers : WF_vars(PlanStep(f))

(***************************************************************************)
(* Properties                                                              *)
(***************************************************************************)
DrainPcs == {"idle", "read_speaking", "take_carry", "pop", "dry", "dry_generation", "pause",
             "tail", "tail_generation", "store", "settle", "settle_book", "close", "frame",
             "emit_start", "check", "write", "book", "pace", "stop"}
JobPcs == {"idle", "taken", "read_failure", "check_epoch", "start", "synthesize", "produced",
           "result", "failed", "wait", "wait_buffer", "aborting"}

\* Types, and two facts of the control: a carry is less than a frame, and the
\* ledger never books more played than queued.
TypeOK ==
    /\ drain.pc \in DrainPcs /\ job.pc \in JobPcs
    /\ agent_speaking \in BOOLEAN /\ tts_drain_wake \in BOOLEAN
    /\ drain.gen <= buf.generation /\ job.gen <= buf.generation
    /\ Len(buf.carry) < FrameUnits /\ Len(drain.carry) < FrameUnits
    /\ \A i \in DOMAIN buf.ledger :
         /\ buf.ledger[i].reply \in ReplyIds
         /\ buf.ledger[i].played \in 0 .. buf.ledger[i].queued

\* A reply gets at most one agent_reply_end, whichever of the drain, its own
\* job, a flush or an abort emits it (VOICE-API.md, agent_reply_end).
ReplyEndsAtMostOnce == \A r \in ReplyIds : tally.ends[r] <= 1

\* Every agent_speaking_start is answered by one agent_speaking_end: what the
\* host has not yet been told is in the hands of exactly one task.
SpeakingBalanced ==
    tally.speaking
      + (IF drain.pc = "emit_start" THEN 1 ELSE 0)
      = (IF agent_speaking THEN 1 ELSE 0) + Cardinality({a \in Actors : ended[a]})

\* What a flush cut off is off the air within a frame: however it interleaves
\* with the writer and the carry, each flush lets at most one frame of the
\* replies it dropped reach the outbound track.
StaleAudioBounded == tally.late <= FrameUnits * buf.generation

\* The units of some replies that are queued, and in the frames not yet written.
Total(numbers) ==
    LET sum[n \in 0 .. Len(numbers)] == IF n = 0 THEN 0 ELSE sum[n - 1] + numbers[n]
    IN  sum[Len(numbers)]
UnitsQueued(queue, replies) == Total([i \in DOMAIN queue |-> UnitsOf(Units(queue[i]), replies)])
UnitsFramed(frames, replies) == Total([i \in DOMAIN frames |-> UnitsOf(frames[i], replies)])
Unwritten(d) == IF d.pc \in {"book", "pace"} THEN Tail(d.frames) ELSE d.frames

\* No flush, no abort: nothing has cut a reply or is about to.
Undisturbed ==
    buf.generation = 0 /\ \A a \in Actors : \A i \in DOMAIN plan[a] : plan[a][i] # "flush"

\* Without a flush no audio is lost, doubled or reordered into another reply
\* on its way through the queue, the frames and the carry between two passes.
NoAudioLost ==
    Undisturbed =>
      \A r \in ReplyIds :
        tally.booked[r] = tally.written[r] + UnitsFramed(Unwritten(drain), {r})
                            + UnitsOf(drain.carry, {r}) + UnitsOf(buf.carry, {r})
                            + UnitsQueued(buf.queue, {r})

\* Audio goes where it was meant to: all of it without a flush, and with one no
\* more of it than the frame in the writer's hands.
AudioConserved == NoAudioLost /\ StaleAudioBounded

\* Without a flush agent_reply_end{interrupted: false} says what it says: all
\* the audio of the reply has been written to the outbound track.
EndedMeansPlayed ==
    Undisturbed =>
      \A r \in tally.played : tally.written[r] = tally.booked[r]

\* A blocking send returns Ok only after its audio was written, but for the
\* last incomplete frame (the hold of tts_buffer.rs closes the gap between the
\* last pop and the first write).
OkMeansPlayed ==
    Undisturbed =>
      \A r \in tally.done_ok : tally.booked[r] - tally.written[r] < FrameUnits

\* At rest every reply that had audio has its agent_reply_end: "Exactly once
\* per reply that produced audio or was dropped" (VOICE-API.md, agent_reply_end).
AtRest ==
    /\ drain.pc = "idle" /\ ~tts_drain_wake /\ job.pc = "idle"
    /\ \A a \in Actors : plan[a] = <<>>
AtRestRepliesEnded == AtRest => \A r \in tally.audible : tally.ends[r] = 1
UndisturbedRepliesEnd == Undisturbed => AtRestRepliesEnded

\* What the host and the caller of a send are told of a reply is true, and is
\* told once: its end comes once at most, and undisturbed it comes, and neither
\* it nor the Ok of the send runs ahead of the audio.
RepliesReported ==
    ReplyEndsAtMostOnce /\ EndedMeansPlayed /\ OkMeansPlayed /\ UndisturbedRepliesEnd

\* A pass that began before a flush is about to drop audio of a reply that was
\* queued after it: Pop does not compare the generation, the check after it does.
DropsNewAudio ==
    /\ drain.pc = "check" /\ ~Accepts(buf, drain.gen)
    /\ \E r \in ReplyIds \ tally.stale :
         UnitsOf(drain.carry, {r}) + UnitsFramed(drain.frames, {r}) > 0

\* Every reply that was booked gets its agent_reply_end, as long as no pass drops
\* audio that is not its own. AtRestRepliesEnded shows what becomes of a reply whose
\* audio was dropped: its job returns, and its end is not emitted.
BookedReplyEnds ==
    []~DropsNewAudio => []<>(\A r \in tally.audible : tally.ends[r] > 0)

\* A job does not hold the synthesis worker forever.
JobFinishes == []<>(job.pc = "idle")

\* Even if the writer fails, a flush cuts a reply or its playback never drains,
\* the worker goes on to the next job; and the host hears of each reply that it has
\* ended, unless an overtaken pass has dropped audio queued after the flush.
PlaybackEnds == BookedReplyEnds /\ JobFinishes

=============================================================================
