--------------------------- MODULE UserUtterance ---------------------------
(***************************************************************************)
(* The utterance records of a VoiceAgent (crates/speech/src/agent.rs): one *)
(* live record, the records that wait for the STT actor's answer, and the  *)
(* steps that act on them. Inbound frames, the 50 ms ticker and the result *)
(* pump each hold utterance_step for their whole step, so a step is atomic;*)
(* what may come between two of them is any of the others.                 *)
(* VAD and gateStt are on, the vendor sends partials, no host holds the    *)
(* STT. Audio is known by the utterance that was live when it was sent,    *)
(* and consecutive audio commands of one utterance are one command.        *)
(***************************************************************************)
EXTENDS Integers, SequencesExt

CONSTANTS
    MaxUtterances,   \* bound: records made
    Scopes           \* what a behaviour may meet: one of these

\* A scope says how often VAD hears speech start, how many transcripts the vendor
\* sends unasked, how often the agent starts to speak; and whether C1 may expire
\* while the caller still speaks, whether the vendor finalizes without being
\* asked, whether an answer may come too late, whether a final may have to wait
\* for its speaker verdict, and whether stt_open_wait_max_ms may be over (or is 0)
\* while C1 waits for the answer of an earlier utterance.
ASSUME UtteranceAssumption ==
    /\ MaxUtterances \in Nat
    /\ \A s \in Scopes :
         /\ {s.starts, s.unasked, s.replies} \subseteq Nat
         /\ {s.cuts_in, s.endpoints, s.late, s.gated, s.wait_ends} \subseteq BOOLEAN

VARIABLES
    scope,
    vad,             \* VadEngine::is_speaking
    agent_speaking,
    utt,             \* the records and the turn-level timers (AgentInner)
    bus,             \* the event bus: what waits behind a slot
    actor,           \* the STT actor and the vendor behind it
    results,         \* results on their way to the pump
    left,            \* what is left of the bounds
    heard,           \* per utterance, what the host has been told (history)
    terminals        \* finals and not_founds, as delivered (history)

vars == <<scope, vad, agent_speaking, utt, bus, actor, results, left, heard, terminals>>

Keys == 1 .. MaxUtterances
NoKey == 0

\* What is left of stt_gate_hold_ms: more than half, less, nothing.
Fresh == 2
Late == 1
Over == 0

NewRecord(key) ==
    [key |-> key, stream_open |-> FALSE, session_open |-> FALSE, vad_triggered |-> FALSE,
     speaking_start |-> FALSE, speaking_end |-> FALSE, partials |-> FALSE,
     final |-> FALSE, not_found |-> FALSE, terminal |-> FALSE, forced |-> FALSE]

\* `live` holds one record or none; out and sent are what the step in progress
\* emits on the bus and sends to the actor.
Inner0 ==
    [live |-> <<>>, closing |-> <<>>, next |-> 1,
     hold |-> Over, pending |-> FALSE, closing_started |-> FALSE, defer |-> FALSE,
     listening |-> FALSE, finalizing |-> FALSE, out |-> <<>>, sent |-> <<>>]

Init ==
    /\ scope \in Scopes
    /\ vad = FALSE
    /\ agent_speaking = FALSE
    /\ utt = Inner0
    /\ bus = <<>>
    /\ actor = [cmds |-> <<>>, hearing |-> NoKey, outstanding |-> <<>>]
    /\ results = <<>>
    /\ left = [starts |-> scope.starts, unasked |-> scope.unasked, replies |-> scope.replies]
    /\ heard = [k \in Keys |-> <<>>]
    /\ terminals = <<>>

(***************************************************************************)
(* Records and events.                                                     *)
(***************************************************************************)
LiveKey(u) == IF u.live = <<>> THEN NoKey ELSE u.live[1].key
LiveIs(u, flag) == u.live # <<>> /\ u.live[1][flag]
Records(u) == ToSet(u.live) \cup ToSet(u.closing)
HasRecord(u, key) == \E r \in Records(u) : r.key = key
Record(u, key) == CHOOSE r \in Records(u) : r.key = key

\* The record of r's key becomes r.
With(u, r) ==
    LET swap(records) == [i \in DOMAIN records |-> IF records[i].key = r.key THEN r ELSE records[i]]
    IN  [u EXCEPT !.live = swap(@), !.closing = swap(@)]

StartRecord(u) == [u EXCEPT !.live = <<NewRecord(u.next)>>, !.next = @ + 1]
EnsureLive(u) == IF u.live = <<>> THEN StartRecord(u) ELSE u

\* `of` is the utterance whose words a final holds; a slot waits for a verdict.
Event(kind, key) == [kind |-> kind, key |-> key, of |-> key, waits |-> FALSE]
Emit(u, kind, key) == [u EXCEPT !.out = Append(@, Event(kind, key))]
EmitIf(u, condition, kind, key) == IF condition THEN Emit(u, kind, key) ELSE u

SendAudio(u, key) == [u EXCEPT !.sent = Append(@, [cmd |-> "audio", key |-> key])]
SendEnd(u, key) == [u EXCEPT !.sent = Append(@, [cmd |-> "end", key |-> key])]

SpeakingStart(u, key) ==
    LET r == Record(u, key)
    IN  IF r.speaking_start THEN u
        ELSE Emit(With(u, [r EXCEPT !.speaking_start = TRUE]), "speaking_start", key)
SpeakingEnd(u, key) ==
    LET r == Record(u, key)
    IN  IF r.speaking_end THEN u
        ELSE Emit(With(u, [r EXCEPT !.speaking_end = TRUE]), "speaking_end", key)

\* An empty final is a not_found, once. A final whose verdict is not there yet
\* takes a slot on the bus.
EmitFinal(u, key, text, of, waits) ==
    LET r == Record(u, key)
    IN  IF text = "empty"
        THEN IF r.not_found THEN u
             ELSE Emit(With(u, [r EXCEPT !.not_found = TRUE, !.terminal = TRUE]), "not_found", key)
        ELSE LET done == With(u, [r EXCEPT !.final = TRUE, !.terminal = TRUE])
             IN  [done EXCEPT !.out = Append(@, [kind |-> "final", key |-> key, of |-> of,
                                                 waits |-> waits])]

(***************************************************************************)
(* Timers and closes.                                                      *)
(***************************************************************************)
ClearTimers(u) == [u EXCEPT !.listening = FALSE, !.finalizing = FALSE, !.defer = FALSE]
ResetTurn(u) ==
    ClearTimers([u EXCEPT !.pending = FALSE, !.closing_started = FALSE, !.hold = Over])

\* C2 counts once the turn has ended: hold drained and VAD not in speech.
ArmFinalize(u, speaking) ==
    [u EXCEPT !.finalizing = /\ LiveIs(u, "partials") /\ ~LiveIs(u, "final")
                             /\ ~u.defer /\ u.hold = Over /\ ~speaking]

\* begin_utterance_close: endpoint tail, then EndUtterance.
BeginClose(u, forced, with_tail) ==
    LET reset == ResetTurn(u)
        key == LiveKey(u)
        fed == IF with_tail THEN SendAudio(reset, key) ELSE reset
    IN  IF u.live = <<>> THEN reset
        ELSE SendEnd([fed EXCEPT !.live = <<>>,
                                 !.closing = Append(@, [u.live[1] EXCEPT !.forced = forced])], key)

\* Variant: only a forced close ends in a not_found.
EndsNotFound_OnlyForced(r) == ~r.final /\ ~r.partials /\ ~r.not_found /\ r.forced
EndsNotFound(r) ==
    /\ ~r.final /\ ~r.partials /\ ~r.not_found
    /\ r.stream_open \/ r.session_open \/ r.forced

\* finish_record_close: the utterance ends, with the last partial as its final
\* or with a not_found if nobody has ended it before.
FinishClose(u, key, inline, waits) ==
    LET r == Record(u, key)
        not_found == EndsNotFound(r)
        fallback == ~r.final /\ r.partials
        u1 == With(IF inline THEN ClearTimers(u) ELSE u,
                   [r EXCEPT !.stream_open = FALSE, !.session_open = FALSE, !.vad_triggered = FALSE,
                             !.not_found = @ \/ not_found, !.terminal = @ \/ not_found,
                             !.final = @ \/ fallback \/ r.forced])
        u2 == EmitIf(u1, r.stream_open, "stream_end", key)
        u3 == EmitIf(u2, not_found, "not_found", key)
        u4 == EmitIf(u3, r.session_open, "stt_end", key)
        u5 == IF inline /\ (fallback \/ ~r.speaking_end)
              THEN [u4 EXCEPT !.pending = FALSE, !.closing_started = FALSE] ELSE u4
        u6 == SpeakingEnd(u5, key)
    IN  IF fallback THEN EmitFinal(u6, key, "text", key, waits) ELSE u6

\* C2: force_close_utterance.
ForceClose(u, waits) ==
    IF LiveIs(u, "stream_open") /\ ~LiveIs(u, "final") THEN BeginClose(u, TRUE, TRUE)
    ELSE IF u.live = <<>> THEN u
    ELSE FinishClose(With(u, [u.live[1] EXCEPT !.forced = TRUE]), LiveKey(u), TRUE, waits)

\* C1: close_stt_stream_not_found. While the caller is still speaking the record
\* stays live.
CloseNotFound(u, speaking) ==
    LET r == u.live[1]
        key == r.key
        u1 == With(ClearTimers(u),
                   [r EXCEPT !.not_found = @ \/ r.session_open, !.terminal = @ \/ r.session_open,
                             !.stream_open = FALSE, !.session_open = FALSE, !.vad_triggered = FALSE])
        u2 == EmitIf(u1, r.stream_open, "stream_end", key)
        u3 == EmitIf(EmitIf(u2, r.session_open, "not_found", key), r.session_open, "stt_end", key)
        u4 == SendEnd(IF speaking THEN u3 ELSE SpeakingEnd(u3, key), key)
    IN  IF u.live = <<>> THEN u
        ELSE IF speaking THEN u4
        ELSE [u4 EXCEPT !.live = <<>>, !.closing = Append(@, [u4.live[1] EXCEPT !.forced = FALSE])]

\* Variant: new speech starts over without closing the pending utterance.
CompletePending_NoClose(u) == u
\* complete_pending_utterance_if_any, before new speech.
CompletePending(u) ==
    IF u.pending /\ ~LiveIs(u, "final") THEN BeginClose(u, FALSE, ~u.closing_started) ELSE u

\* Variant: C1 does not wait for the answer of an earlier utterance.
C1Held_Never(u) == FALSE
\* c1_hold_for_stt_open: C1 waits for the answers of earlier utterances, for
\* stt_open_wait_max_ms at most.
C1Held(u) == u.closing # <<>> /\ ~scope.wait_ends

ListenMayExpire(u, speaking) ==
    /\ LiveIs(u, "stream_open") /\ ~LiveIs(u, "partials") /\ u.listening
    /\ ~C1Held(u)
    /\ speaking => scope.cuts_in

FinalizeMayExpire(u, speaking) == u.finalizing /\ ~u.defer /\ ~speaking /\ u.hold = Over

(***************************************************************************)
(* One inbound frame: process_inbound_pcm_with_meta.                       *)
(***************************************************************************)
\* The gate hold: set where speech ends, counted down by later frames.
EndOfSpeech(u) ==
    LET talked == LiveIs(u, "partials") /\ ~LiveIs(u, "final")
    IN  [u EXCEPT !.hold = Fresh, !.pending = TRUE, !.defer = @ \/ talked,
                  !.finalizing = @ /\ ~talked]
CountHold(u, hold) ==
    LET counted == [u EXCEPT !.hold = hold]
    IN  IF u.hold # Over /\ hold = Over /\ u.defer
             /\ LiveIs(u, "partials") /\ ~LiveIs(u, "final")
        THEN ArmFinalize([counted EXCEPT !.defer = FALSE], FALSE) ELSE counted

\* SpeechStart: a new utterance, or the same one after a brief gap.
NewSpeech(u) ==
    LET long_pause == u.closing_started \/ u.hold # Fresh
        done == IF long_pause THEN CompletePending(u) ELSE u
        record == IF long_pause \/ done.live = <<>> \/ LiveIs(done, "final")
                  THEN StartRecord(ResetTurn(done))
                  ELSE [done EXCEPT !.hold = Over, !.pending = FALSE, !.closing_started = FALSE,
                                    !.defer = FALSE, !.finalizing = FALSE]
    IN  SendAudio(record, LiveKey(record))

\* on_vad_speech_start, then user_speaking_start.
OpenStream(u) ==
    LET r == u.live[1]
        key == r.key
        opened == With(u, [r EXCEPT !.stream_open = TRUE, !.session_open = TRUE,
                                    !.vad_triggered = TRUE])
        told == EmitIf(EmitIf(opened, ~r.session_open, "stt_start", key),
                       ~r.stream_open, "stream_start", key)
        armed == IF r.partials THEN told
                 ELSE [told EXCEPT !.listening = TRUE, !.finalizing = FALSE, !.defer = FALSE]
    IN  SpeakingStart(armed, key)

\* The rest of the frame: its audio, and the close once the hold is over.
FeedAndClose(u, speaking) ==
    LET closing == u.pending /\ ~LiveIs(u, "final")
        fed == IF LiveIs(u, "stream_open") /\ (speaking \/ u.hold # Over \/ closing)
               THEN SendAudio(u, LiveKey(u)) ELSE u
    IN  IF closing /\ ~agent_speaking /\ ~u.closing_started /\ u.hold = Over /\ ~speaking
        THEN BeginClose(fed, FALSE, TRUE) ELSE fed

\* Transition is what VAD says of the frame; speaking is VAD after it.
AfterVad(transition, hold) ==
    CASE transition = "end" -> EndOfSpeech(utt)
      [] transition = "none" -> CountHold(utt, hold)
      [] transition = "start" -> utt
\* The steps of the frame after that, in order.
NotFoundStep(u, speaking, c1) == IF c1 THEN CloseNotFound(u, speaking) ELSE u
ForceStep(u, waits, c2) == IF c2 THEN ForceClose(u, waits) ELSE u
StartStep(u, transition) == IF transition = "start" THEN OpenStream(NewSpeech(u)) ELSE u

(***************************************************************************)
(* The end of a step: its events go to the bus, its commands to the actor. *)
(***************************************************************************)
\* SpeechEventBus: what stands before the first open slot is delivered.
Ready(queue) ==
    LET slot == SelectInSeq(queue, LAMBDA e : e.waits)
    IN  IF slot = 0 THEN Len(queue) ELSE slot - 1

Hear(told, e) ==
    IF e.kind = "partial" /\ told[e.key] # <<>> /\ Last(told[e.key]) = "partial" THEN told
    ELSE [told EXCEPT ![e.key] = Append(@, e.kind)]
Deliver(queue) ==
    \E ready \in {SubSeq(queue, 1, Ready(queue))} :
        /\ bus' = SubSeq(queue, Ready(queue) + 1, Len(queue))
        /\ heard' = FoldLeft(Hear, heard, ready)
        /\ terminals' = terminals \o SelectSeq(ready, LAMBDA e : e.kind \in {"final", "not_found"})

SendCmd(cmds, c) ==
    IF c.cmd = "audio" /\ cmds # <<>> /\ Last(cmds) = c THEN cmds ELSE Append(cmds, c)
Commit(u) ==
    /\ utt' = [u EXCEPT !.out = <<>>, !.sent = <<>>]
    /\ actor' = [actor EXCEPT !.cmds = FoldLeft(SendCmd, @, u.sent)]
    /\ Deliver(bus \o u.out)

\* Whether the final a step emits, if any, has to wait for its verdict.
Verdicts == IF scope.gated THEN BOOLEAN ELSE {FALSE}

InboundFrame(transition) ==
    /\ transition = "start" => ~vad /\ left.starts > 0
    /\ transition = "end" => vad
    /\ LET speaking == transition = "start" \/ (vad /\ transition # "end")
       IN  /\ vad' = speaking
           /\ \E hold \in Over .. utt.hold, c1, c2 \in BOOLEAN, waits \in Verdicts :
                \E u1 \in {AfterVad(transition, hold)} :
                  /\ c1 => ListenMayExpire(u1, speaking)
                  /\ c2 => FinalizeMayExpire(u1, speaking)
                  /\ \E u2 \in {NotFoundStep(u1, speaking, c1)} :
                     \E u3 \in {ForceStep(u2, waits, c2)} :
                     \E u4 \in {StartStep(u3, transition)} :
                     \E u5 \in {FeedAndClose(u4, speaking)} : Commit(u5)
    /\ left' = [left EXCEPT !.starts = @ - (IF transition = "start" THEN 1 ELSE 0)]
    /\ UNCHANGED <<scope, agent_speaking, results>>

\* c2_wall_clock_tick, when no inbound call is running.
Tick ==
    /\ \E waits \in Verdicts :
         \/ ListenMayExpire(utt, vad) /\ Commit(CloseNotFound(utt, vad))
         \/ FinalizeMayExpire(utt, vad) /\ Commit(ForceClose(utt, waits))
    /\ UNCHANGED <<scope, vad, agent_speaking, results, left>>

(***************************************************************************)
(* The agent's own speech.                                                 *)
(***************************************************************************)
AgentSpeaks ==
    /\ ~agent_speaking /\ left.replies > 0
    /\ agent_speaking' = TRUE
    /\ left' = [left EXCEPT !.replies = @ - 1]
    /\ UNCHANGED <<scope, vad, utt, bus, actor, results, heard, terminals>>

\* arm_stt_hold_if_idle, when the reply has played. Variant: the caller may be
\* speaking.
ArmHold_Speaking(u) == [u EXCEPT !.hold = Fresh, !.pending = TRUE]
ArmHold(u) ==
    LET r == u.live[1]
        completed == \/ u.live = <<>>
                     \/ r.final /\ ~r.stream_open /\ ~r.vad_triggered
        arms == u.hold = Over /\ ~vad /\ (completed => u.pending)
    IN  IF arms THEN [u EXCEPT !.hold = Fresh, !.pending = TRUE] ELSE u

AgentQuiet ==
    /\ agent_speaking
    /\ agent_speaking' = FALSE
    /\ utt' = ArmHold(utt)
    /\ UNCHANGED <<scope, vad, bus, actor, results, left, heard, terminals>>

(***************************************************************************)
(* The STT actor: commands in order, transcripts keyed by the oldest       *)
(* EndUtterance that waits for its answer, each answered or timed out.     *)
(***************************************************************************)
Transcript(kind, key, of) == [kind |-> kind, key |-> key, of |-> of]
Done(key) == [kind |-> "done", key |-> key, of |-> NoKey]
ActorOnly == UNCHANGED <<scope, vad, agent_speaking, utt, bus, heard, terminals>>

ActorTakes ==
    /\ actor.cmds # <<>>
    /\ LET c == Head(actor.cmds)
       IN  actor' = IF c.cmd = "audio"
                    THEN [actor EXCEPT !.cmds = Tail(@), !.hearing = c.key]
                    ELSE [actor EXCEPT !.cmds = Tail(@), !.hearing = NoKey,
                                       !.outstanding = Append(@, [key |-> c.key, of |-> actor.hearing,
                                                                  timed_out |-> FALSE])]
    /\ UNCHANGED <<results, left>> /\ ActorOnly

\* The vendor speaks unasked: a partial, or a final where it sees an endpoint.
VendorSpeaks ==
    /\ left.unasked > 0
    /\ left' = [left EXCEPT !.unasked = @ - 1]
    /\ IF actor.outstanding # <<>>
       THEN LET front == Head(actor.outstanding)
            IN  /\ front.of # NoKey
                /\ results' = Append(results, Transcript("partial", front.key, front.of))
                /\ UNCHANGED actor
       ELSE /\ actor.hearing # NoKey
            /\ \/ /\ results' = Append(results, Transcript("partial", NoKey, actor.hearing))
                  /\ UNCHANGED actor
               \/ /\ scope.endpoints
                  /\ results' = Append(results, Transcript("text", NoKey, actor.hearing))
                  /\ actor' = [actor EXCEPT !.hearing = NoKey]
    /\ ActorOnly

\* The vendor answers the oldest EndUtterance: with text, an empty final or none.
VendorAnswers ==
    /\ actor.outstanding # <<>>
    /\ LET front == Head(actor.outstanding)
           done == IF front.timed_out THEN <<>> ELSE <<Done(front.key)>>
       IN  \/ results' = results \o done
           \/ results' = Append(results, Transcript("empty", front.key, front.of)) \o done
           \/ /\ front.of # NoKey
              /\ results' = Append(results, Transcript("text", front.key, front.of)) \o done
    /\ actor' = [actor EXCEPT !.outstanding = Tail(@)]
    /\ UNCHANGED left /\ ActorOnly

\* Its wait ran out first; the answer may still come.
AnswerIsLate ==
    /\ scope.late
    /\ \E i \in DOMAIN actor.outstanding :
         /\ ~actor.outstanding[i].timed_out
         /\ \A j \in 1 .. i - 1 : actor.outstanding[j].timed_out
         /\ results' = Append(results, Done(actor.outstanding[i].key))
         /\ actor' = [actor EXCEPT !.outstanding[i].timed_out = TRUE]
    /\ UNCHANGED left /\ ActorOnly

(***************************************************************************)
(* The result pump: handle_stt_result.                                     *)
(***************************************************************************)
\* Variant: a keyed transcript is applied to a record that has ended already.
Target_AnyKey(u, key) ==
    IF key # NoKey THEN IF HasRecord(u, key) THEN key ELSE NoKey
    ELSE IF u.closing # <<>>
         THEN IF u.closing[1].terminal THEN NoKey ELSE u.closing[1].key
         ELSE LiveKey(EnsureLive(u))

\* resolve_transcript_target: the record a transcript is applied to, NoKey if
\* it is late. One without a key is for the oldest record that waits for its
\* answer, else for the live one.
Target(u, key) ==
    IF key # NoKey
    THEN IF HasRecord(u, key) /\ ~Record(u, key).terminal THEN key ELSE NoKey
    ELSE IF u.closing # <<>>
         THEN IF u.closing[1].terminal THEN NoKey ELSE u.closing[1].key
         ELSE LiveKey(EnsureLive(u))
ApplyPartial(u, key) ==
    LET live == LiveKey(u) = key
        noted == With(u, [Record(u, key) EXCEPT !.partials = TRUE])
        timed == IF live THEN ArmFinalize([noted EXCEPT !.listening = FALSE], vad) ELSE noted
    IN  Emit(SpeakingStart(timed, key), "partial", key)

ApplyFinal(u, key, text, of, waits) ==
    LET live == LiveKey(u) = key
        u1 == SpeakingStart(u, key)
        r == Record(u1, key)
        u2 == With(IF live THEN [ClearTimers(u1) EXCEPT !.pending = FALSE, !.closing_started = FALSE]
                   ELSE u1,
                   [r EXCEPT !.final = TRUE, !.vad_triggered = FALSE,
                             !.stream_open = FALSE, !.session_open = FALSE])
        open == r.stream_open \/ r.session_open
        u3 == EmitIf(EmitIf(u2, open, "stream_end", key), open, "stt_end", key)
    IN  IF text = "empty" /\ live /\ vad THEN u
        ELSE EmitFinal(SpeakingEnd(u3, key), key, text, of, waits)

ApplyDone(u, key, waits) ==
    LET closed == FinishClose(u, key, FALSE, waits)
    IN  IF \E i \in DOMAIN u.closing : u.closing[i].key = key
        THEN [closed EXCEPT !.closing = SelectSeq(@, LAMBDA r : r.key # key)]
        ELSE u                   \* C1 left it live

ApplyResult ==
    /\ results # <<>>
    /\ results' = Tail(results)
    /\ LET r == Head(results)
           target == Target(utt, r.key)
           u == IF r.key = NoKey /\ utt.closing = <<>> THEN EnsureLive(utt) ELSE utt
       IN  \E waits \in Verdicts :
           \E done \in
             {CASE r.kind = "done" -> ApplyDone(utt, r.key, waits)
                [] r.kind # "done" /\ target = NoKey -> utt
                [] r.kind = "partial" /\ target # NoKey -> ApplyPartial(u, target)
                [] r.kind \in {"text", "empty"} /\ target # NoKey ->
                     ApplyFinal(u, target, r.kind, r.of, waits)} : Commit(done)
    /\ UNCHANGED <<scope, vad, agent_speaking, left>>

\* A final's speaker verdict settles: fill_slot.
VerdictSettles ==
    /\ \E i \in DOMAIN bus : bus[i].waits /\ Deliver([bus EXCEPT ![i].waits = FALSE])
    /\ UNCHANGED <<scope, vad, agent_speaking, utt, actor, results, left>>

Next ==
    \/ \E transition \in {"none", "start", "end"} : InboundFrame(transition)
    \/ Tick
    \/ AgentSpeaks \/ AgentQuiet
    \/ ActorTakes \/ VendorSpeaks \/ VendorAnswers \/ AnswerIsLate
    \/ ApplyResult \/ VerdictSettles

Spec == Init /\ [][Next]_vars

\* Frames keep coming while a turn waits to be closed, and its hold runs on:
\* WF_vars(QuietFrame) with its ENABLED spelt out, which costs TLC too much here.
TurnWaits == /\ utt.pending /\ ~LiveIs(utt, "final") /\ ~utt.closing_started
             /\ ~vad /\ ~agent_speaking
QuietFrame == InboundFrame("none") /\ (utt.hold # Over => utt'.hold < utt.hold)
FramesKeepComing == []<>~TurnWaits \/ []<><<QuietFrame>>_vars

\* The caller pauses, a reply ends, the tasks run, the vendor answers or times
\* out, a verdict settles. Nothing makes VAD hear speech or the agent speak.
CallerPauses == vad /\ vad' = FALSE
PumpRuns == results # <<>> /\ results' = Tail(results)
FairSpec ==
    /\ Spec
    /\ FramesKeepComing
    /\ WF_vad(CallerPauses) /\ WF_agent_speaking(AgentQuiet)
    /\ WF_vars(ActorTakes) /\ WF_vars(VendorAnswers) /\ WF_results(PumpRuns)
    /\ WF_vars(VerdictSettles)

(***************************************************************************)
(* Properties                                                              *)
(***************************************************************************)
EventKinds == {"stt_start", "stream_start", "speaking_start", "partial", "stream_end", "stt_end",
               "not_found", "speaking_end", "final"}

\* Types; a hold only runs while VAD is silent, so the branch of the frame path
\* for a voice that resumes during a hold without a SpeechStart is never taken;
\* and only a final waits on the bus.
TypeOK ==
    /\ Len(utt.live) <= 1 /\ utt.next \in Nat \ {0}
    /\ \A r \in Records(utt) : r.key \in Keys /\ r.key < utt.next
    /\ utt.hold \in Over .. Fresh /\ (utt.hold # Over => ~vad)
    /\ \A i \in DOMAIN bus : bus[i].waits => bus[i].kind = "final"
    /\ bus # <<>> => bus[1].waits
    /\ \A k \in Keys : ToSet(heard[k]) \subseteq EventKinds

\* A vendor that finalizes when asked, and no C1 while the caller speaks.
Regular == ~scope.cuts_in /\ ~scope.endpoints

TerminalsOf(k) == SelectSeq(terminals, LAMBDA e : e.key = k)

\* "exactly one terminal event ... Never both" (VOICE-API.md, Terminal event
\* contract), whichever of the vendor, C1, C2, new speech and a late answer ends it.
OneTerminal == Regular => \A k \in Keys : Len(TerminalsOf(k)) <= 1

\* The contract as it is written, for every utterance.
NeverBoth == \A k \in Keys : Len(TerminalsOf(k)) <= 1

\* Finals and not_founds arrive in utterance order (CHANGELOG, event order).
TerminalsInOrder ==
    \A i, j \in DOMAIN terminals : i < j => terminals[i].key <= terminals[j].key

\* A final holds the words of its own utterance.
OwnWords ==
    \A i \in DOMAIN terminals : terminals[i].kind = "final" => terminals[i].of = terminals[i].key

\* However late the vendor answers, and whoever waits for a speaker verdict, the
\* terminals are in order, provided that C1 waits for the earlier answers to the
\* end; and each final is given to its own utterance, by a vendor that finalizes
\* when asked.
TerminalsAttributed == (~scope.wait_ends => TerminalsInOrder) /\ (Regular => OwnWords)

\* What the host will have been told of k when the bus is empty.
Told(k) == FoldLeft(Hear, heard, SelectSeq(bus, LAMBDA e : e.key = k))[k]

\* Starts and ends alternate, and what is open belongs to a record that somebody
\* will end: no step drops a record with an open stream or session.
Paired(k, start, end, open) ==
    LET events == SelectSeq(Told(k), LAMBDA kind : kind \in {start, end})
    IN  /\ \A i \in DOMAIN events : events[i] = IF i % 2 = 1 THEN start ELSE end
        /\ (Len(events) % 2 = 1) = (HasRecord(utt, k) /\ Record(utt, k)[open])
StreamsAndSessionsPaired ==
    \A k \in Keys :
      /\ Paired(k, "stream_start", "stream_end", "stream_open")
      /\ Paired(k, "stt_start", "stt_end", "session_open")

\* The order of an utterance's events (VOICE-API.md, STT utterance lifecycle).
Rank == [stt_start |-> 1, stream_start |-> 2, speaking_start |-> 3, partial |-> 4,
         stream_end |-> 5, not_found |-> 6, stt_end |-> 6, speaking_end |-> 6, final |-> 7]
LifecycleOrder ==
    Regular => \A k \in Keys : \A i, j \in DOMAIN heard[k] :
                 i < j => Rank[heard[k][i]] <= Rank[heard[k][j]]

\* What the host hears of one utterance is a whole lifecycle, in order.
LifecycleKept == StreamsAndSessionsPaired /\ LifecycleOrder

\* Every utterance that opened a session gets its terminal event.
EndsInTerminal ==
    \A k \in Keys : Contains(heard[k], "stt_start") ~> TerminalsOf(k) # <<>>

=============================================================================
