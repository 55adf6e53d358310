# TLA+ for node-webrtc-rust

`node-webrtc-rust` is a Rust media and speech stack for Node servers: peer
connections, mixing, voice agents (speech to text and text to speech), and the
TypeScript helpers that host many voice sessions in one process. This directory
holds TLA+ models of the parts whose correctness depends on the order of things,
the TLC runs that check them on small instances, and TLAPS proofs of what holds
for every instance. Paths below are relative to the repository root.

Contents: [inventory](#inventory), [the models](#the-models),
[the runs](#the-runs), [where code and documentation part](#where-code-and-documentation-part),
[the proofs](#the-proofs), [what is not modelled](#what-is-not-modelled),
[plan](#plan).

| module | what it is |
| --- | --- |
| `TtsQueueSpec` | abstract: what the TTS queue promises its caller |
| `TtsSendOrder` | the ticket sequencer, the send path, flush passes, the worker's queue |
| `TtsSendOrder_proofs` | `TtsSendOrder`: types, call order, the turn, flushes; who owns a reply id and the order of reply ends; `TtsSendOrder` implements `TtsQueueSpec` |
| `TtsBuffer` | the playback buffer as operators on one value |
| `TtsPlayback` | drain worker, streaming synthesis job, flush and barge-in around that buffer |
| `TtsPlayback_proofs` | `TtsPlayback`: speaking events, types, its audio (what is kept, and what a flush lets through), and what is told of a reply |
| `DeepgramStt` | a deferred STT provider and its vendor, as operators on one value |
| `SttActor` | the per-agent STT actor around that provider |
| `SttActor_proofs` | theorems about `SttActor`: types, closes, attribution, parked commands, and that no chunk is lost |
| `SessionHost` | voice session hosts, their leases and per-client queues |
| `SessionPod` | the pod of session slots over those hosts, with signaling presence |
| `SessionPod_proofs` | four theorems about `SessionPod`: types, leases, slots, late events |
| `UserUtterance` | the utterance records of a voice agent, from VAD start to their terminal event |
| `InboundReorder` | the reorder buffer of inbound audio as operators on one value |
| `InboundPath` | network, reader task, stage, inbound pump and agent around that buffer |
| `InboundPath_proofs` | three theorems about them: types and deadlines, losses, silence |
| `ElasticQueue` | the elastic frame queue of a mix source as operators on one value |
| `MixGraph` | talkers, media clock and listeners' outbound loops around those queues |
| `MixGraph_proofs` | four theorems about `MixGraph`: types, ledgers, ticks, frames |
| `MixRouting` | who hears whom: allow-lists, mix groups, clients and clips on one graph |
| `MixRouting_proofs` | four theorems about `MixRouting`: types, groups, lists, clips |
| `LoopLemmas` | induction over the naturals and loops over sequences, for the proofs |
| `MC*` | the small instances, one `.cfg` per run |

Check with `tlc -config MCTtsSendOrder.cfg MCTtsSendOrder`, prove with
`tlapm TtsSendOrder_proofs.tla`; the table of runs names the pairs.

## Inventory

The program in its own code, leaving aside `third_party`, examples, benchmarks,
deployment and generated tables. "Hard" says what a test would hardly reach.

**Voice agent, outbound (`crates/speech`: `agent.rs`, `tts_send_order.rs`,
`tts_buffer.rs`, `tts_cache.rs`).** A send gets a ticket on the caller's thread
and then runs as a task of its own. Tasks wait for their turn, push a job; one
synthesis worker takes jobs in order and pushes audio into a buffer with a
reply ledger; one drain worker pops, cuts frames, and writes them to the
outbound track. `flush_tts`, `barge_in` and an automatic barge-in cut all of it
from other threads. State: the tickets and their cut, the queue and its held job,
the buffer (queue, ledger, carry, generation, producing flag), `agent_speaking`.
Hard: half a dozen locks taken one after the other and never together; every
check is stale by the time it is acted on; four places emit the end of a reply.
Correct means: sends start in call order, a flush covers exactly the sends
before it, every reply that had audio ends exactly once, speaking events pair up,
audio is neither lost nor played long after it was cut, and no task waits forever.

**Voice agent, inbound (`agent.rs`, `stt_actor.rs`, `stt_deferred.rs`,
`stt_hold.rs`, `stt_pre_roll.rs`, `utterance_replay.rs`, `vad.rs`,
`inbound_pump.rs`, vendors).** The inbound pump reads frames and a processor runs
voice activity detection, opens and closes utterances, and sends commands to an
actor that owns the STT provider. The provider's own tasks hold a socket to a
vendor that answers late or never. Hard: answers must be matched to requests by
order alone; deadlines race with late answers; connections die with requests
outstanding; a provider is swapped while the old one still owes answers. Correct
means: every utterance is closed once, in order, with its own text; every result
carries the generation of the provider that heard it; nothing blocks forever.

**Utterances (`agent.rs`, `events.rs`).** One live record and those that wait for
the recognizer's answer. Frames, a 50 ms ticker and the result pump act on them,
each under one lock for a whole step; finals that wait for a speaker verdict
reserve a slot on the event bus. Hard: seven ways to end an utterance (a vendor
final, an answered finalize, a late one, C1, C2, new speech, a partial that
becomes final), three timers that wait for each other. Correct means: one
terminal event per utterance, with its own words, in order, and never none.

**Speaker gate, TTS cache, events, recorder, latency (`crates/speech`).** Verdicts
per utterance with a timeout; a memory and disk cache of audio; an ordered event
bus with reserved slots and a lossy broadcast; files and measurements. Correct
means: a verdict is applied to its own utterance, limits are kept, an event slot
reserved is filled.

**Voice session host and budget (`packages/helpers/src/voice-agent-session-host.ts`,
`voice-session-budget.ts`).** One host per session slot, one `ClientSession` per
browser peer, one lease of a process-wide budget per connection. Operations of a
client run one after the other on a promise chain. A close has two halves, peer
connection and agent, each bounded by a timeout; a lease whose close came late or
failed goes to quarantine, and its host must then be recycled. Hard: every
`await` gives way to other handlers; a transport event, a `peer-left` and a
hangup of an old connection arrive while the next one is being built. Correct
means: no lease is lost or released twice, and an old event spares a new session.

**Session pod (`packages/helpers/src/session-pod.ts`).** Slots prepared for an
orchestrator ahead of their clients, one idle timer per session, teardown in
flight, hosts retired with leases in quarantine. Hard: a timer that fires while
a client joins; a teardown while a connect is still out; limits counted over
three maps. Correct means: capacity is kept, a session with a client is not
timed out, a teardown ends and leaves nothing, an abandoned session goes.

**Signaling (`packages/signaling/src`).** Rooms over WebSockets, replacement of
a stale socket by a newer one of the same peer, offers, answers and candidates.
Hard: the late close of a replaced socket; reconnect in the middle of a negotiation.

**Inbound audio stage (`crates/core/src/inbound_audio`, `crates/speech/src/inbound_pump.rs`).**
A task reads RTP into a channel; `read_sample` pushes it through a reorder buffer
over 16-bit sequence numbers and conceals what is lost; a pump reads samples on
one task and feeds the agent on another. Hard: wrap-around, duplicates, jumps,
deadlines of a hold; the end of a track behind packets that are held. Correct
means: output in order, each packet once, a loss only after its wait, and an end
that is heard as silence behind everything else.

**Mixer, mix pump, conference, player (`crates/mixer`, `crates/conference`,
`crates/player`, `packages/bindings/src/mixer`).** Elastic queues with a target
depth, a graph of sources with a cursor per listener, a clock that every render
advances, a pacer per listener; rooms and mutes on top of the graph. Hard:
cursors that outlive what they point into, loops that stall and catch up, queues
at their limit. Correct means: every tick is heard once or counted as skipped, and
no frame is lost uncounted.

**Routing of the shared mix (`graph.rs`, `packages/helpers/src/client-audio-mixer.ts`,
`audio-clip-controller.ts`).** An allow-list per listener, written by mix groups
and by clips; several hosts share one graph. Hard: a list that is absent means
everyone, so the last removal opens it; `play` awaits between choosing targets and
routing; plays end in any order. Correct means: groups are isolated, no list names
what is gone, a clip reaches its targets.

**Sherpa model pools (`crates/vendor-sherpa-onnx`).** Single-flight loading of
models and priority slots for synthesis with cancellation. Hard: a loader or
waiter that is dropped while it holds or is handed the slot.

**WebRTC core, SDK, bindings, other vendors.** Wrappers of the `webrtc` crate and
of services, and the conversions between Rust and JavaScript.

How they meet: the SDK calls the bindings, which reserve a ticket and spawn a
send; the agent's tasks share the buffer and `AgentInner`; the inbound side calls
the outbound side in one place only, the barge-in; the host owns agent and peer
connection of a session and closes both; the pod owns the hosts and is called
back by them; the signaling client feeds both.

## The models

A step is what the code does under one lock or, for TypeScript, in one turn of
the event loop; the next step of anybody may come between two of them. Actions
keep the names of functions. Where the code has one function, the model has the
sequence of its critical sections, and `pc` of a task says which comes next.

Each MC module defines *scopes*: records of bounds on what a behaviour may meet
(how many chunks, which failures, how many stale events). A behaviour picks one
scope at its start and keeps it, so that one run covers several mixtures that
would be too large all at once; `SafetyScopes` and the like are sets of them.

### TtsSendOrder (with TtsQueueSpec)

`next_ticket`, `next_turn`, `released_ahead`, `cancel_below`, `pending_reply`
are the fields of the sequencer's state (`tts_send_order.rs`); `registered` the
waiters of its `Notify`; `pc`, `has_reply` the sends; `queue_lock`, `queue`,
`held` the synthesis queue and the job the worker holds; `cut` the passes of
`flush_tts`, barge-in and stop. `Reserve` is the ticket taken on the caller's
thread; `Register`, `CheckTurn`, `LockQueue`, `Claim`, `Push`, `Release` and
`NotifyRelease` are the send's critical sections; `GiveUp` is a send that fails
or is dropped before its claim. A pass makes its `Cut`, wakes the waiters
(`NotifyCut`), settles held job and queue under the queue's lock (`Collect`) and
emits the reply ends. The worker pops a job into `held` (`PopIntoHeld`) and takes
it back to start it (`TakeHeld`) in two holds of that lock.

`TtsQueueSpec` is the same thing for a caller: a queue in call order with an
atomic flush point. `CallerView` maps tickets, turns and locks to it; a send is
over for the caller as soon as a cut covers it, although its task has not
noticed yet.

### TtsBuffer and TtsPlayback

`TtsBuffer` has one operator per method: `PushChunk`, `PopChunk`, the ledger's
booking of what was played, the producing flag, the carry, `Flush`. Audio is
counted in units, `FrameUnits` of which make a frame; a unit carries the number
of its reply, so the model knows whose audio is written.

`TtsPlayback` is the tasks around it. `drain.pc` walks through `run_tts_drain`
and `write_paced_tts_frames`; `job.pc` through
`run_tts_synthesis_job_streaming` and `wait_job_playback_idle`. Flush, manual
barge-in, automatic barge-in, the abort of a failed playback and the end of
speaking are the same few critical sections in different orders, so each is a
*plan*, a sequence of step names that `PlanStep` takes one by one
(`FlushPlan`, `ManualBargePlan`, `BargeInPlan`, `AbortPlan`,
`StopSpeakingPlan`). `tally` is history: what was booked, written and reported.

### DeepgramStt and SttActor

`DeepgramStt` is the provider: `DeferredFinals` (queue, pending, segments), the
stream (connection, position, deadlines) and the vendor at the other end of an
ordered socket, each operator one critical section of the provider's mutex. A
text is the set of chunks it was heard in, so that a property can say whose audio
is in it. Deepgram stands for the providers that answer later.

`SttActor` is the loop of `stt_actor.rs`: `cmds` is its channel, `outstanding`
the finalizes that wait for a marker, `parked` the swap or barrier that waits for
them, `gen` the generation, `backoff` the pause after a failed reopen. `agent` is
the sender: chunks and `EndUtterance` of one utterance after another, an STT
config for now or for the end of the utterance, a barrier. `told` is history.

### SessionHost and SessionPod

`SessionHost` has `leases` (the budget), `sessions` (the registered
`ClientSession` of a client), `work` and `peerOps` (the operation at work and
those queued behind it), `quarantineWaits` and `recycleRequired`, `hostClosing`,
and `incarnation`, the number of the host a session has now. `SessionPod` adds
the pod's maps (`slots`, `preparing`, `timer`, `polls`, `reason`, `flight`,
`ending`, `retired`) and what surrounds it: who is in the room (`present`), whom
the server has announced to the agent (`announced`), whether the agent's own
socket is in the room (`online`).

`Settled` is the event loop: a continuation that can run runs before the next
timer or input is taken, so an operation at the head of a client's queue starts
first. `HostStep` makes the pod's `onPeerDisconnected` part of the step of the
host that calls it. Merged: opening of the control channel and `connected` of the
connection become one `TransportUp`. Messages of one socket keep their order, so
a client comes back only after its `peer-left` was delivered.

### UserUtterance

`utt` holds the records (`live`, `closing`) and the turn-level flags and timers of
`AgentInner`; `bus` is the event queue behind a reserved slot, `actor` the STT
actor with its vendor, reduced to what decides the order of results, `results` the
pump's channel. Since frames, ticker and pump hold `utterance_step`, each is one
action: `InboundFrame` composes `NewSpeech`, `AfterVad`, `NotFoundStep` (C1),
`ForceStep` (C2), `StartStep` and `FeedAndClose` in the order of
`process_inbound_pcm_with_meta`; `Tick` is the ticker's C2; `ApplyResult` is
`handle_stt_result` with its target, partial, final and `FinalizeDone` cases. A
timer may fire whenever it is armed; the hold counts down in three steps (`Fresh`,
`Late`, `Over`). A final carries the utterance whose audio it was heard in (`of`), so
that a property can say whose words they are. `heard` and `terminals` are history.

### InboundReorder and InboundPath

`InboundReorder` has one operator per method of `InboundReorderBuffer`: `Push` with
its resets, duplicates and discards, `Advance`, `FlushHeld`, `Poll`,
`NextDeadline`, the adaptive wait (`Observe`, `RefreshWait`) and the ranges declared
lost. A packet has a position in the sender's stream; its sequence number is the
position modulo `SeqSpace`, compared as a signed number as in the code.

`InboundPath` adds the tasks: `Arrive` and `TrackEnds` (the reader task), `ScanFinds`,
`ScanWaits`, `ScanFails`, `Receive`, `DeadlinePasses` (the loop of `read_sample` and its
`select!`), `DeliverSample`, `TailFrame`, `PauseEnds` (the pump's reader), `Process`
(its processor), `StopRunning` and `Abort` (the bindings). The network loses,
duplicates and reorders; `Tick` is the clock.

### ElasticQueue and MixGraph

`ElasticQueue` is push and pop of one source: prefill, slimming, overflow, underrun
and the counters. A frame is the set of pushed frames it carries, so merges can be
told from losses. The jitter estimate is left open: a push may set any target.

`MixGraph` is the graph's lock: `PushFrame`, `Render` (clock, cursor, history),
`AddInput`, `Leave`. Each listener has the loop of `participant.rs`: it wakes at its own
phase, takes the slots due (`DueSlots`, at most a burst), renders them at their
scheduled times, and ends or is aborted in the middle. `Elapse` is the clock, at a
finer grain than a tick, so that loops have phases. `books` is history: what became
of the ticks a cursor passed.

### MixRouting

`graph` is the Rust side (inputs, routes, groups), `memberGroups` the record of the same
groups on the TypeScript side, `known` the registered peers, `plays` and `play` the
clips. Every action is one turn of the event loop; `PlayAudio` and `PlayStarts` are the
two halves of `play` around its `await`. An empty set of routes stands for no list, and
`Hears` is the rule of a render. `routed` is history: the listeners whose lists nobody
touched since a clip was routed.

## The runs

All runs set `CHECK_DEADLOCK FALSE`: the bounds on sends, replies, utterances
and joins let a behaviour come to rest.

| run | configuration | question |
| --- | --- | --- |
| `send_order` | `MCTtsSendOrder.cfg` | do sends start in call order, does a flush cover exactly the sends before it, does every send end, and is that a queue with a flush point? |
| `playback` | `MCTtsPlayback.cfg` | are reply ends and speaking events exact, and where does the audio go? |
| `playback_live` | `MCTtsPlaybackLive.cfg` | does every job finish, and every reply end whose audio no overtaken pass drops? |
| `playback_lost_chunk` | `MCTtsPlaybackLostChunk.cfg` | violated: at rest every reply has ended |
| `stt_actor` | `MCSttActor.cfg` | are utterances closed once, in order, with their own text, and answered at last? |
| `session_pod` | `MCSessionPod.cfg` | are leases, slots and timers accounted for? |
| `session_pod_live` | `MCSessionPodLive.cfg` | does a teardown end, and does a hangup free the slot? |
| `inbound` | `MCInboundPath.cfg` | does what arrives come out once, in order, in time, and the end behind it? |
| `mix` | `MCMixGraph.cfg` | is every tick heard once or counted, and every frame conserved? |
| `utterances` | `MCUserUtterance.cfg` | does every utterance end in one terminal event, in order, with its own words? |
| `utterance_both` | `MCUserUtteranceNeverBoth.cfg` | violated: at most one terminal event per utterance, C1 in mid-speech included |
| `routing` | `MCMixRouting.cfg` | are groups isolated, lists current, and clips heard by their targets? |

The passing runs explore, each to completion, about 218 thousand states
(`send_order`), 3.4 million (`playback`), 379 thousand (`playback_live`), 626
thousand (`stt_actor`), 449 thousand (`session_pod`), 14 thousand
(`session_pod_live`), 210 thousand (`inbound`), 2.4 million (`mix`), 121 thousand
(`utterances`) and 117 thousand (`routing`).

### What they show

`send_order`: `SendsInCallOrder` (queue, held job and started jobs in call order, one
send at a time at its turn), `CutLeavesNothingBehind`, `RepliesOwned` (a reply id is
with its send, a job, a flush or ended, never two; ends in ticket order),
`EverySendResolves` (no wake-up lost between the check of the turn and the sleep)
and `ImplementsQueue`. Three sends and a pass: a first send that is late, a second
that is cut, a third called after the cut. With one pass TLC does not see two
passes cut and collect across each other; the proofs cover that.

`playback`: `SpeakingBalanced`; `AudioConserved`, which is `NoAudioLost` and
`StaleAudioBounded` (a flush lets at most one frame of what it dropped reach the
track); `RepliesReported`, which is `ReplyEndsAtMostOnce`, `EndedMeansPlayed`,
`OkMeansPlayed` and `UndisturbedRepliesEnd`. Scope `Clean` has two replies of up to
two chunks of one to three units and no flush; `Flushed` one flush pass in any of
three orders at any moment and a writer that fails. With two units in a frame,
chunks of one to three units are a part of a frame, a frame, and a frame with a
rest: all the cases of the carry. Two replies are enough for one to inherit what
belongs to the other.

`playback_live` (`PlaybackEnds`): under fair scheduling every job finishes, and every
reply with audio gets its end, with a writer that fails and the 45 s deadline. Scope `Failing`
has one reply and a flush in any order, `Resumed` two replies and no flush but those of the
aborts. There a pass that an abort at the deadline has overtaken may take a chunk of
the second reply and drop it (`DropsNewAudio`), as it may after a barge-in
(`playback_lost_chunk`), and then that reply may never end, whatever its deadline. So
`BookedReplyEnds` speaks of the behaviours in which no pass does that; in `Failing` there
is none in which one does, in `Resumed` the condition is needed. `JobFinishes` has no such
condition. Two replies with a flush and the deadline are beyond a run with liveness;
`playback` covers what a flush does to two replies, as far as safety goes.

`stt_actor`: `ClosedOnceInOrder`; `Attributed` (markers, results and generations each
belong to the entry they are reported under); `HeardOut` (a close has heard all its
audio, a parked or queued swap waits); `NobodyWaitsForever`. Two utterances in six
scopes, since each hazard needs few things at once: swap and barrier at any moment
(`Clean`), utterances of several chunks (`Spoken`), two lost connections (`Lossy`), one
and a stop (`Stopping`), late answers with a swap (`Late`), answers that never come
(`Silent`). Two utterances are the smallest number for which an answer can go to the
wrong one.

`session_pod`: `CapacityAccounted` (leases, recycling, quarantine), `SlotsTellTheTruth`
(limits, timers, reasons, an empty teardown), `LateEventsSpareSuccessor`. One client
that comes back twice while an event of its last connection is late and its transport
may be lost (`Stale`); two clients and one lease (`Crowded`); two clients and failing
closes (`Quarantine`); two sessions and one slot, ended by an orchestrator whose hook
fails (`Contended`); one session made again while its closes are out (`Again`). Clients
of one session are symmetric, except under fairness, where no symmetry is used.

`inbound`: `OutputIsWhole` (the output follows the sender's order, with every hole named,
and every packet that arrived is in it, held, or accounted for), `LostOnlyAfterWait`,
`SilenceIsLast`, `ArrivedIsServed`, `EndIsHeard`. Numbers modulo 16 with positions 14 to
18, so every scope crosses the wrap; a hold of two, so that it overflows; a jump beyond
five, so that the buffer starts over; a wait of one to three ticks, so that it grows and
shrinks. Scopes: reordered, late, duplicated, jumping, ending.

`mix`: `EveryTickAccounted`, `OncePerTick` (a tick is played twice only before the place a
resync moved the clock to), `FramesConserved`. A tick of two time units gives loops two
phases; a catch-up of two ticks with 17 units of time reaches stalls beyond the history
(six ticks); a queue of three reaches overflow, slimming, underrun and a new prefill.

`utterances`: `OneTerminal` and `TerminalsAttributed` (order, own words), `LifecycleKept`
(streams and sessions paired, events in their order), `EndsInTerminal`. Three utterances
in turn where order is at stake, two where the agent speaks, answers come late, C1 cuts
in or the vendor endpoints. `OneTerminal`, own words and the event order assume `Regular`:
no C1 while the caller speaks (that is `utterance_both`), and a vendor that finalizes only
when asked, since an endpoint in mid-utterance is a final of its own. The order of terminals
assumes that C1 waits for the answers of earlier utterances until they are there.
`c1_hold_for_stt_open` makes it wait for `stt_open_wait_max_ms` at most, and not at all with 0.
The default of 120 s is longer than a vendor's finalize wait, so the order holds for it
unless a stream is refused for most of that time: the actor's deadline for the earlier
answer is then restarted when the stream opens at last (`stt_actor.rs:585`), and may
end after the bound. `C1Held` models both: the field `wait_ends` of a scope says that the wait
may be over (`Impatient`). There `utterances` checks everything but the order, which is then
lost.

`routing`: `GroupsIsolate`, `ListsAreCurrent`, `TargetsHearTheirClip`. Three clients of two
hosts, two clips, two groups, four registrations and two group operations: enough for a
client to return, to change its group, and for two plays to end in either order with a
third client untouched. Clients of one host, clips and groups are symmetric.

Properties that hold only until the code gives something up on purpose say so in
their antecedent: `MarkersAligned` ends with the 60 s grace
(`stt_actor.rs`, "attribution moves on"), `ResultsAttributed` with a finalize that
was given up, `ClosedMeansHeard` with a lost connection, a late answer or a swap in
the middle of an utterance. `NoAudioLost`, `EndedMeansPlayed`, `OkMeansPlayed` and
`UndisturbedRepliesEnd` are about replies nobody cut; what a cut may do is bounded
by `StaleAudioBounded`, `ReplyEndsAtMostOnce` and `SpeakingBalanced`.

### Fairness

*TTS.* Weak fairness of each task's steps: tokio schedules a ready task, the
writer and a vendor's call return, 45 s pass. Nothing makes a caller send or
flush, give up or barge in. The queue's tokio mutex is fair; weak fairness is
enough here, since finitely many sends ever ask for it.

*STT.* Weak fairness of the actor's step, strong fairness of the expiry of
deadlines: a deadline is looked at in the actor's `select!`, which every command
and every poll leaves and comes back to, so the step is enabled again and again
rather than all the time, and a passed deadline stays passed. Nothing is assumed
of the vendor.

*Utterances.* The caller pauses at last, a reply ends, the actor and the pump run,
the vendor answers or is timed out, a verdict settles. Frames keep coming while a
turn waits to be closed (`FramesKeepComing`): a track delivers a frame every 20 ms,
silence included. No timer is fair by itself, and nothing makes the caller or the agent
speak.

*Inbound.* Time passes, a ready task is polled. The network owes nothing: packets may
stay away for ever.

*Sessions.* Awaits of the host end (each half of a close is raced with a
timer), hooks settle, timers fire, and a message on an open
socket arrives. Nothing is assumed of clients, transports, late answers or the
orchestrator. `HangupFreesSlot` counts only while nobody asks for the session
again.

Three of these conditions (`ActorReady` in `SttActor`, `ReaderIsReady` in `InboundPath`,
`TurnWaits` in `UserUtterance`) are weak fairness with the `ENABLED` of the action spelt
out, which TLC evaluates much faster.

## Where code and documentation part

With a run that reaches it; TLC's counterexample is the shortest behaviour.

1. **A chunk popped across a flush is lost** (`crates/speech/src/agent.rs:6372`;
   `playback_lost_chunk`). `pop_chunk` does not compare the generation, so a pass
   begun before a flush takes the first chunk queued after it and drops it at the
   next check. The ledger waits for units that are never written, and the
   reply gets no `agent_reply_end`.
2. **An utterance is reported as not found twice** (`agent.rs:4149`;
   `utterance_both`). A C1 close while VAD still hears speech leaves the record live.
   After a brief gap the same record opens a second session, and a second C1 close
   emits `user_stt_not_found` again, without looking at `not_found_emitted`.

Met while modelling, without a run of their own:

- *`agent_speaking` stays set after the queue has drained* (`agent.rs:6449`). Only a pass
  that wrote something ends speaking. If the last frame is written while the job still
  counts as producing, the pass after it finds nothing to write; the agent counts as
  speaking until `wait_job_playback_idle` gives up after 45 s and the send fails.
- *With `stt_open_wait_max_ms` 0, terminals come out of order* (`agent.rs:1514`). C1 waits for
  the answer of an earlier utterance through the same helper, and so for the same bound, as
  for a stream that is refused; the bound is documented for that wait only (`config.rs:422`,
  "0 = no extra wait"). With 0, or a bound that is over before the vendor's answer, C1
  reports a later utterance as not found before the earlier one has its terminal event, which
  `CHANGELOG.md:282` excludes ("Finals and `user_stt_not_found` still arrive in utterance
  order"). In scope `Impatient` TLC finds `TerminalsInOrder` violated.
- *A late answer closes the wrong utterance* (`crates/vendor-deepgram/src/stt.rs:95`). An
  answer that comes after its finalize expired is recognised only while no other
  finalize is pending; otherwise the next utterance is closed with its text.
- *A client that leaves before its transport was up keeps its session*
  (`packages/helpers/src/voice-agent-session-host.ts:606`, 1674-1685): at the end of the
  grace a transport that is still `new` is left alone.
- *A private clip reaches others.* An empty allow-list is no list, and without a list a
  listener hears everyone: a client that is no target, and whose list runs empty because
  the last source on it left, hears the clip. `CHANGELOG.md:849` says "implicit MixGraph
  hear-all cannot leak targeted clips". `Hears` is modelled as the code is, so
  `ListsAreCurrent` speaks of lists and not of ears.
- *A client outside every group* "hears nobody" (`graph.rs:390`, host 2188); the code
  clears its list, and it hears everyone.
- *A group change while a clip plays* rebuilds the lists of its members without the clip:
  its targets stop hearing it (`TargetsHearTheirClip` counts those untouched since).
- *The inbound stage never recovers from an end* (`stage.rs:200`), while the pump "waits for
  the next RTP burst": every later read fails at once, and is paused.
- *A packet behind a gap that is partly filled* waits again from the arrival of the new head
  of the hold, so longer than the 60 ms of `media.rs:264`; `LostOnlyAfterWait` states the
  lower bound, `ArrivedIsServed` that the wait ends.
- *`Participant::shutdown` does not stop the inbound loop*: a frame pushed after it makes the
  slot of the talker again; an aborted outbound loop may render once more and make the
  listener's cursor again. After a resync of the clock a listener may repeat a tick.
- *The branch for a voice that resumes during the hold* (`agent.rs:5418-5443`) is never
  taken: `TypeOK` of `UserUtterance` says that a hold runs only while VAD is silent.

Seen while reading: `preparingSessions` counts a session twice
while its created hook runs, next to its slot (`session-pod.ts:320`); a session
prepared again inherits an idle timer that is still running (`:219`), and a
hangup's grace of zero is then ignored (`:126-128`); `peer-joined` cancels the
idle timer although the connect may then be refused, which leaves a slot without
a timer (`:49`, `:392`); an agent whose start finishes after its session was closed
is not stopped (`voice-agent-session-host.ts`, near 1323); the close handler of a
replaced socket removes the live peer of the same id
(`packages/signaling/src/server.ts:224-237`); two
`setGlobalMute` calls for one client interleave at their awaits, so the graph and the
agents' STT may end in different states (`session-pod.ts:582`).

## The proofs

`TtsSendOrder_proofs`, from `SendOrderAssumption` alone, for any number of sends,
passes and cuts:

- `TypeCorrect`, `CallOrder`, `ExclusiveTurn`, `SendsKeepCallOrder`, `FlushIsComplete`:
  the properties `TypeOK`, `SendsInCallOrder` with its two halves, and
  `CutLeavesNothingBehind`.
- None of them is inductive alone. `TypeInv` adds that exactly the tickets handed
  out have left `idle`; `LockInv` that a send holds the queue lock exactly from its
  lock to its notification; `TurnInv` that the cut never runs ahead of the turn;
  `JobInv` that every job is below the turn, but for the one just pushed by the
  send whose turn it is, so that a push appends above everything there is;
  `CutInv` that a pass never cuts beyond the cancelled tickets. Each is shown to
  hold at the start and to be kept by each action, from those before it.

Its second part builds on these layers: `OneOwnerPerReply`, `ReplyEndsOrder` and
`RepliesAccounted` are the two halves and the whole of `RepliesOwned`. `StageInv` says where
a send with a job in the queue can be; `PendInv` where one with a pending reply id can
be: on its way, uncancelled, not yet passed by the turn. `OwnerInv` adds that what a flush holds or
an emitted end has reported is cancelled, so that its send can claim no place any more, and
that a reply id nobody holds belongs to a send that gave up. With them no action gives a
reply id a second owner. The order of a pass's reply ends follows because a queued job is
below the turn and a pending id is not.

Its third part is the refinement: `QueueImplemented`, `Spec =>
ImplementsQueue`. A send has one status for its caller (`CallerView`): coming, queued,
started or over. `WaitInv` adds that the turn never passes a send that is on its way
and not cancelled, so that the three places a send can be in are ordered by ticket.
Each step is then mapped to the abstract step it takes effect at: `Reserve` calls,
the claim of its ticket queues a send, `TakeHeld` starts it, a cut flushes at once
everything below it, a send that gives up is over; every other step stutters.

`TtsPlayback_proofs`, from `PlaybackAssumption` and `FrameAssumption`:
`SpeakingEvents` is `SpeakingBalanced` for any number of replies, passes and
scopes. The invariant `SpeakInv` adds `Shape` (types of what the argument uses),
`PlansReport` (whoever found `agent_speaking` set and cleared it still has the
`speaking_end` of its plan before it, and no second clearing), `PlansStart` (a
task starts a plan only when its last one is done) and `OnlyDrainSets` (only the
drain sets the flag, so a pass that found it clear, past that look and before its
own start, still does).

Its second part, on top of that, for replies of any number of chunks of any size:
`PlaybackTyped` (`TypeOK`: the ledger never books more than was queued, a carry is
shorter than a frame) and `AudioKept` (`AudioConserved`). `AudioInv` joins them with:

- `Typed`, `DrainShape` and `JobShape`: the types of buffer, drain, job and books, that the
  drain has a frame exactly at the steps that handle one, and that no pass and no job is
  of a generation yet to come.
- `NoAudioLost`: undisturbed, the units booked for a reply are those written and those in
  frames, carries and queue. Every step of the drain is a `Flow`: units leave one place
  for the next and are counted there. Cutting a piece of audio into frames keeps its units
  (`FramesCut`); the rest are sums over sequences whose head, tail or end changes.
- `StaleInReach`: `late`, the units written after a flush cut them, and those that still
  can be (`InReach`) are at most a frame for each flush. `late` alone is not inductive, and
  everything on its way is too much: a pass of an earlier generation writes at most the frame
  it has checked, stores less than a frame, and drops the rest. So `InReach` counts, of
  a pass that a flush has overtaken, only that frame or the carry it will store; a
  flush adds at most a frame to it and no other step makes it grow.
- `Fresh`: no chunk of a reply that a flush cut is queued again, and no job of the
  current generation makes one.

Its third part is `RepliesTold` (`RepliesReported`): a reply ends once at most; undisturbed,
neither its end nor the Ok of its send runs ahead of its audio, and at rest every reply that
had audio has ended. `ReportInv` joins `AudioInv` with three facts that always hold or
hold as long as nothing was cut:

- `Owned`: the end of a reply has one owner. It is in the ledger, or in what a flush took
  from there, or it is for the job that was cut before it booked anything, and once it is
  reported it is in none of them. The replies of the ledger rise, and only the entry of the job
  at work may be incomplete, so `mark_reply_complete` closes the entry it means.
- `InTurn`: frames, carries and queue hold the replies in the order of their jobs. So the
  frame in hand belongs to the first entries of the ledger, which is what `consume_played`
  assumes when it books by count.
- `Calm`, undisturbed: `LedgerTrue` (what the ledger holds open of a reply is what is on its
  way of it, with the frame written and not yet booked), `TailShape` and `Held` (a popped
  chunk is held until it is written but for the padded tail, so a buffer that is not speaking
  has less than a frame on its way), `PlayedEnds`, `OkInv`, and `Awake`: what is left in queue,
  carry or ledger has the drain at it, its wake set, or a producing job that will set it.
  The last is what a pass needs that settles with an entry still open: that entry is
  incomplete, so its job is at work, or it has audio on its way, and that woke the drain.

The loop of `consume_played` is taken entry by entry (`HeardNext`, `ConsumeHears`), the
steps of the drain by what they do with the audio in hand (`Moves`, `DrainTurns`), and those of
jobs and plans by what they leave alone (`Bystands`, `OthersBystand`).

`SessionPod_proofs`, from `HostAssumption` (finitely many clients, each with a room;
scopes that are records of natural numbers and Booleans): `TypeCorrect`,
`CapacityIsAccounted`, `PodSeesTheTruth` and `SuccessorIsSpared`, for any number of
sessions, clients, reconnects and restarts of a host. `PodInv` joins what none of the
four can do without:

- `ClientInv`: outside quarantine a client holds one lease at most, that of its session
  or of the operation at work, numbered at most as high as the last one born, of the
  host its session has now; `LeaseInv` that the budget is these leases and those in
  quarantine, and nothing else.
- `SlotInv`: a teardown in flight keeps its slot and has closed the host to new operations;
  once it waits for the closes, no connect is out and every session left has its close
  queued. So it leaves nothing (`TornDownIsEmpty`).
- `QuarantineInv`: a session is made again only when no lease of it is left in
  quarantine, so that its leases there belong to one host, the one to be recycled.
- `TimerInv`, `NeverInv`, `CapacityInv`, `QueueInv`, `CloseInv`: when the idle timer runs, what
  `never_connected` says, the three maps that count against the limit, what may be
  queued, and whom a close names. The step from one cardinality to the next
  (a lease added, one released, a slot that replaces a preparation) uses the library's
  theorems about finite sets.

`MixGraph_proofs`, from `MixAssumption` and `QueueAssumption`, for any participants, tick,
catch-up, capacity, history and scopes:

- `TicksAccounted` (`EveryTickAccounted`). One render is the whole of it: the clock never
  goes back (`RunsForward`), no slot hears a tick newer than the clock's (`NewestBounded`),
  and a step of the cursor plays only ticks the history holds or counts every tick up to
  the one it plays.
- `FramesKept` (`FramesConserved`). `SlotOk` says of a source: its queue holds consecutive
  spans of frames up to the latest one pushed, its counters balance, its history ends
  where the queue begins. A push keeps it in each of its cases (append, merge,
  overflow), one tick keeps it (pop, underrun, prefill), and a render of any number of
  ticks by induction (`TicksKeep`).
- `PlayedOnce` (`OncePerTick`). `PaceInv` adds where a listener's loop is: its slots lie
  one tick apart, none ahead of the time, and those still to come lie behind the tick it
  heard last on the clock, unless the clock was resynced past them (`Ahead`).
- `GraphTyped` (`TypeOK`): the limits of queue, history and burst, from the same invariants.

`MixRouting_proofs`, from `RoutingAssumption`: `RoutingTyped`, `IsolationKept`,
`NothingLeftBehind` and `ClipsReachTheirTargets`, for any number of hosts, peers, clips and
groups. `RouteInv` is `GraphOk` of the graph (lists name inputs only; a clip is on no
list but its targets'; who is not registered has no list; the list of a member of a
group of two or more is the group, clips apart), the agreement of the two records of
the groups, a target for every play that is fetched or runs, and every clip on the
lists that `routed` says it is on. It is checked by TLC on the instance of the run as well.
Each operation on the graph is a lemma. Within one, `GraphOk` is broken and mended: after the
members of a group have moved, rebuilds are *owed* to the groups they left, and each
rebuild pays one. `Reapply` and `onPeerDisconnected` are loops over the plays, functions on
`0 .. n`: `LoopExists` says that such a function is what its passes make it, and what
a pass keeps the loop keeps. The loop of a disconnect keeps a weaker `GraphOk`, with the
targets as they are after each pass, and every play that it tears down or routes again
leaves the clips before it on their lists.

`InboundPath_proofs`, from `ReorderAssumption` and `PathAssumption`: `InboundTyped`,
`SilenceEndsTheStream` and `LossesAreJustified`, for any limits, sequence space, stream and
interleaving.

- The buffer is followed operator by operator. `Sound` says that what is held lies between
  `next` and `max_ext` and has arrived, that waits and histories are within their limits,
  and that a running gap is no older than some packet held (`GapHasHeld`): the head of
  `held` may be newer than the gap's clock, a packet held behind it is not. So a gap that is
  over has had a packet behind it for `MIN_WAIT` (`OverIsPatient`), and `NextGapSince` leaves a
  deadline wherever it leaves a packet (`Waits`), which is what `SelectWakes` needs.
- The path adds `EndComesLast` (the end is the last message of the reader, and the stage
  that has read it finds its channel empty), `NothingIsLeft` (no silence before a flush has
  emptied the buffer) and `SilenceFits` (the tail and what is fed of it).

`SttActor_proofs`, from `ActorAssumption`, for any number of utterances and chunks and any
vendor: `SttTyped` (`TypeOK`), `ClosedInTurn` (`ClosedOnceInOrder`), `ResultsFindTheirUtterance`
(`Attributed`; its parts `MarkersStayAligned` and `HeardByItsProvider` hold on `Inv` alone),
and `UtterancesAreHeardOut` (`HeardOut`; its part `SwapsAndBarriersWait` holds on `Inv` alone).
`Inv` joins, over two tasks and three queues:

- `Aligned`: the finalizes that are requested and the markers that are queued (`Owed`) are as
  many as the entries of `outstanding`. Each provider step keeps the sum (`AnswerOwesTheSame`,
  `LostOwesTheSame`); a poll that an error cuts short takes as many entries as markers;
  `ReopenedIdle` says that a dead stream is only replaced with nothing outstanding.
- `Ledger` between the entries and what was told: keys grow, timed-out entries are the oldest
  and already closed, and every end that was read is closed or has an entry. A refused end
  is closed out of turn, so `ClosedBefore` leaves the refused ones out.
- `SpokenInOrder`: what the channel holds comes after every end that was read, and each key
  is sent once, so that a new entry goes behind all others.
- `Typed`: every chunk that provider, socket or queue holds was pushed under the current
  generation, and every entry was requested under it, from which the generation of a
  transcript follows.

Whose a text is follows from `Owners`, inductive together with `Inv`:

- `TextsRight`: what queue, segments, vendor and socket hold behind `d` markers belongs to
  entry `d + 1` of `outstanding`, or, with no such entry, to the one utterance that is `Open`:
  not ended, with all before it ended. Its end adds the entry that its texts wait for
  (`RequestOwns`), and `OpenIsOne` says that nothing else is waiting there. A final is only ever
  queued in front of a marker. A finalize refused by a dead stream gets no entry, and what the
  stream still holds is then nobody's (`Claimed`): its partials are reported with no key.
- A finalize with no audio behind the last one is answered at once, in front of those that
  wait for the vendor, if any do: then its marker would be taken for theirs. `Unasked` says
  that none do. It needs the agent's side of the channel: `ToCome`, of each utterance whose
  end is still to be read, a chunk that is queued or still to be sent before it.
- `Books`: a dead stream holds only its queue, and with nothing pushed since the last finalize
  the vendor has nothing behind it.

It holds as long as nobody closed a finalize that the vendor may still answer (`gave_up`), the
condition that `ResultsAttributed` states: an answer that comes after that is taken for the next
one's.

That nothing is missing follows from what is nowhere lost:

- `Swaps`: a Swap that a close has queued stands right behind the end it was queued for, and
  when it is next, or parked, nothing has been pushed since the last finalize
  (`QueuedSwapWaits`).
- `Counts`: a live stream's counters are positions in it, and text that waits for a finalize is
  of audio behind the last one; so `IsLate` drops no text.
- `Calm`: undisturbed, the stream lives and no entry is timed out.
- `Whole`: each chunk of an utterance whose end is sent, and of the one being spoken each chunk
  that is not left, is `Present`: in the agent's hand, in the channel, at the provider (`Holds`)
  or in a report. No step of the provider loses one (`Known` before a step is `Known` after it),
  and a stream that is replaced holds none. `ClosedIsGone` says that the hand, the channel and
  the provider hold nothing of an utterance that is closed, so its chunks are in reports, and
  by `Attributed` in finals with its key.

`drain_outputs` is a loop over the polled items, a function on `0 .. n`; what one item keeps
the loop keeps (`LoopExists`).

`OutputIsWhole` is not a theorem for every stream: it needs positions that lie closer together
than half the sequence space, as those of the instances do.

Induction here is over the naturals, through a set: the least element of a set of
counterexamples, which exists because `<` is well founded on `Nat` (`WFMin`). The
library's induction rules, whose parameter is an operator, are out of the reach of the
installed provers; recursive functions on `0 .. n` are not.

Left to TLC:

- liveness and everything under fairness (`EverySendResolves`, `PlaybackEnds`,
  `NobodyWaitsForever`, `SlotsAreFreed`, `EndsInTerminal`, `EndIsHeard` and their like),
  which TLAPS does not handle;
- `OutputIsWhole` of `InboundPath`, for the reason above;
- the properties of `UserUtterance`: its terminals, its queue and what its listeners
  heard are `SelectSeq`, `SelectInSeq` and `FoldLeft` of the community modules, whose parameters
  are operators, so that what they return for every queue is out of the provers' reach. To prove
  them, those operators have to become recursive functions on `0 .. n`, as
  `drain_outputs` and `Reapply` are.

## What is not modelled

Of the parts that are modelled:

- TTS: the buffered job (`VOICE_TTS_STREAM_CHUNKS=0`), the silence after an utterance,
  `stop()`, untagged audio, the interplay of the held job with `generate_cancel`.
- STT: inline providers, `WaitReady` (changes no state), the extension of deadlines while
  a connection opens, counters and latency samples, the second `EndUtterance` of a
  record that an early close left live.
- Utterances: the host's STT hold with its replay, `set_stt_enabled`, the language gate,
  the rules of the speaker gate (a verdict settles at some time), pre-roll, barge-in,
  agents with VAD alone, `gateStt` off.
- Inbound: the raw path without reordering, how many frames conceal a loss, `impair`.
- Mixer: mutes, gains and spatial placement, decoding, the report's counters, and the
  mix pump, which drives the same pacer from JavaScript.
- Routing: the overlay of clips without a mix, the close of a host, placements and poses,
  mutes, and group operations or clips that name clients who are not registered.
- Sessions: the start of the agent, mixing, mutes and clips, `disconnectPeer`, `shutdown`,
  graces of zero, retry timing, and a teardown racing with a reconnect of the agent's own
  socket.

Parts without a module, and why, are listed with `status` `not_modelled` in
`PROJECT.json`: the planned ones below; signal processing, files, measurement and
conversions, which are sequential; wrappers of the `webrtc` crate, whose protocol
is not in this repository; third-party code and examples.

## Plan

In this order, each module with its instances:

1. `TtsSynthesis`: the worker with held job, epoch, `generate_cancel` and the
   bounded joins of `stop()`, composing `TtsSendOrder` with `TtsPlayback`.
2. `Signaling`: server, client and auto-negotiation with replaced sockets,
   composed with `SessionPod` in place of `present` and `announced`.
3. `SherpaPool`: single-flight loading and priority slots, with an abstract
   specification of each.
4. STT hold and replay, speaker gate and language gate in `UserUtterance`; its results
   then come from `SttActor` instead of the reduced actor it has now.
5. The mix pump as a second driver of `MixGraph`; mutes of graph and conference room.
6. TTS cache, late start of the agent, late messages of a data channel.

To prove next: the properties of `UserUtterance`.
