------------------------------- MODULE SttActor -------------------------------
(***************************************************************************)
(* The per-agent STT actor (crates/speech/src/stt_actor.rs) with a         *)
(* Deferred provider: one task that owns the provider, handles the agent's *)
(* commands in send order, and attributes what the provider hears to the   *)
(* utterance it belongs to.                                                *)
(* Utterances are 1 .. Utterances; an utterance's number is the key of its *)
(* EndUtterance. A chunk is <<utterance, index, generation it was pushed   *)
(* under>>. The provider's own tasks (its socket and the vendor behind it) *)
(* run between any two steps of the actor.                                 *)
(***************************************************************************)
EXTENDS DeepgramStt, FiniteSets

CONSTANTS
    Utterances,      \* bound: utterances spoken
    Scopes           \* what a behaviour may meet: one of these bounds

\* A scope says how many chunks an utterance may have, which of Swap and Barrier
\* the agent sends (each once), how many connections are lost, up to how many
\* waiting outputs the vendor sends interims, whether an answer may take longer
\* than finalize_wait_ms, and longer than STT_LATE_MARKER_GRACE_MS after that,
\* and whether the agent may stop.
ASSUME ActorAssumption ==
    /\ Utterances \in Nat
    /\ \A s \in Scopes :
         /\ s.chunk_counts \subseteq Nat \ {0}
         /\ s.parkables \subseteq {"swap", "barrier"}
         /\ s.losses \in Nat /\ s.interims \in Nat
         /\ {s.may_time_out, s.may_forget, s.may_stop} \subseteq BOOLEAN

Keys == 1 .. Utterances
NoKey == 0

VARIABLES
    scope,           \* the bounds of this behaviour
    agent,           \* the agent's side: the utterance spoken and its STT config
    cmds,            \* the command channel
    pc,              \* where the actor's loop is
    hand,            \* the audio chunk the actor is handling
    stt,             \* the provider
    outstanding,     \* finalizes waiting for their marker: [key, gen, timed_out]
    parked,          \* a Swap or Barrier that waits, or None
    gen,             \* swaps applied
    backoff,         \* a reopen failed less than STT_REOPEN_BACKOFF_MS ago
    losses,          \* connections still to be lost
    told             \* what the agent has been told (history)

vars == <<scope, agent, cmds, pc, hand, stt, outstanding, parked, gen, backoff, losses, told>>

Audio(chunk) == [cmd |-> "audio", arg |-> chunk]
EndUtterance(key) == [cmd |-> "end", arg |-> <<key>>]
Swap(sentBy) == [cmd |-> "swap", arg |-> <<sentBy>>]
Barrier == [cmd |-> "barrier", arg |-> <<"wait_stt_idle">>]
Stop == [cmd |-> "stop", arg |-> <<>>]
None == [cmd |-> "none", arg |-> <<>>]

Told0 == [ended |-> {},          \* EndUtterances handled
          closed |-> <<>>,       \* keys of FinalizeDone, in order
          refused |-> {},        \* of those, closed because the request failed
          timed_out |-> {},      \* of those, closed because no answer came in time
          gave_up |-> {},        \* who gave up an answer: {"provider", "actor"}
          heard |-> {},          \* transcripts: [key, gen, chunk, final, live]
          reached |-> {}]        \* Swaps and Barriers reached, and at which state

Init ==
    /\ scope \in Scopes
    /\ \E n \in scope.chunk_counts :
         agent = [utt |-> 1, left |-> n, in_progress |-> FALSE,
                  config |-> "none", apply_now |-> FALSE, barrier |-> FALSE]
    /\ cmds = <<>>
    /\ pc = "select"
    /\ hand = <<>>
    /\ stt = Opened
    /\ outstanding = <<>>
    /\ parked = None
    /\ gen = 0
    /\ backoff = FALSE
    /\ losses = scope.losses
    /\ told = Told0

(***************************************************************************)
(* The agent sends, and never waits.                                       *)
(***************************************************************************)
AgentOnly == UNCHANGED <<scope, pc, hand, stt, outstanding, parked, gen, backoff, losses, told>>

SendAudio ==
    /\ agent.utt \in Keys /\ agent.left > 0
    /\ cmds' = Append(cmds, Audio(<<agent.utt, agent.left>>))
    /\ agent' = [agent EXCEPT !.left = @ - 1, !.in_progress = TRUE]
    /\ AgentOnly

\* begin_utterance_close: EndUtterance, and behind it the queued STT config.
SendEnd ==
    /\ agent.utt \in Keys /\ agent.left = 0
    /\ cmds' = cmds \o <<EndUtterance(agent.utt)>>
                   \o (IF agent.config = "queued" THEN <<Swap("close")>> ELSE <<>>)
    /\ \E n \in scope.chunk_counts :
         agent' = [agent EXCEPT !.utt = @ + 1, !.left = n, !.in_progress = FALSE,
                                !.config = IF @ = "queued" THEN "sent" ELSE @]
    /\ AgentOnly

\* close_stt_stream_not_found: the utterance ended and no transcript of it has
\* come in time; a queued config is not sent.
CloseNotFound ==
    /\ agent.utt \in Keys /\ agent.left = 0 /\ agent.in_progress
    /\ \A h \in told.heard : h.chunk[1] # agent.utt
    /\ cmds' = Append(cmds, EndUtterance(agent.utt))
    /\ \E n \in scope.chunk_counts :
         agent' = [agent EXCEPT !.utt = @ + 1, !.left = n, !.in_progress = FALSE]
    /\ AgentOnly

\* update_stt_config queues the config and, with no utterance in progress,
\* decides to apply it ...
UpdateConfig ==
    /\ "swap" \in scope.parkables /\ agent.config = "none"
    /\ agent' = [agent EXCEPT !.config = "queued", !.apply_now = ~agent.in_progress]
    /\ cmds' = cmds
    /\ AgentOnly

\* ... which it does under another lock.
ApplyConfig ==
    /\ agent.apply_now
    /\ agent' = [agent EXCEPT !.config = "sent", !.apply_now = FALSE]
    /\ cmds' = IF agent.config = "queued" THEN Append(cmds, Swap("idle")) ELSE cmds
    /\ AgentOnly

\* wait_stt_idle
SendBarrier ==
    /\ "barrier" \in scope.parkables /\ ~agent.barrier
    /\ agent' = [agent EXCEPT !.barrier = TRUE]
    /\ cmds' = Append(cmds, Barrier)
    /\ AgentOnly

SendStop ==
    /\ scope.may_stop /\ agent.utt # NoKey
    /\ agent' = [agent EXCEPT !.utt = NoKey]
    /\ cmds' = Append(cmds, Stop)
    /\ AgentOnly

(***************************************************************************)
(* Results                                                                 *)
(***************************************************************************)
Close(t, key) == [t EXCEPT !.closed = Append(@, key)]

\* front_key_gen: transcripts belong to the oldest outstanding finalize.
FrontEntry_Youngest(entries) == entries[Len(entries)]
FrontEntry(entries) == entries[1]

\* emit_transcript, with the key of an utterance whose end has been handled or
\* none while it is being spoken.
Transcript(t, entries, item) ==
    LET key == IF entries = <<>> THEN NoKey ELSE FrontEntry(entries).key
        under == IF entries = <<>> THEN gen ELSE FrontEntry(entries).gen
    IN  [t EXCEPT !.heard = @ \union
            {[key |-> key, gen |-> under, chunk |-> c, final |-> item.kind = "final",
              live |-> c[1] \notin t.ended] : c \in item.text}]

\* drain_outputs: one polled item. The marker of a finalize reported as timed
\* out is swallowed.
Deliver_Always(acc, item) ==
    IF item.kind # "done"
      THEN [acc EXCEPT !.told = Transcript(@, acc.entries, item)]
    ELSE IF acc.entries = <<>>
      THEN acc
      ELSE [entries |-> Tail(acc.entries), told |-> Close(acc.told, Head(acc.entries).key)]
Deliver(acc, item) ==
    IF item.kind # "done"
      THEN [acc EXCEPT !.told = Transcript(@, acc.entries, item)]
    ELSE IF acc.entries = <<>>
      THEN acc
      ELSE [entries |-> Tail(acc.entries),
            told |-> IF Head(acc.entries).timed_out THEN acc.told
                     ELSE Close(acc.told, Head(acc.entries).key)]

\* Any number of polled items, in order.
Delivered(items) ==
    LET after[i \in 0 .. Len(items)] ==
          IF i = 0 THEN [entries |-> outstanding, told |-> told]
          ELSE Deliver(after[i - 1], items[i])
    IN  after[Len(items)]

\* The provider first answers the finalizes that have waited too long; the
\* first error ends the polling.
DrainOutputs ==
    \E n \in (IF scope.may_time_out THEN 0 .. stt.finals.pending ELSE {0}) :
      LET expired == Answer(stt.finals, n)
          after == Delivered(Polled(expired.queue))
      IN  /\ stt' = [stt EXCEPT !.finals = [expired EXCEPT !.queue = Unpolled(expired.queue)]]
          /\ outstanding' = after.entries
          /\ told' = [after.told EXCEPT !.gave_up = @ \union IF n > 0 THEN {"provider"} ELSE {}]

(***************************************************************************)
(* Deadlines                                                               *)
(***************************************************************************)
Waiting == {i \in DOMAIN outstanding : ~outstanding[i].timed_out}

\* The oldest entry that is not timed out is the next to time out, even behind
\* entries that are.
MayExpire_Front(i) == i = 1
MayExpire_Any(i) == TRUE
MayExpire(i) == \A j \in Waiting : i <= j

ExpireDeadlines ==
    /\ pc = "select" /\ scope.may_time_out
    /\ \E i \in Waiting :
         /\ MayExpire(i)
         /\ outstanding' = [outstanding EXCEPT ![i].timed_out = TRUE]
         /\ told' = [Close(told, outstanding[i].key)
                       EXCEPT !.timed_out = @ \union {outstanding[i].key}]
    /\ pc' = "parked"
    /\ UNCHANGED <<scope, agent, cmds, hand, stt, parked, gen, backoff, losses>>

\* A timed-out front entry whose marker never arrived.
ForgetFront ==
    /\ pc = "select" /\ scope.may_forget
    /\ outstanding # <<>> /\ Head(outstanding).timed_out
    /\ outstanding' = Tail(outstanding)
    /\ told' = [told EXCEPT !.gave_up = @ \union {"actor"}]
    /\ pc' = "parked"
    /\ UNCHANGED <<scope, agent, cmds, hand, stt, parked, gen, backoff, losses>>

(***************************************************************************)
(* Commands                                                                *)
(***************************************************************************)
Reads(name) ==
    /\ pc = "select" /\ parked = None
    /\ cmds # <<>> /\ Head(cmds).cmd = name
    /\ cmds' = Tail(cmds)

\* on_audio: a stream the vendor closed is reopened first, but not while a
\* finalize of it is outstanding: its markers are still queued in the provider.
MayReopen == ~stt.alive /\ outstanding = <<>> /\ ~backoff

OnAudio ==
    /\ Reads("audio")
    /\ hand' = Head(cmds).arg
    /\ pc' = IF MayReopen THEN "reopen" ELSE "push"
    /\ UNCHANGED <<scope, agent, stt, outstanding, parked, gen, backoff, losses, told>>

\* What the dead stream still holds is delivered first.
ReopenDrain ==
    /\ pc = "reopen"
    /\ DrainOutputs
    /\ pc' = "start"
    /\ UNCHANGED <<scope, agent, cmds, hand, parked, gen, backoff, losses>>

ReopenStart ==
    /\ pc = "start"
    /\ \/ stt' = Opened /\ backoff' = FALSE
       \/ stt' = stt /\ backoff' = TRUE
    /\ pc' = "push"
    /\ UNCHANGED <<scope, agent, cmds, hand, outstanding, parked, gen, losses, told>>

Push ==
    /\ pc = "push"
    /\ stt' = PushAudio(stt, <<hand[1], hand[2], gen>>)
    /\ hand' = <<>>
    /\ pc' = "drain"
    /\ UNCHANGED <<scope, agent, cmds, outstanding, parked, gen, backoff, losses, told>>

\* The drain that ends the handling of a command, and the poll of a busy actor.
Drain ==
    /\ pc = "drain"
    /\ DrainOutputs
    /\ pc' = "parked"
    /\ UNCHANGED <<scope, agent, cmds, hand, parked, gen, backoff, losses>>

Poll ==
    /\ pc = "select" /\ (stt.finals.queue # <<>> \/ stt.finals.pending > 0)
    /\ DrainOutputs
    /\ pc' = "parked"
    /\ UNCHANGED <<scope, agent, cmds, hand, parked, gen, backoff, losses>>

\* on_end_utterance: a refused request is closed at once, and nothing is
\* drained before it.
Entry(key) == [key |-> key, gen |-> gen, timed_out |-> FALSE]

OnEnd ==
    /\ Reads("end")
    /\ LET key == Head(cmds).arg[1]
           t == [told EXCEPT !.ended = @ \union {key}]
       IN  IF CanFinalize(stt)
             THEN /\ stt' = RequestFinalize(stt)
                  /\ outstanding' = Append(outstanding, Entry(key))
                  /\ told' = t
                  /\ pc' = "drain"
             ELSE /\ told' = [Close(t, key) EXCEPT !.refused = @ \union {key}]
                  /\ pc' = "parked"
                  /\ UNCHANGED <<stt, outstanding>>
    /\ UNCHANGED <<scope, agent, hand, parked, gen, backoff, losses>>

OnParkable ==
    \E name \in {"swap", "barrier"} :
      /\ Reads(name)
      /\ parked' = Head(cmds)
      /\ pc' = "parked"
      /\ UNCHANGED <<scope, agent, hand, stt, outstanding, gen, backoff, losses, told>>

\* The provider is stopped and the actor ends; no result follows.
OnStop ==
    /\ Reads("stop")
    /\ stt' = [stt EXCEPT !.alive = FALSE, !.finals = Finals0, !.socket = <<>>, !.heard = {}]
    /\ pc' = "stopped"
    /\ UNCHANGED <<scope, agent, hand, outstanding, parked, gen, backoff, losses, told>>

(***************************************************************************)
(* Parked commands, at the end of every iteration of the loop              *)
(***************************************************************************)
Owing == {k \in told.ended : k \notin ToSet(told.closed)}
Reached(c) ==
    [told EXCEPT !.reached = @ \union
        {[cmd |-> c.cmd, by |-> c.arg[1], owing |-> Owing,
          midway |-> stt.alive /\ stt.pushed > stt.boundary]}]

\* An applied swap forgets the finalizes of the old provider.
Survivors == <<>>

MayRunParked == parked # None /\ Waiting = {}

RunParked ==
    /\ pc = "parked"
    /\ pc' = "select"
    /\ IF ~MayRunParked
         THEN UNCHANGED <<stt, outstanding, parked, gen, told>>
         ELSE /\ parked' = None
              /\ told' = Reached(parked)
              /\ \/ /\ parked.cmd = "swap"     \* applied: the old provider is gone
                    /\ stt' = Opened
                    /\ gen' = gen + 1
                    /\ outstanding' = Survivors
                 \/ UNCHANGED <<stt, outstanding, gen>>   \* a barrier, or a swap refused
    /\ UNCHANGED <<scope, agent, cmds, hand, backoff, losses>>

BackoffPasses ==
    /\ backoff
    /\ backoff' = FALSE
    /\ UNCHANGED <<scope, agent, cmds, pc, hand, stt, outstanding, parked, gen, losses, told>>

(***************************************************************************)
(* The provider's tasks and the vendor                                     *)
(***************************************************************************)
VendorOnly == UNCHANGED <<scope, agent, cmds, pc, hand, outstanding, parked, gen, backoff, told>>

VendorTakesNext ==
    /\ stt.alive /\ stt.socket # <<>>
    /\ stt' = IF Head(stt.socket).kind = "audio" THEN VendorHears(stt) ELSE VendorFinalizes(stt)
    /\ losses' = losses
    /\ VendorOnly

VendorSpeaks ==
    /\ stt.alive /\ stt.heard # {}
    /\ Len(stt.finals.queue) < scope.interims
    /\ stt' \in {VendorSegments(stt), VendorInterims(stt)}
    /\ losses' = losses
    /\ VendorOnly

Lose ==
    /\ stt.alive /\ losses > 0
    /\ stt' = ConnectionLost(stt)
    /\ losses' = losses - 1
    /\ VendorOnly

AgentStep == SendAudio \/ SendEnd \/ CloseNotFound \/ UpdateConfig \/ ApplyConfig \/ SendBarrier \/ SendStop
ReadCommand == OnAudio \/ OnEnd \/ OnParkable \/ OnStop
ActorStep == ReadCommand \/ ReopenDrain \/ ReopenStart \/ Push \/ Drain \/ RunParked
VendorStep == VendorTakesNext \/ VendorSpeaks \/ Lose

Next ==
    \/ AgentStep
    \/ ActorStep
    \/ ExpireDeadlines \/ ForgetFront \/ Poll \/ BackoffPasses
    \/ VendorStep

Spec == Init /\ [][Next]_vars

\* The actor is scheduled and its timers fire; a vendor owes nothing. The second
\* conjunct is WF_vars(ActorStep) with ENABLED written out: the actor has a step
\* of its own in the middle of a command, and before one that may be read.
ActorReady == pc \notin {"select", "stopped"} \/ (pc = "select" /\ parked = None /\ cmds # <<>>)
FairSpec ==
    /\ Spec
    /\ []<>~ActorReady \/ []<><<ActorStep>>_vars
    /\ SF_vars(ExpireDeadlines)

(***************************************************************************)
(* Properties                                                              *)
(***************************************************************************)
\* Types, and the shape of `outstanding`: keys grow, and timed-out entries are
\* the oldest ones.
TypeOK ==
    /\ pc \in {"select", "reopen", "start", "push", "drain", "parked", "stopped"}
    /\ parked.cmd \in {"none", "swap", "barrier"}
    /\ stt.finals.pending \in Nat /\ stt.position <= stt.pushed
    /\ \A i, j \in DOMAIN outstanding :
         i < j => /\ outstanding[i].key < outstanding[j].key
                  /\ outstanding[j].timed_out => outstanding[i].timed_out

\* An EndUtterance is answered by one FinalizeDone with its key, whichever of
\* the vendor, the deadline, a refusal and a lost connection closes it.
ClosedAtMostOnce == IsInjective(told.closed)

\* FinalizeDone comes in the order of the EndUtterances, but for those a dead
\* stream refused at once.
ClosedInOrder ==
    \A i, j \in DOMAIN told.closed :
      i < j /\ told.closed[i] \notin told.refused /\ told.closed[j] \notin told.refused
        => told.closed[i] < told.closed[j]

\* So every utterance is closed once and in its turn.
ClosedOnceInOrder == ClosedAtMostOnce /\ ClosedInOrder

\* "the marker count stays aligned with the requests" (stt_deferred.rs:15): the
\* provider owes exactly one marker per outstanding entry, so the actor never
\* swallows the wrong one. (Unless it has stopped waiting for a marker.)
Dones(queue) == Cardinality({i \in DOMAIN queue : queue[i] = FinalizeDone})
MarkersAligned ==
    pc # "stopped" /\ "actor" \notin told.gave_up => Len(outstanding) = stt.finals.pending + Dones(stt.finals.queue)

\* A final is reported with the key of the utterance its audio belongs to
\* ("every transcript attributed to the utterance it belongs to", stt_actor.rs:5).
FinalsAttributed == \A h \in told.heard : h.final => h.key = h.chunk[1]

\* That is what holds as long as nobody closed a finalize that the vendor may
\* still answer. A partial is reported with the key of its utterance, or with
\* none while that utterance is being spoken: never as the text of the next one.
\* (What a dead stream still holds when it refuses a finalize is reported with
\* none.)
ResultsAttributed ==
    told.gave_up = {} =>
    /\ FinalsAttributed
    /\ told.refused = {} => \A h \in told.heard : ~h.final => h.key = h.chunk[1] \/ (h.key = NoKey /\ h.live)

\* Every result carries the generation of the provider that heard the audio.
GenerationsAttributed == \A h \in told.heard : h.gen = h.chunk[3]

\* What the actor matches by order alone is matched right: markers to requests,
\* texts to utterances, results to the provider that heard them.
Attributed == MarkersAligned /\ ResultsAttributed /\ GenerationsAttributed

\* "applies after the current utterance finalizes (or immediately when idle)"
\* (agent.rs:923): no provider is replaced with half an utterance in it. The
\* first names the configs that a close sends, the second all of them.
QueuedSwapWaits == \A r \in told.reached : r.cmd = "swap" /\ r.by = "close" => ~r.midway
SwapWaits == \A r \in told.reached : r.cmd = "swap" => ~r.midway

\* "one utterance is one Final": when the vendor's answer closes an utterance,
\* all its audio has been reported in finals with its key. (A lost connection, a
\* late answer and a swap in the middle of it lose text.)
ChunksOf(key) == {h.chunk : h \in {x \in told.heard : x.final /\ x.key = key}}
ClosedMeansHeard ==
    losses = scope.losses /\ told.gave_up = {} /\ told.timed_out = {} /\ SwapWaits =>
    \A i \in DOMAIN told.closed :
      LET key == told.closed[i]
      IN  \E n \in scope.chunk_counts : {c[2] : c \in ChunksOf(key)} = 1 .. n

\* A Barrier is reached, and a Swap applied or refused, when every EndUtterance
\* sent before it has been answered.
ParkedWaits == \A r \in told.reached : r.owing = {}

\* An utterance is heard out before anything else happens to it: its close, a
\* Swap or a Barrier behind it.
HeardOut == ClosedMeansHeard /\ ParkedWaits /\ QueuedSwapWaits

\* Every EndUtterance the actor has read is answered, and every Swap or Barrier
\* is reached, even if the vendor never answers.
EndIsAnswered ==
    \A k \in Keys : k \in told.ended /\ scope.may_time_out ~> k \in ToSet(told.closed) \/ pc = "stopped"
ParkedIsReached ==
    parked # None /\ scope.may_time_out ~> parked = None \/ pc = "stopped"

\* No caller of the actor waits forever: neither for an utterance nor for a
\* configuration or the shutdown behind it.
NobodyWaitsForever == EndIsAnswered /\ ParkedIsReached

=============================================================================
