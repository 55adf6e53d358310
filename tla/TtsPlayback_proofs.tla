------------------------ MODULE TtsPlayback_proofs -------------------------
(***************************************************************************)
(* TtsPlayback, for any number of replies, chunks of any size and any      *)
(* interleaving of job, drain and flush passes.                            *)
(* Speaking events. agent_speaking is set by one task, the drain, and      *)
(* cleared by any of the drain, the job and the flush passes; the matching *)
(* events are emitted in later steps. The invariant says who still owes an *)
(* event: a task that found agent_speaking set and cleared it (`ended`)    *)
(* still has the step that emits agent_speaking_end before it, and no      *)
(* second clearing; and a drain pass sets agent_speaking only where nobody *)
(* else can have set it.                                                   *)
(* Conservation. Audio moves one way: queue, carry, frames, track. Every   *)
(* step of the drain moves units from one place to the next and counts     *)
(* them in the last, so that undisturbed the units booked for a reply are  *)
(* always those written plus those on their way.                           *)
(* Stale audio. What a flush cuts may still be in the hands of a pass of   *)
(* an earlier generation, and its carry comes back after the flush. Not    *)
(* all of it can be written: such a pass writes at most the frame it has   *)
(* already checked, and stores less than a frame. InReach counts what can  *)
(* still be written; a flush adds at most a frame to it, and no other step *)
(* makes it grow. Shape of the drain, job and ledger go with it, so that   *)
(* the sums are sums of numbers.                                           *)
(* Reports. The end of a reply has one owner: the ledger, the flush that   *)
(* took it from there, or the job that was cut before it booked anything.  *)
(* Undisturbed, what the ledger holds open of a reply is exactly what is   *)
(* on its way of it; replies are played in the order of their jobs, so     *)
(* that the frame in hand is for the first entries; and whatever is left   *)
(* to play has the drain at it or a wake on its way to the drain.          *)
(* A sum over a queue is a recursive function, and what is proved of it is *)
(* proved by induction over its length (LoopLemmas).                       *)
(***************************************************************************)
EXTENDS TtsPlayback, LoopLemmas, FiniteSetTheorems, SequenceTheorems, TLAPS


Steps == {"cut", "flush", "reply_ends", "end_speaking", "speaking_end", "fail"}
EndSteps == {"end_speaking", "fail"}

\* A plan that may still clear agent_speaking does so once, and reports it later.
Reports(p) == \E j \in DOMAIN p : p[j] = "speaking_end"
NoEnd(p) == \A j \in DOMAIN p : p[j] \notin EndSteps
WellFormed(p) ==
    /\ p \in Seq(Steps)
    /\ \A i \in DOMAIN p : p[i] \in EndSteps =>
         /\ \E j \in DOMAIN p : j > i /\ p[j] = "speaking_end"
         /\ \A j \in DOMAIN p : j > i => p[j] \notin EndSteps

Owing == {a \in Actors : ended[a]}

Shape ==
    /\ scope \in Scopes
    /\ DOMAIN drain = DOMAIN Drain0 /\ drain.start_emitted \in BOOLEAN
    /\ DOMAIN job = DOMAIN Job0
    /\ DOMAIN tally = DOMAIN Tally0 /\ tally.speaking \in Int
    /\ agent_speaking \in BOOLEAN
    /\ ended \in [Actors -> BOOLEAN]
    /\ plan \in [Actors -> Seq(Steps)]
    /\ flushers_left \subseteq Flushers

PlansReport ==
    \A a \in Actors :
      /\ WellFormed(plan[a])
      /\ ended[a] => Reports(plan[a]) /\ NoEnd(plan[a])

\* Who has no plan before it starts one.
PlansStart ==
    /\ \A f \in flushers_left : plan[f] = <<>>
    /\ drain.pc # "stop" => plan["drain"] = <<>>
    /\ job.pc # "aborting" => plan["job"] = <<>>

\* Past its look at agent_speaking, a pass that did not resume knows it cleared.
OnlyDrainSets ==
    drain.pc \notin {"idle", "read_speaking", "emit_start", "stop"} /\ ~drain.start_emitted
      => ~agent_speaking

SpeakInv == Shape /\ PlansReport /\ PlansStart /\ OnlyDrainSets /\ SpeakingBalanced

-----------------------------------------------------------------------------
(* Plans *)

LEMMA PlansWellFormed ==
    \A p \in {FlushPlan, ManualBargePlan, BargeInPlan, AbortPlan, StopSpeakingPlan, <<>>} :
      WellFormed(p)
<1>1. WellFormed(<<>>)
  BY DEF WellFormed
<1>2. WellFormed(FlushPlan)
  BY DEF WellFormed, FlushPlan, Steps, EndSteps
<1>3. WellFormed(ManualBargePlan)
  BY DEF WellFormed, ManualBargePlan, Steps, EndSteps
<1>4. WellFormed(BargeInPlan)
  BY DEF WellFormed, BargeInPlan, Steps, EndSteps
<1>5. WellFormed(AbortPlan)
  BY DEF WellFormed, AbortPlan, Steps, EndSteps
<1>6. WellFormed(StopSpeakingPlan)
  BY DEF WellFormed, StopSpeakingPlan, Steps, EndSteps
<1>. QED  BY <1>1, <1>2, <1>3, <1>4, <1>5, <1>6

\* What is left of a plan after its first step.
LEMMA PlanTail ==
    ASSUME NEW p, WellFormed(p), p # <<>>
    PROVE  /\ WellFormed(Tail(p))
           /\ Head(p) \in EndSteps => Reports(Tail(p)) /\ NoEnd(Tail(p))
           /\ Head(p) # "speaking_end" /\ Reports(p) => Reports(Tail(p))
           /\ NoEnd(p) => NoEnd(Tail(p)) /\ Head(p) \notin EndSteps
<1>. DEFINE q == Tail(p)
<1>1. /\ p \in Seq(Steps) /\ q \in Seq(Steps) /\ Len(q) = Len(p) - 1
      /\ \A i \in 1 .. Len(q) : q[i] = p[i + 1]
      /\ Len(p) \in Nat /\ Len(p) > 0 /\ Head(p) = p[1]
  BY HeadTailProperties DEF WellFormed
<1>2. DOMAIN p = 1 .. Len(p) /\ DOMAIN q = 1 .. Len(q)
  BY <1>1
<1>3. \A j \in DOMAIN p : j > 1 => j - 1 \in DOMAIN q /\ q[j - 1] = p[j]
  BY <1>1, <1>2
<1>4. \A i \in DOMAIN q : i + 1 \in DOMAIN p /\ q[i] = p[i + 1]
  BY <1>1, <1>2
<1>. HIDE DEF q
<1>5. WellFormed(q)
  <2>1. SUFFICES ASSUME NEW i \in DOMAIN q, q[i] \in EndSteps
                 PROVE  /\ \E j \in DOMAIN q : j > i /\ q[j] = "speaking_end"
                        /\ \A j \in DOMAIN q : j > i => q[j] \notin EndSteps
    BY <1>1 DEF WellFormed
  <2>2. /\ \E j \in DOMAIN p : j > i + 1 /\ p[j] = "speaking_end"
        /\ \A j \in DOMAIN p : j > i + 1 => p[j] \notin EndSteps
    BY <2>1, <1>4 DEF WellFormed
  <2>3. i \in Nat
    BY <1>1, <1>2
  <2>4. \E j \in DOMAIN q : j > i /\ q[j] = "speaking_end"
    <3>1. PICK j \in DOMAIN p : j > i + 1 /\ p[j] = "speaking_end"
      BY <2>2
    <3>2. j - 1 \in DOMAIN q /\ q[j - 1] = p[j] /\ j - 1 > i
      BY <3>1, <2>3, <1>1, <1>2, <1>3
    <3>. QED  BY <3>1, <3>2
  <2>5. \A j \in DOMAIN q : j > i => q[j] \notin EndSteps
    BY <2>2, <2>3, <1>1, <1>2, <1>4
  <2>. QED  BY <2>4, <2>5
<1>6. Head(p) \in EndSteps => Reports(q) /\ NoEnd(q)
  <2>1. SUFFICES ASSUME p[1] \in EndSteps PROVE Reports(q) /\ NoEnd(q)
    BY <1>1
  <2>2. /\ \E j \in DOMAIN p : j > 1 /\ p[j] = "speaking_end"
        /\ \A j \in DOMAIN p : j > 1 => p[j] \notin EndSteps
    BY <2>1, <1>1, <1>2 DEF WellFormed
  <2>3. Reports(q)
    BY <2>2, <1>3 DEF Reports
  <2>4. NoEnd(q)
    BY <2>2, <1>1, <1>2, <1>4 DEF NoEnd
  <2>. QED  BY <2>3, <2>4
<1>7. Head(p) # "speaking_end" /\ Reports(p) => Reports(q)
  BY <1>1, <1>2, <1>3 DEF Reports
<1>8. NoEnd(p) => NoEnd(q) /\ Head(p) \notin EndSteps
  BY <1>1, <1>2, <1>4 DEF NoEnd
<1>. QED  BY <1>5, <1>6, <1>7, <1>8 DEF q

-----------------------------------------------------------------------------
(* The count of the tasks that owe an agent_speaking_end. *)

LEMMA OwingFinite ==
    /\ IsFiniteSet(Actors)
    /\ \A S \in SUBSET Actors : IsFiniteSet(S) /\ Cardinality(S) \in Nat
<1>1. IsFiniteSet(Flushers)
  BY PlaybackAssumption
<1>2. IsFiniteSet((Flushers \union {"drain"}) \union {"job"})
  BY <1>1, FS_AddElement
<1>3. Actors = (Flushers \union {"drain"}) \union {"job"}
  BY DEF Actors
<1>4. IsFiniteSet(Actors)
  BY <1>2, <1>3
<1>. QED  BY <1>4, FS_Subset, FS_CardinalityType

\* Whoever clears agent_speaking takes over the event it was worth.
LEMMA EndSpeakingMoves ==
    ASSUME Shape, NEW a \in Actors, ~ended[a], EndSpeaking(a)
    PROVE  /\ ended' \in [Actors -> BOOLEAN]
           /\ agent_speaking' = FALSE
           /\ \A b \in Actors : b # a => ended'[b] = ended[b]
           /\ Cardinality(Owing') = Cardinality(Owing) + (IF agent_speaking THEN 1 ELSE 0)
<1>1. /\ ended' = [ended EXCEPT ![a] = agent_speaking] /\ agent_speaking' = FALSE
      /\ ended \in [Actors -> BOOLEAN] /\ agent_speaking \in BOOLEAN
  BY DEF EndSpeaking, Shape
<1>2. Owing \in SUBSET Actors /\ a \notin Owing
  BY DEF Owing
<1>3. Owing' = IF agent_speaking THEN Owing \union {a} ELSE Owing
  BY <1>1, <1>2 DEF Owing
<1>4. Cardinality(Owing \union {a}) = Cardinality(Owing) + 1 /\ Cardinality(Owing) \in Nat
  BY <1>2, OwingFinite, FS_AddElement
<1>5. Cardinality(Owing') = Cardinality(Owing) + (IF agent_speaking THEN 1 ELSE 0)
  BY <1>3, <1>4
<1>6. ended' \in [Actors -> BOOLEAN] /\ \A b \in Actors : b # a => ended'[b] = ended[b]
  BY <1>1
<1>. QED  BY <1>1, <1>5, <1>6

\* Emitting the event settles the debt.
LEMMA SpeakingEndSettles ==
    ASSUME Shape, NEW a \in Actors, ended' = [ended EXCEPT ![a] = FALSE]
    PROVE  /\ ended' \in [Actors -> BOOLEAN]
           /\ ~ended'[a] /\ \A b \in Actors : b # a => ended'[b] = ended[b]
           /\ Cardinality(Owing') = Cardinality(Owing) - (IF ended[a] THEN 1 ELSE 0)
<1>1. ended \in [Actors -> BOOLEAN]
  BY DEF Shape
<1>2. Owing \in SUBSET Actors /\ (a \in Owing <=> ended[a])
  BY DEF Owing
<1>3. Owing' = Owing \ {a}
  BY <1>1 DEF Owing
<1>4. /\ Cardinality(Owing \ {a}) = IF a \in Owing THEN Cardinality(Owing) - 1 ELSE Cardinality(Owing)
      /\ Cardinality(Owing) \in Nat
  BY <1>2, OwingFinite, FS_RemoveElement
<1>5. Cardinality(Owing') = Cardinality(Owing) - (IF ended[a] THEN 1 ELSE 0)
  BY <1>2, <1>3, <1>4
<1>6. ended' \in [Actors -> BOOLEAN] /\ ~ended'[a] /\ \A b \in Actors : b # a => ended'[b] = ended[b]
  BY <1>1
<1>. QED  BY <1>5, <1>6

-----------------------------------------------------------------------------
(* What the steps of plans and of tasks have in common *)

\* Starting a plan where there was none.
LEMMA PlanStarted ==
    ASSUME Shape, PlansReport, NEW a \in Actors, plan[a] = <<>>,
           NEW p, WellFormed(p), plan' = [plan EXCEPT ![a] = p], ended' = ended
    PROVE  /\ PlansReport'
           /\ plan' \in [Actors -> Seq(Steps)]
<1>1. plan \in [Actors -> Seq(Steps)] /\ p \in Seq(Steps)
  BY DEF Shape, WellFormed
<1>2. plan' \in [Actors -> Seq(Steps)] /\ plan'[a] = p
      /\ \A b \in Actors : b # a => plan'[b] = plan[b]
  BY <1>1
<1>3. ~ended[a]
  BY DEF PlansReport, Reports
<1>4. ASSUME NEW b \in Actors
      PROVE  WellFormed(plan'[b]) /\ (ended'[b] => Reports(plan'[b]) /\ NoEnd(plan'[b]))
  <2>1. CASE b = a
    BY <2>1, <1>2, <1>3
  <2>2. CASE b # a
    BY <2>2, <1>2 DEF PlansReport
  <2>. QED  BY <2>1, <2>2
<1>5. PlansReport'
  BY <1>4 DEF PlansReport, WellFormed, Reports, NoEnd
<1>. QED  BY <1>2, <1>5

\* Taking the next step of a plan.
LEMMA PlanAdvanced ==
    ASSUME Shape, PlansReport, NEW a \in Actors, plan[a] # <<>>,
           plan' = [plan EXCEPT ![a] = Tail(@)],
           \A b \in Actors : b # a => ended'[b] = ended[b],
           ended'[a] => Reports(Tail(plan[a])) /\ NoEnd(Tail(plan[a]))
    PROVE  /\ PlansReport'
           /\ plan' \in [Actors -> Seq(Steps)]
<1>1. plan \in [Actors -> Seq(Steps)] /\ WellFormed(plan[a])
  BY DEF Shape, PlansReport
<1>2. WellFormed(Tail(plan[a]))
  BY <1>1, PlanTail
<1>3. Tail(plan[a]) \in Seq(Steps)
  BY <1>2 DEF WellFormed
<1>4. plan' \in [Actors -> Seq(Steps)] /\ plan'[a] = Tail(plan[a])
      /\ \A b \in Actors : b # a => plan'[b] = plan[b]
  BY <1>1, <1>3
<1>5. ASSUME NEW b \in Actors
      PROVE  WellFormed(plan'[b]) /\ (ended'[b] => Reports(plan'[b]) /\ NoEnd(plan'[b]))
  <2>1. CASE b = a
    BY <2>1, <1>2, <1>4
  <2>2. CASE b # a
    BY <2>2, <1>4 DEF PlansReport
  <2>. QED  BY <2>1, <2>2
<1>6. PlansReport'
  BY <1>5 DEF PlansReport, WellFormed, Reports, NoEnd
<1>. QED  BY <1>4, <1>6

\* A step that touches neither the plans nor agent_speaking nor its events.
Quiet ==
    /\ UNCHANGED <<scope, plan, ended, flushers_left, agent_speaking>>
    /\ DOMAIN tally' = DOMAIN Tally0 /\ tally'.speaking = tally.speaking

\* A look at the drain that moved on: where it may be, and what it knows.
DrainSound ==
    /\ DOMAIN drain' = DOMAIN Drain0 /\ drain'.start_emitted \in BOOLEAN
    /\ drain'.pc = "emit_start" <=> drain.pc = "emit_start"
    /\ drain'.pc # "stop" => plan["drain"] = <<>>
    /\ OnlyDrainSets'
JobSound ==
    /\ DOMAIN job' = DOMAIN Job0
    /\ job'.pc # "aborting" => plan["job"] = <<>>

LEMMA QuietKeeps ==
    ASSUME SpeakInv, Quiet, DrainSound, JobSound
    PROVE  SpeakInv'
<1>1. Shape'
  BY DEF SpeakInv, Shape, Quiet, DrainSound, JobSound
<1>2. PlansReport'
  BY DEF SpeakInv, PlansReport, WellFormed, Reports, NoEnd, Quiet
<1>3. PlansStart'
  BY DEF SpeakInv, PlansStart, Quiet, DrainSound, JobSound
<1>4. SpeakingBalanced'
  BY DEF SpeakInv, SpeakingBalanced, Quiet, DrainSound
<1>. QED  BY <1>1, <1>2, <1>3, <1>4 DEF SpeakInv, DrainSound

-----------------------------------------------------------------------------
(* The invariant: at first, and over every step *)

LEMMA SpeakInit == Init => SpeakInv
<1>. SUFFICES ASSUME Init PROVE SpeakInv
  OBVIOUS
<1>1. <<>> \in Seq(Steps) /\ WellFormed(<<>>)
  BY DEF WellFormed
<1>2. scope.flushers \subseteq Flushers /\ Flushers \subseteq Actors
  BY PlaybackAssumption DEF Init, Actors
<1>3. "drain" \in Actors /\ "job" \in Actors
  BY DEF Actors
<1>4. Shape
  <2>1. tally.speaking \in Int /\ DOMAIN tally = DOMAIN Tally0
    BY DEF Init, Tally0
  <2>2. drain.start_emitted \in BOOLEAN /\ DOMAIN drain = DOMAIN Drain0
    BY DEF Init, Drain0
  <2>3. ended \in [Actors -> BOOLEAN] /\ plan \in [Actors -> Seq(Steps)]
    BY <1>1 DEF Init
  <2>. QED  BY <1>2, <2>1, <2>2, <2>3 DEF Init, Shape
<1>5. PlansReport
  BY <1>1 DEF Init, PlansReport
<1>6. PlansStart
  BY <1>2, <1>3 DEF Init, PlansStart
<1>7. OnlyDrainSets
  BY DEF Init, OnlyDrainSets
<1>8. SpeakingBalanced
  <2>1. {a \in Actors : ended[a]} = {}
    BY DEF Init
  <2>2. Cardinality({}) = 0
    BY FS_EmptySet
  <2>. QED  BY <2>1, <2>2 DEF Init, SpeakingBalanced, Tally0, Drain0
<1>. QED  BY <1>4, <1>5, <1>6, <1>7, <1>8 DEF SpeakInv

\* Any step of any plan: the flushes, the aborts and the end of speaking.
LEMMA SpeakPlanStep ==
    ASSUME SpeakInv, NEW a \in Actors, PlanStep(a)
    PROVE  SpeakInv'
<1>. USE DEF SpeakInv
<1>. DEFINE step == Head(plan[a])
<1>1. /\ plan[a] # <<>> /\ plan' = [plan EXCEPT ![a] = Tail(@)]
      /\ UNCHANGED <<scope, drain, job, flushers_left>>
  BY DEF PlanStep
<1>2. /\ WellFormed(plan[a])
      /\ ended[a] => Reports(plan[a]) /\ NoEnd(plan[a])
      /\ Shape /\ plan \in [Actors -> Seq(Steps)]
  BY DEF PlansReport, Shape
<1>3. /\ step \in EndSteps => Reports(Tail(plan[a])) /\ NoEnd(Tail(plan[a]))
      /\ step # "speaking_end" /\ ended[a] => Reports(Tail(plan[a])) /\ NoEnd(Tail(plan[a]))
      /\ ended[a] => step \notin EndSteps
  BY <1>1, <1>2, PlanTail
<1>4. Cardinality(Owing) \in Nat /\ Owing = {b \in Actors : ended[b]}
  BY OwingFinite DEF Owing
<1>5. SUFFICES /\ ended' \in [Actors -> BOOLEAN]
               /\ \A b \in Actors : b # a => ended'[b] = ended[b]
               /\ ended'[a] => Reports(Tail(plan[a])) /\ NoEnd(Tail(plan[a]))
               /\ agent_speaking' \in BOOLEAN /\ (agent_speaking' => agent_speaking)
               /\ DOMAIN tally' = DOMAIN Tally0 /\ tally'.speaking \in Int
               /\ SpeakingBalanced'
  <2>1. PlansReport' /\ plan' \in [Actors -> Seq(Steps)]
    BY <1>1, <1>2, <1>5, PlanAdvanced
  <2>2. \A b \in Actors : b # a => plan'[b] = plan[b]
    BY <1>1, <1>2
  <2>3. Flushers \subseteq Actors /\ "drain" \in Actors /\ "job" \in Actors
    BY DEF Actors
  <2>4. Shape'
    BY <1>1, <1>2, <1>5, <2>1 DEF Shape
  <2>5. PlansStart'
    BY <1>1, <2>2, <2>3 DEF PlansStart, Shape
  <2>6. OnlyDrainSets'
    BY <1>1, <1>5 DEF OnlyDrainSets
  <2>. QED  BY <1>5, <2>1, <2>4, <2>5, <2>6
<1>6. CASE step \in EndSteps /\ EndSpeaking(a) /\ UNCHANGED tally
  <2>1. ~ended[a]
    BY <1>3, <1>6
  <2>2. /\ ended' \in [Actors -> BOOLEAN] /\ agent_speaking' = FALSE
        /\ \A b \in Actors : b # a => ended'[b] = ended[b]
        /\ Cardinality(Owing') = Cardinality(Owing) + (IF agent_speaking THEN 1 ELSE 0)
    BY <1>2, <1>6, <2>1, EndSpeakingMoves
  <2>3. SpeakingBalanced'
    BY <1>1, <1>2, <1>4, <1>6, <2>2 DEF SpeakingBalanced, Owing, Shape
  <2>. QED  BY <1>2, <1>3, <1>6, <2>2, <2>3 DEF Shape
<1>7. CASE /\ step = "speaking_end"
           /\ tally' = [tally EXCEPT !.speaking = @ - (IF ended[a] THEN 1 ELSE 0)]
           /\ ended' = [ended EXCEPT ![a] = FALSE]
           /\ UNCHANGED agent_speaking
  <2>1. /\ ended' \in [Actors -> BOOLEAN] /\ ~ended'[a]
        /\ \A b \in Actors : b # a => ended'[b] = ended[b]
        /\ Cardinality(Owing') = Cardinality(Owing) - (IF ended[a] THEN 1 ELSE 0)
    BY <1>2, <1>7, SpeakingEndSettles
  <2>2. /\ DOMAIN tally' = DOMAIN Tally0 /\ tally'.speaking \in Int
        /\ tally'.speaking = tally.speaking - (IF ended[a] THEN 1 ELSE 0)
    BY <1>2, <1>7 DEF Shape, Tally0
  <2>3. SpeakingBalanced'
    BY <1>1, <1>2, <1>4, <1>7, <2>1, <2>2 DEF SpeakingBalanced, Owing, Shape
  <2>. QED  BY <1>2, <1>7, <2>1, <2>2, <2>3 DEF Shape
<1>8. CASE /\ step \in {"cut", "flush", "reply_ends"}
           /\ UNCHANGED <<agent_speaking, ended>>
           /\ DOMAIN tally' = DOMAIN Tally0 /\ tally'.speaking = tally.speaking
  <2>1. SpeakingBalanced'
    BY <1>1, <1>8 DEF SpeakingBalanced
  <2>. QED  BY <1>2, <1>3, <1>8, <2>1 DEF Shape
<1>9. \/ step \in EndSteps /\ EndSpeaking(a) /\ UNCHANGED tally
      \/ /\ step = "speaking_end"
         /\ tally' = [tally EXCEPT !.speaking = @ - (IF ended[a] THEN 1 ELSE 0)]
         /\ ended' = [ended EXCEPT ![a] = FALSE]
         /\ UNCHANGED agent_speaking
      \/ /\ step \in {"cut", "flush", "reply_ends"}
         /\ UNCHANGED <<agent_speaking, ended>>
         /\ DOMAIN tally' = DOMAIN Tally0 /\ tally'.speaking = tally.speaking
  BY <1>2 DEF PlanStep, agent, EndSteps, Shape, Tally0
<1>. QED  BY <1>6, <1>7, <1>8, <1>9

LEMMA SpeakStartFlush ==
    ASSUME SpeakInv, NEW f \in Flushers, StartFlush(f)
    PROVE  SpeakInv'
<1>. USE DEF SpeakInv
<1>1. /\ f \in flushers_left /\ flushers_left' = flushers_left \ {f}
      /\ UNCHANGED <<scope, buf, agent, tts_drain_wake, drain, job, ended, tally>>
  BY DEF StartFlush
<1>2. f \in Actors /\ f # "drain" /\ f # "job" /\ Flushers \subseteq Actors
      /\ "drain" \in Actors /\ "job" \in Actors
  BY PlaybackAssumption DEF Actors
<1>3. PICK p \in scope.flush_orders : plan' = [plan EXCEPT ![f] = p]
  BY DEF StartFlush
<1>4. p \in {FlushPlan, ManualBargePlan, BargeInPlan}
  BY <1>3, PlaybackAssumption DEF Shape
<1>5. WellFormed(p)
  BY <1>4, PlansWellFormed
<1>6. plan[f] = <<>>
  BY <1>1 DEF PlansStart
<1>7. PlansReport' /\ plan' \in [Actors -> Seq(Steps)]
  BY <1>1, <1>2, <1>3, <1>5, <1>6, PlanStarted
<1>8. plan \in [Actors -> Seq(Steps)] /\ flushers_left \subseteq Flushers
  BY DEF Shape
<1>9. \A b \in Actors : b # f => plan'[b] = plan[b]
  BY <1>3, <1>8
<1>10. Shape'
  BY <1>1, <1>7, <1>8 DEF Shape, agent
<1>11. PlansStart'
  BY <1>1, <1>2, <1>8, <1>9 DEF PlansStart
<1>12. OnlyDrainSets' /\ SpeakingBalanced'
  BY <1>1 DEF OnlyDrainSets, SpeakingBalanced, agent
<1>. QED  BY <1>7, <1>10, <1>11, <1>12

\* The drain gives up a pass: it starts a plan of its own.
LEMMA DrainStopsKeeps ==
    ASSUME SpeakInv, drain.pc \notin {"stop", "emit_start"},
           drain' = [Drain0 EXCEPT !.pc = "stop"],
           NEW p \in {StopSpeakingPlan, AbortPlan}, plan' = [plan EXCEPT !["drain"] = p],
           UNCHANGED <<agent_speaking, job, scope, ended, flushers_left, tally>>
    PROVE  SpeakInv'
<1>. USE DEF SpeakInv
<1>1. plan["drain"] = <<>> /\ WellFormed(p)
  BY PlansWellFormed DEF PlansStart
<1>2. "drain" \in Actors /\ "job" \in Actors /\ Flushers \subseteq Actors /\ "drain" \notin Flushers
  BY PlaybackAssumption DEF Actors
<1>3. PlansReport' /\ plan' \in [Actors -> Seq(Steps)]
  BY <1>1, <1>2, PlanStarted
<1>4. plan \in [Actors -> Seq(Steps)] /\ flushers_left \subseteq Flushers
  BY DEF Shape
<1>5. \A b \in Actors : b # "drain" => plan'[b] = plan[b]
  BY <1>4
<1>6. drain'.pc = "stop" /\ DOMAIN drain' = DOMAIN Drain0 /\ drain'.start_emitted = FALSE
  BY DEF Drain0
<1>7. Shape'
  BY <1>3, <1>4, <1>6 DEF Shape
<1>8. PlansStart'
  BY <1>2, <1>4, <1>5, <1>6 DEF PlansStart
<1>9. OnlyDrainSets' /\ SpeakingBalanced'
  BY <1>6 DEF OnlyDrainSets, SpeakingBalanced
<1>. QED  BY <1>3, <1>7, <1>8, <1>9

\* A pass moves on inside its loop, or ends without a word.
LEMMA DrainMovesKeeps ==
    ASSUME SpeakInv, drain.pc \notin {"idle", "read_speaking", "emit_start", "stop"},
           UNCHANGED <<scope, plan, ended, flushers_left, agent_speaking, job>>,
           DOMAIN tally' = DOMAIN Tally0, tally'.speaking = tally.speaking,
           \/ drain' = Drain0
           \/ /\ DOMAIN drain' = DOMAIN Drain0 /\ drain'.start_emitted = drain.start_emitted
              /\ drain'.pc \notin {"emit_start", "stop"}
    PROVE  SpeakInv'
<1>1. Quiet
  BY DEF Quiet
<1>2. DrainSound
  <2>1. CASE drain' = Drain0
    BY <2>1 DEF SpeakInv, PlansStart, DrainSound, OnlyDrainSets, Drain0
  <2>2. CASE /\ DOMAIN drain' = DOMAIN Drain0 /\ drain'.start_emitted = drain.start_emitted
             /\ drain'.pc \notin {"emit_start", "stop"}
    BY <2>2 DEF SpeakInv, Shape, PlansStart, DrainSound, OnlyDrainSets
  <2>. QED  BY <2>1, <2>2
<1>3. JobSound
  BY DEF SpeakInv, Shape, PlansStart, JobSound
<1>. QED  BY <1>1, <1>2, <1>3, QuietKeeps

\* The steps of a drain pass. Setting agent_speaking and emitting the start are
\* two steps; the former finds it clear, because only a drain pass sets it.
LEMMA SpeakDrainStep ==
    ASSUME SpeakInv, DrainStep
    PROVE  SpeakInv'
<1>. USE DEF SpeakInv, Shape, agent, passes, Drain0
<1>j. ASSUME job' = job PROVE JobSound
  BY <1>j DEF JobSound, PlansStart
<1>1. CASE DrainBegin
  <2>. Quiet /\ DrainSound /\ JobSound
    BY <1>1, <1>j DEF DrainBegin, Quiet, DrainSound, OnlyDrainSets, PlansStart
  <2>. QED  BY QuietKeeps
<1>2. CASE DrainReadSpeaking
  <2>. Quiet /\ DrainSound /\ JobSound
    BY <1>2, <1>j DEF DrainReadSpeaking, Quiet, DrainSound, OnlyDrainSets, PlansStart
  <2>. QED  BY QuietKeeps
<1>3. CASE DrainTakeCarry
  BY <1>3, DrainMovesKeeps DEF DrainTakeCarry, DrainGoes
<1>4. CASE DrainDry
  BY <1>4, DrainMovesKeeps DEF DrainDry, DrainGoes
<1>5. CASE DrainDryGeneration
  BY <1>5, DrainMovesKeeps DEF DrainDryGeneration, DrainGoes
<1>6. CASE DrainPause
  BY <1>6, DrainMovesKeeps DEF DrainPause, DrainGoes
<1>7. CASE DrainTail
  BY <1>7, DrainMovesKeeps DEF DrainTail, DrainGoes
<1>8. CASE DrainTailGeneration
  BY <1>8, DrainMovesKeeps DEF DrainTailGeneration, DrainGoes
<1>9. CASE DrainStore
  BY <1>9, DrainMovesKeeps DEF DrainStore, DrainGoes
<1>10. CASE DrainSettle
  BY <1>10, DrainMovesKeeps DEF DrainSettle, DrainGoes
<1>11. CASE DrainPop
  <2>1. /\ drain.pc = "pop"
        /\ UNCHANGED <<scope, plan, ended, flushers_left, agent_speaking, job, tally>>
    BY <1>11 DEF DrainPop
  <2>2. \/ drain' = [drain EXCEPT !.pc = "dry"]
        \/ \E c, fs : \E pc \in {"pop", "frame"} :
             drain' = [drain EXCEPT !.carry = c, !.frames = fs, !.pc = pc]
    BY <1>11 DEF DrainPop
  <2>. QED  BY <2>1, <2>2, DrainMovesKeeps
<1>12. CASE DrainSettleBook \/ DrainBook
  <2>1. \E n : Book(n)
    BY <1>12 DEF DrainSettleBook, DrainBook
  <2>2. DOMAIN tally' = DOMAIN Tally0 /\ tally'.speaking = tally.speaking
    BY <2>1 DEF Book, Tally0
  <2>. QED  BY <1>12, <2>2, DrainMovesKeeps DEF DrainSettleBook, DrainBook, DrainGoes
<1>13. CASE DrainWrite
  <2>1. DOMAIN tally' = DOMAIN Tally0 /\ tally'.speaking = tally.speaking
    BY <1>13 DEF DrainWrite, Tally0
  <2>. QED  BY <1>13, <2>1, DrainMovesKeeps DEF DrainWrite, DrainGoes
<1>14. CASE DrainClose
  <2>1. /\ drain.pc = "close"
        /\ UNCHANGED <<agent_speaking, job, scope, ended, flushers_left, tally>>
    BY <1>14 DEF DrainClose
  <2>2. CASE DrainStops
    BY <2>1, <2>2, DrainStopsKeeps DEF DrainStops
  <2>3. CASE ~DrainStops
    BY <1>14, <2>1, <2>3, DrainMovesKeeps DEF DrainClose, DrainGoes
  <2>. QED  BY <2>2, <2>3
<1>15. CASE DrainCheck
  <2>1. /\ drain.pc = "check"
        /\ UNCHANGED <<agent_speaking, job, scope, ended, flushers_left, tally>>
    BY <1>15 DEF DrainCheck
  <2>2. CASE DrainStops
    BY <2>1, <2>2, DrainStopsKeeps DEF DrainStops
  <2>3. CASE ~DrainStops
    BY <1>15, <2>1, <2>3, DrainMovesKeeps DEF DrainCheck, DrainGoes
  <2>. QED  BY <2>2, <2>3
<1>16. CASE DrainPace
  <2>1. /\ drain.pc = "pace"
        /\ UNCHANGED <<agent_speaking, job, scope, ended, flushers_left, tally>>
    BY <1>16 DEF DrainPace
  <2>2. CASE DrainStops
    BY <2>1, <2>2, DrainStopsKeeps DEF DrainStops
  <2>3. CASE ~DrainStops
    BY <1>16, <2>1, <2>3, DrainMovesKeeps DEF DrainPace, DrainGoes
  <2>. QED  BY <2>2, <2>3
<1>17. CASE DrainWriteFails
  BY <1>17, DrainStopsKeeps DEF DrainWriteFails
<1>18. CASE DrainFrame
  <2>1. CASE drain.frames = <<>> \/ drain.start_emitted
    <3>. Quiet /\ DrainSound /\ JobSound
      BY <1>18, <2>1, <1>j DEF DrainFrame, DrainGoes, Quiet, DrainSound, OnlyDrainSets, PlansStart
    <3>. QED  BY QuietKeeps
  <2>2. CASE drain.frames # <<>> /\ ~drain.start_emitted
    <3>1. ~agent_speaking
      BY <1>18, <2>2 DEF DrainFrame, OnlyDrainSets
    <3>2. /\ drain.pc = "frame"
          /\ drain' = [drain EXCEPT !.played_any = TRUE, !.pc = "emit_start"]
          /\ agent_speaking' = TRUE
          /\ UNCHANGED <<scope, plan, ended, flushers_left, job, tally>>
      BY <1>18, <2>2 DEF DrainFrame
    <3>3. /\ drain'.pc = "emit_start" /\ DOMAIN drain' = DOMAIN Drain0
          /\ drain'.start_emitted \in BOOLEAN
      BY <3>2
    <3>4. Shape'
      BY <3>2, <3>3
    <3>5. PlansReport'
      BY <3>2 DEF PlansReport, WellFormed, Reports, NoEnd
    <3>6. PlansStart' /\ OnlyDrainSets'
      BY <3>2, <3>3 DEF PlansStart, OnlyDrainSets
    <3>7. SpeakingBalanced'
      <4>1. Cardinality({a \in Actors : ended[a]}) \in Nat
        BY OwingFinite DEF Owing
      <4>. QED  BY <4>1, <3>1, <3>2, <3>3 DEF SpeakingBalanced
    <3>. QED  BY <3>4, <3>5, <3>6, <3>7
  <2>. QED  BY <2>1, <2>2
<1>19. CASE DrainEmitStart
  <2>1. /\ drain.pc = "emit_start" /\ drain'.pc = "check" /\ drain'.start_emitted
        /\ DOMAIN drain' = DOMAIN Drain0 /\ drain'.start_emitted \in BOOLEAN
        /\ UNCHANGED <<scope, plan, ended, flushers_left, agent_speaking, job>>
    BY <1>19 DEF DrainEmitStart
  <2>2. /\ DOMAIN tally' = DOMAIN Tally0 /\ tally'.speaking = tally.speaking + 1
        /\ tally'.speaking \in Int
    BY <1>19 DEF DrainEmitStart, Tally0
  <2>3. Shape'
    BY <2>1, <2>2
  <2>4. PlansReport'
    BY <2>1 DEF PlansReport, WellFormed, Reports, NoEnd
  <2>5. PlansStart' /\ OnlyDrainSets'
    BY <2>1 DEF PlansStart, OnlyDrainSets
  <2>6. SpeakingBalanced'
    <3>1. Cardinality({a \in Actors : ended[a]}) \in Nat
      BY OwingFinite DEF Owing
    <3>. QED  BY <3>1, <2>1, <2>2 DEF SpeakingBalanced
  <2>. QED  BY <2>3, <2>4, <2>5, <2>6
<1>20. CASE DrainStopped
  <2>. Quiet /\ DrainSound /\ JobSound
    BY <1>20, <1>j DEF DrainStopped, Quiet, DrainSound, OnlyDrainSets, PlansStart
  <2>. QED  BY QuietKeeps
<1>21. CASE PlanStep("drain")
  BY <1>21, SpeakPlanStep DEF Actors
<1>. QED
  BY <1>1, <1>2, <1>3, <1>4, <1>5, <1>6, <1>7, <1>8, <1>9, <1>10, <1>11, <1>12,
     <1>13, <1>14, <1>15, <1>16, <1>17, <1>18, <1>19, <1>20, <1>21
     DEF DrainStep

\* The steps of a synthesis job: only giving up a playback starts a plan.
LEMMA SpeakJobStep ==
    ASSUME SpeakInv, JobTake \/ JobRuns \/ JobChunk \/ DeadlinePasses
    PROVE  SpeakInv'
<1>. USE DEF SpeakInv, Shape, agent, passes, Job0
<1>1. ASSUME UNCHANGED <<scope, plan, ended, flushers_left, agent_speaking, drain>>,
             DOMAIN tally' = DOMAIN Tally0, tally'.speaking = tally.speaking,
             DOMAIN job' = DOMAIN Job0, plan["job"] = <<>>
      PROVE  SpeakInv'
  BY <1>1, QuietKeeps DEF Quiet, DrainSound, JobSound, OnlyDrainSets, PlansStart
<1>2. job.pc # "aborting" => plan["job"] = <<>>
  BY DEF PlansStart
<1>3. ASSUME JobReturns \/ \E pc : JobGoes(pc)
      PROVE  DOMAIN job' = DOMAIN Job0
  BY <1>3 DEF JobReturns, JobGoes
<1>4. ASSUME EmitDiscardedReplyEnd \/ UNCHANGED tally
      PROVE  DOMAIN tally' = DOMAIN Tally0 /\ tally'.speaking = tally.speaking
  BY <1>4 DEF EmitDiscardedReplyEnd, Tally0
<1>5. CASE JobTake \/ JobReadGeneration \/ JobReadFailure \/ DeadlinePasses
  BY <1>1, <1>2, <1>5 DEF JobTake, JobReadGeneration, JobReadFailure, DeadlinePasses
<1>6. CASE JobCheckEpoch
  BY <1>1, <1>2, <1>3, <1>4, <1>6 DEF JobCheckEpoch
<1>7. CASE JobResult
  BY <1>1, <1>2, <1>3, <1>4, <1>7 DEF JobResult
<1>8. CASE JobStart \/ JobComplete \/ JobProduced \/ JobFailed
  BY <1>1, <1>2, <1>3, <1>8 DEF JobStart, JobComplete, JobProduced, JobFailed
<1>9. CASE JobChunk
  <2>1. /\ job.pc = "synthesize"
        /\ UNCHANGED <<agent, drain, passes>>
        /\ DOMAIN job' = DOMAIN Job0
    BY <1>9 DEF JobChunk
  <2>2. DOMAIN tally' = DOMAIN Tally0 /\ tally'.speaking = tally.speaking
    BY <1>9 DEF JobChunk, Tally0
  <2>. QED  BY <1>1, <1>2, <2>1, <2>2
<1>10. CASE JobWait
  BY <1>1, <1>2, <1>3, <1>10 DEF JobWait
<1>11. CASE JobWaitBuffer
  <2>1. job.pc = "wait_buffer" /\ UNCHANGED <<buf, agent, tts_drain_wake, drain>>
    BY <1>11 DEF JobWaitBuffer
  <2>2. CASE plan' = [plan EXCEPT !["job"] = AbortPlan] /\ JobGoes("aborting")
             /\ UNCHANGED <<scope, ended, flushers_left, tally>>
    <3>1. "job" \in Actors /\ "drain" \in Actors /\ Flushers \subseteq Actors /\ "job" \notin Flushers
      BY PlaybackAssumption DEF Actors
    <3>2. WellFormed(AbortPlan) /\ plan["job"] = <<>>
      BY <1>2, <2>1, PlansWellFormed
    <3>3. PlansReport' /\ plan' \in [Actors -> Seq(Steps)]
      BY <2>2, <3>1, <3>2, PlanStarted
    <3>4. \A b \in Actors : b # "job" => plan'[b] = plan[b]
      BY <2>2
    <3>5. job'.pc = "aborting" /\ DOMAIN job' = DOMAIN Job0
      BY <2>2 DEF JobGoes
    <3>6. Shape'
      BY <2>1, <2>2, <3>3, <3>5
    <3>7. PlansStart'
      BY <2>1, <2>2, <3>1, <3>4, <3>5 DEF PlansStart
    <3>8. OnlyDrainSets' /\ SpeakingBalanced'
      BY <2>1, <2>2 DEF OnlyDrainSets, SpeakingBalanced
    <3>. QED  BY <3>3, <3>6, <3>7, <3>8
  <2>3. CASE plan' = plan
    <3>1. /\ UNCHANGED <<scope, ended, flushers_left>>
          /\ DOMAIN job' = DOMAIN Job0
          /\ DOMAIN tally' = DOMAIN Tally0 /\ tally'.speaking = tally.speaking
      BY <1>3, <1>11, <2>3 DEF JobWaitBuffer, Tally0
    <3>. QED  BY <1>1, <1>2, <2>1, <2>3, <3>1
  <2>. QED  BY <1>11, <2>2, <2>3 DEF JobWaitBuffer
<1>12. CASE JobAborted
  BY <1>1, <1>3, <1>12 DEF JobAborted
<1>13. CASE PlanStep("job")
  BY <1>13, SpeakPlanStep DEF Actors
<1>. QED
  BY <1>5, <1>6, <1>7, <1>8, <1>9, <1>10, <1>11, <1>12, <1>13 DEF JobRuns

LEMMA SpeakStep == SpeakInv /\ [Next]_vars => SpeakInv'
<1>. SUFFICES ASSUME SpeakInv, [Next]_vars PROVE SpeakInv'
  OBVIOUS
<1>1. CASE DrainStep
  BY <1>1, SpeakDrainStep
<1>2. CASE JobTake \/ JobChunk \/ DeadlinePasses
  BY <1>2, SpeakJobStep
<1>3. CASE JobRuns
  BY <1>3, SpeakJobStep
<1>4. CASE \E f \in Flushers : StartFlush(f)
  BY <1>4, SpeakStartFlush
<1>5. CASE FlushStep
  BY <1>5, SpeakPlanStep DEF FlushStep, Actors
<1>6. CASE UNCHANGED vars
  <2>1. UNCHANGED <<scope, plan, ended, flushers_left, agent_speaking, drain, job, tally>>
    BY <1>6 DEF vars, agent, passes
  <2>. QED
    BY <2>1 DEF SpeakInv, Shape, PlansReport, PlansStart, OnlyDrainSets, SpeakingBalanced,
                WellFormed, Reports, NoEnd
<1>. QED  BY <1>1, <1>2, <1>3, <1>4, <1>5, <1>6 DEF Next

\* Every agent_speaking_start is answered by exactly one agent_speaking_end,
\* whichever of the drain, a failed job and the flush passes ends the speaking,
\* and however their critical sections and their event emissions interleave.
THEOREM SpeakingEvents == Spec => []SpeakingBalanced
<1>1. Init => SpeakInv
  BY SpeakInit
<1>2. SpeakInv /\ [Next]_vars => SpeakInv'
  BY SpeakStep
<1>3. SpeakInv => SpeakingBalanced
  BY DEF SpeakInv
<1>. QED  BY <1>1, <1>2, <1>3, PTL DEF Spec

-----------------------------------------------------------------------------
(* Sums *)

Sums(f, w) == f \in [0 .. Len(w) -> Nat] /\ f[0] = 0 /\ \A i \in 1 .. Len(w) : f[i] = f[i - 1] + w[i]

\* The recursive function of Total, as a function on 0 .. Len(w).
LEMMA TotalMeans ==
    ASSUME NEW w \in Seq(Nat)
    PROVE  \E f : Sums(f, w) /\ Total(w) = f[Len(w)]
<1>. DEFINE n == Len(w)
            pass == [i \in 1 .. n |-> [x \in Nat |-> x + w[i]]]
            step(a) == [i \in 0 .. n |-> IF i = 0 THEN 0 ELSE a[i - 1] + w[i]]
            sum == CHOOSE a : a = step(a)
            T == {i \in Nat : i <= n => sum[i] \in Nat}
<1>1. n \in Nat /\ \A i \in 1 .. n : w[i] \in Nat
  OBVIOUS
<1>2. Total(w) = sum[n]
  BY DEF Total
<1>. HIDE DEF n
<1>3. \E a : a = step(a)
  <2>1. pass \in [1 .. n -> [Nat -> Nat]]
    BY <1>1
  <2>2. PICK f : f \in [0 .. n -> Nat] /\ f[0] = 0 /\ \A i \in 1 .. n : f[i] = pass[i][f[i - 1]]
    <3>. HIDE DEF pass
    <3>1. \E f : Loop(f, n, Nat, 0, pass)
      BY <1>1, <2>1, LoopExists
    <3>. QED  BY <3>1 DEF Loop
  <2>3. \A i \in 1 .. n : f[i] = f[i - 1] + w[i]
    <3>. TAKE i \in 1 .. n
    <3>1. i - 1 \in 0 .. n  BY <1>1
    <3>. QED  BY <2>2, <3>1
  <2>4. \A i \in 0 .. n : f[i] = step(f)[i]
    <3>. TAKE i \in 0 .. n
    <3>1. CASE i = 0  BY <2>2, <3>1
    <3>2. CASE i # 0
      <4>1. i \in 1 .. n  BY <1>1, <3>2
      <4>. QED  BY <2>3, <3>2, <4>1
    <3>. QED  BY <3>1, <3>2
  <2>5. f = step(f)
    BY <2>2, <2>4
  <2>. QED  BY <2>5
<1>4. sum = step(sum)
  <2>. HIDE DEF step
  <2>. QED  BY <1>3
<1>. HIDE DEF sum
<1>5. sum[0] = 0 /\ \A i \in 1 .. n : sum[i] = sum[i - 1] + w[i]
  BY <1>1, <1>4
<1>6. 0 \in T
  BY <1>5
<1>7. ASSUME NEW i \in Nat, i \in T PROVE i + 1 \in T
  <2>. SUFFICES ASSUME i + 1 <= n PROVE sum[i + 1] \in Nat
    OBVIOUS
  <2>1. i + 1 \in 1 .. n /\ (i + 1) - 1 = i /\ sum[i] \in Nat
    BY <1>1, <1>7
  <2>2. sum[i + 1] = sum[i] + w[i + 1]
    BY <1>5, <2>1
  <2>. QED  BY <1>1, <2>1, <2>2
<1>8. Nat \subseteq T
  <2>. HIDE DEF T
  <2>. QED  BY <1>6, <1>7, Inductive
<1>9. \A i \in 0 .. n : sum[i] \in Nat
  BY <1>1, <1>8
<1>10. sum \in [0 .. n -> Nat]
  <2>1. DOMAIN sum = 0 .. n /\ sum = [i \in DOMAIN sum |-> sum[i]]
    BY <1>4
  <2>. QED  BY <1>9, <2>1
<1>. QED  BY <1>2, <1>5, <1>10 DEF Sums, n

\* Stated for the solver, which meets it with long terms for a, b and c.
LEMMA SumAssociates ==
    ASSUME NEW a \in Nat, NEW b \in Nat, NEW c \in Nat
    PROVE  (a + b) + c = a + (b + c)
OBVIOUS

\* The first n numbers of v are those of w from place d on.
Aligned(v, w, n, d) == n <= Len(v) /\ n + d <= Len(w) /\ \A i \in 1 .. n : v[i] = w[i + d]

\* Two lists that agree on n places, d apart, grow by the same sum over them.
LEMMA SumsAlign ==
    ASSUME NEW w \in Seq(Nat), NEW v \in Seq(Nat), NEW f, NEW g, Sums(f, w), Sums(g, v),
           NEW n \in Nat, NEW d \in Nat, Aligned(v, w, n, d)
    PROVE  f[n + d] = f[d] + g[n]
<1>. USE DEF Aligned
<1>. DEFINE T == {i \in Nat : i <= n => f[i + d] = f[d] + g[i]}
<1>1. Len(w) \in Nat /\ Len(v) \in Nat
  OBVIOUS
<1>a. /\ \A i \in 0 .. Len(w) : f[i] \in Nat
      /\ \A i \in 1 .. Len(w) : f[i] = f[i - 1] + w[i]
  BY DEF Sums
<1>b. /\ \A i \in 0 .. Len(v) : g[i] \in Nat
      /\ \A i \in 1 .. Len(v) : g[i] = g[i - 1] + v[i]
      /\ g[0] = 0
  BY DEF Sums
<1>c. \A i \in 1 .. Len(v) : v[i] \in Nat
  OBVIOUS
<1>2. 0 \in T
  <2>1. d \in 0 .. Len(w)  BY <1>1
  <2>2. f[d] \in Nat  BY <1>a, <2>1
  <2>3. 0 + d = d  OBVIOUS
  <2>. QED  BY <1>b, <2>2, <2>3
<1>3. ASSUME NEW i \in Nat, i \in T PROVE i + 1 \in T
  <2>. SUFFICES ASSUME i + 1 <= n PROVE f[(i + 1) + d] = f[d] + g[i + 1]
    OBVIOUS
  <2>1. /\ i + 1 \in 1 .. n /\ i + 1 \in 1 .. Len(v) /\ (i + 1) + d \in 1 .. Len(w)
        /\ (i + 1) - 1 = i /\ ((i + 1) + d) - 1 = i + d
        /\ d \in 0 .. Len(w) /\ i \in 0 .. Len(v)
    BY <1>1
  <2>2. f[(i + 1) + d] = f[i + d] + w[(i + 1) + d] /\ g[i + 1] = g[i] + v[i + 1]
    BY <1>a, <1>b, <2>1
  <2>3. f[i + d] = f[d] + g[i]
    BY <1>1, <1>3, <2>1
  <2>4. v[i + 1] = w[(i + 1) + d]
    BY <2>1
  <2>5. v[i + 1] \in Nat
    BY <1>c, <2>1
  <2>6. f[d] \in Nat /\ g[i] \in Nat
    BY <1>a, <1>b, <2>1
  <2>7. f[(i + 1) + d] = (f[d] + g[i]) + v[i + 1]
    BY <2>2, <2>3, <2>4
  <2>8. (f[d] + g[i]) + v[i + 1] = f[d] + (g[i] + v[i + 1])
    <3>. HIDE DEF T, Aligned
    <3>. QED  BY <2>5, <2>6, SumAssociates
  <2>. QED  BY <2>2, <2>7, <2>8
<1>4. n \in T
  <2>. HIDE DEF T
  <2>. QED  BY <1>2, <1>3, Inductive
<1>. QED  BY <1>4

\* A sum of naturals is a natural; the empty sum is 0.
LEMMA TotalNat == ASSUME NEW w \in Seq(Nat) PROVE Total(w) \in Nat
<1>1. PICK f : Sums(f, w) /\ Total(w) = f[Len(w)]
  BY TotalMeans
<1>. QED  BY <1>1 DEF Sums

LEMMA TotalEmpty == Total(<<>>) = 0
<1>1. <<>> \in Seq(Nat) /\ Len(<<>>) = 0
  OBVIOUS
<1>2. PICK f : Sums(f, <<>>) /\ Total(<<>>) = f[0]
  BY <1>1, TotalMeans
<1>. QED  BY <1>2 DEF Sums

\* An appended number is added.
LEMMA TotalAppend ==
    ASSUME NEW w \in Seq(Nat), NEW x \in Nat
    PROVE  Total(Append(w, x)) = Total(w) + x
<1>. DEFINE v == Append(w, x)
            n == Len(w)
<1>1. v \in Seq(Nat) /\ Len(v) = n + 1 /\ v[n + 1] = x /\ n \in Nat
  OBVIOUS
<1>2. Aligned(w, v, n, 0)
  BY <1>1 DEF Aligned
<1>3. PICK f : Sums(f, w) /\ Total(w) = f[n]
  BY TotalMeans
<1>. HIDE DEF v
<1>4. PICK g : Sums(g, v) /\ Total(v) = g[n + 1]
  BY <1>1, TotalMeans
<1>. HIDE DEF n
<1>5. g[n + 0] = g[0] + f[n]
  BY <1>1, <1>2, <1>3, <1>4, SumsAlign
<1>6. g[n + 1] = g[n] + x
  <2>1. n + 1 \in 1 .. Len(v) /\ (n + 1) - 1 = n  BY <1>1
  <2>. QED  BY <1>1, <1>4, <2>1 DEF Sums
<1>7. g[0] = 0 /\ f[n] \in Nat /\ n + 0 = n
  <2>1. n = Len(w) /\ n \in 0 .. n  BY <1>1 DEF n
  <2>2. g[0] = 0  BY <1>4 DEF Sums
  <2>3. f[n] \in Nat  BY <1>3, <2>1 DEF Sums
  <2>. QED  BY <1>1, <2>2, <2>3
<1>. QED  BY <1>3, <1>4, <1>5, <1>6, <1>7 DEF v

\* The head of a list is what its tail lacks.
LEMMA TotalTail ==
    ASSUME NEW w \in Seq(Nat), w # <<>>
    PROVE  Total(w) = w[1] + Total(Tail(w))
<1>. DEFINE v == Tail(w)
            n == Len(v)
<1>1. v \in Seq(Nat) /\ Len(w) = n + 1 /\ n \in Nat /\ w[1] \in Nat
  OBVIOUS
<1>2. Aligned(v, w, n, 1)
  BY <1>1 DEF Aligned
<1>3. PICK f : Sums(f, w) /\ Total(w) = f[n + 1]
  BY <1>1, TotalMeans
<1>. HIDE DEF v
<1>4. PICK g : Sums(g, v) /\ Total(v) = g[n]
  BY <1>1, TotalMeans
<1>. HIDE DEF n
<1>5. f[n + 1] = f[1] + g[n]
  BY <1>1, <1>2, <1>3, <1>4, SumsAlign
<1>6. f[1] = f[0] + w[1] /\ f[0] = 0
  <2>1. 1 \in 1 .. Len(w) /\ 1 - 1 = 0  BY <1>1
  <2>. QED  BY <1>3, <2>1 DEF Sums
<1>. QED  BY <1>1, <1>3, <1>4, <1>5, <1>6 DEF v

-----------------------------------------------------------------------------
(* Counting the units of some replies. *)

Audio == Seq(ReplyIds)

\* p is u followed by v.
Joined(p, u, v) ==
    /\ Len(p) = Len(u) + Len(v)
    /\ \A i \in 1 .. Len(u) : p[i] = u[i]
    /\ \A i \in 1 .. Len(v) : p[i + Len(u)] = v[i]

\* A piece of audio has no more units of some replies than it has units.
LEMMA UnitsNat ==
    ASSUME NEW p \in Audio, NEW R
    PROVE  /\ UnitsOf(p, R) \in Nat /\ UnitsOf(p, R) <= Len(p)
           /\ IsFiniteSet({i \in 1 .. Len(p) : p[i] \in R})
<1>. DEFINE A == {i \in 1 .. Len(p) : p[i] \in R}
<1>1. Len(p) \in Nat /\ DOMAIN p = 1 .. Len(p)
  BY DEF Audio
<1>2. IsFiniteSet(1 .. Len(p)) /\ Cardinality(1 .. Len(p)) = Len(p)
  <2>1. \A n \in Nat : IsFiniteSet(1 .. n) /\ Cardinality(1 .. n) = n
    BY FS_Interval
  <2>. QED  BY <1>1, <2>1
<1>3. A \in SUBSET (1 .. Len(p))
  OBVIOUS
<1>4. IsFiniteSet(A) /\ Cardinality(A) <= Len(p)
  BY <1>2, <1>3, FS_Subset
<1>5. Cardinality(A) \in Nat
  BY <1>4, FS_CardinalityType
<1>6. UnitsOf(p, R) = Cardinality(A)
  BY <1>1 DEF UnitsOf
<1>. QED  BY <1>4, <1>5, <1>6

\* Units are counted part by part.
LEMMA UnitsJoin ==
    ASSUME NEW p \in Audio, NEW u \in Audio, NEW v \in Audio, Joined(p, u, v), NEW R
    PROVE  UnitsOf(p, R) = UnitsOf(u, R) + UnitsOf(v, R)
<1>. DEFINE A == {i \in 1 .. Len(p) : p[i] \in R}
            B == {i \in 1 .. Len(u) : u[i] \in R}
            C == {i \in 1 .. Len(v) : v[i] \in R}
            D == {i \in A : i > Len(u)}
            m == Len(u)
            f == [i \in C |-> i + m]
<1>1. /\ m \in Nat /\ Len(v) \in Nat /\ Len(p) = m + Len(v)
      /\ \A i \in 1 .. m : p[i] = u[i]
      /\ \A i \in 1 .. Len(v) : p[i + m] = v[i]
  BY DEF Joined, Audio
<1>2. UnitsOf(p, R) = Cardinality(A) /\ UnitsOf(u, R) = Cardinality(B) /\ UnitsOf(v, R) = Cardinality(C)
  <2>1. DOMAIN p = 1 .. Len(p) /\ DOMAIN u = 1 .. Len(u) /\ DOMAIN v = 1 .. Len(v)
    BY DEF Audio
  <2>. QED  BY <2>1 DEF UnitsOf
<1>3. IsFiniteSet(B) /\ IsFiniteSet(C) /\ Cardinality(B) \in Nat /\ Cardinality(C) \in Nat
  BY <1>2, UnitsNat
<1>4. A = B \cup D /\ B \cap D = {}
  <2>1. \A i \in 1 .. m : i \in 1 .. Len(p)
    BY <1>1
  <2>2. \A i \in A : i > m \/ i \in 1 .. m
    BY <1>1
  <2>3. \A i \in B : ~(i > m)
    BY <1>1
  <2>. QED  BY <1>1, <2>1, <2>2, <2>3
<1>5. ExistsBijection(C, D)
  <2>1. \A i \in C : f[i] \in D
    BY <1>1
  <2>2. \A i, j \in C : f[i] = f[j] => i = j
    BY <1>1
  <2>3. \A j \in D : j - m \in C /\ f[j - m] = j
    <3>. TAKE j \in D
    <3>1. j - m \in 1 .. Len(v) /\ (j - m) + m = j
      BY <1>1
    <3>2. p[j] = v[j - m]
      BY <1>1, <3>1
    <3>. QED  BY <3>1, <3>2
  <2>4. f \in [C -> D]
    BY <2>1
  <2>. HIDE DEF f, C, D
  <2>5. f \in Bijection(C, D)
    BY <2>2, <2>3, <2>4 DEF Bijection, Injection, Surjection, IsInjective
  <2>. QED  BY <2>5 DEF ExistsBijection
<1>. HIDE DEF A, B, C, D
<1>6. IsFiniteSet(D) /\ Cardinality(D) = Cardinality(C)
  BY <1>3, <1>5, FS_Bijection
<1>7. Cardinality(A) = Cardinality(B) + Cardinality(D) - Cardinality(B \cap D)
  BY <1>3, <1>4, <1>6, FS_Union
<1>8. Cardinality(B \cap D) = 0
  BY <1>4, FS_EmptySet
<1>. QED  BY <1>2, <1>3, <1>6, <1>7, <1>8

\* No audio, no units; audio put together has the units of both.
LEMMA UnitsEmpty == \A R : UnitsOf(<<>>, R) = 0
<1>. TAKE R
<1>1. {i \in DOMAIN <<>> : <<>>[i] \in R} = {}
  OBVIOUS
<1>. QED  BY <1>1, FS_EmptySet DEF UnitsOf

LEMMA UnitsConcat ==
    ASSUME NEW u \in Audio, NEW v \in Audio, NEW R
    PROVE  UnitsOf(u \o v, R) = UnitsOf(u, R) + UnitsOf(v, R)
<1>1. u \o v \in Audio /\ Joined(u \o v, u, v)
  BY DEF Joined, Audio
<1>. QED  BY <1>1, UnitsJoin

\* A chunk.
LEMMA UnitsOfChunk ==
    ASSUME NEW chunk \in [reply : ReplyIds, units : Nat], NEW R
    PROVE  /\ Units(chunk) \in Audio /\ Len(Units(chunk)) = chunk.units
           /\ UnitsOf(Units(chunk), R) = IF chunk.reply \in R THEN chunk.units ELSE 0
<1>. DEFINE n == chunk.units
<1>1. n \in Nat /\ Units(chunk) = [i \in 1 .. n |-> chunk.reply] /\ chunk.reply \in ReplyIds
  BY DEF Units
<1>2. UnitsOf(Units(chunk), R) = Cardinality({i \in 1 .. n : chunk.reply \in R})
  <2>1. {i \in DOMAIN Units(chunk) : Units(chunk)[i] \in R} = {i \in 1 .. n : chunk.reply \in R}
    BY <1>1
  <2>. QED  BY <2>1 DEF UnitsOf
<1>3. Cardinality(1 .. n) = n
  BY <1>1, FS_Interval
<1>6. Units(chunk) \in Audio /\ Len(Units(chunk)) = n
  <2>1. Units(chunk) \in [1 .. n -> ReplyIds]
    BY <1>1
  <2>. HIDE DEF n
  <2>. QED  BY <1>1, <2>1 DEF Audio
<1>4. CASE chunk.reply \in R
  <2>1. {i \in 1 .. n : chunk.reply \in R} = 1 .. n
    BY <1>4
  <2>2. UnitsOf(Units(chunk), R) = n
    BY <1>2, <1>3, <2>1
  <2>. QED  BY <1>4, <1>6, <2>2
<1>5. CASE chunk.reply \notin R
  <2>1. {i \in 1 .. n : chunk.reply \in R} = {}
    BY <1>5
  <2>2. UnitsOf(Units(chunk), R) = 0
    BY <1>2, <2>1, FS_EmptySet
  <2>. QED  BY <1>5, <1>6, <2>2
<1>. QED  BY <1>4, <1>5, <1>6

-----------------------------------------------------------------------------
(* Cutting audio into frames. *)

\* Multiples of a frame: FrameUnits is a constant, so these are not linear for the solver.
LEMMA FrameTimes ==
    ASSUME NEW k \in Nat
    PROVE  /\ k * FrameUnits \in Nat /\ 0 * FrameUnits = 0
           /\ (k + 1) * FrameUnits = k * FrameUnits + FrameUnits
BY FrameAssumption

\* More frames are more units.
LEMMA FrameOrder ==
    ASSUME NEW k \in Nat, NEW n \in Nat, k <= n
    PROVE  k * FrameUnits <= n * FrameUnits
BY FrameAssumption

\* As many whole frames as fit, and less than one more.
LEMMA FrameDiv ==
    ASSUME NEW n \in Nat
    PROVE  /\ n \div FrameUnits \in Nat
           /\ (n \div FrameUnits) * FrameUnits <= n
           /\ n < (n \div FrameUnits) * FrameUnits + FrameUnits
<1>1. n \div FrameUnits \in Nat
  BY FrameAssumption
<1>. QED  BY <1>1, FrameAssumption

\* A part of some audio.
LEMMA PartOf ==
    ASSUME NEW p \in Audio, NEW a \in Nat, NEW b \in Nat, a <= b, b <= Len(p)
    PROVE  /\ SubSeq(p, a + 1, b) \in Audio /\ Len(SubSeq(p, a + 1, b)) = b - a
           /\ \A i \in 1 .. b - a : SubSeq(p, a + 1, b)[i] = p[i + a]
<1>. DEFINE s == SubSeq(p, a + 1, b)
<1>1. Len(p) \in Nat /\ \A i \in 1 .. Len(p) : p[i] \in ReplyIds
  BY DEF Audio
<1>2. s = [i \in 1 .. b - a |-> p[i + a]]
  <2>1. s = [i \in 1 .. (b - (a + 1)) + 1 |-> p[(i + (a + 1)) - 1]]
    BY <1>1 DEF Audio
  <2>2. (b - (a + 1)) + 1 = b - a
    OBVIOUS
  <2>3. \A i \in 1 .. b - a : (i + (a + 1)) - 1 = i + a
    OBVIOUS
  <2>. HIDE DEF s
  <2>. QED  BY <2>1, <2>2, <2>3
<1>. HIDE DEF s
<1>3. \A i \in 1 .. b - a : i + a \in 1 .. Len(p)
  BY <1>1
<1>4. s \in [1 .. b - a -> ReplyIds] /\ b - a \in Nat
  BY <1>1, <1>2, <1>3
<1>5. s \in Audio /\ Len(s) = b - a
  <2>. DEFINE n == b - a
  <2>1. s \in [1 .. n -> ReplyIds] /\ n \in Nat
    BY <1>4
  <2>. HIDE DEF n
  <2>2. s \in Audio /\ Len(s) = n
    BY <2>1 DEF Audio
  <2>. QED  BY <2>2 DEF n
<1>. QED  BY <1>2, <1>5 DEF s

\* Two adjoining parts.
LEMMA PartsJoin ==
    ASSUME NEW p \in Audio, NEW a \in Nat, NEW b \in Nat, a <= b, b <= Len(p), NEW R
    PROVE  UnitsOf(SubSeq(p, 1, b), R) = UnitsOf(SubSeq(p, 1, a), R) + UnitsOf(SubSeq(p, a + 1, b), R)
<1>. DEFINE q == SubSeq(p, 1, b)
            u == SubSeq(p, 1, a)
            v == SubSeq(p, a + 1, b)
<1>0. Len(p) \in Nat /\ 0 \in Nat /\ 0 + 1 = 1 /\ 0 <= a /\ 0 <= b /\ a <= Len(p) /\ a - 0 = a /\ b - 0 = b
  BY DEF Audio
<1>1. q \in Audio /\ Len(q) = b /\ \A i \in 1 .. b : q[i] = p[i + 0]
  BY <1>0, PartOf
<1>2. u \in Audio /\ Len(u) = a /\ \A i \in 1 .. a : u[i] = p[i + 0]
  BY <1>0, PartOf
<1>3. v \in Audio /\ Len(v) = b - a /\ \A i \in 1 .. b - a : v[i] = p[i + a]
  BY PartOf
<1>. HIDE DEF q, u, v
<1>4. Joined(q, u, v)
  BY <1>1, <1>2, <1>3 DEF Joined
<1>5. UnitsOf(q, R) = UnitsOf(u, R) + UnitsOf(v, R)
  BY <1>1, <1>2, <1>3, <1>4, UnitsJoin
<1>. QED  BY <1>5 DEF q, u, v

FramesOk(frames) ==
    /\ frames \in Seq(Audio)
    /\ \A i \in 1 .. Len(frames) : Len(frames[i]) <= FrameUnits

\* take_complete_stereo_frames keeps every unit: what it cuts into frames and the
\* remainder, which is shorter than a frame, are the audio.
LEMMA FramesCut ==
    ASSUME NEW p \in Audio
    PROVE  /\ FramesOk(Frames(p))
           /\ Remainder(p) \in Audio /\ Len(Remainder(p)) < FrameUnits
           /\ \A R : UnitsFramed(Frames(p), R) + UnitsOf(Remainder(p), R) = UnitsOf(p, R)
<1>. DEFINE n == FrameCount(p)
            at(k) == k * FrameUnits
<1>1. Len(p) \in Nat /\ n \in Nat /\ at(n) \in Nat /\ at(n) <= Len(p) /\ Len(p) < at(n) + FrameUnits
  <2>1. Len(p) \in Nat
    BY DEF Audio
  <2>. QED  BY <2>1, FrameDiv, FrameTimes DEF FrameCount
<1>. HIDE DEF n
<1>2. ASSUME NEW i \in 1 .. n
      PROVE  /\ i - 1 \in Nat /\ at(i - 1) \in Nat /\ at(i) \in Nat
             /\ at(i) = at(i - 1) + FrameUnits /\ at(i) <= Len(p)
             /\ FrameAt(p, i) = SubSeq(p, at(i - 1) + 1, at(i))
  <2>1. i - 1 \in Nat /\ (i - 1) + 1 = i /\ i <= n /\ i \in Nat
    BY <1>1
  <2>2. at(i - 1) \in Nat /\ at((i - 1) + 1) = at(i - 1) + FrameUnits
    BY <2>1, FrameTimes
  <2>3. at(i) <= at(n) /\ at(i) \in Nat
    BY <1>1, <2>1, FrameOrder, FrameTimes
  <2>4. FrameAt(p, i) = SubSeq(p, at(i - 1) + 1, at(i))
    BY DEF FrameAt
  <2>. HIDE DEF at
  <2>5. at(i) = at(i - 1) + FrameUnits
    BY <2>1, <2>2
  <2>. QED  BY <1>1, <2>1, <2>2, <2>3, <2>4, <2>5
<1>. HIDE DEF at
<1>3. ASSUME NEW i \in 1 .. n
      PROVE  FrameAt(p, i) \in Audio /\ Len(FrameAt(p, i)) = FrameUnits
  <2>. DEFINE a == at(i - 1)
              b == at(i)
  <2>1. a \in Nat /\ b \in Nat /\ b = a + FrameUnits /\ b <= Len(p) /\ FrameAt(p, i) = SubSeq(p, a + 1, b)
    BY <1>2
  <2>. HIDE DEF a, b
  <2>2. a <= b /\ b - a = FrameUnits
    BY <2>1, FrameAssumption
  <2>3. SubSeq(p, a + 1, b) \in Audio /\ Len(SubSeq(p, a + 1, b)) = b - a
    BY <2>1, <2>2, PartOf
  <2>. QED  BY <2>1, <2>2, <2>3
<1>4. Frames(p) = [i \in 1 .. n |-> FrameAt(p, i)]
  BY DEF Frames, n
<1>5. FramesOk(Frames(p)) /\ Len(Frames(p)) = n
  <2>1. Frames(p) \in [1 .. n -> Audio] /\ \A i \in 1 .. n : Len(Frames(p)[i]) = FrameUnits
    BY <1>3, <1>4
  <2>2. Frames(p) \in Seq(Audio) /\ Len(Frames(p)) = n
    BY <1>1, <2>1
  <2>. QED  BY <2>1, <2>2, FrameAssumption DEF FramesOk
<1>6. Remainder(p) = SubSeq(p, at(n) + 1, Len(p))
  BY DEF Remainder, at, n
<1>7. Remainder(p) \in Audio /\ Len(Remainder(p)) = Len(p) - at(n)
  BY <1>1, <1>6, PartOf
<1>8. Len(Remainder(p)) < FrameUnits
  BY <1>1, <1>7, FrameAssumption
<1>9. ASSUME NEW R
      PROVE  UnitsFramed(Frames(p), R) + UnitsOf(Remainder(p), R) = UnitsOf(p, R)
  <2>. DEFINE w == [i \in 1 .. n |-> UnitsOf(FrameAt(p, i), R)]
              upto(k) == UnitsOf(SubSeq(p, 1, at(k)), R)
  <2>1. w \in Seq(Nat) /\ Len(w) = n /\ \A i \in 1 .. n : w[i] = UnitsOf(FrameAt(p, i), R)
    <3>1. w \in [1 .. n -> Nat]
      BY <1>3, UnitsNat
    <3>. QED  BY <1>1, <3>1
  <2>2. UnitsFramed(Frames(p), R) = Total(w)
    <3>1. DOMAIN Frames(p) = 1 .. n
      BY <1>4
    <3>2. [i \in DOMAIN Frames(p) |-> UnitsOf(Frames(p)[i], R)] = w
      BY <1>4, <3>1
    <3>. QED  BY <3>2 DEF UnitsFramed
  <2>. HIDE DEF w
  <2>3. PICK f : Sums(f, w) /\ Total(w) = f[n]
    BY <2>1, TotalMeans
  <2>4. f[0] = 0 /\ \A i \in 1 .. n : f[i] = f[i - 1] + w[i]
    BY <2>1, <2>3 DEF Sums
  <2>. DEFINE T == {k \in Nat : k <= n => f[k] = upto(k)}
  <2>5. 0 \in T
    <3>1. at(0) = 0
      BY FrameTimes DEF at
    <3>2. SubSeq(p, 1, 0) = <<>>
      BY DEF Audio
    <3>. QED  BY <2>4, <3>1, <3>2, UnitsEmpty
  <2>6. ASSUME NEW k \in Nat, k \in T PROVE k + 1 \in T
    <3>. SUFFICES ASSUME k + 1 <= n PROVE f[k + 1] = upto(k + 1)
      OBVIOUS
    <3>1. k + 1 \in 1 .. n /\ (k + 1) - 1 = k /\ k <= n
      BY <1>1
    <3>2. f[k + 1] = upto(k) + UnitsOf(FrameAt(p, k + 1), R)
      BY <2>1, <2>4, <2>6, <3>1
    <3>3. /\ at(k) \in Nat /\ at(k + 1) \in Nat /\ at(k) <= at(k + 1) /\ at(k + 1) <= Len(p)
          /\ FrameAt(p, k + 1) = SubSeq(p, at(k) + 1, at(k + 1))
      BY <1>2, <3>1, FrameAssumption
    <3>. HIDE DEF T
    <3>4. upto(k + 1) = upto(k) + UnitsOf(SubSeq(p, at(k) + 1, at(k + 1)), R)
      BY <3>3, PartsJoin
    <3>. QED  BY <3>2, <3>3, <3>4
  <2>7. n \in T
    <3>. HIDE DEF T
    <3>. QED  BY <1>1, <2>5, <2>6, Inductive
  <2>8. Total(w) = upto(n)
    BY <1>1, <2>3, <2>7
  <2>9. UnitsOf(SubSeq(p, 1, Len(p)), R) = upto(n) + UnitsOf(Remainder(p), R)
    BY <1>1, <1>6, PartsJoin
  <2>10. SubSeq(p, 1, Len(p)) = p
    BY DEF Audio
  <2>. QED  BY <2>2, <2>8, <2>9, <2>10
<1>. QED  BY <1>5, <1>7, <1>8, <1>9

-----------------------------------------------------------------------------
(* The ledger. *)

Entries == {e \in [reply : ReplyIds, queued : Nat, played : Nat, started : BOOLEAN, complete : BOOLEAN] :
              e.played <= e.queued}
Accs == [ledger : Seq(Entries), left : Nat, stopped : BOOLEAN,
         started : SUBSET ReplyIds, ended : SUBSET ReplyIds]

\* A pass of the loop of consume_played books no more than is left and no entry
\* beyond what it queued.
LEMMA BookEntryTyped ==
    ASSUME NEW acc \in Accs, NEW entry \in Entries
    PROVE  BookEntry(acc, entry) \in Accs
<1>. DEFINE open == entry.queued - entry.played
            take == IF acc.left < open THEN acc.left ELSE open
            booked == [entry EXCEPT !.played = @ + take, !.started = @ \/ take > 0]
            ends == IsOver(booked)
<1>1. /\ entry \in [reply : ReplyIds, queued : Nat, played : Nat, started : BOOLEAN, complete : BOOLEAN]
      /\ entry.played <= entry.queued
  BY DEF Entries
<1>2. /\ acc.ledger \in Seq(Entries) /\ acc.left \in Nat
      /\ acc.started \subseteq ReplyIds /\ acc.ended \subseteq ReplyIds
  BY DEF Accs
<1>3. take \in Nat /\ acc.left - take \in Nat /\ entry.played + take <= entry.queued
  BY <1>1, <1>2
<1>4. booked \in Entries
  <2>. HIDE DEF take
  <2>1. /\ booked \in [reply : ReplyIds, queued : Nat, played : Nat, started : BOOLEAN, complete : BOOLEAN]
        /\ booked.played = entry.played + take /\ booked.queued = entry.queued
    <3>. DEFINE play == entry.played + take
                begun == entry.started \/ take > 0
    <3>1. play \in Nat /\ begun \in BOOLEAN
      BY <1>1, <1>3
    <3>2. booked = [[entry EXCEPT !.played = play] EXCEPT !.started = begun]
      OBVIOUS
    <3>. HIDE DEF play, begun
    <3>. DEFINE mid == [entry EXCEPT !.played = play]
    <3>3. /\ mid \in [reply : ReplyIds, queued : Nat, played : Nat, started : BOOLEAN, complete : BOOLEAN]
          /\ mid.played = play /\ mid.queued = entry.queued
      BY <1>1, <3>1
    <3>4. booked = [mid EXCEPT !.started = begun]
      BY <3>2
    <3>. HIDE DEF mid, booked
    <3>5. /\ booked \in [reply : ReplyIds, queued : Nat, played : Nat, started : BOOLEAN, complete : BOOLEAN]
          /\ booked.played = play /\ booked.queued = entry.queued
      BY <3>1, <3>3, <3>4
    <3>. QED  BY <3>5 DEF play
  <2>. HIDE DEF booked
  <2>. QED  BY <1>3, <2>1 DEF Entries
<1>5. ends \in BOOLEAN
  <2>1. booked.complete \in BOOLEAN /\ booked.started \in BOOLEAN
    <3>. HIDE DEF booked
    <3>. QED  BY <1>4 DEF Entries
  <2>. HIDE DEF booked
  <2>. QED  BY <2>1 DEF IsOver
<1>6. BookEntry(acc, entry) =
        IF acc.stopped THEN [acc EXCEPT !.ledger = Append(@, entry)]
        ELSE [ledger |-> IF ends THEN acc.ledger ELSE Append(acc.ledger, booked),
              left |-> acc.left - take, stopped |-> ~ends,
              started |-> IF take > 0 /\ ~entry.started THEN acc.started \union {entry.reply} ELSE acc.started,
              ended |-> IF ends THEN acc.ended \union {entry.reply} ELSE acc.ended]
  BY DEF BookEntry
<1>. HIDE DEF take, booked, ends
<1>7. CASE acc.stopped
  <2>1. [acc EXCEPT !.ledger = Append(@, entry)] \in Accs
    <3>. DEFINE led == Append(acc.ledger, entry)
    <3>1. led \in Seq(Entries)
      BY <1>2
    <3>2. [acc EXCEPT !.ledger = Append(@, entry)] = [acc EXCEPT !.ledger = led]
      OBVIOUS
    <3>. HIDE DEF led
    <3>3. [acc EXCEPT !.ledger = led] \in Accs
      BY <3>1 DEF Accs
    <3>. QED  BY <3>2, <3>3
  <2>. QED  BY <1>6, <1>7, <2>1
<1>8. CASE ~acc.stopped
  <2>. DEFINE led == IF ends THEN acc.ledger ELSE Append(acc.ledger, booked)
              beg == IF take > 0 /\ ~entry.started THEN acc.started \union {entry.reply} ELSE acc.started
              fin == IF ends THEN acc.ended \union {entry.reply} ELSE acc.ended
  <2>1. led \in Seq(Entries)
    BY <1>2, <1>4
  <2>2. beg \in SUBSET ReplyIds /\ fin \in SUBSET ReplyIds
    BY <1>1, <1>2
  <2>3. BookEntry(acc, entry) = [ledger |-> led, left |-> acc.left - take, stopped |-> ~ends,
                                 started |-> beg, ended |-> fin]
    BY <1>6, <1>8
  <2>. HIDE DEF led, beg, fin
  <2>. QED  BY <1>3, <1>5, <2>1, <2>2, <2>3 DEF Accs
<1>. QED  BY <1>7, <1>8

Acc0(n) == [ledger |-> <<>>, left |-> n, stopped |-> FALSE, started |-> {}, ended |-> {}]

\* consume_played is the loop over its entries.
LEMMA ConsumeRuns ==
    ASSUME NEW ledger \in Seq(Entries), NEW n \in Nat
    PROVE  \E f \in [0 .. Len(ledger) -> Accs] :
              /\ f[0] = Acc0(n)
              /\ \A i \in 1 .. Len(ledger) : f[i] = BookEntry(f[i - 1], ledger[i])
              /\ ConsumePlayed(ledger, n) = f[Len(ledger)]
<1>. DEFINE m == Len(ledger)
            pass == [i \in 1 .. m |-> [acc \in Accs |-> BookEntry(acc, ledger[i])]]
            step(a) == [i \in 0 .. m |-> IF i = 0 THEN Acc0(n) ELSE BookEntry(a[i - 1], ledger[i])]
            after == CHOOSE a : a = step(a)
            T == {i \in Nat : i <= m => after[i] \in Accs}
<1>1. m \in Nat /\ \A i \in 1 .. m : ledger[i] \in Entries
  OBVIOUS
<1>2. ConsumePlayed(ledger, n) = after[m]
  BY DEF ConsumePlayed, Acc0
<1>. HIDE DEF m
<1>0. Acc0(n) \in Accs
  BY DEF Acc0, Accs
<1>3. \E a : a = step(a)
  <2>1. pass \in [1 .. m -> [Accs -> Accs]]
    BY <1>1, BookEntryTyped
  <2>2. PICK f : f \in [0 .. m -> Accs] /\ f[0] = Acc0(n) /\ \A i \in 1 .. m : f[i] = pass[i][f[i - 1]]
    <3>. HIDE DEF pass
    <3>1. \E f : Loop(f, m, Accs, Acc0(n), pass)
      BY <1>0, <1>1, <2>1, LoopExists
    <3>. QED  BY <3>1 DEF Loop
  <2>3. \A i \in 1 .. m : f[i] = BookEntry(f[i - 1], ledger[i])
    <3>. TAKE i \in 1 .. m
    <3>1. i - 1 \in 0 .. m  BY <1>1
    <3>. QED  BY <2>2, <3>1
  <2>4. \A i \in 0 .. m : f[i] = step(f)[i]
    <3>. TAKE i \in 0 .. m
    <3>1. CASE i = 0  BY <2>2, <3>1
    <3>2. CASE i # 0
      <4>1. i \in 1 .. m  BY <1>1, <3>2
      <4>. QED  BY <2>3, <3>2, <4>1
    <3>. QED  BY <3>1, <3>2
  <2>5. f = step(f)
    BY <2>2, <2>4
  <2>. QED  BY <2>5
<1>4. after = step(after)
  <2>. HIDE DEF step
  <2>. QED  BY <1>3
<1>. HIDE DEF after
<1>5. after[0] = Acc0(n) /\ \A i \in 1 .. m : after[i] = BookEntry(after[i - 1], ledger[i])
  BY <1>1, <1>4
<1>6. 0 \in T
  BY <1>0, <1>5
<1>7. ASSUME NEW i \in Nat, i \in T PROVE i + 1 \in T
  <2>. SUFFICES ASSUME i + 1 <= m PROVE after[i + 1] \in Accs
    OBVIOUS
  <2>1. i + 1 \in 1 .. m /\ (i + 1) - 1 = i /\ after[i] \in Accs
    BY <1>1, <1>7
  <2>2. after[i + 1] = BookEntry(after[i], ledger[i + 1])
    BY <1>5, <2>1
  <2>. QED  BY <1>1, <2>1, <2>2, BookEntryTyped
<1>8. Nat \subseteq T
  <2>. HIDE DEF T
  <2>. QED  BY <1>6, <1>7, Inductive
<1>9. \A i \in 0 .. m : after[i] \in Accs
  BY <1>1, <1>8
<1>10. after \in [0 .. m -> Accs]
  <2>1. DOMAIN after = 0 .. m /\ after = [i \in DOMAIN after |-> after[i]]
    BY <1>4
  <2>. QED  BY <1>9, <2>1
<1>. QED  BY <1>2, <1>5, <1>10 DEF m

\* What consume_played leaves is a ledger.
LEMMA ConsumeTyped ==
    ASSUME NEW ledger \in Seq(Entries), NEW n \in Nat
    PROVE  ConsumePlayed(ledger, n) \in Accs
<1>1. PICK f \in [0 .. Len(ledger) -> Accs] : ConsumePlayed(ledger, n) = f[Len(ledger)]
  BY ConsumeRuns
<1>2. Len(ledger) \in 0 .. Len(ledger)
  OBVIOUS
<1>. QED  BY <1>1, <1>2

-----------------------------------------------------------------------------
(* The invariant of the audio. *)

Chunks == [reply : ReplyIds, units : Nat]
Buffers == [queue : Seq(Chunks), speaking : BOOLEAN, producing : BOOLEAN, held : BOOLEAN,
            carry : Audio, generation : Nat, ledger : Seq(Entries), flushed : Seq(ReplyIds)]
Drains == [pc : DrainPcs, gen : Nat, start_emitted : BOOLEAN, played_any : BOOLEAN,
           carry : Audio, frames : Seq(Audio), tail : BOOLEAN]
Jobs == [pc : JobPcs, reply : 0 .. Replies, epoch : Nat, gen : Nat, failure_gen : Nat,
         chunks : Nat, queued_any : BOOLEAN, discarded : BOOLEAN, saw_speaking : BOOLEAN,
         expired : BOOLEAN]

BooksTyped ==
    /\ tally.booked \in [ReplyIds -> Nat] /\ tally.written \in [ReplyIds -> Nat]
    /\ tally.audible \subseteq ReplyIds /\ tally.stale \subseteq ReplyIds
    /\ tally.late \in Nat
Typed ==
    /\ buf \in Buffers /\ drain \in Drains /\ job \in Jobs
    /\ tts_drain_wake \in BOOLEAN /\ tts_playback_failure_gen \in Nat /\ tts_synthesis_epoch \in Nat
    /\ BooksTyped

\* Where the drain has frames in hand, and where a carry may be.
WithFrame == {"emit_start", "check", "write", "book", "pace"}
NoCarry == {"idle", "read_speaking", "take_carry", "settle", "settle_book", "close", "stop"}
DrainShape(b, d) ==
    /\ d.gen <= b.generation
    /\ Len(d.carry) < FrameUnits /\ Len(b.carry) < FrameUnits
    /\ FramesOk(d.frames)
    /\ d.pc \in WithFrame => d.frames # <<>>
    /\ d.frames # <<>> => d.pc \in WithFrame \union {"frame"}
    /\ d.pc \in NoCarry => d.carry = <<>>
    /\ d.pc \notin NoCarry => b.carry = <<>>
JobShape == job.gen <= buf.generation /\ (job.pc # "idle" => job.reply \in ReplyIds)

\* What a flush cut off is not queued again: no job pushes for a reply of an
\* earlier generation.
Fresh ==
    /\ \A r \in tally.audible \union tally.stale :
         r <= job.reply /\ (job.pc = "taken" => r < job.reply)
    /\ Producing /\ job.gen = buf.generation => job.reply \notin tally.stale
    /\ \A i \in DOMAIN buf.queue : buf.queue[i].reply \notin tally.stale

\* The units between the queue's end and the track, and those of them that can
\* still reach it: a pass of an earlier generation writes at most the frame it
\* has checked, and may leave what it carries to the next.
Pipe(b, d, R) ==
    UnitsFramed(Unwritten(d), R) + UnitsOf(d.carry, R) + UnitsOf(b.carry, R) + UnitsQueued(b.queue, R)
InReach(b, d, R) ==
    UnitsOf(b.carry, R) +
      IF d.gen = b.generation THEN UnitsOf(d.carry, R) + UnitsFramed(Unwritten(d), R)
      ELSE IF d.pc = "write" THEN UnitsOf(Head(d.frames), R)
      ELSE IF d.pc \in {"book", "pace"} THEN 0
      ELSE UnitsOf(d.carry, R)
StaleInReach ==
    tally.late + InReach(buf, drain, tally.stale) <= FrameUnits * buf.generation

AudioInv ==
    /\ SpeakInv /\ Typed /\ DrainShape(buf, drain) /\ JobShape
    /\ NoAudioLost /\ Fresh /\ StaleInReach

\* The units of a queue are a natural number.
LEMMA QueuedNat ==
    ASSUME NEW queue \in Seq(Chunks), NEW R
    PROVE  /\ [i \in DOMAIN queue |-> UnitsOf(Units(queue[i]), R)] \in Seq(Nat)
           /\ UnitsQueued(queue, R) \in Nat
<1>. DEFINE w == [i \in DOMAIN queue |-> UnitsOf(Units(queue[i]), R)]
            n == Len(queue)
<1>1. DOMAIN queue = 1 .. n /\ n \in Nat /\ \A i \in 1 .. n : queue[i] \in Chunks
  OBVIOUS
<1>2. \A c \in Chunks : UnitsOf(Units(c), R) \in Nat
  BY UnitsOfChunk, UnitsNat DEF Chunks
<1>3. w \in [1 .. n -> Nat]
  BY <1>1, <1>2
<1>. HIDE DEF n
<1>4. w \in Seq(Nat)
  <2>. HIDE DEF w
  <2>. QED  BY <1>1, <1>3
<1>. QED  BY <1>4, TotalNat DEF UnitsQueued

\* The units of a list of frames are a natural number.
LEMMA FramedNat ==
    ASSUME NEW frames \in Seq(Audio), NEW R
    PROVE  /\ [i \in DOMAIN frames |-> UnitsOf(frames[i], R)] \in Seq(Nat)
           /\ UnitsFramed(frames, R) \in Nat
<1>. DEFINE w == [i \in DOMAIN frames |-> UnitsOf(frames[i], R)]
            n == Len(frames)
<1>1. DOMAIN frames = 1 .. n /\ n \in Nat /\ \A i \in 1 .. n : frames[i] \in Audio
  OBVIOUS
<1>3. w \in [1 .. n -> Nat]
  BY <1>1, UnitsNat
<1>. HIDE DEF n
<1>4. w \in Seq(Nat)
  <2>. HIDE DEF w
  <2>. QED  BY <1>1, <1>3
<1>. QED  BY <1>4, TotalNat DEF UnitsFramed

\* An empty queue and an empty list of frames have no units.
LEMMA NothingFramed == \A R : UnitsFramed(<<>>, R) = 0 /\ UnitsQueued(<<>>, R) = 0
<1>. TAKE R
<1>1. [i \in DOMAIN <<>> |-> UnitsOf(<<>>[i], R)] = <<>>
  OBVIOUS
<1>2. [i \in DOMAIN <<>> |-> UnitsOf(Units(<<>>[i]), R)] = <<>>
  OBVIOUS
<1>. QED  BY <1>1, <1>2, TotalEmpty DEF UnitsFramed, UnitsQueued

\* The tail of a function on 1 .. n.
LEMMA TailOf ==
    ASSUME NEW w \in Seq(Nat), NEW n \in Nat, DOMAIN w = 1 .. n
    PROVE  /\ Len(w) = n
           /\ n > 0 => w # <<>> /\ Tail(w) = [i \in 1 .. (n - 1) |-> w[i + 1]]
<1>1. Len(w) = n
  <2>1. Len(w) \in Nat /\ 1 .. Len(w) = 1 .. n
    BY LenProperties
  <2>. QED  BY <2>1
<1>2. ASSUME n > 0 PROVE w # <<>> /\ Tail(w) = [i \in 1 .. (n - 1) |-> w[i + 1]]
  <2>. DEFINE t == Tail(w)
  <2>1. w # <<>>
    BY <1>1, <1>2
  <2>2. t \in Seq(Nat) /\ Len(t) = n - 1 /\ \A i \in 1 .. (n - 1) : t[i] = w[i + 1]
    BY <1>1, <2>1, HeadTailProperties
  <2>3. t = [i \in 1 .. Len(t) |-> t[i]]
    <3>. HIDE DEF t
    <3>. QED  BY <2>2
  <2>. HIDE DEF t
  <2>4. t = [i \in 1 .. (n - 1) |-> w[i + 1]]
    BY <2>2, <2>3
  <2>. QED  BY <2>1, <2>4 DEF t
<1>. QED  BY <1>1, <1>2

\* The frame in hand and those after it.
LEMMA FramedTail ==
    ASSUME NEW frames \in Seq(Audio), frames # <<>>, NEW R
    PROVE  /\ Head(frames) \in Audio /\ Tail(frames) \in Seq(Audio)
           /\ UnitsFramed(frames, R) = UnitsOf(Head(frames), R) + UnitsFramed(Tail(frames), R)
<1>. DEFINE w == [i \in DOMAIN frames |-> UnitsOf(frames[i], R)]
            n == Len(frames)
            rest == Tail(frames)
            v == [i \in DOMAIN rest |-> UnitsOf(rest[i], R)]
<1>1. /\ DOMAIN frames = 1 .. n /\ n \in Nat /\ n > 0
      /\ rest \in Seq(Audio) /\ Len(rest) = n - 1 /\ DOMAIN rest = 1 .. (n - 1)
      /\ \A i \in 1 .. (n - 1) : rest[i] = frames[i + 1]
      /\ Head(frames) = frames[1] /\ Head(frames) \in Audio
  BY HeadTailProperties
<1>2. w \in Seq(Nat) /\ v \in Seq(Nat)
  BY <1>1, FramedNat
<1>3. Len(w) = n /\ Len(v) = n - 1 /\ w # <<>>
  <2>1. DOMAIN w = 1 .. n /\ DOMAIN v = 1 .. (n - 1) /\ n - 1 \in Nat
    BY <1>1
  <2>. HIDE DEF w, v, n, rest
  <2>. QED  BY <1>1, <1>2, <2>1, TailOf
<1>4. w[1] = UnitsOf(Head(frames), R)
  BY <1>1
<1>5. Tail(w) = v
  <2>1. \A i \in 1 .. (n - 1) : w[i + 1] = v[i]
    <3>. TAKE i \in 1 .. (n - 1)
    <3>1. i + 1 \in 1 .. n
      BY <1>1
    <3>. QED  BY <1>1, <3>1
  <2>2. v = [i \in 1 .. (n - 1) |-> v[i]]
    BY <1>1
  <2>. HIDE DEF w, v
  <2>3. Tail(w) = [i \in 1 .. (n - 1) |-> w[i + 1]]
    <3>1. DOMAIN w = 1 .. n
      BY <1>1 DEF w
    <3>. HIDE DEF n, rest
    <3>. QED  BY <1>1, <1>2, <3>1, TailOf
  <2>. QED  BY <2>1, <2>2, <2>3
<1>6. Total(w) = w[1] + Total(Tail(w))
  <2>. HIDE DEF w
  <2>. QED  BY <1>2, <1>3, TotalTail
<1>. QED  BY <1>1, <1>4, <1>5, <1>6 DEF UnitsFramed

\* The first chunk of the queue, and one more at its end.
LEMMA QueuedTail ==
    ASSUME NEW queue \in Seq(Chunks), queue # <<>>, NEW R
    PROVE  /\ Head(queue) \in Chunks /\ Tail(queue) \in Seq(Chunks)
           /\ UnitsQueued(queue, R) = UnitsOf(Units(Head(queue)), R) + UnitsQueued(Tail(queue), R)
<1>. DEFINE w == [i \in DOMAIN queue |-> UnitsOf(Units(queue[i]), R)]
            n == Len(queue)
            rest == Tail(queue)
            v == [i \in DOMAIN rest |-> UnitsOf(Units(rest[i]), R)]
<1>1. /\ DOMAIN queue = 1 .. n /\ n \in Nat /\ n > 0
      /\ rest \in Seq(Chunks) /\ Len(rest) = n - 1 /\ DOMAIN rest = 1 .. (n - 1)
      /\ \A i \in 1 .. (n - 1) : rest[i] = queue[i + 1]
      /\ Head(queue) = queue[1] /\ Head(queue) \in Chunks
  BY HeadTailProperties
<1>2. w \in Seq(Nat) /\ v \in Seq(Nat)
  BY <1>1, QueuedNat
<1>3. Len(w) = n /\ Len(v) = n - 1 /\ w # <<>>
  <2>1. DOMAIN w = 1 .. n /\ DOMAIN v = 1 .. (n - 1) /\ n - 1 \in Nat
    BY <1>1
  <2>. HIDE DEF w, v, n, rest
  <2>. QED  BY <1>1, <1>2, <2>1, TailOf
<1>4. w[1] = UnitsOf(Units(Head(queue)), R)
  BY <1>1
<1>5. Tail(w) = v
  <2>1. \A i \in 1 .. (n - 1) : w[i + 1] = v[i]
    <3>. TAKE i \in 1 .. (n - 1)
    <3>1. i + 1 \in 1 .. n
      BY <1>1
    <3>. QED  BY <1>1, <3>1
  <2>2. v = [i \in 1 .. (n - 1) |-> v[i]]
    BY <1>1
  <2>. HIDE DEF w, v
  <2>3. Tail(w) = [i \in 1 .. (n - 1) |-> w[i + 1]]
    <3>1. DOMAIN w = 1 .. n
      BY <1>1 DEF w
    <3>. HIDE DEF n, rest
    <3>. QED  BY <1>1, <1>2, <3>1, TailOf
  <2>. QED  BY <2>1, <2>2, <2>3
<1>6. Total(w) = w[1] + Total(Tail(w))
  <2>. HIDE DEF w
  <2>. QED  BY <1>2, <1>3, TotalTail
<1>. QED  BY <1>1, <1>4, <1>5, <1>6 DEF UnitsQueued

\* A queued chunk adds its units.
LEMMA QueuedAppend ==
    ASSUME NEW queue \in Seq(Chunks), NEW chunk \in Chunks, NEW R
    PROVE  /\ Append(queue, chunk) \in Seq(Chunks)
           /\ UnitsQueued(Append(queue, chunk), R) = UnitsQueued(queue, R) + UnitsOf(Units(chunk), R)
<1>. DEFINE w == [i \in DOMAIN queue |-> UnitsOf(Units(queue[i]), R)]
            n == Len(queue)
            more == Append(queue, chunk)
            v == [i \in DOMAIN more |-> UnitsOf(Units(more[i]), R)]
            x == UnitsOf(Units(chunk), R)
<1>1. /\ DOMAIN queue = 1 .. n /\ n \in Nat
      /\ more \in Seq(Chunks) /\ DOMAIN more = 1 .. (n + 1)
      /\ \A i \in 1 .. n : more[i] = queue[i]
      /\ more[n + 1] = chunk
  OBVIOUS
<1>2. w \in Seq(Nat) /\ v \in Seq(Nat) /\ x \in Nat
  BY <1>1, QueuedNat, UnitsOfChunk, UnitsNat DEF Chunks
<1>3. DOMAIN w = 1 .. n /\ DOMAIN v = 1 .. (n + 1)
  BY <1>1
<1>4. \A i \in 1 .. n : v[i] = w[i]
  <2>. TAKE i \in 1 .. n
  <2>1. i \in 1 .. (n + 1)
    BY <1>1
  <2>. QED  BY <1>1, <2>1
<1>5. v[n + 1] = x
  <2>1. n + 1 \in 1 .. (n + 1)
    BY <1>1
  <2>. QED  BY <1>1, <2>1
<1>6. v = Append(w, x)
  <2>. HIDE DEF w, v, x, more, n
  <2>. QED  BY <1>1, <1>2, <1>3, <1>4, <1>5
<1>7. Total(v) = Total(w) + x
  <2>. HIDE DEF w, x, v
  <2>. QED  BY <1>2, <1>6, TotalAppend
<1>. QED  BY <1>1, <1>7 DEF UnitsQueued

\* The invariant holds at the start.
LEMMA AudioInit == Init => AudioInv
<1>. SUFFICES ASSUME Init PROVE AudioInv
  OBVIOUS
<1>0. <<>> \in Audio /\ <<>> \in Seq(Chunks) /\ <<>> \in Seq(Entries) /\ <<>> \in Seq(Audio)
      /\ <<>> \in Seq(ReplyIds) /\ Len(<<>>) = 0 /\ FrameUnits \in Nat /\ FrameUnits > 0
  BY FrameAssumption DEF Audio
<1>1. buf = Buffer0 /\ drain = Drain0 /\ job = Job0 /\ tally = Tally0
  BY DEF Init
<1>2. SpeakInv
  BY SpeakInit
<1>3. Typed
  <2>1. Buffer0 \in Buffers
    BY <1>0 DEF Buffer0, Buffers
  <2>2. Drain0 \in Drains
    BY <1>0 DEF Drain0, Drains, DrainPcs
  <2>3. Job0 \in Jobs
    BY PlaybackAssumption DEF Job0, Jobs, JobPcs
  <2>4. BooksTyped
    BY <1>1 DEF BooksTyped, Tally0, NoUnits
  <2>. QED  BY <1>1, <2>1, <2>2, <2>3, <2>4 DEF Init, Typed
<1>4. DrainShape(buf, drain)
  BY <1>0, <1>1 DEF DrainShape, Buffer0, Drain0, WithFrame, NoCarry, FramesOk
<1>5. JobShape /\ Fresh
  BY <1>1 DEF JobShape, Fresh, Job0, Buffer0, Producing, Tally0
<1>6. Unwritten(drain) = <<>> /\ drain.carry = <<>> /\ buf.carry = <<>> /\ buf.queue = <<>>
      /\ drain.gen = buf.generation /\ buf.generation = 0 /\ tally.late = 0
  BY <1>1 DEF Unwritten, Drain0, Buffer0, Tally0
<1>7. NoAudioLost
  BY <1>1, <1>6, NothingFramed, UnitsEmpty DEF NoAudioLost, Tally0, NoUnits
<1>8. StaleInReach
  BY <1>0, <1>6, NothingFramed, UnitsEmpty DEF StaleInReach, InReach
<1>. QED  BY <1>2, <1>3, <1>4, <1>5, <1>7, <1>8 DEF AudioInv

-----------------------------------------------------------------------------
(* The steps of the drain: what a step may do with the audio. *)

\* The parts of Pipe and InReach are numbers.
LEMMA PipeNat ==
    ASSUME NEW b \in Buffers, NEW d \in Drains, DrainShape(b, d), NEW R
    PROVE  /\ Unwritten(d) \in Seq(Audio)
           /\ UnitsFramed(Unwritten(d), R) \in Nat /\ UnitsOf(d.carry, R) \in Nat
           /\ UnitsOf(b.carry, R) \in Nat /\ UnitsQueued(b.queue, R) \in Nat
           /\ Pipe(b, d, R) \in Nat /\ InReach(b, d, R) \in Nat
           /\ d.pc \in WithFrame => UnitsOf(Head(d.frames), R) \in Nat
<1>1. /\ d.carry \in Audio /\ b.carry \in Audio /\ b.queue \in Seq(Chunks) /\ d.frames \in Seq(Audio)
      /\ d.pc \in WithFrame => d.frames # <<>>
  BY DEF Buffers, Drains, DrainShape
<1>2. d.frames # <<>> => Head(d.frames) \in Audio /\ Tail(d.frames) \in Seq(Audio)
  BY <1>1, FramedTail
<1>3. Unwritten(d) \in Seq(Audio)
  BY <1>1, <1>2 DEF Unwritten, WithFrame
<1>4. /\ UnitsFramed(Unwritten(d), R) \in Nat /\ UnitsOf(d.carry, R) \in Nat
      /\ UnitsOf(b.carry, R) \in Nat /\ UnitsQueued(b.queue, R) \in Nat
      /\ d.pc \in WithFrame => UnitsOf(Head(d.frames), R) \in Nat
  BY <1>1, <1>2, <1>3, FramedNat, QueuedNat, UnitsNat
<1>5. Pipe(b, d, R) \in Nat
  BY <1>4 DEF Pipe
<1>6. InReach(b, d, R) \in Nat
  BY <1>4 DEF InReach, WithFrame
<1>. QED  BY <1>3, <1>4, <1>5, <1>6

\* Audio moves towards the track: none is lost unless the pass was cut, and
\* what can still reach the track does not grow.
Flow ==
    /\ UNCHANGED <<job, tally.booked, tally.audible, tally.stale, tts_playback_failure_gen,
                   tts_synthesis_epoch>>
    /\ tts_drain_wake' \in BOOLEAN
    /\ tally'.written \in [ReplyIds -> Nat] /\ tally'.late \in Nat
    /\ buf' \in Buffers /\ drain' \in Drains /\ DrainShape(buf', drain')
    /\ buf'.generation = buf.generation
    /\ \A i \in DOMAIN buf'.queue : \E j \in DOMAIN buf.queue : buf'.queue[i] = buf.queue[j]
    /\ Undisturbed' =>
         /\ Undisturbed
         /\ drain.gen = buf.generation =>
              \A r \in ReplyIds : tally'.written[r] + Pipe(buf', drain', {r})
                                    = tally.written[r] + Pipe(buf, drain, {r})
    /\ tally'.late + InReach(buf', drain', tally.stale) <= tally.late + InReach(buf, drain, tally.stale)

\* A step that only moves audio keeps the invariant.
LEMMA FlowKeeps ==
    ASSUME AudioInv, SpeakInv', Flow
    PROVE  AudioInv'
<1>. USE DEF AudioInv
<1>1. Typed'
  BY DEF Typed, BooksTyped, Flow
<1>2. JobShape'
  BY DEF JobShape, Flow
<1>3. Fresh'
  <2>1. \A i \in DOMAIN buf'.queue : buf'.queue[i].reply \notin tally'.stale
    BY DEF Fresh, Flow
  <2>. QED  BY <2>1 DEF Fresh, Flow, Producing
<1>4. NoAudioLost'
  <2>1. SUFFICES ASSUME Undisturbed', NEW r \in ReplyIds
                 PROVE  tally'.booked[r] = tally'.written[r] + UnitsFramed(Unwritten(drain'), {r})
                            + UnitsOf(drain'.carry, {r}) + UnitsOf(buf'.carry, {r})
                            + UnitsQueued(buf'.queue, {r})
    BY DEF NoAudioLost
  <2>2. Undisturbed /\ drain.gen = buf.generation
    <3>1. Undisturbed
      BY <2>1 DEF Flow
    <3>2. drain.gen \in Nat /\ drain.gen <= buf.generation /\ buf.generation = 0
      BY <3>1 DEF Typed, Drains, DrainShape, Undisturbed
    <3>. QED  BY <3>1, <3>2
  <2>3. tally'.written[r] + Pipe(buf', drain', {r}) = tally.written[r] + Pipe(buf, drain, {r})
    BY <2>1, <2>2 DEF Flow
  <2>4. tally.booked[r] = tally.written[r] + UnitsFramed(Unwritten(drain), {r})
                            + UnitsOf(drain.carry, {r}) + UnitsOf(buf.carry, {r})
                            + UnitsQueued(buf.queue, {r})
    BY <2>2 DEF NoAudioLost
  <2>5. tally.written[r] \in Nat /\ tally'.written[r] \in Nat /\ tally'.booked[r] = tally.booked[r]
    BY DEF Typed, BooksTyped, Flow
  <2>6. /\ UnitsFramed(Unwritten(drain), {r}) \in Nat /\ UnitsOf(drain.carry, {r}) \in Nat
        /\ UnitsOf(buf.carry, {r}) \in Nat /\ UnitsQueued(buf.queue, {r}) \in Nat
    BY PipeNat DEF Typed
  <2>7. /\ UnitsFramed(Unwritten(drain'), {r}) \in Nat /\ UnitsOf(drain'.carry, {r}) \in Nat
        /\ UnitsOf(buf'.carry, {r}) \in Nat /\ UnitsQueued(buf'.queue, {r}) \in Nat
    BY PipeNat DEF Flow
  <2>. QED  BY <2>3, <2>4, <2>5, <2>6, <2>7 DEF Pipe
<1>5. StaleInReach'
  <2>1. tally.late \in Nat /\ tally'.late \in Nat
    BY DEF Typed, BooksTyped, Flow
  <2>2. InReach(buf, drain, tally.stale) \in Nat /\ InReach(buf', drain', tally.stale) \in Nat
    BY PipeNat DEF Typed, Flow
  <2>3. FrameUnits * buf.generation \in Nat
    BY FrameAssumption, FrameTimes DEF Typed, Buffers
  <2>4. tally'.late + InReach(buf', drain', tally.stale) <= FrameUnits * buf.generation
    <3>. DEFINE x == InReach(buf, drain, tally.stale)
                y == InReach(buf', drain', tally.stale)
                z == FrameUnits * buf.generation
    <3>1. x \in Nat /\ y \in Nat /\ z \in Nat
      BY <2>2, <2>3
    <3>2. tally.late + x <= z /\ tally'.late + y <= tally.late + x
      BY DEF StaleInReach, Flow
    <3>. HIDE DEF x, y, z
    <3>3. tally'.late + y <= z
      BY <2>1, <3>1, <3>2
    <3>. QED  BY <3>3 DEF y, z
  <2>5. tally'.stale = tally.stale /\ buf'.generation = buf.generation
    BY DEF Flow
  <2>. QED  BY <2>4, <2>5 DEF StaleInReach
<1>. QED  BY <1>1, <1>2, <1>3, <1>4, <1>5 DEF Flow

\* What every step of the drain below has in common.
DrainOnly ==
    /\ UNCHANGED <<job, tts_playback_failure_gen, tts_synthesis_epoch>>
    /\ tts_drain_wake' \in BOOLEAN
    /\ buf' \in Buffers /\ drain' \in Drains /\ DrainShape(buf', drain')
    /\ buf'.generation = buf.generation
    /\ Undisturbed' => Undisturbed
NoneBooked ==
    UNCHANGED <<tally.booked, tally.written, tally.audible, tally.stale, tally.late>>

\* Without a frame in hand: the carry may change hands.
LEMMA FlowBetweenFrames ==
    ASSUME AudioInv, DrainOnly, NoneBooked, buf'.queue = buf.queue,
           drain.frames = <<>>, drain'.frames = <<>>,
           drain.pc \notin WithFrame, drain'.pc \notin WithFrame,
           \/ drain'.carry = drain.carry /\ buf'.carry = buf.carry
           \/ drain'.carry = buf.carry /\ buf'.carry = drain.carry
    PROVE  Flow
<1>1. Unwritten(drain) = <<>> /\ Unwritten(drain') = <<>>
  BY DEF Unwritten, WithFrame
<1>2. ASSUME NEW R
      PROVE  /\ Pipe(buf', drain', R) = Pipe(buf, drain, R)
             /\ InReach(buf', drain', R) = InReach(buf, drain, R)
  <2>1. UnitsFramed(<<>>, R) = 0
    BY NothingFramed
  <2>2. /\ UnitsOf(drain.carry, R) \in Nat /\ UnitsOf(buf.carry, R) \in Nat
        /\ UnitsQueued(buf.queue, R) \in Nat
    BY PipeNat DEF AudioInv, Typed
  <2>3. UnitsOf(drain'.carry, R) + UnitsOf(buf'.carry, R) = UnitsOf(drain.carry, R) + UnitsOf(buf.carry, R)
        /\ UnitsOf(drain'.carry, R) \in Nat /\ UnitsOf(buf'.carry, R) \in Nat
    BY <2>2
  <2>4. Pipe(buf', drain', R) = Pipe(buf, drain, R)
    BY <1>1, <2>1, <2>2, <2>3 DEF Pipe
  <2>5. InReach(buf, drain, R) = UnitsOf(buf.carry, R) + UnitsOf(drain.carry, R)
    BY <1>1, <2>1, <2>2 DEF InReach, WithFrame
  <2>6. InReach(buf', drain', R) = UnitsOf(buf'.carry, R) + UnitsOf(drain'.carry, R)
    BY <1>1, <2>1, <2>3 DEF InReach, WithFrame
  <2>. QED  BY <2>2, <2>3, <2>4, <2>5, <2>6
<1>3. tally.late \in Nat /\ InReach(buf, drain, tally.stale) \in Nat /\ tally.written \in [ReplyIds -> Nat]
  BY PipeNat DEF AudioInv, Typed, BooksTyped
<1>4. tally'.late + InReach(buf', drain', tally.stale) <= tally.late + InReach(buf, drain, tally.stale)
  BY <1>2, <1>3 DEF NoneBooked
<1>. QED  BY <1>2, <1>3, <1>4 DEF DrainOnly, NoneBooked, Flow

\* With a frame in hand: it stays in hand, or was just written.
LEMMA FlowWithFrame ==
    ASSUME AudioInv, DrainOnly, NoneBooked, buf'.queue = buf.queue, buf'.carry = buf.carry,
           drain'.carry = drain.carry, drain'.gen = drain.gen,
           Unwritten(drain') = Unwritten(drain),
           \/ drain.gen = buf.generation
           \/ drain.pc \notin {"write", "book", "pace"} /\ drain'.pc \notin {"write", "book", "pace"}
           \/ drain.pc = "book" /\ drain'.pc = "pace"
    PROVE  Flow
<1>1. ASSUME NEW R
      PROVE  /\ Pipe(buf', drain', R) = Pipe(buf, drain, R)
             /\ InReach(buf', drain', R) = InReach(buf, drain, R)
  <2>1. Pipe(buf', drain', R) = Pipe(buf, drain, R)
    BY DEF Pipe
  <2>2. InReach(buf', drain', R) = InReach(buf, drain, R)
    BY DEF InReach, DrainOnly
  <2>. QED  BY <2>1, <2>2
<1>2. tally.late \in Nat /\ InReach(buf, drain, tally.stale) \in Nat /\ tally.written \in [ReplyIds -> Nat]
  BY PipeNat DEF AudioInv, Typed, BooksTyped
<1>3. tally'.late + InReach(buf', drain', tally.stale) <= tally.late + InReach(buf, drain, tally.stale)
  BY <1>1, <1>2 DEF NoneBooked
<1>. QED  BY <1>1, <1>2, <1>3 DEF DrainOnly, NoneBooked, Flow

\* A pass that was cut drops what it has.
LEMMA FlowDrops ==
    ASSUME AudioInv, DrainOnly, NoneBooked, buf'.queue = buf.queue, buf'.carry = buf.carry,
           drain'.carry = <<>>, drain'.frames = <<>>, drain'.pc \notin WithFrame,
           ~Undisturbed' \/ drain.gen # buf.generation
    PROVE  Flow
<1>1. Unwritten(drain') = <<>>
  BY DEF Unwritten, WithFrame
<1>2. ASSUME NEW R
      PROVE  InReach(buf', drain', R) <= InReach(buf, drain, R)
             /\ InReach(buf', drain', R) \in Nat /\ InReach(buf, drain, R) \in Nat
  <2>1. InReach(buf', drain', R) = UnitsOf(buf.carry, R)
    <3>1. UnitsFramed(<<>>, R) = 0 /\ UnitsOf(<<>>, R) = 0 /\ UnitsOf(buf.carry, R) \in Nat
      BY NothingFramed, UnitsEmpty, PipeNat DEF AudioInv, Typed
    <3>. QED  BY <1>1, <3>1 DEF InReach, WithFrame
  <2>2. InReach(buf, drain, R) \in Nat /\ UnitsOf(buf.carry, R) \in Nat
        /\ UnitsOf(drain.carry, R) \in Nat /\ UnitsFramed(Unwritten(drain), R) \in Nat
        /\ (drain.pc \in WithFrame => UnitsOf(Head(drain.frames), R) \in Nat)
    BY PipeNat DEF AudioInv, Typed
  <2>3. InReach(buf, drain, R) >= UnitsOf(buf.carry, R)
    BY <2>2 DEF InReach, WithFrame
  <2>. QED  BY <2>1, <2>2, <2>3
<1>3. tally.late \in Nat /\ tally.written \in [ReplyIds -> Nat]
  BY DEF AudioInv, Typed, BooksTyped
<1>4. tally'.late + InReach(buf', drain', tally.stale) <= tally.late + InReach(buf, drain, tally.stale)
  BY <1>2, <1>3 DEF NoneBooked
<1>. QED  BY <1>2, <1>3, <1>4 DEF DrainOnly, NoneBooked, Flow

\* A move inside a pass.
LEMMA DrainMoved ==
    ASSUME AudioInv, NEW pc \in DrainPcs, drain' = [drain EXCEPT !.pc = pc]
    PROVE  /\ drain' \in Drains /\ drain'.pc = pc
           /\ drain'.gen = drain.gen /\ drain'.carry = drain.carry /\ drain'.frames = drain.frames
<1>1. drain \in Drains
  BY DEF AudioInv, Typed
<1>. QED  BY <1>1 DEF Drains

\* Before and after a pass.
Rests(d, pc, gen) ==
    d \in Drains /\ d.pc = pc /\ d.gen = gen /\ d.carry = <<>> /\ d.frames = <<>>
\* The states of the drain at rest are states of the drain.
LEMMA DrainRests ==
    /\ Rests(Drain0, "idle", 0)
    /\ Rests([Drain0 EXCEPT !.pc = "stop"], "stop", 0)
    /\ \A g \in Nat : Rests([Drain0 EXCEPT !.pc = "read_speaking", !.gen = g], "read_speaking", g)
<1>1. <<>> \in Audio /\ <<>> \in Seq(Audio)
  BY DEF Audio
<1>2. Rests(Drain0, "idle", 0)
  BY <1>1 DEF Drains, Drain0, DrainPcs, Rests
<1>3. Rests([Drain0 EXCEPT !.pc = "stop"], "stop", 0)
  BY <1>1 DEF Drains, Drain0, DrainPcs, Rests
<1>4. ASSUME NEW g \in Nat PROVE Rests([Drain0 EXCEPT !.pc = "read_speaking", !.gen = g], "read_speaking", g)
  <2>. DEFINE d == [Drain0 EXCEPT !.pc = "read_speaking"]
  <2>1. d \in Drains /\ d.pc = "read_speaking" /\ d.carry = <<>> /\ d.frames = <<>>
    BY <1>1 DEF Drains, Drain0, DrainPcs
  <2>2. [Drain0 EXCEPT !.pc = "read_speaking", !.gen = g] = [d EXCEPT !.gen = g]
    OBVIOUS
  <2>. HIDE DEF d
  <2>3. Rests([d EXCEPT !.gen = g], "read_speaking", g)
    BY <2>1 DEF Drains, Rests
  <2>. QED  BY <2>2, <2>3
<1>. QED  BY <1>2, <1>3, <1>4

\* Nothing a step of the drain does but to abort its playback starts a flush.
LEMMA StaysUndisturbed ==
    ASSUME AudioInv, buf'.generation = buf.generation,
           \/ plan' = plan
           \/ plan["drain"] = <<>> /\ \E p : plan' = [plan EXCEPT !["drain"] = p]
    PROVE  Undisturbed' => Undisturbed
<1>1. CASE plan' = plan
  BY <1>1 DEF Undisturbed
<1>2. CASE plan["drain"] = <<>> /\ \E p : plan' = [plan EXCEPT !["drain"] = p]
  <2>. SUFFICES ASSUME Undisturbed', NEW a \in Actors, NEW i \in DOMAIN plan[a]
                PROVE  plan[a][i] # "flush"
    BY DEF Undisturbed
  <2>1. a # "drain"
    BY <1>2
  <2>2. plan \in [Actors -> Seq(Steps)]
    BY DEF AudioInv, SpeakInv, Shape
  <2>3. plan'[a] = plan[a]
    BY <1>2, <2>1, <2>2
  <2>. QED  BY <2>3 DEF Undisturbed
<1>. QED  BY <1>1, <1>2

\* The steps between two chunks that leave the audio where it is.
LEMMA FlowIdle ==
    ASSUME AudioInv,
           DrainReadSpeaking \/ DrainDry \/ DrainDryGeneration \/ DrainTail \/ DrainSettle
    PROVE  Flow
<1>1. /\ drain.pc \in {"read_speaking", "dry", "dry_generation", "tail", "settle"}
      /\ UNCHANGED <<buf, agent, tts_drain_wake, job, passes, tally>>
  BY DEF DrainReadSpeaking, DrainDry, DrainDryGeneration, DrainTail, DrainSettle
<1>2. /\ drain' \in Drains
      /\ drain'.gen = drain.gen /\ drain'.carry = drain.carry /\ drain'.frames = drain.frames
      /\ drain'.pc \in {"take_carry", "dry_generation", "tail", "pause", "tail_generation",
                        "store", "settle_book", "close"}
      /\ drain'.pc \in NoCarry <=> drain.pc \in NoCarry
  <2>1. CASE DrainReadSpeaking
    <3>1. drain \in Drains /\ agent_speaking \in BOOLEAN
      BY DEF AudioInv, Typed, SpeakInv, Shape
    <3>2. drain' = [[drain EXCEPT !.pc = "take_carry"] EXCEPT !.start_emitted = agent_speaking]
      BY <2>1 DEF DrainReadSpeaking
    <3>. QED  BY <2>1, <3>1, <3>2 DEF DrainReadSpeaking, Drains, DrainPcs, NoCarry
  <2>2. CASE DrainDry
    BY <2>2, DrainMoved DEF DrainDry, DrainGoes, DrainPcs, NoCarry
  <2>3. CASE DrainDryGeneration
    BY <2>3, DrainMoved DEF DrainDryGeneration, DrainGoes, DrainPcs, NoCarry
  <2>4. CASE DrainTail
    BY <2>4, DrainMoved DEF DrainTail, DrainGoes, DrainPcs, NoCarry
  <2>5. CASE DrainSettle
    BY <2>5, DrainMoved DEF DrainSettle, DrainGoes, DrainPcs, NoCarry
  <2>. QED  BY <2>1, <2>2, <2>3, <2>4, <2>5
<1>3. DrainShape(buf, drain) /\ buf \in Buffers /\ tts_drain_wake \in BOOLEAN
  BY DEF AudioInv, Typed
<1>4. drain.pc \notin WithFrame /\ drain'.pc \notin WithFrame /\ drain.frames = <<>>
  BY <1>1, <1>2, <1>3 DEF DrainShape, WithFrame
<1>5. DrainShape(buf', drain')
  BY <1>1, <1>2, <1>3, <1>4 DEF DrainShape
<1>6. DrainOnly /\ NoneBooked
  BY <1>1, <1>2, <1>3, <1>5, StaysUndisturbed DEF DrainOnly, NoneBooked, agent, passes
<1>. QED  BY <1>1, <1>2, <1>4, <1>6, FlowBetweenFrames

\* The start and the end of a pass.
LEMMA FlowEnds ==
    ASSUME AudioInv, DrainBegin \/ DrainClose \/ DrainStopped
    PROVE  Flow
<1>1. drain.pc \in {"idle", "close", "stop"}
  BY DEF DrainBegin, DrainClose, DrainStopped
<1>2. DrainShape(buf, drain) /\ buf \in Buffers /\ tts_drain_wake \in BOOLEAN /\ FrameUnits > 0
      /\ buf.generation \in Nat /\ FrameUnits \in Nat
  BY FrameAssumption DEF AudioInv, Typed, Buffers
<1>3. drain.pc \notin WithFrame /\ drain.frames = <<>> /\ drain.carry = <<>>
  BY <1>1, <1>2 DEF DrainShape, WithFrame, NoCarry
<1>4. /\ buf' \in Buffers /\ buf'.queue = buf.queue /\ buf'.carry = buf.carry
      /\ buf'.generation = buf.generation
  BY <1>2 DEF DrainBegin, DrainClose, DrainStopped, DropHold, Buffers
<1>5. \E pc \in {"idle", "read_speaking", "stop"} : \E g \in {0, buf.generation} :
         Rests(drain', pc, g)
  <2>1. CASE DrainBegin
    BY <1>2, <2>1, DrainRests DEF DrainBegin
  <2>2. CASE DrainClose
    BY <2>2, DrainRests DEF DrainClose, DrainStops
  <2>3. CASE DrainStopped
    BY <2>3, DrainRests DEF DrainStopped
  <2>. QED  BY <2>1, <2>2, <2>3
<1>6. /\ drain' \in Drains
      /\ drain'.pc \in {"idle", "read_speaking", "stop"}
      /\ drain'.carry = <<>> /\ drain'.frames = <<>>
      /\ drain'.gen \in {0, buf.generation}
  BY <1>5 DEF Rests
<1>7. DrainShape(buf', drain')
  BY <1>2, <1>4, <1>6 DEF DrainShape, WithFrame, NoCarry, FramesOk
<1>8. \/ plan' = plan
      \/ plan["drain"] = <<>> /\ \E p : plan' = [plan EXCEPT !["drain"] = p]
  <2>1. CASE DrainBegin \/ DrainStopped
    BY <2>1 DEF DrainBegin, DrainStopped, passes
  <2>2. CASE DrainClose
    <3>1. plan["drain"] = <<>>
      BY <2>2 DEF DrainClose, AudioInv, SpeakInv, PlansStart
    <3>. QED  BY <2>2, <3>1 DEF DrainClose, DrainStops
  <2>. QED  BY <2>1, <2>2
<1>9. /\ UNCHANGED <<job, tts_playback_failure_gen, tts_synthesis_epoch, tally>>
      /\ tts_drain_wake' \in BOOLEAN
  BY <1>2 DEF DrainBegin, DrainClose, DrainStopped, agent
<1>10. DrainOnly /\ NoneBooked
  BY <1>4, <1>6, <1>7, <1>8, <1>9, StaysUndisturbed DEF DrainOnly, NoneBooked
<1>. QED  BY <1>3, <1>4, <1>6, <1>10, FlowBetweenFrames DEF WithFrame

\* The carry is handed over from one pass to the next through the buffer.
LEMMA FlowCarry ==
    ASSUME AudioInv, DrainTakeCarry \/ DrainPause \/ DrainStore
    PROVE  Flow
<1>1. drain.pc \in {"take_carry", "pause", "store"}
  BY DEF DrainTakeCarry, DrainPause, DrainStore
<1>2. DrainShape(buf, drain) /\ buf \in Buffers /\ drain \in Drains /\ tts_drain_wake \in BOOLEAN
      /\ buf.generation \in Nat /\ buf.carry \in Audio /\ drain.carry \in Audio /\ <<>> \in Audio
      /\ FrameUnits > 0 /\ FrameUnits \in Nat
  BY FrameAssumption DEF AudioInv, Typed, Buffers, Drains, Audio
<1>3. drain.pc \notin WithFrame /\ drain.frames = <<>>
  BY <1>1, <1>2 DEF DrainShape, WithFrame, NoCarry
<1>4. /\ buf'.queue = buf.queue /\ buf' \in Buffers /\ buf'.generation = buf.generation
      /\ buf'.carry = drain.carry
  <2>1. CASE DrainTakeCarry
    <3>1. drain.carry = <<>>
      BY <2>1, <1>2 DEF DrainTakeCarry, DrainShape, NoCarry
    <3>. QED  BY <2>1, <1>2, <3>1 DEF DrainTakeCarry, TakeCarry, Buffers
  <2>2. CASE DrainPause \/ DrainStore
    <3>1. buf' = [[buf EXCEPT !.carry = drain.carry] EXCEPT !.held = FALSE]
      BY <2>2 DEF DrainPause, DrainStore, DropHold, StoreCarry
    <3>. QED  BY <1>2, <3>1 DEF Buffers
  <2>. QED  BY <2>1, <2>2
<1>5. /\ drain' \in Drains /\ drain'.carry = buf.carry /\ drain'.frames = <<>>
      /\ \/ drain.pc = "take_carry" /\ drain'.pc = "pop" /\ drain'.gen = drain.gen
         \/ drain.pc = "pause" /\ drain'.pc = "idle" /\ drain'.gen = 0
         \/ drain.pc = "store" /\ drain'.pc = "settle" /\ drain'.gen = drain.gen
  <2>1. CASE DrainTakeCarry
    <3>1. drain' = [[drain EXCEPT !.pc = "pop"] EXCEPT !.carry = buf.carry]
      BY <2>1 DEF DrainTakeCarry
    <3>. QED  BY <2>1, <3>1, <1>2, <1>3 DEF DrainTakeCarry, Drains, DrainPcs
  <2>2. CASE DrainPause
    <3>1. buf.carry = <<>>
      BY <2>2, <1>2 DEF DrainPause, DrainShape, NoCarry
    <3>2. Rests(drain', "idle", 0)
      BY <2>2, DrainRests DEF DrainPause
    <3>. QED  BY <2>2, <3>1, <3>2 DEF DrainPause, Rests
  <2>3. CASE DrainStore
    <3>1. buf.carry = <<>>
      BY <2>3, <1>2 DEF DrainStore, DrainShape, NoCarry
    <3>2. drain' = [[drain EXCEPT !.pc = "settle"] EXCEPT !.carry = <<>>]
      BY <2>3 DEF DrainStore
    <3>. QED  BY <2>3, <3>1, <3>2, <1>2, <1>3 DEF DrainStore, Drains, DrainPcs
  <2>. QED  BY <2>1, <2>2, <2>3
<1>6. /\ drain.pc = "take_carry" => drain.carry = <<>>
      /\ drain.pc # "take_carry" => buf.carry = <<>>
  BY <1>1, <1>2 DEF DrainShape, NoCarry
<1>7. DrainShape(buf', drain')
  <2>1. drain'.pc \notin WithFrame /\ FramesOk(drain'.frames)
    BY <1>2, <1>3, <1>5 DEF DrainShape, WithFrame
  <2>2. drain'.pc \in NoCarry => drain'.carry = <<>>
    BY <1>5, <1>6 DEF NoCarry
  <2>3. drain'.pc \notin NoCarry => buf'.carry = <<>>
    BY <1>4, <1>5, <1>6 DEF NoCarry
  <2>4. drain'.gen <= buf'.generation
    BY <1>2, <1>4, <1>5 DEF DrainShape
  <2>5. Len(drain'.carry) < FrameUnits /\ Len(buf'.carry) < FrameUnits
    BY <1>2, <1>4, <1>5 DEF DrainShape
  <2>. QED  BY <1>5, <2>1, <2>2, <2>3, <2>4, <2>5 DEF DrainShape
<1>8. /\ UNCHANGED <<job, tts_playback_failure_gen, tts_synthesis_epoch, tally, plan>>
      /\ tts_drain_wake' \in BOOLEAN
  BY <1>2 DEF DrainTakeCarry, DrainPause, DrainStore, agent, passes
<1>9. DrainOnly /\ NoneBooked
  BY <1>4, <1>5, <1>7, <1>8, StaysUndisturbed DEF DrainOnly, NoneBooked
<1>10. drain'.pc \notin WithFrame
  BY <1>5 DEF WithFrame
<1>. QED  BY <1>3, <1>4, <1>5, <1>9, <1>10, FlowBetweenFrames

\* A chunk is popped and cut into frames.
LEMMA FlowPop ==
    ASSUME AudioInv, DrainPop
    PROVE  Flow
<1>1. DrainShape(buf, drain) /\ buf \in Buffers /\ drain \in Drains /\ tts_drain_wake \in BOOLEAN
      /\ drain.pc = "pop" /\ buf.queue \in Seq(Chunks)
      /\ FrameUnits \in Nat /\ FrameUnits > 0
  BY FrameAssumption DEF AudioInv, Typed, DrainPop, Buffers
<1>2. drain.frames = <<>> /\ buf.carry = <<>> /\ drain.carry \in Audio
  BY <1>1 DEF DrainShape, WithFrame, NoCarry, Drains
<1>3. /\ UNCHANGED <<job, tts_playback_failure_gen, tts_synthesis_epoch, tally, plan>>
      /\ tts_drain_wake' \in BOOLEAN
  BY <1>1 DEF DrainPop, agent, passes
<1>4. CASE buf.queue = <<>>
  <2>1. /\ buf' \in Buffers /\ buf'.queue = buf.queue /\ buf'.carry = buf.carry
        /\ buf'.generation = buf.generation
    BY <1>1, <1>4 DEF DrainPop, Pop, Buffers
  <2>2. /\ drain' \in Drains /\ drain'.pc = "dry"
        /\ drain'.gen = drain.gen /\ drain'.carry = drain.carry /\ drain'.frames = drain.frames
    BY <1>4, DrainMoved DEF DrainPop, DrainPcs
  <2>3. DrainShape(buf', drain')
    BY <1>1, <1>2, <2>1, <2>2 DEF DrainShape, WithFrame, NoCarry
  <2>4. DrainOnly /\ NoneBooked
    BY <1>3, <2>1, <2>2, <2>3, StaysUndisturbed DEF DrainOnly, NoneBooked
  <2>. QED  BY <1>1, <1>2, <2>1, <2>2, <2>4, FlowBetweenFrames DEF WithFrame
<1>5. CASE buf.queue # <<>>
  <2>. DEFINE chunk == Head(buf.queue)
              more == Units(chunk)
              pcm == drain.carry \o more
              cut == Frames(pcm)
              left == Remainder(pcm)
              next == IF cut = <<>> THEN "pop" ELSE "frame"
  <2>1. chunk \in Chunks /\ Tail(buf.queue) \in Seq(Chunks)
    BY <1>1, <1>5, QueuedTail
  <2>2. more \in Audio /\ pcm \in Audio
    BY <1>2, <2>1, UnitsOfChunk DEF Chunks, Audio
  <2>3. /\ FramesOk(cut) /\ left \in Audio /\ Len(left) < FrameUnits
        /\ \A R : UnitsFramed(cut, R) + UnitsOf(left, R) = UnitsOf(pcm, R)
    BY <2>2, FramesCut
  <2>4. \A R : UnitsOf(pcm, R) = UnitsOf(drain.carry, R) + UnitsOf(more, R)
    BY <1>2, <2>2, UnitsConcat
  <2>5. /\ buf' \in Buffers /\ buf'.queue = Tail(buf.queue) /\ buf'.carry = buf.carry
        /\ buf'.generation = buf.generation
    <3>1. buf' = [[buf EXCEPT !.queue = Tail(buf.queue)] EXCEPT !.held = TRUE]
      BY <1>5 DEF DrainPop, Pop
    <3>. QED  BY <1>1, <2>1, <3>1 DEF Buffers
  <2>6. drain' = [[[drain EXCEPT !.carry = left] EXCEPT !.frames = cut] EXCEPT !.pc = next]
    BY <1>5 DEF DrainPop
  <2>7. \A i \in DOMAIN buf'.queue : \E j \in DOMAIN buf.queue : buf'.queue[i] = buf.queue[j]
    <3>. DEFINE q == buf.queue
    <3>1. /\ q \in Seq(Chunks) /\ q # <<>> /\ buf'.queue = Tail(q)
      BY <1>1, <1>5, <2>5
    <3>. HIDE DEF q
    <3>2. \A i \in DOMAIN Tail(q) : i + 1 \in DOMAIN q /\ Tail(q)[i] = q[i + 1]
      BY <3>1, HeadTailProperties
    <3>3. \A i \in DOMAIN Tail(q) : \E j \in DOMAIN q : Tail(q)[i] = q[j]
      BY <3>2
    <3>. QED  BY <3>1, <3>3 DEF q
  <2>8. more \in Audio /\ \A R : UnitsQueued(buf.queue, R) = UnitsOf(more, R) + UnitsQueued(buf'.queue, R)
    BY <1>1, <1>5, <2>2, <2>5, QueuedTail
  <2>9. UnitsOf(more, tally.stale) = 0
    <3>1. chunk.reply \notin tally.stale
      <4>1. 1 \in DOMAIN buf.queue /\ chunk = buf.queue[1]
        BY <1>1, <1>5
      <4>. QED  BY <4>1 DEF AudioInv, Fresh
    <3>. QED  BY <2>1, <3>1, UnitsOfChunk DEF Chunks
  <2>. HIDE DEF chunk, more, pcm, cut, left
  <2>10. /\ drain' \in Drains /\ drain'.carry = left /\ drain'.frames = cut
         /\ drain'.gen = drain.gen /\ drain'.pc = next
    <3>1. cut \in Seq(Audio)
      BY <2>3 DEF FramesOk
    <3>. QED  BY <1>1, <2>3, <2>6, <3>1 DEF Drains, DrainPcs
  <2>11. DrainShape(buf', drain')
    BY <1>1, <1>2, <2>3, <2>5, <2>10 DEF DrainShape, WithFrame, NoCarry
  <2>12. Unwritten(drain) = <<>> /\ Unwritten(drain') = cut
    BY <1>1, <1>2, <2>10 DEF Unwritten
  <2>13. ASSUME NEW R
         PROVE  /\ UnitsFramed(cut, R) \in Nat /\ UnitsOf(left, R) \in Nat
                /\ UnitsOf(drain.carry, R) \in Nat /\ UnitsOf(more, R) \in Nat
                /\ UnitsQueued(buf'.queue, R) \in Nat /\ UnitsOf(buf.carry, R) \in Nat
                /\ UnitsFramed(cut, R) + UnitsOf(left, R) = UnitsOf(drain.carry, R) + UnitsOf(more, R)
    <3>1. UnitsFramed(Unwritten(drain'), R) \in Nat /\ UnitsOf(drain'.carry, R) \in Nat
          /\ UnitsQueued(buf'.queue, R) \in Nat
      BY <2>5, <2>10, <2>11, PipeNat
    <3>2. UnitsOf(buf.carry, R) \in Nat /\ UnitsOf(drain.carry, R) \in Nat
      BY <1>1, PipeNat
    <3>. QED  BY <2>2, <2>3, <2>4, <2>10, <2>12, <3>1, <3>2, UnitsNat
  <2>14. \A R : Pipe(buf', drain', R) = Pipe(buf, drain, R)
    <3>. TAKE R
    <3>1. UnitsFramed(<<>>, R) = 0
      BY NothingFramed
    <3>2. Pipe(buf, drain, R) = UnitsOf(drain.carry, R) + UnitsOf(buf.carry, R)
                                  + (UnitsOf(more, R) + UnitsQueued(buf'.queue, R))
      BY <2>8, <2>12, <2>13, <3>1 DEF Pipe
    <3>3. Pipe(buf', drain', R) = UnitsFramed(cut, R) + UnitsOf(left, R) + UnitsOf(buf.carry, R)
                                    + UnitsQueued(buf'.queue, R)
      BY <2>5, <2>10, <2>12 DEF Pipe
    <3>. QED  BY <2>13, <3>2, <3>3
  <2>15. /\ InReach(buf', drain', tally.stale) <= InReach(buf, drain, tally.stale)
         /\ InReach(buf', drain', tally.stale) \in Nat /\ InReach(buf, drain, tally.stale) \in Nat
    <3>. DEFINE S == tally.stale
    <3>1. UnitsFramed(<<>>, S) = 0
      BY NothingFramed
    <3>2. /\ UnitsFramed(cut, S) \in Nat /\ UnitsOf(left, S) \in Nat
          /\ UnitsOf(drain.carry, S) \in Nat /\ UnitsOf(buf.carry, S) \in Nat
          /\ UnitsFramed(cut, S) + UnitsOf(left, S) = UnitsOf(drain.carry, S)
      <4>1. UnitsOf(more, S) = 0
        BY <2>9
      <4>. QED  BY <2>13, <4>1
    <3>3. InReach(buf, drain, S) = UnitsOf(buf.carry, S) + UnitsOf(drain.carry, S)
      BY <1>1, <2>12, <3>1, <3>2 DEF InReach
    <3>4. InReach(buf', drain', S) = UnitsOf(buf.carry, S)
            + IF drain.gen = buf.generation THEN UnitsOf(left, S) + UnitsFramed(cut, S) ELSE UnitsOf(left, S)
      BY <2>5, <2>10, <2>12 DEF InReach
    <3>. HIDE DEF S
    <3>5. InReach(buf', drain', S) <= InReach(buf, drain, S)
          /\ InReach(buf', drain', S) \in Nat /\ InReach(buf, drain, S) \in Nat
      BY <3>2, <3>3, <3>4
    <3>. QED  BY <3>5 DEF S
  <2>16. tally.late \in Nat /\ tally.written \in [ReplyIds -> Nat]
    BY DEF AudioInv, Typed, BooksTyped
  <2>17. tally'.late + InReach(buf', drain', tally.stale) <= tally.late + InReach(buf, drain, tally.stale)
    BY <1>3, <2>15, <2>16
  <2>18. Undisturbed' => Undisturbed
    BY <1>3, <2>5, StaysUndisturbed
  <2>. QED  BY <1>3, <2>5, <2>7, <2>10, <2>11, <2>14, <2>16, <2>17, <2>18 DEF Flow
<1>. QED  BY <1>4, <1>5

\* The last incomplete frame of an utterance is put in hand.
LEMMA FlowTailGeneration ==
    ASSUME AudioInv, DrainTailGeneration
    PROVE  Flow
<1>1. DrainShape(buf, drain) /\ buf \in Buffers /\ drain \in Drains /\ tts_drain_wake \in BOOLEAN
      /\ drain.pc = "tail_generation" /\ FrameUnits \in Nat /\ FrameUnits > 0
  BY FrameAssumption DEF AudioInv, Typed, DrainTailGeneration
<1>2. drain.frames = <<>> /\ buf.carry = <<>> /\ drain.carry \in Audio /\ drain.pc \notin WithFrame
  BY <1>1 DEF DrainShape, WithFrame, NoCarry, Drains
<1>3. /\ UNCHANGED <<buf, job, tts_playback_failure_gen, tts_synthesis_epoch, tally, plan>>
      /\ tts_drain_wake' \in BOOLEAN
  BY <1>1 DEF DrainTailGeneration, agent, passes
<1>4. CASE ~Accepts(buf, drain.gen)
  <2>1. /\ drain' \in Drains /\ drain'.pc = "store"
        /\ drain'.gen = drain.gen /\ drain'.carry = drain.carry /\ drain'.frames = drain.frames
    BY <1>4, DrainMoved DEF DrainTailGeneration, DrainPcs
  <2>2. DrainShape(buf', drain')
    BY <1>1, <1>2, <1>3, <2>1 DEF DrainShape, WithFrame, NoCarry
  <2>3. DrainOnly /\ NoneBooked
    BY <1>1, <1>3, <2>1, <2>2, StaysUndisturbed DEF DrainOnly, NoneBooked
  <2>. QED  BY <1>2, <1>3, <2>1, <2>3, FlowBetweenFrames DEF WithFrame
<1>5. CASE Accepts(buf, drain.gen)
  <2>. DEFINE c == drain.carry
              fs == <<c>>
  <2>1. fs \in Seq(Audio) /\ Len(fs) = 1 /\ fs[1] = c /\ fs # <<>> /\ Head(fs) = c /\ Tail(fs) = <<>>
    BY <1>2
  <2>2. drain' = [[[[drain EXCEPT !.pc = "frame"] EXCEPT !.tail = TRUE] EXCEPT !.carry = <<>>]
                    EXCEPT !.frames = fs]
    BY <1>5 DEF DrainTailGeneration
  <2>. HIDE DEF fs
  <2>3. /\ drain' \in Drains /\ drain'.pc = "frame" /\ drain'.gen = drain.gen
        /\ drain'.carry = <<>> /\ drain'.frames = fs
    <3>1. <<>> \in Audio
      BY DEF Audio
    <3>. QED  BY <1>1, <2>1, <2>2, <3>1 DEF Drains, DrainPcs
  <2>4. FramesOk(fs)
    BY <1>1, <2>1 DEF FramesOk, DrainShape
  <2>5. DrainShape(buf', drain')
    <3>1. Len(<<>>) = 0
      OBVIOUS
    <3>. QED  BY <1>1, <1>2, <1>3, <2>3, <2>4, <3>1 DEF DrainShape, WithFrame, NoCarry
  <2>6. Unwritten(drain) = <<>> /\ Unwritten(drain') = fs
    BY <1>1, <1>2, <2>3 DEF Unwritten
  <2>7. \A R : UnitsFramed(fs, R) = UnitsOf(c, R)
    <3>. TAKE R
    <3>1. UnitsFramed(fs, R) = UnitsOf(Head(fs), R) + UnitsFramed(Tail(fs), R)
      BY <2>1, FramedTail
    <3>2. UnitsFramed(Tail(fs), R) = 0
      <4>1. Tail(fs) = <<>>
        BY <2>1
      <4>. QED  BY <4>1, NothingFramed, Zenon
    <3>3. Head(fs) = c /\ UnitsOf(c, R) \in Nat
      BY <1>2, <2>1, UnitsNat
    <3>4. UnitsFramed(fs, R) = UnitsOf(c, R) + 0
      BY <3>1, <3>2, <3>3, Zenon
    <3>. QED  BY <3>3, <3>4
  <2>8. drain.gen = buf.generation /\ buf' = buf
    BY <1>3, <1>5 DEF Accepts
  <2>9. \A R : /\ Pipe(buf', drain', R) = Pipe(buf, drain, R)
               /\ InReach(buf', drain', R) = InReach(buf, drain, R)
               /\ InReach(buf, drain, R) \in Nat
    <3>. TAKE R
    <3>1. /\ UnitsFramed(<<>>, R) = 0 /\ UnitsOf(<<>>, R) = 0 /\ UnitsOf(c, R) \in Nat
          /\ UnitsOf(buf.carry, R) \in Nat /\ UnitsQueued(buf.queue, R) \in Nat
          /\ InReach(buf, drain, R) \in Nat
      BY <1>1, NothingFramed, UnitsEmpty, PipeNat
    <3>2. Pipe(buf', drain', R) = Pipe(buf, drain, R)
      BY <2>3, <2>6, <2>7, <2>8, <3>1 DEF Pipe
    <3>3. InReach(buf', drain', R) = InReach(buf, drain, R)
      BY <2>3, <2>6, <2>7, <2>8, <3>1 DEF InReach
    <3>. QED  BY <3>1, <3>2, <3>3
  <2>10. tally.late \in Nat /\ tally.written \in [ReplyIds -> Nat]
    BY DEF AudioInv, Typed, BooksTyped
  <2>11. Undisturbed' => Undisturbed
    BY <1>3, StaysUndisturbed
  <2>12. tally'.late + InReach(buf', drain', tally.stale) <= tally.late + InReach(buf, drain, tally.stale)
    BY <1>3, <2>9, <2>10
  <2>. QED  BY <1>1, <1>3, <2>3, <2>5, <2>8, <2>9, <2>10, <2>11, <2>12 DEF Flow
<1>. QED  BY <1>4, <1>5

\* A frame in hand: its start is reported, and it is checked.
LEMMA FlowFrame ==
    ASSUME AudioInv, DrainFrame \/ DrainEmitStart
    PROVE  Flow
<1>1. DrainShape(buf, drain) /\ buf \in Buffers /\ drain \in Drains /\ tts_drain_wake \in BOOLEAN
      /\ drain.pc \in {"frame", "emit_start"}
      /\ DOMAIN tally = DOMAIN Tally0
  BY DEF AudioInv, Typed, SpeakInv, Shape, DrainFrame, DrainEmitStart
<1>2. /\ UNCHANGED <<buf, job, tts_playback_failure_gen, tts_synthesis_epoch, plan>>
      /\ tts_drain_wake' \in BOOLEAN /\ NoneBooked
  BY <1>1 DEF DrainFrame, DrainEmitStart, agent, passes, NoneBooked, Tally0
<1>3. CASE drain.frames = <<>>
  <2>1. DrainFrame
    BY <1>3, <1>1 DEF DrainEmitStart, DrainShape, WithFrame
  <2>2. /\ drain' \in Drains /\ drain'.pc \in {"store", "pop"} /\ drain.pc = "frame"
        /\ drain'.gen = drain.gen /\ drain'.carry = drain.carry /\ drain'.frames = drain.frames
    BY <1>3, <2>1, DrainMoved DEF DrainFrame, DrainGoes, DrainPcs
  <2>3. DrainShape(buf', drain')
    BY <1>1, <1>2, <1>3, <2>2 DEF DrainShape, WithFrame, NoCarry
  <2>4. DrainOnly
    BY <1>1, <1>2, <2>2, <2>3, StaysUndisturbed DEF DrainOnly
  <2>. QED  BY <1>2, <1>3, <2>2, <2>4, FlowBetweenFrames DEF WithFrame
<1>4. CASE drain.frames # <<>>
  <2>1. /\ drain' \in Drains /\ drain'.pc \in {"check", "emit_start"}
        /\ drain'.gen = drain.gen /\ drain'.carry = drain.carry /\ drain'.frames = drain.frames
    <3>1. CASE DrainFrame
      <4>. DEFINE next == IF drain.start_emitted THEN "check" ELSE "emit_start"
      <4>1. drain' = [[drain EXCEPT !.played_any = TRUE] EXCEPT !.pc = next]
        BY <1>4, <3>1 DEF DrainFrame
      <4>. QED  BY <1>1, <4>1 DEF Drains, DrainPcs
    <3>2. CASE DrainEmitStart
      <4>1. drain' = [[drain EXCEPT !.pc = "check"] EXCEPT !.start_emitted = TRUE]
        BY <3>2 DEF DrainEmitStart
      <4>. QED  BY <1>1, <4>1 DEF Drains, DrainPcs
    <3>. QED  BY <3>1, <3>2
  <2>2. DrainShape(buf', drain')
    BY <1>1, <1>2, <1>4, <2>1 DEF DrainShape, WithFrame, NoCarry
  <2>3. DrainOnly
    BY <1>1, <1>2, <2>1, <2>2, StaysUndisturbed DEF DrainOnly
  <2>4. Unwritten(drain') = Unwritten(drain)
    BY <1>1, <2>1 DEF Unwritten
  <2>. QED  BY <1>1, <1>2, <2>1, <2>3, <2>4, FlowWithFrame
<1>. QED  BY <1>3, <1>4

\* The frame is checked before the write and after it.
LEMMA FlowCheck ==
    ASSUME AudioInv, DrainCheck \/ DrainPace
    PROVE  Flow
<1>1. DrainShape(buf, drain) /\ buf \in Buffers /\ drain \in Drains /\ tts_drain_wake \in BOOLEAN
      /\ drain.pc \in {"check", "pace"} /\ FrameUnits \in Nat /\ FrameUnits > 0
      /\ plan["drain"] = <<>>
  BY FrameAssumption DEF AudioInv, Typed, SpeakInv, PlansStart, DrainCheck, DrainPace
<1>2. /\ UNCHANGED <<buf, job, tts_playback_failure_gen, tts_synthesis_epoch, tally>>
      /\ tts_drain_wake' \in BOOLEAN /\ NoneBooked
  BY <1>1 DEF DrainCheck, DrainPace, agent, NoneBooked
<1>3. \/ plan' = plan
      \/ plan["drain"] = <<>> /\ \E p : plan' = [plan EXCEPT !["drain"] = p]
  BY <1>1 DEF DrainCheck, DrainPace, DrainStops
<1>4. CASE Accepts(buf, drain.gen)
  <2>0. drain.frames # <<>> /\ drain.frames \in Seq(Audio) /\ Tail(drain.frames) \in Seq(Audio)
    BY <1>1, FramedTail DEF DrainShape, WithFrame, Drains
  <2>1. /\ drain' \in Drains /\ drain'.gen = drain.gen /\ drain'.carry = drain.carry
        /\ \/ drain.pc = "check" /\ drain'.pc = "write" /\ drain'.frames = drain.frames
           \/ drain.pc = "pace" /\ drain'.pc = "frame" /\ drain'.frames = Tail(drain.frames)
    <3>1. CASE DrainCheck
      BY <1>4, <3>1, DrainMoved DEF DrainCheck, DrainGoes, DrainPcs
    <3>2. CASE DrainPace
      <4>1. drain' = [[drain EXCEPT !.pc = "frame"] EXCEPT !.frames = Tail(drain.frames)]
        BY <1>4, <3>2 DEF DrainPace
      <4>. QED  BY <1>1, <2>0, <3>2, <4>1 DEF DrainPace, Drains, DrainPcs
    <3>. QED  BY <3>1, <3>2
  <2>2. FramesOk(drain'.frames)
    <3>1. FramesOk(drain.frames)
      BY <1>1 DEF DrainShape
    <3>2. FramesOk(Tail(drain.frames))
      <4>. DEFINE fs == drain.frames
      <4>1. fs \in Seq(Audio) /\ fs # <<>> /\ FramesOk(fs)
        BY <2>0, <3>1
      <4>. HIDE DEF fs
      <4>2. /\ Tail(fs) \in Seq(Audio)
            /\ \A i \in 1 .. Len(Tail(fs)) : i + 1 \in 1 .. Len(fs) /\ Tail(fs)[i] = fs[i + 1]
        BY <4>1, HeadTailProperties
      <4>3. FramesOk(Tail(fs))
        BY <4>1, <4>2 DEF FramesOk
      <4>. QED  BY <4>3 DEF fs
    <3>. QED  BY <2>1, <3>1, <3>2
  <2>3. DrainShape(buf', drain')
    BY <1>1, <1>2, <2>0, <2>1, <2>2 DEF DrainShape, WithFrame, NoCarry
  <2>4. DrainOnly
    BY <1>1, <1>2, <1>3, <2>1, <2>3, StaysUndisturbed DEF DrainOnly
  <2>5. Unwritten(drain') = Unwritten(drain)
    BY <2>1 DEF Unwritten
  <2>6. drain.gen = buf.generation
    BY <1>4 DEF Accepts
  <2>. QED  BY <1>2, <2>1, <2>4, <2>5, <2>6, FlowWithFrame
<1>5. CASE ~Accepts(buf, drain.gen)
  <2>1. Rests(drain', "stop", 0)
    BY <1>5, DrainRests DEF DrainCheck, DrainPace, DrainStops
  <2>2. DrainShape(buf', drain')
    <3>1. Len(<<>>) = 0 /\ <<>> \in Seq(Audio) /\ buf.generation \in Nat
      BY <1>1 DEF Buffers
    <3>. QED  BY <1>1, <1>2, <2>1, <3>1 DEF DrainShape, Rests, WithFrame, NoCarry, FramesOk
  <2>3. DrainOnly
    BY <1>1, <1>2, <1>3, <2>1, <2>2, StaysUndisturbed DEF DrainOnly, Rests
  <2>4. drain.gen # buf.generation
    BY <1>5 DEF Accepts
  <2>. QED  BY <1>2, <2>1, <2>3, <2>4, FlowDrops DEF Rests, WithFrame
<1>. QED  BY <1>4, <1>5

\* A frame is written to the track: the only step that puts audio there.
LEMMA FlowWrite ==
    ASSUME AudioInv, DrainWrite
    PROVE  Flow
<1>1. /\ DrainShape(buf, drain) /\ buf \in Buffers /\ drain \in Drains /\ tts_drain_wake \in BOOLEAN
      /\ drain.pc = "write" /\ drain.frames # <<>> /\ drain.frames \in Seq(Audio)
      /\ DOMAIN tally = DOMAIN Tally0
      /\ tally.late \in Nat /\ tally.written \in [ReplyIds -> Nat]
  BY DEF AudioInv, Typed, BooksTyped, SpeakInv, Shape, DrainWrite, DrainShape, WithFrame, FramesOk
<1>. DEFINE frame == Head(drain.frames)
            rest == Tail(drain.frames)
<1>2. /\ frame \in Audio /\ rest \in Seq(Audio)
      /\ \A R : UnitsFramed(drain.frames, R) = UnitsOf(frame, R) + UnitsFramed(rest, R)
  BY <1>1, FramedTail
<1>3. /\ UNCHANGED <<buf, job, tts_playback_failure_gen, tts_synthesis_epoch, plan>>
      /\ tts_drain_wake' \in BOOLEAN
      /\ UNCHANGED <<tally.booked, tally.audible, tally.stale>>
      /\ tally'.written = [r \in ReplyIds |-> tally.written[r] + UnitsOf(frame, {r})]
      /\ tally'.late = tally.late + UnitsOf(frame, tally.stale)
  BY <1>1 DEF DrainWrite, agent, passes, Tally0
<1>4. /\ drain' \in Drains /\ drain'.pc = "book"
      /\ drain'.gen = drain.gen /\ drain'.carry = drain.carry /\ drain'.frames = drain.frames
  BY DrainMoved DEF DrainWrite, DrainGoes, DrainPcs
<1>5. DrainShape(buf', drain')
  BY <1>1, <1>3, <1>4 DEF DrainShape, WithFrame, NoCarry
<1>6. Unwritten(drain) = drain.frames /\ Unwritten(drain') = rest
  BY <1>1, <1>4 DEF Unwritten
<1>. HIDE DEF frame, rest
<1>7. ASSUME NEW R
      PROVE  /\ UnitsOf(frame, R) \in Nat /\ UnitsFramed(rest, R) \in Nat
             /\ UnitsOf(drain.carry, R) \in Nat /\ UnitsOf(buf.carry, R) \in Nat
             /\ UnitsQueued(buf.queue, R) \in Nat
             /\ UnitsFramed(drain.frames, R) = UnitsOf(frame, R) + UnitsFramed(rest, R)
  BY <1>1, <1>2, UnitsNat, FramedNat, PipeNat
<1>8. tally'.written \in [ReplyIds -> Nat] /\ tally'.late \in Nat
  <2>1. \A r \in ReplyIds : tally.written[r] + UnitsOf(frame, {r}) \in Nat
    BY <1>1, <1>7
  <2>2. tally.late + UnitsOf(frame, tally.stale) \in Nat
    BY <1>1, <1>7
  <2>. QED  BY <1>3, <2>1, <2>2
<1>9. ASSUME NEW R
      PROVE  /\ UnitsOf(frame, R) + Pipe(buf', drain', R) = Pipe(buf, drain, R)
             /\ UnitsOf(frame, R) + InReach(buf', drain', R) <= InReach(buf, drain, R)
             /\ InReach(buf', drain', R) \in Nat /\ InReach(buf, drain, R) \in Nat
             /\ Pipe(buf', drain', R) \in Nat
  <2>1. UnitsOf(frame, R) + Pipe(buf', drain', R) = Pipe(buf, drain, R) /\ Pipe(buf', drain', R) \in Nat
    BY <1>3, <1>4, <1>6, <1>7 DEF Pipe
  <2>2. CASE drain.gen = buf.generation
    BY <1>3, <1>4, <1>6, <1>7, <2>1, <2>2 DEF InReach
  <2>3. CASE drain.gen # buf.generation
    <3>1. InReach(buf, drain, R) = UnitsOf(buf.carry, R) + UnitsOf(frame, R)
      BY <1>1, <2>3 DEF InReach, frame
    <3>2. InReach(buf', drain', R) = UnitsOf(buf.carry, R) + 0
      BY <1>3, <1>4, <2>3 DEF InReach
    <3>. QED  BY <1>7, <2>1, <3>1, <3>2
  <2>. QED  BY <2>2, <2>3
<1>10. \A r \in ReplyIds : tally'.written[r] + Pipe(buf', drain', {r})
                            = tally.written[r] + Pipe(buf, drain, {r})
  <2>. TAKE r \in ReplyIds
  <2>1. tally'.written[r] = tally.written[r] + UnitsOf(frame, {r}) /\ tally.written[r] \in Nat
    BY <1>1, <1>3
  <2>. QED  BY <2>1, <1>7, <1>9
<1>11. tally'.late + InReach(buf', drain', tally.stale) <= tally.late + InReach(buf, drain, tally.stale)
  <2>. DEFINE S == tally.stale
  <2>1. tally'.late = tally.late + UnitsOf(frame, S) /\ UnitsOf(frame, S) \in Nat
    BY <1>3, <1>7
  <2>2. UnitsOf(frame, S) + InReach(buf', drain', S) <= InReach(buf, drain, S)
        /\ InReach(buf', drain', S) \in Nat /\ InReach(buf, drain, S) \in Nat
    BY <1>9
  <2>. HIDE DEF S
  <2>3. tally'.late + InReach(buf', drain', S) <= tally.late + InReach(buf, drain, S)
    BY <1>1, <2>1, <2>2
  <2>. QED  BY <2>3 DEF S
<1>12. Undisturbed' => Undisturbed
  BY <1>3, StaysUndisturbed
<1>. QED  BY <1>1, <1>3, <1>4, <1>5, <1>8, <1>10, <1>11, <1>12 DEF Flow

\* The writer fails: the playback is going to be flushed.
LEMMA FlowWriteFails ==
    ASSUME AudioInv, DrainWriteFails
    PROVE  Flow
<1>1. DrainShape(buf, drain) /\ buf \in Buffers /\ drain \in Drains /\ tts_drain_wake \in BOOLEAN
      /\ drain.pc = "write" /\ FrameUnits \in Nat /\ FrameUnits > 0
      /\ plan \in [Actors -> Seq(Steps)] /\ "drain" \in Actors
  BY FrameAssumption DEF AudioInv, Typed, SpeakInv, Shape, DrainWriteFails, Actors
<1>2. /\ UNCHANGED <<job, tts_playback_failure_gen, tts_synthesis_epoch, tally>>
      /\ tts_drain_wake' \in BOOLEAN /\ NoneBooked
  BY <1>1 DEF DrainWriteFails, agent, NoneBooked
<1>3. /\ buf' \in Buffers /\ buf'.queue = buf.queue /\ buf'.carry = buf.carry
      /\ buf'.generation = buf.generation
  BY <1>1 DEF DrainWriteFails, DropHold, Buffers
<1>4. Rests(drain', "stop", 0)
  BY DrainRests DEF DrainWriteFails
<1>5. DrainShape(buf', drain')
  <2>1. Len(<<>>) = 0 /\ <<>> \in Seq(Audio) /\ buf.generation \in Nat
    BY <1>1 DEF Buffers
  <2>. QED  BY <1>1, <1>3, <1>4, <2>1 DEF DrainShape, Rests, WithFrame, NoCarry, FramesOk
<1>6. ~Undisturbed'
  <2>1. plan'["drain"] = AbortPlan
    BY <1>1 DEF DrainWriteFails
  <2>2. 2 \in DOMAIN AbortPlan /\ AbortPlan[2] = "flush"
    BY DEF AbortPlan
  <2>. QED  BY <1>1, <2>1, <2>2 DEF Undisturbed
<1>7. DrainOnly
  BY <1>2, <1>3, <1>4, <1>5, <1>6 DEF DrainOnly, Rests
<1>. QED  BY <1>2, <1>3, <1>4, <1>6, <1>7, FlowDrops DEF Rests, WithFrame

\* Booking moves the ledger, and no audio.
LEMMA FlowBook ==
    ASSUME AudioInv, DrainBook \/ DrainSettleBook
    PROVE  Flow
<1>1. /\ DrainShape(buf, drain) /\ buf \in Buffers /\ drain \in Drains /\ tts_drain_wake \in BOOLEAN
      /\ DOMAIN tally = DOMAIN Tally0 /\ buf.ledger \in Seq(Entries)
      /\ drain.pc \in {"book", "settle_book"}
  BY DEF AudioInv, Typed, SpeakInv, Shape, Buffers, DrainBook, DrainSettleBook
<1>2. PICK n \in Nat : Book(n)
  <2>1. CASE DrainSettleBook
    BY <2>1 DEF DrainSettleBook
  <2>2. CASE DrainBook
    <3>1. drain.frames # <<>> /\ drain.frames \in Seq(Audio)
      BY <1>1, <2>2 DEF DrainBook, DrainShape, WithFrame, FramesOk
    <3>2. Len(Head(drain.frames)) \in Nat
      <4>1. Head(drain.frames) \in Audio
        BY <3>1, FramedTail
      <4>. QED  BY <4>1 DEF Audio
    <3>. QED  BY <2>2, <3>2 DEF DrainBook
  <2>. QED  BY <2>1, <2>2
<1>3. ConsumePlayed(buf.ledger, n).ledger \in Seq(Entries)
  BY <1>1, ConsumeTyped DEF Accs
<1>4. /\ buf' \in Buffers /\ buf'.queue = buf.queue /\ buf'.carry = buf.carry
      /\ buf'.generation = buf.generation
  BY <1>1, <1>2, <1>3 DEF Book, Buffers
<1>5. /\ UNCHANGED <<job, tts_playback_failure_gen, tts_synthesis_epoch, plan>>
      /\ tts_drain_wake' \in BOOLEAN
  BY <1>1 DEF DrainBook, DrainSettleBook, agent, passes
<1>6. NoneBooked
  BY <1>1, <1>2 DEF Book, NoneBooked, Tally0
<1>7. /\ drain' \in Drains
      /\ drain'.gen = drain.gen /\ drain'.carry = drain.carry /\ drain'.frames = drain.frames
      /\ \/ drain.pc = "book" /\ drain'.pc = "pace"
         \/ drain.pc = "settle_book" /\ drain'.pc = "close"
  BY DrainMoved DEF DrainBook, DrainSettleBook, DrainGoes, DrainPcs
<1>8. DrainShape(buf', drain')
  BY <1>1, <1>4, <1>7 DEF DrainShape, WithFrame, NoCarry
<1>9. DrainOnly
  BY <1>4, <1>5, <1>7, <1>8, StaysUndisturbed DEF DrainOnly
<1>10. CASE drain.pc = "book"
  <2>1. Unwritten(drain') = Unwritten(drain)
    BY <1>7, <1>10 DEF Unwritten
  <2>. QED  BY <1>4, <1>6, <1>7, <1>9, <1>10, <2>1, FlowWithFrame
<1>11. CASE drain.pc = "settle_book"
  <2>1. drain.frames = <<>>
    BY <1>1, <1>11 DEF DrainShape, WithFrame
  <2>. QED  BY <1>4, <1>6, <1>7, <1>9, <1>11, <2>1, FlowBetweenFrames DEF WithFrame
<1>. QED  BY <1>7, <1>10, <1>11

\* Every step of the drain but those of a plan moves audio.
LEMMA AudioDrainStep ==
    ASSUME AudioInv, SpeakInv', DrainStep, ~PlanStep("drain")
    PROVE  AudioInv'
<1>1. Flow
  BY FlowIdle, FlowEnds, FlowCarry, FlowPop, FlowTailGeneration, FlowFrame, FlowCheck, FlowWrite,
     FlowWriteFails, FlowBook DEF DrainStep
<1>. QED  BY <1>1, FlowKeeps

-----------------------------------------------------------------------------
(* The steps of the job and of the plans. *)

\* A job goes on with its reply, or takes the next one; what it may push is of a
\* reply that was not cut off.
JobOn ==
    \/ job' = job
    \/ /\ job' \in Jobs /\ JobShape'
       /\ job'.reply >= job.reply /\ (job'.pc = "taken" => job'.reply > job.reply)
       /\ Producing' /\ job'.gen = buf.generation => job'.reply \notin tally.stale

Aside ==
    /\ drain' = drain /\ NoneBooked /\ JobOn
    /\ buf' \in Buffers /\ buf'.queue = buf.queue /\ buf'.carry = buf.carry
    /\ buf'.generation = buf.generation
    /\ tts_drain_wake' \in BOOLEAN /\ tts_playback_failure_gen' \in Nat /\ tts_synthesis_epoch' \in Nat
    /\ Undisturbed' => Undisturbed

\* A step that leaves buffer and drain alone keeps the invariant.
LEMMA AsideKeeps ==
    ASSUME AudioInv, SpeakInv', Aside
    PROVE  AudioInv'
<1>. USE DEF AudioInv, Aside, NoneBooked
<1>1. Typed' /\ JobShape'
  BY DEF Typed, BooksTyped, JobOn, JobShape
<1>2. DrainShape(buf', drain')
  BY DEF DrainShape
<1>3. Fresh'
  <2>1. job \in Jobs /\ job' \in Jobs
    BY <1>1 DEF Typed
  <2>2. job.reply \in Int /\ job'.reply \in Int /\ job'.reply >= job.reply
        /\ (job'.pc = "taken" => job'.reply > job.reply \/ job' = job)
    BY <2>1, PlaybackAssumption DEF Jobs, JobOn
  <2>3. \A r \in tally.audible \union tally.stale : r \in Int
    BY DEF Typed, BooksTyped, ReplyIds
  <2>4. \A r \in tally'.audible \union tally'.stale :
          r <= job'.reply /\ (job'.pc = "taken" => r < job'.reply)
    BY <2>2, <2>3 DEF Fresh
  <2>5. Producing' /\ job'.gen = buf'.generation => job'.reply \notin tally'.stale
    BY DEF Fresh, JobOn, Producing
  <2>6. \A i \in DOMAIN buf'.queue : buf'.queue[i].reply \notin tally'.stale
    BY DEF Fresh
  <2>. QED  BY <2>4, <2>5, <2>6 DEF Fresh
<1>4. NoAudioLost'
  BY DEF NoAudioLost
<1>5. StaleInReach'
  BY DEF StaleInReach, InReach
<1>. QED  BY <1>1, <1>2, <1>3, <1>4, <1>5

\* A plan that goes on without flushing.
LEMMA UndisturbedPlan ==
    ASSUME AudioInv, NEW a \in Actors, plan[a] # <<>>, Head(plan[a]) # "flush",
           plan' = [plan EXCEPT ![a] = Tail(@)], buf'.generation = buf.generation
    PROVE  Undisturbed' => Undisturbed
<1>. SUFFICES ASSUME Undisturbed', NEW b \in Actors, NEW i \in DOMAIN plan[b]
              PROVE  plan[b][i] # "flush"
  BY DEF Undisturbed
<1>1. plan \in [Actors -> Seq(Steps)]
  BY DEF AudioInv, SpeakInv, Shape
<1>2. CASE b # a
  <2>1. plan'[b] = plan[b]
    BY <1>1, <1>2
  <2>. QED  BY <2>1 DEF Undisturbed
<1>3. CASE b = a
  <2>. DEFINE p == plan[a]
  <2>1. p \in Seq(Steps) /\ p # <<>> /\ Head(p) # "flush" /\ plan'[a] = Tail(p) /\ i \in DOMAIN p
    BY <1>1, <1>3
  <2>2. \A j \in DOMAIN Tail(p) : Tail(p)[j] # "flush"
    BY <2>1 DEF Undisturbed
  <2>. HIDE DEF p
  <2>3. p[i] # "flush"
    <3>1. i = 1 \/ (i - 1 \in DOMAIN Tail(p) /\ Tail(p)[i - 1] = p[i])
      BY <2>1, HeadTailProperties
    <3>. QED  BY <2>1, <2>2, <3>1
  <2>. QED  BY <1>3, <2>3 DEF p
<1>. QED  BY <1>2, <1>3

\* The flush: what the writer and the drain still have is at most a frame.
LEMMA AudioFlush ==
    ASSUME AudioInv, SpeakInv', buf' = Flush(buf),
           tally' = [tally EXCEPT !.stale = CutOff, !.booked = NoUnits, !.written = NoUnits,
                                  !.started = {}, !.played = {}, !.done_ok = {}],
           UNCHANGED <<agent, tts_drain_wake, drain, job>>
    PROVE  AudioInv'
<1>1. /\ buf \in Buffers /\ drain \in Drains /\ job \in Jobs /\ DrainShape(buf, drain)
      /\ JobShape /\ Fresh /\ BooksTyped /\ StaleInReach
      /\ DOMAIN tally = DOMAIN Tally0 /\ buf.generation \in Nat /\ drain.gen \in Nat /\ job.gen \in Nat
      /\ FrameUnits \in Nat /\ FrameUnits > 0
  BY FrameAssumption DEF AudioInv, Typed, SpeakInv, Shape, Buffers, Drains, Jobs
<1>2. /\ tally'.stale = CutOff /\ tally'.booked = NoUnits /\ tally'.written = NoUnits
      /\ tally'.audible = tally.audible /\ tally'.late = tally.late
  BY <1>1 DEF Tally0
<1>3. /\ buf' \in Buffers /\ buf'.queue = <<>> /\ buf'.carry = <<>>
      /\ buf'.generation = buf.generation + 1
  <2>1. LedgerReplies(buf) \in Seq(ReplyIds)
    <3>. DEFINE led == buf.ledger
                n == Len(led)
    <3>1. led \in Seq(Entries) /\ n \in Nat /\ DOMAIN led = 1 .. n
      BY <1>1 DEF Buffers
    <3>2. \A i \in 1 .. n : led[i].reply \in ReplyIds
      BY <3>1 DEF Entries
    <3>3. LedgerReplies(buf) = [i \in 1 .. n |-> led[i].reply]
      BY <3>1 DEF LedgerReplies
    <3>. HIDE DEF n, led
    <3>4. LedgerReplies(buf) \in [1 .. n -> ReplyIds]
      BY <3>2, <3>3
    <3>. QED  BY <3>1, <3>4
  <2>. DEFINE fl == buf.flushed \o LedgerReplies(buf)
              g == buf.generation + 1
  <2>2. fl \in Seq(ReplyIds) /\ g \in Nat
    BY <1>1, <2>1 DEF Buffers
  <2>3. buf' = [[Buffer0 EXCEPT !.generation = g] EXCEPT !.flushed = fl]
    BY DEF Flush
  <2>. HIDE DEF fl, g
  <2>4. <<>> \in Audio /\ <<>> \in Seq(Chunks) /\ <<>> \in Seq(Entries) /\ <<>> \in Seq(ReplyIds)
    BY DEF Audio
  <2>5. /\ [Buffer0 EXCEPT !.generation = g] \in Buffers
        /\ [Buffer0 EXCEPT !.generation = g].queue = <<>>
        /\ [Buffer0 EXCEPT !.generation = g].carry = <<>>
        /\ [Buffer0 EXCEPT !.generation = g].generation = g
    BY <2>2, <2>4 DEF Buffer0, Buffers
  <2>. DEFINE mid == [Buffer0 EXCEPT !.generation = g]
  <2>. HIDE DEF mid
  <2>6. /\ buf' \in Buffers /\ buf'.queue = <<>> /\ buf'.carry = <<>> /\ buf'.generation = g
    BY <2>2, <2>3, <2>5 DEF Buffers, mid
  <2>. QED  BY <2>6 DEF g
<1>4. CutOff \subseteq ReplyIds
  BY <1>1 DEF CutOff, Producing, BooksTyped, JobShape
<1>5. Typed'
  BY <1>1, <1>2, <1>3, <1>4 DEF AudioInv, Typed, BooksTyped, NoUnits, agent
<1>6. DrainShape(buf', drain')
  <2>1. Len(<<>>) = 0
    OBVIOUS
  <2>. QED  BY <1>1, <1>3, <2>1 DEF DrainShape
<1>7. JobShape'
  BY <1>1, <1>3 DEF JobShape
<1>8. Fresh'
  <2>1. \A r \in tally.audible \union CutOff : r <= job.reply /\ (job.pc = "taken" => r < job.reply)
    BY <1>1 DEF Fresh, CutOff, Producing, Jobs
  <2>2. job.gen # buf'.generation
    BY <1>1, <1>3 DEF JobShape
  <2>. QED  BY <1>2, <1>3, <2>1, <2>2 DEF Fresh, Producing
<1>9. NoAudioLost'
  BY <1>1, <1>3 DEF NoAudioLost, Undisturbed
<1>10. StaleInReach'
  <2>. DEFINE S == CutOff
              reach == InReach(buf', drain, S)
  <2>1. drain.gen # buf'.generation /\ UnitsOf(buf'.carry, S) = 0
    BY <1>1, <1>3, UnitsEmpty DEF DrainShape
  <2>2. reach \in Nat /\ reach <= FrameUnits
    <3>1. UnitsOf(drain.carry, S) \in Nat /\ UnitsOf(drain.carry, S) <= FrameUnits
      <4>1. drain.carry \in Audio /\ Len(drain.carry) \in Nat /\ Len(drain.carry) < FrameUnits
        BY <1>1 DEF Drains, DrainShape, Audio
      <4>2. UnitsOf(drain.carry, S) \in Nat /\ UnitsOf(drain.carry, S) <= Len(drain.carry)
        BY <4>1, UnitsNat
      <4>. QED  BY <1>1, <4>1, <4>2
    <3>2. CASE drain.pc = "write"
      <4>. DEFINE fs == drain.frames
      <4>1. fs \in Seq(Audio) /\ fs # <<>> /\ FramesOk(fs)
        BY <1>1, <3>2 DEF DrainShape, WithFrame, FramesOk
      <4>. HIDE DEF fs
      <4>2. Head(fs) \in Audio /\ Len(Head(fs)) <= FrameUnits /\ Len(Head(fs)) \in Nat
        <5>1. Head(fs) = fs[1] /\ 1 \in 1 .. Len(fs) /\ Head(fs) \in Audio
          BY <4>1
        <5>. QED  BY <4>1, <5>1 DEF FramesOk, Audio
      <4>3. UnitsOf(Head(fs), S) \in Nat /\ UnitsOf(Head(fs), S) <= FrameUnits
        <5>1. UnitsOf(Head(fs), S) \in Nat /\ UnitsOf(Head(fs), S) <= Len(Head(fs))
          BY <4>2, UnitsNat
        <5>. QED  BY <1>1, <4>2, <5>1
      <4>4. reach = 0 + UnitsOf(Head(fs), S)
        BY <2>1, <3>2 DEF InReach, fs
      <4>. HIDE DEF reach
      <4>. QED  BY <4>3, <4>4
    <3>3. CASE drain.pc \in {"book", "pace"}
      <4>1. reach = 0 + 0
        BY <2>1, <3>3 DEF InReach
      <4>. QED  BY <1>1, <4>1
    <3>4. CASE drain.pc \notin {"write", "book", "pace"}
      <4>1. reach = 0 + UnitsOf(drain.carry, S)
        BY <2>1, <3>4 DEF InReach
      <4>. HIDE DEF reach
      <4>. QED  BY <3>1, <4>1
    <3>. QED  BY <3>2, <3>3, <3>4
  <2>3. tally.late \in Nat /\ tally.late <= FrameUnits * buf.generation
    <3>1. InReach(buf, drain, tally.stale) \in Nat
      BY <1>1, PipeNat
    <3>2. tally.late \in Nat /\ FrameUnits * buf.generation \in Nat
      BY <1>1, FrameTimes DEF BooksTyped
    <3>. QED  BY <1>1, <3>1, <3>2 DEF StaleInReach
  <2>4. FrameUnits * (buf.generation + 1) = FrameUnits * buf.generation + FrameUnits
        /\ FrameUnits * buf.generation \in Nat
    BY <1>1, FrameTimes
  <2>. HIDE DEF reach
  <2>5. tally.late + reach <= FrameUnits * (buf.generation + 1)
    BY <1>1, <2>2, <2>3, <2>4
  <2>. QED  BY <1>2, <1>3, <2>5 DEF StaleInReach, reach
<1>. QED  BY <1>5, <1>6, <1>7, <1>8, <1>9, <1>10 DEF AudioInv

\* enqueue_tagged: the ledger stays a ledger.
LEMMA EnqueueTyped ==
    ASSUME NEW b \in Buffers, NEW chunk \in Chunks
    PROVE  /\ Enqueue(b, chunk) \in Buffers
           /\ Enqueue(b, chunk).queue = Append(b.queue, chunk)
           /\ Enqueue(b, chunk).carry = b.carry
           /\ Enqueue(b, chunk).generation = b.generation
<1>. DEFINE led == b.ledger
            n == Len(led)
            matches == n > 0 /\ led[n].reply = chunk.reply /\ ~led[n].complete
            next == IF matches THEN [led EXCEPT ![n].queued = @ + chunk.units]
                               ELSE Append(led, LedgerEntry(chunk.reply, chunk.units))
            queue == Append(b.queue, chunk)
<1>1. /\ led \in Seq(Entries) /\ n \in Nat /\ DOMAIN led = 1 .. n
      /\ chunk.reply \in ReplyIds /\ chunk.units \in Nat
      /\ queue \in Seq(Chunks)
  BY DEF Buffers, Chunks
<1>2. next \in Seq(Entries)
  <2>1. CASE matches
    <3>1. n \in 1 .. n /\ led[n] \in Entries
      BY <1>1, <2>1
    <3>. DEFINE more == led[n].queued + chunk.units
                entry == [led[n] EXCEPT !.queued = more]
    <3>2. next = [led EXCEPT ![n] = entry]
      BY <1>1, <2>1, <3>1
    <3>3. more \in Nat /\ led[n].played <= more
      BY <1>1, <3>1 DEF Entries
    <3>. HIDE DEF more
    <3>4. entry \in Entries
      BY <3>1, <3>3 DEF Entries
    <3>. HIDE DEF next, entry, n
    <3>5. [led EXCEPT ![n] = entry] \in Seq(Entries)
      <4>1. led \in [1 .. n -> Entries]
        BY <1>1, LenProperties DEF n
      <4>. HIDE DEF led
      <4>2. [led EXCEPT ![n] = entry] \in [1 .. n -> Entries]
        BY <3>4, <4>1
      <4>. QED  BY <1>1, <4>2
    <3>. QED  BY <3>2, <3>5
  <2>2. CASE ~matches
    <3>1. LedgerEntry(chunk.reply, chunk.units) \in Entries
      BY <1>1 DEF LedgerEntry, Entries
    <3>2. next = Append(led, LedgerEntry(chunk.reply, chunk.units))
      BY <2>2
    <3>. HIDE DEF next, led
    <3>. QED  BY <1>1, <3>1, <3>2
  <2>. QED  BY <2>1, <2>2
<1>3. Enqueue(b, chunk) = [b EXCEPT !.speaking = TRUE, !.queue = queue, !.ledger = next]
  BY Zenon DEF Enqueue
<1>. HIDE DEF next, queue
<1>4. /\ Enqueue(b, chunk) \in Buffers /\ Enqueue(b, chunk).queue = queue
      /\ Enqueue(b, chunk).carry = b.carry /\ Enqueue(b, chunk).generation = b.generation
  BY <1>1, <1>2, <1>3 DEF Buffers
<1>. QED  BY <1>4 DEF queue

\* Any step of any plan.
LEMMA AudioPlanStep ==
    ASSUME AudioInv, SpeakInv', NEW a \in Actors, PlanStep(a)
    PROVE  AudioInv'
<1>1. /\ plan[a] # <<>> /\ plan' = [plan EXCEPT ![a] = Tail(@)]
      /\ UNCHANGED <<scope, tts_drain_wake, drain, job, flushers_left>>
  BY DEF PlanStep
<1>2. /\ buf \in Buffers /\ tts_drain_wake \in BOOLEAN /\ tts_playback_failure_gen \in Nat
      /\ tts_synthesis_epoch \in Nat /\ DOMAIN tally = DOMAIN Tally0
  BY DEF AudioInv, Typed, SpeakInv, Shape
<1>3. CASE Head(plan[a]) = "flush"
  BY <1>1, <1>3, AudioFlush DEF PlanStep
<1>4. CASE Head(plan[a]) # "flush"
  <2>1. /\ buf' \in Buffers /\ buf'.queue = buf.queue /\ buf'.carry = buf.carry
        /\ buf'.generation = buf.generation
    <3>1. buf' = buf \/ buf' = TakeFlushed(buf)
      BY <1>4 DEF PlanStep
    <3>2. <<>> \in Seq(ReplyIds)
      OBVIOUS
    <3>. QED  BY <1>2, <3>1, <3>2 DEF TakeFlushed, Buffers
  <2>2. NoneBooked
    <3>1. \/ tally' = tally
          \/ tally' = [tally EXCEPT !.ends = CountEnds(@, buf.flushed)]
          \/ tally' = [tally EXCEPT !.speaking = @ - (IF ended[a] THEN 1 ELSE 0)]
      BY <1>4 DEF PlanStep
    <3>. QED  BY <1>2, <3>1 DEF NoneBooked, Tally0
  <2>3. tts_playback_failure_gen' \in Nat /\ tts_synthesis_epoch' \in Nat
    BY <1>2, <1>4 DEF PlanStep, agent
  <2>4. Undisturbed' => Undisturbed
    BY <1>1, <1>4, <2>1, UndisturbedPlan
  <2>5. Aside
    BY <1>1, <1>2, <2>1, <2>2, <2>3, <2>4 DEF Aside, JobOn
  <2>. QED  BY <2>5, AsideKeeps
<1>. QED  BY <1>3, <1>4

\* The plans that are started flush.
LEMMA AudioStartFlush ==
    ASSUME AudioInv, SpeakInv', NEW f \in Flushers, StartFlush(f)
    PROVE  AudioInv'
<1>1. /\ f \in Actors /\ plan \in [Actors -> Seq(Steps)] /\ scope \in Scopes
      /\ buf \in Buffers /\ tts_drain_wake \in BOOLEAN /\ tts_playback_failure_gen \in Nat
      /\ tts_synthesis_epoch \in Nat
  BY DEF AudioInv, Typed, SpeakInv, Shape, Actors
<1>2. PICK p \in {FlushPlan, ManualBargePlan, BargeInPlan} : plan' = [plan EXCEPT ![f] = p]
  BY <1>1, PlaybackAssumption DEF StartFlush
<1>3. \E i \in DOMAIN p : p[i] = "flush"
  <2>1. 2 \in DOMAIN FlushPlan /\ FlushPlan[2] = "flush"
    BY DEF FlushPlan
  <2>2. 3 \in DOMAIN ManualBargePlan /\ ManualBargePlan[3] = "flush"
    BY DEF ManualBargePlan
  <2>3. 2 \in DOMAIN BargeInPlan /\ BargeInPlan[2] = "flush"
    BY DEF BargeInPlan
  <2>. QED  BY <2>1, <2>2, <2>3
<1>4. ~Undisturbed'
  BY <1>1, <1>2, <1>3 DEF Undisturbed
<1>5. Aside
  BY <1>1, <1>4 DEF StartFlush, Aside, JobOn, NoneBooked, agent
<1>. QED  BY <1>5, AsideKeeps

\* A chunk of an undisturbed generation is queued and booked.
LEMMA AudioChunk ==
    ASSUME AudioInv, SpeakInv', JobChunk
    PROVE  AudioInv'
<1>1. /\ job.pc = "synthesize" /\ UNCHANGED <<agent, drain, passes>>
      /\ buf \in Buffers /\ job \in Jobs /\ drain \in Drains /\ DrainShape(buf, drain)
      /\ tts_drain_wake \in BOOLEAN /\ tts_playback_failure_gen \in Nat /\ tts_synthesis_epoch \in Nat
      /\ JobShape /\ BooksTyped /\ Fresh /\ DOMAIN tally = DOMAIN Tally0 /\ scope \in Scopes
  BY DEF JobChunk, AudioInv, Typed, SpeakInv, Shape
<1>2. PICK units \in scope.chunk_sizes :
         \/ /\ Accepts(buf, job.gen)
            /\ buf' = Enqueue(buf, Chunk(job.reply, units))
            /\ WakeDrain
            /\ job' = [job EXCEPT !.chunks = @ + 1, !.queued_any = TRUE]
            /\ tally' = [tally EXCEPT !.booked[job.reply] = @ + units,
                                      !.audible = @ \union {job.reply}]
         \/ /\ job' = [job EXCEPT !.chunks = @ + 1, !.discarded = TRUE]
            /\ UNCHANGED <<buf, tts_drain_wake, tally>>
  BY DEF JobChunk
<1>3. units \in Nat /\ job.reply \in ReplyIds
  BY <1>1, PlaybackAssumption DEF JobShape
<1>. DEFINE more == job.chunks + 1
<1>4. more \in Nat
  BY <1>1 DEF Jobs
<1>5. CASE /\ job' = [job EXCEPT !.chunks = @ + 1, !.discarded = TRUE]
           /\ UNCHANGED <<buf, tts_drain_wake, tally>>
  <2>1. job' = [[job EXCEPT !.chunks = more] EXCEPT !.discarded = TRUE]
    BY <1>5
  <2>. HIDE DEF more
  <2>2. job' \in Jobs /\ job'.reply = job.reply /\ job'.pc = job.pc /\ job'.gen = job.gen
    BY <1>1, <1>4, <2>1 DEF Jobs
  <2>3. job.reply \in Int
    BY <1>3 DEF ReplyIds
  <2>4. JobOn
    BY <1>1, <1>5, <2>2, <2>3 DEF JobOn, JobShape, Producing, Fresh
  <2>5. Undisturbed' => Undisturbed
    BY <1>1, <1>5 DEF passes, Undisturbed
  <2>6. Aside
    BY <1>1, <1>5, <2>4, <2>5 DEF Aside, NoneBooked, agent
  <2>. QED  BY <2>6, AsideKeeps
<1>6. CASE /\ Accepts(buf, job.gen)
           /\ buf' = Enqueue(buf, Chunk(job.reply, units))
           /\ WakeDrain
           /\ job' = [job EXCEPT !.chunks = @ + 1, !.queued_any = TRUE]
           /\ tally' = [tally EXCEPT !.booked[job.reply] = @ + units,
                                     !.audible = @ \union {job.reply}]
  <2>. DEFINE chunk == Chunk(job.reply, units)
              queue == Append(buf.queue, chunk)
  <2>1. chunk \in Chunks /\ chunk.reply = job.reply /\ chunk.units = units
    BY <1>3 DEF Chunk, Chunks
  <2>2. /\ buf' \in Buffers /\ buf'.queue = queue /\ buf'.carry = buf.carry
        /\ buf'.generation = buf.generation
    BY <1>1, <1>6, <2>1, EnqueueTyped
  <2>3. job' = [[job EXCEPT !.chunks = more] EXCEPT !.queued_any = TRUE]
    BY <1>6
  <2>. HIDE DEF more
  <2>4. job' \in Jobs /\ job'.reply = job.reply /\ job'.pc = job.pc /\ job'.gen = job.gen
    BY <1>1, <1>4, <2>3 DEF Jobs
  <2>. DEFINE books == [tally.booked EXCEPT ![job.reply] = tally.booked[job.reply] + units]
  <2>5. /\ tally'.booked = books /\ tally'.audible = tally.audible \union {job.reply}
        /\ tally'.written = tally.written /\ tally'.stale = tally.stale /\ tally'.late = tally.late
    <3>1. tally' = [[tally EXCEPT !.booked = books] EXCEPT !.audible = tally.audible \union {job.reply}]
      BY <1>6
    <3>. HIDE DEF books
    <3>. QED  BY <1>1, <3>1 DEF Tally0
  <2>6. books \in [ReplyIds -> Nat] /\ \A r \in ReplyIds :
          books[r] = IF r = job.reply THEN tally.booked[r] + units ELSE tally.booked[r]
    BY <1>1, <1>3 DEF BooksTyped
  <2>. HIDE DEF books, queue, chunk
  <2>7. Typed'
    BY <1>1, <1>3, <1>6, <2>2, <2>4, <2>5, <2>6 DEF Typed, BooksTyped, WakeDrain, agent
  <2>8. DrainShape(buf', drain') /\ JobShape'
    BY <1>1, <2>2, <2>4 DEF DrainShape, JobShape
  <2>9. job.reply \notin tally.stale
    BY <1>1, <1>6 DEF Fresh, Producing, Accepts
  <2>10. Fresh'
    <3>1. \A i \in DOMAIN queue : queue[i].reply \notin tally.stale
      <4>. DEFINE q == buf.queue
      <4>1. q \in Seq(Chunks) /\ \A i \in DOMAIN q : q[i].reply \notin tally.stale
        BY <1>1 DEF Buffers, Fresh
      <4>2. queue = Append(q, chunk) /\ chunk.reply \notin tally.stale
        BY <2>1, <2>9 DEF queue
      <4>. HIDE DEF q
      <4>. QED  BY <2>1, <4>1, <4>2
    <3>2. job.reply <= job.reply /\ job'.pc # "taken"
      BY <1>1, <1>3, <2>4 DEF ReplyIds
    <3>. QED  BY <1>1, <2>2, <2>4, <2>5, <2>9, <3>1, <3>2 DEF Fresh, Producing
  <2>11. NoAudioLost'
    <3>1. SUFFICES ASSUME Undisturbed', NEW r \in ReplyIds
                   PROVE  tally'.booked[r] = tally'.written[r] + UnitsFramed(Unwritten(drain'), {r})
                              + UnitsOf(drain'.carry, {r}) + UnitsOf(buf'.carry, {r})
                              + UnitsQueued(buf'.queue, {r})
      BY DEF NoAudioLost
    <3>2. Undisturbed
      BY <1>1, <2>2, <3>1 DEF Undisturbed, passes
    <3>3. tally.booked[r] = tally.written[r] + UnitsFramed(Unwritten(drain), {r})
                              + UnitsOf(drain.carry, {r}) + UnitsOf(buf.carry, {r})
                              + UnitsQueued(buf.queue, {r})
      BY <3>2 DEF AudioInv, NoAudioLost
    <3>4. UnitsQueued(queue, {r}) = UnitsQueued(buf.queue, {r}) + (IF r = job.reply THEN units ELSE 0)
      <4>1. UnitsOf(Units(chunk), {r}) = IF job.reply \in {r} THEN units ELSE 0
        BY <2>1, UnitsOfChunk DEF Chunks
      <4>2. buf.queue \in Seq(Chunks)
        BY <1>1 DEF Buffers
      <4>3. UnitsQueued(queue, {r}) = UnitsQueued(buf.queue, {r}) + UnitsOf(Units(chunk), {r})
        BY <2>1, <4>2, QueuedAppend DEF queue
      <4>. QED  BY <4>1, <4>3
    <3>5. /\ tally.written[r] \in Nat /\ tally.booked[r] \in Nat
          /\ UnitsFramed(Unwritten(drain), {r}) \in Nat /\ UnitsOf(drain.carry, {r}) \in Nat
          /\ UnitsOf(buf.carry, {r}) \in Nat /\ UnitsQueued(buf.queue, {r}) \in Nat
      BY <1>1, PipeNat DEF BooksTyped
    <3>6. tally'.booked[r] = tally.booked[r] + (IF r = job.reply THEN units ELSE 0)
      BY <2>5, <2>6, <3>5
    <3>7. /\ tally'.written[r] = tally.written[r] /\ drain' = drain /\ buf'.carry = buf.carry
          /\ buf'.queue = queue
      BY <1>1, <2>2, <2>5
    <3>. QED  BY <1>3, <3>3, <3>4, <3>5, <3>6, <3>7
  <2>12. StaleInReach'
    BY <1>1, <2>2, <2>5 DEF AudioInv, StaleInReach, InReach
  <2>. QED  BY <2>7, <2>8, <2>10, <2>11, <2>12 DEF AudioInv
<1>. QED  BY <1>2, <1>5, <1>6

\* mark_reply_complete touches the ledger alone.
LEMMA MarkCompleteTyped ==
    ASSUME NEW b \in Buffers, NEW r
    PROVE  /\ MarkComplete(b, r) \in Buffers
           /\ MarkComplete(b, r).queue = b.queue /\ MarkComplete(b, r).carry = b.carry
           /\ MarkComplete(b, r).generation = b.generation
<1>. DEFINE led == b.ledger
            n == Len(led)
            mine == {i \in DOMAIN led : led[i].reply = r}
            last(i) == i \in mine /\ \A j \in mine : j <= i
            next == [i \in DOMAIN led |-> IF last(i) THEN [led[i] EXCEPT !.complete = TRUE] ELSE led[i]]
<1>1. led \in Seq(Entries) /\ n \in Nat /\ DOMAIN led = 1 .. n /\ \A i \in 1 .. n : led[i] \in Entries
  BY DEF Buffers
<1>2. next \in Seq(Entries)
  <2>1. \A i \in 1 .. n : [led[i] EXCEPT !.complete = TRUE] \in Entries
    BY <1>1 DEF Entries
  <2>. HIDE DEF n, led, last
  <2>2. next \in [1 .. n -> Entries]
    BY <1>1, <2>1
  <2>. HIDE DEF next
  <2>. QED  BY <1>1, <2>2
<1>3. MarkComplete(b, r) = [b EXCEPT !.ledger = next]
  BY DEF MarkComplete
<1>. HIDE DEF next
<1>. QED  BY <1>2, <1>3 DEF Buffers

\* A job returns, or goes on with the same reply.
LEMMA JobMoved ==
    ASSUME AudioInv, job.pc \notin {"idle", "taken"}, buf'.generation = buf.generation,
           \/ JobReturns
           \/ \E pc \in JobPcs \ {"idle", "taken"} : JobGoes(pc)
    PROVE  JobOn
<1>1. job \in Jobs /\ JobShape /\ Fresh /\ buf \in Buffers
  BY DEF AudioInv, Typed
<1>2. job.reply \in Int /\ job.reply \in 0 .. Replies /\ buf.generation \in Nat
  BY <1>1, PlaybackAssumption DEF Jobs, Buffers
<1>3. CASE JobReturns
  <2>1. job' \in Jobs /\ job'.reply = job.reply /\ job'.pc = "idle" /\ job'.gen = 0
    BY <1>2, <1>3 DEF JobReturns, Job0, Jobs, JobPcs
  <2>2. JobShape'
    BY <1>2, <2>1 DEF JobShape
  <2>. QED  BY <1>2, <2>1, <2>2 DEF JobOn, Producing
<1>4. ASSUME NEW pc \in JobPcs \ {"idle", "taken"}, JobGoes(pc)
      PROVE  JobOn
  <2>1. job' \in Jobs /\ job'.reply = job.reply /\ job'.pc = pc /\ job'.gen = job.gen
    BY <1>1, <1>4 DEF JobGoes, Jobs
  <2>2. JobShape'
    BY <1>1, <2>1 DEF JobShape
  <2>. QED  BY <1>1, <1>2, <1>4, <2>1, <2>2 DEF JobOn, Producing, Fresh
<1>. QED  BY <1>3, <1>4

\* The steps of the synthesis job.
LEMMA AudioJobStep ==
    ASSUME AudioInv, SpeakInv', JobTake \/ JobRuns \/ JobChunk \/ DeadlinePasses
    PROVE  AudioInv'
<1>1. /\ buf \in Buffers /\ job \in Jobs /\ JobShape /\ Fresh /\ scope \in Scopes
      /\ tts_drain_wake \in BOOLEAN /\ tts_playback_failure_gen \in Nat /\ tts_synthesis_epoch \in Nat
      /\ DOMAIN tally = DOMAIN Tally0 /\ plan \in [Actors -> Seq(Steps)]
      /\ buf.generation \in Nat /\ job.reply \in 0 .. Replies /\ Replies \in Nat /\ job.gen \in Nat
  BY PlaybackAssumption DEF AudioInv, Typed, SpeakInv, Shape, Buffers, Jobs
<1>2. ASSUME UNCHANGED <<drain, plan, tts_playback_failure_gen, tts_synthesis_epoch>>,
             NoneBooked, JobOn, tts_drain_wake' \in BOOLEAN,
             buf' \in Buffers, buf'.queue = buf.queue, buf'.carry = buf.carry,
             buf'.generation = buf.generation
      PROVE  AudioInv'
  <2>1. Undisturbed' => Undisturbed
    BY <1>2 DEF Undisturbed
  <2>2. Aside
    BY <1>1, <1>2, <2>1 DEF Aside
  <2>. QED  BY <2>2, AsideKeeps
<1>3. ASSUME EmitDiscardedReplyEnd \/ UNCHANGED tally \/ tally' = [tally EXCEPT !.done_ok = @ \union {job.reply}]
      PROVE  NoneBooked
  BY <1>1, <1>3 DEF EmitDiscardedReplyEnd, NoneBooked, Tally0
<1>4. CASE JobTake
  <2>1. /\ job.pc = "idle" /\ job.reply < scope.replies /\ scope.replies \in 0 .. Replies
        /\ UNCHANGED <<buf, agent, tts_drain_wake, drain, passes, tally>>
    BY <1>1, <1>4, PlaybackAssumption DEF JobTake
  <2>. DEFINE next == job.reply + 1
  <2>2. next \in 1 .. Replies /\ next > job.reply
    BY <1>1, <2>1
  <2>3. job' = [[[Job0 EXCEPT !.pc = "taken"] EXCEPT !.reply = next] EXCEPT !.epoch = tts_synthesis_epoch]
    BY <1>4 DEF JobTake
  <2>. HIDE DEF next
  <2>4. job' \in Jobs /\ job'.reply = next /\ job'.pc = "taken" /\ job'.gen = 0
    <3>. DEFINE mid == [Job0 EXCEPT !.pc = "taken"]
    <3>1. mid \in Jobs /\ mid.pc = "taken" /\ mid.gen = 0
      <4>1. Job0 \in Jobs /\ Job0.gen = 0
        BY <1>1 DEF Job0, Jobs, JobPcs
      <4>. QED  BY <4>1 DEF Jobs, JobPcs
    <3>2. next \in 0 .. Replies
      BY <1>1, <2>2
    <3>. HIDE DEF mid
    <3>3. job' = [[mid EXCEPT !.reply = next] EXCEPT !.epoch = tts_synthesis_epoch]
      BY <2>3 DEF mid
    <3>. QED  BY <1>1, <3>1, <3>2, <3>3 DEF Jobs
  <2>5. JobShape'
    BY <1>1, <2>1, <2>2, <2>4 DEF JobShape, ReplyIds
  <2>6. JobOn
    BY <1>1, <2>2, <2>4, <2>5 DEF JobOn, Producing
  <2>. QED  BY <1>1, <1>2, <1>3, <2>1, <2>6 DEF agent, passes
<1>5. CASE JobReadGeneration
  <2>1. job.pc = "taken" /\ UNCHANGED <<buf, agent, tts_drain_wake, drain, passes, tally>>
    BY <1>5 DEF JobReadGeneration
  <2>2. job' = [[job EXCEPT !.pc = "read_failure"] EXCEPT !.gen = buf.generation]
    BY <1>5 DEF JobReadGeneration
  <2>3. job' \in Jobs /\ job'.reply = job.reply /\ job'.pc = "read_failure" /\ job'.gen = buf.generation
    BY <1>1, <2>2 DEF Jobs, JobPcs
  <2>4. JobShape'
    BY <1>1, <2>1, <2>3 DEF JobShape
  <2>5. job.reply \notin tally.stale
    BY <1>1, <2>1 DEF Fresh
  <2>6. JobOn
    BY <1>1, <2>3, <2>4, <2>5 DEF JobOn
  <2>. QED  BY <1>1, <1>2, <1>3, <2>1, <2>6 DEF agent, passes
<1>6. CASE JobReadFailure \/ DeadlinePasses
  <2>1. job.pc \notin {"idle", "taken"} /\ UNCHANGED <<buf, agent, tts_drain_wake, drain, passes, tally>>
    BY <1>6 DEF JobReadFailure, DeadlinePasses
  <2>2. job' \in Jobs /\ job'.reply = job.reply /\ job'.pc \notin {"idle", "taken"} /\ job'.gen = job.gen
    <3>1. CASE JobReadFailure
      <4>1. job' = [[job EXCEPT !.pc = "check_epoch"] EXCEPT !.failure_gen = tts_playback_failure_gen]
        BY <3>1 DEF JobReadFailure
      <4>. QED  BY <1>1, <4>1 DEF Jobs, JobPcs
    <3>2. CASE DeadlinePasses
      BY <1>1, <2>1, <3>2 DEF DeadlinePasses, Jobs
    <3>. QED  BY <1>6, <3>1, <3>2
  <2>3. JobShape'
    BY <1>1, <2>1, <2>2 DEF JobShape
  <2>4. JobOn
    BY <1>1, <2>1, <2>2, <2>3 DEF JobOn, Producing, Fresh
  <2>. QED  BY <1>1, <1>2, <1>3, <2>1, <2>4 DEF agent, passes
<1>7. CASE JobCheckEpoch \/ JobResult
  <2>1. job.pc \notin {"idle", "taken"} /\ UNCHANGED <<buf, agent, tts_drain_wake, drain, passes>>
    BY <1>7 DEF JobCheckEpoch, JobResult
  <2>2. NoneBooked
    BY <1>3, <1>7 DEF JobCheckEpoch, JobResult
  <2>3. JobReturns \/ \E pc \in JobPcs \ {"idle", "taken"} : JobGoes(pc)
    BY <1>7 DEF JobCheckEpoch, JobResult, JobPcs
  <2>4. JobOn
    BY <2>1, <2>3, JobMoved
  <2>. QED  BY <1>1, <1>2, <2>1, <2>2, <2>4 DEF agent, passes
<1>8. CASE JobStart \/ JobProduced \/ JobFailed
  <2>1. /\ job.pc \notin {"idle", "taken"} /\ UNCHANGED <<agent, drain, passes, tally>>
        /\ tts_drain_wake' = TRUE /\ \E on \in BOOLEAN : buf' = SetProducing(buf, on)
    BY <1>8 DEF JobStart, JobProduced, JobFailed, WakeDrain
  <2>2. /\ buf' \in Buffers /\ buf'.queue = buf.queue /\ buf'.carry = buf.carry
        /\ buf'.generation = buf.generation
    <3>1. PICK on \in BOOLEAN : buf' = SetProducing(buf, on)
      BY <2>1
    <3>. DEFINE speak == IF on THEN TRUE ELSE IF buf.queue = <<>> THEN FALSE ELSE buf.speaking
    <3>2. speak \in BOOLEAN /\ buf' = [[buf EXCEPT !.producing = on] EXCEPT !.speaking = speak]
      BY <1>1, <3>1 DEF SetProducing, Buffers
    <3>. HIDE DEF speak
    <3>. QED  BY <1>1, <3>2 DEF Buffers
  <2>3. JobReturns \/ \E pc \in JobPcs \ {"idle", "taken"} : JobGoes(pc)
    BY <1>8 DEF JobStart, JobProduced, JobFailed, JobPcs
  <2>4. JobOn
    BY <2>1, <2>2, <2>3, JobMoved
  <2>. QED  BY <1>1, <1>2, <1>3, <2>1, <2>2, <2>4 DEF agent, passes
<1>9. CASE JobComplete
  <2>1. /\ job.pc \notin {"idle", "taken"} /\ UNCHANGED <<agent, drain, passes, tally, tts_drain_wake>>
        /\ buf' = MarkComplete(buf, job.reply) /\ JobGoes("produced")
    BY <1>9 DEF JobComplete
  <2>2. /\ buf' \in Buffers /\ buf'.queue = buf.queue /\ buf'.carry = buf.carry
        /\ buf'.generation = buf.generation
    BY <1>1, <2>1, MarkCompleteTyped
  <2>3. JobOn
    BY <2>1, <2>2, JobMoved DEF JobPcs
  <2>. QED  BY <1>1, <1>2, <1>3, <2>1, <2>2, <2>3 DEF agent, passes
<1>10. CASE JobWait
  <2>1. job.pc = "wait" /\ UNCHANGED <<buf, agent, tts_drain_wake, drain, passes, tally>>
    BY <1>10 DEF JobWait
  <2>2. JobOn
    <3>1. CASE JobReturns
      BY <2>1, <3>1, JobMoved
    <3>2. CASE ~JobReturns
      <4>1. agent_speaking \in BOOLEAN
        BY DEF AudioInv, SpeakInv, Shape
      <4>2. job' = [[job EXCEPT !.pc = "wait_buffer"] EXCEPT !.saw_speaking = agent_speaking]
        BY <1>10, <3>2 DEF JobWait
      <4>3. job' \in Jobs /\ job'.reply = job.reply /\ job'.pc = "wait_buffer" /\ job'.gen = job.gen
        BY <1>1, <4>1, <4>2 DEF Jobs, JobPcs
      <4>4. JobShape'
        BY <1>1, <2>1, <4>3 DEF JobShape
      <4>. QED  BY <1>1, <2>1, <4>3, <4>4 DEF JobOn, Producing, Fresh
    <3>. QED  BY <3>1, <3>2
  <2>. QED  BY <1>1, <1>2, <1>3, <2>1, <2>2 DEF agent, passes
<1>11. CASE JobWaitBuffer
  <2>1. job.pc = "wait_buffer" /\ UNCHANGED <<buf, agent, tts_drain_wake, drain>>
    BY <1>11 DEF JobWaitBuffer
  <2>2. JobReturns \/ \E pc \in JobPcs \ {"idle", "taken"} : JobGoes(pc)
    BY <1>11 DEF JobWaitBuffer, JobPcs
  <2>3. JobOn
    BY <2>1, <2>2, JobMoved
  <2>4. NoneBooked
    BY <1>3, <1>11 DEF JobWaitBuffer
  <2>5. Undisturbed' => Undisturbed
    <3>1. CASE plan' = plan
      BY <2>1, <3>1 DEF Undisturbed
    <3>2. CASE plan' = [plan EXCEPT !["job"] = AbortPlan]
      <4>1. plan'["job"] = AbortPlan /\ "job" \in Actors
        BY <1>1, <3>2 DEF Actors
      <4>2. 2 \in DOMAIN AbortPlan /\ AbortPlan[2] = "flush"
        BY DEF AbortPlan
      <4>. QED  BY <4>1, <4>2 DEF Undisturbed
    <3>. QED  BY <1>11, <3>1, <3>2 DEF JobWaitBuffer, passes
  <2>6. Aside
    BY <1>1, <2>1, <2>3, <2>4, <2>5 DEF Aside, agent
  <2>. QED  BY <2>6, AsideKeeps
<1>12. CASE JobAborted
  <2>1. /\ job.pc = "aborting" /\ JobReturns
        /\ UNCHANGED <<buf, agent, tts_drain_wake, drain, passes, tally>>
    BY <1>12 DEF JobAborted
  <2>2. JobOn
    BY <2>1, JobMoved
  <2>. QED  BY <1>1, <1>2, <1>3, <2>1, <2>2 DEF agent, passes
<1>13. CASE JobChunk
  BY <1>13, AudioChunk
<1>14. CASE PlanStep("job")
  BY <1>14, AudioPlanStep DEF Actors
<1>. QED
  BY <1>4, <1>5, <1>6, <1>7, <1>8, <1>9, <1>10, <1>11, <1>12, <1>13, <1>14 DEF JobRuns

\* Every step keeps the invariant.
LEMMA AudioStep == AudioInv /\ [Next]_vars => AudioInv'
<1>. SUFFICES ASSUME AudioInv, [Next]_vars PROVE AudioInv'
  OBVIOUS
<1>0. SpeakInv'
  BY SpeakStep DEF AudioInv
<1>1. CASE DrainStep
  <2>1. CASE PlanStep("drain")
    BY <1>0, <2>1, AudioPlanStep DEF Actors
  <2>2. CASE ~PlanStep("drain")
    BY <1>0, <1>1, <2>2, AudioDrainStep
  <2>. QED  BY <2>1, <2>2
<1>2. CASE JobTake \/ JobRuns \/ JobChunk \/ DeadlinePasses
  BY <1>0, <1>2, AudioJobStep
<1>3. CASE \E f \in Flushers : StartFlush(f)
  BY <1>0, <1>3, AudioStartFlush
<1>4. CASE FlushStep
  BY <1>0, <1>4, AudioPlanStep DEF FlushStep, Actors
<1>5. CASE UNCHANGED vars
  <2>1. Aside
    BY <1>5 DEF vars, agent, passes, Aside, NoneBooked, JobOn, AudioInv, Typed, Undisturbed
  <2>. QED  BY <1>0, <2>1, AsideKeeps
<1>. QED  BY <1>1, <1>2, <1>3, <1>4, <1>5 DEF Next

\* The types; a drain pass and a job are of a generation the buffer has had; less
\* than a frame is carried; the ledger never books more played than queued.
THEOREM PlaybackTyped == Spec => []TypeOK
<1>1. AudioInv => TypeOK
  <2>. SUFFICES ASSUME AudioInv PROVE TypeOK
    OBVIOUS
  <2>1. drain.pc \in DrainPcs /\ job.pc \in JobPcs /\ tts_drain_wake \in BOOLEAN
    BY DEF AudioInv, Typed, Drains, Jobs
  <2>2. agent_speaking \in BOOLEAN
    BY DEF AudioInv, SpeakInv, Shape
  <2>3. /\ drain.gen <= buf.generation /\ job.gen <= buf.generation
        /\ Len(buf.carry) < FrameUnits /\ Len(drain.carry) < FrameUnits
    BY DEF AudioInv, DrainShape, JobShape
  <2>4. ASSUME NEW i \in DOMAIN buf.ledger
        PROVE  buf.ledger[i].reply \in ReplyIds /\ buf.ledger[i].played \in 0 .. buf.ledger[i].queued
    <3>1. buf.ledger \in Seq(Entries)
      BY DEF AudioInv, Typed, Buffers
    <3>2. buf.ledger[i] \in Entries
      BY <3>1
    <3>. QED  BY <3>2 DEF Entries
  <2>. QED  BY <2>1, <2>2, <2>3, <2>4 DEF TypeOK
<1>. QED  BY <1>1, AudioInit, AudioStep, PTL DEF Spec

\* Undisturbed, every unit the buffer accepted is written, in a frame, in a carry
\* or in the queue, exactly once; and whatever flushes, passes and writes
\* interleave, each flush lets at most one frame of what it cut reach the track.
THEOREM AudioKept == Spec => []AudioConserved
<1>1. AudioInv => AudioConserved
  <2>. SUFFICES ASSUME AudioInv PROVE StaleAudioBounded
    BY DEF AudioInv, AudioConserved
  <2>1. InReach(buf, drain, tally.stale) \in Nat /\ tally.late \in Nat
    BY PipeNat DEF AudioInv, Typed, BooksTyped
  <2>2. FrameUnits * buf.generation \in Nat
    BY FrameAssumption, FrameTimes DEF AudioInv, Typed, Buffers
  <2>3. tally.late + InReach(buf, drain, tally.stale) <= FrameUnits * buf.generation
    BY DEF AudioInv, StaleInReach
  <2>. QED  BY <2>1, <2>2, <2>3 DEF StaleAudioBounded
<1>. QED  BY <1>1, AudioInit, AudioStep, PTL DEF Spec

-----------------------------------------------------------------------------
(* What is told of a reply. *)

\* Who may still report the end of a reply: the ledger, the flush that took it
\* from there, or the job that was cut before it booked anything.
InLedger(b, r) == \E i \in DOMAIN b.ledger : b.ledger[i].reply = r
InFlushed(b, r) == \E i \in DOMAIN b.flushed : b.flushed[i] = r
NotEnded(r) == tally.ends[r] = 0 /\ ~InLedger(buf, r) /\ ~InFlushed(buf, r)
Early == {"taken", "read_failure", "check_epoch", "start"}
Cuttable == Early \union {"synthesize", "produced", "result"}

ReportsTyped ==
    /\ tally.ends \in [ReplyIds -> 0 .. 1]
    /\ tally.played \subseteq ReplyIds /\ tally.done_ok \subseteq ReplyIds

\* The replies of a ledger are in the order of their jobs, and only that of the job
\* at work may be incomplete.
Rising(ledger) == \A i, j \in DOMAIN ledger : i < j => ledger[i].reply < ledger[j].reply
EntryShape(e) ==
    /\ e.queued > 0 /\ (e.played > 0 => e.started)
    /\ e.reply <= job.reply
    /\ ~e.complete => job.pc = "synthesize" /\ e.reply = job.reply
LedgerShape == Rising(buf.ledger) /\ \A i \in DOMAIN buf.ledger : EntryShape(buf.ledger[i])

Once(s) == \A i, j \in DOMAIN s : s[i] = s[j] => i = j
EndsWith(ledger, r) ==
    LET n == Len(ledger) IN n > 0 /\ ledger[n].reply = r /\ ~ledger[n].complete
OneOwner ==
    /\ Once(buf.flushed)
    /\ \A r \in ReplyIds :
         /\ ~(InLedger(buf, r) /\ InFlushed(buf, r))
         /\ tally.ends[r] = 1 => ~InLedger(buf, r) /\ ~InFlushed(buf, r)
         /\ r > job.reply => NotEnded(r)
    /\ job.pc \in Cuttable /\ ~job.queued_any => NotEnded(job.reply)
    /\ job.pc \in Early => ~job.queued_any
    /\ job.pc = "synthesize" /\ job.queued_any /\ job.gen = buf.generation => EndsWith(buf.ledger, job.reply)
    /\ \A r \in tally.audible : tally.ends[r] = 1 \/ InLedger(buf, r) \/ InFlushed(buf, r)
    /\ buf.generation = 0 => buf.flushed = <<>>

Owned == ReportsTyped /\ LedgerShape /\ OneOwner

-----------------------------------------------------------------------------
(* consume_played, entry by entry. *)

\* An entry that is booked in part.
Booked(e, take) == [e EXCEPT !.played = @ + take, !.started = @ \/ take > 0]
Open(e) == e.queued - e.played
Least(a, b) == IF a < b THEN a ELSE b

\* An entry booked in part differs in what was played of it and in having started.
LEMMA BookedIs ==
    ASSUME NEW e \in Entries, NEW take \in Nat, take <= Open(e)
    PROVE  LET d == Booked(e, take)
           IN  /\ d \in Entries
               /\ d.reply = e.reply /\ d.queued = e.queued /\ d.complete = e.complete
               /\ d.played = e.played + take /\ (d.started <=> e.started \/ take > 0)
<1>. DEFINE play == e.played + take
            begun == e.started \/ take > 0
            mid == [e EXCEPT !.played = play]
            d == Booked(e, take)
<1>1. /\ e \in [reply : ReplyIds, queued : Nat, played : Nat, started : BOOLEAN, complete : BOOLEAN]
      /\ play \in Nat /\ play <= e.queued /\ begun \in BOOLEAN
  BY DEF Entries, Open
<1>2. d = [mid EXCEPT !.started = begun]
  BY DEF Booked
<1>. HIDE DEF play, begun
<1>3. /\ mid \in [reply : ReplyIds, queued : Nat, played : Nat, started : BOOLEAN, complete : BOOLEAN]
      /\ mid.played = play /\ mid.queued = e.queued /\ mid.reply = e.reply
      /\ mid.complete = e.complete /\ mid.started = e.started
  BY <1>1
<1>. HIDE DEF mid, d
<1>4. /\ d \in [reply : ReplyIds, queued : Nat, played : Nat, started : BOOLEAN, complete : BOOLEAN]
      /\ d.played = play /\ d.queued = e.queued /\ d.reply = e.reply
      /\ d.complete = e.complete /\ d.started = begun
  BY <1>1, <1>2, <1>3
<1>5. d \in Entries
  BY <1>1, <1>4 DEF Entries
<1>. QED  BY <1>4, <1>5 DEF d, play, begun

\* What one pass makes of an entry: it stays, booked in part, or it ends.
Stays(acc, next, e) ==
    /\ next.ledger = Append(acc.ledger, e) /\ next.ended = acc.ended /\ next.stopped
Ends(acc, next, entry) ==
    /\ ~acc.stopped /\ ~next.stopped /\ entry.complete
    /\ next.ledger = acc.ledger /\ next.ended = acc.ended \union {entry.reply}

\* What one pass of the loop of consume_played does with its entry: it stays, booked in
\* part or not at all, or it ends.
LEMMA BookOne ==
    ASSUME NEW acc \in Accs, NEW entry \in Entries
    PROVE  LET take == Least(acc.left, Open(entry))
               next == BookEntry(acc, entry)
           IN  /\ take \in Nat /\ take <= Open(entry) /\ take <= acc.left
               /\ acc.stopped => Stays(acc, next, entry) /\ next.left = acc.left
               /\ ~acc.stopped =>
                    /\ next.left = acc.left - take
                    /\ IF IsOver(Booked(entry, take)) THEN Ends(acc, next, entry)
                       ELSE Stays(acc, next, Booked(entry, take))
<1>. DEFINE take == Least(acc.left, Open(entry))
            next == BookEntry(acc, entry)
            d == Booked(entry, take)
<1>1. /\ entry \in [reply : ReplyIds, queued : Nat, played : Nat, started : BOOLEAN, complete : BOOLEAN]
      /\ entry.played <= entry.queued
      /\ acc \in Accs /\ acc.left \in Nat /\ acc.stopped \in BOOLEAN
  BY DEF Entries, Accs
<1>2. take \in Nat /\ take <= Open(entry) /\ take <= acc.left
  BY <1>1 DEF Least, Open
<1>3. next = IF acc.stopped THEN [acc EXCEPT !.ledger = Append(@, entry)]
             ELSE [ledger |-> IF IsOver(d) THEN acc.ledger ELSE Append(acc.ledger, d),
                   left |-> acc.left - take, stopped |-> ~IsOver(d),
                   started |-> IF take > 0 /\ ~entry.started THEN acc.started \union {entry.reply} ELSE acc.started,
                   ended |-> IF IsOver(d) THEN acc.ended \union {entry.reply} ELSE acc.ended]
  BY DEF BookEntry, Booked, Least, Open
<1>. HIDE DEF take, next
<1>4. d.complete = entry.complete
  BY <1>2, BookedIs
<1>. HIDE DEF d
<1>5. acc.stopped => Stays(acc, next, entry) /\ next.left = acc.left
  BY <1>1, <1>3 DEF Stays, Accs
<1>6. ~acc.stopped => next.left = acc.left - take
  BY <1>1, <1>3
<1>7. ~acc.stopped /\ IsOver(d) => Ends(acc, next, entry)
  BY <1>1, <1>3, <1>4 DEF Ends, IsOver
<1>8. ~acc.stopped /\ ~IsOver(d) => Stays(acc, next, d)
  BY <1>1, <1>3 DEF Stays
<1>. QED  BY <1>2, <1>5, <1>6, <1>7, <1>8 DEF take, next, d
\* What k passes have made of a ledger: the entries that are left are as they were but for
\* what was played of them, in their order; the others are complete, and have ended.
Derived(e, d) ==
    /\ e.reply = d.reply /\ e.queued = d.queued /\ e.complete = d.complete
    /\ (d.played > 0 => d.started) => (e.played > 0 => e.started)
BookedTo(led, k, acc) ==
    /\ \A a \in DOMAIN acc.ledger : \E i \in 1 .. k : Derived(acc.ledger[a], led[i])
    /\ Rising(acc.ledger)
    /\ \A i \in 1 .. k :
         \/ led[i].reply \notin acc.ended /\ \E a \in DOMAIN acc.ledger : acc.ledger[a].reply = led[i].reply
         \/ /\ led[i].reply \in acc.ended /\ led[i].complete
            /\ \A a \in DOMAIN acc.ledger : acc.ledger[a].reply # led[i].reply
    /\ \A r \in acc.ended : \E i \in 1 .. k : led[i].reply = r
    /\ k > 0 /\ ~led[k].complete => EndsWith(acc.ledger, led[k].reply)

\* One more entry.
LEMMA BookedNext ==
    ASSUME NEW led \in Seq(Entries), Rising(led), NEW k \in Nat, k + 1 <= Len(led),
           NEW acc \in Accs, BookedTo(led, k, acc)
    PROVE  BookedTo(led, k + 1, BookEntry(acc, led[k + 1]))
<1>. DEFINE entry == led[k + 1]
            next == BookEntry(acc, entry)
            n == Len(acc.ledger)
<1>1. /\ DOMAIN led = 1 .. Len(led) /\ Len(led) \in Nat /\ k + 1 \in 1 .. Len(led)
      /\ entry \in Entries /\ \A i \in 1 .. k : i \in 1 .. Len(led) /\ i < k + 1 /\ led[i] \in Entries
      /\ acc.ledger \in Seq(Entries) /\ n \in Nat /\ DOMAIN acc.ledger = 1 .. n
      /\ \A a \in 1 .. n : acc.ledger[a] \in Entries
  BY DEF Accs
<1>2. \A i \in 1 .. k : led[i].reply < entry.reply /\ led[i].reply # entry.reply /\ led[i].reply \in Int
  <2>. TAKE i \in 1 .. k
  <2>1. led[i].reply < entry.reply
    BY <1>1 DEF Rising
  <2>2. led[i].reply \in Int /\ entry.reply \in Int
    BY <1>1 DEF Entries, ReplyIds
  <2>. QED  BY <2>1, <2>2
<1>3. \A a \in 1 .. n : acc.ledger[a].reply < entry.reply /\ acc.ledger[a].reply # entry.reply
  <2>. TAKE a \in 1 .. n
  <2>1. PICK i \in 1 .. k : acc.ledger[a].reply = led[i].reply
    BY <1>1 DEF BookedTo, Derived
  <2>. QED  BY <1>2, <2>1
<1>4. entry.reply \notin acc.ended
  BY <1>2 DEF BookedTo
<1>5. 1 .. (k + 1) = (1 .. k) \cup {k + 1}
  OBVIOUS
<1>. HIDE DEF entry
<1>6. \/ \E e \in Entries : Derived(e, entry) /\ Stays(acc, next, e)
      \/ Ends(acc, next, entry)
  <2>. DEFINE take == Least(acc.left, Open(entry))
  <2>1. /\ take \in Nat /\ take <= Open(entry)
        /\ acc.stopped => Stays(acc, next, entry)
        /\ ~acc.stopped => IF IsOver(Booked(entry, take)) THEN Ends(acc, next, entry)
                                   ELSE Stays(acc, next, Booked(entry, take))
    BY <1>1, BookOne
  <2>. HIDE DEF take, next
  <2>2. Booked(entry, take) \in Entries /\ Derived(Booked(entry, take), entry)
    <3>. DEFINE d == Booked(entry, take)
    <3>1. d \in Entries /\ d.reply = entry.reply /\ d.queued = entry.queued /\ d.complete = entry.complete
          /\ d.played = entry.played + take /\ (d.started <=> entry.started \/ take > 0)
      BY <1>1, <2>1, BookedIs
    <3>2. entry.played \in Nat
      BY <1>1 DEF Entries
    <3>. HIDE DEF d
    <3>3. d \in Entries /\ Derived(d, entry)
      BY <2>1, <3>1, <3>2 DEF Derived
    <3>. QED  BY <3>3 DEF d
  <2>3. Derived(entry, entry)
    BY DEF Derived
  <2>. QED  BY <1>1, <2>1, <2>2, <2>3
<1>. HIDE DEF next, n
<1>7. ASSUME NEW e \in Entries, Derived(e, entry), Stays(acc, next, e)
      PROVE  BookedTo(led, k + 1, next)
  <2>1. /\ next.ledger \in Seq(Entries) /\ Len(next.ledger) = n + 1 /\ DOMAIN next.ledger = 1 .. (n + 1)
        /\ \A a \in 1 .. n : next.ledger[a] = acc.ledger[a]
        /\ next.ledger[n + 1] = e /\ next.ended = acc.ended
    BY <1>1, <1>7 DEF Stays, n
  <2>2. e.reply = entry.reply /\ e.complete = entry.complete
    BY <1>7 DEF Derived
  <2>3. \A a \in 1 .. (n + 1) : a \in 1 .. n \/ a = n + 1
    BY <1>1
  <2>4. \A a \in DOMAIN next.ledger : \E i \in 1 .. (k + 1) : Derived(next.ledger[a], led[i])
    <3>. TAKE a \in DOMAIN next.ledger
    <3>1. CASE a \in 1 .. n
      <4>1. PICK i \in 1 .. k : Derived(acc.ledger[a], led[i])
        BY <1>1, <3>1 DEF BookedTo
      <4>. QED  BY <1>5, <2>1, <3>1, <4>1
    <3>2. CASE a = n + 1
      BY <1>1, <1>7, <2>1, <3>2 DEF entry
    <3>. QED  BY <2>1, <2>3, <3>1, <3>2
  <2>5. Rising(next.ledger)
    <3>. SUFFICES ASSUME NEW a \in 1 .. (n + 1), NEW b \in 1 .. (n + 1), a < b
                  PROVE  next.ledger[a].reply < next.ledger[b].reply
      BY <2>1 DEF Rising
    <3>1. a \in 1 .. n
      BY <1>1
    <3>2. CASE b \in 1 .. n
      BY <1>1, <2>1, <3>1, <3>2 DEF BookedTo, Rising
    <3>3. CASE b = n + 1
      BY <1>3, <2>1, <2>2, <3>1, <3>3
    <3>. QED  BY <2>3, <3>2, <3>3
  <2>6. ASSUME NEW i \in 1 .. (k + 1)
        PROVE  \/ led[i].reply \notin next.ended /\ \E a \in DOMAIN next.ledger : next.ledger[a].reply = led[i].reply
               \/ /\ led[i].reply \in next.ended /\ led[i].complete
                  /\ \A a \in DOMAIN next.ledger : next.ledger[a].reply # led[i].reply
    <3>1. CASE i = k + 1
      <4>1. n + 1 \in DOMAIN next.ledger
        BY <1>1, <2>1
      <4>. QED  BY <1>4, <2>1, <2>2, <3>1, <4>1 DEF entry
    <3>2. CASE i \in 1 .. k /\ led[i].reply \notin acc.ended
      <4>1. PICK a \in 1 .. n : acc.ledger[a].reply = led[i].reply
        BY <1>1, <3>2 DEF BookedTo
      <4>2. a \in DOMAIN next.ledger /\ next.ledger[a].reply = led[i].reply
        BY <1>1, <2>1, <4>1
      <4>. QED  BY <2>1, <3>2, <4>2
    <3>3. CASE i \in 1 .. k /\ led[i].reply \in acc.ended
      <4>1. led[i].complete /\ \A a \in 1 .. n : acc.ledger[a].reply # led[i].reply
        BY <1>1, <3>3 DEF BookedTo
      <4>. QED  BY <1>2, <2>1, <2>2, <2>3, <3>3, <4>1
    <3>. QED  BY <1>5, <3>1, <3>2, <3>3
  <2>7. \A r \in next.ended : \E i \in 1 .. (k + 1) : led[i].reply = r
    BY <1>5, <2>1 DEF BookedTo
  <2>8. ~led[k + 1].complete => EndsWith(next.ledger, led[k + 1].reply)
    BY <1>1, <2>1, <2>2 DEF EndsWith, entry
  <2>. QED  BY <2>4, <2>5, <2>6, <2>7, <2>8 DEF BookedTo
<1>8. CASE Ends(acc, next, entry)
  <2>1. entry.complete /\ next.ledger = acc.ledger /\ next.ended = acc.ended \union {entry.reply}
    BY <1>8 DEF Ends
  <2>2. \A a \in DOMAIN next.ledger : \E i \in 1 .. (k + 1) : Derived(next.ledger[a], led[i])
    BY <1>5, <2>1 DEF BookedTo
  <2>3. ASSUME NEW i \in 1 .. (k + 1)
        PROVE  \/ led[i].reply \notin next.ended /\ \E a \in DOMAIN next.ledger : next.ledger[a].reply = led[i].reply
               \/ /\ led[i].reply \in next.ended /\ led[i].complete
                  /\ \A a \in DOMAIN next.ledger : next.ledger[a].reply # led[i].reply
    <3>1. CASE i = k + 1
      BY <1>1, <1>3, <2>1, <3>1 DEF entry
    <3>2. CASE i \in 1 .. k
      BY <1>2, <2>1, <3>2 DEF BookedTo
    <3>. QED  BY <1>5, <3>1, <3>2
  <2>4. \A r \in next.ended : \E i \in 1 .. (k + 1) : led[i].reply = r
    BY <1>5, <2>1 DEF BookedTo, entry
  <2>5. Rising(next.ledger) /\ ~(~led[k + 1].complete)
    BY <2>1 DEF BookedTo, entry
  <2>6. BookedTo(led, k + 1, next)
    BY <2>2, <2>3, <2>4, <2>5 DEF BookedTo
  <2>. QED  BY <2>6 DEF next, entry
<1>. QED  BY <1>6, <1>7, <1>8 DEF next, entry

\* What consume_played makes of a ledger, however much is booked.
LEMMA ConsumeKeeps ==
    ASSUME NEW led \in Seq(Entries), Rising(led), NEW n \in Nat
    PROVE  BookedTo(led, Len(led), ConsumePlayed(led, n))
<1>1. PICK f \in [0 .. Len(led) -> Accs] :
           /\ f[0] = Acc0(n)
           /\ \A i \in 1 .. Len(led) : f[i] = BookEntry(f[i - 1], led[i])
           /\ ConsumePlayed(led, n) = f[Len(led)]
  BY ConsumeRuns
<1>. DEFINE T == {k \in Nat : k <= Len(led) => BookedTo(led, k, f[k])}
<1>2. Len(led) \in Nat
  OBVIOUS
<1>3. 0 \in T
  <2>1. BookedTo(led, 0, Acc0(n))
    BY DEF BookedTo, Acc0, Rising
  <2>. QED  BY <1>1, <2>1
<1>4. ASSUME NEW k \in Nat, k \in T PROVE k + 1 \in T
  <2>. SUFFICES ASSUME k + 1 <= Len(led) PROVE BookedTo(led, k + 1, f[k + 1])
    OBVIOUS
  <2>1. k + 1 \in 1 .. Len(led) /\ (k + 1) - 1 = k /\ k \in 0 .. Len(led) /\ BookedTo(led, k, f[k])
    BY <1>2, <1>4
  <2>2. f[k + 1] = BookEntry(f[k], led[k + 1]) /\ f[k] \in Accs
    BY <1>1, <2>1
  <2>. QED  BY <2>1, <2>2, BookedNext
<1>5. Len(led) \in T
  <2>. HIDE DEF T
  <2>. QED  BY <1>2, <1>3, <1>4, Inductive
<1>. QED  BY <1>1, <1>2, <1>5

-----------------------------------------------------------------------------
(* One owner for the end of each reply. *)

\* The job goes on with its reply.
JobSame ==
    /\ job'.reply = job.reply
    /\ job.pc = "synthesize" => job'.pc = "synthesize"
    /\ job'.pc \in Cuttable /\ ~job'.queued_any => job.pc \in Cuttable /\ ~job.queued_any
    /\ job'.pc \in Early => ~job'.queued_any
    /\ job'.pc = "synthesize" /\ job'.queued_any =>
         job.pc = "synthesize" /\ job.queued_any /\ job'.gen = job.gen

LedgerSame ==
    /\ buf'.ledger = buf.ledger /\ buf'.flushed = buf.flushed /\ buf'.generation = buf.generation
ToldTyped == tally'.played \subseteq ReplyIds /\ tally'.done_ok \subseteq ReplyIds

\* A step that reports no end and leaves the ledger alone.
LEMMA OwnedKept ==
    ASSUME Owned, LedgerSame, JobSame, tally'.ends = tally.ends, tally'.audible = tally.audible, ToldTyped
    PROVE  Owned'
<1>1. ReportsTyped'
  BY DEF Owned, ReportsTyped, ToldTyped
<1>2. LedgerShape'
  BY DEF Owned, LedgerSame, LedgerShape, EntryShape, JobSame
<1>3. \A r : /\ InLedger(buf, r)' <=> InLedger(buf, r)
             /\ InFlushed(buf, r)' <=> InFlushed(buf, r)
             /\ NotEnded(r)' <=> NotEnded(r)
  BY DEF InLedger, InFlushed, NotEnded, LedgerSame
<1>4. OneOwner'
  <2>1. Once(buf'.flushed) /\ (buf'.generation = 0 => buf'.flushed = <<>>)
    BY DEF Owned, OneOwner, LedgerSame
  <2>2. \A r \in ReplyIds :
          /\ ~(InLedger(buf, r)' /\ InFlushed(buf, r)')
          /\ tally'.ends[r] = 1 => ~InLedger(buf, r)' /\ ~InFlushed(buf, r)'
          /\ r > job'.reply => NotEnded(r)'
    BY <1>3 DEF Owned, OneOwner, JobSame
  <2>3. (job.pc \in Cuttable /\ ~job.queued_any => NotEnded(job.reply))'
    <3>. SUFFICES ASSUME job'.pc \in Cuttable, ~job'.queued_any PROVE NotEnded(job.reply)'
      OBVIOUS
    <3>1. NotEnded(job.reply)
      BY DEF JobSame, Owned, OneOwner
    <3>. QED  BY <3>1 DEF JobSame, NotEnded, InLedger, InFlushed, LedgerSame
  <2>4. job'.pc \in Early => ~job'.queued_any
    BY DEF JobSame
  <2>5. job'.pc = "synthesize" /\ job'.queued_any /\ job'.gen = buf'.generation => EndsWith(buf'.ledger, job'.reply)
    BY DEF Owned, OneOwner, JobSame, LedgerSame
  <2>6. \A r \in tally'.audible : tally'.ends[r] = 1 \/ InLedger(buf, r)' \/ InFlushed(buf, r)'
    BY <1>3 DEF Owned, OneOwner
  <2>. QED  BY <2>1, <2>2, <2>3, <2>4, <2>5, <2>6 DEF OneOwner
<1>. QED  BY <1>1, <1>2, <1>4 DEF Owned

\* Nothing is booked, flushed or reported at the start.
LEMMA OwnedInit == Init => Owned
<1>. SUFFICES ASSUME Init PROVE Owned
  OBVIOUS
<1>1. /\ buf.ledger = <<>> /\ buf.flushed = <<>> /\ job.pc = "idle" /\ job.reply = 0
      /\ tally.ends = NoUnits /\ tally.played = {} /\ tally.done_ok = {} /\ tally.audible = {}
  BY DEF Init, Buffer0, Job0, Tally0
<1>2. ReportsTyped /\ LedgerShape
  BY <1>1 DEF ReportsTyped, NoUnits, LedgerShape, Rising
<1>3. \A r \in ReplyIds : NotEnded(r)
  BY <1>1 DEF NotEnded, NoUnits, InLedger, InFlushed
<1>4. OneOwner
  BY <1>1, <1>3 DEF OneOwner, Once, Cuttable, Early, InLedger, NoUnits
<1>. QED  BY <1>2, <1>4 DEF Owned

\* The steps of the drain but those that book.
Booking == DrainBook \/ DrainSettleBook
DrainQuiet ==
    /\ LedgerSame /\ job' = job /\ buf'.producing = buf.producing
    /\ tally'.ends = tally.ends /\ tally'.audible = tally.audible
    /\ tally'.played = tally.played /\ tally'.done_ok = tally.done_ok /\ tally'.booked = tally.booked

\* Outside its bookings the drain tells nothing of a reply.
LEMMA DrainIsQuiet ==
    ASSUME AudioInv, DrainStep, ~Booking, ~PlanStep("drain")
    PROVE  DrainQuiet
<1>1. /\ buf \in Buffers /\ DOMAIN tally = DOMAIN Tally0
  BY DEF AudioInv, Typed, SpeakInv, Shape
<1>2. /\ job' = job
      /\ \/ buf' = buf
         \/ buf' = TakeCarry(buf) \/ buf' = Pop(buf) \/ buf' = DropHold(buf)
         \/ buf' = DropHold(StoreCarry(buf, drain.carry))
  BY DEF DrainStep, Booking, DrainBegin, DrainReadSpeaking, DrainTakeCarry, DrainPop, DrainDry,
         DrainDryGeneration, DrainPause, DrainTail, DrainTailGeneration, DrainStore, DrainSettle,
         DrainClose, DrainFrame, DrainEmitStart, DrainCheck, DrainWrite, DrainWriteFails,
         DrainPace, DrainStopped
<1>3. \/ tally' = tally
      \/ tally' = [tally EXCEPT !.speaking = @ + 1]
      \/ tally' = [tally EXCEPT !.written = [r \in ReplyIds |-> @[r] + UnitsOf(Head(drain.frames), {r})],
                                !.late = @ + UnitsOf(Head(drain.frames), tally.stale)]
  BY DEF DrainStep, Booking, DrainBegin, DrainReadSpeaking, DrainTakeCarry, DrainPop, DrainDry,
         DrainDryGeneration, DrainPause, DrainTail, DrainTailGeneration, DrainStore, DrainSettle,
         DrainClose, DrainFrame, DrainEmitStart, DrainCheck, DrainWrite, DrainWriteFails,
         DrainPace, DrainStopped
<1>4. /\ tally'.ends = tally.ends /\ tally'.audible = tally.audible /\ tally'.booked = tally.booked
      /\ tally'.played = tally.played /\ tally'.done_ok = tally.done_ok
  BY <1>1, <1>3 DEF Tally0
<1>5. LedgerSame /\ buf'.producing = buf.producing
  <2>1. CASE buf' = DropHold(StoreCarry(buf, drain.carry))
    <3>1. buf' = [[buf EXCEPT !.carry = drain.carry] EXCEPT !.held = FALSE]
      BY <2>1 DEF DropHold, StoreCarry
    <3>. QED  BY <1>1, <3>1 DEF Buffers, LedgerSame
  <2>2. CASE buf' = Pop(buf)
    BY <1>1, <2>2 DEF Pop, Buffers, LedgerSame
  <2>3. CASE buf' = buf \/ buf' = TakeCarry(buf) \/ buf' = DropHold(buf)
    BY <1>1, <2>3 DEF TakeCarry, DropHold, Buffers, LedgerSame
  <2>. QED  BY <1>2, <2>1, <2>2, <2>3
<1>. QED  BY <1>2, <1>4, <1>5 DEF DrainQuiet

\* A job that stays the same does as well.
LEMMA JobStays ==
    ASSUME Owned, job' = job
    PROVE  JobSame
BY DEF Owned, OneOwner, JobSame

\* The drain outside its bookings.
LEMMA OwnedDrainQuiet ==
    ASSUME Owned, DrainQuiet
    PROVE  Owned'
<1>1. JobSame
  BY JobStays DEF DrainQuiet
<1>2. ToldTyped
  BY DEF Owned, ReportsTyped, DrainQuiet, ToldTyped
<1>. QED  BY <1>1, <1>2, OwnedKept DEF DrainQuiet

\* What is booked and reported in one step of the drain.
LEMMA BooksSome ==
    ASSUME AudioInv, Booking
    PROVE  \E n \in Nat : /\ Book(n) /\ job' = job
                          /\ drain.pc = "settle_book" => n = 0
                          /\ drain.pc = "book" => n = Len(Head(drain.frames)) /\ Head(drain.frames) \in Audio
<1>1. DrainShape(buf, drain) /\ drain \in Drains
  BY DEF AudioInv, Typed
<1>2. CASE DrainSettleBook
  BY <1>2 DEF DrainSettleBook
<1>3. CASE DrainBook
  <2>1. drain.frames # <<>> /\ drain.frames \in Seq(Audio)
    BY <1>1, <1>3 DEF DrainBook, DrainShape, WithFrame, FramesOk
  <2>2. Head(drain.frames) \in Audio /\ Len(Head(drain.frames)) \in Nat
    <3>1. Head(drain.frames) \in Audio
      BY <2>1, FramedTail
    <3>. QED  BY <3>1 DEF Audio
  <2>. QED  BY <1>3, <2>2 DEF DrainBook
<1>. QED  BY <1>2, <1>3 DEF Booking

\* The tally after a Book.
LEMMA BookTells ==
    ASSUME AudioInv, Owned, NEW n \in Nat, Book(n)
    PROVE  LET done == ConsumePlayed(buf.ledger, n)
           IN  /\ done \in Accs
               /\ buf' \in Buffers /\ buf'.ledger = done.ledger /\ buf'.flushed = buf.flushed
               /\ buf'.generation = buf.generation /\ buf'.producing = buf.producing
               /\ buf'.queue = buf.queue /\ buf'.carry = buf.carry
               /\ tally'.ends = [r \in ReplyIds |-> tally.ends[r] + IF r \in done.ended THEN 1 ELSE 0]
               /\ tally'.played = tally.played \union done.ended
               /\ tally'.audible = tally.audible /\ tally'.done_ok = tally.done_ok
               /\ tally'.booked = tally.booked /\ tally'.written = tally.written
<1>. DEFINE done == ConsumePlayed(buf.ledger, n)
            ends == [r \in ReplyIds |-> tally.ends[r] + IF r \in done.ended THEN 1 ELSE 0]
<1>1. buf \in Buffers /\ DOMAIN tally = DOMAIN Tally0 /\ buf.ledger \in Seq(Entries)
  BY DEF AudioInv, Typed, SpeakInv, Shape, Buffers
<1>2. done \in Accs
  BY <1>1, ConsumeTyped
<1>3. /\ buf' = [buf EXCEPT !.ledger = done.ledger]
      /\ tally' = [tally EXCEPT !.started = tally.started \union done.started,
                                !.played = tally.played \union done.ended, !.ends = ends]
  BY DEF Book
<1>. HIDE DEF done, ends
<1>4. buf' \in Buffers /\ buf'.ledger = done.ledger /\ buf'.flushed = buf.flushed
      /\ buf'.generation = buf.generation /\ buf'.producing = buf.producing
      /\ buf'.queue = buf.queue /\ buf'.carry = buf.carry
  BY <1>1, <1>2, <1>3 DEF Buffers, Accs
<1>5. /\ tally'.ends = ends /\ tally'.played = tally.played \union done.ended
      /\ tally'.audible = tally.audible /\ tally'.done_ok = tally.done_ok
      /\ tally'.booked = tally.booked /\ tally'.written = tally.written
  BY <1>1, <1>3 DEF Tally0
<1>. QED  BY <1>2, <1>4, <1>5 DEF done, ends

\* Booking ends the replies it takes out of the ledger.
LEMMA OwnedBooking ==
    ASSUME AudioInv, Owned, Booking
    PROVE  Owned'
<1>1. PICK n \in Nat : Book(n) /\ job' = job
  BY BooksSome
<1>. DEFINE done == ConsumePlayed(buf.ledger, n)
            led == buf.ledger
            m == Len(led)
<1>2. /\ done \in Accs /\ buf'.ledger = done.ledger /\ buf'.flushed = buf.flushed
      /\ buf'.generation = buf.generation
      /\ tally'.ends = [r \in ReplyIds |-> tally.ends[r] + IF r \in done.ended THEN 1 ELSE 0]
      /\ tally'.played = tally.played \union done.ended
      /\ tally'.audible = tally.audible /\ tally'.done_ok = tally.done_ok
  BY <1>1, BookTells
<1>3. led \in Seq(Entries) /\ m \in Nat /\ DOMAIN led = 1 .. m /\ Rising(led)
      /\ \A i \in 1 .. m : EntryShape(led[i]) /\ led[i] \in Entries
  BY DEF AudioInv, Typed, Buffers, Owned, LedgerShape
<1>4. BookedTo(led, m, done)
  BY <1>1, <1>3, ConsumeKeeps
<1>. HIDE DEF done, led, m
<1>5. \A a \in DOMAIN done.ledger : \E i \in 1 .. m : Derived(done.ledger[a], led[i])
  BY <1>4 DEF BookedTo
<1>6. \A r : r \in done.ended => InLedger(buf, r) /\ r \in ReplyIds /\ ~InLedger(buf, r)'
  <2>. TAKE r
  <2>. SUFFICES ASSUME r \in done.ended PROVE InLedger(buf, r) /\ r \in ReplyIds /\ ~InLedger(buf, r)'
    OBVIOUS
  <2>1. PICK i \in 1 .. m : led[i].reply = r
    BY <1>4 DEF BookedTo
  <2>2. \A a \in DOMAIN done.ledger : done.ledger[a].reply # r
    BY <1>4, <2>1 DEF BookedTo
  <2>. QED  BY <1>2, <1>3, <2>1, <2>2 DEF InLedger, led, Entries
<1>7. \A r : InLedger(buf, r)' => InLedger(buf, r)
  BY <1>2, <1>3, <1>5 DEF InLedger, Derived, led
<1>8. \A r : InLedger(buf, r) => InLedger(buf, r)' \/ r \in done.ended
  <2>. TAKE r
  <2>. SUFFICES ASSUME InLedger(buf, r), r \notin done.ended PROVE InLedger(buf, r)'
    OBVIOUS
  <2>1. PICK i \in 1 .. m : led[i].reply = r
    BY <1>3 DEF InLedger, led
  <2>2. PICK a \in DOMAIN done.ledger : done.ledger[a].reply = r
    BY <1>4, <2>1 DEF BookedTo
  <2>. QED  BY <1>2, <2>2 DEF InLedger
<1>9. \A r : InFlushed(buf, r)' <=> InFlushed(buf, r)
  BY <1>2 DEF InFlushed
<1>10. \A r \in ReplyIds : tally.ends[r] \in 0 .. 1 /\ (r \in done.ended => tally.ends[r] = 0)
  BY <1>6 DEF Owned, ReportsTyped, OneOwner
<1>11. \A r \in ReplyIds : tally'.ends[r] = IF r \in done.ended THEN 1 ELSE tally.ends[r]
  BY <1>2, <1>10
<1>12. ReportsTyped'
  <2>1. tally'.ends \in [ReplyIds -> 0 .. 1]
    BY <1>2, <1>10
  <2>. QED  BY <1>2, <1>6, <2>1 DEF Owned, ReportsTyped
<1>13. LedgerShape'
  <2>1. Rising(buf'.ledger)
    BY <1>2, <1>4 DEF BookedTo
  <2>2. ASSUME NEW a \in DOMAIN buf'.ledger PROVE EntryShape(buf.ledger[a])'
    <3>1. PICK i \in 1 .. m : Derived(done.ledger[a], led[i])
      BY <1>2, <1>5
    <3>. QED  BY <1>1, <1>2, <1>3, <3>1 DEF EntryShape, Derived
  <2>. QED  BY <2>1, <2>2 DEF LedgerShape
<1>14. OneOwner'
  <2>1. Once(buf'.flushed) /\ (buf'.generation = 0 => buf'.flushed = <<>>)
    BY <1>2 DEF Owned, OneOwner
  <2>2. \A r \in ReplyIds : NotEnded(r) => NotEnded(r)'
    BY <1>6, <1>7, <1>9, <1>11 DEF NotEnded
  <2>3. ASSUME NEW r \in ReplyIds
        PROVE  /\ ~(InLedger(buf, r)' /\ InFlushed(buf, r)')
               /\ tally'.ends[r] = 1 => ~InLedger(buf, r)' /\ ~InFlushed(buf, r)'
               /\ r > job'.reply => NotEnded(r)'
    <3>1. /\ ~(InLedger(buf, r) /\ InFlushed(buf, r))
          /\ tally.ends[r] = 1 => ~InLedger(buf, r) /\ ~InFlushed(buf, r)
          /\ r > job.reply => NotEnded(r)
      BY DEF Owned, OneOwner
    <3>. QED  BY <1>1, <1>6, <1>7, <1>9, <1>11, <2>2, <3>1
  <2>4. (job.pc \in Cuttable /\ ~job.queued_any => NotEnded(job.reply))'
    <3>. SUFFICES ASSUME job.pc \in Cuttable, ~job.queued_any PROVE NotEnded(job.reply)'
      BY <1>1
    <3>1. job.reply \in ReplyIds /\ NotEnded(job.reply)
      BY DEF AudioInv, JobShape, Cuttable, Early, Owned, OneOwner
    <3>2. /\ \A i \in DOMAIN buf'.ledger : buf'.ledger[i].reply # job'.reply
          /\ \A i \in DOMAIN buf'.flushed : buf'.flushed[i] # job'.reply
          /\ tally'.ends[job'.reply] = 0
      <4>. DEFINE r == job.reply
      <4>1. r \in ReplyIds /\ NotEnded(r)
        BY <3>1
      <4>. HIDE DEF r
      <4>2. r \notin done.ended
        BY <1>6, <4>1 DEF NotEnded
      <4>3. tally'.ends[r] = 0 /\ (\A i \in DOMAIN buf'.flushed : buf'.flushed[i] # r)
        BY <1>2, <1>11, <4>1, <4>2 DEF NotEnded, InFlushed
      <4>4. \A i \in DOMAIN buf'.ledger : buf'.ledger[i].reply # r
        BY <1>2, <1>3, <1>5, <4>1 DEF NotEnded, InLedger, Derived, led
      <4>. QED  BY <1>1, <4>3, <4>4 DEF r
    <3>. QED  BY <3>2 DEF NotEnded, InLedger, InFlushed
  <2>5. job'.pc \in Early => ~job'.queued_any
    BY <1>1 DEF Owned, OneOwner
  <2>6. ASSUME job'.pc = "synthesize", job'.queued_any, job'.gen = buf'.generation
        PROVE  EndsWith(buf'.ledger, job'.reply)
    <3>1. EndsWith(led, job.reply)
      BY <1>1, <1>2, <2>6 DEF Owned, OneOwner, led
    <3>2. m > 0 /\ led[m].reply = job.reply /\ ~led[m].complete
      BY <3>1 DEF EndsWith, m
    <3>3. EndsWith(done.ledger, led[m].reply)
      BY <1>4, <3>2 DEF BookedTo
    <3>. QED  BY <1>1, <1>2, <3>2, <3>3
  <2>7. \A r \in tally'.audible : tally'.ends[r] = 1 \/ InLedger(buf, r)' \/ InFlushed(buf, r)'
    <3>1. tally.audible \subseteq ReplyIds
      BY DEF AudioInv, Typed, BooksTyped
    <3>. QED  BY <1>2, <1>8, <1>9, <1>11, <3>1 DEF Owned, OneOwner
  <2>. QED  BY <2>1, <2>3, <2>4, <2>5, <2>6, <2>7 DEF OneOwner
<1>. QED  BY <1>12, <1>13, <1>14 DEF Owned

\* A sequence that names each reply once at most counts it once at most.
LEMMA CountedOnce ==
    ASSUME NEW s \in Seq(ReplyIds), Once(s), NEW r
    PROVE  Cardinality({i \in DOMAIN s : s[i] = r}) = IF \E i \in DOMAIN s : s[i] = r THEN 1 ELSE 0
<1>1. CASE \E i \in DOMAIN s : s[i] = r
  <2>1. PICK i \in DOMAIN s : s[i] = r
    BY <1>1
  <2>2. {j \in DOMAIN s : s[j] = r} = {i}
    BY <2>1 DEF Once
  <2>. QED  BY <1>1, <2>2, FS_Singleton
<1>2. CASE ~\E i \in DOMAIN s : s[i] = r
  <2>1. {j \in DOMAIN s : s[j] = r} = {}
    BY <1>2
  <2>. QED  BY <1>2, <2>1, FS_EmptySet
<1>. QED  BY <1>1, <1>2

\* One more end for each of some replies that had none.
LEMMA EndsCounted ==
    ASSUME ReportsTyped, NEW s \in Seq(ReplyIds), Once(s), tally'.ends = CountEnds(tally.ends, s),
           \A i \in DOMAIN s : tally.ends[s[i]] = 0
    PROVE  /\ tally'.ends \in [ReplyIds -> 0 .. 1]
           /\ \A r \in ReplyIds :
                tally'.ends[r] = IF \E i \in DOMAIN s : s[i] = r THEN 1 ELSE tally.ends[r]
<1>. DEFINE n(r) == Cardinality({i \in DOMAIN s : s[i] = r})
<1>1. tally'.ends = [r \in ReplyIds |-> tally.ends[r] + n(r)]
  BY DEF CountEnds
<1>2. \A r \in ReplyIds : n(r) = IF \E i \in DOMAIN s : s[i] = r THEN 1 ELSE 0
  BY CountedOnce
<1>. HIDE DEF n
<1>3. \A r \in ReplyIds : tally.ends[r] \in 0 .. 1
  BY DEF ReportsTyped
<1>4. \A r \in ReplyIds : tally'.ends[r] = IF \E i \in DOMAIN s : s[i] = r THEN 1 ELSE tally.ends[r]
  BY <1>1, <1>2, <1>3
<1>5. \A r \in ReplyIds : tally'.ends[r] \in 0 .. 1
  BY <1>3, <1>4
<1>. QED  BY <1>1, <1>4, <1>5

\* A flush: the replies of the ledger wait for their ends to be emitted.
LEMMA OwnedFlush ==
    ASSUME AudioInv, Owned, buf' = Flush(buf), job' = job,
           tally' = [tally EXCEPT !.stale = CutOff, !.booked = NoUnits, !.written = NoUnits,
                                  !.started = {}, !.played = {}, !.done_ok = {}]
    PROVE  Owned'
<1>. DEFINE led == buf.ledger
            old == buf.flushed
            cut == LedgerReplies(buf)
            all == old \o cut
<1>1. /\ led \in Seq(Entries) /\ old \in Seq(ReplyIds) /\ buf.generation \in Nat
      /\ DOMAIN tally = DOMAIN Tally0 /\ job.gen <= buf.generation /\ job.gen \in Nat
  BY DEF AudioInv, Typed, SpeakInv, Shape, Buffers, JobShape, Jobs
<1>2. cut \in Seq(ReplyIds) /\ Len(cut) = Len(led) /\ \A i \in 1 .. Len(led) : cut[i] = led[i].reply
  <2>1. cut = [i \in 1 .. Len(led) |-> led[i].reply] /\ Len(led) \in Nat
    BY <1>1 DEF LedgerReplies
  <2>2. \A i \in 1 .. Len(led) : led[i].reply \in ReplyIds
    BY <1>1 DEF Entries
  <2>. HIDE DEF cut, led
  <2>. QED  BY <2>1, <2>2
<1>3. /\ buf'.ledger = <<>> /\ buf'.flushed = all /\ buf'.generation = buf.generation + 1
  BY DEF Flush, Buffer0
<1>4. /\ tally'.ends = tally.ends /\ tally'.audible = tally.audible
      /\ tally'.played = {} /\ tally'.done_ok = {}
  BY <1>1 DEF Tally0
<1>. HIDE DEF cut, led, old
<1>5. /\ Len(all) = Len(old) + Len(led) /\ Len(old) \in Nat /\ Len(led) \in Nat
      /\ DOMAIN all = 1 .. Len(all) /\ DOMAIN old = 1 .. Len(old) /\ DOMAIN led = 1 .. Len(led)
      /\ \A i \in 1 .. Len(old) : all[i] = old[i] /\ i \in DOMAIN all
      /\ \A i \in 1 .. Len(led) : all[i + Len(old)] = led[i].reply /\ i + Len(old) \in DOMAIN all
      /\ \A i \in DOMAIN all : i \in 1 .. Len(old) \/ (i - Len(old) \in 1 .. Len(led) /\ all[i] = led[i - Len(old)].reply)
  <2>1. /\ all \in Seq(ReplyIds) /\ Len(all) = Len(old) + Len(cut) /\ Len(old) \in Nat /\ Len(led) \in Nat
        /\ \A i \in 1 .. Len(all) : all[i] = IF i <= Len(old) THEN old[i] ELSE cut[i - Len(old)]
    BY <1>1, <1>2
  <2>2. DOMAIN all = 1 .. Len(all) /\ DOMAIN old = 1 .. Len(old) /\ DOMAIN led = 1 .. Len(led)
    BY <1>1, <2>1
  <2>. HIDE DEF all
  <2>3. \A i \in 1 .. Len(old) : all[i] = old[i] /\ i \in DOMAIN all
    BY <1>2, <2>1, <2>2
  <2>4. ASSUME NEW i \in 1 .. Len(led) PROVE all[i + Len(old)] = led[i].reply /\ i + Len(old) \in DOMAIN all
    <3>1. i + Len(old) \in 1 .. Len(all) /\ ~(i + Len(old) <= Len(old)) /\ (i + Len(old)) - Len(old) = i
      BY <1>2, <2>1
    <3>. QED  BY <1>2, <2>1, <2>2, <3>1
  <2>5. ASSUME NEW i \in DOMAIN all, i \notin 1 .. Len(old)
        PROVE  i - Len(old) \in 1 .. Len(led) /\ all[i] = led[i - Len(old)].reply
    <3>1. i \in 1 .. Len(all) /\ ~(i <= Len(old)) /\ i - Len(old) \in 1 .. Len(led)
      BY <1>2, <2>1, <2>2, <2>5
    <3>. QED  BY <1>2, <2>1, <3>1
  <2>. QED  BY <1>2, <2>1, <2>2, <2>3, <2>4, <2>5
<1>. HIDE DEF all
<1>6. \A r : InFlushed(buf, r)' <=> InFlushed(buf, r) \/ InLedger(buf, r)
  <2>. TAKE r
  <2>1. InFlushed(buf, r)' <=> \E i \in DOMAIN all : all[i] = r
    BY <1>3 DEF InFlushed
  <2>2. InFlushed(buf, r) => \E i \in DOMAIN all : all[i] = r
    BY <1>5 DEF InFlushed, old
  <2>3. InLedger(buf, r) => \E i \in DOMAIN all : all[i] = r
    <3>. SUFFICES ASSUME NEW i \in DOMAIN led, led[i].reply = r PROVE \E j \in DOMAIN all : all[j] = r
      BY DEF InLedger, led
    <3>1. i + Len(old) \in DOMAIN all /\ all[i + Len(old)] = r
      BY <1>5
    <3>. QED  BY <3>1
  <2>4. ASSUME NEW i \in DOMAIN all, all[i] = r PROVE InFlushed(buf, r) \/ InLedger(buf, r)
    <3>1. CASE i \in 1 .. Len(old)
      BY <1>5, <2>4, <3>1 DEF InFlushed, old
    <3>2. CASE i \notin 1 .. Len(old)
      <4>1. i - Len(old) \in DOMAIN led /\ led[i - Len(old)].reply = r
        BY <1>5, <2>4, <3>2
      <4>. QED  BY <4>1 DEF InLedger, led
    <3>. QED  BY <3>1, <3>2
  <2>. QED  BY <2>1, <2>2, <2>3, <2>4
<1>7. \A r : ~InLedger(buf, r)'
  BY <1>3 DEF InLedger
<1>8. \A i, j \in DOMAIN led : led[i].reply = led[j].reply => i = j
  <2>. SUFFICES ASSUME NEW i \in DOMAIN led, NEW j \in DOMAIN led, led[i].reply = led[j].reply, i # j
                PROVE  FALSE
    OBVIOUS
  <2>1. i < j \/ j < i
    BY <1>5
  <2>2. led[i].reply \in Int
    BY <1>1 DEF Entries, ReplyIds
  <2>. QED  BY <2>1, <2>2 DEF Owned, LedgerShape, Rising, led
<1>9. \A i \in DOMAIN old, j \in DOMAIN led : old[i] # led[j].reply
  <2>. TAKE i \in DOMAIN old, j \in DOMAIN led
  <2>1. led[j].reply \in ReplyIds
    BY <1>1 DEF Entries
  <2>2. ~(InLedger(buf, led[j].reply) /\ InFlushed(buf, led[j].reply))
    BY <2>1 DEF Owned, OneOwner
  <2>. QED  BY <2>2 DEF InLedger, InFlushed, old, led
<1>10. Once(buf'.flushed)
  <2>. SUFFICES ASSUME NEW i \in DOMAIN all, NEW j \in DOMAIN all, all[i] = all[j]
                PROVE  i = j
    BY <1>3 DEF Once
  <2>0. i \in Int /\ j \in Int
    BY <1>5
  <2>1. CASE i \in 1 .. Len(old) /\ j \in 1 .. Len(old)
    BY <1>5, <2>1 DEF Owned, OneOwner, Once, old
  <2>2. CASE i \in 1 .. Len(old) /\ j \notin 1 .. Len(old)
    BY <1>5, <1>9, <2>2
  <2>3. CASE i \notin 1 .. Len(old) /\ j \in 1 .. Len(old)
    BY <1>5, <1>9, <2>3
  <2>4. CASE i \notin 1 .. Len(old) /\ j \notin 1 .. Len(old)
    <3>1. i - Len(old) = j - Len(old)
      BY <1>5, <1>8, <2>4
    <3>. QED  BY <1>5, <2>0, <3>1
  <2>. QED  BY <2>1, <2>2, <2>3, <2>4
<1>11. ReportsTyped'
  BY <1>4 DEF Owned, ReportsTyped
<1>12. LedgerShape'
  BY <1>3 DEF LedgerShape, Rising
<1>13. OneOwner'
  <2>1. \A r \in ReplyIds :
          /\ ~(InLedger(buf, r)' /\ InFlushed(buf, r)')
          /\ tally'.ends[r] = 1 => ~InLedger(buf, r)' /\ ~InFlushed(buf, r)'
          /\ r > job'.reply => NotEnded(r)'
    BY <1>4, <1>6, <1>7 DEF Owned, OneOwner, NotEnded
  <2>2. (job.pc \in Cuttable /\ ~job.queued_any => NotEnded(job.reply))'
    <3>. SUFFICES ASSUME job.pc \in Cuttable, ~job.queued_any PROVE NotEnded(job.reply)'
      OBVIOUS
    <3>1. NotEnded(job.reply)
      BY DEF Owned, OneOwner
    <3>2. \A i \in DOMAIN all : all[i] # job.reply
      BY <1>5, <3>1 DEF NotEnded, InLedger, InFlushed, old, led
    <3>. QED  BY <1>3, <1>4, <3>1, <3>2 DEF NotEnded, InLedger, InFlushed
  <2>3. \A r \in tally'.audible : tally'.ends[r] = 1 \/ InLedger(buf, r)' \/ InFlushed(buf, r)'
    BY <1>4, <1>6 DEF Owned, OneOwner
  <2>4. job'.gen # buf'.generation /\ buf'.generation # 0
    BY <1>1, <1>3
  <2>5. job'.pc \in Early => ~job'.queued_any
    BY DEF Owned, OneOwner
  <2>. QED  BY <1>10, <2>1, <2>2, <2>3, <2>4, <2>5 DEF OneOwner
<1>. QED  BY <1>11, <1>12, <1>13 DEF Owned

\* The flush reports the ends of what it took.
LEMMA OwnedReplyEnds ==
    ASSUME AudioInv, Owned, buf' = TakeFlushed(buf), job' = job,
           tally' = [tally EXCEPT !.ends = CountEnds(@, buf.flushed)]
    PROVE  Owned'
<1>. DEFINE old == buf.flushed
<1>1. /\ buf \in Buffers /\ old \in Seq(ReplyIds) /\ DOMAIN tally = DOMAIN Tally0
  BY DEF AudioInv, Typed, SpeakInv, Shape, Buffers
<1>2. buf'.ledger = buf.ledger /\ buf'.flushed = <<>> /\ buf'.generation = buf.generation
  BY <1>1 DEF TakeFlushed, Buffers
<1>3. /\ tally'.ends = CountEnds(tally.ends, old) /\ tally'.audible = tally.audible
      /\ tally'.played = tally.played /\ tally'.done_ok = tally.done_ok
  BY <1>1 DEF Tally0
<1>4. \A i \in DOMAIN old : old[i] \in ReplyIds /\ tally.ends[old[i]] = 0
  <2>. TAKE i \in DOMAIN old
  <2>1. old[i] \in ReplyIds /\ InFlushed(buf, old[i])
    BY <1>1 DEF InFlushed
  <2>. QED  BY <2>1 DEF Owned, OneOwner, ReportsTyped
<1>5. /\ tally'.ends \in [ReplyIds -> 0 .. 1]
      /\ \A r \in ReplyIds :
           tally'.ends[r] = IF \E i \in DOMAIN old : old[i] = r THEN 1 ELSE tally.ends[r]
  BY <1>1, <1>3, <1>4, EndsCounted DEF Owned, OneOwner
<1>6. \A r \in ReplyIds : tally'.ends[r] = IF InFlushed(buf, r) THEN 1 ELSE tally.ends[r]
  BY <1>5 DEF InFlushed
<1>. HIDE DEF old
<1>7. \A r : ~InFlushed(buf, r)' /\ (InLedger(buf, r)' <=> InLedger(buf, r))
  BY <1>2 DEF InFlushed, InLedger
<1>8. ReportsTyped' /\ LedgerShape'
  BY <1>2, <1>3, <1>5 DEF Owned, ReportsTyped, LedgerShape, EntryShape
<1>9. OneOwner'
  <2>1. \A r \in ReplyIds : NotEnded(r) => NotEnded(r)'
    BY <1>6, <1>7 DEF NotEnded
  <2>2. \A r \in ReplyIds :
          /\ ~(InLedger(buf, r)' /\ InFlushed(buf, r)')
          /\ tally'.ends[r] = 1 => ~InLedger(buf, r)' /\ ~InFlushed(buf, r)'
          /\ r > job'.reply => NotEnded(r)'
    BY <1>6, <1>7, <2>1 DEF Owned, OneOwner
  <2>3. (job.pc \in Cuttable /\ ~job.queued_any => NotEnded(job.reply))'
    <3>. SUFFICES ASSUME job.pc \in Cuttable, ~job.queued_any PROVE NotEnded(job.reply)'
      OBVIOUS
    <3>1. NotEnded(job.reply) /\ job.reply \in ReplyIds
      BY DEF Owned, OneOwner, AudioInv, JobShape, Cuttable, Early
    <3>2. tally'.ends[job.reply] = 0
      BY <1>6, <3>1 DEF NotEnded
    <3>. QED  BY <1>2, <3>1, <3>2 DEF NotEnded, InLedger, InFlushed
  <2>4. \A r \in tally'.audible : tally'.ends[r] = 1 \/ InLedger(buf, r)' \/ InFlushed(buf, r)'
    <3>1. tally.audible \subseteq ReplyIds
      BY DEF AudioInv, Typed, BooksTyped
    <3>. QED  BY <1>3, <1>6, <1>7, <3>1 DEF Owned, OneOwner
  <2>5. Once(buf'.flushed)
    BY <1>2 DEF Once
  <2>6. /\ job'.pc \in Early => ~job'.queued_any
        /\ job'.pc = "synthesize" /\ job'.queued_any /\ job'.gen = buf'.generation => EndsWith(buf'.ledger, job'.reply)
    BY <1>2 DEF Owned, OneOwner
  <2>. QED  BY <1>2, <2>2, <2>3, <2>4, <2>5, <2>6 DEF OneOwner
<1>. QED  BY <1>8, <1>9 DEF Owned

\* Any step of a plan.
LEMMA OwnedPlanStep ==
    ASSUME AudioInv, Owned, NEW a \in Actors, PlanStep(a)
    PROVE  Owned'
<1>1. job' = job /\ DOMAIN tally = DOMAIN Tally0
  BY DEF PlanStep, AudioInv, SpeakInv, Shape
<1>2. CASE Head(plan[a]) = "flush"
  BY <1>1, <1>2, OwnedFlush DEF PlanStep
<1>3. CASE Head(plan[a]) = "reply_ends"
  BY <1>1, <1>3, OwnedReplyEnds DEF PlanStep
<1>4. CASE Head(plan[a]) \notin {"flush", "reply_ends"}
  <2>1. buf' = buf /\ (tally' = tally \/ tally' = [tally EXCEPT !.speaking = @ - (IF ended[a] THEN 1 ELSE 0)])
    BY <1>4 DEF PlanStep
  <2>2. tally'.ends = tally.ends /\ tally'.audible = tally.audible /\ ToldTyped /\ LedgerSame
    BY <1>1, <2>1 DEF Tally0, ToldTyped, Owned, ReportsTyped, LedgerSame
  <2>. QED  BY <1>1, <2>2, JobStays, OwnedKept
<1>. QED  BY <1>2, <1>3, <1>4

\* The steps of a job that push nothing and report no end.
JobTurns ==
    \/ JobReadGeneration \/ JobReadFailure \/ JobStart \/ JobProduced \/ JobFailed \/ JobWait
    \/ JobWaitBuffer \/ JobAborted \/ DeadlinePasses
    \/ JobCheckEpoch /\ UNCHANGED tally
    \/ JobResult /\ UNCHANGED tally

\* Where a job may go on to, from where.
LEMMA JobGoesOn ==
    ASSUME AudioInv, Owned, NEW pc \in JobPcs, JobGoes(pc), job.pc # "synthesize",
           pc \in Early => job.pc \in Early,
           pc = "synthesize" => job.pc \in Early,
           pc \in Cuttable => job.pc \in Cuttable
    PROVE  JobSame
<1>1. job \in Jobs
  BY DEF AudioInv, Typed
<1>2. job'.reply = job.reply /\ job'.pc = pc /\ job'.gen = job.gen /\ job'.queued_any = job.queued_any
  BY <1>1 DEF JobGoes, Jobs
<1>. QED  BY <1>2 DEF JobSame, Owned, OneOwner

\* A job that returns.
LEMMA JobComesBack ==
    ASSUME JobReturns, job.pc # "synthesize"
    PROVE  JobSame
<1>1. job'.reply = job.reply /\ job'.pc = "idle" /\ job'.queued_any = FALSE
  BY DEF JobReturns, Job0
<1>. QED  BY <1>1 DEF JobSame, Cuttable, Early

\* The steps of a job that push nothing and report no end.
LEMMA OwnedJobTurns ==
    ASSUME AudioInv, Owned, JobTurns
    PROVE  Owned'
<1>1. buf \in Buffers /\ job \in Jobs /\ DOMAIN tally = DOMAIN Tally0
  BY DEF AudioInv, Typed, SpeakInv, Shape
<1>2. buf' = buf \/ (\E on \in BOOLEAN : buf' = SetProducing(buf, on))
  BY DEF JobTurns, JobReadGeneration, JobReadFailure, JobStart, JobProduced, JobFailed, JobWait,
         JobWaitBuffer, JobAborted, DeadlinePasses, JobCheckEpoch, JobResult
<1>3. LedgerSame
  <2>1. CASE buf' = buf
    BY <2>1 DEF LedgerSame
  <2>2. CASE \E on \in BOOLEAN : buf' = SetProducing(buf, on)
    BY <1>1, <2>2 DEF SetProducing, Buffers, LedgerSame
  <2>. QED  BY <1>2, <2>1, <2>2
<1>4. tally' = tally \/ (job.reply \in ReplyIds /\ tally' = [tally EXCEPT !.done_ok = @ \union {job.reply}])
  BY DEF JobTurns, JobReadGeneration, JobReadFailure, JobStart, JobProduced, JobFailed, JobWait,
         JobWaitBuffer, JobAborted, DeadlinePasses, JobCheckEpoch, JobResult, AudioInv, JobShape
<1>5. tally'.ends = tally.ends /\ tally'.audible = tally.audible /\ ToldTyped
  BY <1>1, <1>4 DEF Tally0, ToldTyped, Owned, ReportsTyped
<1>6. JobSame
  <2>1. CASE JobReadGeneration
    <3>1. job' = [[job EXCEPT !.pc = "read_failure"] EXCEPT !.gen = buf.generation] /\ job.pc = "taken"
      BY <2>1 DEF JobReadGeneration
    <3>2. job'.reply = job.reply /\ job'.pc = "read_failure" /\ job'.queued_any = job.queued_any
      BY <1>1, <3>1 DEF Jobs
    <3>. QED  BY <3>1, <3>2 DEF JobSame, Owned, OneOwner, Early, Cuttable
  <2>2. CASE JobReadFailure
    <3>1. job' = [[job EXCEPT !.pc = "check_epoch"] EXCEPT !.failure_gen = tts_playback_failure_gen]
          /\ job.pc = "read_failure"
      BY <2>2 DEF JobReadFailure
    <3>2. job'.reply = job.reply /\ job'.pc = "check_epoch" /\ job'.queued_any = job.queued_any
      BY <1>1, <3>1 DEF Jobs
    <3>. QED  BY <3>1, <3>2 DEF JobSame, Owned, OneOwner, Early, Cuttable
  <2>3. CASE JobStart
    BY <2>3, JobGoesOn DEF JobStart, JobPcs, Early, Cuttable
  <2>4. CASE JobProduced
    BY <2>4, JobGoesOn DEF JobProduced, JobPcs, Early, Cuttable
  <2>5. CASE JobFailed
    BY <2>5, JobComesBack DEF JobFailed
  <2>6. CASE JobWait
    <3>1. CASE JobReturns
      BY <2>6, <3>1, JobComesBack DEF JobWait
    <3>2. CASE ~JobReturns
      <4>1. job' = [[job EXCEPT !.pc = "wait_buffer"] EXCEPT !.saw_speaking = agent_speaking] /\ job.pc = "wait"
        BY <2>6, <3>2 DEF JobWait
      <4>2. job'.reply = job.reply /\ job'.pc = "wait_buffer"
        BY <1>1, <4>1 DEF Jobs
      <4>. QED  BY <4>1, <4>2 DEF JobSame, Early, Cuttable
    <3>. QED  BY <3>1, <3>2
  <2>7. CASE JobWaitBuffer
    <3>1. JobReturns \/ JobGoes("aborting") \/ JobGoes("wait")
      BY <2>7 DEF JobWaitBuffer
    <3>2. job.pc = "wait_buffer"
      BY <2>7 DEF JobWaitBuffer
    <3>. QED  BY <3>1, <3>2, JobComesBack, JobGoesOn DEF JobPcs, Early, Cuttable
  <2>8. CASE JobAborted
    BY <2>8, JobComesBack DEF JobAborted
  <2>9. CASE DeadlinePasses
    <3>1. job.pc \in {"wait", "wait_buffer"} /\ job'.reply = job.reply /\ job'.pc = job.pc
      BY <1>1, <2>9 DEF DeadlinePasses, Jobs
    <3>. QED  BY <3>1 DEF JobSame, Early, Cuttable
  <2>10. CASE JobCheckEpoch
    <3>1. (JobReturns \/ JobGoes("start")) /\ job.pc = "check_epoch"
      BY <2>10 DEF JobCheckEpoch
    <3>. QED  BY <3>1, JobComesBack, JobGoesOn DEF JobPcs, Early, Cuttable
  <2>11. CASE JobResult
    <3>1. (JobReturns \/ JobGoes("wait")) /\ job.pc = "result"
      BY <2>11 DEF JobResult
    <3>. QED  BY <3>1, JobComesBack, JobGoesOn DEF JobPcs, Early, Cuttable
  <2>. QED  BY <2>1, <2>2, <2>3, <2>4, <2>5, <2>6, <2>7, <2>8, <2>9, <2>10, <2>11 DEF JobTurns
<1>. QED  BY <1>3, <1>5, <1>6, OwnedKept

\* The job that was cut before it booked anything reports its end itself.
LEMMA OwnedDiscarded ==
    ASSUME AudioInv, Owned, job.pc \in Cuttable, job.pc # "synthesize", ~job.queued_any,
           EmitDiscardedReplyEnd, buf' = buf, JobReturns \/ JobGoes("wait")
    PROVE  Owned'
<1>. DEFINE mine == job.reply
            s == <<mine>>
<1>1. /\ job \in Jobs /\ mine \in ReplyIds /\ NotEnded(mine) /\ DOMAIN tally = DOMAIN Tally0
      /\ mine \in Int
  BY DEF AudioInv, Typed, SpeakInv, Shape, JobShape, Cuttable, Early, Owned, OneOwner, ReplyIds
<1>2. job'.reply = mine /\ job'.pc \in {"idle", "wait"}
  BY <1>1 DEF JobReturns, JobGoes, Jobs, Job0
<1>3. /\ tally'.ends = CountEnds(tally.ends, s) /\ tally'.audible = tally.audible
      /\ tally'.played = tally.played /\ tally'.done_ok = tally.done_ok
  BY <1>1 DEF EmitDiscardedReplyEnd, Tally0
<1>. HIDE DEF mine
<1>4. s \in Seq(ReplyIds) /\ Once(s) /\ DOMAIN s = {1} /\ s[1] = mine
  BY <1>1 DEF Once
<1>. HIDE DEF s
<1>5. /\ tally'.ends \in [ReplyIds -> 0 .. 1]
      /\ \A r \in ReplyIds : tally'.ends[r] = IF r = mine THEN 1 ELSE tally.ends[r]
  <2>1. \A i \in DOMAIN s : tally.ends[s[i]] = 0
    BY <1>1, <1>4 DEF NotEnded
  <2>2. /\ tally'.ends \in [ReplyIds -> 0 .. 1]
        /\ \A r \in ReplyIds :
             tally'.ends[r] = IF \E i \in DOMAIN s : s[i] = r THEN 1 ELSE tally.ends[r]
    BY <1>3, <1>4, <2>1, EndsCounted DEF Owned
  <2>. QED  BY <1>4, <2>2
<1>6. \A r : /\ InLedger(buf, r)' <=> InLedger(buf, r)
             /\ InFlushed(buf, r)' <=> InFlushed(buf, r)
  BY DEF InLedger, InFlushed
<1>7. ReportsTyped'
  BY <1>3, <1>5 DEF Owned, ReportsTyped
<1>8. LedgerShape'
  BY <1>2 DEF Owned, LedgerShape, EntryShape, mine
<1>9. OneOwner'
  <2>1. ASSUME NEW r \in ReplyIds
        PROVE  /\ ~(InLedger(buf, r)' /\ InFlushed(buf, r)')
               /\ tally'.ends[r] = 1 => ~InLedger(buf, r)' /\ ~InFlushed(buf, r)'
               /\ r > job'.reply => NotEnded(r)'
    <3>1. /\ ~(InLedger(buf, r) /\ InFlushed(buf, r))
          /\ tally.ends[r] = 1 => ~InLedger(buf, r) /\ ~InFlushed(buf, r)
          /\ r > mine => NotEnded(r)
      BY DEF Owned, OneOwner, mine
    <3>2. r > mine => r # mine
      BY <1>1
    <3>. QED  BY <1>1, <1>2, <1>5, <1>6, <3>1, <3>2 DEF NotEnded
  <2>2. job'.pc \notin Cuttable /\ job'.pc \notin Early /\ job'.pc # "synthesize"
    BY <1>2 DEF Cuttable, Early
  <2>3. \A r \in tally'.audible : tally'.ends[r] = 1 \/ InLedger(buf, r)' \/ InFlushed(buf, r)'
    <3>1. tally.audible \subseteq ReplyIds
      BY DEF AudioInv, Typed, BooksTyped
    <3>. QED  BY <1>3, <1>5, <1>6, <3>1 DEF Owned, OneOwner
  <2>4. Once(buf'.flushed) /\ (buf'.generation = 0 => buf'.flushed = <<>>)
    BY DEF Owned, OneOwner
  <2>. QED  BY <2>1, <2>2, <2>3, <2>4 DEF OneOwner
<1>. QED  BY <1>7, <1>8, <1>9 DEF Owned

\* The next job.
LEMMA OwnedJobTake ==
    ASSUME AudioInv, Owned, JobTake
    PROVE  Owned'
<1>1. /\ job.pc = "idle" /\ buf' = buf /\ tally' = tally /\ job.reply \in Int /\ job.reply \in 0 .. Replies
      /\ job.reply < scope.replies /\ scope.replies \in 0 .. Replies /\ Replies \in Nat
  BY PlaybackAssumption DEF JobTake, AudioInv, Typed, SpeakInv, Shape, Jobs
<1>. DEFINE next == job.reply + 1
<1>2. job' = [[[Job0 EXCEPT !.pc = "taken"] EXCEPT !.reply = next] EXCEPT !.epoch = tts_synthesis_epoch]
  BY DEF JobTake
<1>3. next \in ReplyIds /\ next > job.reply /\ \A r \in ReplyIds : r > next => r > job.reply
  BY <1>1 DEF ReplyIds
<1>4. \A r \in ReplyIds : r <= job.reply => r <= next
  BY <1>1 DEF ReplyIds
<1>. HIDE DEF next
<1>5. job'.pc = "taken" /\ job'.reply = next /\ job'.queued_any = FALSE
  BY <1>2 DEF Job0
<1>6. \A r : /\ InLedger(buf, r)' <=> InLedger(buf, r)
             /\ InFlushed(buf, r)' <=> InFlushed(buf, r)
             /\ NotEnded(r)' <=> NotEnded(r)
  BY <1>1 DEF InLedger, InFlushed, NotEnded
<1>7. ReportsTyped'
  BY <1>1 DEF Owned, ReportsTyped
<1>8. LedgerShape'
  <2>1. ASSUME NEW i \in DOMAIN buf.ledger PROVE EntryShape(buf.ledger[i])'
    <3>. DEFINE e == buf.ledger[i]
    <3>1. buf.ledger \in Seq(Entries)
      BY DEF AudioInv, Typed, Buffers
    <3>2. e.reply \in ReplyIds
      BY <3>1 DEF Entries
    <3>3. EntryShape(e)
      BY DEF Owned, LedgerShape
    <3>. QED  BY <1>1, <1>4, <1>5, <3>2, <3>3 DEF EntryShape
  <2>. QED  BY <1>1, <2>1 DEF LedgerShape, Owned
<1>9. OneOwner'
  <2>1. \A r \in ReplyIds :
          /\ ~(InLedger(buf, r)' /\ InFlushed(buf, r)')
          /\ tally'.ends[r] = 1 => ~InLedger(buf, r)' /\ ~InFlushed(buf, r)'
          /\ r > job'.reply => NotEnded(r)'
    BY <1>1, <1>3, <1>5, <1>6 DEF Owned, OneOwner
  <2>2. NotEnded(next)
    BY <1>3 DEF Owned, OneOwner
  <2>3. (job.pc \in Cuttable /\ ~job.queued_any => NotEnded(job.reply))'
    BY <1>1, <1>5, <2>2 DEF NotEnded, InLedger, InFlushed
  <2>4. \A r \in tally'.audible : tally'.ends[r] = 1 \/ InLedger(buf, r)' \/ InFlushed(buf, r)'
    BY <1>1, <1>6 DEF Owned, OneOwner
  <2>5. Once(buf'.flushed) /\ (buf'.generation = 0 => buf'.flushed = <<>>)
    BY <1>1 DEF Owned, OneOwner
  <2>. QED  BY <1>5, <2>1, <2>3, <2>4, <2>5 DEF OneOwner
<1>. QED  BY <1>7, <1>8, <1>9 DEF Owned

\* Entries that differ in what was queued, or in being complete.
SameReply(e, d) == e.reply = d.reply /\ e.played = d.played /\ (e.started <=> d.started)

\* mark_reply_complete completes the last entry of the reply, and nothing else.
LEMMA MarkCompleteIs ==
    ASSUME NEW b \in Buffers, NEW r
    PROVE  LET c == MarkComplete(b, r)
           IN  /\ c.flushed = b.flushed /\ c.producing = b.producing /\ c.speaking = b.speaking
               /\ c.held = b.held /\ DOMAIN c.ledger = DOMAIN b.ledger
               /\ \A i \in DOMAIN b.ledger :
                    /\ SameReply(c.ledger[i], b.ledger[i]) /\ c.ledger[i].queued = b.ledger[i].queued
                    /\ b.ledger[i].complete => c.ledger[i].complete
                    /\ b.ledger[i].reply = r /\ (\A j \in DOMAIN b.ledger : b.ledger[j].reply = r => j <= i)
                         => c.ledger[i].complete
<1>. DEFINE led == b.ledger
            mine == {i \in DOMAIN led : led[i].reply = r}
            last(i) == i \in mine /\ \A j \in mine : j <= i
            next == [i \in DOMAIN led |-> IF last(i) THEN [led[i] EXCEPT !.complete = TRUE] ELSE led[i]]
            c == MarkComplete(b, r)
<1>1. led \in Seq(Entries) /\ \A i \in DOMAIN led : led[i] \in Entries
  BY DEF Buffers
<1>2. c = [b EXCEPT !.ledger = next]
  BY DEF MarkComplete
<1>3. DOMAIN next = DOMAIN led
  OBVIOUS
<1>4. ASSUME NEW i \in DOMAIN led
      PROVE  /\ SameReply(next[i], led[i]) /\ next[i].queued = led[i].queued
             /\ led[i].complete => next[i].complete
             /\ last(i) => next[i].complete
  <2>. HIDE DEF last, led
  <2>1. next[i] = IF last(i) THEN [led[i] EXCEPT !.complete = TRUE] ELSE led[i]
    OBVIOUS
  <2>. HIDE DEF next
  <2>. QED  BY <1>1, <2>1 DEF Entries, SameReply
<1>5. \A i \in DOMAIN led : led[i].reply = r /\ (\A j \in DOMAIN led : led[j].reply = r => j <= i) => last(i)
  OBVIOUS
<1>. HIDE DEF next, c, last
<1>6. /\ c.flushed = b.flushed /\ c.producing = b.producing /\ c.speaking = b.speaking
      /\ c.held = b.held /\ c.ledger = next
  BY <1>2 DEF Buffers
<1>. QED  BY <1>3, <1>4, <1>5, <1>6 DEF c

\* enqueue_tagged books the chunk on the last entry when it is of the reply and
\* not complete, and on a new one otherwise.
LEMMA EnqueueIs ==
    ASSUME NEW b \in Buffers, NEW chunk \in Chunks
    PROVE  LET c == Enqueue(b, chunk)
               n == Len(b.ledger)
           IN  /\ c.flushed = b.flushed /\ c.producing = b.producing /\ c.speaking /\ c.held = b.held
               /\ \A i \in 1 .. n : i \in DOMAIN c.ledger /\ i \in DOMAIN b.ledger
               /\ \A i \in 1 .. n : ~(EndsWith(b.ledger, chunk.reply) /\ i = n) => c.ledger[i] = b.ledger[i]
               /\ EndsWith(b.ledger, chunk.reply) =>
                    /\ DOMAIN c.ledger = 1 .. n /\ n \in 1 .. n
                    /\ SameReply(c.ledger[n], b.ledger[n]) /\ ~c.ledger[n].complete
                    /\ c.ledger[n].queued = b.ledger[n].queued + chunk.units
               /\ ~EndsWith(b.ledger, chunk.reply) =>
                    /\ DOMAIN c.ledger = 1 .. (n + 1)
                    /\ c.ledger[n + 1] = LedgerEntry(chunk.reply, chunk.units)
<1>. DEFINE led == b.ledger
            n == Len(led)
            matches == n > 0 /\ led[n].reply = chunk.reply /\ ~led[n].complete
            next == IF matches THEN [led EXCEPT ![n].queued = @ + chunk.units]
                               ELSE Append(led, LedgerEntry(chunk.reply, chunk.units))
            queue == Append(b.queue, chunk)
            c == Enqueue(b, chunk)
<1>1. /\ led \in Seq(Entries) /\ n \in Nat /\ DOMAIN led = 1 .. n /\ led \in [1 .. n -> Entries]
  BY LenProperties DEF Buffers
<1>2. c = [b EXCEPT !.speaking = TRUE, !.queue = queue, !.ledger = next]
  BY Zenon DEF Enqueue
<1>3. matches <=> EndsWith(led, chunk.reply)
  BY DEF EndsWith
<1>4. ASSUME matches
      PROVE  /\ DOMAIN next = 1 .. n /\ n \in 1 .. n
             /\ \A i \in 1 .. n : i # n => next[i] = led[i]
             /\ SameReply(next[n], led[n]) /\ ~next[n].complete
             /\ next[n].queued = led[n].queued + chunk.units
  <2>. DEFINE more == led[n].queued + chunk.units
              entry == [led[n] EXCEPT !.queued = more]
  <2>1. n \in 1 .. n /\ led[n] \in Entries /\ ~led[n].complete
    BY <1>1, <1>4
  <2>2. next = [led EXCEPT ![n] = entry]
    BY <1>1, <1>4, <2>1
  <2>. HIDE DEF more
  <2>3. SameReply(entry, led[n]) /\ ~entry.complete /\ entry.queued = more
    BY <2>1 DEF Entries, SameReply
  <2>. HIDE DEF entry, next, n, led
  <2>4. DOMAIN next = 1 .. n /\ next[n] = entry /\ \A i \in 1 .. n : i # n => next[i] = led[i]
    BY <1>1, <2>1, <2>2
  <2>. QED  BY <2>1, <2>3, <2>4 DEF more
<1>5. ASSUME ~matches
      PROVE  /\ DOMAIN next = 1 .. (n + 1) /\ \A i \in 1 .. n : next[i] = led[i]
             /\ next[n + 1] = LedgerEntry(chunk.reply, chunk.units)
  <2>. DEFINE entry == LedgerEntry(chunk.reply, chunk.units)
  <2>1. next = Append(led, entry)
    BY <1>5
  <2>2. entry \in Entries
    BY DEF Chunks, Entries, LedgerEntry
  <2>. HIDE DEF next, entry, led
  <2>. QED  BY <1>1, <2>1, <2>2 DEF n, entry
<1>. HIDE DEF next, queue, matches, c
<1>6. c.flushed = b.flushed /\ c.producing = b.producing /\ c.speaking /\ c.held = b.held /\ c.ledger = next
  BY <1>2 DEF Buffers
<1>7. \A i \in 1 .. n : i \in DOMAIN next /\ i \in DOMAIN led
  <2>1. \A i \in 1 .. n : i \in 1 .. (n + 1)
    BY <1>1
  <2>. QED  BY <1>1, <1>4, <1>5, <2>1
<1>. QED  BY <1>1, <1>3, <1>4, <1>5, <1>6, <1>7 DEF c

\* The vendor call returned: the entry of the job may now end.
LEMMA OwnedComplete ==
    ASSUME AudioInv, Owned, JobComplete
    PROVE  Owned'
<1>1. buf \in Buffers /\ job \in Jobs /\ job.pc = "synthesize" /\ tally' = tally
      /\ buf' = MarkComplete(buf, job.reply)
  BY DEF JobComplete, AudioInv, Typed
<1>2. job'.reply = job.reply /\ job'.pc = "produced" /\ job'.queued_any = job.queued_any
  BY <1>1 DEF JobComplete, JobGoes, Jobs
<1>3. /\ buf'.flushed = buf.flushed /\ DOMAIN buf'.ledger = DOMAIN buf.ledger
      /\ buf'.generation = buf.generation
      /\ \A i \in DOMAIN buf.ledger :
           /\ SameReply(buf'.ledger[i], buf.ledger[i]) /\ buf'.ledger[i].queued = buf.ledger[i].queued
           /\ buf.ledger[i].complete => buf'.ledger[i].complete
           /\ buf.ledger[i].reply = job.reply
              /\ (\A j \in DOMAIN buf.ledger : buf.ledger[j].reply = job.reply => j <= i)
                => buf'.ledger[i].complete
  BY <1>1, MarkCompleteIs, MarkCompleteTyped
<1>4. \A r : /\ InLedger(buf, r)' <=> InLedger(buf, r)
             /\ InFlushed(buf, r)' <=> InFlushed(buf, r)
             /\ NotEnded(r)' <=> NotEnded(r)
  BY <1>1, <1>3 DEF InLedger, InFlushed, NotEnded, SameReply
<1>5. LedgerShape'
  <2>1. Rising(buf'.ledger)
    BY <1>3 DEF Owned, LedgerShape, Rising, SameReply
  <2>2. ASSUME NEW i \in DOMAIN buf'.ledger PROVE EntryShape(buf.ledger[i])'
    <3>. DEFINE e == buf.ledger[i]
                d == buf'.ledger[i]
    <3>1. /\ d.reply = e.reply /\ d.played = e.played /\ (d.started <=> e.started) /\ d.queued = e.queued
          /\ e.complete => d.complete
      BY <1>3, <2>2 DEF SameReply
    <3>2. EntryShape(e)
      BY <1>3, <2>2 DEF Owned, LedgerShape
    <3>3. e.complete \/ d.complete
      <4>. SUFFICES ASSUME ~e.complete PROVE d.complete
        OBVIOUS
      <4>1. e.reply = job.reply
        BY <3>2 DEF EntryShape
      <4>2. ASSUME NEW j \in DOMAIN buf.ledger, buf.ledger[j].reply = job.reply PROVE j <= i
        <5>0. buf.ledger \in Seq(Entries) /\ i \in DOMAIN buf.ledger
          BY <1>1, <1>3, <2>2 DEF Buffers
        <5>1. i \in Int /\ j \in Int
          BY <4>2, <5>0
        <5>2. CASE i < j
          <6>1. buf.ledger[i].reply < buf.ledger[j].reply
            BY <1>3, <2>2, <5>2 DEF Owned, LedgerShape, Rising
          <6>2. job.reply \in Int
            BY <1>1, PlaybackAssumption DEF Jobs
          <6>. QED  BY <4>1, <4>2, <6>1, <6>2
        <5>. QED  BY <5>1, <5>2
      <4>. QED  BY <1>3, <2>2, <4>1, <4>2
    <3>4. d.complete
      BY <3>1, <3>3
    <3>. HIDE DEF e
    <3>5. /\ d.queued > 0 /\ (d.played > 0 => d.started) /\ d.reply <= job'.reply
      BY <1>2, <3>1, <3>2 DEF EntryShape
    <3>. QED  BY <3>4, <3>5 DEF EntryShape
  <2>. QED  BY <2>1, <2>2 DEF LedgerShape
<1>6. OneOwner'
  <2>1. \A r \in ReplyIds :
          /\ ~(InLedger(buf, r)' /\ InFlushed(buf, r)')
          /\ tally'.ends[r] = 1 => ~InLedger(buf, r)' /\ ~InFlushed(buf, r)'
          /\ r > job'.reply => NotEnded(r)'
    BY <1>1, <1>2, <1>4 DEF Owned, OneOwner
  <2>2. (job.pc \in Cuttable /\ ~job.queued_any => NotEnded(job.reply))'
    <3>. SUFFICES ASSUME ~job'.queued_any PROVE NotEnded(job.reply)'
      OBVIOUS
    <3>1. NotEnded(job.reply)
      BY <1>1, <1>2 DEF Owned, OneOwner, Cuttable
    <3>. QED  BY <1>1, <1>2, <1>3, <3>1 DEF NotEnded, InLedger, InFlushed, SameReply
  <2>3. \A r \in tally'.audible : tally'.ends[r] = 1 \/ InLedger(buf, r)' \/ InFlushed(buf, r)'
    BY <1>1, <1>4 DEF Owned, OneOwner
  <2>4. Once(buf'.flushed) /\ (buf'.generation = 0 => buf'.flushed = <<>>)
    BY <1>3 DEF Owned, OneOwner
  <2>5. job'.pc \notin Early /\ job'.pc # "synthesize"
    BY <1>2 DEF Early
  <2>. QED  BY <2>1, <2>2, <2>3, <2>4, <2>5 DEF OneOwner
<1>. QED  BY <1>1, <1>5, <1>6 DEF Owned, ReportsTyped

\* What a chunk does, pushed or discarded.
Pushed(units) ==
    /\ Accepts(buf, job.gen) /\ units \in Nat \ {0} /\ job.pc = "synthesize"
    /\ buf' = Enqueue(buf, Chunk(job.reply, units)) /\ tts_drain_wake' = TRUE
    /\ job' = [job EXCEPT !.chunks = @ + 1, !.queued_any = TRUE]
    /\ tally' = [tally EXCEPT !.booked[job.reply] = @ + units, !.audible = @ \union {job.reply}]
    /\ UNCHANGED <<agent, drain, passes>>
Discarded ==
    /\ job.pc = "synthesize" /\ job' = [job EXCEPT !.chunks = @ + 1, !.discarded = TRUE]
    /\ UNCHANGED <<buf, tts_drain_wake, tally, agent, drain, passes>>

\* A chunk is pushed, or discarded.
LEMMA ChunkIs ==
    ASSUME AudioInv, JobChunk
    PROVE  Discarded \/ \E units \in Nat : Pushed(units)
<1>1. scope.chunk_sizes \subseteq Nat \ {0}
  BY PlaybackAssumption DEF AudioInv, SpeakInv, Shape
<1>. QED  BY <1>1 DEF JobChunk, Pushed, Discarded, WakeDrain

\* The job and the books after a chunk was pushed.
LEMMA PushedIs ==
    ASSUME AudioInv, NEW units \in Nat, Pushed(units)
    PROVE  /\ Chunk(job.reply, units) \in Chunks /\ buf' \in Buffers
           /\ buf'.queue = Append(buf.queue, Chunk(job.reply, units))
           /\ buf'.carry = buf.carry /\ buf'.generation = buf.generation
           /\ job'.pc = "synthesize" /\ job'.reply = job.reply /\ job'.queued_any = TRUE /\ job'.gen = job.gen
           /\ job.reply \in ReplyIds /\ job.gen = buf.generation
           /\ tally'.ends = tally.ends /\ tally'.audible = tally.audible \union {job.reply}
           /\ tally'.played = tally.played /\ tally'.done_ok = tally.done_ok
           /\ tally'.written = tally.written
           /\ \A r \in ReplyIds : tally'.booked[r] = IF r = job.reply THEN tally.booked[r] + units ELSE tally.booked[r]
<1>1. /\ buf \in Buffers /\ job \in Jobs /\ DOMAIN tally = DOMAIN Tally0 /\ job.reply \in ReplyIds
      /\ tally.booked \in [ReplyIds -> Nat] /\ job.gen = buf.generation
  BY DEF AudioInv, Typed, SpeakInv, Shape, JobShape, Pushed, BooksTyped, Accepts
<1>2. Chunk(job.reply, units) \in Chunks
  BY <1>1 DEF Chunk, Chunks
<1>3. /\ buf' \in Buffers /\ buf'.queue = Append(buf.queue, Chunk(job.reply, units))
      /\ buf'.carry = buf.carry /\ buf'.generation = buf.generation
  BY <1>1, <1>2, EnqueueTyped DEF Pushed
<1>4. /\ job'.pc = "synthesize" /\ job'.reply = job.reply /\ job'.queued_any = TRUE /\ job'.gen = job.gen
  <2>. DEFINE more == job.chunks + 1
  <2>1. job' = [[job EXCEPT !.chunks = more] EXCEPT !.queued_any = TRUE] /\ job.pc = "synthesize"
    BY DEF Pushed
  <2>. HIDE DEF more
  <2>. QED  BY <1>1, <2>1 DEF Jobs
<1>. DEFINE books == [tally.booked EXCEPT ![job.reply] = tally.booked[job.reply] + units]
<1>5. /\ tally'.booked = books /\ tally'.audible = tally.audible \union {job.reply}
      /\ tally'.written = tally.written /\ tally'.ends = tally.ends
      /\ tally'.played = tally.played /\ tally'.done_ok = tally.done_ok
  <2>1. tally' = [[tally EXCEPT !.booked = books] EXCEPT !.audible = tally.audible \union {job.reply}]
    BY DEF Pushed
  <2>. HIDE DEF books
  <2>. QED  BY <1>1, <2>1 DEF Tally0
<1>6. \A r \in ReplyIds : books[r] = IF r = job.reply THEN tally.booked[r] + units ELSE tally.booked[r]
  BY <1>1
<1>. HIDE DEF books
<1>. QED  BY <1>1, <1>2, <1>3, <1>4, <1>5, <1>6

\* A chunk that was pushed is booked on the entry of its reply, which is the last.
LEMMA OwnedPushed ==
    ASSUME AudioInv, Owned, NEW units \in Nat, Pushed(units)
    PROVE  Owned'
<1>. DEFINE mine == job.reply
            chunk == Chunk(mine, units)
            led == buf.ledger
            n == Len(led)
<1>1. /\ chunk \in Chunks /\ buf'.generation = buf.generation
      /\ job'.pc = "synthesize" /\ job.pc = "synthesize" /\ job'.reply = mine /\ job'.queued_any = TRUE
      /\ job'.gen = job.gen
      /\ mine \in ReplyIds /\ job.gen = buf.generation /\ units > 0
      /\ tally'.ends = tally.ends /\ tally'.audible = tally.audible \union {mine}
      /\ tally'.played = tally.played /\ tally'.done_ok = tally.done_ok
  <2>1. units > 0 /\ job.pc = "synthesize"
    BY DEF Pushed
  <2>. QED  BY <2>1, PushedIs
<1>2. chunk.reply = mine /\ chunk.units = units /\ buf \in Buffers /\ led \in Seq(Entries)
      /\ n \in Nat /\ DOMAIN led = 1 .. n /\ mine \in Int /\ \A i \in 1 .. n : led[i] \in Entries
  BY <1>1 DEF Chunk, AudioInv, Typed, Buffers, ReplyIds
<1>. HIDE DEF chunk
<1>3. /\ buf'.flushed = buf.flushed
      /\ \A i \in 1 .. n : i \in DOMAIN buf'.ledger /\ i \in DOMAIN led
      /\ \A i \in 1 .. n : ~(EndsWith(led, mine) /\ i = n) => buf'.ledger[i] = led[i]
      /\ EndsWith(led, mine) =>
           /\ DOMAIN buf'.ledger = 1 .. n /\ n \in 1 .. n
           /\ SameReply(buf'.ledger[n], led[n]) /\ ~buf'.ledger[n].complete
           /\ buf'.ledger[n].queued = led[n].queued + units
      /\ ~EndsWith(led, mine) =>
           /\ DOMAIN buf'.ledger = 1 .. (n + 1)
           /\ buf'.ledger[n + 1] = LedgerEntry(mine, units)
  BY <1>1, <1>2, EnqueueIs DEF Pushed, chunk
<1>4. buf' \in Buffers
  BY PushedIs
<1>. HIDE DEF led, n, mine
<1>5. job.queued_any => EndsWith(led, mine)
  BY <1>1 DEF Owned, OneOwner, led, mine
<1>6. ~job.queued_any => NotEnded(mine)
  BY <1>1 DEF Owned, OneOwner, Cuttable, mine
<1>7. \A i \in 1 .. n : EntryShape(led[i]) /\ led[i].reply \in Int
  <2>1. \A i \in 1 .. n : EntryShape(led[i])
    BY <1>2 DEF Owned, LedgerShape, led
  <2>2. \A i \in 1 .. n : led[i].reply \in Int
    BY <1>2 DEF Entries, ReplyIds
  <2>. QED  BY <2>1, <2>2
<1>8. ~InFlushed(buf, mine) /\ tally.ends[mine] = 0
  <2>1. CASE job.queued_any
    <3>1. n \in 1 .. n /\ led[n].reply = mine
      BY <1>3, <1>5, <2>1 DEF EndsWith, n
    <3>2. InLedger(buf, mine)
      BY <1>2, <3>1 DEF InLedger, led
    <3>. QED  BY <1>1, <3>2 DEF Owned, OneOwner, ReportsTyped
  <2>2. CASE ~job.queued_any
    BY <1>6, <2>2 DEF NotEnded
  <2>. QED  BY <2>1, <2>2
<1>9. EndsWith(buf'.ledger, mine)
  <2>1. Len(buf'.ledger) \in Nat /\ DOMAIN buf'.ledger = 1 .. Len(buf'.ledger)
    BY <1>4 DEF Buffers
  <2>2. CASE EndsWith(led, mine)
    <3>1. n > 0 /\ led[n].reply = mine
      BY <2>2 DEF EndsWith, n
    <3>2. Len(buf'.ledger) = n
      BY <1>2, <1>3, <2>1, <2>2
    <3>. QED  BY <1>3, <2>2, <3>1, <3>2 DEF EndsWith, SameReply
  <2>3. CASE ~EndsWith(led, mine)
    <3>1. Len(buf'.ledger) = n + 1
      BY <1>2, <1>3, <2>1, <2>3
    <3>2. buf'.ledger[n + 1].reply = mine /\ ~buf'.ledger[n + 1].complete
      BY <1>3, <2>3 DEF LedgerEntry
    <3>. QED  BY <1>2, <3>1, <3>2 DEF EndsWith
  <2>. QED  BY <2>2, <2>3
<1>10. \E i \in DOMAIN buf'.ledger : buf'.ledger[i].reply = mine
  <2>1. Len(buf'.ledger) \in Nat /\ DOMAIN buf'.ledger = 1 .. Len(buf'.ledger)
    BY <1>4 DEF Buffers
  <2>2. Len(buf'.ledger) \in DOMAIN buf'.ledger
    BY <1>9, <2>1 DEF EndsWith
  <2>3. buf'.ledger[Len(buf'.ledger)].reply = mine
    BY <1>9 DEF EndsWith
  <2>. QED  BY <2>2, <2>3
<1>11. \A i \in 1 .. n : i \in DOMAIN buf'.ledger /\ buf'.ledger[i].reply = led[i].reply
  BY <1>3 DEF SameReply
<1>12. \A i \in DOMAIN buf'.ledger : i \in 1 .. n \/ (~EndsWith(led, mine) /\ i = n + 1)
  BY <1>2, <1>3
<1>13. \A r \in ReplyIds : InLedger(buf, r)' <=> InLedger(buf, r) \/ r = mine
  <2>. TAKE r \in ReplyIds
  <2>1. InLedger(buf, r) => InLedger(buf, r)'
    BY <1>2, <1>11 DEF InLedger, led
  <2>2. ASSUME NEW i \in DOMAIN buf'.ledger, buf'.ledger[i].reply = r PROVE InLedger(buf, r) \/ r = mine
    <3>1. CASE i \in 1 .. n
      BY <1>2, <1>11, <2>2, <3>1 DEF InLedger, led
    <3>2. CASE ~EndsWith(led, mine) /\ i = n + 1
      BY <1>3, <2>2, <3>2 DEF LedgerEntry
    <3>. QED  BY <1>12, <3>1, <3>2
  <2>3. r = mine => InLedger(buf, r)'
    BY <1>10 DEF InLedger
  <2>. QED  BY <2>1, <2>2, <2>3 DEF InLedger
<1>14. \A r : InFlushed(buf, r)' <=> InFlushed(buf, r)
  BY <1>3 DEF InFlushed
<1>15. ReportsTyped'
  BY <1>1 DEF Owned, ReportsTyped
<1>16. LedgerShape'
  <2>1. Rising(buf'.ledger)
    <3>. SUFFICES ASSUME NEW i \in DOMAIN buf'.ledger, NEW j \in DOMAIN buf'.ledger, i < j
                  PROVE  buf'.ledger[i].reply < buf'.ledger[j].reply
      BY DEF Rising
    <3>1. i \in 1 .. n
      <4>1. i # n + 1
        BY <1>2, <1>12
      <4>. QED  BY <1>12, <4>1
    <3>2. CASE j \in 1 .. n
      BY <1>2, <1>11, <3>1, <3>2 DEF Owned, LedgerShape, Rising, led
    <3>3. CASE ~EndsWith(led, mine) /\ j = n + 1
      <4>1. buf'.ledger[j].reply = mine
        BY <1>3, <3>3 DEF LedgerEntry
      <4>2. led[i].reply # mine
        BY <1>2, <1>5, <1>6, <3>1, <3>3 DEF NotEnded, InLedger, led
      <4>3. led[i].reply <= mine
        BY <1>7, <3>1 DEF EntryShape, mine
      <4>. QED  BY <1>2, <1>7, <1>11, <3>1, <4>1, <4>2, <4>3
    <3>. QED  BY <1>12, <3>2, <3>3
  <2>2. ASSUME NEW i \in DOMAIN buf'.ledger PROVE EntryShape(buf.ledger[i])'
    <3>1. CASE ~EndsWith(led, mine) /\ i = n + 1
      <4>1. buf'.ledger[i] = LedgerEntry(mine, units)
        BY <1>3, <3>1
      <4>. QED  BY <1>1, <1>2, <4>1 DEF EntryShape, LedgerEntry
    <3>2. CASE i \in 1 .. n /\ ~(EndsWith(led, mine) /\ i = n)
      <4>1. buf'.ledger[i] = led[i] /\ EntryShape(led[i])
        BY <1>3, <1>7, <3>2
      <4>. QED  BY <1>1, <4>1 DEF EntryShape, mine
    <3>3. CASE EndsWith(led, mine) /\ i = n
      <4>1. /\ SameReply(buf'.ledger[i], led[i]) /\ buf'.ledger[i].queued = led[i].queued + units
            /\ EntryShape(led[i]) /\ led[i] \in Entries
        BY <1>2, <1>3, <1>7, <3>3
      <4>2. buf'.ledger[i].queued > 0
        BY <1>1, <4>1 DEF Entries
      <4>3. led[i].reply = mine
        BY <3>3 DEF EndsWith, n
      <4>. QED  BY <1>1, <1>2, <4>1, <4>2, <4>3 DEF EntryShape, SameReply
    <3>. QED  BY <1>12, <3>1, <3>2, <3>3
  <2>. QED  BY <2>1, <2>2 DEF LedgerShape
<1>17. OneOwner'
  <2>1. ASSUME NEW r \in ReplyIds
        PROVE  /\ ~(InLedger(buf, r)' /\ InFlushed(buf, r)')
               /\ tally'.ends[r] = 1 => ~InLedger(buf, r)' /\ ~InFlushed(buf, r)'
               /\ r > job'.reply => NotEnded(r)'
    <3>1. /\ ~(InLedger(buf, r) /\ InFlushed(buf, r))
          /\ tally.ends[r] = 1 => ~InLedger(buf, r) /\ ~InFlushed(buf, r)
          /\ r > mine => NotEnded(r)
      BY DEF Owned, OneOwner, mine
    <3>2. r > mine => r # mine
      BY <1>2
    <3>. QED  BY <1>1, <1>8, <1>13, <1>14, <3>1, <3>2 DEF NotEnded
  <2>2. job'.pc \notin Early /\ job'.queued_any
    BY <1>1 DEF Early
  <2>3. \A r \in tally'.audible : tally'.ends[r] = 1 \/ InLedger(buf, r)' \/ InFlushed(buf, r)'
    <3>1. tally.audible \subseteq ReplyIds
      BY DEF AudioInv, Typed, BooksTyped
    <3>. QED  BY <1>1, <1>13, <1>14, <3>1 DEF Owned, OneOwner
  <2>4. Once(buf'.flushed) /\ (buf'.generation = 0 => buf'.flushed = <<>>)
    BY <1>1, <1>3 DEF Owned, OneOwner
  <2>. QED  BY <1>1, <1>9, <2>1, <2>2, <2>3, <2>4 DEF OneOwner, mine
<1>. QED  BY <1>15, <1>16, <1>17 DEF Owned

\* A chunk, pushed or discarded.
LEMMA OwnedChunk ==
    ASSUME AudioInv, Owned, JobChunk
    PROVE  Owned'
<1>1. CASE Discarded
  <2>1. job \in Jobs /\ job.pc = "synthesize" /\ buf' = buf /\ tally' = tally
    BY <1>1 DEF AudioInv, Typed, Discarded
  <2>2. job'.pc = job.pc /\ job'.reply = job.reply /\ job'.queued_any = job.queued_any /\ job'.gen = job.gen
    <3>. DEFINE more == job.chunks + 1
    <3>1. job' = [[job EXCEPT !.chunks = more] EXCEPT !.discarded = TRUE]
      BY <1>1 DEF Discarded
    <3>. HIDE DEF more
    <3>. QED  BY <2>1, <3>1 DEF Jobs
  <2>3. JobSame
    BY <2>2 DEF JobSame, Owned, OneOwner
  <2>. QED  BY <2>1, <2>3, OwnedKept DEF LedgerSame, ToldTyped, Owned, ReportsTyped
<1>2. ASSUME NEW units \in Nat, Pushed(units) PROVE Owned'
  BY <1>2, OwnedPushed
<1>. QED  BY <1>1, <1>2, ChunkIs

\* Every step.
LEMMA OwnedStep == AudioInv /\ Owned /\ [Next]_vars => Owned'
<1>. SUFFICES ASSUME AudioInv, Owned, [Next]_vars PROVE Owned'
  OBVIOUS
<1>1. CASE UNCHANGED vars \/ \E f \in Flushers : StartFlush(f)
  <2>1. buf' = buf /\ job' = job /\ tally' = tally
    BY <1>1 DEF vars, StartFlush
  <2>. QED  BY <2>1, JobStays, OwnedKept DEF LedgerSame, ToldTyped, Owned, ReportsTyped
<1>2. CASE \E a \in Actors : PlanStep(a)
  BY <1>2, OwnedPlanStep
<1>3. CASE DrainStep /\ ~PlanStep("drain")
  BY <1>3, DrainIsQuiet, OwnedDrainQuiet, OwnedBooking
<1>4. CASE JobChunk
  BY <1>4, OwnedChunk
<1>5. CASE JobTake
  BY <1>5, OwnedJobTake
<1>6. CASE JobComplete
  BY <1>6, OwnedComplete
<1>7. CASE JobTurns
  BY <1>7, OwnedJobTurns
<1>8. CASE JobCheckEpoch /\ ~UNCHANGED tally
  <2>1. /\ job.pc = "check_epoch" /\ JobReturns /\ EmitDiscardedReplyEnd /\ buf' = buf
    BY <1>8 DEF JobCheckEpoch
  <2>2. ~job.queued_any
    BY <2>1 DEF Owned, OneOwner, Early
  <2>. QED  BY <2>1, <2>2, OwnedDiscarded DEF Cuttable, Early
<1>9. CASE JobResult /\ ~UNCHANGED tally
  <2>1. /\ job.pc = "result" /\ (JobReturns \/ JobGoes("wait")) /\ EmitDiscardedReplyEnd /\ buf' = buf
        /\ ~job.queued_any
    BY <1>9 DEF JobResult
  <2>. QED  BY <2>1, OwnedDiscarded DEF Cuttable
<1>. QED  BY <1>1, <1>2, <1>3, <1>4, <1>5, <1>6, <1>7, <1>8, <1>9 DEF Next, JobRuns, JobTurns, FlushStep, Actors

-----------------------------------------------------------------------------
(* The moves of the drain, field by field. *)

\* What the pass has in hand after a step, and what the step leaves in the buffer.
InHandNow(pc, frames, carry, tail) ==
    drain'.pc = pc /\ drain'.frames = frames /\ drain'.carry = carry /\ drain'.tail = tail
Leaves(queue, carry, held, speaking) ==
    buf'.queue = queue /\ buf'.carry = carry /\ buf'.held = held /\ buf'.speaking = speaking

\* Another step of the same pass, with the same audio.
Turns(from, to) ==
    /\ drain.pc = from /\ InHandNow(to, drain.frames, drain.carry, drain.tail)
    /\ Leaves(buf.queue, buf.carry, buf.held, buf.speaking) /\ tts_drain_wake' = tts_drain_wake
Undone == drain.gen # buf.generation
Turning ==
    \/ Turns("read_speaking", "take_carry")
    \/ Turns("dry", "dry_generation") /\ buf.producing
    \/ Turns("dry", "tail")
    \/ Turns("dry_generation", "pause")
    \/ Turns("dry_generation", "tail")
    \/ Turns("tail", "tail_generation")
    \/ Turns("tail", "store") /\ (drain.carry = <<>> \/ buf.producing)
    \/ Turns("tail_generation", "store") /\ Undone
    \/ Turns("settle", "settle_book")
    \/ Turns("settle", "close") /\ Undone
    \/ Turns("settle_book", "close") /\ DrainSettleBook
    \/ Turns("frame", "store") /\ drain.tail /\ drain.frames = <<>>
    \/ Turns("frame", "pop") /\ ~drain.tail /\ drain.frames = <<>>
    \/ Turns("frame", "emit_start")
    \/ Turns("frame", "check")
    \/ Turns("emit_start", "check")
    \/ Turns("check", "write")
    \/ Turns("write", "book") /\ DrainWrite
    \/ Turns("book", "pace") /\ DrainBook

\* The steps that move audio, and the ends of a pass.
Begins ==
    /\ drain.pc = "idle" /\ InHandNow("read_speaking", <<>>, <<>>, FALSE)
    /\ Leaves(buf.queue, buf.carry, buf.held, buf.speaking)
Takes ==
    /\ drain.pc = "take_carry" /\ InHandNow("pop", drain.frames, buf.carry, drain.tail)
    /\ Leaves(buf.queue, <<>>, buf.held, buf.speaking) /\ tts_drain_wake' = tts_drain_wake
FindsNone ==
    /\ drain.pc = "pop" /\ buf.queue = <<>> /\ InHandNow("dry", drain.frames, drain.carry, drain.tail)
    /\ buf'.queue = buf.queue /\ buf'.carry = buf.carry /\ buf'.held = buf.held
    /\ tts_drain_wake' = tts_drain_wake
Popped == drain.carry \o Units(Head(buf.queue))
Pops ==
    /\ drain.pc = "pop" /\ buf.queue # <<>>
    /\ InHandNow(IF Frames(Popped) = <<>> THEN "pop" ELSE "frame", Frames(Popped), Remainder(Popped), drain.tail)
    /\ Leaves(Tail(buf.queue), buf.carry, TRUE, buf.speaking) /\ tts_drain_wake' = tts_drain_wake
Pauses ==
    /\ drain.pc = "pause" /\ InHandNow("idle", <<>>, <<>>, FALSE)
    /\ Leaves(buf.queue, drain.carry, FALSE, buf.speaking) /\ tts_drain_wake' = tts_drain_wake
Pads ==
    /\ drain.pc = "tail_generation" /\ InHandNow("frame", <<drain.carry>>, <<>>, TRUE)
    /\ Leaves(buf.queue, buf.carry, buf.held, buf.speaking) /\ tts_drain_wake' = tts_drain_wake
Stores ==
    /\ drain.pc = "store" /\ InHandNow("settle", drain.frames, <<>>, drain.tail)
    /\ Leaves(buf.queue, drain.carry, FALSE, buf.speaking) /\ tts_drain_wake' = tts_drain_wake
Advances ==
    /\ drain.pc = "pace" /\ InHandNow("frame", Tail(drain.frames), drain.carry, drain.tail)
    /\ Leaves(buf.queue, buf.carry, buf.held, buf.speaking) /\ tts_drain_wake' = tts_drain_wake
\* A pass that ends; but at its close and after its stop it was cut, or cuts.
Leaving ==
    /\ drain'.pc \in {"idle", "stop"} /\ InHandNow(drain'.pc, <<>>, <<>>, FALSE)
    /\ buf'.held \in {buf.held, FALSE} /\ Leaves(buf.queue, buf.carry, buf'.held, buf.speaking)
    /\ tts_drain_wake' = tts_drain_wake
    /\ drain.pc \in {"close", "stop"} \/ (drain.pc \in {"check", "pace"} /\ Undone) \/ DrainWriteFails

Moves ==
    \/ Turning \/ Begins \/ Takes \/ FindsNone \/ Pops \/ Pauses \/ Pads \/ Stores \/ Advances \/ Leaving

\* A move inside a pass keeps what the pass has in hand.
LEMMA Going ==
    ASSUME AudioInv, NEW pc, DrainGoes(pc)
    PROVE  InHandNow(pc, drain.frames, drain.carry, drain.tail)
<1>1. drain \in Drains
  BY DEF AudioInv, Typed
<1>. QED  BY <1>1 DEF DrainGoes, Drains, InHandNow

\* A step that leaves the buffer alone.
LEMMA SameBuffer ==
    ASSUME buf' = buf
    PROVE  Leaves(buf.queue, buf.carry, buf.held, buf.speaking)
BY DEF Leaves

\* Every step of the drain is one of the moves.
LEMMA DrainTurns ==
    ASSUME AudioInv, DrainStep, ~PlanStep("drain")
    PROVE  Moves
<1>1. /\ drain \in Drains /\ buf \in Buffers /\ DrainShape(buf, drain)
  BY DEF AudioInv, Typed
<1>2. CASE DrainBegin
  <2>1. drain' = [[Drain0 EXCEPT !.pc = "read_speaking"] EXCEPT !.gen = buf.generation] /\ drain.pc = "idle"
        /\ buf' = buf
    BY <1>2 DEF DrainBegin
  <2>2. InHandNow("read_speaking", <<>>, <<>>, FALSE)
    BY <2>1 DEF Drain0, InHandNow
  <2>. QED  BY <2>1, <2>2, SameBuffer DEF Moves, Begins
<1>3. CASE DrainReadSpeaking
  <2>1. drain' = [[drain EXCEPT !.pc = "take_carry"] EXCEPT !.start_emitted = agent_speaking]
        /\ drain.pc = "read_speaking" /\ buf' = buf /\ tts_drain_wake' = tts_drain_wake
    BY <1>3 DEF DrainReadSpeaking
  <2>2. InHandNow("take_carry", drain.frames, drain.carry, drain.tail)
    BY <1>1, <2>1 DEF Drains, InHandNow
  <2>. QED  BY <2>1, <2>2, SameBuffer DEF Moves, Turning, Turns
<1>4. CASE DrainTakeCarry
  <2>1. drain' = [[drain EXCEPT !.pc = "pop"] EXCEPT !.carry = buf.carry] /\ drain.pc = "take_carry"
        /\ buf' = TakeCarry(buf) /\ tts_drain_wake' = tts_drain_wake
    BY <1>4 DEF DrainTakeCarry
  <2>2. InHandNow("pop", drain.frames, buf.carry, drain.tail)
    BY <1>1, <2>1 DEF Drains, InHandNow
  <2>3. Leaves(buf.queue, <<>>, buf.held, buf.speaking)
    BY <1>1, <2>1 DEF TakeCarry, Buffers, Leaves
  <2>. QED  BY <2>1, <2>2, <2>3 DEF Moves, Takes
<1>5. CASE DrainPop /\ buf.queue = <<>>
  <2>1. drain' = [drain EXCEPT !.pc = "dry"] /\ drain.pc = "pop" /\ buf' = [buf EXCEPT !.speaking = @ /\ buf.producing]
        /\ tts_drain_wake' = tts_drain_wake
    BY <1>5 DEF DrainPop, Pop
  <2>2. InHandNow("dry", drain.frames, drain.carry, drain.tail)
    BY <1>1, <2>1 DEF Drains, InHandNow
  <2>3. buf'.queue = buf.queue /\ buf'.carry = buf.carry /\ buf'.held = buf.held
    BY <1>1, <2>1 DEF Buffers
  <2>. QED  BY <1>5, <2>1, <2>2, <2>3 DEF Moves, FindsNone
<1>6. CASE DrainPop /\ buf.queue # <<>>
  <2>. DEFINE frames == Frames(Popped)
              left == Remainder(Popped)
              to == IF frames = <<>> THEN "pop" ELSE "frame"
  <2>1. drain' = [[[drain EXCEPT !.carry = left] EXCEPT !.frames = frames] EXCEPT !.pc = to]
        /\ drain.pc = "pop" /\ buf' = Pop(buf) /\ tts_drain_wake' = tts_drain_wake
    BY <1>6 DEF DrainPop, Popped
  <2>2. InHandNow(to, frames, left, drain.tail)
    <3>. HIDE DEF to, frames, left
    <3>. QED  BY <1>1, <2>1 DEF Drains, InHandNow
  <2>3. Leaves(Tail(buf.queue), buf.carry, TRUE, buf.speaking)
    <3>. DEFINE rest == Tail(buf.queue)
    <3>1. buf' = [[buf EXCEPT !.queue = rest] EXCEPT !.held = TRUE]
      BY <1>6, <2>1 DEF Pop
    <3>. HIDE DEF rest
    <3>2. Leaves(rest, buf.carry, TRUE, buf.speaking)
      BY <1>1, <3>1 DEF Buffers, Leaves
    <3>. QED  BY <3>2 DEF rest
  <2>. QED  BY <1>6, <2>1, <2>2, <2>3 DEF Moves, Pops
<1>7. CASE DrainDry
  BY <1>7, Going, SameBuffer DEF DrainDry, Moves, Turning, Turns
<1>8. CASE DrainDryGeneration
  BY <1>8, Going, SameBuffer DEF DrainDryGeneration, Moves, Turning, Turns
<1>9. CASE DrainPause
  <2>1. drain' = Drain0 /\ drain.pc = "pause" /\ buf' = [[buf EXCEPT !.carry = drain.carry] EXCEPT !.held = FALSE]
        /\ tts_drain_wake' = tts_drain_wake
    BY <1>9 DEF DrainPause, DropHold, StoreCarry
  <2>2. Leaves(buf.queue, drain.carry, FALSE, buf.speaking)
    BY <1>1, <2>1 DEF Buffers, Leaves
  <2>. QED  BY <2>1, <2>2 DEF Moves, Pauses, InHandNow, Drain0
<1>10. CASE DrainTail
  BY <1>10, Going, SameBuffer DEF DrainTail, Moves, Turning, Turns
<1>11. CASE DrainTailGeneration
  <2>1. drain.pc = "tail_generation" /\ buf' = buf /\ tts_drain_wake' = tts_drain_wake
    BY <1>11 DEF DrainTailGeneration
  <2>2. CASE Accepts(buf, drain.gen)
    <3>. DEFINE last == <<drain.carry>>
    <3>1. drain' = [[[[drain EXCEPT !.pc = "frame"] EXCEPT !.tail = TRUE] EXCEPT !.carry = <<>>] EXCEPT !.frames = last]
      BY <1>11, <2>2 DEF DrainTailGeneration
    <3>. HIDE DEF last
    <3>2. InHandNow("frame", last, <<>>, TRUE)
      BY <1>1, <3>1 DEF Drains, InHandNow
    <3>. QED  BY <2>1, <3>2, SameBuffer DEF Moves, Pads, last
  <2>3. CASE ~Accepts(buf, drain.gen)
    <3>1. DrainGoes("store")
      BY <1>11, <2>3 DEF DrainTailGeneration, DrainGoes
    <3>. QED  BY <2>1, <2>3, <3>1, Going, SameBuffer DEF Moves, Turning, Turns, Undone, Accepts
  <2>. QED  BY <2>2, <2>3
<1>12. CASE DrainStore
  <2>1. drain' = [[drain EXCEPT !.pc = "settle"] EXCEPT !.carry = <<>>] /\ drain.pc = "store"
        /\ buf' = [[buf EXCEPT !.carry = drain.carry] EXCEPT !.held = FALSE]
        /\ tts_drain_wake' = tts_drain_wake
    BY <1>12 DEF DrainStore, DropHold, StoreCarry
  <2>2. Leaves(buf.queue, drain.carry, FALSE, buf.speaking)
    BY <1>1, <2>1 DEF Buffers, Leaves
  <2>3. InHandNow("settle", drain.frames, <<>>, drain.tail)
    BY <1>1, <2>1 DEF Drains, InHandNow
  <2>. QED  BY <2>1, <2>2, <2>3 DEF Moves, Stores
<1>13. CASE DrainSettle
  BY <1>13, Going, SameBuffer DEF DrainSettle, Moves, Turning, Turns, Undone, Accepts
<1>14. ASSUME DrainSettleBook \/ DrainBook PROVE Leaves(buf.queue, buf.carry, buf.held, buf.speaking)
  <2>1. PICK n : Book(n)
    BY <1>14 DEF DrainSettleBook, DrainBook
  <2>. QED  BY <1>1, <2>1 DEF Book, Buffers, Leaves
<1>15. CASE DrainSettleBook
  BY <1>14, <1>15, Going DEF DrainSettleBook, Moves, Turning, Turns
<1>16. CASE DrainBook
  BY <1>14, <1>16, Going DEF DrainBook, Moves, Turning, Turns
<1>17. ASSUME DrainStops \/ drain' = Drain0
       PROVE  drain'.pc \in {"idle", "stop"} /\ InHandNow(drain'.pc, <<>>, <<>>, FALSE)
  BY <1>17 DEF DrainStops, Drain0, InHandNow
<1>18. CASE DrainClose
  BY <1>17, <1>18, SameBuffer DEF DrainClose, Moves, Leaving
<1>19. CASE DrainFrame
  <2>1. CASE drain.frames = <<>>
    BY <1>19, <2>1, Going, SameBuffer DEF DrainFrame, Moves, Turning, Turns
  <2>2. CASE drain.frames # <<>>
    <3>. DEFINE to == IF drain.start_emitted THEN "check" ELSE "emit_start"
    <3>1. drain' = [[drain EXCEPT !.played_any = TRUE] EXCEPT !.pc = to] /\ drain.pc = "frame"
          /\ buf' = buf /\ tts_drain_wake' = tts_drain_wake
      BY <1>19, <2>2 DEF DrainFrame
    <3>2. to \in {"check", "emit_start"}
      OBVIOUS
    <3>. HIDE DEF to
    <3>3. InHandNow(to, drain.frames, drain.carry, drain.tail)
      BY <1>1, <3>1 DEF Drains, InHandNow
    <3>. QED  BY <3>1, <3>2, <3>3, SameBuffer DEF Moves, Turning, Turns
  <2>. QED  BY <2>1, <2>2
<1>20. CASE DrainEmitStart
  <2>1. drain' = [[drain EXCEPT !.pc = "check"] EXCEPT !.start_emitted = TRUE] /\ drain.pc = "emit_start"
        /\ buf' = buf /\ tts_drain_wake' = tts_drain_wake
    BY <1>20 DEF DrainEmitStart
  <2>2. InHandNow("check", drain.frames, drain.carry, drain.tail)
    BY <1>1, <2>1 DEF Drains, InHandNow
  <2>. QED  BY <2>1, <2>2, SameBuffer DEF Moves, Turning, Turns
<1>21. CASE DrainCheck
  BY <1>17, <1>21, Going, SameBuffer DEF DrainCheck, Moves, Turning, Turns, Leaving, Undone, Accepts
<1>22. CASE DrainWrite
  BY <1>22, Going, SameBuffer DEF DrainWrite, Moves, Turning, Turns
<1>23. CASE DrainWriteFails
  <2>1. drain' = [Drain0 EXCEPT !.pc = "stop"] /\ buf' = [buf EXCEPT !.held = FALSE]
        /\ tts_drain_wake' = tts_drain_wake
    BY <1>23 DEF DrainWriteFails, DropHold
  <2>2. drain'.pc = "stop" /\ InHandNow("stop", <<>>, <<>>, FALSE)
    BY <2>1 DEF Drain0, InHandNow
  <2>3. Leaves(buf.queue, buf.carry, FALSE, buf.speaking) /\ buf'.held = FALSE
    BY <1>1, <2>1 DEF Buffers, Leaves
  <2>. QED  BY <1>23, <2>1, <2>2, <2>3 DEF Moves, Leaving
<1>24. CASE DrainPace
  <2>1. CASE Accepts(buf, drain.gen)
    <3>. DEFINE rest == Tail(drain.frames)
    <3>1. drain' = [[drain EXCEPT !.pc = "frame"] EXCEPT !.frames = rest] /\ drain.pc = "pace"
          /\ buf' = buf /\ tts_drain_wake' = tts_drain_wake
      BY <1>24, <2>1 DEF DrainPace
    <3>. HIDE DEF rest
    <3>2. InHandNow("frame", rest, drain.carry, drain.tail)
      BY <1>1, <3>1 DEF Drains, InHandNow
    <3>. QED  BY <3>1, <3>2, SameBuffer DEF Moves, Advances, rest
  <2>2. CASE ~Accepts(buf, drain.gen)
    BY <1>17, <1>24, <2>2, SameBuffer DEF DrainPace, Moves, Leaving, Undone, Accepts
  <2>. QED  BY <2>1, <2>2
<1>25. CASE DrainStopped
  <2>1. drain' = Drain0 /\ drain.pc = "stop" /\ buf' = [buf EXCEPT !.held = FALSE]
        /\ tts_drain_wake' = tts_drain_wake
    BY <1>25 DEF DrainStopped, DropHold
  <2>2. Leaves(buf.queue, buf.carry, FALSE, buf.speaking) /\ buf'.held = FALSE
    BY <1>1, <2>1 DEF Buffers, Leaves
  <2>. QED  BY <1>17, <2>1, <2>2 DEF Moves, Leaving
<1>. QED
  BY <1>2, <1>3, <1>4, <1>5, <1>6, <1>7, <1>8, <1>9, <1>10, <1>11, <1>12, <1>13, <1>15, <1>16, <1>18,
     <1>19, <1>20, <1>21, <1>22, <1>23, <1>24, <1>25 DEF DrainStep

-----------------------------------------------------------------------------
(* Replies are played in turn. *)

UpTo(pcm, r) == \A x \in DOMAIN pcm : pcm[x] <= r
Before(u, v) == \A x \in DOMAIN u, y \in DOMAIN v : u[x] <= v[y]

\* What is on its way is in the order of the replies: frames, the carry c of the drain or b
\* of the buffer, and the queue, up to the reply of the last job.
Turn(frames, c, b, queue, last) ==
    /\ \A i, j \in DOMAIN frames : i < j => Before(frames[i], frames[j])
    /\ \A i \in DOMAIN frames : Before(frames[i], c) /\ UpTo(frames[i], last)
    /\ \A k \in DOMAIN queue :
         /\ \A i \in DOMAIN frames : UpTo(frames[i], queue[k].reply)
         /\ UpTo(c, queue[k].reply) /\ UpTo(b, queue[k].reply)
         /\ \A l \in DOMAIN queue : k < l => queue[k].reply <= queue[l].reply
         /\ queue[k].reply <= last
    /\ UpTo(c, last) /\ UpTo(b, last)
InTurn == Turn(drain.frames, drain.carry, buf.carry, buf.queue, job.reply)

\* The units of audio and the replies of chunks are integers.
LEMMA AudioInts ==
    /\ \A p \in Audio : DOMAIN p = 1 .. Len(p) /\ Len(p) \in Nat /\ \A x \in DOMAIN p : p[x] \in Int
    /\ \A q \in Seq(Chunks) : \A k \in DOMAIN q : q[k] \in Chunks /\ q[k].reply \in Int
<1>1. ReplyIds \subseteq Int
  BY DEF ReplyIds
<1>2. \A p \in Seq(ReplyIds) : DOMAIN p = 1 .. Len(p) /\ Len(p) \in Nat /\ \A x \in DOMAIN p : p[x] \in ReplyIds
  OBVIOUS
<1>3. \A q \in Seq(Chunks) : \A k \in DOMAIN q : q[k] \in Chunks
  OBVIOUS
<1>4. \A e \in Chunks : e.reply \in ReplyIds
  BY DEF Chunks
<1>. QED  BY <1>1, <1>2, <1>3, <1>4 DEF Audio

\* Where the units of frames and remainder come from.
LEMMA CutHolds ==
    ASSUME NEW p \in Audio
    PROVE  /\ \A i \in DOMAIN Frames(p) : \A x \in DOMAIN Frames(p)[i] :
                \E y \in 1 .. Len(p) : Frames(p)[i][x] = p[y] /\ (i > 1 => y > FrameUnits)
           /\ \A x \in DOMAIN Remainder(p) :
                \E y \in 1 .. Len(p) : Remainder(p)[x] = p[y] /\ (Frames(p) # <<>> => y > FrameUnits)
<1>. DEFINE n == FrameCount(p)
            at(k) == k * FrameUnits
<1>1. Len(p) \in Nat /\ n \in Nat /\ at(n) \in Nat /\ at(n) <= Len(p)
  <2>1. Len(p) \in Nat
    BY DEF Audio
  <2>. QED  BY <2>1, FrameDiv, FrameTimes DEF FrameCount
<1>2. FrameUnits \in Nat /\ FrameUnits > 0 /\ at(1) = FrameUnits
  <2>1. at(0) = 0 /\ at(0 + 1) = at(0) + FrameUnits
    BY FrameTimes
  <2>. HIDE DEF at
  <2>. QED  BY <2>1, FrameAssumption
<1>3. Frames(p) = [i \in 1 .. n |-> FrameAt(p, i)]
  BY DEF Frames
<1>4. Remainder(p) = SubSeq(p, at(n) + 1, Len(p))
  BY DEF Remainder
<1>5. \A i \in 1 .. n : FrameAt(p, i) = SubSeq(p, at(i - 1) + 1, at(i))
  BY DEF FrameAt
<1>6. \A i \in Nat, j \in Nat : i <= j => at(i) \in Nat /\ at(i) <= at(j)
  BY FrameOrder, FrameTimes
<1>7. \A i \in Nat : at(i + 1) = at(i) + FrameUnits
  BY FrameTimes
<1>. HIDE DEF at, n
<1>8. ASSUME NEW i \in DOMAIN Frames(p), NEW x \in DOMAIN Frames(p)[i]
      PROVE  \E y \in 1 .. Len(p) : Frames(p)[i][x] = p[y] /\ (i > 1 => y > FrameUnits)
  <2>1. i \in 1 .. n /\ i - 1 \in Nat /\ (i - 1) + 1 = i /\ i <= n /\ i \in Nat
    BY <1>1, <1>3
  <2>. DEFINE a == at(i - 1)
              b == at(i)
  <2>2. a \in Nat /\ b \in Nat /\ b = a + FrameUnits /\ b <= Len(p)
    <3>1. b <= at(n) /\ a \in Nat
      BY <1>1, <1>6, <2>1
    <3>2. b = a + FrameUnits
      BY <1>7, <2>1
    <3>. HIDE DEF a, b
    <3>. QED  BY <1>1, <1>2, <3>1, <3>2
  <2>3. i > 1 => a >= FrameUnits
    <3>1. i > 1 => at(1) <= at(i - 1)
      BY <1>6, <2>1
    <3>. QED  BY <1>2, <3>1
  <2>4. Frames(p)[i] = SubSeq(p, a + 1, b)
    BY <1>3, <1>5, <2>1
  <2>. HIDE DEF a, b
  <2>5. SubSeq(p, a + 1, b) \in Audio /\ Len(SubSeq(p, a + 1, b)) = b - a
        /\ \A z \in 1 .. b - a : SubSeq(p, a + 1, b)[z] = p[z + a]
    BY <1>2, <2>2, PartOf
  <2>6. x \in 1 .. b - a
    BY <2>4, <2>5 DEF Audio
  <2>7. x + a \in 1 .. Len(p) /\ Frames(p)[i][x] = p[x + a] /\ (i > 1 => x + a > FrameUnits)
    BY <1>1, <1>2, <2>2, <2>3, <2>4, <2>5, <2>6
  <2>. QED  BY <2>7
<1>9. ASSUME NEW x \in DOMAIN Remainder(p)
      PROVE  \E y \in 1 .. Len(p) : Remainder(p)[x] = p[y] /\ (Frames(p) # <<>> => y > FrameUnits)
  <2>. DEFINE a == at(n)
              m == Len(p)
  <2>1. a \in Nat /\ a <= m /\ m \in Nat
    BY <1>1
  <2>2. Frames(p) # <<>> => a >= FrameUnits
    <3>1. Frames(p) # <<>> => n >= 1
      <4>. SUFFICES ASSUME ~(n >= 1) PROVE Frames(p) = <<>>
        OBVIOUS
      <4>1. 1 .. n = {}
        BY <1>1
      <4>. QED  BY <1>3, <4>1
    <3>. QED  BY <1>1, <1>2, <1>6, <3>1
  <2>3. Remainder(p) = SubSeq(p, a + 1, m)
    BY <1>4
  <2>. HIDE DEF a, m
  <2>4. m = Len(p)
    BY DEF m
  <2>5. SubSeq(p, a + 1, m) \in Audio /\ Len(SubSeq(p, a + 1, m)) = m - a
        /\ \A z \in 1 .. m - a : SubSeq(p, a + 1, m)[z] = p[z + a]
    BY <2>1, <2>4, PartOf
  <2>6. x \in 1 .. m - a
    BY <2>3, <2>5 DEF Audio
  <2>7. x + a \in 1 .. m /\ Remainder(p)[x] = p[x + a] /\ (Frames(p) # <<>> => x + a > FrameUnits)
    BY <1>2, <2>1, <2>2, <2>3, <2>5, <2>6
  <2>. QED  BY <2>4, <2>7
<1>. QED  BY <1>8, <1>9

\* Some of it leaves, or moves on.
LEMMA TurnOn ==
    ASSUME NEW f \in Seq(Audio), NEW c \in Audio, NEW b \in Audio, NEW q \in Seq(Chunks), NEW r \in Int,
           Turn(f, c, b, q, r)
    PROVE  /\ Turn(<<>>, <<>>, b, q, r) /\ Turn(<<>>, b, <<>>, q, r) /\ Turn(<<>>, <<>>, c, q, r)
           /\ Turn(f, <<>>, c, q, r) /\ Turn(<<c>>, <<>>, b, q, r) /\ Turn(f, c, <<>>, <<>>, r)
           /\ f # <<>> => Turn(Tail(f), c, b, q, r)
           /\ \A s \in Int : r <= s => Turn(f, c, b, q, s)
<1>1. DOMAIN <<>> = {} /\ DOMAIN <<c>> = {1} /\ <<c>>[1] = c
  OBVIOUS
<1>2. /\ Turn(<<>>, <<>>, b, q, r) /\ Turn(<<>>, b, <<>>, q, r) /\ Turn(<<>>, <<>>, c, q, r)
      /\ Turn(f, <<>>, c, q, r) /\ Turn(f, c, <<>>, <<>>, r)
  BY <1>1 DEF Turn, UpTo, Before
<1>3. Turn(<<c>>, <<>>, b, q, r)
  BY <1>1 DEF Turn, UpTo, Before
<1>4. ASSUME f # <<>> PROVE Turn(Tail(f), c, b, q, r)
  <2>. DEFINE t == Tail(f)
  <2>1. /\ DOMAIN t = 1 .. (Len(f) - 1) /\ DOMAIN f = 1 .. Len(f) /\ Len(f) \in Nat
        /\ \A i \in 1 .. (Len(f) - 1) : t[i] = f[i + 1]
    BY <1>4, HeadTailProperties
  <2>. HIDE DEF t
  <2>2. \A i \in DOMAIN t : i + 1 \in DOMAIN f /\ t[i] = f[i + 1] /\ i \in Int
    BY <2>1
  <2>3. \A i, j \in DOMAIN t : i < j => Before(t[i], t[j])
    <3>. TAKE i, j \in DOMAIN t
    <3>1. i < j => i + 1 < j + 1
      BY <2>2
    <3>. QED  BY <2>2, <3>1 DEF Turn
  <2>4. Turn(t, c, b, q, r)
    BY <2>2, <2>3 DEF Turn
  <2>. QED  BY <2>4 DEF t
<1>5. ASSUME NEW s \in Int, r <= s PROVE Turn(f, c, b, q, s)
  <2>1. \A p \in Audio : UpTo(p, r) => UpTo(p, s)
    <3>. SUFFICES ASSUME NEW p \in Audio, UpTo(p, r), NEW x \in DOMAIN p PROVE p[x] <= s
      BY DEF UpTo
    <3>1. p[x] \in Int /\ p[x] <= r
      BY AudioInts DEF UpTo
    <3>. QED  BY <1>5, <3>1
  <2>2. \A i \in DOMAIN f : f[i] \in Audio
    OBVIOUS
  <2>3. \A k \in DOMAIN q : q[k].reply \in Int
    BY AudioInts
  <2>4. \A k \in DOMAIN q : q[k].reply <= s
    BY <1>5, <2>3 DEF Turn
  <2>. QED  BY <2>1, <2>2, <2>4 DEF Turn
<1>. QED  BY <1>2, <1>3, <1>4, <1>5

\* A chunk of the last reply is queued.
LEMMA TurnMore ==
    ASSUME NEW f \in Seq(Audio), NEW c \in Audio, NEW b \in Audio, NEW q \in Seq(Chunks), NEW chunk \in Chunks,
           Turn(f, c, b, q, chunk.reply)
    PROVE  Turn(f, c, b, Append(q, chunk), chunk.reply)
<1>. DEFINE w == Append(q, chunk)
            n == Len(q)
<1>1. /\ n \in Nat /\ DOMAIN q = 1 .. n /\ DOMAIN w = 1 .. (n + 1) /\ w[n + 1] = chunk
      /\ \A k \in 1 .. n : w[k] = q[k]
  OBVIOUS
<1>2. \A k \in DOMAIN w : k \in 1 .. n \/ k = n + 1
  BY <1>1
<1>. HIDE DEF w, n
<1>3. chunk.reply \in Int
  BY DEF Chunks, ReplyIds
<1>4. ASSUME NEW k \in DOMAIN w
      PROVE  /\ \A i \in DOMAIN f : UpTo(f[i], w[k].reply)
             /\ UpTo(c, w[k].reply) /\ UpTo(b, w[k].reply)
             /\ \A l \in DOMAIN w : k < l => w[k].reply <= w[l].reply
             /\ w[k].reply <= chunk.reply
  <2>1. CASE k \in 1 .. n
    <3>1. w[k] = q[k] /\ k \in DOMAIN q
      BY <1>1, <2>1
    <3>2. ASSUME NEW l \in DOMAIN w, k < l PROVE w[k].reply <= w[l].reply
      <4>1. CASE l \in 1 .. n
        BY <1>1, <3>1, <3>2, <4>1 DEF Turn
      <4>2. CASE l = n + 1
        BY <1>1, <3>1, <4>2 DEF Turn
      <4>. QED  BY <1>2, <4>1, <4>2
    <3>. QED  BY <3>1, <3>2 DEF Turn
  <2>2. CASE k = n + 1
    <3>1. \A l \in DOMAIN w : ~(k < l)
      BY <1>1, <2>2
    <3>. QED  BY <1>1, <1>3, <2>2, <3>1 DEF Turn
  <2>. QED  BY <1>2, <2>1, <2>2
<1>5. Turn(f, c, b, w, chunk.reply)
  BY <1>4 DEF Turn
<1>. QED  BY <1>5 DEF w

\* A chunk is popped: only the first frame can hold what was carried.
LEMMA TurnPop ==
    ASSUME NEW c \in Audio, Len(c) < FrameUnits, NEW b \in Audio, NEW q \in Seq(Chunks), q # <<>>, NEW r \in Int,
           Turn(<<>>, c, b, q, r)
    PROVE  LET p == c \o Units(Head(q))
           IN  Turn(Frames(p), Remainder(p), b, Tail(q), r)
<1>. DEFINE h == Head(q)
            mine == h.reply
            u == Units(h)
            p == c \o u
            f == Frames(p)
            left == Remainder(p)
            rest == Tail(q)
            n == Len(q)
<1>1. /\ n \in Nat /\ DOMAIN q = 1 .. n /\ DOMAIN rest = 1 .. (n - 1) /\ h = q[1] /\ h \in Chunks
      /\ \A k \in 1 .. (n - 1) : rest[k] = q[k + 1]
      /\ 1 \in DOMAIN q
  BY HeadTailProperties
<1>. HIDE DEF h, rest, n
<1>2. mine \in Int /\ u \in Audio /\ \A x \in 1 .. Len(u) : u[x] = mine
  <2>1. u \in Audio /\ Len(u) = h.units
    BY <1>1, UnitsOfChunk DEF Chunks
  <2>2. u = [i \in 1 .. h.units |-> mine] /\ mine \in Int
    BY <1>1 DEF Units, Chunks, ReplyIds
  <2>. HIDE DEF mine, u
  <2>. QED  BY <2>1, <2>2
<1>. HIDE DEF u
<1>3. FrameUnits \in Nat /\ Len(c) \in Nat /\ UpTo(c, mine)
  BY <1>1, FrameAssumption DEF Audio, Turn
<1>4. p \in Audio /\ \A y \in 1 .. Len(p) : p[y] <= mine /\ (y > FrameUnits => p[y] = mine)
  <2>1. p \in Audio /\ Len(p) = Len(c) + Len(u) /\ Len(u) \in Nat
        /\ \A y \in 1 .. Len(p) : p[y] = IF y <= Len(c) THEN c[y] ELSE u[y - Len(c)]
    BY <1>2, <1>3 DEF Audio
  <2>. HIDE DEF p, mine
  <2>2. ASSUME NEW y \in 1 .. Len(p)
        PROVE  p[y] <= mine /\ (y > FrameUnits => p[y] = mine)
    <3>0. y \in Nat /\ y > 0
      BY <2>1
    <3>1. CASE y <= Len(c)
      <4>1. y \in DOMAIN c
        BY <1>3, <3>0, <3>1, AudioInts
      <4>2. c[y] <= mine /\ p[y] = c[y]
        BY <1>3, <2>1, <3>1, <4>1 DEF UpTo
      <4>. QED  BY <1>3, <3>0, <3>1, <4>2
    <3>2. CASE ~(y <= Len(c))
      <4>1. y - Len(c) \in 1 .. Len(u)
        BY <1>3, <2>1, <3>0, <3>2
      <4>. QED  BY <1>2, <2>1, <3>2, <4>1
    <3>. QED  BY <3>1, <3>2
  <2>. QED  BY <2>1, <2>2
<1>. HIDE DEF p, mine
<1>5. \A i \in DOMAIN f : \A x \in DOMAIN f[i] : f[i][x] <= mine /\ (i > 1 => f[i][x] = mine)
  <2>. TAKE i \in DOMAIN f
  <2>. TAKE x \in DOMAIN f[i]
  <2>1. PICK y \in 1 .. Len(p) : f[i][x] = p[y] /\ (i > 1 => y > FrameUnits)
    BY <1>4, CutHolds
  <2>. QED  BY <1>4, <2>1
<1>6. \A x \in DOMAIN left : left[x] <= mine /\ (f # <<>> => left[x] = mine)
  <2>. TAKE x \in DOMAIN left
  <2>1. PICK y \in 1 .. Len(p) : left[x] = p[y] /\ (f # <<>> => y > FrameUnits)
    BY <1>4, CutHolds
  <2>. QED  BY <1>4, <2>1
<1>7. DOMAIN f \subseteq Nat \ {0} /\ \A i \in DOMAIN f : f # <<>>
  <2>1. FramesOk(f)
    BY <1>4, FramesCut
  <2>. QED  BY <2>1 DEF FramesOk
<1>. HIDE DEF f, left
<1>8. mine <= r /\ \A k \in DOMAIN rest : mine <= rest[k].reply /\ rest[k].reply \in Int
      /\ rest[k].reply <= r /\ UpTo(b, rest[k].reply)
  <2>1. mine <= r
    BY <1>1 DEF Turn, mine
  <2>2. ASSUME NEW k \in DOMAIN rest
        PROVE  mine <= rest[k].reply /\ rest[k].reply \in Int /\ rest[k].reply <= r /\ UpTo(b, rest[k].reply)
    <3>1. k + 1 \in DOMAIN q /\ 1 < k + 1 /\ rest[k] = q[k + 1] /\ q[k + 1] \in Chunks
      BY <1>1
    <3>2. q[1].reply <= q[k + 1].reply /\ q[k + 1].reply <= r /\ UpTo(b, q[k + 1].reply)
      BY <1>1, <3>1 DEF Turn
    <3>3. q[k + 1].reply \in Int
      BY <3>1, AudioInts
    <3>. QED  BY <1>1, <3>1, <3>2, <3>3 DEF mine
  <2>. QED  BY <2>1, <2>2
<1>9. \A s \in Int : mine <= s => UpTo(left, s) /\ \A i \in DOMAIN f : UpTo(f[i], s)
  <2>. SUFFICES ASSUME NEW s \in Int, mine <= s PROVE UpTo(left, s) /\ \A i \in DOMAIN f : UpTo(f[i], s)
    OBVIOUS
  <2>1. left \in Audio /\ \A i \in DOMAIN f : f[i] \in Audio
    <3>1. left \in Audio /\ f \in Seq(Audio)
      BY <1>4, FramesCut DEF f, left, FramesOk
    <3>. QED  BY <3>1
  <2>2. \A z \in Audio : \A x \in DOMAIN z : z[x] \in Int
    BY AudioInts
  <2>3. \A t \in Int : t <= mine => t <= s
    BY <1>2
  <2>. QED  BY <1>5, <1>6, <2>1, <2>2, <2>3 DEF UpTo
<1>10. \A i, j \in DOMAIN f : i < j => Before(f[i], f[j])
  <2>. TAKE i, j \in DOMAIN f
  <2>1. i < j => j > 1
    BY <1>7
  <2>. QED  BY <1>5, <2>1 DEF Before
<1>11. \A i \in DOMAIN f : Before(f[i], left)
  BY <1>5, <1>6, <1>7 DEF Before
<1>12. \A k, l \in DOMAIN rest : k < l => rest[k].reply <= rest[l].reply
  <2>. TAKE k, l \in DOMAIN rest
  <2>1. /\ k + 1 \in DOMAIN q /\ rest[k] = q[k + 1] /\ l + 1 \in DOMAIN q /\ rest[l] = q[l + 1]
        /\ (k < l => k + 1 < l + 1)
    BY <1>1
  <2>. QED  BY <2>1 DEF Turn
<1>13. UpTo(b, r)
  BY DEF Turn
<1>14. Turn(f, left, b, rest, r)
  BY <1>8, <1>9, <1>10, <1>11, <1>12, <1>13 DEF Turn
<1>. QED  BY <1>14 DEF f, left, rest, p, u, h

-----------------------------------------------------------------------------
(* What the steps of the job and of the plans leave of the audio on its way. *)

\* Queue and carry rest, and speaking is not cleared over a queue.
AudioRests ==
    /\ drain' = drain /\ buf'.queue = buf.queue /\ buf'.carry = buf.carry /\ buf'.held = buf.held
    /\ buf.queue # <<>> /\ buf.speaking => buf'.speaking
Flushes ==
    /\ drain' = drain /\ job' = job /\ buf'.queue = <<>> /\ buf'.carry = <<>>
    /\ buf' = Flush(buf) /\ buf'.generation # 0
    /\ tally' = [tally EXCEPT !.stale = CutOff, !.booked = NoUnits, !.written = NoUnits,
                              !.started = {}, !.played = {}, !.done_ok = {}]

OffDrain == AudioRests \/ Flushes \/ \E units \in Nat : Pushed(units)

\* What steps other than those of the drain do with the audio on its way.
LEMMA OthersLeave ==
    ASSUME AudioInv, [Next]_vars, ~(DrainStep /\ ~PlanStep("drain"))
    PROVE  OffDrain
<1>1. buf \in Buffers
  BY DEF AudioInv, Typed
<1>2. ASSUME buf' = buf, drain' = drain PROVE AudioRests
  BY <1>2 DEF AudioRests
<1>3. ASSUME NEW on \in BOOLEAN, buf' = SetProducing(buf, on), drain' = drain PROVE AudioRests
  <2>. DEFINE speak == IF on THEN TRUE ELSE IF buf.queue = <<>> THEN FALSE ELSE buf.speaking
  <2>1. speak \in BOOLEAN /\ buf' = [[buf EXCEPT !.producing = on] EXCEPT !.speaking = speak]
    BY <1>1, <1>3 DEF SetProducing, Buffers
  <2>2. buf.queue # <<>> /\ buf.speaking => speak
    OBVIOUS
  <2>. HIDE DEF speak
  <2>3. buf'.queue = buf.queue /\ buf'.carry = buf.carry /\ buf'.held = buf.held /\ buf'.speaking = speak
    BY <1>1, <2>1 DEF Buffers
  <2>. QED  BY <1>3, <2>2, <2>3 DEF AudioRests
<1>4. CASE UNCHANGED vars \/ \E f \in Flushers : StartFlush(f)
  BY <1>2, <1>4 DEF vars, StartFlush, OffDrain
<1>5. ASSUME NEW a \in Actors, PlanStep(a) PROVE OffDrain
  <2>1. drain' = drain /\ job' = job
    BY <1>5 DEF PlanStep
  <2>2. CASE Head(plan[a]) = "flush"
    <3>1. buf' = Flush(buf) /\ tally' = [tally EXCEPT !.stale = CutOff, !.booked = NoUnits, !.written = NoUnits,
                                           !.started = {}, !.played = {}, !.done_ok = {}]
      BY <1>5, <2>2 DEF PlanStep
    <3>2. buf'.queue = <<>> /\ buf'.carry = <<>> /\ buf'.generation # 0
      BY <1>1, <3>1 DEF Flush, Buffer0, Buffers
    <3>. QED  BY <2>1, <3>1, <3>2 DEF Flushes, OffDrain
  <2>3. CASE Head(plan[a]) # "flush"
    <3>1. buf' = buf \/ buf' = [buf EXCEPT !.flushed = <<>>]
      BY <1>5, <2>3 DEF PlanStep, TakeFlushed
    <3>2. buf'.queue = buf.queue /\ buf'.carry = buf.carry /\ buf'.held = buf.held /\ buf'.speaking = buf.speaking
      BY <1>1, <3>1 DEF Buffers
    <3>. QED  BY <2>1, <3>2 DEF AudioRests, OffDrain
  <2>. QED  BY <2>2, <2>3
<1>6. CASE JobTake \/ JobReadGeneration \/ JobReadFailure \/ JobWait \/ JobWaitBuffer \/ JobAborted
           \/ DeadlinePasses \/ JobCheckEpoch \/ JobResult
  BY <1>2, <1>6 DEF JobTake, JobReadGeneration, JobReadFailure, JobWait, JobWaitBuffer, JobAborted,
     DeadlinePasses, JobCheckEpoch, JobResult, OffDrain
<1>7. CASE JobStart \/ JobProduced \/ JobFailed
  BY <1>3, <1>7 DEF JobStart, JobProduced, JobFailed, OffDrain
<1>8. CASE JobComplete
  <2>1. buf' = MarkComplete(buf, job.reply) /\ drain' = drain
    BY <1>8 DEF JobComplete
  <2>2. buf'.queue = buf.queue /\ buf'.carry = buf.carry /\ buf'.held = buf.held /\ buf'.speaking = buf.speaking
    BY <1>1, <2>1, MarkCompleteTyped, MarkCompleteIs
  <2>. QED  BY <2>1, <2>2 DEF AudioRests, OffDrain
<1>9. CASE JobChunk
  <2>1. Discarded => AudioRests
    BY <1>2 DEF Discarded
  <2>. QED  BY <1>9, <2>1, ChunkIs DEF OffDrain
<1>. QED
  BY <1>4, <1>5, <1>6, <1>7, <1>8, <1>9 DEF Next, JobRuns, FlushStep, Actors

\* Jobs take the replies in their order.
LEMMA RepliesRise ==
    ASSUME AudioInv, [Next]_vars
    PROVE  job.reply \in Int /\ job'.reply \in Int /\ job.reply <= job'.reply
<1>1. job \in Jobs /\ job.reply \in Int
  BY PlaybackAssumption DEF AudioInv, Typed, Jobs
<1>2. ASSUME job' = job \/ JobReturns \/ \E pc : JobGoes(pc) PROVE job'.reply = job.reply
  BY <1>1, <1>2 DEF JobReturns, JobGoes, Job0, Jobs
<1>3. CASE UNCHANGED vars \/ DrainStep \/ FlushStep \/ PlanStep("job") \/ \E f \in Flushers : StartFlush(f)
  <2>1. job' = job
    BY <1>3 DEF vars, DrainStep, FlushStep, PlanStep, StartFlush, DrainBegin, DrainReadSpeaking, DrainTakeCarry, DrainPop,
           DrainDry, DrainDryGeneration, DrainPause, DrainTail, DrainTailGeneration, DrainStore, DrainSettle,
           DrainSettleBook, DrainBook, DrainClose, DrainFrame, DrainEmitStart, DrainCheck, DrainWrite,
           DrainWriteFails, DrainPace, DrainStopped
  <2>. QED  BY <1>1, <2>1
<1>4. CASE JobTake
  <2>1. job' = [[[Job0 EXCEPT !.pc = "taken"] EXCEPT !.reply = job.reply + 1] EXCEPT !.epoch = tts_synthesis_epoch]
    BY <1>4 DEF JobTake
  <2>2. job'.reply = job.reply + 1
    BY <2>1 DEF Job0
  <2>. QED  BY <1>1, <2>2
<1>5. CASE JobCheckEpoch \/ JobStart \/ JobComplete \/ JobProduced \/ JobFailed \/ JobResult \/ JobWaitBuffer \/ JobAborted
  <2>1. JobReturns \/ \E pc : JobGoes(pc)
    BY <1>5 DEF JobCheckEpoch, JobStart, JobComplete, JobProduced, JobFailed, JobResult, JobWaitBuffer, JobAborted
  <2>2. job'.reply = job.reply
    BY <1>2, <2>1
  <2>. QED  BY <1>1, <2>2
<1>6. CASE JobReadGeneration \/ JobReadFailure \/ JobWait \/ DeadlinePasses
  <2>1. job'.reply = job.reply
    BY <1>1, <1>2, <1>6 DEF JobReadGeneration, JobReadFailure, JobWait, DeadlinePasses, Jobs
  <2>. QED  BY <1>1, <2>1
<1>7. CASE JobChunk
  <2>1. job'.reply = job.reply
    BY <1>1, <1>7, ChunkIs DEF Pushed, Discarded, Jobs
  <2>. QED  BY <1>1, <2>1
<1>. QED  BY <1>3, <1>4, <1>5, <1>6, <1>7 DEF Next, JobRuns

\* Nothing is on its way at the start.
LEMMA TurnInit == Init => InTurn
<1>. SUFFICES ASSUME Init PROVE InTurn
  OBVIOUS
<1>1. drain.frames = <<>> /\ drain.carry = <<>> /\ buf.carry = <<>> /\ buf.queue = <<>>
  BY DEF Init, Drain0, Buffer0
<1>. QED  BY <1>1 DEF InTurn, Turn, UpTo

\* Every step keeps the order.
LEMMA TurnStep == AudioInv /\ InTurn /\ [Next]_vars => InTurn'
<1>. SUFFICES ASSUME AudioInv, InTurn, [Next]_vars PROVE InTurn'
  OBVIOUS
<1>. DEFINE f == drain.frames
            c == drain.carry
            b == buf.carry
            q == buf.queue
            r == job.reply
            s == job'.reply
<1>1. /\ f \in Seq(Audio) /\ c \in Audio /\ b \in Audio /\ q \in Seq(Chunks) /\ r \in Int /\ s \in Int /\ r <= s
      /\ Len(c) < FrameUnits /\ Turn(f, c, b, q, r)
  BY RepliesRise DEF AudioInv, Typed, Drains, Buffers, DrainShape, InTurn
<1>2. drain.frames # <<>> => drain.pc \in WithFrame \union {"frame"}
  BY DEF AudioInv, DrainShape
<1>3. ASSUME Turn(drain'.frames, drain'.carry, buf'.carry, buf'.queue, s) PROVE InTurn'
  BY <1>3 DEF InTurn
<1>. HIDE DEF f, c, b, q, r, s
<1>4. Turn(f, c, b, q, s)
  BY <1>1, TurnOn
<1>5. /\ Turn(<<>>, <<>>, b, q, s) /\ Turn(<<>>, b, <<>>, q, s) /\ Turn(<<>>, <<>>, c, q, s)
      /\ Turn(f, <<>>, c, q, s) /\ Turn(<<c>>, <<>>, b, q, s) /\ Turn(f, c, <<>>, <<>>, s)
      /\ f # <<>> => Turn(Tail(f), c, b, q, s)
  BY <1>1, <1>4, TurnOn
<1>6. CASE DrainStep /\ ~PlanStep("drain")
  <2>1. Moves
    BY <1>6, DrainTurns
  <2>2. CASE Turning
    <3>1. drain'.frames = f /\ drain'.carry = c /\ buf'.carry = b /\ buf'.queue = q
      BY <2>2 DEF Turning, Turns, InHandNow, Leaves, f, c, b, q
    <3>. QED  BY <1>3, <1>4, <3>1
  <2>3. CASE Begins \/ Leaving
    <3>1. drain'.frames = <<>> /\ drain'.carry = <<>> /\ buf'.carry = b /\ buf'.queue = q
      BY <2>3 DEF Begins, Leaving, InHandNow, Leaves, b, q
    <3>. QED  BY <1>3, <1>5, <3>1
  <2>4. CASE Takes
    <3>1. drain'.frames = <<>> /\ drain'.carry = b /\ buf'.carry = <<>> /\ buf'.queue = q
      BY <1>2, <2>4 DEF Takes, InHandNow, Leaves, WithFrame, b, q
    <3>. QED  BY <1>3, <1>5, <3>1
  <2>5. CASE FindsNone
    <3>1. drain'.frames = f /\ drain'.carry = c /\ buf'.carry = b /\ buf'.queue = q
      BY <2>5 DEF FindsNone, InHandNow, f, c, b, q
    <3>. QED  BY <1>3, <1>4, <3>1
  <2>6. CASE Pops
    <3>1. /\ drain'.frames = Frames(c \o Units(Head(q))) /\ drain'.carry = Remainder(c \o Units(Head(q)))
          /\ buf'.carry = b /\ buf'.queue = Tail(q) /\ q # <<>>
      BY <2>6 DEF Pops, Popped, InHandNow, Leaves, c, b, q
    <3>2. f = <<>>
      BY <1>2, <2>6 DEF Pops, WithFrame, f
    <3>3. Turn(Frames(c \o Units(Head(q))), Remainder(c \o Units(Head(q))), b, Tail(q), s)
      BY <1>1, <1>4, <3>1, <3>2, TurnPop
    <3>. QED  BY <1>3, <3>1, <3>3
  <2>7. CASE Pauses
    <3>1. drain'.frames = <<>> /\ drain'.carry = <<>> /\ buf'.carry = c /\ buf'.queue = q
      BY <2>7 DEF Pauses, InHandNow, Leaves, c, q
    <3>. QED  BY <1>3, <1>5, <3>1
  <2>8. CASE Pads
    <3>1. drain'.frames = <<c>> /\ drain'.carry = <<>> /\ buf'.carry = b /\ buf'.queue = q
      BY <2>8 DEF Pads, InHandNow, Leaves, c, b, q
    <3>. QED  BY <1>3, <1>5, <3>1
  <2>9. CASE Stores
    <3>1. drain'.frames = f /\ drain'.carry = <<>> /\ buf'.carry = c /\ buf'.queue = q
      BY <2>9 DEF Stores, InHandNow, Leaves, f, c, q
    <3>. QED  BY <1>3, <1>5, <3>1
  <2>10. CASE Advances
    <3>1. drain'.frames = Tail(f) /\ drain'.carry = c /\ buf'.carry = b /\ buf'.queue = q
      BY <2>10 DEF Advances, InHandNow, Leaves, f, c, b, q
    <3>2. f # <<>>
      BY <2>10 DEF Advances, AudioInv, DrainShape, WithFrame, f
    <3>. QED  BY <1>3, <1>5, <3>1, <3>2
  <2>. QED  BY <2>1, <2>2, <2>3, <2>4, <2>5, <2>6, <2>7, <2>8, <2>9, <2>10 DEF Moves
<1>7. CASE ~(DrainStep /\ ~PlanStep("drain"))
  <2>1. OffDrain
    BY <1>7, OthersLeave
  <2>2. CASE AudioRests
    <3>1. drain'.frames = f /\ drain'.carry = c /\ buf'.carry = b /\ buf'.queue = q
      BY <2>2 DEF AudioRests, f, c, b, q
    <3>. QED  BY <1>3, <1>4, <3>1
  <2>3. CASE Flushes
    <3>1. drain'.frames = f /\ drain'.carry = c /\ buf'.carry = <<>> /\ buf'.queue = <<>>
      BY <2>3 DEF Flushes, f, c
    <3>. QED  BY <1>3, <1>5, <3>1
  <2>4. ASSUME NEW units \in Nat, Pushed(units) PROVE InTurn'
    <3>. DEFINE chunk == Chunk(r, units)
    <3>1. /\ drain'.frames = f /\ drain'.carry = c /\ buf'.carry = b /\ buf'.queue = Append(q, chunk)
          /\ chunk \in Chunks /\ chunk.reply = r /\ s = r
      <4>1. drain' = drain
        BY <2>4 DEF Pushed
      <4>2. chunk.reply = r
        BY DEF Chunk
      <4>. QED  BY <2>4, <4>1, <4>2, PushedIs DEF f, c, b, q, r, s
    <3>. HIDE DEF chunk
    <3>2. Turn(f, c, b, Append(q, chunk), chunk.reply)
      BY <1>1, <3>1, TurnMore
    <3>. QED  BY <1>3, <3>1, <3>2
  <2>. QED  BY <2>1, <2>2, <2>3, <2>4 DEF OffDrain
<1>. QED  BY <1>6, <1>7

-----------------------------------------------------------------------------
(* Undisturbed steps. *)

\* Undisturbed after a step: undisturbed before it, and nothing was flushed by it.
LEMMA CalmBefore ==
    ASSUME AudioInv, [Next]_vars, Undisturbed'
    PROVE  Undisturbed /\ ~DrainWriteFails /\ \A a \in Actors : PlanStep(a) => Head(plan[a]) # "flush"
<1>1. /\ plan \in [Actors -> Seq(Steps)] /\ buf \in Buffers /\ buf.generation \in Nat
      /\ "drain" \in Actors /\ "job" \in Actors /\ scope \in Scopes
  BY DEF AudioInv, SpeakInv, Shape, Typed, Buffers, Actors
<1>2. /\ 2 \in DOMAIN AbortPlan /\ AbortPlan[2] = "flush"
      /\ 2 \in DOMAIN FlushPlan /\ FlushPlan[2] = "flush"
      /\ 3 \in DOMAIN ManualBargePlan /\ ManualBargePlan[3] = "flush"
      /\ 2 \in DOMAIN BargeInPlan /\ BargeInPlan[2] = "flush"
  BY DEF AbortPlan, FlushPlan, ManualBargePlan, BargeInPlan
<1>3. ASSUME NEW a \in Actors, NEW p \in {AbortPlan, FlushPlan, ManualBargePlan, BargeInPlan},
             plan' = [plan EXCEPT ![a] = p]
      PROVE  FALSE
  <2>1. plan'[a] = p
    BY <1>1, <1>3
  <2>. QED  BY <1>2, <2>1 DEF Undisturbed
<1>4. ~DrainWriteFails
  BY <1>1, <1>3 DEF DrainWriteFails
<1>5. ASSUME NEW a \in Actors, PlanStep(a)
      PROVE  Head(plan[a]) # "flush" /\ Undisturbed
  <2>1. plan[a] # <<>> /\ plan' = [plan EXCEPT ![a] = Tail(@)]
    BY <1>5 DEF PlanStep
  <2>2. Head(plan[a]) # "flush"
    <3>. SUFFICES ASSUME Head(plan[a]) = "flush" PROVE FALSE
      OBVIOUS
    <3>1. buf' = Flush(buf)
      BY <1>5 DEF PlanStep
    <3>2. buf'.generation = buf.generation + 1
      BY <3>1 DEF Flush, Buffer0
    <3>. QED  BY <1>1, <3>2 DEF Undisturbed
  <2>3. buf' = buf \/ buf' = TakeFlushed(buf)
    BY <1>5, <2>2 DEF PlanStep
  <2>4. buf'.generation = buf.generation
    BY <1>1, <2>3 DEF TakeFlushed, Buffers
  <2>5. Undisturbed
    BY <2>1, <2>2, <2>4, UndisturbedPlan
  <2>. QED  BY <2>2, <2>5
<1>6. ASSUME plan' = plan, buf'.generation = buf.generation PROVE Undisturbed
  BY <1>6, StaysUndisturbed
<1>7. CASE DrainStep /\ ~PlanStep("drain")
  <2>1. Flow
    BY <1>7, FlowIdle, FlowEnds, FlowCarry, FlowPop, FlowTailGeneration, FlowFrame, FlowCheck, FlowWrite,
       FlowWriteFails, FlowBook DEF DrainStep
  <2>2. Undisturbed
    BY <2>1 DEF Flow
  <2>. QED  BY <1>4, <1>5, <2>2
<1>8. CASE \E f \in Flushers : StartFlush(f)
  <2>1. PICK f \in Flushers : StartFlush(f)
    BY <1>8
  <2>2. f \in Actors
    BY DEF Actors
  <2>3. \E p \in {AbortPlan, FlushPlan, ManualBargePlan, BargeInPlan} : plan' = [plan EXCEPT ![f] = p]
    BY <1>1, <2>1, PlaybackAssumption DEF StartFlush
  <2>. QED  BY <1>3, <2>2, <2>3
<1>9. CASE \E a \in Actors : PlanStep(a)
  BY <1>4, <1>5, <1>9
<1>10. CASE UNCHANGED vars
  <2>1. Undisturbed
    BY <1>6, <1>10 DEF vars, passes
  <2>. QED  BY <1>4, <1>5, <2>1
<1>11. CASE JobTake \/ JobReadGeneration \/ JobReadFailure \/ JobCheckEpoch \/ JobResult \/ JobWait
            \/ JobAborted \/ DeadlinePasses
  <2>1. plan' = plan /\ buf' = buf
    BY <1>11 DEF JobTake, JobReadGeneration, JobReadFailure, JobCheckEpoch, JobResult, JobWait, JobAborted,
       DeadlinePasses, passes
  <2>. QED  BY <1>4, <1>5, <1>6, <2>1
<1>12. CASE JobWaitBuffer
  <2>1. buf' = buf /\ (plan' = plan \/ plan' = [plan EXCEPT !["job"] = AbortPlan])
    BY <1>12 DEF JobWaitBuffer, passes
  <2>2. plan' = plan
    BY <1>1, <1>3, <2>1
  <2>. QED  BY <1>4, <1>5, <1>6, <2>1, <2>2
<1>13. CASE JobStart \/ JobProduced \/ JobFailed
  <2>1. plan' = plan /\ \E on \in BOOLEAN : buf' = SetProducing(buf, on)
    BY <1>13 DEF JobStart, JobProduced, JobFailed, passes
  <2>2. buf'.generation = buf.generation
    <3>1. PICK on \in BOOLEAN : buf' = SetProducing(buf, on)
      BY <2>1
    <3>. DEFINE speak == IF on THEN TRUE ELSE IF buf.queue = <<>> THEN FALSE ELSE buf.speaking
    <3>2. buf' = [[buf EXCEPT !.producing = on] EXCEPT !.speaking = speak]
      BY <1>1, <3>1 DEF SetProducing, Buffers
    <3>. HIDE DEF speak
    <3>. QED  BY <1>1, <3>2 DEF Buffers
  <2>. QED  BY <1>4, <1>5, <1>6, <2>1, <2>2
<1>14. CASE JobComplete
  <2>1. plan' = plan /\ buf' = MarkComplete(buf, job.reply)
    BY <1>14 DEF JobComplete, passes
  <2>2. buf'.generation = buf.generation
    BY <1>1, <2>1, MarkCompleteTyped
  <2>. QED  BY <1>4, <1>5, <1>6, <2>1, <2>2
<1>15. CASE JobChunk
  <2>1. plan' = plan
    BY <1>15 DEF JobChunk, passes
  <2>2. buf'.generation = buf.generation
    <3>1. CASE Discarded
      BY <3>1 DEF Discarded
    <3>2. CASE \E units \in Nat : Pushed(units)
      BY <3>2, PushedIs
    <3>. QED  BY <1>15, <3>1, <3>2, ChunkIs
  <2>. QED  BY <1>4, <1>5, <1>6, <2>1, <2>2
<1>. QED
  BY <1>7, <1>8, <1>9, <1>10, <1>11, <1>12, <1>13, <1>14, <1>15 DEF Next, JobRuns, FlushStep, Actors

\* The steps of jobs and plans that move no audio: what they tell, and whom they wake.
Producers == {"synthesize", "produced"}
JobLater ==
    \/ job'.reply > job.reply
    \/ job'.reply = job.reply /\ (job.pc = "idle" => job'.pc = "idle")
LedgerStands ==
    /\ DOMAIN buf'.ledger = DOMAIN buf.ledger
    /\ \A i \in DOMAIN buf.ledger :
         SameReply(buf'.ledger[i], buf.ledger[i]) /\ buf'.ledger[i].queued = buf.ledger[i].queued
AudioStands ==
    /\ drain' = drain /\ LedgerStands
    /\ buf'.queue = buf.queue /\ buf'.carry = buf.carry /\ buf'.held = buf.held
    /\ buf.queue # <<>> /\ buf.speaking => buf'.speaking
    /\ tally'.booked = tally.booked /\ tally'.written = tally.written /\ tally'.played = tally.played
Wakes ==
    /\ tts_drain_wake => tts_drain_wake'
    /\ buf.producing => buf'.producing \/ tts_drain_wake'
    /\ job.pc \in Producers => job'.pc \in Producers \/ tts_drain_wake'
    /\ (buf.producing => job.pc \in Producers) => (buf'.producing => job'.pc \in Producers)
Oks ==
    \A r \in tally'.done_ok :
      \/ r \in tally.done_ok
      \/ r = job.reply /\ job'.reply = job.reply /\ job'.pc = "idle" /\ ~IsSpeaking(buf)
Bystands == AudioStands /\ Wakes /\ Oks /\ JobLater

\* A step of a plan that is no flush.
LEMMA PlanBystands ==
    ASSUME AudioInv, NEW a \in Actors, PlanStep(a), Head(plan[a]) # "flush"
    PROVE  Bystands
<1>1. buf \in Buffers /\ DOMAIN tally = DOMAIN Tally0
  BY DEF AudioInv, Typed, SpeakInv, Shape
<1>2. drain' = drain /\ job' = job /\ tts_drain_wake' = tts_drain_wake
  BY DEF PlanStep
<1>3. buf' = buf \/ buf' = [buf EXCEPT !.flushed = <<>>]
  BY DEF PlanStep, TakeFlushed
<1>4. /\ buf'.queue = buf.queue /\ buf'.carry = buf.carry /\ buf'.held = buf.held /\ buf'.speaking = buf.speaking
      /\ buf'.producing = buf.producing /\ buf'.ledger = buf.ledger
  BY <1>1, <1>3 DEF Buffers
<1>5. \/ tally' = tally
      \/ tally' = [tally EXCEPT !.ends = CountEnds(@, buf.flushed)]
      \/ tally' = [tally EXCEPT !.speaking = @ - (IF ended[a] THEN 1 ELSE 0)]
  BY DEF PlanStep
<1>6. /\ tally'.booked = tally.booked /\ tally'.written = tally.written /\ tally'.played = tally.played
      /\ tally'.done_ok = tally.done_ok
  BY <1>1, <1>5 DEF Tally0
<1>7. LedgerStands
  BY <1>4 DEF LedgerStands, SameReply
<1>. QED  BY <1>2, <1>4, <1>6, <1>7 DEF Bystands, AudioStands, Wakes, Oks, JobLater

\* A step that leaves buffer and drain alone.
LEMMA PlainBystands ==
    ASSUME buf' = buf, drain' = drain, tts_drain_wake' = tts_drain_wake, JobLater, Oks,
           job.pc \in Producers => job'.pc \in Producers,
           tally'.booked = tally.booked, tally'.written = tally.written, tally'.played = tally.played
    PROVE  Bystands
<1>1. LedgerStands
  BY DEF LedgerStands, SameReply
<1>. QED  BY <1>1 DEF Bystands, AudioStands, Wakes

\* set_producing moves no audio, and clears speaking only over an empty queue.
LEMMA ProducingIs ==
    ASSUME NEW b \in Buffers, NEW on \in BOOLEAN
    PROVE  LET c == SetProducing(b, on)
           IN  /\ c.queue = b.queue /\ c.carry = b.carry /\ c.held = b.held /\ c.ledger = b.ledger
               /\ c.producing = on /\ (b.queue # <<>> /\ b.speaking => c.speaking)
<1>. DEFINE speak == IF on THEN TRUE ELSE IF b.queue = <<>> THEN FALSE ELSE b.speaking
            c == SetProducing(b, on)
<1>1. speak \in BOOLEAN /\ c = [[b EXCEPT !.producing = on] EXCEPT !.speaking = speak]
  BY DEF SetProducing, Buffers
<1>2. b.queue # <<>> /\ b.speaking => speak
  OBVIOUS
<1>. HIDE DEF speak, c
<1>3. /\ c.queue = b.queue /\ c.carry = b.carry /\ c.held = b.held /\ c.ledger = b.ledger
      /\ c.producing = on /\ c.speaking = speak
  BY <1>1 DEF Buffers
<1>. QED  BY <1>2, <1>3 DEF c

\* Undisturbed, a step other than those of the drain moves no audio, or pushes a chunk.
LEMMA OthersBystand ==
    ASSUME AudioInv, [Next]_vars, Undisturbed', ~(DrainStep /\ ~PlanStep("drain"))
    PROVE  Bystands \/ \E units \in Nat : Pushed(units)
<1>1. /\ buf \in Buffers /\ DOMAIN tally = DOMAIN Tally0 /\ job \in Jobs /\ job.reply \in Int
  BY PlaybackAssumption DEF AudioInv, Typed, SpeakInv, Shape, Jobs
<1>2. ASSUME job' = job \/ (JobReturns /\ job.pc \notin Producers) \/ (\E pc : JobGoes(pc) /\ job.pc # "idle")
      PROVE  JobLater
  <2>1. CASE job' = job
    BY <2>1 DEF JobLater
  <2>2. CASE JobReturns
    BY <2>2 DEF JobReturns, Job0, JobLater
  <2>3. CASE \E pc : JobGoes(pc) /\ job.pc # "idle"
    BY <1>1, <2>3 DEF JobGoes, Jobs, JobLater
  <2>. QED  BY <1>2, <2>1, <2>2, <2>3
<1>3. ASSUME tally' = tally \/ EmitDiscardedReplyEnd
      PROVE  /\ tally'.booked = tally.booked /\ tally'.written = tally.written /\ tally'.played = tally.played
             /\ Oks
  <2>1. /\ tally'.booked = tally.booked /\ tally'.written = tally.written /\ tally'.played = tally.played
        /\ tally'.done_ok = tally.done_ok
    BY <1>1, <1>3 DEF EmitDiscardedReplyEnd, Tally0
  <2>. QED  BY <2>1 DEF Oks
<1>4. CASE UNCHANGED vars \/ \E f \in Flushers : StartFlush(f)
  <2>1. buf' = buf /\ drain' = drain /\ tts_drain_wake' = tts_drain_wake /\ job' = job /\ tally' = tally
    BY <1>4 DEF vars, StartFlush
  <2>. QED  BY <1>2, <1>3, <2>1, PlainBystands
<1>5. ASSUME NEW a \in Actors, PlanStep(a) PROVE Bystands
  BY <1>5, CalmBefore, PlanBystands
<1>6. CASE JobTake
  <2>1. buf' = buf /\ drain' = drain /\ tts_drain_wake' = tts_drain_wake /\ tally' = tally /\ job.pc = "idle"
    BY <1>6 DEF JobTake
  <2>2. job' = [[[Job0 EXCEPT !.pc = "taken"] EXCEPT !.reply = job.reply + 1] EXCEPT !.epoch = tts_synthesis_epoch]
    BY <1>6 DEF JobTake
  <2>3. job'.reply = job.reply + 1
    BY <2>2 DEF Job0
  <2>4. JobLater
    BY <1>1, <2>3 DEF JobLater
  <2>. QED  BY <1>3, <2>1, <2>4, PlainBystands DEF Producers
<1>7. CASE JobReadGeneration \/ JobReadFailure \/ DeadlinePasses
  <2>1. /\ buf' = buf /\ drain' = drain /\ tts_drain_wake' = tts_drain_wake /\ tally' = tally
        /\ job.pc \notin Producers \union {"idle"}
    BY <1>7 DEF JobReadGeneration, JobReadFailure, DeadlinePasses, Producers
  <2>2. job'.reply = job.reply
    BY <1>1, <1>7 DEF JobReadGeneration, JobReadFailure, DeadlinePasses, Jobs
  <2>3. JobLater
    BY <2>1, <2>2 DEF JobLater
  <2>. QED  BY <1>3, <2>1, <2>3, PlainBystands
<1>8. CASE JobWait
  <2>1. /\ buf' = buf /\ drain' = drain /\ tts_drain_wake' = tts_drain_wake /\ tally' = tally
        /\ job.pc \notin Producers \union {"idle"}
    BY <1>8 DEF JobWait, Producers
  <2>2. JobReturns \/ job'.reply = job.reply
    BY <1>1, <1>8 DEF JobWait, Jobs
  <2>3. JobLater
    BY <1>2, <2>1, <2>2 DEF JobLater
  <2>. QED  BY <1>3, <2>1, <2>3, PlainBystands
<1>9. CASE JobCheckEpoch \/ JobResult \/ JobAborted
  <2>1. /\ buf' = buf /\ drain' = drain /\ tts_drain_wake' = tts_drain_wake
        /\ job.pc \notin Producers \union {"idle"}
    BY <1>9 DEF JobCheckEpoch, JobResult, JobAborted, Producers
  <2>2. JobReturns \/ \E pc : JobGoes(pc)
    BY <1>9 DEF JobCheckEpoch, JobResult, JobAborted
  <2>3. tally' = tally \/ EmitDiscardedReplyEnd
    BY <1>9 DEF JobCheckEpoch, JobResult, JobAborted
  <2>. QED  BY <1>2, <1>3, <2>1, <2>2, <2>3, PlainBystands
<1>10. CASE JobWaitBuffer
  <2>1. /\ buf' = buf /\ drain' = drain /\ tts_drain_wake' = tts_drain_wake
        /\ job.pc \notin Producers \union {"idle"}
    BY <1>10 DEF JobWaitBuffer, Producers
  <2>2. JobReturns \/ \E pc : JobGoes(pc)
    BY <1>10 DEF JobWaitBuffer
  <2>3. \/ tally' = tally
        \/ JobReturns /\ ~IsSpeaking(buf) /\ tally' = [tally EXCEPT !.done_ok = @ \union {job.reply}]
    BY <1>10 DEF JobWaitBuffer
  <2>4. CASE tally' = tally
    BY <1>2, <1>3, <2>1, <2>2, <2>4, PlainBystands
  <2>5. CASE JobReturns /\ ~IsSpeaking(buf) /\ tally' = [tally EXCEPT !.done_ok = @ \union {job.reply}]
    <3>1. /\ tally'.booked = tally.booked /\ tally'.written = tally.written /\ tally'.played = tally.played
          /\ tally'.done_ok = tally.done_ok \union {job.reply}
      BY <1>1, <2>5 DEF Tally0
    <3>2. job'.reply = job.reply /\ job'.pc = "idle"
      BY <2>5 DEF JobReturns, Job0
    <3>3. Oks
      BY <2>5, <3>1, <3>2 DEF Oks
    <3>. QED  BY <1>2, <2>1, <2>2, <3>1, <3>3, PlainBystands
  <2>. QED  BY <2>3, <2>4, <2>5
<1>11. CASE JobStart \/ JobProduced \/ JobFailed
  <2>1. /\ drain' = drain /\ tally' = tally /\ tts_drain_wake' = TRUE /\ job.pc # "idle"
        /\ (job'.pc \in Producers /\ buf' = SetProducing(buf, TRUE)) \/ buf' = SetProducing(buf, FALSE)
    <3>1. job' = [job EXCEPT !.pc = "synthesize"] => job'.pc = "synthesize"
      BY <1>1 DEF Jobs
    <3>. QED  BY <1>11, <3>1 DEF JobStart, JobProduced, JobFailed, WakeDrain, JobGoes, Producers
  <2>2. JobLater
    <3>1. JobReturns => JobLater
      BY DEF JobReturns, Job0, JobLater
    <3>2. (\E pc : JobGoes(pc)) => JobLater
      BY <1>2, <2>1
    <3>. QED  BY <1>11, <3>1, <3>2 DEF JobStart, JobProduced, JobFailed
  <2>3. /\ buf'.queue = buf.queue /\ buf'.carry = buf.carry /\ buf'.held = buf.held /\ buf'.ledger = buf.ledger
        /\ (buf.queue # <<>> /\ buf.speaking => buf'.speaking)
        /\ buf'.producing => job'.pc \in Producers
    <3>1. PICK on \in BOOLEAN : buf' = SetProducing(buf, on) /\ (on => job'.pc \in Producers)
      BY <2>1
    <3>. QED  BY <1>1, <3>1, ProducingIs
  <2>4. LedgerStands
    BY <2>3 DEF LedgerStands, SameReply
  <2>. QED  BY <1>3, <2>1, <2>2, <2>3, <2>4 DEF Bystands, AudioStands, Wakes
<1>12. CASE JobComplete
  <2>1. /\ drain' = drain /\ tally' = tally /\ tts_drain_wake' = tts_drain_wake /\ job.pc = "synthesize"
        /\ buf' = MarkComplete(buf, job.reply) /\ JobGoes("produced")
    BY <1>12 DEF JobComplete
  <2>2. job'.pc \in Producers
    BY <1>1, <2>1 DEF JobGoes, Jobs, Producers
  <2>3. JobLater
    BY <1>2, <2>1
  <2>4. /\ buf'.queue = buf.queue /\ buf'.carry = buf.carry /\ buf'.held = buf.held
        /\ buf'.speaking = buf.speaking /\ buf'.producing = buf.producing /\ LedgerStands
    BY <1>1, <2>1, MarkCompleteTyped, MarkCompleteIs DEF LedgerStands
  <2>. QED  BY <1>3, <2>1, <2>2, <2>3, <2>4 DEF Bystands, AudioStands, Wakes
<1>13. CASE JobChunk
  <2>1. CASE Discarded
    <3>1. /\ buf' = buf /\ drain' = drain /\ tts_drain_wake' = tts_drain_wake /\ tally' = tally
          /\ job.pc = "synthesize" /\ job' = [[job EXCEPT !.chunks = @ + 1] EXCEPT !.discarded = TRUE]
      BY <2>1 DEF Discarded
    <3>2. job'.reply = job.reply /\ job'.pc = job.pc
      BY <1>1, <3>1 DEF Jobs
    <3>3. JobLater
      BY <3>1, <3>2 DEF JobLater
    <3>. QED  BY <1>3, <3>1, <3>2, <3>3, PlainBystands
  <2>. QED  BY <1>13, <2>1, ChunkIs
<1>. QED
  BY <1>4, <1>5, <1>6, <1>7, <1>8, <1>9, <1>10, <1>11, <1>12, <1>13 DEF Next, JobRuns, FlushStep, Actors

-----------------------------------------------------------------------------
(* The hold of a popped chunk, and the tail. *)

\* A pass that has padded its tail has nothing else; a popped chunk is held until it is
\* written; and a queue speaks.
TailShape ==
    drain.tail =>
      /\ drain.pc \in WithFrame \union {"frame", "store", "settle", "settle_book", "close"}
      /\ drain.carry = <<>> /\ Len(drain.frames) <= 1
      /\ \A i \in DOMAIN drain.frames : Len(drain.frames[i]) < FrameUnits
Held ==
    /\ drain.frames # <<>> /\ ~drain.tail => buf.held
    /\ buf.queue # <<>> => buf.speaking

\* Nothing was cut.
LEMMA CalmDrain ==
    ASSUME AudioInv, Undisturbed
    PROVE  ~Undone /\ drain.gen = buf.generation /\ buf.generation = 0
BY DEF AudioInv, DrainShape, Typed, Drains, Undisturbed, Undone

\* The steps of the drain keep the hold and the shape of the tail.
LEMMA ShapeTurn ==
    ASSUME AudioInv, TailShape, Held, DrainStep, ~PlanStep("drain"), Undisturbed, Undisturbed'
    PROVE  TailShape' /\ Held'
<1>1. Moves
  BY DrainTurns
<1>2. ~Undone /\ ~DrainWriteFails
  BY CalmDrain, CalmBefore DEF Next
<1>3. /\ drain.frames \in Seq(Audio) /\ drain.carry \in Audio /\ Len(drain.carry) < FrameUnits
      /\ drain.frames # <<>> => drain.pc \in WithFrame \union {"frame"}
      /\ drain.pc \in WithFrame => drain.frames # <<>>
  BY DEF AudioInv, Typed, Drains, DrainShape
<1>4. ASSUME Turning PROVE TailShape' /\ Held'
  <2>1. /\ drain'.frames = drain.frames /\ drain'.carry = drain.carry /\ drain'.tail = drain.tail
        /\ buf'.queue = buf.queue /\ buf'.held = buf.held /\ buf'.speaking = buf.speaking
    BY <1>4 DEF Turning, Turns, InHandNow, Leaves
  <2>2. Held'
    BY <2>1 DEF Held
  <2>3. drain.tail => drain'.pc \in WithFrame \union {"frame", "store", "settle", "settle_book", "close"}
    BY <1>4 DEF Turning, Turns, InHandNow, TailShape, WithFrame
  <2>4. TailShape'
    BY <2>1, <2>3 DEF TailShape
  <2>. QED  BY <2>2, <2>4
<1>5. ASSUME Begins \/ Pauses \/ Leaving PROVE TailShape' /\ Held'
  <2>1. /\ drain'.frames = <<>> /\ drain'.tail = FALSE
        /\ buf'.queue = buf.queue /\ buf'.speaking = buf.speaking
    BY <1>5 DEF Begins, Pauses, Leaving, InHandNow, Leaves
  <2>. QED  BY <2>1 DEF TailShape, Held
<1>6. ASSUME Takes PROVE TailShape' /\ Held'
  <2>1. /\ drain.pc = "take_carry" /\ drain'.frames = drain.frames /\ drain'.tail = drain.tail
        /\ buf'.queue = buf.queue /\ buf'.held = buf.held /\ buf'.speaking = buf.speaking
    BY <1>6 DEF Takes, InHandNow, Leaves
  <2>2. ~drain.tail
    BY <2>1 DEF TailShape, WithFrame
  <2>. QED  BY <2>1, <2>2 DEF TailShape, Held
<1>7. ASSUME FindsNone PROVE TailShape' /\ Held'
  <2>1. /\ drain.pc = "pop" /\ drain'.frames = drain.frames /\ drain'.tail = drain.tail
        /\ buf'.queue = <<>> /\ buf'.held = buf.held
    BY <1>7 DEF FindsNone, InHandNow
  <2>2. ~drain.tail
    BY <2>1 DEF TailShape, WithFrame
  <2>. QED  BY <2>1, <2>2 DEF TailShape, Held
<1>8. ASSUME Pops PROVE TailShape' /\ Held'
  <2>1. /\ drain.pc = "pop" /\ drain'.tail = drain.tail /\ buf.queue # <<>>
        /\ buf'.queue = Tail(buf.queue) /\ buf'.held = TRUE /\ buf'.speaking = buf.speaking
    BY <1>8 DEF Pops, InHandNow, Leaves
  <2>2. ~drain.tail
    BY <2>1 DEF TailShape, WithFrame
  <2>. QED  BY <2>1, <2>2 DEF TailShape, Held
<1>9. ASSUME Pads PROVE TailShape' /\ Held'
  <2>1. /\ drain'.pc = "frame" /\ drain'.frames = <<drain.carry>> /\ drain'.carry = <<>> /\ drain'.tail = TRUE
        /\ buf'.queue = buf.queue /\ buf'.speaking = buf.speaking
    BY <1>9 DEF Pads, InHandNow, Leaves
  <2>2. Len(<<drain.carry>>) = 1 /\ \A i \in DOMAIN <<drain.carry>> : Len(<<drain.carry>>[i]) < FrameUnits
    BY <1>3
  <2>. QED  BY <2>1, <2>2 DEF TailShape, Held
<1>10. ASSUME Stores PROVE TailShape' /\ Held'
  <2>1. /\ drain.pc = "store" /\ drain'.pc = "settle" /\ drain'.frames = drain.frames /\ drain'.carry = <<>>
        /\ drain'.tail = drain.tail
        /\ buf'.queue = buf.queue /\ buf'.speaking = buf.speaking
    BY <1>10 DEF Stores, InHandNow, Leaves
  <2>2. drain.frames = <<>>
    BY <1>3, <2>1 DEF WithFrame
  <2>. QED  BY <2>1, <2>2 DEF TailShape, Held
<1>11. ASSUME Advances PROVE TailShape' /\ Held'
  <2>1. /\ drain.pc = "pace" /\ drain'.pc = "frame" /\ drain'.frames = Tail(drain.frames) /\ drain'.carry = drain.carry
        /\ drain'.tail = drain.tail
        /\ buf'.queue = buf.queue /\ buf'.held = buf.held /\ buf'.speaking = buf.speaking
    BY <1>11 DEF Advances, InHandNow, Leaves
  <2>2. drain.frames # <<>>
    BY <1>3, <2>1 DEF WithFrame
  <2>3. Held'
    BY <2>1, <2>2 DEF Held
  <2>4. ASSUME drain.tail PROVE Tail(drain.frames) = <<>>
    <3>1. Len(drain.frames) <= 1
      BY <2>4 DEF TailShape
    <3>. QED  BY <1>3, <2>2, <3>1
  <2>5. TailShape'
    <3>1. Len(<<>>) = 0
      OBVIOUS
    <3>. QED  BY <2>1, <2>4, <3>1 DEF TailShape
  <2>. QED  BY <2>3, <2>5
<1>. QED  BY <1>1, <1>4, <1>5, <1>6, <1>7, <1>8, <1>9, <1>10, <1>11 DEF Moves

\* All steps keep them.
LEMMA ShapeKept ==
    ASSUME AudioInv, TailShape, Held, [Next]_vars, Undisturbed, Undisturbed'
    PROVE  TailShape' /\ Held'
<1>1. CASE DrainStep /\ ~PlanStep("drain")
  BY <1>1, ShapeTurn
<1>2. CASE Bystands
  BY <1>2 DEF Bystands, AudioStands, TailShape, Held
<1>3. ASSUME NEW units \in Nat, Pushed(units) PROVE TailShape' /\ Held'
  <2>1. drain' = drain /\ buf'.speaking /\ buf'.held = buf.held
    BY <1>3, PushedIs, EnqueueIs DEF Pushed, AudioInv, Typed
  <2>. QED  BY <2>1 DEF TailShape, Held
<1>. QED  BY <1>1, <1>2, <1>3, OthersBystand

-----------------------------------------------------------------------------
(* What consume_played books to each reply. *)

\* No units of some replies: no unit of a piece of audio is theirs.
LEMMA UnitsIn ==
    ASSUME NEW p \in Audio, NEW R
    PROVE  /\ UnitsOf(p, R) = Cardinality({i \in 1 .. Len(p) : p[i] \in R})
           /\ (UnitsOf(p, R) = 0) <=> (\A x \in 1 .. Len(p) : p[x] \notin R)
<1>. DEFINE A == {i \in 1 .. Len(p) : p[i] \in R}
<1>0. DOMAIN p = 1 .. Len(p)
  BY DEF Audio
<1>1. UnitsOf(p, R) = Cardinality(A)
  BY <1>0 DEF UnitsOf
<1>2. IsFiniteSet(A)
  BY UnitsNat
<1>3. Cardinality(A) = 0 <=> A = {}
  BY <1>2, FS_EmptySet
<1>. QED  BY <1>1, <1>3

\* All of them, and those of the replies apart from one.
LEMMA UnitsSplit ==
    ASSUME NEW p \in Audio, NEW S \in SUBSET ReplyIds, NEW r \in S
    PROVE  /\ UnitsOf(p, S) = UnitsOf(p, {r}) + UnitsOf(p, S \ {r})
           /\ UnitsOf(p, ReplyIds) = Len(p)
<1>. DEFINE A == {i \in 1 .. Len(p) : p[i] \in S}
            B == {i \in 1 .. Len(p) : p[i] \in {r}}
            C == {i \in 1 .. Len(p) : p[i] \in S \ {r}}
            D == {i \in 1 .. Len(p) : p[i] \in ReplyIds}
<1>1. /\ UnitsOf(p, S) = Cardinality(A) /\ UnitsOf(p, {r}) = Cardinality(B)
      /\ UnitsOf(p, S \ {r}) = Cardinality(C) /\ UnitsOf(p, ReplyIds) = Cardinality(D)
  BY UnitsIn
<1>2. IsFiniteSet(B) /\ IsFiniteSet(C)
  BY UnitsNat
<1>3. A = B \union C /\ B \intersect C = {}
  OBVIOUS
<1>4. Cardinality(B) \in Nat /\ Cardinality(C) \in Nat
  BY <1>2, FS_CardinalityType
<1>5. Cardinality(A) = Cardinality(B) + Cardinality(C)
  <2>. HIDE DEF A, B, C
  <2>1. Cardinality(B \union C) = Cardinality(B) + Cardinality(C) - Cardinality(B \intersect C)
    BY <1>2, FS_Union
  <2>2. Cardinality({}) = 0
    BY FS_EmptySet
  <2>3. Cardinality(A) = Cardinality(B) + Cardinality(C) - 0
    BY <1>3, <2>1, <2>2
  <2>. QED  BY <1>4, <2>3
<1>6. D = 1 .. Len(p) /\ Len(p) \in Nat
  BY DEF Audio
<1>7. Cardinality(D) = Len(p)
  <2>1. \A n \in Nat : Cardinality(1 .. n) = n
    BY FS_Interval
  <2>. QED  BY <1>6, <2>1
<1>. QED  BY <1>1, <1>5, <1>7

\* A ledger that is true of what is on its way: each entry is open by what is not yet
\* written and by its units in the frame p; what is written in full comes first.
Settled(led, p, rest) ==
    /\ Rising(led) /\ rest \in [ReplyIds -> Nat]
    /\ \A i \in DOMAIN led :
         /\ Open(led[i]) = rest[led[i].reply] + UnitsOf(p, {led[i].reply})
         /\ led[i].queued > 0 /\ (led[i].played > 0 => led[i].started)
         /\ ~led[i].complete => i = Len(led)
    /\ \A r \in ReplyIds : UnitsOf(p, {r}) # 0 => \E i \in DOMAIN led : led[i].reply = r
    /\ \A x \in DOMAIN p, r \in ReplyIds : r < p[x] => rest[r] = 0

\* After k entries: what is left is for the replies to come, until one stays.
Heard(led, k) == {led[i].reply : i \in 1 .. k}
HeardTo(led, p, rest, k, acc) ==
    /\ ~acc.stopped => acc.ledger = <<>> /\ acc.left = UnitsOf(p, ReplyIds \ Heard(led, k))
    /\ acc.stopped =>
         /\ acc.ledger # <<>> /\ (acc.ledger[1].complete => Open(acc.ledger[1]) > 0)
         /\ \A i \in DOMAIN led : i > k => UnitsOf(p, {led[i].reply}) = 0
    /\ \A a \in DOMAIN acc.ledger : Open(acc.ledger[a]) = rest[acc.ledger[a].reply]
    /\ \A r \in acc.ended : rest[r] = 0

\* One more entry.
LEMMA HeardNext ==
    ASSUME NEW led \in Seq(Entries), NEW p \in Audio, NEW rest, Settled(led, p, rest),
           NEW k \in Nat, k + 1 <= Len(led), NEW acc \in Accs, HeardTo(led, p, rest, k, acc)
    PROVE  HeardTo(led, p, rest, k + 1, BookEntry(acc, led[k + 1]))
<1>. DEFINE e == led[k + 1]
            next == BookEntry(acc, e)
            r == e.reply
            take == Least(acc.left, Open(e))
            d == Booked(e, take)
            u == UnitsOf(p, {r})
            v == UnitsOf(p, ReplyIds \ Heard(led, k + 1))
            n == Len(acc.ledger)
<1>1. /\ DOMAIN led = 1 .. Len(led) /\ Len(led) \in Nat /\ k + 1 \in 1 .. Len(led)
      /\ e \in Entries /\ r \in ReplyIds /\ acc.ledger \in Seq(Entries)
      /\ rest[r] \in Nat /\ u \in Nat /\ v \in Nat /\ acc.left \in Nat
      /\ \A i \in 1 .. Len(led) : led[i] \in Entries /\ led[i].reply \in ReplyIds /\ led[i].reply \in Int
  <2>1. /\ DOMAIN led = 1 .. Len(led) /\ Len(led) \in Nat /\ k + 1 \in 1 .. Len(led)
        /\ \A i \in 1 .. Len(led) : led[i] \in Entries
    OBVIOUS
  <2>2. \A x \in Entries : x.reply \in ReplyIds /\ x.reply \in Int
    BY DEF Entries, ReplyIds
  <2>3. acc.ledger \in Seq(Entries) /\ acc.left \in Nat
    BY DEF Accs
  <2>. QED  BY <2>1, <2>2, <2>3, UnitsNat DEF Settled
<1>2. /\ Open(e) = rest[r] + u /\ e.queued > 0 /\ (e.played > 0 => e.started)
      /\ ~e.complete => k + 1 = Len(led)
  BY <1>1 DEF Settled
<1>3. /\ take \in Nat /\ take <= Open(e)
      /\ acc.stopped => Stays(acc, next, e)
      /\ ~acc.stopped =>
           /\ next.left = acc.left - take
           /\ IF IsOver(d) THEN Ends(acc, next, e) ELSE Stays(acc, next, d)
  BY <1>1, BookOne
<1>4. /\ d \in Entries /\ d.reply = r /\ d.queued = e.queued /\ d.complete = e.complete
      /\ d.played = e.played + take /\ (d.started <=> e.started \/ take > 0)
  BY <1>1, <1>3, BookedIs
<1>5. e.played \in Nat /\ e.queued \in Nat
  BY <1>1 DEF Entries
<1>6. r \notin Heard(led, k) /\ Heard(led, k + 1) = Heard(led, k) \union {r}
  <2>1. \A i \in 1 .. k : led[i].reply < r
    <3>. TAKE i \in 1 .. k
    <3>1. i \in DOMAIN led /\ k + 1 \in DOMAIN led /\ i < k + 1
      BY <1>1
    <3>. QED  BY <3>1 DEF Settled, Rising
  <2>2. \A i \in 1 .. k : led[i].reply # r
    <3>. TAKE i \in 1 .. k
    <3>1. i \in 1 .. Len(led) /\ led[i].reply < r
      BY <1>1, <2>1
    <3>2. led[i].reply \in Int /\ r \in Int
      BY <1>1, <3>1
    <3>. QED  BY <3>1, <3>2
  <2>3. 1 .. (k + 1) = (1 .. k) \union {k + 1}
    OBVIOUS
  <2>. QED  BY <2>2, <2>3 DEF Heard
<1>7. UnitsOf(p, ReplyIds \ Heard(led, k)) = u + v
  <2>1. (ReplyIds \ Heard(led, k)) \ {r} = ReplyIds \ Heard(led, k + 1)
    BY <1>6
  <2>2. r \in ReplyIds \ Heard(led, k)
    BY <1>1, <1>6
  <2>3. UnitsOf(p, ReplyIds \ Heard(led, k))
          = UnitsOf(p, {r}) + UnitsOf(p, (ReplyIds \ Heard(led, k)) \ {r})
    <3>. DEFINE S == ReplyIds \ Heard(led, k)
    <3>1. S \in SUBSET ReplyIds /\ r \in S
      BY <2>2
    <3>. HIDE DEF S, r
    <3>2. UnitsOf(p, S) = UnitsOf(p, {r}) + UnitsOf(p, S \ {r})
      BY <3>1, UnitsSplit
    <3>. QED  BY <3>2 DEF S
  <2>. QED  BY <2>1, <2>3
<1>8. rest[r] > 0 => v = 0
  <2>. SUFFICES ASSUME rest[r] > 0, NEW x \in 1 .. Len(p), p[x] \in ReplyIds \ Heard(led, k + 1) PROVE FALSE
    BY UnitsIn
  <2>. DEFINE s == p[x]
  <2>1. ~(r < s)
    BY <1>1 DEF Settled, Audio
  <2>2. UnitsOf(p, {s}) # 0
    BY UnitsIn
  <2>3. PICK j \in DOMAIN led : led[j].reply = s
    BY <2>2 DEF Settled
  <2>4. j > k + 1
    <3>. SUFFICES ASSUME ~(j > k + 1) PROVE FALSE
      OBVIOUS
    <3>1. j \in 1 .. (k + 1)
      BY <1>1
    <3>. QED  BY <2>3, <3>1 DEF Heard
  <2>5. r < s
    BY <1>1, <2>3, <2>4 DEF Settled, Rising
  <2>. QED  BY <2>1, <2>5
<1>9. ASSUME v = 0, NEW i \in DOMAIN led, i > k + 1 PROVE UnitsOf(p, {led[i].reply}) = 0
  <2>1. led[i].reply \notin Heard(led, k + 1)
    <3>. SUFFICES ASSUME NEW j \in 1 .. (k + 1), led[i].reply = led[j].reply PROVE FALSE
      BY DEF Heard
    <3>1. j \in DOMAIN led /\ j < i
      BY <1>1, <1>9
    <3>2. led[j].reply < led[i].reply
      BY <3>1 DEF Settled, Rising
    <3>. QED  BY <1>1, <3>1, <3>2
  <2>2. \A x \in 1 .. Len(p) : p[x] \notin ReplyIds \ Heard(led, k + 1)
    BY <1>9, UnitsIn
  <2>3. \A x \in 1 .. Len(p) : p[x] \notin {led[i].reply}
    BY <1>1, <2>1, <2>2
  <2>. QED  BY <2>3, UnitsIn
<1>10. \A a \in DOMAIN acc.ledger : Open(acc.ledger[a]) = rest[acc.ledger[a].reply]
  BY DEF HeardTo
<1>. DEFINE w == rest[r]
<1>14. /\ e \in Entries /\ r = e.reply /\ w = rest[r] /\ w \in Nat /\ u \in Nat /\ v \in Nat /\ Open(e) = w + u
       /\ e.queued > 0 /\ e.played \in Nat /\ e.queued \in Nat /\ Open(e) = e.queued - e.played
       /\ e.played > 0 => e.started
  BY <1>1, <1>2, <1>5 DEF Open
<1>. HIDE DEF next, r, take, d, u, v, n, w
<1>15. (w = 0 \/ v = 0) /\ d.played = e.played + take /\ d.queued = e.queued
       /\ (d.started <=> e.started \/ take > 0) /\ d.complete = e.complete /\ take \in Nat
       /\ acc.left \in Nat /\ take = Least(acc.left, w + u)
  BY <1>1, <1>3, <1>4, <1>8, <1>14 DEF take, w
<1>11. ASSUME NEW y \in Entries, Stays(acc, next, y), Open(y) = rest[y.reply],
              acc.stopped \/ (y.complete => Open(y) > 0),
              \A i \in DOMAIN led : i > k + 1 => UnitsOf(p, {led[i].reply}) = 0
       PROVE  HeardTo(led, p, rest, k + 1, next)
  <2>1. /\ next.ledger = Append(acc.ledger, y) /\ next.ended = acc.ended /\ next.stopped
        /\ n \in Nat /\ DOMAIN next.ledger = 1 .. (n + 1) /\ next.ledger[n + 1] = y /\ next.ledger # <<>>
        /\ DOMAIN acc.ledger = 1 .. n /\ \A a \in 1 .. n : next.ledger[a] = acc.ledger[a]
    <3>. DEFINE l == acc.ledger
    <3>1. next.ledger = Append(l, y) /\ next.ended = acc.ended /\ next.stopped
      BY <1>11 DEF Stays
    <3>2. l \in Seq(Entries) /\ n = Len(l)
      BY <1>1 DEF n
    <3>. HIDE DEF l
    <3>3. n \in Nat /\ DOMAIN l = 1 .. n
      BY <3>2
    <3>4. /\ DOMAIN Append(l, y) = 1 .. (n + 1) /\ Append(l, y)[n + 1] = y /\ Append(l, y) # <<>>
          /\ \A a \in 1 .. n : Append(l, y)[a] = l[a]
      BY <1>11, <3>2, <3>3
    <3>. QED  BY <3>1, <3>3, <3>4 DEF l
  <2>2. \A a \in DOMAIN next.ledger : Open(next.ledger[a]) = rest[next.ledger[a].reply]
    <3>1. \A a \in DOMAIN next.ledger : a \in 1 .. n \/ a = n + 1
      BY <2>1
    <3>. QED  BY <1>10, <1>11, <2>1, <3>1
  <2>3. next.ledger[1].complete => Open(next.ledger[1]) > 0
    <3>1. CASE acc.stopped
      <4>1. acc.ledger # <<>> /\ (acc.ledger[1].complete => Open(acc.ledger[1]) > 0)
        BY <3>1 DEF HeardTo
      <4>2. 1 \in 1 .. n
        BY <1>1, <4>1 DEF n
      <4>. QED  BY <2>1, <4>1, <4>2
    <3>2. CASE ~acc.stopped
      <4>1. acc.ledger = <<>>
        BY <3>2 DEF HeardTo
      <4>2. n = 0
        BY <4>1 DEF n
      <4>. QED  BY <1>11, <2>1, <3>2, <4>2
    <3>. QED  BY <3>1, <3>2
  <2>4. \A s \in next.ended : rest[s] = 0
    BY <2>1 DEF HeardTo
  <2>. QED  BY <1>11, <2>1, <2>2, <2>3, <2>4 DEF HeardTo
<1>12. CASE acc.stopped
  <2>1. \A i \in DOMAIN led : i > k => UnitsOf(p, {led[i].reply}) = 0
    BY <1>12 DEF HeardTo
  <2>2. u = 0
    <3>0. k + 1 \in DOMAIN led /\ k + 1 > k
      BY <1>1
    <3>1. UnitsOf(p, {led[k + 1].reply}) = 0
      BY <2>1, <3>0
    <3>. QED  BY <3>1 DEF u, r
  <2>3. \A i \in DOMAIN led : i > k + 1 => UnitsOf(p, {led[i].reply}) = 0
    BY <1>1, <2>1
  <2>4. Open(e) = rest[e.reply]
    BY <1>14, <2>2
  <2>. QED  BY <1>1, <1>3, <1>11, <1>12, <2>3, <2>4 DEF next
<1>13. CASE ~acc.stopped
  <2>1. acc.left = u + v /\ acc.ledger = <<>>
    BY <1>7, <1>13 DEF HeardTo
  <2>2. take = u
    BY <1>14, <1>15, <2>1 DEF Least
  <2>3. take = u /\ next.left = v
    <3>1. next.left = acc.left - take
      BY <1>3, <1>13
    <3>. QED  BY <1>14, <2>1, <2>2, <3>1
  <2>4. Open(d) = w
    <3>1. e.queued - e.played = w + u /\ e.queued \in Nat /\ e.played \in Nat /\ w \in Nat /\ u \in Nat
      BY <1>14
    <3>2. d.queued = e.queued /\ d.played = e.played + u
      BY <1>15, <2>3
    <3>. HIDE DEF e
    <3>3. d.queued - d.played = w
      BY <3>1, <3>2
    <3>. QED  BY <3>3 DEF Open
  <2>5. CASE IsOver(d)
    <3>1. /\ ~next.stopped /\ next.ledger = acc.ledger /\ next.ended = acc.ended \union {r}
      BY <1>3, <1>13, <2>5 DEF Ends, r
    <3>2. rest[r] = 0
      BY <1>14, <1>15, <2>3, <2>4, <2>5 DEF IsOver, Open
    <3>3. next.ledger = <<>> /\ next.left = UnitsOf(p, ReplyIds \ Heard(led, k + 1))
      BY <2>1, <2>3, <3>1 DEF v
    <3>4. \A s \in next.ended : rest[s] = 0
      BY <3>1, <3>2 DEF HeardTo
    <3>5. HeardTo(led, p, rest, k + 1, next)
      BY <3>1, <3>3, <3>4 DEF HeardTo
    <3>. QED  BY <3>5 DEF next
  <2>6. CASE ~IsOver(d)
    <3>1. Stays(acc, next, d)
      BY <1>3, <1>13, <2>6
    <3>2. d.complete => Open(d) > 0
      <4>. SUFFICES ASSUME d.complete, ~(Open(d) > 0) PROVE FALSE
        OBVIOUS
      <4>1. d.played = d.queued
        <5>1. d.queued - d.played = w /\ ~(w > 0)
          BY <2>4 DEF Open
        <5>2. d.queued = e.queued /\ d.played = e.played + take /\ e.queued \in Nat /\ e.played \in Nat /\ take \in Nat
              /\ w \in Nat
          BY <1>14, <1>15
        <5>. HIDE DEF e
        <5>. QED  BY <5>1, <5>2
      <4>2. d.started
        BY <1>14, <1>15, <2>3, <4>1
      <4>. QED  BY <1>14, <1>15, <2>6, <4>1, <4>2 DEF IsOver
    <3>3. \A i \in DOMAIN led : i > k + 1 => UnitsOf(p, {led[i].reply}) = 0
      <4>1. CASE v = 0
        BY <1>9, <4>1
      <4>2. CASE v # 0
        <5>1. ~d.complete
          BY <1>15, <2>4, <3>2, <4>2
        <5>2. k + 1 = Len(led)
          BY <1>2, <1>4, <5>1
        <5>. QED  BY <1>1, <5>2
      <4>. QED  BY <4>1, <4>2
    <3>4. HeardTo(led, p, rest, k + 1, next)
      BY <1>4, <1>11, <1>14, <2>4, <3>1, <3>2, <3>3
    <3>. QED  BY <3>4 DEF next
  <2>. QED  BY <2>5, <2>6 DEF next
<1>. QED  BY <1>12, <1>13 DEF next

\* A frame books to each reply its units, and a reply that ends is written in full.
LEMMA ConsumeHears ==
    ASSUME NEW led \in Seq(Entries), NEW p \in Audio, NEW rest, Settled(led, p, rest)
    PROVE  LET done == ConsumePlayed(led, Len(p))
           IN  /\ \A a \in DOMAIN done.ledger : Open(done.ledger[a]) = rest[done.ledger[a].reply]
               /\ \A r \in done.ended : rest[r] = 0
               /\ done.ledger # <<>> => (done.ledger[1].complete => Open(done.ledger[1]) > 0)
<1>0. Len(p) \in Nat /\ Len(led) \in Nat
  BY DEF Audio
<1>1. PICK f \in [0 .. Len(led) -> Accs] :
           /\ f[0] = Acc0(Len(p))
           /\ \A i \in 1 .. Len(led) : f[i] = BookEntry(f[i - 1], led[i])
           /\ ConsumePlayed(led, Len(p)) = f[Len(led)]
  BY <1>0, ConsumeRuns
<1>. DEFINE T == {k \in Nat : k <= Len(led) => HeardTo(led, p, rest, k, f[k])}
<1>3. 0 \in T
  <2>1. UnitsOf(p, ReplyIds \ Heard(led, 0)) = Len(p)
    <3>1. Heard(led, 0) = {}
      BY DEF Heard
    <3>2. UnitsOf(p, ReplyIds) = Len(p)
      <4>1. CASE ReplyIds = {}
        <5>1. 1 .. Len(p) = {}
          BY <4>1 DEF Audio
        <5>2. UnitsOf(p, ReplyIds) = 0
          BY <5>1, UnitsIn
        <5>. QED  BY <1>0, <5>1, <5>2
      <4>2. ASSUME NEW r \in ReplyIds PROVE UnitsOf(p, ReplyIds) = Len(p)
        BY UnitsSplit
      <4>. QED  BY <4>1, <4>2
    <3>. QED  BY <3>1, <3>2
  <2>2. HeardTo(led, p, rest, 0, Acc0(Len(p)))
    BY <2>1 DEF HeardTo, Acc0
  <2>. QED  BY <1>1, <2>2
<1>4. ASSUME NEW k \in Nat, k \in T PROVE k + 1 \in T
  <2>. SUFFICES ASSUME k + 1 <= Len(led) PROVE HeardTo(led, p, rest, k + 1, f[k + 1])
    OBVIOUS
  <2>1. k + 1 \in 1 .. Len(led) /\ (k + 1) - 1 = k /\ k \in 0 .. Len(led) /\ HeardTo(led, p, rest, k, f[k])
    BY <1>0, <1>4
  <2>2. f[k + 1] = BookEntry(f[k], led[k + 1]) /\ f[k] \in Accs
    BY <1>1, <2>1
  <2>. QED  BY <2>1, <2>2, HeardNext
<1>5. Len(led) \in T
  <2>. HIDE DEF T
  <2>. QED  BY <1>0, <1>3, <1>4, Inductive
<1>6. HeardTo(led, p, rest, Len(led), ConsumePlayed(led, Len(p)))
  BY <1>0, <1>1, <1>5
<1>7. ConsumePlayed(led, Len(p)) \in Accs
  BY <1>0, ConsumeTyped
<1>8. ConsumePlayed(led, Len(p)).stopped \in BOOLEAN
  BY <1>7 DEF Accs
<1>. QED  BY <1>6, <1>8 DEF HeardTo

-----------------------------------------------------------------------------
(* The ledger is true of what is on its way. *)

\* What is not yet written of a reply, and its units in the frame that is written and not
\* yet booked.
Rest(r) == tally.booked[r] - tally.written[r]
InHand(r) == IF drain.pc = "book" THEN UnitsOf(Head(drain.frames), {r}) ELSE 0
LedgerTrue ==
    /\ \A i \in DOMAIN buf.ledger :
         Open(buf.ledger[i]) = Rest(buf.ledger[i].reply) + InHand(buf.ledger[i].reply)
    /\ \A r \in ReplyIds : ~InLedger(buf, r) => Rest(r) + InHand(r) = 0

\* A sum of zeros.
LEMMA TotalZero ==
    ASSUME NEW w \in Seq(Nat), \A i \in DOMAIN w : w[i] = 0
    PROVE  Total(w) = 0
<1>1. PICK f : Sums(f, w) /\ Total(w) = f[Len(w)]
  BY TotalMeans
<1>. DEFINE T == {n \in Nat : n <= Len(w) => f[n] = 0}
<1>2. 0 \in T
  BY <1>1 DEF Sums
<1>3. ASSUME NEW n \in Nat, n \in T PROVE n + 1 \in T
  <2>. SUFFICES ASSUME n + 1 <= Len(w) PROVE f[n + 1] = 0
    OBVIOUS
  <2>1. n + 1 \in 1 .. Len(w) /\ (n + 1) - 1 = n /\ f[n] = 0
    BY <1>3
  <2>. QED  BY <1>1, <2>1 DEF Sums
<1>4. Len(w) \in T
  <2>. HIDE DEF T
  <2>. QED  BY <1>2, <1>3, Inductive
<1>. QED  BY <1>1, <1>4

\* Undisturbed, what is not yet written is on its way.
LEMMA RestIs ==
    ASSUME AudioInv, Undisturbed, NEW r \in ReplyIds
    PROVE  /\ Rest(r) = Pipe(buf, drain, {r}) /\ Rest(r) \in Nat /\ InHand(r) \in Nat
           /\ tally.booked[r] \in Nat /\ tally.written[r] \in Nat
<1>1. /\ tally.booked[r] \in Nat /\ tally.written[r] \in Nat
      /\ tally.booked[r] = tally.written[r] + UnitsFramed(Unwritten(drain), {r})
           + UnitsOf(drain.carry, {r}) + UnitsOf(buf.carry, {r}) + UnitsQueued(buf.queue, {r})
  BY DEF AudioInv, Typed, BooksTyped, NoAudioLost
<1>2. /\ UnitsFramed(Unwritten(drain), {r}) \in Nat /\ UnitsOf(drain.carry, {r}) \in Nat
      /\ UnitsOf(buf.carry, {r}) \in Nat /\ UnitsQueued(buf.queue, {r}) \in Nat
      /\ Pipe(buf, drain, {r}) \in Nat
      /\ drain.pc \in WithFrame => UnitsOf(Head(drain.frames), {r}) \in Nat
  BY PipeNat DEF AudioInv, Typed
<1>3. Rest(r) = Pipe(buf, drain, {r})
  BY <1>1, <1>2 DEF Pipe, Rest
<1>. QED  BY <1>1, <1>2, <1>3 DEF InHand, WithFrame

\* Nothing of the replies before a unit of the frame in hand is behind it.
LEMMA NoneBehind ==
    ASSUME AudioInv, InTurn, drain.pc = "book", NEW x \in DOMAIN Head(drain.frames),
           NEW r \in ReplyIds, r < Head(drain.frames)[x]
    PROVE  Pipe(buf, drain, {r}) = 0
<1>. DEFINE f == drain.frames
            g == Tail(f)
            s == Head(f)[x]
            q == buf.queue
<1>1. /\ f \in Seq(Audio) /\ f # <<>> /\ drain.carry \in Audio /\ buf.carry = <<>> /\ q \in Seq(Chunks)
  BY DEF AudioInv, Typed, Drains, Buffers, DrainShape, WithFrame, NoCarry
<1>2. /\ g \in Seq(Audio) /\ Head(f) = f[1] /\ 1 \in DOMAIN f /\ f[1] \in Audio
      /\ \A i \in DOMAIN g : i + 1 \in DOMAIN f /\ 1 < i + 1 /\ g[i] = f[i + 1] /\ g[i] \in Audio
  BY <1>1, HeadTailProperties
<1>3. s \in Int /\ r \in Int /\ r < s
  <2>1. s \in ReplyIds
    BY <1>2 DEF Audio
  <2>. QED  BY <2>1 DEF ReplyIds
<1>4. ASSUME NEW p \in Audio, \A y \in DOMAIN p : s <= p[y] PROVE UnitsOf(p, {r}) = 0
  <2>1. \A y \in DOMAIN p : p[y] # r
    <3>. TAKE y \in DOMAIN p
    <3>1. p[y] \in Int
      BY AudioInts
    <3>. QED  BY <1>3, <1>4, <3>1
  <2>2. DOMAIN p = 1 .. Len(p)
    BY DEF Audio
  <2>. QED  BY <2>1, <2>2, UnitsIn
<1>5. UnitsFramed(g, {r}) = 0
  <2>1. \A i \in DOMAIN g : UnitsOf(g[i], {r}) = 0
    <3>. TAKE i \in DOMAIN g
    <3>1. Before(f[1], f[i + 1])
      BY <1>2 DEF InTurn, Turn
    <3>. QED  BY <1>2, <1>4, <3>1 DEF Before
  <2>. DEFINE w == [i \in DOMAIN g |-> UnitsOf(g[i], {r})]
  <2>2. w \in Seq(Nat)
    BY <1>2, FramedNat
  <2>3. \A i \in DOMAIN w : w[i] = 0
    BY <2>1
  <2>4. Total(w) = 0
    <3>. HIDE DEF w
    <3>. QED  BY <2>2, <2>3, TotalZero
  <2>. QED  BY <2>4 DEF UnitsFramed
<1>6. UnitsOf(drain.carry, {r}) = 0
  <2>1. Before(f[1], drain.carry)
    BY <1>2 DEF InTurn, Turn
  <2>. QED  BY <1>1, <1>2, <1>4, <2>1 DEF Before
<1>7. UnitsQueued(q, {r}) = 0
  <2>1. ASSUME NEW k \in DOMAIN q PROVE UnitsOf(Units(q[k]), {r}) = 0
    <3>1. UpTo(f[1], q[k].reply) /\ q[k] \in Chunks
      BY <1>1, <1>2 DEF InTurn, Turn
    <3>2. s <= q[k].reply /\ q[k].reply \in Int
      BY <1>2, <3>1 DEF UpTo, Chunks, ReplyIds
    <3>3. UnitsOf(Units(q[k]), {r}) = IF q[k].reply \in {r} THEN q[k].units ELSE 0
      <4>1. q[k] \in [reply : ReplyIds, units : Nat]
        BY <3>1 DEF Chunks
      <4>. QED  BY <4>1, UnitsOfChunk
    <3>. QED  BY <1>3, <3>2, <3>3
  <2>. DEFINE w == [k \in DOMAIN q |-> UnitsOf(Units(q[k]), {r})]
  <2>2. w \in Seq(Nat)
    BY <1>1, QueuedNat
  <2>3. \A k \in DOMAIN w : w[k] = 0
    BY <2>1
  <2>4. Total(w) = 0
    <3>. HIDE DEF w
    <3>. QED  BY <2>2, <2>3, TotalZero
  <2>. QED  BY <2>4 DEF UnitsQueued
<1>8. UnitsOf(buf.carry, {r}) = 0
  BY <1>1, UnitsEmpty
<1>9. Unwritten(drain) = g
  BY DEF Unwritten
<1>. QED  BY <1>5, <1>6, <1>7, <1>8, <1>9 DEF Pipe

\* What is booked is the frame in hand, or nothing, and the ledger is true of it.
LEMMA BookingSettled ==
    ASSUME AudioInv, Owned, InTurn, LedgerTrue, Undisturbed, Booking
    PROVE  \E p \in Audio : /\ Book(Len(p)) /\ Settled(buf.ledger, p, [r \in ReplyIds |-> Rest(r)])
                            /\ \A r \in ReplyIds : InHand(r) = UnitsOf(p, {r})
<1>. DEFINE p == IF drain.pc = "book" THEN Head(drain.frames) ELSE <<>>
            led == buf.ledger
            rest == [r \in ReplyIds |-> Rest(r)]
<1>1. /\ drain.pc = "book" \/ drain.pc = "settle_book"
      /\ drain.pc = "book" => DrainBook
      /\ drain.pc = "settle_book" => DrainSettleBook
  BY DEF Booking, DrainBook, DrainSettleBook
<1>2. p \in Audio
  <2>1. drain.frames \in Seq(Audio) /\ (drain.pc = "book" => drain.frames # <<>>)
    BY DEF AudioInv, Typed, Drains, DrainShape, WithFrame
  <2>2. <<>> \in Audio
    BY DEF Audio
  <2>. QED  BY <2>1, <2>2
<1>3. Book(Len(p))
  <2>1. CASE drain.pc = "book"
    BY <1>1, <2>1 DEF DrainBook
  <2>2. CASE drain.pc = "settle_book"
    <3>1. Len(p) = 0
      BY <2>2
    <3>. HIDE DEF p
    <3>. QED  BY <1>1, <2>2, <3>1 DEF DrainSettleBook
  <2>. QED  BY <1>1, <2>1, <2>2
<1>4. \A r : InHand(r) = UnitsOf(p, {r})
  BY <1>1, UnitsEmpty DEF InHand
<1>5. \A r \in ReplyIds : Rest(r) \in Nat /\ rest[r] = Rest(r) /\ UnitsOf(p, {r}) \in Nat
  BY <1>2, RestIs, UnitsNat
<1>6. \A x \in DOMAIN p, r \in ReplyIds : r < p[x] => rest[r] = 0
  <2>. SUFFICES ASSUME NEW x \in DOMAIN p, NEW r \in ReplyIds, r < p[x] PROVE rest[r] = 0
    OBVIOUS
  <2>1. drain.pc = "book" /\ p = Head(drain.frames)
    BY <1>1
  <2>2. Pipe(buf, drain, {r}) = 0
    BY <2>1, NoneBehind
  <2>. QED  BY <1>5, <2>2, RestIs
<1>7. rest \in [ReplyIds -> Nat]
  BY <1>5
<1>. HIDE DEF p, rest
<1>8. led \in Seq(Entries) /\ DOMAIN led = 1 .. Len(led) /\ Len(led) \in Nat
      /\ \A i \in DOMAIN led : led[i].reply \in ReplyIds /\ led[i].reply \in Int
  <2>1. led \in Seq(Entries)
    BY DEF AudioInv, Typed, Buffers
  <2>2. \A e \in Entries : e.reply \in ReplyIds /\ e.reply \in Int
    BY DEF Entries, ReplyIds
  <2>. QED  BY <2>1, <2>2
<1>9. Rising(led) /\ \A i \in DOMAIN led : EntryShape(led[i])
  BY DEF Owned, LedgerShape
<1>10. ASSUME NEW i \in DOMAIN led
       PROVE  /\ Open(led[i]) = rest[led[i].reply] + UnitsOf(p, {led[i].reply})
              /\ led[i].queued > 0 /\ (led[i].played > 0 => led[i].started)
              /\ ~led[i].complete => i = Len(led)
  <2>1. Open(led[i]) = rest[led[i].reply] + UnitsOf(p, {led[i].reply})
    BY <1>4, <1>5, <1>8 DEF LedgerTrue
  <2>2. led[i].queued > 0 /\ (led[i].played > 0 => led[i].started)
    BY <1>9 DEF EntryShape
  <2>3. ASSUME ~led[i].complete, i # Len(led) PROVE FALSE
    <3>. DEFINE n == Len(led)
    <3>1. n \in DOMAIN led /\ i < n
      BY <1>8, <2>3
    <3>2. led[i].reply < led[n].reply
      BY <1>9, <3>1 DEF Rising
    <3>3. led[i].reply = job.reply /\ led[n].reply <= job.reply
      BY <1>9, <2>3, <3>1 DEF EntryShape
    <3>. QED  BY <1>8, <3>1, <3>2, <3>3
  <2>. QED  BY <2>1, <2>2, <2>3
<1>11. \A r \in ReplyIds : UnitsOf(p, {r}) # 0 => \E i \in DOMAIN led : led[i].reply = r
  <2>. SUFFICES ASSUME NEW r \in ReplyIds, UnitsOf(p, {r}) # 0, ~InLedger(buf, r) PROVE FALSE
    BY DEF InLedger
  <2>1. Rest(r) + UnitsOf(p, {r}) = 0
    BY <1>4 DEF LedgerTrue
  <2>. QED  BY <1>5, <2>1
<1>12. Settled(led, p, rest)
  BY <1>6, <1>7, <1>9, <1>10, <1>11 DEF Settled
<1>. QED  BY <1>2, <1>3, <1>4, <1>12 DEF rest

\* What booking leaves in the ledger and reports.
BookedTrue ==
    /\ \A a \in DOMAIN buf'.ledger :
         buf'.ledger[a].reply \in ReplyIds /\ Open(buf'.ledger[a]) = Rest(buf'.ledger[a].reply)
    /\ \A r \in ReplyIds : InLedger(buf', r) \/ Rest(r) = 0
    /\ \A r \in tally'.played :
         r \in tally.played \/ (Rest(r) = 0 /\ tally'.ends[r] = tally.ends[r] + 1)
    /\ \A r \in ReplyIds : tally'.ends[r] \in {tally.ends[r], tally.ends[r] + 1}
    /\ buf'.ledger # <<>> /\ buf'.ledger[1].complete => Open(buf'.ledger[1]) > 0
    /\ tally'.booked = tally.booked /\ tally'.written = tally.written /\ tally'.done_ok = tally.done_ok
    /\ job' = job

\* Booking a frame leaves open of each reply what is still on its way, and ends none that
\* has anything on its way.
LEMMA BookingHears ==
    ASSUME AudioInv, Owned, InTurn, LedgerTrue, Undisturbed, Booking
    PROVE  BookedTrue
<1>. DEFINE led == buf.ledger
            rest == [r \in ReplyIds |-> Rest(r)]
<1>1. PICK p \in Audio : /\ Book(Len(p)) /\ Settled(led, p, rest)
                         /\ \A r \in ReplyIds : InHand(r) = UnitsOf(p, {r})
  BY BookingSettled
<1>. DEFINE done == ConsumePlayed(led, Len(p))
<1>2. /\ led \in Seq(Entries) /\ Rising(led) /\ Len(p) \in Nat
      /\ \A r \in ReplyIds : Rest(r) \in Nat /\ rest[r] = Rest(r) /\ UnitsOf(p, {r}) \in Nat
  <2>1. led \in Seq(Entries) /\ Rising(led) /\ Len(p) \in Nat
    BY DEF AudioInv, Typed, Buffers, Owned, LedgerShape, Audio
  <2>2. \A r \in ReplyIds : Rest(r) \in Nat /\ rest[r] = Rest(r) /\ UnitsOf(p, {r}) \in Nat
    BY RestIs, UnitsNat
  <2>. QED  BY <2>1, <2>2
<1>3. job' = job
  BY BooksSome
<1>4. /\ done \in Accs /\ buf'.ledger = done.ledger
      /\ tally'.ends = [r \in ReplyIds |-> tally.ends[r] + IF r \in done.ended THEN 1 ELSE 0]
      /\ tally'.played = tally.played \union done.ended
      /\ tally'.booked = tally.booked /\ tally'.written = tally.written /\ tally'.done_ok = tally.done_ok
  BY <1>1, <1>2, BookTells
<1>5. BookedTo(led, Len(led), done)
  BY <1>2, ConsumeKeeps
<1>. HIDE DEF rest
<1>6. /\ \A a \in DOMAIN done.ledger : Open(done.ledger[a]) = rest[done.ledger[a].reply]
      /\ \A r \in done.ended : rest[r] = 0
      /\ done.ledger # <<>> => (done.ledger[1].complete => Open(done.ledger[1]) > 0)
  BY <1>1, <1>2, ConsumeHears
<1>. HIDE DEF done
<1>7. done.ended \subseteq ReplyIds /\ \A a \in DOMAIN done.ledger : done.ledger[a].reply \in ReplyIds
  <2>1. done.ended \subseteq ReplyIds /\ done.ledger \in Seq(Entries)
    BY <1>4 DEF Accs
  <2>2. \A e \in Entries : e.reply \in ReplyIds
    BY DEF Entries
  <2>. QED  BY <2>1, <2>2
<1>8. ASSUME NEW r \in ReplyIds PROVE InLedger(buf', r) \/ Rest(r) = 0
  <2>1. CASE InLedger(buf, r)
    <3>1. PICK i \in 1 .. Len(led) : led[i].reply = r
      BY <1>2, <2>1 DEF InLedger
    <3>2. r \in done.ended \/ \E a \in DOMAIN done.ledger : done.ledger[a].reply = r
      BY <1>5, <3>1 DEF BookedTo
    <3>. QED  BY <1>2, <1>4, <1>6, <3>2 DEF InLedger
  <2>2. CASE ~InLedger(buf, r)
    <3>1. Rest(r) + UnitsOf(p, {r}) = 0
      BY <1>1, <2>2 DEF LedgerTrue
    <3>. QED  BY <1>2, <3>1
  <2>. QED  BY <2>1, <2>2
<1>9. \A r \in ReplyIds : tally.ends[r] \in Int
  BY DEF Owned, ReportsTyped
<1>10. \A r \in ReplyIds : tally'.ends[r] = tally.ends[r] + IF r \in done.ended THEN 1 ELSE 0
  BY <1>4
<1>11. \A r \in ReplyIds : tally'.ends[r] \in {tally.ends[r], tally.ends[r] + 1}
  BY <1>9, <1>10
<1>12. \A r \in tally'.played : r \in tally.played \/ (Rest(r) = 0 /\ tally'.ends[r] = tally.ends[r] + 1)
  <2>. SUFFICES ASSUME NEW r \in done.ended PROVE Rest(r) = 0 /\ tally'.ends[r] = tally.ends[r] + 1
    BY <1>4
  <2>. QED  BY <1>2, <1>6, <1>7, <1>9, <1>10
<1>13. \A a \in DOMAIN buf'.ledger : buf'.ledger[a].reply \in ReplyIds /\ Open(buf'.ledger[a]) = Rest(buf'.ledger[a].reply)
  BY <1>2, <1>4, <1>6, <1>7
<1>. QED  BY <1>3, <1>4, <1>6, <1>8, <1>11, <1>12, <1>13 DEF BookedTrue

\* The books of the drain outside its writes.
LEMMA NotWritten ==
    ASSUME AudioInv, DrainStep, ~Booking, ~DrainWrite, ~PlanStep("drain")
    PROVE  tally'.written = tally.written /\ tally'.booked = tally.booked /\ (drain.pc = "book" <=> drain'.pc = "book")
           /\ drain'.pc # "book"
<1>1. DOMAIN tally = DOMAIN Tally0
  BY DEF AudioInv, SpeakInv, Shape
<1>2. tally' = tally \/ tally' = [tally EXCEPT !.speaking = @ + 1]
  BY DEF Booking, DrainStep, DrainBegin, DrainReadSpeaking, DrainTakeCarry, DrainPop, DrainDry,
     DrainDryGeneration, DrainPause, DrainTail, DrainTailGeneration, DrainStore, DrainSettle, DrainClose,
     DrainFrame, DrainEmitStart, DrainCheck, DrainWriteFails, DrainPace, DrainStopped
<1>3. tally'.written = tally.written /\ tally'.booked = tally.booked
  BY <1>1, <1>2 DEF Tally0
<1>4. drain.pc # "book"
  BY DEF Booking, DrainStep, DrainBegin, DrainReadSpeaking, DrainTakeCarry, DrainPop, DrainDry,
     DrainDryGeneration, DrainPause, DrainTail, DrainTailGeneration, DrainStore, DrainSettle, DrainClose,
     DrainFrame, DrainEmitStart, DrainCheck, DrainWriteFails, DrainPace, DrainStopped
<1>5. drain'.pc # "book"
  <2>1. Moves
    BY DrainTurns
  <2>2. CASE Turning
    <3>1. ~(Turns("write", "book") /\ DrainWrite) /\ ~(Turns("book", "pace") /\ DrainBook)
      BY DEF Booking
    <3>. QED  BY <2>2, <3>1 DEF Turning, Turns, InHandNow
  <2>3. CASE ~Turning
    BY <2>1, <2>3 DEF Moves, Begins, Takes, FindsNone, Pops, Pauses, Pads, Stores, Advances, Leaving, InHandNow
  <2>. QED  BY <2>2, <2>3
<1>. QED  BY <1>3, <1>4, <1>5

\* A pushed chunk adds as much to the open part of its entry as to what is on its way.
LEMMA LedgerPushed ==
    ASSUME AudioInv, Owned, LedgerTrue, Undisturbed, NEW units \in Nat, Pushed(units)
    PROVE  LedgerTrue'
<1>0. buf.ledger \in Seq(Entries) /\ \A i \in DOMAIN buf.ledger : buf.ledger[i].reply \in ReplyIds
  <2>1. buf.ledger \in Seq(Entries)
    BY DEF AudioInv, Typed, Buffers
  <2>2. \A e \in Entries : e.reply \in ReplyIds
    BY DEF Entries
  <2>. QED  BY <2>1, <2>2
<1>. PICK m \in Nat : m = Len(buf.ledger) /\ DOMAIN buf.ledger = 1 .. m
  BY <1>0
<1>. PICK z \in Nat : z = m + 1
  OBVIOUS
<1>. PICK new \in ReplyIds : new = job.reply
  BY PushedIs
<1>1. /\ drain' = drain /\ tally'.written = tally.written
      /\ \A r \in ReplyIds : tally'.booked[r] = IF r = new THEN tally.booked[r] + units ELSE tally.booked[r]
      /\ Chunk(new, units) \in Chunks
  <2>1. drain' = drain
    BY DEF Pushed
  <2>. QED  BY <2>1, PushedIs
<1>2. buf \in Buffers /\ buf' = Enqueue(buf, Chunk(new, units))
  BY DEF Pushed, AudioInv, Typed
<1>3. Chunk(new, units).reply = new /\ Chunk(new, units).units = units
  BY DEF Chunk
<1>4. /\ \A i \in 1 .. m : i \in DOMAIN buf'.ledger
      /\ \A i \in 1 .. m : ~(EndsWith(buf.ledger, new) /\ i = m) => buf'.ledger[i] = buf.ledger[i]
      /\ EndsWith(buf.ledger, new) =>
           /\ DOMAIN buf'.ledger = 1 .. m /\ m \in 1 .. m
           /\ SameReply(buf'.ledger[m], buf.ledger[m])
           /\ buf'.ledger[m].queued = buf.ledger[m].queued + units
      /\ ~EndsWith(buf.ledger, new) =>
           /\ DOMAIN buf'.ledger = 1 .. z
           /\ buf'.ledger[z] = LedgerEntry(new, units)
  BY <1>1, <1>2, <1>3, EnqueueIs
<1>5. EndsWith(buf.ledger, new) => buf.ledger[m].reply = new
  BY DEF EndsWith
<1>6. \A r \in ReplyIds : /\ InHand(r)' = InHand(r) /\ InHand(r) \in Nat /\ Rest(r) \in Nat
                          /\ Rest(r)' = IF r = new THEN Rest(r) + units ELSE Rest(r)
  <2>. SUFFICES ASSUME NEW r \in ReplyIds
       PROVE  /\ InHand(r)' = InHand(r) /\ InHand(r) \in Nat /\ Rest(r) \in Nat
              /\ Rest(r)' = IF r = new THEN Rest(r) + units ELSE Rest(r)
    OBVIOUS
  <2>1. InHand(r)' = InHand(r)
    BY <1>1 DEF InHand
  <2>2. Rest(r) \in Nat /\ InHand(r) \in Nat /\ tally.booked[r] \in Nat /\ tally.written[r] \in Nat
    BY RestIs
  <2>3. tally'.written[r] = tally.written[r]
        /\ tally'.booked[r] = IF r = new THEN tally.booked[r] + units ELSE tally.booked[r]
    BY <1>1
  <2>4. Rest(r)' = tally'.booked[r] - tally'.written[r] /\ Rest(r) = tally.booked[r] - tally.written[r]
    BY DEF Rest
  <2>5. CASE r = new
    <3>1. tally'.booked[r] = tally.booked[r] + units
      BY <2>3, <2>5
    <3>2. Rest(r)' = Rest(r) + units
      BY <2>2, <2>3, <2>4, <3>1
    <3>. QED  BY <2>1, <2>2, <2>5, <3>2
  <2>6. CASE r # new
    <3>1. tally'.booked[r] = tally.booked[r]
      BY <2>3, <2>6
    <3>2. Rest(r)' = Rest(r)
      BY <2>3, <2>4, <3>1
    <3>. QED  BY <2>1, <2>2, <2>6, <3>2
  <2>. QED  BY <2>5, <2>6
<1>7. \A i \in 1 .. m : buf.ledger[i].reply = new => EndsWith(buf.ledger, new) /\ i = m
  <2>. SUFFICES ASSUME NEW i \in 1 .. m, buf.ledger[i].reply = new PROVE EndsWith(buf.ledger, new) /\ i = m
    OBVIOUS
  <2>1. InLedger(buf, new)
    BY DEF InLedger
  <2>2. job.queued_any
    <3>1. job.pc \in Cuttable
      BY DEF Pushed, Cuttable
    <3>. QED  BY <2>1, <3>1 DEF Owned, OneOwner, NotEnded
  <2>3. EndsWith(buf.ledger, new)
    BY <2>2, PushedIs DEF Owned, OneOwner, Pushed
  <2>4. i = m
    <3>1. i \in DOMAIN buf.ledger /\ m \in DOMAIN buf.ledger /\ buf.ledger[m].reply = new
      BY <1>4, <1>5, <2>3
    <3>2. ~(buf.ledger[i].reply < buf.ledger[m].reply)
      <4>1. new \in Int
        BY DEF ReplyIds
      <4>. QED  BY <3>1, <4>1
    <3>3. ~(i < m)
      BY <3>1, <3>2 DEF Owned, LedgerShape, Rising
    <3>. QED  BY <3>3
  <2>. QED  BY <2>3, <2>4
<1>8. ASSUME NEW i \in 1 .. m
      PROVE  (Open(buf.ledger[i]) = Rest(buf.ledger[i].reply) + InHand(buf.ledger[i].reply))'
  <2>. PICK r \in ReplyIds : r = buf.ledger[i].reply
    BY <1>0
  <2>1. Open(buf.ledger[i]) = Rest(r) + InHand(r)
    BY DEF LedgerTrue
  <2>2. (buf.ledger[i].reply)' = r /\ Open(buf.ledger[i])' = Rest(r)' + InHand(r)'
    <3>1. CASE ~(EndsWith(buf.ledger, new) /\ i = m)
      <4>1. buf'.ledger[i] = buf.ledger[i] /\ r # new
        BY <1>4, <1>7, <3>1
      <4>2. Rest(r)' + InHand(r)' = Rest(r) + InHand(r)
        BY <1>6, <4>1
      <4>. QED  BY <2>1, <4>1, <4>2 DEF Open
    <3>2. CASE EndsWith(buf.ledger, new) /\ i = m
      <4>1. r = new
        BY <1>5, <3>2
      <4>2. /\ buf'.ledger[i].reply = r /\ buf'.ledger[i].queued = buf.ledger[i].queued + units
            /\ buf'.ledger[i].played = buf.ledger[i].played
        BY <1>4, <3>2 DEF SameReply
      <4>3. buf.ledger[i].queued \in Nat /\ buf.ledger[i].played \in Nat
        <5>1. buf.ledger[i] \in Entries
          BY <1>0
        <5>. QED  BY <5>1 DEF Entries
      <4>4. Rest(r)' = Rest(r) + units /\ InHand(r)' = InHand(r) /\ Rest(r) \in Nat /\ InHand(r) \in Nat
        BY <1>6, <4>1
      <4>5. Open(buf.ledger[i])' = Open(buf.ledger[i]) + units
        BY <4>2, <4>3 DEF Open
      <4>6. Open(buf.ledger[i])' = Rest(r)' + InHand(r)'
        BY <2>1, <4>4, <4>5
      <4>. QED  BY <4>2, <4>6
    <3>. QED  BY <3>1, <3>2
  <2>. QED  BY <2>2 DEF Rest, InHand
<1>9. ASSUME ~EndsWith(buf.ledger, new)
      PROVE  (Open(buf.ledger[z]) = Rest(buf.ledger[z].reply) + InHand(buf.ledger[z].reply))'
  <2>1. ~InLedger(buf, new)
    BY <1>7, <1>9 DEF InLedger
  <2>2. Rest(new) + InHand(new) = 0
    BY <2>1 DEF LedgerTrue
  <2>3. Rest(new)' + InHand(new)' = units
    BY <1>6, <2>2
  <2>4. (buf.ledger[z].reply)' = new /\ buf'.ledger[z].queued = units /\ buf'.ledger[z].played = 0
    BY <1>4, <1>9 DEF LedgerEntry
  <2>5. Open(buf.ledger[z])' = units
    BY <2>4 DEF Open
  <2>6. Open(buf.ledger[z])' = Rest(new)' + InHand(new)'
    BY <2>3, <2>5
  <2>. QED  BY <2>4, <2>6 DEF Rest, InHand
<1>10. \A r \in ReplyIds : InLedger(buf, r) => InLedger(buf, r)'
  <2>. SUFFICES ASSUME NEW r \in ReplyIds, NEW i \in 1 .. m, buf.ledger[i].reply = r PROVE InLedger(buf, r)'
    BY DEF InLedger
  <2>1. i \in DOMAIN buf'.ledger /\ buf'.ledger[i].reply = r
    BY <1>4 DEF SameReply
  <2>. QED  BY <2>1 DEF InLedger
<1>11. InLedger(buf, new)'
  <2>1. CASE EndsWith(buf.ledger, new)
    <3>1. buf'.ledger[m].reply = new /\ m \in DOMAIN buf'.ledger
      BY <1>4, <1>5, <2>1 DEF SameReply
    <3>. QED  BY <3>1 DEF InLedger
  <2>2. CASE ~EndsWith(buf.ledger, new)
    <3>1. z \in DOMAIN buf'.ledger /\ buf'.ledger[z].reply = new
      BY <1>4, <2>2 DEF LedgerEntry
    <3>. QED  BY <3>1 DEF InLedger
  <2>. QED  BY <2>1, <2>2
<1>12. ASSUME NEW r \in ReplyIds, ~InLedger(buf, r)' PROVE Rest(r)' + InHand(r)' = 0
  <2>1. r # new /\ ~InLedger(buf, r)
    BY <1>10, <1>11, <1>12
  <2>2. Rest(r) + InHand(r) = 0
    BY <2>1 DEF LedgerTrue
  <2>. QED  BY <1>6, <2>1, <2>2
<1>13. ASSUME NEW i \in DOMAIN buf'.ledger
       PROVE  (Open(buf.ledger[i]) = Rest(buf.ledger[i].reply) + InHand(buf.ledger[i].reply))'
  <2>1. i \in 1 .. m \/ (~EndsWith(buf.ledger, new) /\ i = z)
    BY <1>4
  <2>2. CASE i \in 1 .. m
    BY <1>8, <2>2
  <2>3. CASE ~EndsWith(buf.ledger, new) /\ i = z
    BY <1>9, <2>3
  <2>. QED  BY <2>1, <2>2, <2>3
<1>. QED  BY <1>12, <1>13 DEF LedgerTrue

\* Undisturbed, the ledger stays true of what is on its way.
LEMMA LedgerKept ==
    ASSUME AudioInv, Owned, InTurn, LedgerTrue, Undisturbed, Undisturbed', [Next]_vars
    PROVE  LedgerTrue'
<1>0. buf.ledger \in Seq(Entries) /\ \A i \in DOMAIN buf.ledger : buf.ledger[i].reply \in ReplyIds
  <2>1. buf.ledger \in Seq(Entries)
    BY DEF AudioInv, Typed, Buffers
  <2>2. \A e \in Entries : e.reply \in ReplyIds
    BY DEF Entries
  <2>. QED  BY <2>1, <2>2
<1>1. \A r \in ReplyIds : Rest(r) \in Nat /\ InHand(r) \in Nat /\ tally.booked[r] \in Nat /\ tally.written[r] \in Nat
  BY RestIs
<1>2. ASSUME LedgerStands, \A r \in ReplyIds : (Rest(r) + InHand(r))' = Rest(r) + InHand(r)
      PROVE  LedgerTrue'
  <2>1. \A i \in DOMAIN buf.ledger : /\ buf'.ledger[i].reply = buf.ledger[i].reply
                                     /\ buf'.ledger[i].queued = buf.ledger[i].queued
                                     /\ buf'.ledger[i].played = buf.ledger[i].played
    BY <1>2 DEF LedgerStands, SameReply
  <2>2. DOMAIN buf'.ledger = DOMAIN buf.ledger
    BY <1>2 DEF LedgerStands
  <2>3. \A r : InLedger(buf, r)' <=> InLedger(buf, r)
    BY <2>1, <2>2 DEF InLedger
  <2>4. (\A r \in ReplyIds : ~InLedger(buf, r) => Rest(r) + InHand(r) = 0)'
    BY <1>2, <2>3 DEF LedgerTrue
  <2>5. ASSUME NEW i \in DOMAIN buf.ledger
        PROVE  (Open(buf.ledger[i]) = Rest(buf.ledger[i].reply) + InHand(buf.ledger[i].reply))'
    <3>. PICK r \in ReplyIds : r = buf.ledger[i].reply
      BY <1>0
    <3>1. Open(buf.ledger[i]) = Rest(r) + InHand(r)
      BY DEF LedgerTrue
    <3>2. Open(buf.ledger[i])' = Open(buf.ledger[i])
      BY <2>1 DEF Open
    <3>3. (buf.ledger[i].reply)' = r
      BY <2>1
    <3>4. (Rest(r) + InHand(r))' = Rest(r) + InHand(r)
      BY <1>2
    <3>. QED  BY <3>1, <3>2, <3>3, <3>4 DEF Rest, InHand
  <2>. QED  BY <2>2, <2>4, <2>5 DEF LedgerTrue
<1>3. ASSUME DrainStep, ~PlanStep("drain"), ~Booking PROVE LedgerTrue'
  <2>1. LedgerStands
    BY <1>3, DrainIsQuiet DEF DrainQuiet, LedgerSame, LedgerStands, SameReply
  <2>2. CASE ~DrainWrite
    <3>1. \A r \in ReplyIds : (Rest(r) + InHand(r))' = Rest(r) + InHand(r)
      BY <1>3, <2>2, NotWritten DEF Rest, InHand
    <3>. QED  BY <1>2, <2>1, <3>1
  <2>3. CASE DrainWrite
    <3>. DEFINE frame == Head(drain.frames)
    <3>1. DOMAIN tally = DOMAIN Tally0 /\ drain \in Drains /\ drain.pc = "write" /\ frame \in Audio
      BY <2>3 DEF AudioInv, SpeakInv, Shape, Typed, Drains, DrainWrite, DrainShape, WithFrame
    <3>2. tally'.written = [r \in ReplyIds |-> tally.written[r] + UnitsOf(frame, {r})] /\ tally'.booked = tally.booked
      BY <2>3, <3>1 DEF DrainWrite, Tally0
    <3>3. drain'.pc = "book" /\ drain'.frames = drain.frames
      BY <2>3, DrainMoved DEF DrainWrite, DrainGoes, DrainPcs
    <3>4. ASSUME NEW r \in ReplyIds PROVE (Rest(r) + InHand(r))' = Rest(r) + InHand(r)
      <4>. DEFINE u == UnitsOf(frame, {r})
      <4>1. u \in Nat
        BY <3>1, UnitsNat
      <4>2. /\ tally'.written[r] = tally.written[r] + u /\ tally'.booked[r] = tally.booked[r]
            /\ InHand(r)' = u /\ InHand(r) = 0
            /\ tally.written[r] \in Nat /\ tally.booked[r] \in Nat
        BY <1>1, <3>1, <3>2, <3>3 DEF InHand
      <4>. HIDE DEF u
      <4>. QED  BY <4>1, <4>2 DEF Rest
    <3>. QED  BY <1>2, <2>1, <3>4
  <2>. QED  BY <2>2, <2>3
<1>4. ASSUME Booking PROVE LedgerTrue'
  <2>1. BookedTrue
    BY <1>4, BookingHears
  <2>2. drain'.pc # "book"
    <3>1. DrainBook => drain'.pc = "pace"
      BY DrainMoved DEF DrainBook, DrainGoes, DrainPcs
    <3>2. DrainSettleBook => drain'.pc = "close"
      BY DrainMoved DEF DrainSettleBook, DrainGoes, DrainPcs
    <3>. QED  BY <1>4, <3>1, <3>2 DEF Booking
  <2>3. \A r \in ReplyIds : Rest(r)' = Rest(r) /\ InHand(r)' = 0 /\ Rest(r) \in Nat
    BY <1>1, <2>1, <2>2 DEF BookedTrue, Rest, InHand
  <2>4. ASSUME NEW r \in ReplyIds, ~InLedger(buf, r)' PROVE Rest(r)' + InHand(r)' = 0
    <3>1. Rest(r) = 0
      BY <2>1, <2>4 DEF BookedTrue
    <3>. QED  BY <2>3, <3>1
  <2>5. ASSUME NEW a \in DOMAIN buf'.ledger
        PROVE  (Open(buf.ledger[a]) = Rest(buf.ledger[a].reply) + InHand(buf.ledger[a].reply))'
    <3>. PICK r \in ReplyIds : r = (buf.ledger[a].reply)'
      BY <2>1 DEF BookedTrue
    <3>1. Open(buf.ledger[a])' = Rest(r)
      BY <2>1 DEF BookedTrue, Open
    <3>2. Rest(r)' = Rest(r) /\ InHand(r)' = 0 /\ Rest(r) \in Nat
      BY <2>3
    <3>3. Open(buf.ledger[a])' = Rest(r)' + InHand(r)'
      BY <3>1, <3>2
    <3>. QED  BY <3>3 DEF Rest, InHand
  <2>. QED  BY <2>4, <2>5 DEF LedgerTrue
<1>5. ASSUME Bystands PROVE LedgerTrue'
  <2>1. LedgerStands /\ drain' = drain /\ tally'.booked = tally.booked /\ tally'.written = tally.written
    BY <1>5 DEF Bystands, AudioStands
  <2>2. \A r \in ReplyIds : (Rest(r) + InHand(r))' = Rest(r) + InHand(r)
    BY <2>1 DEF Rest, InHand
  <2>. QED  BY <1>2, <2>1, <2>2
<1>6. ASSUME NEW units \in Nat, Pushed(units) PROVE LedgerTrue'
  BY <1>6, LedgerPushed
<1>. QED  BY <1>3, <1>4, <1>5, <1>6, OthersBystand DEF DrainStep, Booking

\* An end that is counted again is still counted.
LEMMA CountsMore ==
    ASSUME Owned, NEW s \in Seq(ReplyIds), tally'.ends = CountEnds(tally.ends, s), Owned'
    PROVE  \A r \in ReplyIds : tally.ends[r] = 1 => tally'.ends[r] = 1
<1>. SUFFICES ASSUME NEW r \in ReplyIds, tally.ends[r] = 1 PROVE tally'.ends[r] = 1
  OBVIOUS
<1>. DEFINE S == {i \in DOMAIN s : s[i] = r}
<1>1. IsFiniteSet(S)
  <2>1. DOMAIN s = 1 .. Len(s) /\ Len(s) \in Nat
    OBVIOUS
  <2>2. IsFiniteSet(DOMAIN s)
    BY <2>1, FS_Interval
  <2>. QED  BY <2>2, FS_Subset
<1>2. Cardinality(S) \in Nat
  BY <1>1, FS_CardinalityType
<1>3. tally'.ends[r] = tally.ends[r] + Cardinality(S)
  BY DEF CountEnds
<1>4. tally'.ends[r] \in 0 .. 1
  BY DEF Owned, ReportsTyped
<1>. HIDE DEF S
<1>. QED  BY <1>2, <1>3, <1>4

\* An end is not taken back.
LEMMA EndsStay ==
    ASSUME AudioInv, Owned, [Next]_vars, Owned'
    PROVE  \A r \in ReplyIds : tally.ends[r] = 1 => tally'.ends[r] = 1
<1>1. DOMAIN tally = DOMAIN Tally0 /\ buf.flushed \in Seq(ReplyIds)
  BY DEF AudioInv, SpeakInv, Shape, Typed, Buffers
<1>2. ASSUME tally' = tally \/ tally' = [tally EXCEPT !.done_ok = @ \union {job.reply}]
      PROVE  tally'.ends = tally.ends
  BY <1>1, <1>2 DEF Tally0
<1>3. ASSUME EmitDiscardedReplyEnd, job.pc # "idle"
      PROVE  \A r \in ReplyIds : tally.ends[r] = 1 => tally'.ends[r] = 1
  <2>1. job.reply \in ReplyIds
    BY <1>3 DEF AudioInv, JobShape
  <2>. DEFINE s == <<job.reply>>
  <2>2. s \in Seq(ReplyIds) /\ tally'.ends = CountEnds(tally.ends, s)
    BY <1>1, <1>3, <2>1 DEF EmitDiscardedReplyEnd, Tally0
  <2>. HIDE DEF s
  <2>. QED  BY <2>2, CountsMore
<1>4. ASSUME NEW a \in Actors, PlanStep(a)
      PROVE  \A r \in ReplyIds : tally.ends[r] = 1 => tally'.ends[r] = 1
  <2>1. CASE Head(plan[a]) = "reply_ends"
    <3>1. tally' = [tally EXCEPT !.ends = CountEnds(@, buf.flushed)]
      BY <1>4, <2>1 DEF PlanStep
    <3>2. tally'.ends = CountEnds(tally.ends, buf.flushed)
      BY <1>1, <3>1 DEF Tally0
    <3>. QED  BY <1>1, <3>2, CountsMore
  <2>2. CASE Head(plan[a]) # "reply_ends"
    <3>1. \/ tally' = tally
          \/ tally' = [tally EXCEPT !.speaking = @ - (IF ended[a] THEN 1 ELSE 0)]
          \/ tally' = [tally EXCEPT !.stale = CutOff, !.booked = NoUnits, !.written = NoUnits,
                                    !.started = {}, !.played = {}, !.done_ok = {}]
      BY <1>4, <2>2 DEF PlanStep
    <3>2. tally'.ends = tally.ends
      BY <1>1, <3>1 DEF Tally0
    <3>. QED  BY <3>2
  <2>. QED  BY <2>1, <2>2
<1>5. ASSUME Booking PROVE \A r \in ReplyIds : tally.ends[r] = 1 => tally'.ends[r] = 1
  <2>. PICK n \in Nat : Book(n)
    BY <1>5, BooksSome
  <2>. DEFINE done == ConsumePlayed(buf.ledger, n)
  <2>1. tally'.ends = [r \in ReplyIds |-> tally.ends[r] + IF r \in done.ended THEN 1 ELSE 0]
    BY BookTells
  <2>. HIDE DEF done
  <2>2. \A r \in ReplyIds : tally.ends[r] \in 0 .. 1 /\ tally'.ends[r] \in 0 .. 1
    BY DEF Owned, ReportsTyped
  <2>3. ASSUME NEW r \in ReplyIds, tally.ends[r] = 1 PROVE tally'.ends[r] = 1
    <3>1. tally'.ends[r] = IF r \in done.ended THEN 2 ELSE 1
      BY <2>1, <2>3
    <3>. QED  BY <2>2, <3>1
  <2>. QED  BY <2>3
<1>6. CASE UNCHANGED vars \/ (\E f \in Flushers : StartFlush(f)) \/ JobTake \/ JobReadGeneration
           \/ JobReadFailure \/ JobStart \/ JobComplete \/ JobProduced \/ JobFailed \/ JobWait
           \/ JobAborted \/ DeadlinePasses
  <2>1. tally' = tally
    BY <1>6 DEF vars, StartFlush, JobTake, JobReadGeneration, JobReadFailure, JobStart, JobComplete, JobProduced,
       JobFailed, JobWait, JobAborted, DeadlinePasses
  <2>. QED  BY <2>1
<1>7. CASE JobCheckEpoch \/ JobResult
  <2>1. job.pc # "idle" /\ (tally' = tally \/ EmitDiscardedReplyEnd)
    BY <1>7 DEF JobCheckEpoch, JobResult
  <2>. QED  BY <1>3, <2>1
<1>8. CASE JobWaitBuffer
  <2>1. tally' = tally \/ tally' = [tally EXCEPT !.done_ok = @ \union {job.reply}]
    BY <1>8 DEF JobWaitBuffer
  <2>2. tally'.ends = tally.ends
    BY <1>2, <2>1
  <2>. QED  BY <2>2
<1>9. CASE JobChunk
  <2>1. tally'.ends = tally.ends
    BY <1>9, ChunkIs, PushedIs DEF Discarded
  <2>. QED  BY <2>1
<1>10. CASE DrainStep /\ ~PlanStep("drain")
  BY <1>5, <1>10, DrainIsQuiet DEF DrainQuiet
<1>. QED  BY <1>4, <1>6, <1>7, <1>8, <1>9, <1>10 DEF Next, JobRuns, FlushStep, Actors

\* A reply that ended, not interrupted, has ended once and all: the ledger has none of it,
\* so all that was booked of it was written.
PlayedEnds == \A r \in tally.played : tally.ends[r] = 1

\* All steps keep that a played reply has ended.
LEMMA PlayedKept ==
    ASSUME AudioInv, Owned, PlayedEnds, Undisturbed', [Next]_vars, Owned'
    PROVE  PlayedEnds'
<1>1. \A r \in tally.played : r \in ReplyIds /\ tally'.ends[r] = 1
  BY EndsStay DEF PlayedEnds, Owned, ReportsTyped
<1>2. CASE Booking
  <2>. PICK n \in Nat : Book(n)
    BY <1>2, BooksSome
  <2>. DEFINE done == ConsumePlayed(buf.ledger, n)
  <2>1. /\ tally'.ends = [r \in ReplyIds |-> tally.ends[r] + IF r \in done.ended THEN 1 ELSE 0]
        /\ tally'.played = tally.played \union done.ended /\ done \in Accs
    BY BookTells
  <2>2. done.ended \subseteq ReplyIds
    BY <2>1 DEF Accs
  <2>. HIDE DEF done
  <2>3. \A r \in ReplyIds : tally.ends[r] \in 0 .. 1 /\ tally'.ends[r] \in 0 .. 1
    BY DEF Owned, ReportsTyped
  <2>4. ASSUME NEW r \in done.ended PROVE tally'.ends[r] = 1
    <3>1. r \in ReplyIds /\ tally'.ends[r] = tally.ends[r] + 1
      BY <2>1, <2>2
    <3>. QED  BY <2>3, <3>1
  <2>. QED  BY <1>1, <2>1, <2>4 DEF PlayedEnds
<1>3. CASE DrainStep /\ ~PlanStep("drain") /\ ~Booking
  BY <1>1, <1>3, DrainIsQuiet DEF DrainQuiet, PlayedEnds
<1>4. CASE Bystands
  BY <1>1, <1>4 DEF Bystands, AudioStands, PlayedEnds
<1>5. ASSUME NEW units \in Nat, Pushed(units) PROVE PlayedEnds'
  BY <1>1, <1>5, PushedIs DEF PlayedEnds
<1>. QED  BY <1>2, <1>3, <1>4, <1>5, OthersBystand

\* An end means that the audio was written.
LEMMA EndedIsPlayed ==
    ASSUME AudioInv, Owned, LedgerTrue, PlayedEnds, Undisturbed
    PROVE  \A r \in tally.played : tally.written[r] = tally.booked[r]
<1>. SUFFICES ASSUME NEW r \in tally.played PROVE tally.written[r] = tally.booked[r]
  OBVIOUS
<1>1. r \in ReplyIds /\ tally.ends[r] = 1
  BY DEF PlayedEnds, Owned, ReportsTyped
<1>2. ~InLedger(buf, r)
  BY <1>1 DEF Owned, OneOwner
<1>3. Rest(r) + InHand(r) = 0
  BY <1>1, <1>2 DEF LedgerTrue
<1>4. Rest(r) \in Nat /\ InHand(r) \in Nat /\ tally.booked[r] \in Nat /\ tally.written[r] \in Nat
  BY <1>1, RestIs
<1>5. Rest(r) = 0
  BY <1>3, <1>4
<1>. QED  BY <1>4, <1>5 DEF Rest

\* A buffer that is not speaking has less than a frame on its way.
LEMMA QuietPipe ==
    ASSUME AudioInv, TailShape, Held, ~IsSpeaking(buf), NEW R
    PROVE  Pipe(buf, drain, R) < FrameUnits
<1>. DEFINE f == drain.frames
<1>1. /\ f \in Seq(Audio) /\ drain.carry \in Audio /\ buf.carry \in Audio
      /\ Len(drain.carry) < FrameUnits /\ Len(buf.carry) < FrameUnits
      /\ drain.pc \in WithFrame => f # <<>>
      /\ f # <<>> => drain.pc \in WithFrame \union {"frame"}
      /\ drain.carry = <<>> \/ buf.carry = <<>>
      /\ f # <<>> => buf.carry = <<>>
  BY DEF AudioInv, Typed, Drains, Buffers, DrainShape, WithFrame, NoCarry
<1>2. buf.queue = <<>> /\ (f # <<>> => drain.tail)
  BY DEF Held, IsSpeaking
<1>3. UnitsQueued(buf.queue, R) = 0 /\ FrameUnits \in Nat \ {0}
  BY <1>2, NothingFramed, FrameAssumption
<1>4. /\ UnitsOf(drain.carry, R) \in Nat /\ UnitsOf(drain.carry, R) <= Len(drain.carry) /\ Len(drain.carry) \in Nat
      /\ UnitsOf(buf.carry, R) \in Nat /\ UnitsOf(buf.carry, R) <= Len(buf.carry) /\ Len(buf.carry) \in Nat
  BY <1>1, UnitsNat, AudioInts
<1>5. CASE f = <<>>
  <2>1. Unwritten(drain) = <<>>
    BY <1>1, <1>5 DEF Unwritten, WithFrame
  <2>2. UnitsFramed(Unwritten(drain), R) = 0
    BY <2>1, NothingFramed
  <2>3. UnitsOf(drain.carry, R) = 0 \/ UnitsOf(buf.carry, R) = 0
    BY <1>1, UnitsEmpty
  <2>. QED  BY <1>1, <1>3, <1>4, <2>2, <2>3 DEF Pipe
<1>6. CASE f # <<>>
  <2>1. drain.carry = <<>> /\ Len(f) <= 1 /\ \A i \in DOMAIN f : Len(f[i]) < FrameUnits
    BY <1>2, <1>6 DEF TailShape
  <2>2. Tail(f) = <<>> /\ Head(f) = f[1] /\ 1 \in DOMAIN f
    BY <1>1, <1>6, <2>1
  <2>3. Head(f) \in Audio /\ UnitsFramed(f, R) = UnitsOf(Head(f), R) + UnitsFramed(Tail(f), R)
    BY <1>1, <1>6, FramedTail
  <2>4. UnitsOf(Head(f), R) \in Nat /\ UnitsOf(Head(f), R) <= Len(Head(f)) /\ Len(Head(f)) \in Nat
    BY <2>3, UnitsNat, AudioInts
  <2>5. UnitsFramed(Tail(f), R) = 0
    BY <2>2, NothingFramed
  <2>6. Unwritten(drain) = f \/ Unwritten(drain) = Tail(f)
    BY DEF Unwritten
  <2>7. Len(Head(f)) < FrameUnits
    BY <2>1, <2>2
  <2>8. UnitsFramed(Unwritten(drain), R) < FrameUnits
    <3>1. CASE Unwritten(drain) = f
      BY <1>3, <2>3, <2>4, <2>5, <2>7, <3>1
    <3>2. CASE Unwritten(drain) = Tail(f)
      BY <1>3, <2>5, <3>2
    <3>. QED  BY <2>6, <3>1, <3>2
  <2>9. UnitsOf(drain.carry, R) = 0 /\ UnitsOf(buf.carry, R) = 0
    BY <1>1, <1>6, <2>1, UnitsEmpty
  <2>10. UnitsFramed(Unwritten(drain), R) \in Nat
    BY PipeNat DEF AudioInv, Typed
  <2>. QED  BY <1>3, <2>8, <2>9, <2>10 DEF Pipe
<1>. QED  BY <1>5, <1>6

OkInv ==
    \A r \in tally.done_ok :
      r <= job.reply /\ (r = job.reply => job.pc = "idle") /\ Rest(r) < FrameUnits

\* Undisturbed, the writer only writes more of what was booked.
LEMMA RestShrinks ==
    ASSUME AudioInv, AudioInv', Owned, DrainStep, ~PlanStep("drain"), Undisturbed, Undisturbed', NEW r \in ReplyIds
    PROVE  Rest(r)' <= Rest(r) /\ tally'.done_ok = tally.done_ok /\ job' = job
<1>1. tally'.done_ok = tally.done_ok /\ job' = job /\ tally'.booked = tally.booked
      /\ (~DrainWrite => tally'.written = tally.written)
  <2>1. CASE Booking
    <3>. PICK n \in Nat : Book(n) /\ job' = job
      BY <2>1, BooksSome
    <3>. QED  BY BookTells
  <2>2. CASE ~Booking
    BY <2>2, DrainIsQuiet, NotWritten DEF DrainQuiet
  <2>. QED  BY <2>1, <2>2
<1>2. tally.booked[r] \in Nat /\ tally.written[r] \in Nat /\ Rest(r) = tally.booked[r] - tally.written[r]
      /\ Rest(r)' = tally'.booked[r] - tally'.written[r]
  BY RestIs DEF Rest
<1>3. CASE ~DrainWrite
  <2>1. Rest(r)' = Rest(r)
    BY <1>1, <1>2, <1>3
  <2>2. Rest(r) \in Int
    BY <1>2
  <2>. QED  BY <1>1, <2>1, <2>2
<1>4. CASE DrainWrite
  <2>. DEFINE frame == Head(drain.frames)
              u == UnitsOf(frame, {r})
  <2>1. DOMAIN tally = DOMAIN Tally0 /\ drain \in Drains /\ drain.pc = "write" /\ frame \in Audio
    BY <1>4 DEF AudioInv, SpeakInv, Shape, Typed, Drains, DrainWrite, DrainShape, WithFrame
  <2>2. tally'.written = [x \in ReplyIds |-> tally.written[x] + UnitsOf(frame, {x})]
    BY <1>4, <2>1 DEF DrainWrite, Tally0
  <2>3. u \in Nat /\ tally'.written[r] = tally.written[r] + u
    BY <2>1, <2>2, UnitsNat
  <2>. HIDE DEF u
  <2>4. Rest(r)' <= Rest(r)
    BY <1>1, <1>2, <2>3
  <2>. QED  BY <1>1, <2>4
<1>. QED  BY <1>3, <1>4

\* An Ok stays true, and a new one is: the buffer was not speaking.
LEMMA OkKept ==
    ASSUME AudioInv, AudioInv', Owned, Owned', TailShape, Held, OkInv, [Next]_vars, Undisturbed, Undisturbed'
    PROVE  OkInv'
<1>1. tally.done_ok \subseteq ReplyIds /\ tally'.done_ok \subseteq ReplyIds
  BY DEF Owned, ReportsTyped
<1>2. job.reply \in Int /\ job'.reply \in Int /\ FrameUnits \in Int /\ \A r \in ReplyIds : r \in Int
  BY RepliesRise, FrameAssumption DEF ReplyIds
<1>3. \A r \in ReplyIds : /\ Rest(r) \in Nat /\ tally.booked[r] \in Nat /\ tally.written[r] \in Nat
  BY RestIs
<1>4. \A r \in ReplyIds : Rest(r)' \in Int
  <2>. TAKE r \in ReplyIds
  <2>1. tally'.booked[r] \in Nat /\ tally'.written[r] \in Nat
    BY DEF AudioInv, Typed, BooksTyped
  <2>. QED  BY <2>1 DEF Rest
<1>5. CASE DrainStep /\ ~PlanStep("drain")
  <2>. SUFFICES ASSUME NEW r \in tally'.done_ok
                PROVE  r <= job'.reply /\ (r = job'.reply => job'.pc = "idle") /\ Rest(r)' < FrameUnits
    BY DEF OkInv
  <2>1. Rest(r)' <= Rest(r) /\ tally'.done_ok = tally.done_ok /\ job' = job /\ r \in ReplyIds
    BY <1>1, <1>5, RestShrinks
  <2>2. r <= job.reply /\ (r = job.reply => job.pc = "idle") /\ Rest(r) < FrameUnits
    BY <2>1 DEF OkInv
  <2>3. Rest(r)' < FrameUnits
    BY <1>2, <1>3, <1>4, <2>1, <2>2
  <2>. QED  BY <2>1, <2>2, <2>3
<1>6. CASE Bystands
  <2>. SUFFICES ASSUME NEW r \in tally'.done_ok
                PROVE  r <= job'.reply /\ (r = job'.reply => job'.pc = "idle") /\ Rest(r)' < FrameUnits
    BY DEF OkInv
  <2>1. Oks /\ JobLater /\ Rest(r)' = Rest(r)
    BY <1>6 DEF Bystands, AudioStands, Rest
  <2>2. CASE r \in tally.done_ok
    <3>1. r <= job.reply /\ (r = job.reply => job.pc = "idle") /\ Rest(r) < FrameUnits
      BY <2>2 DEF OkInv
    <3>2. r <= job'.reply /\ (r = job'.reply => job'.pc = "idle")
      BY <1>1, <1>2, <2>1, <3>1 DEF JobLater
    <3>. QED  BY <2>1, <3>1, <3>2
  <2>3. CASE r \notin tally.done_ok
    <3>1. r = job.reply /\ job'.reply = r /\ job'.pc = "idle" /\ ~IsSpeaking(buf)
      BY <2>1, <2>3 DEF Oks
    <3>2. Rest(r) < FrameUnits
      BY <1>1, <3>1, RestIs, QuietPipe
    <3>. QED  BY <1>1, <1>2, <2>1, <3>1, <3>2
  <2>. QED  BY <2>2, <2>3
<1>7. ASSUME NEW units \in Nat, Pushed(units) PROVE OkInv'
  <2>. SUFFICES ASSUME NEW r \in tally'.done_ok
                PROVE  r <= job'.reply /\ (r = job'.reply => job'.pc = "idle") /\ Rest(r)' < FrameUnits
    BY DEF OkInv
  <2>1. /\ tally'.done_ok = tally.done_ok /\ job'.reply = job.reply /\ tally'.written = tally.written
        /\ \A x \in ReplyIds : tally'.booked[x] = IF x = job.reply THEN tally.booked[x] + units ELSE tally.booked[x]
        /\ job.pc = "synthesize"
    BY <1>7, PushedIs DEF Pushed
  <2>2. r <= job.reply /\ r # job.reply /\ Rest(r) < FrameUnits
    BY <2>1 DEF OkInv
  <2>3. Rest(r)' = Rest(r)
    BY <1>1, <2>1, <2>2 DEF Rest
  <2>. QED  BY <2>1, <2>2, <2>3
<1>. QED  BY <1>5, <1>6, <1>7, OthersBystand

\* What there is to play is not left lying: the drain is at it, or is woken for it. Its
\* wake is set, or a job that is producing will set it.
Looping == {"read_speaking", "take_carry", "pop"}
Wanted == tts_drain_wake \/ buf.producing
QueueAwake == buf.queue # <<>> =>
    tts_drain_wake \/ drain.pc \in Looping \/ (drain.pc \in WithFrame \union {"frame"} /\ ~drain.tail)
CarryAwake ==
    /\ drain.pc \in {"dry_generation", "pause"} => Wanted
    /\ drain.pc = "store" /\ drain.carry # <<>> => Wanted
    /\ buf.carry # <<>> => Wanted \/ drain.pc \in {"read_speaking", "take_carry"}
LedgerAwake == buf.ledger # <<>> =>
    tts_drain_wake \/ job.pc \in Producers \/ drain.pc \notin {"idle", "close", "stop"}
JobProduces == buf.producing => job.pc \in Producers
Awake == JobProduces /\ QueueAwake /\ CarryAwake /\ LedgerAwake

\* What the drain leaves to the others.
LEMMA DrainLeavesJob ==
    ASSUME AudioInv, Owned, DrainStep, ~PlanStep("drain")
    PROVE  job' = job /\ buf'.producing = buf.producing /\ (~Booking => buf'.ledger = buf.ledger)
<1>1. CASE Booking
  <2>. PICK n \in Nat : Book(n) /\ job' = job
    BY <1>1, BooksSome
  <2>. QED  BY <1>1, BookTells
<1>2. CASE ~Booking
  BY <1>2, DrainIsQuiet DEF DrainQuiet, LedgerSame
<1>. QED  BY <1>1, <1>2

\* A reply left in the ledger at the end of a pass is being produced, or has audio that
\* wakes the drain.
LEMMA SettledAwake ==
    ASSUME AudioInv, Owned, Owned', InTurn, LedgerTrue, Awake, Undisturbed, DrainSettleBook, buf'.ledger # <<>>
    PROVE  tts_drain_wake \/ job.pc \in Producers
<1>1. Booking /\ drain.pc = "settle_book"
  BY DEF Booking, DrainSettleBook
<1>2. BookedTrue
  BY <1>1, BookingHears
<1>3. 1 \in DOMAIN buf'.ledger /\ buf'.ledger[1] \in Entries /\ job' = job
  <2>1. buf'.ledger \in Seq(Entries)
    <3>. PICK n \in Nat : Book(n)
      BY <1>1, BooksSome
    <3>1. buf' \in Buffers
      BY BookTells
    <3>. QED  BY <3>1 DEF Buffers
  <2>2. DOMAIN buf'.ledger = 1 .. Len(buf'.ledger) /\ Len(buf'.ledger) \in Nat /\ Len(buf'.ledger) # 0
    BY <2>1
  <2>. QED  BY <1>2, <2>1, <2>2 DEF BookedTrue
<1>. PICK e \in Entries : e = buf'.ledger[1]
  BY <1>3
<1>4. CASE ~e.complete
  <2>1. EntryShape(buf.ledger[1])'
    BY <1>3 DEF Owned, LedgerShape
  <2>2. job'.pc = "synthesize"
    BY <1>4, <2>1 DEF EntryShape
  <2>. QED  BY <1>3, <2>2 DEF Producers
<1>5. CASE e.complete
  <2>. PICK r \in ReplyIds : r = e.reply
    BY DEF Entries
  <2>1. Open(e) > 0 /\ Open(e) = Rest(r)
    BY <1>2, <1>3, <1>5 DEF BookedTrue
  <2>2. Pipe(buf, drain, {r}) # 0
    BY <2>1, RestIs
  <2>3. drain.frames = <<>> /\ drain.carry = <<>>
    BY <1>1 DEF AudioInv, DrainShape, WithFrame, NoCarry
  <2>4. buf.carry # <<>> \/ buf.queue # <<>>
    <3>. SUFFICES ASSUME buf.carry = <<>>, buf.queue = <<>> PROVE FALSE
      OBVIOUS
    <3>1. Unwritten(drain) = <<>>
      BY <1>1, <2>3 DEF Unwritten
    <3>. QED  BY <2>2, <2>3, <3>1, NothingFramed, UnitsEmpty DEF Pipe
  <2>. QED  BY <1>1, <2>4 DEF Awake, JobProduces, QueueAwake, CarryAwake, Wanted, Looping, WithFrame
<1>. QED  BY <1>4, <1>5

\* A step of the drain leaves nothing lying.
LEMMA AwakeTurn ==
    ASSUME AudioInv, Owned, Owned', InTurn, LedgerTrue, TailShape, Awake, DrainStep, ~PlanStep("drain"),
           Undisturbed, Undisturbed'
    PROVE  Awake'
<1>1. Moves
  BY DrainTurns
<1>2. ~Undone /\ ~DrainWriteFails
  BY CalmDrain, CalmBefore DEF Next
<1>3. job' = job /\ buf'.producing = buf.producing /\ (~Booking => buf'.ledger = buf.ledger)
  BY DrainLeavesJob
<1>4. JobProduces'
  BY <1>3 DEF Awake, JobProduces
<1>5. /\ drain.frames # <<>> => drain.pc \in WithFrame \union {"frame"}
      /\ drain.pc \in NoCarry => drain.carry = <<>>
      /\ drain.pc \notin NoCarry => buf.carry = <<>>
  BY DEF AudioInv, DrainShape
<1>6. ASSUME Turning PROVE Awake'
  <2>1. /\ drain'.frames = drain.frames /\ drain'.carry = drain.carry /\ drain'.tail = drain.tail
        /\ buf'.queue = buf.queue /\ buf'.carry = buf.carry /\ tts_drain_wake' = tts_drain_wake
    BY <1>6 DEF Turning, Turns, InHandNow, Leaves
  <2>2. Wanted' <=> Wanted
    BY <1>3, <2>1 DEF Wanted
  <2>3. QueueAwake'
    <3>1. drain.pc \in Looping => drain'.pc \in Looping
      BY <1>6 DEF Turning, Turns, InHandNow, Looping
    <3>2. drain.pc \in WithFrame \union {"frame"} /\ ~drain.tail
            => drain'.pc \in Looping \/ drain'.pc \in WithFrame \union {"frame"}
      BY <1>6 DEF Turning, Turns, InHandNow, Looping, WithFrame
    <3>. QED  BY <2>1, <3>1, <3>2 DEF Awake, QueueAwake
  <2>4. CarryAwake'
    <3>1. drain'.pc \in {"dry_generation", "pause"} => buf.producing \/ drain.pc = "dry_generation"
      BY <1>6 DEF Turning, Turns, InHandNow
    <3>2. drain'.pc = "store" /\ drain.carry # <<>> => buf.producing \/ drain.tail
      BY <1>2, <1>6 DEF Turning, Turns, InHandNow
    <3>3. drain.tail => drain.carry = <<>>
      BY DEF TailShape
    <3>4. drain.pc \in {"read_speaking", "take_carry"} => drain'.pc \in {"read_speaking", "take_carry"}
      BY <1>6 DEF Turning, Turns, InHandNow
    <3>. QED  BY <2>1, <2>2, <3>1, <3>2, <3>3, <3>4 DEF Awake, CarryAwake, Wanted
  <2>5. LedgerAwake'
    <3>1. drain'.pc \in {"idle", "close", "stop"} => DrainSettleBook
      BY <1>2, <1>6 DEF Turning, Turns, InHandNow
    <3>2. buf'.ledger # <<>> /\ DrainSettleBook => tts_drain_wake \/ job.pc \in Producers
      BY SettledAwake
    <3>. QED  BY <1>3, <2>1, <3>1, <3>2 DEF LedgerAwake
  <2>. QED  BY <1>4, <2>3, <2>4, <2>5 DEF Awake
<1>7. ASSUME Begins PROVE Awake'
  <2>1. drain'.pc = "read_speaking"
    BY <1>7 DEF Begins, InHandNow
  <2>. QED  BY <1>4, <2>1 DEF Awake, QueueAwake, CarryAwake, LedgerAwake, Looping
<1>8. ASSUME Takes PROVE Awake'
  <2>1. drain'.pc = "pop" /\ buf'.carry = <<>>
    BY <1>8 DEF Takes, InHandNow, Leaves
  <2>. QED  BY <1>4, <2>1 DEF Awake, QueueAwake, CarryAwake, LedgerAwake, Looping
<1>9. ASSUME FindsNone PROVE Awake'
  <2>1. drain'.pc = "dry" /\ buf'.carry = buf.carry /\ buf'.queue = <<>> /\ drain.pc = "pop"
    BY <1>9 DEF FindsNone, InHandNow
  <2>2. buf'.carry = <<>>
    BY <1>5, <2>1 DEF NoCarry
  <2>. QED  BY <1>4, <2>1, <2>2 DEF Awake, QueueAwake, CarryAwake, LedgerAwake
<1>10. ASSUME Pops PROVE Awake'
  <2>1. drain.pc = "pop" /\ drain'.pc \in {"pop", "frame"} /\ drain'.tail = drain.tail /\ buf'.carry = buf.carry
    BY <1>10 DEF Pops, InHandNow, Leaves
  <2>2. buf'.carry = <<>> /\ ~drain'.tail
    BY <1>5, <2>1 DEF NoCarry, TailShape, WithFrame
  <2>. QED  BY <1>4, <2>1, <2>2 DEF Awake, QueueAwake, CarryAwake, LedgerAwake, Looping
<1>11. ASSUME Pauses PROVE Awake'
  <2>1. /\ drain.pc = "pause" /\ drain'.pc = "idle" /\ buf'.queue = buf.queue /\ tts_drain_wake' = tts_drain_wake
        /\ ~Booking
    BY <1>11 DEF Pauses, InHandNow, Leaves, Booking, DrainBook, DrainSettleBook
  <2>2. Wanted /\ Wanted'
    BY <1>3, <2>1 DEF Awake, CarryAwake, Wanted
  <2>3. QueueAwake'
    BY <2>1 DEF Awake, QueueAwake, Looping, WithFrame
  <2>4. LedgerAwake'
    BY <1>3, <2>1, <2>2 DEF Awake, LedgerAwake, JobProduces, Wanted
  <2>5. CarryAwake'
    BY <2>2 DEF CarryAwake
  <2>. QED  BY <1>4, <2>3, <2>4, <2>5 DEF Awake
<1>12. ASSUME Pads PROVE Awake'
  <2>1. /\ drain.pc = "tail_generation" /\ drain'.pc = "frame" /\ buf'.queue = buf.queue /\ buf'.carry = buf.carry
        /\ tts_drain_wake' = tts_drain_wake
    BY <1>12 DEF Pads, InHandNow, Leaves
  <2>2. buf'.carry = <<>>
    BY <1>5, <2>1 DEF NoCarry
  <2>3. QueueAwake'
    BY <2>1 DEF Awake, QueueAwake, Looping, WithFrame
  <2>. QED  BY <1>4, <2>1, <2>2, <2>3 DEF Awake, CarryAwake, LedgerAwake
<1>13. ASSUME Stores PROVE Awake'
  <2>1. /\ drain.pc = "store" /\ drain'.pc = "settle" /\ buf'.queue = buf.queue /\ buf'.carry = drain.carry
        /\ tts_drain_wake' = tts_drain_wake
    BY <1>13 DEF Stores, InHandNow, Leaves
  <2>2. QueueAwake'
    BY <2>1 DEF Awake, QueueAwake, Looping, WithFrame
  <2>3. CarryAwake'
    BY <1>3, <2>1 DEF Awake, CarryAwake, Wanted
  <2>. QED  BY <1>4, <2>1, <2>2, <2>3 DEF Awake, LedgerAwake
<1>14. ASSUME Advances PROVE Awake'
  <2>1. /\ drain.pc = "pace" /\ drain'.pc = "frame" /\ buf'.queue = buf.queue /\ buf'.carry = buf.carry
        /\ tts_drain_wake' = tts_drain_wake /\ drain'.tail = drain.tail
    BY <1>14 DEF Advances, InHandNow, Leaves
  <2>2. buf'.carry = <<>>
    BY <1>5, <2>1 DEF NoCarry
  <2>3. QueueAwake'
    BY <2>1 DEF Awake, QueueAwake, Looping, WithFrame
  <2>. QED  BY <1>4, <2>1, <2>2, <2>3 DEF Awake, CarryAwake, LedgerAwake
<1>15. ASSUME Leaving PROVE Awake'
  <2>1. /\ drain.pc \in {"close", "stop"} /\ drain'.pc \in {"idle", "stop"}
        /\ buf'.queue = buf.queue /\ buf'.carry = buf.carry /\ tts_drain_wake' = tts_drain_wake /\ ~Booking
    BY <1>2, <1>15 DEF Leaving, InHandNow, Leaves, Booking, DrainBook, DrainSettleBook
  <2>2. QueueAwake'
    BY <2>1 DEF Awake, QueueAwake, Looping, WithFrame
  <2>3. CarryAwake'
    BY <1>3, <2>1 DEF Awake, CarryAwake, Wanted
  <2>4. LedgerAwake'
    BY <1>3, <2>1 DEF Awake, LedgerAwake
  <2>. QED  BY <1>4, <2>2, <2>3, <2>4 DEF Awake
<1>. QED
  BY <1>1, <1>6, <1>7, <1>8, <1>9, <1>10, <1>11, <1>12, <1>13, <1>14, <1>15 DEF Moves

\* No step leaves anything lying.
LEMMA AwakeKept ==
    ASSUME AudioInv, Owned, Owned', InTurn, LedgerTrue, TailShape, Awake, [Next]_vars, Undisturbed, Undisturbed'
    PROVE  Awake'
<1>1. CASE DrainStep /\ ~PlanStep("drain")
  BY <1>1, AwakeTurn
<1>2. CASE Bystands
  <2>1. /\ drain' = drain /\ LedgerStands /\ buf'.queue = buf.queue /\ buf'.carry = buf.carry
        /\ Wakes
    BY <1>2 DEF Bystands, AudioStands
  <2>2. Wanted => Wanted'
    BY <2>1 DEF Wanted, Wakes
  <2>3. JobProduces'
    BY <2>1 DEF Awake, JobProduces, Wakes
  <2>4. QueueAwake'
    BY <2>1 DEF Awake, QueueAwake, Wakes
  <2>5. CarryAwake'
    BY <2>1, <2>2 DEF Awake, CarryAwake
  <2>6. buf'.ledger # <<>> => buf.ledger # <<>>
    <3>1. buf.ledger \in Seq(Entries) /\ buf'.ledger \in Seq(Entries)
      <4>1. Owned'
        OBVIOUS
      <4>2. AudioInv'
        BY AudioStep
      <4>. QED  BY <4>2 DEF AudioInv, Typed, Buffers
    <3>2. DOMAIN buf'.ledger = DOMAIN buf.ledger
      BY <2>1 DEF LedgerStands
    <3>. QED  BY <3>1, <3>2
  <2>7. LedgerAwake'
    BY <2>1, <2>6 DEF Awake, LedgerAwake, Wakes
  <2>. QED  BY <2>3, <2>4, <2>5, <2>7 DEF Awake
<1>3. ASSUME NEW units \in Nat, Pushed(units) PROVE Awake'
  <2>1. drain' = drain /\ tts_drain_wake' = TRUE /\ job'.pc = "synthesize"
    BY <1>3, PushedIs DEF Pushed
  <2>. QED  BY <2>1 DEF Awake, JobProduces, QueueAwake, CarryAwake, LedgerAwake, Wanted, Producers
<1>. QED  BY <1>1, <1>2, <1>3, OthersBystand

\* What holds as long as nothing was cut.
Calm == LedgerTrue /\ TailShape /\ Held /\ PlayedEnds /\ OkInv /\ Awake
ReportInv == AudioInv /\ Owned /\ InTurn /\ (Undisturbed => Calm)

\* The invariant of the reports holds at the start.
LEMMA ReportInit == Init => ReportInv
<1>. SUFFICES ASSUME Init PROVE ReportInv
  OBVIOUS
<1>1. AudioInv /\ Owned /\ InTurn
  BY AudioInit, OwnedInit, TurnInit
<1>2. /\ drain.pc = "idle" /\ drain.frames = <<>> /\ ~drain.tail /\ drain.carry = <<>>
      /\ buf.ledger = <<>> /\ buf.queue = <<>> /\ buf.carry = <<>> /\ ~buf.producing
      /\ tally.played = {} /\ tally.done_ok = {}
      /\ \A r \in ReplyIds : tally.booked[r] = 0 /\ tally.written[r] = 0
  BY DEF Init, Drain0, Buffer0, Tally0, NoUnits
<1>3. LedgerTrue
  <2>1. \A r \in ReplyIds : Rest(r) + InHand(r) = 0
    BY <1>2 DEF Rest, InHand
  <2>. QED  BY <1>2, <2>1 DEF LedgerTrue
<1>4. TailShape /\ Held /\ PlayedEnds /\ OkInv
  BY <1>2 DEF TailShape, Held, PlayedEnds, OkInv
<1>5. Awake
  BY <1>2 DEF Awake, JobProduces, QueueAwake, CarryAwake, LedgerAwake
<1>. QED  BY <1>1, <1>3, <1>4, <1>5 DEF ReportInv, Calm

\* The invariant of the reports is inductive.
LEMMA ReportStep == ReportInv /\ [Next]_vars => ReportInv'
<1>. SUFFICES ASSUME ReportInv, [Next]_vars PROVE ReportInv'
  OBVIOUS
<1>0. AudioInv /\ Owned /\ InTurn
  BY DEF ReportInv
<1>1. AudioInv' /\ Owned' /\ InTurn'
  BY <1>0, AudioStep, OwnedStep, TurnStep
<1>2. ASSUME Undisturbed' PROVE Calm'
  <2>1. Undisturbed /\ LedgerTrue /\ TailShape /\ Held /\ PlayedEnds /\ OkInv /\ Awake
    BY <1>0, <1>2, CalmBefore DEF ReportInv, Calm
  <2>2. LedgerTrue'
    BY <1>0, <1>2, <2>1, LedgerKept
  <2>3. TailShape' /\ Held'
    BY <1>0, <1>2, <2>1, ShapeKept
  <2>4. PlayedEnds'
    BY <1>0, <1>1, <1>2, <2>1, PlayedKept
  <2>5. OkInv'
    BY <1>0, <1>1, <1>2, <2>1, OkKept
  <2>6. Awake'
    BY <1>0, <1>1, <1>2, <2>1, AwakeKept
  <2>. QED  BY <2>2, <2>3, <2>4, <2>5, <2>6 DEF Calm
<1>. QED  BY <1>1, <1>2 DEF ReportInv

\* The invariant of the reports says what the host and the callers are told.
LEMMA ReportTells == ReportInv => RepliesReported
<1>. SUFFICES ASSUME ReportInv PROVE RepliesReported
  OBVIOUS
<1>0. AudioInv /\ Owned
  BY DEF ReportInv
<1>1. ReplyEndsAtMostOnce
  BY <1>0 DEF Owned, ReportsTyped, ReplyEndsAtMostOnce
<1>2. EndedMeansPlayed
  BY <1>0, EndedIsPlayed DEF ReportInv, Calm, EndedMeansPlayed
<1>3. OkMeansPlayed
  BY DEF ReportInv, Calm, OkInv, Rest, OkMeansPlayed
<1>4. ASSUME Undisturbed, AtRest PROVE \A r \in tally.audible : tally.ends[r] = 1
  <2>1. buf.ledger = <<>>
    BY <1>4 DEF ReportInv, Calm, Awake, LedgerAwake, AtRest, Producers
  <2>2. buf.flushed = <<>>
    BY <1>0, <1>4 DEF Owned, OneOwner, Undisturbed
  <2>3. \A r : ~InLedger(buf, r) /\ ~InFlushed(buf, r)
    BY <2>1, <2>2 DEF InLedger, InFlushed
  <2>. QED  BY <1>0, <2>3 DEF Owned, OneOwner
<1>5. UndisturbedRepliesEnd
  BY <1>4 DEF UndisturbedRepliesEnd, AtRestRepliesEnded
<1>. QED  BY <1>1, <1>2, <1>3, <1>5 DEF RepliesReported

\* A reply ends once at most, and undisturbed an end and the Ok of a send come after its
\* audio, and at rest every reply that had audio has ended: the reports of the drain, the
\* job, the flushes and the aborts (VOICE-API.md, agent_reply_end), for any number of
\* replies, flush passes and chunks.
THEOREM RepliesTold == Spec => []RepliesReported
<1>1. Init => ReportInv
  BY ReportInit
<1>2. ReportInv /\ [Next]_vars => ReportInv'
  BY ReportStep
<1>3. ReportInv => RepliesReported
  BY ReportTells
<1>. QED  BY <1>1, <1>2, <1>3, PTL DEF Spec

=============================================================================
