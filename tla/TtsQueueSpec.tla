---------------------------- MODULE TtsQueueSpec ----------------------------
(***************************************************************************)
(* What the text-to-speech queue of one VoiceAgent promises to its caller: *)
(* sends start in call order, a flush cancels every send called before it  *)
(* that has not started, and a later send is not touched by that flush.    *)
(* A send is identified by its place in the call order.                    *)
(***************************************************************************)
EXTENDS Integers

CONSTANT MaxSends        \* bound on the number of sends of one agent

VARIABLES
    calls,               \* number of sends called so far
    status,              \* what became of each send
    floor                \* sends below it were called before the last flush

vars == <<calls, status, floor>>

Sends == 0 .. MaxSends - 1

\* A status is "none", "waiting", "queued", "started" or "over".
Init ==
    /\ calls = 0
    /\ status = [s \in Sends |-> "none"]
    /\ floor = 0

Become(s, new) == status' = [status EXCEPT ![s] = new]

\* A send is called: its place is fixed now, whatever its task does next.
Call ==
    /\ calls < MaxSends
    /\ calls' = calls + 1
    /\ Become(calls, "waiting")
    /\ UNCHANGED floor

\* A send becomes a queued job. No earlier send is still on its way.
Enqueue(s) ==
    /\ status[s] = "waiting"
    /\ \A r \in Sends : r < s => status[r] # "waiting"
    /\ Become(s, "queued")
    /\ UNCHANGED <<calls, floor>>

\* A send ends by itself: an error before it is queued, or a dropped future.
GiveUp(s) ==
    /\ status[s] = "waiting"
    /\ Become(s, "over")
    /\ UNCHANGED <<calls, floor>>

\* The flush point: every send on its way is cancelled at once, and every
\* queued one called before it is about to be.
Flush ==
    /\ floor' = calls
    /\ status' = [s \in Sends |-> IF status[s] = "waiting" THEN "over" ELSE status[s]]
    /\ UNCHANGED calls

\* The flush reaches the queue and drops jobs called before it.
Drop ==
    /\ \E dropped \in SUBSET {s \in Sends : status[s] = "queued" /\ s < floor} :
          status' = [s \in Sends |-> IF s \in dropped THEN "over" ELSE status[s]]
    /\ UNCHANGED <<calls, floor>>

\* The worker starts the oldest live send.
Start(s) ==
    /\ status[s] = "queued"
    /\ \A r \in Sends : r < s => status[r] \notin {"waiting", "queued"}
    /\ Become(s, "started")
    /\ UNCHANGED <<calls, floor>>

Next ==
    \/ Call
    \/ Flush
    \/ Drop
    \/ \E s \in Sends : Enqueue(s) \/ GiveUp(s) \/ Start(s)

Spec == Init /\ [][Next]_vars

=============================================================================
