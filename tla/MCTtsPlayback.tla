--------------------------- MODULE MCTtsPlayback ---------------------------
(***************************************************************************)
(* Small instances of TtsPlayback: frames of two units and chunks of one   *)
(* to three, so a chunk is a part of a frame, a frame, or a frame and a    *)
(* part.                                                                   *)
(***************************************************************************)
EXTENDS TtsPlayback

CONSTANTS f1

OneFlush == {f1}
AllOrders == {FlushPlan, ManualBargePlan, BargeInPlan}

\* Replies of two chunks that nobody cuts.
Clean == [replies |-> 2, max_chunks |-> 2, chunk_sizes |-> {1, 2, 3}, flushers |-> {}, flush_orders |-> {},
          writer_may_fail |-> FALSE, deadline_may_pass |-> FALSE]
\* A flush at any moment and a writer that fails.
Flushed == [Clean EXCEPT !.max_chunks = 1, !.flushers = OneFlush, !.flush_orders = AllOrders,
                         !.writer_may_fail = TRUE]
\* One flush in the order of a barge-in.
BargedIn == [Clean EXCEPT !.max_chunks = 1, !.chunk_sizes = {1, 2}, !.flushers = OneFlush,
                          !.flush_orders = {BargeInPlan}]
\* Everything that may end a reply, with whole and half frames.
Failing == [Flushed EXCEPT !.replies = 1, !.chunk_sizes = {1, 2}, !.deadline_may_pass = TRUE]
\* A reply behind one that was aborted by the drain or at the deadline of its wait.
Resumed == [Failing EXCEPT !.replies = 2, !.flushers = {}]
SafetyScopes == {Clean, Flushed}
BargeScope == {BargedIn}
LiveScopes == {Failing, Resumed}

=============================================================================
