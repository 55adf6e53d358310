-------------------------- MODULE MCUserUtterance --------------------------
(***************************************************************************)
(* Small instances of UserUtterance.                                       *)
(***************************************************************************)
EXTENDS UserUtterance

\* A vendor that finalizes when asked and answers in time.
Calm == [starts |-> 3, unasked |-> 1, replies |-> 0,
         cuts_in |-> FALSE, endpoints |-> FALSE, late |-> FALSE, gated |-> FALSE,
         wait_ends |-> FALSE]
\* The agent speaks while an utterance ends.
Replying == [Calm EXCEPT !.starts = 2, !.replies = 1]
\* Answers that come too late, and partials of two utterances.
Tardy == [Calm EXCEPT !.starts = 2, !.unasked = 2, !.late = TRUE]
\* Finals that wait for their verdict.
Gated == [Calm EXCEPT !.gated = TRUE]
\* No partial while the caller speaks on.
CutIn == [Calm EXCEPT !.starts = 2, !.unasked = 2, !.cuts_in = TRUE]
\* A vendor that endpoints by itself.
Endpointing == [Calm EXCEPT !.starts = 2, !.unasked = 2, !.endpoints = TRUE]
\* C1 that no longer waits for the answer of an earlier utterance.
Impatient == [Calm EXCEPT !.starts = 2, !.late = TRUE, !.wait_ends = TRUE]

SafetyScopes == {Calm, Replying, Tardy, Gated, CutIn, Endpointing, Impatient}
CutInScope == {[CutIn EXCEPT !.unasked = 0]}

=============================================================================
