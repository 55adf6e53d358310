----------------------------- MODULE MCSttActor -----------------------------
(***************************************************************************)
(* Small instances of SttActor: utterances of one or two chunks, with a    *)
(* swap, a barrier, lost connections or late answers.                      *)
(***************************************************************************)
EXTENDS SttActor

\* A vendor that answers in time, a swap and a barrier at any moment.
Clean == [chunk_counts |-> {1}, parkables |-> {"swap", "barrier"}, losses |-> 0, interims |-> 2,
          may_time_out |-> FALSE, may_forget |-> FALSE, may_stop |-> FALSE]
\* Utterances of several chunks.
Spoken == [Clean EXCEPT !.chunk_counts = {1, 2}, !.parkables = {"barrier"}, !.interims = 1]
\* Connections lost and reopened.
Lossy == [Clean EXCEPT !.parkables = {"swap"}, !.losses = 2, !.interims = 1]
\* A stop, also of an actor whose connection was lost.
Stopping == [Lossy EXCEPT !.losses = 1, !.may_stop = TRUE]
\* Answers that come too late.
Late == [Clean EXCEPT !.parkables = {"swap"}, !.interims = 1, !.may_time_out = TRUE]
\* Answers that come late or never.
Silent == [Clean EXCEPT !.parkables = {"barrier"}, !.interims = 0, !.may_time_out = TRUE,
                        !.may_forget = TRUE, !.may_stop = TRUE]

SafetyScopes == {Clean, Spoken, Lossy, Stopping, Late, Silent}

=============================================================================
