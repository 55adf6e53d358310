---------------------------- MODULE MCInboundPath ----------------------------
(***************************************************************************)
(* Small instances of InboundPath: numbers modulo 16, a jump beyond 5      *)
(* starts the buffer over, two packets may be held.                        *)
(***************************************************************************)
EXTENDS InboundPath

\* Packets that arrive in any order across the wrap of the sequence numbers.
Reordered == [stream |-> 14 .. 18, copies |-> 1, horizon |-> 3,
              may_end |-> FALSE, may_stop |-> FALSE]
\* A few packets and more time: the wait grows with late ones and shrinks again.
Late == [Reordered EXCEPT !.stream = 14 .. 17, !.horizon = 6]
\* Every packet may arrive twice.
Duplicated == [Reordered EXCEPT !.stream = 15 .. 17, !.copies = 2, !.horizon = 2]
\* The sender's numbers jump, and packets of before the jump arrive after it.
Jumping == [Reordered EXCEPT !.stream = {14, 15, 16, 23, 24}, !.copies = 1, !.horizon = 1]
\* The track ends, the agent stops, at any moment.
Ending == [Reordered EXCEPT !.stream = 15 .. 17, !.horizon = 1,
                            !.may_end = TRUE, !.may_stop = TRUE]

SafetyScopes == {Reordered, Late, Duplicated, Jumping, Ending}

=============================================================================
