------------------------------ MODULE MCMixGraph ------------------------------
(* The instances of MixGraph that TLC explores. *)
EXTENDS MixGraph

CONSTANTS a, b

\* One listener and one talker whose frames come bunched, late, or after a pause.
Streaming == [horizon |-> 8, listeners |-> {a}, talkers |-> {b}, pushes |-> 5, leaves |-> 0]
\* Two listeners whose loops start at any phase, stall and catch up in any order.
Stalling == [horizon |-> 17, listeners |-> {a, b}, talkers |-> {}, pushes |-> 0, leaves |-> 0]
\* A listener that talks leaves and comes back while another goes on.
Leaving == [horizon |-> 5, listeners |-> {a, b}, talkers |-> {a}, pushes |-> 2, leaves |-> 1]

SafetyScopes == {Streaming, Stalling, Leaving}
=============================================================================
