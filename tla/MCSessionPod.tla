---------------------------- MODULE MCSessionPod ----------------------------
(***************************************************************************)
(* Small instances of SessionPod: two clients of one session, a client of  *)
(* another, and limits they compete for.                                   *)
(***************************************************************************)
EXTENDS SessionPod, TLC

CONSTANTS s1, s2, c1, c2, c3

RoomOf == c1 :> s1 @@ c2 :> s1 @@ c3 :> s2

\* One client that comes and goes, and nothing that fails.
Calm == [rooms |-> {s1}, clients |-> {c1}, max_sessions |-> 0, max_prepared |-> 0, joins |-> 2, hosts |-> 1,
         late |-> 0, drops |-> 0, forced |-> 0, connect_fails |-> FALSE, close_fails |-> FALSE,
         transport_fails |-> FALSE, hook_fails |-> FALSE]
\* Its transport is lost and its connects fail, and stale events of it arrive.
Stale == [Calm EXCEPT !.joins = 3, !.late = 1, !.drops = 1, !.transport_fails = TRUE, !.connect_fails = TRUE]
\* Two clients of one session, one lease.
Crowded == [Calm EXCEPT !.clients = {c1, c2}, !.max_sessions = 1, !.joins = 3, !.hosts = 2]
\* Two clients of one session, closes that fail or come late.
Quarantine == [Calm EXCEPT !.clients = {c1, c2}, !.max_sessions = 2, !.close_fails = TRUE]
\* Two sessions, one slot, an orchestrator that ends them and a hook that fails.
Contended == [Calm EXCEPT !.rooms = {s1, s2}, !.clients = {c1, c3}, !.max_prepared = 1, !.joins = 1, !.hosts = 2,
                          !.forced = 1, !.close_fails = TRUE, !.hook_fails = TRUE]
\* One session, made again while its closes are still out.
Again == [Calm EXCEPT !.hosts = 2, !.forced = 2, !.close_fails = TRUE]

SafetyScopes == {Calm, Stale, Crowded, Quarantine, Contended, Again}
\* Fairness is costly to check: a call taken over by the next, two clients of
\* one session, and a session ended by the orchestrator with a hook that fails.
LiveScopes == {Calm, [Crowded EXCEPT !.joins = 2, !.hosts = 1],
               [Again EXCEPT !.forced = 1, !.close_fails = FALSE, !.hook_fails = TRUE]}

\* The two clients of s1 are alike: a scope with one of them stands for both.
Symmetric == Permutations({c1, c2})

=============================================================================
