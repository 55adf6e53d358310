----------------------------- MODULE MixRouting -----------------------------
(***************************************************************************)
(* Who hears whom in the shared mix of a pod: the routing half of the Rust *)
(* MixGraph (crates/mixer/src/graph.rs: inputs, allow-lists, mix groups),  *)
(* the ClientAudioMixer of each host in front of it, and the               *)
(* AudioClipController of each host, which routes its clips through the    *)
(* same allow-lists (packages/helpers/src/client-audio-mixer.ts,           *)
(* audio-clip-controller.ts, voice-agent-session-host.ts).                 *)
(* Everything but play() is synchronous; play() fetches and decodes the    *)
(* clip between choosing its targets and routing it, and anything may      *)
(* happen in between.                                                      *)
(* The code keeps no empty allow-list: setting one removes it, and a       *)
(* listener without a list hears every other input. Here an empty set      *)
(* stands for that, so taking the last source off a list opens it.         *)
(***************************************************************************)
EXTENDS Integers, FiniteSets, Sequences, SequencesExt

CONSTANTS
    Peers, Clips, Groups,
    NoGroup,             \* what a client outside every group has for a group
    HostOf,              \* the host of each peer and of each clip: hosts share the graph
    MaxJoins, MaxMoves   \* bounds on registrations and on group operations

ASSUME RoutingAssumption ==
    /\ Peers \cap Clips = {}
    /\ NoGroup \notin Groups
    /\ MaxJoins \in Nat /\ MaxMoves \in Nat

VARIABLES
    graph,               \* the Rust side: [inputs, routes, groups, member]
    known,               \* knownClientIds: the peers registered on any mixer of the graph
    memberGroups,        \* the TypeScript side's own record of the groups
    plays,               \* the plays of all controllers, oldest first
    play,                \* per clip: stage, targets, usesMixGraph
    routed,              \* history: per clip, the listeners whose lists are as it left them
    joins, moves
vars == <<graph, known, memberGroups, plays, play, routed, joins, moves>>

Init ==
    /\ graph = [inputs |-> {},
                routes |-> [l \in Peers |-> {}],
                groups |-> [g \in Groups |-> {}],
                member |-> [p \in Peers |-> NoGroup]]
    /\ known = {}
    /\ memberGroups = [p \in Peers |-> NoGroup]
    /\ plays = <<>>
    /\ play = [k \in Clips |-> [stage |-> "new", targets |-> {}, usesMixGraph |-> FALSE]]
    /\ routed = [k \in Clips |-> {}]
    /\ joins = 0 /\ moves = 0

-----------------------------------------------------------------------------
(* MixGraph. *)

AddInput(g, source) == [g EXCEPT !.inputs = @ \union {source}]

\* rebuild_group_routes: every member hears the others, and every listener
\* that is in no group loses its list.
Rebuild(g, group) ==
    [g EXCEPT !.routes = [l \in Peers |->
        IF g.member[l] = NoGroup THEN {}
        ELSE IF l \in g.groups[group] THEN g.groups[group] \ {l} ELSE @[l]]]

\* One rebuild for each of several groups; nobody is in two of them, so their order
\* does not matter.
Fellows(g, l, changed) == UNION {g.groups[h] : h \in {i \in changed : l \in g.groups[i]}}
RebuildEach(g, changed) ==
    [g EXCEPT !.routes = [l \in Peers |->
        IF g.member[l] = NoGroup THEN {}
        ELSE IF \E h \in changed : l \in g.groups[h]
               THEN Fellows(g, l, changed) \ {l}
        ELSE @[l]]]

\* Variant: the source stays on the lists of the others.
StripSource_OwnListOnly(g, source) ==
    [g EXCEPT !.inputs = @ \ {source},
              !.routes = [l \in Peers |-> IF l = source THEN {} ELSE @[l]]]

StripSource(g, source) ==
    [g EXCEPT !.inputs = @ \ {source},
              !.routes = [l \in Peers |-> IF l = source THEN {} ELSE @[l] \ {source}]]

\* remove_input: the input goes, with its name on every list, its own list and
\* its place in a group.
RemoveInput(g, source) ==
    LET stripped == StripSource(g, source)
    IN  IF source \in Peers /\ g.member[source] # NoGroup
          THEN LET group == g.member[source]
               IN  Rebuild([stripped EXCEPT !.member[source] = NoGroup,
                                            !.groups[group] = @ \ {source}], group)
          ELSE stripped

\* Variant: a member taken over from another group stays in that one's set.
SetGroupMembers_LeavesOld(g, group, members) ==
    Rebuild([g EXCEPT !.member = [p \in Peers |-> IF p \in members THEN group ELSE @[p]],
                      !.groups[group] = members], group)

\* set_group_members. A member left out keeps its member_group and its list.
SetGroupMembers(g, group, members) ==
    LET old == {g.member[p] : p \in members} \ {NoGroup, group}
        moved == [g EXCEPT !.member = [p \in Peers |-> IF p \in members THEN group ELSE @[p]],
                           !.groups = [h \in Groups |-> IF h \in old THEN @[h] \ members ELSE @[h]]]
    IN  Rebuild([RebuildEach(moved, old) EXCEPT !.groups[group] = members], group)

\* move_to_group.
MoveToGroup(g, p, group) ==
    LET old == g.member[p]
        out == IF old = NoGroup THEN g ELSE [g EXCEPT !.groups[old] = @ \ {p}]
        moved == [out EXCEPT !.groups[group] = @ \union {p}, !.member[p] = group]
    IN  Rebuild(IF old \in {NoGroup, group} THEN moved ELSE Rebuild(moved, old), group)

\* remove_from_group.
RemoveFromGroup(g, p) ==
    LET old == g.member[p]
    IN  IF old = NoGroup THEN g
        ELSE Rebuild([g EXCEPT !.groups[old] = @ \ {p}, !.member[p] = NoGroup, !.routes[p] = {}], old)

\* The condition render_output mixes a source under.
Hears(g, l, source) ==
    /\ source \in g.inputs \ {l}
    /\ g.routes[l] = {} \/ source \in g.routes[l]

-----------------------------------------------------------------------------
(* AudioClipController. *)

\* Variant: every listener is pinned to the peers registered now.
ClipRoutes_FromRegistered(g, registered, k, targets) ==
    [g EXCEPT !.routes = [l \in Peers |->
        IF l \notin registered THEN @[l]
        ELSE (registered \ {l}) \union (IF l \in targets THEN {k} ELSE {})]]

\* applyTargetPlayRoutes: the clip is added to the list of each target, and a
\* listener that is not one is pinned to a list without it. A listener that has
\* no list yet is given the other peers.
ClipRoutes(g, registered, k, targets) ==
    LET subset == targets # {} /\ registered \ targets # {}
        Base(l) == IF g.routes[l] # {} THEN g.routes[l] ELSE registered \ {l}
    IN  [g EXCEPT !.routes = [l \in Peers |->
            IF l \in registered \cap targets THEN Base(l) \union {k}
            ELSE IF l \in registered /\ subset THEN Base(l) \ {k} ELSE @[l]]]

UsingMix(k) == play[k].usesMixGraph

\* The clips of a sequence that are in a set, in its order.
Among(order, set) ==
    LET kept[n \in 0 .. Len(order)] ==
          IF n = 0 THEN <<>>
          ELSE IF order[n] \in set THEN Append(kept[n - 1], order[n]) ELSE kept[n - 1]
    IN  kept[Len(order)]
Playing(controller) == Among(plays, {k \in Clips : HostOf[k] = controller})

\* reapplyPlayRoutes for the plays of one controller, oldest first, with the
\* targets each has now.
Routed(g, k, targets, registered) ==
    IF UsingMix(k) THEN ClipRoutes(g, registered, k, targets[k]) ELSE g
Reapply(g, order, targets, registered) ==
    LET after[n \in 0 .. Len(order)] ==
          IF n = 0 THEN g ELSE Routed(after[n - 1], order[n], targets, registered)
    IN  after[Len(order)]

\* teardownPlay, its effect on the graph: the clip leaves the lists and the
\* inputs, and the controller's other plays are routed again.
TeardownGraph(g, k, rest, targets, registered) ==
    IF UsingMix(k) THEN Reapply(RemoveInput(g, k), rest, targets, registered) ELSE g

-----------------------------------------------------------------------------
(* The hosts. *)

\* A group operation rebuilds lists under the clips that are playing.
GroupChange(g) ==
    /\ graph' = g
    /\ routed' = IF g = graph THEN routed ELSE [k \in Clips |-> {}]

\* registerPeer.
Register(p) ==
    /\ p \notin known
    /\ joins < MaxJoins
    /\ joins' = joins + 1
    /\ graph' = AddInput(graph, p)
    /\ known' = known \union {p}
    /\ UNCHANGED <<memberGroups, plays, play, routed, moves>>

\* onPeerDisconnected on the controller of the peer's host, one play at a time:
\* a play without a target is torn down, another is routed again.
LosesTarget(acc, k, p, registered) ==
    LET targets == [acc.targets EXCEPT ![k] = @ \ {p}]
        rest == Among(acc.rest, Clips \ {k})
    IN  IF p \notin acc.targets[k] THEN acc
        ELSE IF targets[k] = {}
          THEN [g |-> TeardownGraph(acc.g, k, rest, targets, registered),
                targets |-> targets, rest |-> rest]
        ELSE [g |-> Routed(acc.g, k, targets, registered), targets |-> targets, rest |-> acc.rest]
AfterDisconnect(g, p, registered) ==
    LET order == Playing(HostOf[p])
        after[n \in 0 .. Len(order)] ==
          IF n = 0 THEN [g |-> g, targets |-> [k \in Clips |-> play[k].targets], rest |-> order]
          ELSE LosesTarget(after[n - 1], order[n], p, registered)
    IN  after[Len(order)]

\* A session ends: unregisterPeer, then onPeerDisconnected.
Disconnect(p) ==
    /\ p \in known
    /\ known' = known \ {p}
    /\ memberGroups' = [memberGroups EXCEPT ![p] = NoGroup]
    /\ LET gone == RemoveFromGroup(RemoveInput(graph, p), p)
           after == AfterDisconnect(gone, p, known')
           over == {k \in Range(Playing(HostOf[p])) : k \notin Range(after.rest)}
           again == {k \in Range(after.rest) : UsingMix(k) /\ (p \in play[k].targets \/ \E j \in over : UsingMix(j))}
       IN  /\ graph' = after.g
           /\ plays' = Among(plays, Clips \ over)
           /\ play' = [k \in Clips |->
                [play[k] EXCEPT !.targets = after.targets[k],
                                !.stage = IF k \in over THEN "over" ELSE @]]
           /\ routed' = [k \in Clips |->
                IF k \in again THEN known'
                ELSE IF graph.member[p] # NoGroup THEN {} ELSE routed[k] \ {p}]
    /\ UNCHANGED <<joins, moves>>

\* createMixGroup, for registered clients: both sides replace the members.
CreateMixGroup(group, members) ==
    /\ members # {} /\ members \subseteq known
    /\ moves < MaxMoves
    /\ moves' = moves + 1
    /\ memberGroups' = [p \in Peers |->
         IF p \in members THEN group
         ELSE IF memberGroups[p] = group THEN NoGroup ELSE memberGroups[p]]
    /\ GroupChange(SetGroupMembers(graph, group, members))
    /\ UNCHANGED <<known, plays, play, joins>>

\* addClientToMix.
AddClientToMix(group, p) ==
    /\ p \in known
    /\ moves < MaxMoves
    /\ moves' = moves + 1
    /\ memberGroups' = [memberGroups EXCEPT ![p] = group]
    /\ GroupChange(MoveToGroup(graph, p, group))
    /\ UNCHANGED <<known, plays, play, joins>>

\* removeClientFromMix.
RemoveClientFromMix(p) ==
    /\ p \in known
    /\ moves < MaxMoves
    /\ moves' = moves + 1
    /\ memberGroups' = [memberGroups EXCEPT ![p] = NoGroup]
    /\ GroupChange(RemoveFromGroup(graph, p))
    /\ UNCHANGED <<known, plays, play, joins>>

\* playAudio up to its await: the targets are validated and fixed.
PlayAudio(k, targets) ==
    /\ play[k].stage = "new"
    /\ targets # {} /\ targets \subseteq known
    /\ play' = [play EXCEPT ![k] = [@ EXCEPT !.stage = "fetching", !.targets = targets]]
    /\ UNCHANGED <<graph, known, memberGroups, plays, routed, joins, moves>>

\* The clip is decoded; play() goes on, with targets that may have left.
PlayStarts(k) ==
    /\ play[k].stage = "fetching"
    /\ LET uses == play[k].targets \cap known # {}
       IN  /\ play' = [play EXCEPT ![k] = [@ EXCEPT !.stage = "playing", !.usesMixGraph = uses]]
           /\ graph' = IF uses THEN ClipRoutes(AddInput(graph, k), known, k, play[k].targets)
                               ELSE graph
    /\ plays' = Append(plays, k)
    /\ routed' = [routed EXCEPT ![k] = known]
    /\ UNCHANGED <<known, memberGroups, joins, moves>>

PlayFails(k) ==
    /\ play[k].stage = "fetching"
    /\ play' = [play EXCEPT ![k] = [@ EXCEPT !.stage = "over", !.targets = {}]]
    /\ UNCHANGED <<graph, known, memberGroups, plays, routed, joins, moves>>

\* Variant: a play that ends stays in the controller's list.
PlayEnds_StaysListed(k) ==
    /\ play[k].stage = "playing"
    /\ graph' = TeardownGraph(graph, k, <<>>, [j \in Clips |-> {}], known)
    /\ play' = [play EXCEPT ![k] = [@ EXCEPT !.stage = "over", !.targets = {}]]
    /\ UNCHANGED <<known, memberGroups, plays, routed, joins, moves>>

\* stop(), or the tick that finds the clip at its end.
PlayEnds(k) ==
    /\ play[k].stage = "playing"
    /\ LET rest == Among(Playing(HostOf[k]), Clips \ {k})
           targets == [j \in Clips |-> play[j].targets]
       IN  /\ graph' = TeardownGraph(graph, k, rest, targets, known)
           /\ routed' = [j \in Clips |->
                IF UsingMix(k) /\ j \in Range(rest) /\ UsingMix(j) THEN known ELSE routed[j]]
    /\ play' = [play EXCEPT ![k] = [@ EXCEPT !.stage = "over", !.targets = {}]]
    /\ plays' = Among(plays, Clips \ {k})
    /\ UNCHANGED <<known, memberGroups, joins, moves>>

Next ==
    \/ \E p \in Peers : Register(p) \/ Disconnect(p) \/ RemoveClientFromMix(p)
    \/ \E g \in Groups, members \in SUBSET Peers : CreateMixGroup(g, members)
    \/ \E g \in Groups, p \in Peers : AddClientToMix(g, p)
    \/ \E k \in Clips : PlayStarts(k) \/ PlayFails(k) \/ PlayEnds(k)
    \/ \E k \in Clips, targets \in SUBSET Peers : PlayAudio(k, targets)

Spec == Init /\ [][Next]_vars

-----------------------------------------------------------------------------
TypeOK ==
    /\ graph.inputs \subseteq Peers \union Clips
    /\ graph.routes \in [Peers -> SUBSET (Peers \union Clips)]
    /\ graph.groups \in [Groups -> SUBSET Peers]
    /\ graph.member \in [Peers -> Groups \union {NoGroup}]
    /\ known \subseteq Peers
    /\ memberGroups \in [Peers -> Groups \union {NoGroup}]
    /\ Range(plays) = {k \in Clips : play[k].stage = "playing"} /\ IsInjective(plays)
    /\ play \in [Clips -> [stage : {"new", "fetching", "playing", "over"},
                           targets : SUBSET Peers, usesMixGraph : BOOLEAN]]
    /\ routed \in [Clips -> SUBSET Peers]
    /\ joins \in 0 .. MaxJoins /\ moves \in 0 .. MaxMoves

\* The members of a mix group of two or more hear each other and no other
\* client, whoever joins, leaves or moves and whatever clips start and end in
\* between; a client is in one group at most, and the group a listener mute is
\* checked against is the group the graph isolates.
GroupsIsolate ==
    \A p \in Peers, g \in Groups :
        /\ p \in graph.groups[g] <=> memberGroups[p] = g
        /\ p \in graph.groups[g] => graph.member[p] = g
        /\ p \in graph.groups[g] /\ graph.groups[g] # {p} =>
             {q \in Peers : Hears(graph, p, q)} = graph.groups[g] \ {p}

\* A list names nobody who left: what a peer or clip leaves behind would reach
\* the next one of that name. A clip is on the list of its targets only, and is
\* an input exactly as long as it plays through the mix.
ListsAreCurrent ==
    /\ graph.inputs = known \union {k \in Range(plays) : UsingMix(k)}
    /\ \A l \in Peers :
         /\ graph.routes[l] \subseteq graph.inputs \ {l}
         /\ \A k \in Clips : k \in graph.routes[l] => l \in play[k].targets
    /\ \A l \in Peers \ known : graph.routes[l] = {}
    /\ \A k \in Range(plays) : play[k].targets # {}

\* Every target that has been there since the clip was last routed hears it,
\* whichever other clips start and end beside it and whoever else leaves, until
\* a mix group changes.
TargetsHearTheirClip ==
    \A k \in Range(plays) : \A l \in routed[k] :
        UsingMix(k) /\ l \in play[k].targets => Hears(graph, l, k)

=============================================================================
