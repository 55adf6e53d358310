-------------------------- MODULE MixRouting_proofs --------------------------
(***************************************************************************)
(* Who hears whom, for any number of hosts, peers, clips and groups.       *)
(* The state is the allow-lists, and every operation is a rewrite of them: *)
(* a rebuild replaces whole lists, a clip adds or takes its own name, a    *)
(* removal takes a name everywhere. GraphOk says what each rewrite keeps:  *)
(* lists name only inputs, a clip is on no list but its targets', and a    *)
(* member's list is its group and clips. The operations that run over the  *)
(* plays of a controller are loops; what a pass of the loop keeps, the     *)
(* loop keeps, by induction on its length.                                 *)
(***************************************************************************)
EXTENDS MixRouting, LoopLemmas, TLAPS

-----------------------------------------------------------------------------
(* The lists. *)

Graphs == [inputs : SUBSET (Peers \union Clips), routes : [Peers -> SUBSET (Peers \union Clips)],
           groups : [Groups -> SUBSET Peers], member : [Peers -> Groups \union {NoGroup}]]
ListsOk(g, registered, targets) ==
    \A l \in Peers : /\ g.routes[l] \subseteq g.inputs \ {l}
                     /\ \A k \in Clips : k \in g.routes[l] => l \in targets[k]
                     /\ l \notin registered => g.routes[l] = {}
GroupsOk(g, registered) ==
    \A h \in Groups : \A p \in g.groups[h] :
        /\ p \in registered /\ g.member[p] = h
        /\ g.groups[h] # {p} => g.routes[p] \cap Peers = g.groups[h] \ {p}
GraphOk(g, registered, using, targets) ==
    /\ g \in Graphs
    /\ g.inputs = registered \union using
    /\ ListsOk(g, registered, targets) /\ GroupsOk(g, registered)

\* A clip is on the list of each of some listeners.
Listed(g, k, listeners) == \A l \in listeners : k \in g.routes[l]
\* What h has of the lists, the groups and the members of g.
SameGroups(g, h) == h.groups = g.groups /\ h.member = g.member
Keeps(g, h, k) == \A l \in Peers : k \in g.routes[l] => k \in h.routes[l]

LEMMA GraphFields ==
    ASSUME NEW g \in Graphs
    PROVE  /\ g = [inputs |-> g.inputs, routes |-> g.routes, groups |-> g.groups, member |-> g.member]
           /\ g.inputs \in SUBSET (Peers \union Clips)
           /\ g.routes \in [Peers -> SUBSET (Peers \union Clips)]
           /\ g.groups \in [Groups -> SUBSET Peers]
           /\ g.member \in [Peers -> Groups \union {NoGroup}]
BY DEF Graphs

LEMMA GraphWith ==
    ASSUME NEW g \in Graphs, NEW x, NEW y
    PROVE  /\ [g EXCEPT !.inputs = x]
                = [inputs |-> x, routes |-> g.routes, groups |-> g.groups, member |-> g.member]
           /\ [g EXCEPT !.routes = x]
                = [inputs |-> g.inputs, routes |-> x, groups |-> g.groups, member |-> g.member]
           /\ [g EXCEPT !.inputs = x, !.routes = y]
                = [inputs |-> x, routes |-> y, groups |-> g.groups, member |-> g.member]
<1>1. /\ [g EXCEPT !.inputs = x]
           = [inputs |-> x, routes |-> g.routes, groups |-> g.groups, member |-> g.member]
      /\ [g EXCEPT !.routes = x]
           = [inputs |-> g.inputs, routes |-> x, groups |-> g.groups, member |-> g.member]
  BY DEF Graphs
<1>2. [g EXCEPT !.inputs = x, !.routes = y] = [[g EXCEPT !.inputs = x] EXCEPT !.routes = y]
  OBVIOUS
<1>3. [[inputs |-> x, routes |-> g.routes, groups |-> g.groups, member |-> g.member] EXCEPT !.routes = y]
        = [inputs |-> x, routes |-> y, groups |-> g.groups, member |-> g.member]
  OBVIOUS
<1>. QED  BY <1>1, <1>2, <1>3

\* Lists that only name targets may lose a target that is on no list.
LEMMA TargetsMatter ==
    ASSUME NEW g, NEW registered \in SUBSET Peers, NEW using \in SUBSET Clips, NEW targets, NEW now,
           GraphOk(g, registered, using, targets),
           \A k \in using : \A l \in registered : l \in targets[k] => l \in now[k]
    PROVE  GraphOk(g, registered, using, now)
<1>1. ASSUME NEW l \in Peers, NEW k \in Clips, k \in g.routes[l] PROVE l \in now[k]
  <2>1. k \in using /\ l \in registered /\ l \in targets[k]
    BY <1>1, RoutingAssumption DEF GraphOk, ListsOk
  <2>. QED  BY <2>1
<1>. QED  BY <1>1 DEF GraphOk, ListsOk

LEMMA InputAdded ==
    ASSUME NEW g, NEW registered \in SUBSET Peers, NEW using \in SUBSET Clips, NEW targets,
           GraphOk(g, registered, using, targets)
    PROVE  /\ \A p \in Peers : GraphOk(AddInput(g, p), registered \union {p}, using, targets)
           /\ \A k \in Clips : GraphOk(AddInput(g, k), registered, using \union {k}, targets)
           /\ \A i \in Peers \union Clips : AddInput(g, i).routes = g.routes /\ SameGroups(g, AddInput(g, i))
<1>1. g \in Graphs  BY DEF GraphOk
<1>2. ASSUME NEW i \in Peers \union Clips
      PROVE  /\ AddInput(g, i) \in Graphs /\ AddInput(g, i).inputs = g.inputs \union {i}
             /\ AddInput(g, i).routes = g.routes /\ SameGroups(g, AddInput(g, i))
  <2>1. AddInput(g, i) = [inputs |-> g.inputs \union {i}, routes |-> g.routes,
                          groups |-> g.groups, member |-> g.member]
    BY <1>1, GraphWith DEF AddInput
  <2>. QED  BY <1>1, <2>1, GraphFields DEF Graphs, SameGroups
<1>3. ASSUME NEW i \in Peers \union Clips, NEW r, registered \subseteq r
      PROVE  ListsOk(AddInput(g, i), r, targets) /\ GroupsOk(AddInput(g, i), r)
  <2>1. ListsOk(AddInput(g, i), r, targets)
    BY <1>2, <1>3 DEF GraphOk, ListsOk
  <2>2. GroupsOk(AddInput(g, i), r)
    BY <1>2, <1>3 DEF GraphOk, GroupsOk, SameGroups
  <2>. QED  BY <2>1, <2>2
<1>4. ASSUME NEW p \in Peers PROVE GraphOk(AddInput(g, p), registered \union {p}, using, targets)
  BY <1>2, <1>3 DEF GraphOk
<1>5. ASSUME NEW k \in Clips PROVE GraphOk(AddInput(g, k), registered, using \union {k}, targets)
  BY <1>2, <1>3 DEF GraphOk
<1>. QED  BY <1>2, <1>4, <1>5

\* What routing a clip does to the lists.
LEMMA ClipRouted ==
    ASSUME NEW g \in Graphs, NEW registered \in SUBSET Peers, NEW k \in Clips, NEW T \in SUBSET Peers
    PROVE  /\ ClipRoutes(g, registered, k, T) \in Graphs
           /\ ClipRoutes(g, registered, k, T).inputs = g.inputs
           /\ SameGroups(g, ClipRoutes(g, registered, k, T))
           /\ Listed(ClipRoutes(g, registered, k, T), k, registered \cap T)
           /\ \A j \in Clips \ {k} : Keeps(g, ClipRoutes(g, registered, k, T), j)
<1>. DEFINE h == ClipRoutes(g, registered, k, T)
            Base(l) == IF g.routes[l] # {} THEN g.routes[l] ELSE registered \ {l}
            New(l) == IF l \in registered \cap T THEN Base(l) \union {k}
                      ELSE IF l \in registered /\ (T # {} /\ registered \ T # {}) THEN Base(l) \ {k}
                      ELSE g.routes[l]
            routes == [l \in Peers |-> New(l)]
<1>1. h = [inputs |-> g.inputs, routes |-> routes, groups |-> g.groups, member |-> g.member]
  BY GraphWith DEF ClipRoutes
<1>. HIDE DEF h
<1>2. \A l \in Peers : g.routes[l] \in SUBSET (Peers \union Clips) /\ g.routes[l] \subseteq Base(l)
  BY GraphFields
<1>3. \A l \in Peers : New(l) \in SUBSET (Peers \union Clips)
  BY <1>2
<1>4. h \in Graphs
  BY <1>1, <1>3, GraphFields DEF Graphs
<1>5. Listed(h, k, registered \cap T)
  BY <1>1 DEF Listed
<1>6. \A l \in Peers : g.routes[l] \ {k} \subseteq New(l)
  BY <1>2
<1>. HIDE DEF New
<1>7. \A j \in Clips \ {k} : Keeps(g, h, j)
  BY <1>1, <1>6 DEF Keeps
<1>. QED  BY <1>1, <1>4, <1>5, <1>7 DEF SameGroups, h

LEMMA ClipKeepsOk ==
    ASSUME NEW g, NEW registered \in SUBSET Peers, NEW using \in SUBSET Clips, NEW targets,
           GraphOk(g, registered, using, targets), NEW k \in using, targets[k] \in SUBSET Peers
    PROVE  GraphOk(ClipRoutes(g, registered, k, targets[k]), registered, using, targets)
<1>. DEFINE T == targets[k]
            h == ClipRoutes(g, registered, k, targets[k])
            Base(l) == IF g.routes[l] # {} THEN g.routes[l] ELSE registered \ {l}
            New(l) == IF l \in registered \cap T THEN Base(l) \union {k}
                      ELSE IF l \in registered /\ (T # {} /\ registered \ T # {}) THEN Base(l) \ {k}
                      ELSE g.routes[l]
<1>1. g \in Graphs /\ k \in Clips  BY DEF GraphOk
<1>2. h \in Graphs /\ h.inputs = g.inputs /\ SameGroups(g, h)
  BY <1>1, ClipRouted
<1>3. h.routes = [l \in Peers |-> New(l)]
  BY <1>1, GraphFields DEF ClipRoutes
<1>. HIDE DEF h
<1>4. ASSUME NEW l \in Peers
      PROVE  /\ g.routes[l] \subseteq (registered \union using) \ {l}
             /\ \A j \in Clips : j \in g.routes[l] => l \in targets[j]
             /\ l \notin registered => g.routes[l] = {}
  BY DEF GraphOk, ListsOk
<1>5. ASSUME NEW l \in Peers
      PROVE  /\ New(l) \subseteq (registered \union using) \ {l}
             /\ \A j \in Clips : j \in New(l) => l \in targets[j]
             /\ l \notin registered => New(l) = {}
             /\ g.routes[l] # {} => New(l) \cap Peers = g.routes[l] \cap Peers
  <2>1. k # l /\ k \notin Peers /\ k \in Clips /\ Clips \cap registered = {}
    BY RoutingAssumption
  <2>2. CASE l \in registered \cap T
    <3>1. New(l) = Base(l) \union {k}  BY <2>2
    <3>2. Base(l) \subseteq (registered \union using) \ {l}  BY <1>4
    <3>3. \A j \in Clips : j \in Base(l) => l \in targets[j]  BY <1>4, <2>1
    <3>4. g.routes[l] # {} => Base(l) = g.routes[l]  OBVIOUS
    <3>. HIDE DEF Base, New
    <3>. QED  BY <2>1, <2>2, <3>1, <3>2, <3>3, <3>4
  <2>3. CASE l \in registered /\ l \notin T /\ T # {} /\ registered \ T # {}
    <3>1. New(l) = Base(l) \ {k}  BY <2>3
    <3>2. Base(l) \subseteq (registered \union using) \ {l}  BY <1>4
    <3>3. \A j \in Clips : j \in Base(l) => l \in targets[j]  BY <1>4, <2>1
    <3>4. g.routes[l] # {} => Base(l) = g.routes[l]  OBVIOUS
    <3>. HIDE DEF Base, New
    <3>. QED  BY <2>1, <2>3, <3>1, <3>2, <3>3, <3>4
  <2>4. CASE l \notin registered \cap T /\ ~(l \in registered /\ l \notin T /\ T # {} /\ registered \ T # {})
    <3>1. New(l) = g.routes[l]  BY <2>4
    <3>. HIDE DEF Base, New
    <3>. QED  BY <1>4, <3>1
  <2>. QED  BY <2>2, <2>3, <2>4
<1>. HIDE DEF New, Base
<1>6. ListsOk(h, registered, targets)
  BY <1>2, <1>3, <1>5 DEF ListsOk, GraphOk
<1>7. GroupsOk(h, registered)
  <2>. SUFFICES ASSUME NEW i \in Groups, NEW p \in g.groups[i]
                PROVE  /\ p \in registered /\ g.member[p] = i
                       /\ g.groups[i] # {p} => h.routes[p] \cap Peers = g.groups[i] \ {p}
    BY <1>2 DEF GroupsOk, SameGroups
  <2>1. /\ p \in registered /\ g.member[p] = i
        /\ g.groups[i] # {p} => g.routes[p] \cap Peers = g.groups[i] \ {p}
    BY DEF GraphOk, GroupsOk
  <2>2. p \in Peers  BY <2>1
  <2>3. g.groups[i] # {p} => g.routes[p] # {}
    BY <2>1
  <2>. QED  BY <1>3, <1>5, <2>1, <2>2, <2>3
<1>. QED  BY <1>2, <1>6, <1>7 DEF GraphOk, h

LEMMA ClipRemoved ==
    ASSUME NEW g \in Graphs, NEW k \in Clips
    PROVE  /\ RemoveInput(g, k) \in Graphs /\ RemoveInput(g, k).inputs = g.inputs \ {k}
           /\ RemoveInput(g, k).routes = [l \in Peers |-> g.routes[l] \ {k}]
           /\ SameGroups(g, RemoveInput(g, k))
<1>1. k \notin Peers  BY RoutingAssumption
<1>2. RemoveInput(g, k) = [inputs |-> g.inputs \ {k}, routes |-> [l \in Peers |-> g.routes[l] \ {k}],
                           groups |-> g.groups, member |-> g.member]
  <2>1. [l \in Peers |-> IF l = k THEN {} ELSE g.routes[l] \ {k}] = [l \in Peers |-> g.routes[l] \ {k}]
    BY <1>1
  <2>2. RemoveInput(g, k) = StripSource(g, k)  BY <1>1 DEF RemoveInput
  <2>3. StripSource(g, k) = [inputs |-> g.inputs \ {k},
                             routes |-> [l \in Peers |-> IF l = k THEN {} ELSE g.routes[l] \ {k}],
                             groups |-> g.groups, member |-> g.member]
    <3>1. StripSource(g, k) = [g EXCEPT !.inputs = g.inputs \ {k},
                                        !.routes = [l \in Peers |-> IF l = k THEN {} ELSE g.routes[l] \ {k}]]
      BY DEF StripSource
    <3>. QED  BY <3>1, GraphWith
  <2>. QED  BY <2>1, <2>2, <2>3
<1>. QED  BY <1>2, GraphFields DEF Graphs, SameGroups

LEMMA ClipRemovedOk ==
    ASSUME NEW g, NEW registered \in SUBSET Peers, NEW using \in SUBSET Clips, NEW targets,
           GraphOk(g, registered, using, targets), NEW k \in Clips
    PROVE  /\ GraphOk(RemoveInput(g, k), registered, using \ {k}, targets)
           /\ SameGroups(g, RemoveInput(g, k))
           /\ \A j \in Clips \ {k} : Keeps(g, RemoveInput(g, k), j)
<1>. DEFINE h == RemoveInput(g, k)
<1>1. g \in Graphs /\ k \notin Peers  BY RoutingAssumption DEF GraphOk
<1>2. /\ h \in Graphs /\ h.inputs = g.inputs \ {k} /\ SameGroups(g, h)
      /\ h.routes = [l \in Peers |-> g.routes[l] \ {k}]
  BY <1>1, ClipRemoved
<1>. HIDE DEF h
<1>3. h.inputs = registered \union (using \ {k})
  BY <1>1, <1>2 DEF GraphOk
<1>4. ListsOk(h, registered, targets)
  BY <1>2 DEF GraphOk, ListsOk
<1>5. GroupsOk(h, registered)
  <2>. SUFFICES ASSUME NEW i \in Groups, NEW p \in g.groups[i]
                PROVE  /\ p \in registered /\ g.member[p] = i
                       /\ g.groups[i] # {p} => h.routes[p] \cap Peers = g.groups[i] \ {p}
    BY <1>2 DEF GroupsOk, SameGroups
  <2>1. /\ p \in registered /\ g.member[p] = i
        /\ g.groups[i] # {p} => g.routes[p] \cap Peers = g.groups[i] \ {p}
    BY DEF GraphOk, GroupsOk
  <2>2. h.routes[p] = g.routes[p] \ {k}
    BY <1>2, <2>1
  <2>. QED  BY <1>1, <2>1, <2>2
<1>6. \A j \in Clips \ {k} : Keeps(g, h, j)
  BY <1>2 DEF Keeps
<1>. QED  BY <1>2, <1>3, <1>4, <1>5, <1>6 DEF GraphOk, h

-----------------------------------------------------------------------------
(* Routing the plays of a controller again. *)

Aims == [Clips -> SUBSET Peers]
\* No target that is registered loses a clip.
KeepsTargets(g, h, registered, targets) ==
    \A j \in Clips : \A l \in registered \cap targets[j] : j \in g.routes[l] => j \in h.routes[l]
Heard(g, k, registered, targets) == Listed(g, k, registered \cap targets[k])

LEMMA RoutedTyped ==
    ASSUME NEW g \in Graphs, NEW k \in Clips, NEW targets \in Aims, NEW registered \in SUBSET Peers
    PROVE  Routed(g, k, targets, registered) \in Graphs
<1>1. targets[k] \in SUBSET Peers  BY DEF Aims
<1>2. ClipRoutes(g, registered, k, targets[k]) \in Graphs  BY <1>1, ClipRouted
<1>. QED  BY <1>2 DEF Routed

LEMMA RoutedOk ==
    ASSUME NEW g, NEW registered \in SUBSET Peers, NEW using \in SUBSET Clips, NEW targets \in Aims,
           GraphOk(g, registered, using, targets), NEW k \in Clips, UsingMix(k) => k \in using
    PROVE  /\ GraphOk(Routed(g, k, targets, registered), registered, using, targets)
           /\ SameGroups(g, Routed(g, k, targets, registered))
           /\ KeepsTargets(g, Routed(g, k, targets, registered), registered, targets)
           /\ UsingMix(k) => Heard(Routed(g, k, targets, registered), k, registered, targets)
<1>1. g \in Graphs /\ targets[k] \in SUBSET Peers  BY DEF GraphOk, Aims
<1>2. CASE UsingMix(k)
  <2>. DEFINE h == ClipRoutes(g, registered, k, targets[k])
  <2>1. GraphOk(h, registered, using, targets)
    BY <1>1, <1>2, ClipKeepsOk
  <2>2. SameGroups(g, h) /\ Listed(h, k, registered \cap targets[k]) /\ \A j \in Clips \ {k} : Keeps(g, h, j)
    BY <1>1, ClipRouted
  <2>. HIDE DEF h
  <2>3. KeepsTargets(g, h, registered, targets)
    BY <2>2 DEF KeepsTargets, Keeps, Listed
  <2>. QED  BY <1>2, <2>1, <2>2, <2>3 DEF Routed, Heard, h
<1>3. CASE ~UsingMix(k)
  BY <1>3 DEF Routed, SameGroups, KeepsTargets
<1>. QED  BY <1>2, <1>3

LEMMA ReapplyRuns ==
    ASSUME NEW g \in Graphs, NEW order \in Seq(Clips), NEW targets \in Aims, NEW registered \in SUBSET Peers
    PROVE  \E f \in [0 .. Len(order) -> Graphs] :
              /\ f[0] = g
              /\ \A i \in 1 .. Len(order) : f[i] = Routed(f[i - 1], order[i], targets, registered)
              /\ Reapply(g, order, targets, registered) = f[Len(order)]
<1>. DEFINE n == Len(order)
            pass == [i \in 1 .. n |-> [h \in Graphs |-> Routed(h, order[i], targets, registered)]]
            step(a) == [i \in 0 .. n |-> IF i = 0 THEN g ELSE Routed(a[i - 1], order[i], targets, registered)]
            after == CHOOSE a : a = step(a)
<1>1. n \in Nat /\ \A i \in 1 .. n : order[i] \in Clips
  OBVIOUS
<1>2. Reapply(g, order, targets, registered) = after[n]
  BY DEF Reapply
<1>. HIDE DEF n
<1>3. \A i \in 1 .. n : \A h \in Graphs : Routed(h, order[i], targets, registered) \in Graphs
  BY <1>1, RoutedTyped
<1>4. pass \in [1 .. n -> [Graphs -> Graphs]]
  BY <1>3
<1>5. PICK f : f \in [0 .. n -> Graphs] /\ f[0] = g /\ \A i \in 1 .. n : f[i] = pass[i][f[i - 1]]
  <2>. HIDE DEF pass
  <2>1. \E f : Loop(f, n, Graphs, g, pass)
    BY <1>1, <1>4, LoopExists
  <2>. QED  BY <2>1 DEF Loop
<1>6. \A i \in 1 .. n : f[i - 1] \in Graphs /\ f[i] = Routed(f[i - 1], order[i], targets, registered)
  <2>. TAKE i \in 1 .. n
  <2>1. i - 1 \in 0 .. n  BY <1>1
  <2>. QED  BY <1>5, <2>1
<1>7. f = step(f)
  <2>1. \A i \in 0 .. n : f[i] = step(f)[i]
    <3>. TAKE i \in 0 .. n
    <3>1. CASE i = 0  BY <1>5, <3>1
    <3>2. CASE i # 0
      <4>1. i \in 1 .. n  BY <1>1, <3>2
      <4>. QED  BY <1>6, <3>2, <4>1
    <3>. QED  BY <3>1, <3>2
  <2>. QED  BY <1>5, <2>1
<1>8. after = step(after)
  <2>1. \E a : a = step(a)  BY <1>7
  <2>. HIDE DEF step
  <2>. QED  BY <2>1
<1>9. after[n] = f[n]
  <2>. DEFINE T == {r \in Nat : r <= n => after[r] = f[r]}
  <2>. HIDE DEF after
  <2>1. 0 \in T
    <3>1. 0 \in 0 .. n  BY <1>1
    <3>2. step(after)[0] = g  BY <3>1
    <3>. HIDE DEF step
    <3>. QED  BY <1>5, <1>8, <3>2
  <2>2. ASSUME NEW r \in Nat, r \in T PROVE r + 1 \in T
    <3>. SUFFICES ASSUME r + 1 <= n PROVE after[r + 1] = f[r + 1]
      OBVIOUS
    <3>1. r + 1 \in 1 .. n /\ r + 1 \in 0 .. n /\ r + 1 # 0 /\ (r + 1) - 1 = r /\ after[r] = f[r]
      BY <1>1, <2>2
    <3>2. step(after)[r + 1] = Routed(after[r], order[r + 1], targets, registered)
      BY <3>1
    <3>. HIDE DEF step
    <3>3. after[r + 1] = Routed(after[r], order[r + 1], targets, registered)
      BY <1>8, <3>2
    <3>. QED  BY <1>6, <3>1, <3>3
  <2>3. n \in T
    <3>. HIDE DEF T
    <3>. QED  BY <1>1, <2>1, <2>2, Inductive
  <2>. QED  BY <1>1, <2>3
<1>. QED  BY <1>2, <1>5, <1>6, <1>9 DEF n

LEMMA ReapplyTyped ==
    ASSUME NEW g \in Graphs, NEW order \in Seq(Clips), NEW targets \in Aims, NEW registered \in SUBSET Peers
    PROVE  Reapply(g, order, targets, registered) \in Graphs
<1>1. PICK f \in [0 .. Len(order) -> Graphs] :
          /\ f[0] = g
          /\ \A i \in 1 .. Len(order) : f[i] = Routed(f[i - 1], order[i], targets, registered)
          /\ Reapply(g, order, targets, registered) = f[Len(order)]
  BY ReapplyRuns, ZenonT(60)
<1>2. Len(order) \in 0 .. Len(order)
  OBVIOUS
<1>. QED  BY <1>1, <1>2

\* After it every play of the order is heard by its targets; so is what was heard before.
Again(order) == {k \in Range(order) : UsingMix(k)}

LEMMA ReapplyOk ==
    ASSUME NEW g, NEW registered \in SUBSET Peers, NEW using \in SUBSET Clips, NEW targets \in Aims,
           GraphOk(g, registered, using, targets), NEW order \in Seq(Clips), Again(order) \subseteq using,
           NEW h, h = Reapply(g, order, targets, registered)
    PROVE  /\ GraphOk(h, registered, using, targets) /\ SameGroups(g, h)
           /\ KeepsTargets(g, h, registered, targets)
           /\ \A k \in Again(order) : Heard(h, k, registered, targets)
<1>. DEFINE n == Len(order)
            Good(i, y) == /\ GraphOk(y, registered, using, targets) /\ SameGroups(g, y)
                          /\ KeepsTargets(g, y, registered, targets)
                          /\ \A j \in 1 .. i : UsingMix(order[j]) => Heard(y, order[j], registered, targets)
<1>1. n \in Nat /\ \A i \in 1 .. n : order[i] \in Clips /\ (UsingMix(order[i]) => order[i] \in using)
  BY DEF Again, Range
<1>2. g \in Graphs  BY DEF GraphOk
<1>3. PICK f \in [0 .. n -> Graphs] :
          /\ f[0] = g /\ h = f[n]
          /\ \A i \in 1 .. n : f[i] = Routed(f[i - 1], order[i], targets, registered)
  BY <1>2, ReapplyRuns
<1>. DEFINE T == {i \in Nat : i <= n => Good(i, f[i])}
<1>4. 0 \in T
  BY <1>3 DEF SameGroups, KeepsTargets
<1>5. ASSUME NEW i \in Nat, i \in T PROVE i + 1 \in T
  <2>. SUFFICES ASSUME i + 1 <= n PROVE Good(i + 1, f[i + 1])
    OBVIOUS
  <2>. DEFINE k == order[i + 1]
              y == f[i]
              z == Routed(y, k, targets, registered)
  <2>1. i + 1 \in 1 .. n /\ (i + 1) - 1 = i /\ i <= n
    BY <1>1
  <2>2. f[i + 1] = z /\ k \in Clips /\ (UsingMix(k) => k \in using) /\ Good(i, y)
    BY <1>1, <1>3, <1>5, <2>1
  <2>3. GraphOk(y, registered, using, targets) /\ SameGroups(g, y) /\ KeepsTargets(g, y, registered, targets)
    BY <2>2
  <2>. HIDE DEF k, y
  <2>4. /\ GraphOk(z, registered, using, targets) /\ SameGroups(y, z)
        /\ KeepsTargets(y, z, registered, targets)
        /\ UsingMix(k) => Heard(z, k, registered, targets)
    BY <2>2, <2>3, RoutedOk
  <2>. HIDE DEF z
  <2>5. SameGroups(g, z) /\ KeepsTargets(g, z, registered, targets)
    BY <2>3, <2>4 DEF SameGroups, KeepsTargets
  <2>6. ASSUME NEW j \in 1 .. i + 1, UsingMix(order[j]) PROVE Heard(z, order[j], registered, targets)
    <3>1. CASE j = i + 1
      BY <2>4, <2>6, <3>1 DEF k
    <3>2. CASE j # i + 1
      <4>1. j \in 1 .. i /\ j \in 1 .. n  BY <2>1, <3>2
      <4>2. Heard(y, order[j], registered, targets) /\ order[j] \in Clips
        BY <1>1, <2>2, <2>6, <4>1 DEF y
      <4>. QED  BY <2>4, <4>2 DEF Heard, Listed, KeepsTargets
    <3>. QED  BY <3>1, <3>2
  <2>. QED  BY <2>2, <2>4, <2>5, <2>6
<1>6. n \in T
  <2>. HIDE DEF T
  <2>. QED  BY <1>1, <1>4, <1>5, Inductive
<1>7. Good(n, h)
  BY <1>1, <1>3, <1>6
<1>8. ASSUME NEW k \in Again(order) PROVE Heard(h, k, registered, targets)
  <2>1. PICK j \in 1 .. n : k = order[j] /\ UsingMix(k)
    BY DEF Again, Range
  <2>. QED  BY <1>7, <2>1
<1>. QED  BY <1>7, <1>8

\* teardownPlay on the lists.
LEMMA TeardownTyped ==
    ASSUME NEW g \in Graphs, NEW k \in Clips, NEW rest \in Seq(Clips), NEW targets \in Aims,
           NEW registered \in SUBSET Peers
    PROVE  TeardownGraph(g, k, rest, targets, registered) \in Graphs
<1>1. RemoveInput(g, k) \in Graphs
  BY ClipRemoved
<1>2. Reapply(RemoveInput(g, k), rest, targets, registered) \in Graphs
  BY <1>1, ReapplyTyped
<1>. QED  BY <1>2 DEF TeardownGraph

LEMMA TeardownOk ==
    ASSUME NEW g, NEW registered \in SUBSET Peers, NEW using \in SUBSET Clips, NEW targets \in Aims,
           GraphOk(g, registered, using, targets), NEW k \in Clips, UsingMix(k) <=> k \in using,
           NEW rest \in Seq(Clips), Again(rest) \subseteq using \ {k}
    PROVE  LET h == TeardownGraph(g, k, rest, targets, registered)
           IN  /\ GraphOk(h, registered, using \ {k}, targets) /\ SameGroups(g, h)
               /\ \A j \in Clips \ {k} : \A l \in registered \cap targets[j] :
                    j \in g.routes[l] => j \in h.routes[l]
               /\ UsingMix(k) => \A j \in Again(rest) : Heard(h, j, registered, targets)
<1>. DEFINE h == TeardownGraph(g, k, rest, targets, registered)
<1>1. CASE UsingMix(k)
  <2>. DEFINE y == RemoveInput(g, k)
  <2>1. GraphOk(y, registered, using \ {k}, targets) /\ SameGroups(g, y) /\ \A j \in Clips \ {k} : Keeps(g, y, j)
    BY ClipRemovedOk
  <2>2. h = Reapply(y, rest, targets, registered)
    BY <1>1 DEF TeardownGraph
  <2>. HIDE DEF y, h
  <2>3. using \ {k} \in SUBSET Clips
    OBVIOUS
  <2>4. /\ GraphOk(h, registered, using \ {k}, targets) /\ SameGroups(y, h)
        /\ KeepsTargets(y, h, registered, targets)
        /\ \A j \in Again(rest) : Heard(h, j, registered, targets)
    BY <2>1, <2>2, <2>3, ReapplyOk
  <2>5. SameGroups(g, h) /\ \A j \in Clips \ {k} : \A l \in registered \cap targets[j] :
                                j \in g.routes[l] => j \in h.routes[l]
    BY <2>1, <2>4 DEF SameGroups, KeepsTargets, Keeps
  <2>. QED  BY <2>4, <2>5 DEF h
<1>2. CASE ~UsingMix(k)
  <2>1. h = g /\ using \ {k} = using
    BY <1>2 DEF TeardownGraph
  <2>. QED  BY <1>2, <2>1 DEF SameGroups
<1>. QED  BY <1>1, <1>2

LEMMA Appended ==
    ASSUME NEW s \in Seq(Clips), NEW c \in Clips
    PROVE  /\ Append(s, c) \in Seq(Clips) /\ Range(Append(s, c)) = Range(s) \union {c}
           /\ IsInjective(s) /\ c \notin Range(s) => IsInjective(Append(s, c))
<1>1. /\ Append(s, c) \in Seq(Clips) /\ DOMAIN Append(s, c) = 1 .. Len(s) + 1
      /\ Append(s, c)[Len(s) + 1] = c /\ \A j \in 1 .. Len(s) : Append(s, c)[j] = s[j]
      /\ DOMAIN s = 1 .. Len(s) /\ Len(s) \in Nat
  OBVIOUS
<1>2. 1 .. Len(s) + 1 = 1 .. Len(s) \union {Len(s) + 1}
  BY <1>1
<1>3. Range(Append(s, c)) = Range(s) \union {c}
  BY <1>1, <1>2 DEF Range
<1>4. ASSUME IsInjective(s), c \notin Range(s), NEW a \in DOMAIN Append(s, c), NEW b \in DOMAIN Append(s, c),
             Append(s, c)[a] = Append(s, c)[b]
      PROVE  a = b
  <2>1. CASE a \in 1 .. Len(s) /\ b \in 1 .. Len(s)
    BY <1>1, <1>4, <2>1 DEF IsInjective
  <2>2. CASE a \in 1 .. Len(s) /\ b = Len(s) + 1
    <3>1. s[a] = c /\ s[a] \in Range(s)  BY <1>1, <1>4, <2>2 DEF Range
    <3>. QED  BY <1>4, <3>1
  <2>3. CASE b \in 1 .. Len(s) /\ a = Len(s) + 1
    <3>1. s[b] = c /\ s[b] \in Range(s)  BY <1>1, <1>4, <2>3 DEF Range
    <3>. QED  BY <1>4, <3>1
  <2>. QED  BY <1>1, <1>2, <1>4, <2>1, <2>2, <2>3
<1>5. IsInjective(s) /\ c \notin Range(s) => IsInjective(Append(s, c))
  BY <1>4 DEF IsInjective
<1>. QED  BY <1>1, <1>3, <1>5

\* Clips in their order, some left out.
LEMMA AmongOk ==
    ASSUME NEW order \in Seq(Clips), NEW set
    PROVE  /\ Among(order, set) \in Seq(Clips)
           /\ Range(Among(order, set)) = Range(order) \cap set
           /\ IsInjective(order) => IsInjective(Among(order, set))
<1>. DEFINE n == Len(order)
            add(s, i) == IF order[i] \in set THEN Append(s, order[i]) ELSE s
            pass == [i \in 1 .. n |-> [s \in Seq(Clips) |-> add(s, i)]]
            step(a) == [i \in 0 .. n |-> IF i = 0 THEN <<>>
                          ELSE IF order[i] \in set THEN Append(a[i - 1], order[i]) ELSE a[i - 1]]
            kept == CHOOSE a : a = step(a)
            Firsts(i) == {order[j] : j \in 1 .. i}
            Good(i, s) == /\ s \in Seq(Clips) /\ Range(s) = Firsts(i) \cap set
                          /\ IsInjective(order) => IsInjective(s)
<1>1. n \in Nat /\ (\A i \in 1 .. n : order[i] \in Clips) /\ Range(order) = Firsts(n)
  BY DEF Range
<1>2. Among(order, set) = kept[n]
  BY DEF Among
<1>3. \E a : a = step(a)
  <2>1. pass \in [1 .. n -> [Seq(Clips) -> Seq(Clips)]]
    BY <1>1
  <2>2. PICK f : f \in [0 .. n -> Seq(Clips)] /\ f[0] = <<>> /\ \A i \in 1 .. n : f[i] = pass[i][f[i - 1]]
    <3>. HIDE DEF pass, n
    <3>1. <<>> \in Seq(Clips)
      OBVIOUS
    <3>2. \E f : Loop(f, n, Seq(Clips), <<>>, pass)
      BY <1>1, <2>1, <3>1, LoopExists
    <3>. QED  BY <3>2 DEF Loop
  <2>. HIDE DEF n
  <2>3. \A i \in 1 .. n : f[i] = add(f[i - 1], i)
    <3>. TAKE i \in 1 .. n
    <3>1. i - 1 \in 0 .. n  BY <1>1
    <3>. QED  BY <2>2, <3>1
  <2>4. \A i \in 0 .. n : f[i] = step(f)[i]
    <3>. TAKE i \in 0 .. n
    <3>1. CASE i = 0  BY <2>2, <3>1
    <3>2. CASE i # 0
      <4>1. i \in 1 .. n  BY <1>1, <3>2
      <4>. QED  BY <2>3, <3>2, <4>1
    <3>. QED  BY <3>1, <3>2
  <2>5. f = step(f)
    BY <2>2, <2>4
  <2>. QED  BY <2>5
<1>4. kept = step(kept)
  <2>. HIDE DEF step
  <2>. QED  BY <1>3
<1>5. kept[0] = <<>> /\ \A i \in 1 .. n : kept[i] = add(kept[i - 1], i)
  <2>. HIDE DEF kept, n
  <2>1. step(kept)[0] = <<>>
    BY <1>1
  <2>2. \A i \in 1 .. n : step(kept)[i] = add(kept[i - 1], i)
    BY <1>1
  <2>. HIDE DEF step, add
  <2>. QED  BY <1>4, <2>1, <2>2
<1>. DEFINE T == {i \in Nat : i <= n => Good(i, kept[i])}
<1>. HIDE DEF kept, n
<1>6. 0 \in T
  <2>1. Range(<<>>) = {} /\ IsInjective(<<>>) /\ <<>> \in Seq(Clips) /\ Firsts(0) = {}
    BY DEF Range, IsInjective
  <2>. QED  BY <1>5, <2>1
<1>7. ASSUME NEW i \in Nat, i \in T PROVE i + 1 \in T
  <2>. SUFFICES ASSUME i + 1 <= n PROVE Good(i + 1, kept[i + 1])
    OBVIOUS
  <2>. DEFINE c == order[i + 1]
              s == kept[i]
  <2>1. i + 1 \in 1 .. n /\ (i + 1) - 1 = i /\ i <= n
    BY <1>1
  <2>2. kept[i + 1] = add(s, i + 1) /\ c \in Clips /\ Good(i, s)
    BY <1>1, <1>5, <1>7, <2>1
  <2>3. Firsts(i + 1) = Firsts(i) \union {c}
    <3>1. 1 .. i + 1 = 1 .. i \union {i + 1}
      OBVIOUS
    <3>. QED  BY <3>1
  <2>4. CASE c \in set
    <3>1. kept[i + 1] = Append(s, c)
      BY <2>2, <2>4
    <3>. HIDE DEF c, s
    <3>2. s \in Seq(Clips) /\ c \in Clips /\ Range(s) = Firsts(i) \cap set
      BY <2>2
    <3>3. Append(s, c) \in Seq(Clips) /\ Range(Append(s, c)) = Range(s) \union {c}
      BY <3>2, Appended
    <3>6. ASSUME IsInjective(order) PROVE c \notin Range(s)
      <4>1. \A j \in 1 .. i : j \in 1 .. n /\ j # i + 1
        BY <1>1, <2>1
      <4>2. \A j \in 1 .. i : order[j] # c
        BY <3>6, <2>1, <4>1 DEF IsInjective, c, n
      <4>. QED  BY <3>2, <4>2
    <3>7. IsInjective(order) => IsInjective(Append(s, c))
      BY <2>2, <3>2, <3>6, Appended
    <3>. HIDE DEF Firsts
    <3>8. Range(Append(s, c)) = Firsts(i + 1) \cap set
      BY <2>3, <2>4, <3>2, <3>3 DEF c
    <3>. QED  BY <3>1, <3>3, <3>7, <3>8
  <2>5. CASE c \notin set
    <3>1. kept[i + 1] = s
      BY <2>2, <2>5
    <3>. HIDE DEF c, s
    <3>2. Firsts(i + 1) \cap set = Firsts(i) \cap set
      <4>. HIDE DEF Firsts
      <4>. QED  BY <2>3, <2>5 DEF c
    <3>. QED  BY <2>2, <3>1, <3>2
  <2>. QED  BY <2>4, <2>5
<1>8. n \in T
  <2>. HIDE DEF T
  <2>. QED  BY <1>1, <1>6, <1>7, Inductive
<1>9. Good(n, kept[n])
  BY <1>1, <1>8
<1>. HIDE DEF Firsts
<1>. QED  BY <1>1, <1>2, <1>9

-----------------------------------------------------------------------------
(* The groups. A rebuild is owed to some of the groups while an operation   *)
(* moves clients between them.                                              *)

GroupsBut(g, registered, owed) ==
    \A h \in Groups : \A p \in g.groups[h] :
        /\ p \in registered /\ g.member[p] = h
        /\ h \notin owed /\ g.groups[h] # {p} => g.routes[p] \cap Peers = g.groups[h] \ {p}
Owing(g, registered, using, targets, owed) ==
    /\ g \in Graphs
    /\ g.inputs = registered \union using
    /\ ListsOk(g, registered, targets) /\ GroupsBut(g, registered, owed)

LEMMA NothingOwed ==
    ASSUME NEW g, NEW registered, NEW using, NEW targets
    PROVE  Owing(g, registered, using, targets, {}) <=> GraphOk(g, registered, using, targets)
BY DEF Owing, GraphOk, GroupsBut, GroupsOk

LEMMA GroupSet ==
    ASSUME NEW g \in Graphs, NEW y, NEW h
    PROVE  [g EXCEPT !.groups[h] = y]
             = [inputs |-> g.inputs, routes |-> g.routes,
                groups |-> [g.groups EXCEPT ![h] = y], member |-> g.member]
BY DEF Graphs

LEMMA MemberSet ==
    ASSUME NEW g \in Graphs, NEW x, NEW p
    PROVE  [g EXCEPT !.member[p] = x]
             = [inputs |-> g.inputs, routes |-> g.routes,
                groups |-> g.groups, member |-> [g.member EXCEPT ![p] = x]]
BY DEF Graphs

LEMMA MemberThenGroup ==
    ASSUME NEW g \in Graphs, NEW x, NEW y, NEW p, NEW h
    PROVE  [g EXCEPT !.member[p] = x, !.groups[h] = y]
             = [inputs |-> g.inputs, routes |-> g.routes,
                groups |-> [g.groups EXCEPT ![h] = y], member |-> [g.member EXCEPT ![p] = x]]
<1>. DEFINE m == [g EXCEPT !.member[p] = x]
            places == [g.member EXCEPT ![p] = x]
<1>1. [g EXCEPT !.member[p] = x, !.groups[h] = y] = [m EXCEPT !.groups[h] = y]
  OBVIOUS
<1>2. m = [inputs |-> g.inputs, routes |-> g.routes, groups |-> g.groups, member |-> places]
  BY MemberSet
<1>. HIDE DEF m, places
<1>3. [m EXCEPT !.groups[h] = y] = [inputs |-> g.inputs, routes |-> g.routes,
                groups |-> [g.groups EXCEPT ![h] = y], member |-> places]
  BY <1>2
<1>. QED  BY <1>1, <1>3 DEF places

LEMMA BothSet ==
    ASSUME NEW g \in Graphs, NEW x, NEW y
    PROVE  [g EXCEPT !.member = x, !.groups = y]
             = [inputs |-> g.inputs, routes |-> g.routes, groups |-> y, member |-> x]
<1>. DEFINE m == [g EXCEPT !.member = x]
<1>1. [g EXCEPT !.member = x, !.groups = y] = [m EXCEPT !.groups = y]
  OBVIOUS
<1>2. m = [inputs |-> g.inputs, routes |-> g.routes, groups |-> g.groups, member |-> x]
  BY DEF Graphs
<1>. HIDE DEF m
<1>3. [m EXCEPT !.groups = y] = [inputs |-> g.inputs, routes |-> g.routes, groups |-> y, member |-> x]
  BY <1>2
<1>. QED  BY <1>1, <1>3

LEMMA RebuildOk ==
    ASSUME NEW g, NEW registered \in SUBSET Peers, NEW using \in SUBSET Clips, NEW targets, NEW owed,
           NEW group \in Groups, Owing(g, registered, using, targets, owed),
           NEW h, h = Rebuild(g, group)
    PROVE  Owing(h, registered, using, targets, owed \ {group}) /\ SameGroups(g, h)
<1>. DEFINE New(l) == IF g.member[l] = NoGroup THEN {}
                      ELSE IF l \in g.groups[group] THEN g.groups[group] \ {l} ELSE g.routes[l]
<1>1. g \in Graphs /\ Peers \cap Clips = {}  BY RoutingAssumption DEF Owing
<1>2. h = [inputs |-> g.inputs, routes |-> [l \in Peers |-> New(l)], groups |-> g.groups, member |-> g.member]
  BY <1>1, GraphWith DEF Rebuild
<1>3. /\ \A l \in Peers : g.routes[l] \subseteq Peers \union Clips
      /\ \A i \in Groups : g.groups[i] \subseteq Peers
  BY <1>1, GraphFields
<1>4. h \in Graphs /\ SameGroups(g, h) /\ h.inputs = g.inputs /\ \A l \in Peers : h.routes[l] = New(l)
  <2>1. \A l \in Peers : New(l) \in SUBSET (Peers \union Clips)
    BY <1>3
  <2>. HIDE DEF New
  <2>. QED  BY <1>1, <1>2, <2>1, GraphFields DEF Graphs, SameGroups
<1>5. \A l \in g.groups[group] : l \in registered /\ g.member[l] = group
  BY DEF Owing, GroupsBut
<1>6. ListsOk(h, registered, targets)
  <2>1. ASSUME NEW l \in Peers
        PROVE  /\ New(l) \subseteq (registered \union using) \ {l}
               /\ \A k \in Clips : k \in New(l) => l \in targets[k]
               /\ l \notin registered => New(l) = {}
    <3>1. /\ g.routes[l] \subseteq (registered \union using) \ {l}
          /\ \A k \in Clips : k \in g.routes[l] => l \in targets[k]
          /\ l \notin registered => g.routes[l] = {}
      BY DEF Owing, ListsOk
    <3>. QED  BY <1>1, <1>5, <3>1
  <2>. HIDE DEF New
  <2>. QED  BY <1>4, <2>1 DEF ListsOk, Owing
<1>7. GroupsBut(h, registered, owed \ {group})
  <2>. SUFFICES ASSUME NEW i \in Groups, NEW p \in g.groups[i]
                PROVE  /\ p \in registered /\ g.member[p] = i
                       /\ i \notin owed \ {group} /\ g.groups[i] # {p} =>
                            h.routes[p] \cap Peers = g.groups[i] \ {p}
    BY <1>4 DEF GroupsBut, SameGroups
  <2>1. /\ p \in registered /\ g.member[p] = i /\ p \in Peers
        /\ i \notin owed /\ g.groups[i] # {p} => g.routes[p] \cap Peers = g.groups[i] \ {p}
    BY DEF Owing, GroupsBut
  <2>2. i # NoGroup  BY RoutingAssumption
  <2>3. CASE i = group
    <3>1. New(p) = g.groups[i] \ {p}
      BY <2>1, <2>2, <2>3
    <3>. QED  BY <1>3, <1>4, <2>1, <3>1
  <2>4. CASE i # group
    <3>1. New(p) = g.routes[p]
      BY <1>5, <2>1, <2>2, <2>4
    <3>. QED  BY <1>4, <2>1, <2>4, <3>1
  <2>. QED  BY <2>3, <2>4
<1>. QED  BY <1>4, <1>6, <1>7 DEF Owing

LEMMA RebuildEachOk ==
    ASSUME NEW g, NEW registered \in SUBSET Peers, NEW using \in SUBSET Clips, NEW targets, NEW owed,
           NEW changed \in SUBSET Groups, Owing(g, registered, using, targets, owed),
           NEW h, h = RebuildEach(g, changed)
    PROVE  Owing(h, registered, using, targets, owed \ changed) /\ SameGroups(g, h)
<1>. DEFINE New(l) == IF g.member[l] = NoGroup THEN {}
                      ELSE IF \E i \in changed : l \in g.groups[i]
                        THEN Fellows(g, l, changed) \ {l}
                        ELSE g.routes[l]
<1>1. g \in Graphs /\ Peers \cap Clips = {}  BY RoutingAssumption DEF Owing
<1>2. h = [inputs |-> g.inputs, routes |-> [l \in Peers |-> New(l)], groups |-> g.groups, member |-> g.member]
  BY <1>1, GraphWith DEF RebuildEach
<1>3. /\ \A l \in Peers : g.routes[l] \subseteq Peers \union Clips
      /\ \A i \in Groups : g.groups[i] \subseteq Peers
  BY <1>1, GraphFields
<1>4. \A i \in Groups : \A l \in g.groups[i] : l \in registered /\ g.member[l] = i
  BY DEF Owing, GroupsBut
<1>5. ASSUME NEW l \in Peers, NEW i \in changed, l \in g.groups[i] PROVE New(l) = g.groups[i] \ {l}
  <2>1. {j \in changed : l \in g.groups[j]} = {i}
    BY <1>4, <1>5
  <2>2. Fellows(g, l, changed) = g.groups[i]
    BY <2>1 DEF Fellows
  <2>3. g.member[l] # NoGroup
    BY <1>4, <1>5, RoutingAssumption
  <2>. QED  BY <1>5, <2>2, <2>3
<1>6. ASSUME NEW l \in Peers, \A i \in changed : l \notin g.groups[i]
      PROVE  New(l) = IF g.member[l] = NoGroup THEN {} ELSE g.routes[l]
  BY <1>6
<1>. HIDE DEF New
<1>7. \A l \in Peers : New(l) \in SUBSET (Peers \union Clips)
  BY <1>3, <1>5, <1>6
<1>8. h \in Graphs /\ SameGroups(g, h) /\ h.inputs = g.inputs /\ \A l \in Peers : h.routes[l] = New(l)
  BY <1>1, <1>2, <1>7, GraphFields DEF Graphs, SameGroups
<1>9. ListsOk(h, registered, targets)
  <2>. SUFFICES ASSUME NEW l \in Peers
                PROVE  /\ New(l) \subseteq (registered \union using) \ {l}
                       /\ \A k \in Clips : k \in New(l) => l \in targets[k]
                       /\ l \notin registered => New(l) = {}
    BY <1>8 DEF ListsOk, Owing
  <2>1. /\ g.routes[l] \subseteq (registered \union using) \ {l}
        /\ \A k \in Clips : k \in g.routes[l] => l \in targets[k]
        /\ l \notin registered => g.routes[l] = {}
    BY DEF Owing, ListsOk
  <2>2. CASE \E i \in changed : l \in g.groups[i]
    <3>1. PICK i \in changed : l \in g.groups[i]  BY <2>2
    <3>2. New(l) = g.groups[i] \ {l}  BY <1>5, <3>1
    <3>3. g.groups[i] \subseteq registered /\ l \in registered  BY <1>4, <3>1
    <3>. QED  BY <1>1, <3>2, <3>3
  <2>3. CASE ~\E i \in changed : l \in g.groups[i]
    <3>1. New(l) \subseteq g.routes[l]  BY <1>6, <2>3
    <3>. QED  BY <2>1, <3>1
  <2>. QED  BY <2>2, <2>3
<1>10. GroupsBut(h, registered, owed \ changed)
  <2>. SUFFICES ASSUME NEW i \in Groups, NEW p \in g.groups[i]
                PROVE  /\ p \in registered /\ g.member[p] = i
                       /\ i \notin owed \ changed /\ g.groups[i] # {p} =>
                            h.routes[p] \cap Peers = g.groups[i] \ {p}
    BY <1>8 DEF GroupsBut, SameGroups
  <2>1. /\ p \in registered /\ g.member[p] = i /\ p \in Peers
        /\ i \notin owed /\ g.groups[i] # {p} => g.routes[p] \cap Peers = g.groups[i] \ {p}
    BY DEF Owing, GroupsBut
  <2>2. i # NoGroup  BY RoutingAssumption
  <2>3. CASE i \in changed
    <3>1. New(p) = g.groups[i] \ {p}
      BY <1>5, <2>1, <2>3
    <3>. QED  BY <1>3, <1>8, <2>1, <3>1
  <2>4. CASE i \notin changed
    <3>1. \A j \in changed : p \notin g.groups[j]
      BY <1>4, <2>1, <2>4
    <3>2. New(p) = g.routes[p]
      BY <1>6, <2>1, <2>2, <3>1
    <3>. QED  BY <1>8, <2>1, <2>4, <3>2
  <2>. QED  BY <2>3, <2>4
<1>. QED  BY <1>8, <1>9, <1>10 DEF Owing

\* remove_input of a client: who is left of its group hears one another again.
LEMMA PeerRemovedOk ==
    ASSUME NEW g, NEW registered \in SUBSET Peers, NEW using \in SUBSET Clips, NEW targets,
           GraphOk(g, registered, using, targets), NEW p \in Peers
    PROVE  LET h == RemoveInput(g, p)
           IN  /\ GraphOk(h, registered \ {p}, using, targets)
               /\ h.member[p] = NoGroup
               /\ \A i \in Groups : h.groups[i] = g.groups[i] \ {p}
               /\ g.member[p] = NoGroup =>
                          \A k \in Clips : \A l \in Peers \ {p} : k \in g.routes[l] => k \in h.routes[l]
<1>. SUFFICES ASSUME NEW h, h = RemoveInput(g, p)
              PROVE  /\ GraphOk(h, registered \ {p}, using, targets)
                     /\ h.member[p] = NoGroup
                     /\ \A i \in Groups : h.groups[i] = g.groups[i] \ {p}
                     /\ g.member[p] = NoGroup =>
                          \A k \in Clips : \A l \in Peers \ {p} : k \in g.routes[l] => k \in h.routes[l]
  OBVIOUS
<1>. DEFINE s == StripSource(g, p)
            New(l) == IF l = p THEN {} ELSE g.routes[l] \ {p}
            left == registered \ {p}
<1>1. g \in Graphs /\ Peers \cap Clips = {} /\ NoGroup \notin Groups
  BY RoutingAssumption DEF GraphOk
<1>2. s = [inputs |-> g.inputs \ {p}, routes |-> [l \in Peers |-> New(l)],
           groups |-> g.groups, member |-> g.member]
  <2>1. s = [g EXCEPT !.inputs = g.inputs \ {p}, !.routes = [l \in Peers |-> New(l)]]
    BY DEF StripSource
  <2>. HIDE DEF s, New
  <2>. QED  BY <1>1, <2>1, GraphWith
<1>3. /\ \A l \in Peers : g.routes[l] \subseteq Peers \union Clips
      /\ \A i \in Groups : g.groups[i] \subseteq Peers
      /\ g.member \in [Peers -> Groups \union {NoGroup}] /\ g.groups \in [Groups -> SUBSET Peers]
  BY <1>1, GraphFields
<1>4. s \in Graphs /\ SameGroups(g, s) /\ s.inputs = g.inputs \ {p} /\ \A l \in Peers : s.routes[l] = New(l)
  <2>1. \A l \in Peers : New(l) \in SUBSET (Peers \union Clips)
    BY <1>3
  <2>. HIDE DEF New, s
  <2>. QED  BY <1>1, <1>2, <2>1, GraphFields DEF Graphs, SameGroups
<1>. HIDE DEF s
<1>5. s.inputs = left \union using
  BY <1>1, <1>4 DEF GraphOk
<1>6. ListsOk(s, left, targets)
  <2>1. ASSUME NEW l \in Peers
        PROVE  /\ New(l) \subseteq (left \union using) \ {l}
               /\ \A k \in Clips : k \in New(l) => l \in targets[k]
               /\ l \notin left => New(l) = {}
    <3>1. /\ g.routes[l] \subseteq (registered \union using) \ {l}
          /\ \A k \in Clips : k \in g.routes[l] => l \in targets[k]
          /\ l \notin registered => g.routes[l] = {}
      BY DEF GraphOk, ListsOk
    <3>. QED  BY <1>1, <3>1
  <2>. HIDE DEF New
  <2>. QED  BY <1>4, <1>5, <2>1 DEF ListsOk
<1>7. ASSUME NEW i \in Groups, NEW q \in g.groups[i]
      PROVE  /\ q \in registered /\ q \in Peers /\ g.member[q] = i
             /\ g.groups[i] # {q} => g.routes[q] \cap Peers = g.groups[i] \ {q}
  BY DEF GraphOk, GroupsOk
<1>8. CASE g.member[p] = NoGroup
  <2>1. h = s
    BY <1>8 DEF RemoveInput, s
  <2>2. \A i \in Groups : p \notin g.groups[i]
    BY <1>1, <1>7, <1>8
  <2>3. GroupsOk(s, left)
    <3>. SUFFICES ASSUME NEW i \in Groups, NEW q \in g.groups[i]
                  PROVE  /\ q \in left /\ g.member[q] = i
                         /\ g.groups[i] # {q} => s.routes[q] \cap Peers = g.groups[i] \ {q}
      BY <1>4 DEF GroupsOk, SameGroups
    <3>1. q # p  BY <2>2
    <3>2. s.routes[q] = g.routes[q] \ {p}
      BY <1>4, <1>7, <3>1
    <3>3. g.groups[i] # {q} => s.routes[q] \cap Peers = g.groups[i] \ {q}
      <4>. SUFFICES ASSUME g.groups[i] # {q} PROVE s.routes[q] \cap Peers = g.groups[i] \ {q}
        OBVIOUS
      <4>1. g.routes[q] \cap Peers = g.groups[i] \ {q}  BY <1>7
      <4>2. p \notin g.groups[i]  BY <2>2
      <4>. QED  BY <3>2, <4>1, <4>2
    <3>. QED  BY <1>7, <3>1, <3>3
  <2>4. \A i \in Groups : h.groups[i] = g.groups[i] \ {p}
    BY <1>4, <2>1, <2>2 DEF SameGroups
  <2>5. \A k \in Clips : \A l \in Peers \ {p} : k \in g.routes[l] => k \in h.routes[l]
    BY <1>1, <1>4, <2>1
  <2>. QED  BY <1>4, <1>5, <1>6, <1>8, <2>1, <2>3, <2>4, <2>5 DEF GraphOk, SameGroups
<1>9. CASE g.member[p] # NoGroup
  <2>. DEFINE group == g.member[p]
              rest == s.groups[group] \ {p}
              m == [s EXCEPT !.member[p] = NoGroup, !.groups[group] = rest]
  <2>1. group \in Groups
    BY <1>3, <1>9
  <2>2. h = Rebuild(m, group)
    BY <1>9 DEF RemoveInput, s
  <2>3. m = [inputs |-> s.inputs, routes |-> s.routes,
             groups |-> [s.groups EXCEPT ![group] = rest],
             member |-> [s.member EXCEPT ![p] = NoGroup]]
    <3>. HIDE DEF rest, group
    <3>. QED  BY <1>4, MemberThenGroup, ZenonT(30)
  <2>. HIDE DEF m, group
  <2>4. /\ m \in Graphs /\ m.inputs = left \union using /\ m.routes = s.routes
        /\ m.groups = [g.groups EXCEPT ![group] = @ \ {p}]
        /\ m.member = [g.member EXCEPT ![p] = NoGroup]
    <3>1. [g.groups EXCEPT ![group] = @ \ {p}] \in [Groups -> SUBSET Peers]
      BY <1>3, <2>1
    <3>2. [g.member EXCEPT ![p] = NoGroup] \in [Peers -> Groups \union {NoGroup}]
      BY <1>3
    <3>3. /\ s.groups = g.groups /\ s.member = g.member
      BY <1>4 DEF SameGroups
    <3>. QED  BY <1>4, <1>5, <2>3, <3>1, <3>2, <3>3, GraphFields DEF Graphs
  <2>5. \A i \in Groups : m.groups[i] = g.groups[i] \ {p}
    <3>1. \A i \in Groups \ {group} : p \notin g.groups[i]
      BY <1>7 DEF group
    <3>. QED  BY <1>3, <2>1, <2>4, <3>1
  <2>6. GroupsBut(m, left, {group})
    <3>. SUFFICES ASSUME NEW i \in Groups, NEW q \in m.groups[i]
                  PROVE  /\ q \in left /\ m.member[q] = i
                         /\ i # group /\ m.groups[i] # {q} => m.routes[q] \cap Peers = m.groups[i] \ {q}
      BY DEF GroupsBut
    <3>1. q \in g.groups[i] /\ q # p
      BY <2>5
    <3>2. m.member[q] = i /\ q \in left
      BY <1>3, <1>7, <2>4, <3>1
    <3>3. ASSUME i # group, m.groups[i] # {q} PROVE m.routes[q] \cap Peers = m.groups[i] \ {q}
      <4>1. p \notin g.groups[i]
        BY <1>7, <3>3 DEF group
      <4>2. m.groups[i] = g.groups[i]
        BY <2>5, <4>1
      <4>3. g.routes[q] \cap Peers = g.groups[i] \ {q} /\ q \in Peers
        BY <1>7, <3>1, <3>3, <4>2
      <4>4. m.routes[q] = g.routes[q] \ {p}
        BY <1>4, <2>4, <3>1, <4>3
      <4>. QED  BY <4>1, <4>2, <4>3, <4>4
    <3>. QED  BY <3>2, <3>3
  <2>7. ListsOk(m, left, targets)
    BY <1>5, <1>6, <2>4 DEF ListsOk
  <2>8. Owing(m, left, using, targets, {group})
    BY <2>4, <2>6, <2>7 DEF Owing
  <2>9. Owing(h, left, using, targets, {group} \ {group}) /\ SameGroups(m, h)
    BY <2>1, <2>2, <2>8, RebuildOk
  <2>10. GraphOk(h, left, using, targets)
    <3>1. {group} \ {group} = {}  OBVIOUS
    <3>. QED  BY <2>9, <3>1, NothingOwed
  <2>. QED  BY <1>3, <1>9, <2>4, <2>5, <2>9, <2>10 DEF SameGroups
<1>. QED  BY <1>8, <1>9

\* What the lists of a graph allow is kept by any other that has the same lists.
LEMMA SameLists ==
    ASSUME NEW g, NEW registered, NEW using, NEW targets, GraphOk(g, registered, using, targets),
           NEW m \in Graphs, m.inputs = g.inputs, m.routes = g.routes
    PROVE  m.inputs = registered \union using /\ ListsOk(m, registered, targets)
BY DEF GraphOk, ListsOk

\* set_group_members: the members leave the groups they were in, and those hear one
\* another without them.
LEMMA SetGroupMembersOk ==
    ASSUME NEW g, NEW registered \in SUBSET Peers, NEW using \in SUBSET Clips, NEW targets,
           GraphOk(g, registered, using, targets), NEW group \in Groups, NEW members \in SUBSET registered
    PROVE  LET h == SetGroupMembers(g, group, members)
           IN  /\ GraphOk(h, registered, using, targets)
               /\ \A i \in Groups : h.groups[i] = IF i = group THEN members ELSE g.groups[i] \ members
<1>. SUFFICES ASSUME NEW h, h = SetGroupMembers(g, group, members)
              PROVE  /\ GraphOk(h, registered, using, targets)
                     /\ \A i \in Groups : h.groups[i] = IF i = group THEN members ELSE g.groups[i] \ members
  OBVIOUS
<1>. DEFINE old == {g.member[p] : p \in members} \ {NoGroup, group}
            places == [p \in Peers |-> IF p \in members THEN group ELSE g.member[p]]
            sets == [i \in Groups |-> IF i \in old THEN g.groups[i] \ members ELSE g.groups[i]]
            moved == [g EXCEPT !.member = places, !.groups = sets]
            each == RebuildEach(moved, old)
            filled == [each EXCEPT !.groups[group] = members]
<1>1. g \in Graphs /\ NoGroup \notin Groups
  BY RoutingAssumption DEF GraphOk
<1>2. /\ \A i \in Groups : g.groups[i] \subseteq Peers
      /\ g.member \in [Peers -> Groups \union {NoGroup}] /\ g.groups \in [Groups -> SUBSET Peers]
      /\ g.routes \in [Peers -> SUBSET (Peers \union Clips)] /\ g.inputs \in SUBSET (Peers \union Clips)
  BY <1>1, GraphFields
<1>3. h = Rebuild(filled, group)
  BY DEF SetGroupMembers
<1>4. ASSUME NEW i \in Groups, NEW q \in g.groups[i]
      PROVE  /\ q \in registered /\ q \in Peers /\ g.member[q] = i
             /\ g.groups[i] # {q} => g.routes[q] \cap Peers = g.groups[i] \ {q}
  BY DEF GraphOk, GroupsOk
<1>5. old \in SUBSET Groups
  BY <1>2
<1>6. ASSUME NEW i \in Groups, i # group, i \notin old PROVE g.groups[i] \cap members = {}
  <2>1. ASSUME NEW q \in g.groups[i] PROVE q \notin members
    BY <1>1, <1>4, <1>6
  <2>. QED  BY <2>1
<1>7. moved = [inputs |-> g.inputs, routes |-> g.routes, groups |-> sets, member |-> places]
  <2>. HIDE DEF sets, places
  <2>. QED  BY <1>1, BothSet
<1>8. /\ places \in [Peers -> Groups \union {NoGroup}]
      /\ sets \in [Groups -> SUBSET Peers]
  BY <1>2
<1>9. /\ \A p \in Peers : places[p] = IF p \in members THEN group ELSE g.member[p]
      /\ \A i \in Groups : sets[i] = IF i \in old THEN g.groups[i] \ members ELSE g.groups[i]
  OBVIOUS
<1>. HIDE DEF moved, sets, places, old
<1>10. /\ moved \in Graphs /\ moved.inputs = g.inputs /\ moved.routes = g.routes
       /\ moved.groups = sets /\ moved.member = places
  BY <1>2, <1>7, <1>8 DEF Graphs
<1>11. \A i \in Groups : i # group => sets[i] = g.groups[i] \ members
  BY <1>6, <1>9
<1>12. GroupsBut(moved, registered, old \union {group})
  <2>. SUFFICES ASSUME NEW i \in Groups, NEW q \in sets[i]
                PROVE  /\ q \in registered /\ places[q] = i
                       /\ i \notin old \union {group} /\ sets[i] # {q} =>
                            g.routes[q] \cap Peers = sets[i] \ {q}
    BY <1>10 DEF GroupsBut
  <2>1. q \in g.groups[i]
    BY <1>9
  <2>2. q \in registered /\ q \in Peers /\ g.member[q] = i
    BY <1>4, <2>1
  <2>3. places[q] = i
    BY <1>9, <1>11, <2>2
  <2>4. i \notin old => sets[i] = g.groups[i]
    BY <1>9
  <2>. QED  BY <1>4, <2>1, <2>2, <2>3, <2>4
<1>13. Owing(moved, registered, using, targets, old \union {group})
  <2>1. moved.inputs = registered \union using /\ ListsOk(moved, registered, targets)
    BY <1>10, SameLists
  <2>. QED  BY <1>10, <1>12, <2>1 DEF Owing
<1>14. /\ Owing(each, registered, using, targets, (old \union {group}) \ old) /\ SameGroups(moved, each)
  BY <1>5, <1>13, RebuildEachOk
<1>. HIDE DEF each
<1>15. /\ each \in Graphs /\ each.groups = sets /\ each.member = places
       /\ each.inputs = registered \union using /\ ListsOk(each, registered, targets)
  BY <1>10, <1>14 DEF Owing, SameGroups
<1>16. filled = [inputs |-> each.inputs, routes |-> each.routes,
                 groups |-> [each.groups EXCEPT ![group] = members], member |-> each.member]
  BY <1>15, GroupSet, ZenonT(30)
<1>. HIDE DEF filled
<1>17. /\ filled \in Graphs /\ filled.inputs = each.inputs /\ filled.routes = each.routes
       /\ filled.groups = [sets EXCEPT ![group] = members] /\ filled.member = places
  <2>1. [sets EXCEPT ![group] = members] \in [Groups -> SUBSET Peers]
    BY <1>8
  <2>2. /\ each.inputs \in SUBSET (Peers \union Clips)
        /\ each.routes \in [Peers -> SUBSET (Peers \union Clips)]
    BY <1>15, GraphFields
  <2>. QED  BY <1>8, <1>15, <1>16, <2>1, <2>2 DEF Graphs
<1>18. \A i \in Groups : filled.groups[i] = IF i = group THEN members ELSE sets[i]
  BY <1>8, <1>17
<1>19. GroupsBut(filled, registered, {group})
  <2>. SUFFICES ASSUME NEW i \in Groups, NEW q \in filled.groups[i]
                PROVE  /\ q \in registered /\ places[q] = i
                       /\ i # group /\ filled.groups[i] # {q} =>
                            each.routes[q] \cap Peers = filled.groups[i] \ {q}
    BY <1>17 DEF GroupsBut
  <2>1. CASE i = group
    BY <1>9, <1>18, <2>1
  <2>2. CASE i # group
    <3>1. filled.groups[i] = sets[i]
      BY <1>18, <2>2
    <3>2. i \notin (old \union {group}) \ old
      BY <2>2
    <3>3. /\ q \in registered /\ each.member[q] = i
          /\ each.groups[i] # {q} => each.routes[q] \cap Peers = each.groups[i] \ {q}
      <4>1. q \in each.groups[i]
        BY <1>15, <3>1
      <4>. QED  BY <1>14, <3>2, <4>1 DEF Owing, GroupsBut
    <3>. QED  BY <1>15, <3>1, <3>3
  <2>. QED  BY <2>1, <2>2
<1>20. Owing(filled, registered, using, targets, {group})
  <2>1. ListsOk(filled, registered, targets)
    BY <1>15, <1>17 DEF ListsOk
  <2>. QED  BY <1>15, <1>17, <1>19, <2>1 DEF Owing
<1>21. Owing(h, registered, using, targets, {group} \ {group}) /\ SameGroups(filled, h)
  BY <1>3, <1>20, RebuildOk
<1>22. GraphOk(h, registered, using, targets)
  <2>1. {group} \ {group} = {}  OBVIOUS
  <2>. QED  BY <1>21, <2>1, NothingOwed
<1>. QED  BY <1>11, <1>18, <1>21, <1>22 DEF SameGroups

\* move_to_group.
InGroup(g, h, p, group) ==
    \A i \in Groups : h.groups[i] = IF i = group THEN g.groups[i] \union {p} ELSE g.groups[i] \ {p}
LEMMA MoveToGroupOk ==
    ASSUME NEW g, NEW registered \in SUBSET Peers, NEW using \in SUBSET Clips, NEW targets,
           GraphOk(g, registered, using, targets), NEW group \in Groups, NEW p \in Peers, p \in registered
    PROVE  /\ GraphOk(MoveToGroup(g, p, group), registered, using, targets)
           /\ InGroup(g, MoveToGroup(g, p, group), p, group)
<1>. SUFFICES ASSUME NEW h, h = MoveToGroup(g, p, group)
              PROVE  GraphOk(h, registered, using, targets) /\ InGroup(g, h, p, group)
  OBVIOUS
<1>. USE DEF InGroup
<1>. DEFINE old == g.member[p]
            rest == g.groups[old] \ {p}
            out == IF old = NoGroup THEN g ELSE [g EXCEPT !.groups[old] = rest]
            more == out.groups[group] \union {p}
            moved == [out EXCEPT !.groups[group] = more, !.member[p] = group]
<1>1. g \in Graphs /\ NoGroup \notin Groups
  BY RoutingAssumption DEF GraphOk
<1>2. /\ \A i \in Groups : g.groups[i] \subseteq Peers
      /\ g.member \in [Peers -> Groups \union {NoGroup}] /\ g.groups \in [Groups -> SUBSET Peers]
      /\ g.routes \in [Peers -> SUBSET (Peers \union Clips)] /\ g.inputs \in SUBSET (Peers \union Clips)
  BY <1>1, GraphFields
<1>3. h = Rebuild(IF old \in {NoGroup, group} THEN moved ELSE Rebuild(moved, old), group)
  BY DEF MoveToGroup
<1>4. ASSUME NEW i \in Groups, NEW q \in g.groups[i]
      PROVE  /\ q \in registered /\ q \in Peers /\ g.member[q] = i
             /\ g.groups[i] # {q} => g.routes[q] \cap Peers = g.groups[i] \ {q}
  BY DEF GraphOk, GroupsOk
<1>5. old \in Groups \union {NoGroup}
  BY <1>2
<1>6. /\ out.inputs = g.inputs /\ out.routes = g.routes /\ out.member = g.member
      /\ out.groups \in [Groups -> SUBSET Peers] /\ out \in Graphs
      /\ \A i \in Groups : out.groups[i] = IF i = old THEN g.groups[i] \ {p} ELSE g.groups[i]
  <2>1. CASE old = NoGroup
    BY <1>1, <1>2, <2>1
  <2>2. CASE old # NoGroup
    <3>. HIDE DEF rest
    <3>1. out = [inputs |-> g.inputs, routes |-> g.routes,
                 groups |-> [g.groups EXCEPT ![old] = rest], member |-> g.member]
      <4>1. out = [g EXCEPT !.groups[old] = rest]
        BY <2>2
      <4>. HIDE DEF out, old
      <4>. QED  BY <1>1, <4>1, GroupSet, ZenonT(30)
    <3>. HIDE DEF out, old
    <3>2. [g.groups EXCEPT ![old] = rest] \in [Groups -> SUBSET Peers]
      BY <1>2, <1>5, <2>2 DEF rest
    <3>3. \A i \in Groups : out.groups[i] = IF i = old THEN g.groups[i] \ {p} ELSE g.groups[i]
      BY <1>2, <3>1 DEF rest
    <3>. QED  BY <1>2, <3>1, <3>2, <3>3 DEF Graphs
  <2>. QED  BY <2>1, <2>2
<1>. HIDE DEF out
<1>7. moved = [inputs |-> out.inputs, routes |-> out.routes,
               groups |-> [out.groups EXCEPT ![group] = more], member |-> [out.member EXCEPT ![p] = group]]
  <2>. DEFINE m == [out EXCEPT !.groups[group] = more]
              sets == [out.groups EXCEPT ![group] = more]
  <2>. HIDE DEF more
  <2>1. moved = [m EXCEPT !.member[p] = group]
    OBVIOUS
  <2>2. m = [inputs |-> out.inputs, routes |-> out.routes, groups |-> sets, member |-> out.member]
    BY <1>6 DEF Graphs
  <2>. HIDE DEF m, sets, moved
  <2>3. [m EXCEPT !.member[p] = group] = [inputs |-> out.inputs, routes |-> out.routes, groups |-> sets,
                                          member |-> [out.member EXCEPT ![p] = group]]
    BY <2>2
  <2>. QED  BY <2>1, <2>3 DEF sets
<1>. HIDE DEF moved
<1>8. p \in Peers  OBVIOUS
<1>9. /\ moved \in Graphs /\ moved.inputs = g.inputs /\ moved.routes = g.routes
      /\ \A i \in Groups : moved.groups[i] = IF i = group THEN out.groups[i] \union {p} ELSE out.groups[i]
      /\ \A q \in Peers : moved.member[q] = IF q = p THEN group ELSE g.member[q]
  <2>1. [out.groups EXCEPT ![group] = more] \in [Groups -> SUBSET Peers]
    BY <1>6, <1>8
  <2>2. [out.member EXCEPT ![p] = group] \in [Peers -> Groups \union {NoGroup}]
    BY <1>2, <1>6
  <2>. QED  BY <1>2, <1>6, <1>7, <2>1, <2>2 DEF Graphs
<1>10. ASSUME NEW i \in Groups, i # old PROVE p \notin g.groups[i]
  BY <1>4, <1>10
<1>11. \A i \in Groups : moved.groups[i] = IF i = group THEN g.groups[i] \union {p} ELSE g.groups[i] \ {p}
  <2>. TAKE i \in Groups
  <2>1. CASE i = old
    BY <1>6, <1>9, <2>1
  <2>2. CASE i # old
    <3>1. g.groups[i] \ {p} = g.groups[i]
      BY <1>10, <2>2
    <3>. QED  BY <1>6, <1>9, <2>2, <3>1
  <2>. QED  BY <2>1, <2>2
<1>. HIDE DEF old
<1>12. GroupsBut(moved, registered, {old, group})
  <2>. SUFFICES ASSUME NEW i \in Groups, NEW q \in moved.groups[i]
                PROVE  /\ q \in registered /\ moved.member[q] = i
                       /\ i \notin {old, group} /\ moved.groups[i] # {q} =>
                            moved.routes[q] \cap Peers = moved.groups[i] \ {q}
    BY DEF GroupsBut
  <2>1. CASE q = p
    <3>1. i = group
      BY <1>11, <2>1
    <3>. QED  BY <1>8, <1>9, <2>1, <3>1
  <2>2. CASE q # p
    <3>1. q \in g.groups[i]
      BY <1>11, <2>2
    <3>2. q \in registered /\ q \in Peers /\ g.member[q] = i
      BY <1>4, <3>1
    <3>3. i \notin {old, group} => moved.groups[i] = g.groups[i]
      BY <1>10, <1>11
    <3>. QED  BY <1>4, <1>9, <2>2, <3>1, <3>2, <3>3
  <2>. QED  BY <2>1, <2>2
<1>13. Owing(moved, registered, using, targets, {old, group})
  <2>1. moved.inputs = registered \union using /\ ListsOk(moved, registered, targets)
    BY <1>9, SameLists
  <2>. QED  BY <1>9, <1>12, <2>1 DEF Owing
<1>14. PICK m : /\ m = IF old \in {NoGroup, group} THEN moved ELSE Rebuild(moved, old)
                /\ Owing(m, registered, using, targets, {group}) /\ m.groups = moved.groups
  <2>1. CASE old \in {NoGroup, group}
    <3>1. GroupsBut(moved, registered, {group})
      <4>1. \A i \in Groups : i \notin {group} => i \notin {old, group}
        BY <1>1, <2>1
      <4>. QED  BY <1>12, <4>1 DEF GroupsBut
    <3>. QED  BY <1>13, <2>1, <3>1 DEF Owing
  <2>2. CASE old \notin {NoGroup, group}
    <3>1. old \in Groups /\ {old, group} \ {old} = {group}
      BY <1>5, <2>2
    <3>2. Owing(Rebuild(moved, old), registered, using, targets, {group}) /\ SameGroups(moved, Rebuild(moved, old))
      BY <1>13, <3>1, RebuildOk
    <3>. QED  BY <2>2, <3>2 DEF SameGroups
  <2>. QED  BY <2>1, <2>2
<1>15. h = Rebuild(m, group)
  BY <1>3, <1>14
<1>16. Owing(h, registered, using, targets, {group} \ {group}) /\ SameGroups(m, h)
  BY <1>14, <1>15, RebuildOk
<1>17. GraphOk(h, registered, using, targets)
  <2>1. {group} \ {group} = {}  OBVIOUS
  <2>. QED  BY <1>16, <2>1, NothingOwed
<1>. QED  BY <1>11, <1>14, <1>16, <1>17 DEF SameGroups

\* remove_from_group.
LEMMA RemoveFromGroupOk ==
    ASSUME NEW g, NEW registered \in SUBSET Peers, NEW using \in SUBSET Clips, NEW targets,
           GraphOk(g, registered, using, targets), NEW p \in Peers
    PROVE  LET h == RemoveFromGroup(g, p)
           IN  /\ GraphOk(h, registered, using, targets)
               /\ \A i \in Groups : h.groups[i] = g.groups[i] \ {p}
<1>. SUFFICES ASSUME NEW h, h = RemoveFromGroup(g, p)
              PROVE  /\ GraphOk(h, registered, using, targets)
                     /\ \A i \in Groups : h.groups[i] = g.groups[i] \ {p}
  OBVIOUS
<1>. DEFINE old == g.member[p]
            rest == g.groups[old] \ {p}
            m == [g EXCEPT !.groups[old] = rest, !.member[p] = NoGroup, !.routes[p] = {}]
<1>1. g \in Graphs /\ NoGroup \notin Groups
  BY RoutingAssumption DEF GraphOk
<1>2. /\ \A i \in Groups : g.groups[i] \subseteq Peers
      /\ g.member \in [Peers -> Groups \union {NoGroup}] /\ g.groups \in [Groups -> SUBSET Peers]
      /\ g.routes \in [Peers -> SUBSET (Peers \union Clips)] /\ g.inputs \in SUBSET (Peers \union Clips)
  BY <1>1, GraphFields
<1>3. ASSUME NEW i \in Groups, NEW q \in g.groups[i]
      PROVE  /\ q \in registered /\ q \in Peers /\ g.member[q] = i
             /\ g.groups[i] # {q} => g.routes[q] \cap Peers = g.groups[i] \ {q}
  BY DEF GraphOk, GroupsOk
<1>4. ASSUME NEW i \in Groups, i # old PROVE p \notin g.groups[i]
  BY <1>3, <1>4
<1>5. CASE old = NoGroup
  <2>1. h = g
    BY <1>5 DEF RemoveFromGroup
  <2>2. \A i \in Groups : g.groups[i] \ {p} = g.groups[i]
    <3>. TAKE i \in Groups
    <3>1. p \notin g.groups[i]
      BY <1>1, <1>4, <1>5
    <3>. QED  BY <3>1
  <2>. QED  BY <2>1, <2>2
<1>6. CASE old # NoGroup
  <2>1. h = Rebuild(m, old) /\ old \in Groups
    BY <1>2, <1>6 DEF RemoveFromGroup
  <2>2. m = [inputs |-> g.inputs, routes |-> [g.routes EXCEPT ![p] = {}],
             groups |-> [g.groups EXCEPT ![old] = rest], member |-> [g.member EXCEPT ![p] = NoGroup]]
    <3>. DEFINE a == [g EXCEPT !.groups[old] = rest]
                b == [a EXCEPT !.member[p] = NoGroup]
                sets == [g.groups EXCEPT ![old] = rest]
                places == [g.member EXCEPT ![p] = NoGroup]
    <3>. HIDE DEF rest, old
    <3>1. m = [b EXCEPT !.routes[p] = {}]
      OBVIOUS
    <3>2. a = [inputs |-> g.inputs, routes |-> g.routes, groups |-> sets, member |-> g.member]
      BY <1>1 DEF Graphs
    <3>. HIDE DEF a, sets, m
    <3>3. b = [inputs |-> g.inputs, routes |-> g.routes, groups |-> sets, member |-> places]
      BY <3>2
    <3>. HIDE DEF b, places
    <3>4. [b EXCEPT !.routes[p] = {}] = [inputs |-> g.inputs, routes |-> [g.routes EXCEPT ![p] = {}],
                                         groups |-> sets, member |-> places]
      BY <3>3
    <3>. QED  BY <3>1, <3>4 DEF sets, places
  <2>. HIDE DEF m
  <2>3. /\ m \in Graphs /\ m.inputs = g.inputs
        /\ \A l \in Peers : m.routes[l] = IF l = p THEN {} ELSE g.routes[l]
        /\ \A q \in Peers : m.member[q] = IF q = p THEN NoGroup ELSE g.member[q]
        /\ \A i \in Groups : m.groups[i] = IF i = old THEN g.groups[i] \ {p} ELSE g.groups[i]
    <3>. HIDE DEF old
    <3>1. [g.groups EXCEPT ![old] = rest] \in [Groups -> SUBSET Peers]
      BY <1>2, <2>1
    <3>2. [g.member EXCEPT ![p] = NoGroup] \in [Peers -> Groups \union {NoGroup}]
      BY <1>2
    <3>3. [g.routes EXCEPT ![p] = {}] \in [Peers -> SUBSET (Peers \union Clips)]
      BY <1>2
    <3>. QED  BY <1>2, <2>1, <2>2, <3>1, <3>2, <3>3 DEF Graphs
  <2>4. \A i \in Groups : m.groups[i] = g.groups[i] \ {p}
    <3>. TAKE i \in Groups
    <3>1. i # old => g.groups[i] \ {p} = g.groups[i]
      BY <1>4
    <3>. HIDE DEF old
    <3>. QED  BY <2>3, <3>1
  <2>5. GroupsBut(m, registered, {old})
    <3>. SUFFICES ASSUME NEW i \in Groups, NEW q \in m.groups[i]
                  PROVE  /\ q \in registered /\ m.member[q] = i
                         /\ i # old /\ m.groups[i] # {q} => m.routes[q] \cap Peers = m.groups[i] \ {q}
      BY DEF GroupsBut
    <3>1. q \in g.groups[i] /\ q # p
      BY <2>4
    <3>2. q \in registered /\ q \in Peers /\ g.member[q] = i
      BY <1>3, <3>1
    <3>3. i # old => m.groups[i] = g.groups[i]
      BY <2>3
    <3>4. m.routes[q] = g.routes[q] /\ m.member[q] = i
      BY <2>3, <3>1, <3>2
    <3>. HIDE DEF old
    <3>. QED  BY <1>3, <3>1, <3>2, <3>3, <3>4
  <2>6. ListsOk(m, registered, targets) /\ m.inputs = registered \union using
    BY <2>3 DEF GraphOk, ListsOk
  <2>7. Owing(m, registered, using, targets, {old})
    BY <2>3, <2>5, <2>6 DEF Owing
  <2>8. Owing(h, registered, using, targets, {old} \ {old}) /\ SameGroups(m, h)
    <3>. HIDE DEF old
    <3>. QED  BY <2>1, <2>7, RebuildOk
  <2>9. GraphOk(h, registered, using, targets)
    <3>1. {old} \ {old} = {}  OBVIOUS
    <3>. QED  BY <2>8, <3>1, NothingOwed
  <2>. QED  BY <2>4, <2>8, <2>9 DEF SameGroups
<1>. QED  BY <1>5, <1>6

-----------------------------------------------------------------------------
(* The plays of a controller that lose a target: one pass, then the loop.  *)

Accs == [g : Graphs, targets : Aims, rest : Seq(Clips)]
Without(targets, k, p) == [targets EXCEPT ![k] = @ \ {p}]

LEMMA LosesTyped ==
    ASSUME NEW acc \in Accs, NEW k \in Clips, NEW p, NEW registered \in SUBSET Peers
    PROVE  /\ LosesTarget(acc, k, p, registered) \in Accs
           /\ LosesTarget(acc, k, p, registered).targets = Without(acc.targets, k, p)
           /\ Range(LosesTarget(acc, k, p, registered).rest)
                = IF acc.targets[k] = {p} THEN Range(acc.rest) \ {k} ELSE Range(acc.rest)
<1>. DEFINE targets == Without(acc.targets, k, p)
            rest == Among(acc.rest, Clips \ {k})
            z == LosesTarget(acc, k, p, registered)
<1>1. acc.g \in Graphs /\ acc.targets \in Aims /\ acc.rest \in Seq(Clips)
  BY DEF Accs
<1>2. targets \in Aims /\ targets[k] = acc.targets[k] \ {p}
  BY <1>1 DEF Without, Aims
<1>3. rest \in Seq(Clips) /\ Range(rest) = Range(acc.rest) \ {k}
  <2>1. rest \in Seq(Clips) /\ Range(rest) = Range(acc.rest) \cap (Clips \ {k})
    BY <1>1, AmongOk
  <2>2. Range(acc.rest) \subseteq Clips
    BY <1>1 DEF Range
  <2>. QED  BY <2>1, <2>2
<1>4. /\ TeardownGraph(acc.g, k, rest, targets, registered) \in Graphs
      /\ Routed(acc.g, k, targets, registered) \in Graphs
  <2>. HIDE DEF rest, targets
  <2>. QED  BY <1>1, <1>2, <1>3, TeardownTyped, RoutedTyped
<1>5. CASE p \notin acc.targets[k]
  <2>1. z = acc
    BY <1>5 DEF LosesTarget
  <2>2. acc.targets = Without(acc.targets, k, p)
    BY <1>1, <1>5 DEF Without, Aims
  <2>. QED  BY <1>5, <2>1, <2>2
<1>6. CASE p \in acc.targets[k] /\ targets[k] = {}
  <2>1. z = [g |-> TeardownGraph(acc.g, k, rest, targets, registered), targets |-> targets, rest |-> rest]
    BY <1>6 DEF LosesTarget, Without
  <2>2. acc.targets[k] = {p}
    BY <1>2, <1>6
  <2>. HIDE DEF rest, targets
  <2>. QED  BY <1>2, <1>3, <1>4, <2>1, <2>2 DEF Accs, targets
<1>7. CASE p \in acc.targets[k] /\ targets[k] # {}
  <2>1. z = [g |-> Routed(acc.g, k, targets, registered), targets |-> targets, rest |-> acc.rest]
    BY <1>7 DEF LosesTarget, Without
  <2>2. acc.targets[k] # {p}
    BY <1>2, <1>7
  <2>. HIDE DEF rest, targets
  <2>. QED  BY <1>1, <1>2, <1>4, <2>1, <2>2 DEF Accs, targets
<1>. QED  BY <1>5, <1>6, <1>7

\* What one pass makes of the accumulator a: z.
PassOk(a, z, k, p, registered, using) ==
    /\ GraphOk(z.g, registered, IF a.targets[k] = {p} THEN using \ {k} ELSE using, z.targets)
    /\ SameGroups(a.g, z.g)
    /\ \A j \in Clips : \A l \in registered \cap z.targets[j] :
         (j # k \/ a.targets[k] # {p}) /\ j \in a.g.routes[l] => j \in z.g.routes[l]
    /\ p \in a.targets[k] /\ a.targets[k] # {p} /\ UsingMix(k) => Heard(z.g, k, registered, z.targets)
    /\ a.targets[k] = {p} /\ UsingMix(k) => \A j \in Again(z.rest) : Heard(z.g, j, registered, z.targets)

LEMMA LosesOk ==
    ASSUME NEW acc \in Accs, NEW p \in Peers, NEW registered \in SUBSET (Peers \ {p}),
           NEW using \in SUBSET Clips, GraphOk(acc.g, registered, using, acc.targets),
           NEW k \in Clips, UsingMix(k) <=> k \in using, Again(acc.rest) \subseteq using
    PROVE  PassOk(acc, LosesTarget(acc, k, p, registered), k, p, registered, using)
<1>. DEFINE z == LosesTarget(acc, k, p, registered)
<1>. DEFINE targets == Without(acc.targets, k, p)
            rest == Among(acc.rest, Clips \ {k})
<1>1. acc.g \in Graphs /\ acc.targets \in Aims /\ acc.rest \in Seq(Clips) /\ registered \in SUBSET Peers
  BY DEF Accs
<1>2. /\ targets \in Aims /\ targets[k] = acc.targets[k] \ {p}
      /\ \A j \in Clips : j # k => targets[j] = acc.targets[j]
  BY <1>1 DEF Without, Aims
<1>3. rest \in Seq(Clips) /\ Range(rest) = Range(acc.rest) \ {k}
  <2>1. rest \in Seq(Clips) /\ Range(rest) = Range(acc.rest) \cap (Clips \ {k})
    BY <1>1, AmongOk
  <2>2. Range(acc.rest) \subseteq Clips
    BY <1>1 DEF Range
  <2>. QED  BY <2>1, <2>2
<1>4. GraphOk(acc.g, registered, using, targets)
  <2>1. \A j \in using : \A l \in registered : l \in acc.targets[j] => l \in targets[j]
    BY <1>2
  <2>. HIDE DEF targets
  <2>. QED  BY <1>1, <2>1, TargetsMatter
<1>5. CASE p \notin acc.targets[k]
  <2>1. z = acc /\ acc.targets[k] # {p}
    BY <1>5 DEF LosesTarget
  <2>. HIDE DEF z
  <2>7. PassOk(acc, z, k, p, registered, using)
    BY <1>5, <2>1 DEF SameGroups, PassOk
  <2>. QED  BY <2>7 DEF z
<1>6. CASE p \in acc.targets[k] /\ targets[k] = {}
  <2>1. z = [g |-> TeardownGraph(acc.g, k, rest, targets, registered), targets |-> targets, rest |-> rest]
    BY <1>6 DEF LosesTarget, Without
  <2>2. acc.targets[k] = {p}
    BY <1>2, <1>6
  <2>3. Again(rest) \subseteq using \ {k}
    BY <1>3 DEF Again
  <2>. HIDE DEF rest, targets
  <2>. DEFINE h == TeardownGraph(acc.g, k, rest, targets, registered)
  <2>5. /\ GraphOk(h, registered, using \ {k}, targets) /\ SameGroups(acc.g, h)
        /\ \A j \in Clips \ {k} : \A l \in registered \cap targets[j] : j \in acc.g.routes[l] => j \in h.routes[l]
        /\ UsingMix(k) => \A j \in Again(rest) : Heard(h, j, registered, targets)
    BY <1>1, <1>2, <1>3, <1>4, <2>3, TeardownOk
  <2>6. z.targets = targets /\ z.rest = rest /\ z.g = h
    BY <2>1
  <2>. HIDE DEF h, z
  <2>7. PassOk(acc, z, k, p, registered, using)
    BY <2>2, <2>5, <2>6 DEF PassOk
  <2>. QED  BY <2>7 DEF z
<1>7. CASE p \in acc.targets[k] /\ targets[k] # {}
  <2>1. z = [g |-> Routed(acc.g, k, targets, registered), targets |-> targets, rest |-> acc.rest]
    BY <1>7 DEF LosesTarget, Without
  <2>2. acc.targets[k] # {p}
    BY <1>2, <1>7
  <2>. HIDE DEF rest, targets
  <2>3. /\ GraphOk(Routed(acc.g, k, targets, registered), registered, using, targets)
        /\ SameGroups(acc.g, Routed(acc.g, k, targets, registered))
        /\ KeepsTargets(acc.g, Routed(acc.g, k, targets, registered), registered, targets)
        /\ UsingMix(k) => Heard(Routed(acc.g, k, targets, registered), k, registered, targets)
    BY <1>1, <1>2, <1>4, RoutedOk
  <2>4. z.targets = targets /\ z.g = Routed(acc.g, k, targets, registered)
    BY <2>1
  <2>. HIDE DEF z
  <2>7. PassOk(acc, z, k, p, registered, using)
    BY <2>2, <2>3, <2>4 DEF KeepsTargets, PassOk
  <2>. QED  BY <2>7 DEF z
<1>. QED  BY <1>5, <1>6, <1>7

Targets == [k \in Clips |-> play[k].targets]

DisconnectPasses(f, g, p, registered, order) ==
    /\ f \in [0 .. Len(order) -> Accs]
    /\ f[0] = [g |-> g, targets |-> Targets, rest |-> order]
    /\ \A i \in 1 .. Len(order) : f[i] = LosesTarget(f[i - 1], order[i], p, registered)
    /\ AfterDisconnect(g, p, registered) = f[Len(order)]

LEMMA DisconnectRuns ==
    ASSUME NEW g \in Graphs, NEW p, NEW registered \in SUBSET Peers, Targets \in Aims,
           NEW order \in Seq(Clips), order = Playing(HostOf[p])
    PROVE  \E f : DisconnectPasses(f, g, p, registered, order)
<1>. DEFINE n == Len(order)
            acc == [g |-> g, targets |-> Targets, rest |-> order]
            pass == [i \in 1 .. n |-> [a \in Accs |-> LosesTarget(a, order[i], p, registered)]]
            step(a) == [i \in 0 .. n |-> IF i = 0 THEN acc ELSE LosesTarget(a[i - 1], order[i], p, registered)]
            after == CHOOSE a : a = step(a)
<1>1. n \in Nat /\ acc \in Accs /\ \A i \in 1 .. n : order[i] \in Clips
  BY DEF Accs
<1>2. AfterDisconnect(g, p, registered) = after[n]
  BY DEF AfterDisconnect, Targets
<1>. HIDE DEF n, acc
<1>3. \A i \in 1 .. n : \A a \in Accs : LosesTarget(a, order[i], p, registered) \in Accs
  BY <1>1, LosesTyped
<1>4. pass \in [1 .. n -> [Accs -> Accs]]
  BY <1>3
<1>5. PICK f : f \in [0 .. n -> Accs] /\ f[0] = acc /\ \A i \in 1 .. n : f[i] = pass[i][f[i - 1]]
  <2>. HIDE DEF pass
  <2>1. \E f : Loop(f, n, Accs, acc, pass)
    BY <1>1, <1>4, LoopExists
  <2>. QED  BY <2>1 DEF Loop
<1>6. \A i \in 1 .. n : f[i - 1] \in Accs /\ f[i] = LosesTarget(f[i - 1], order[i], p, registered)
  <2>. TAKE i \in 1 .. n
  <2>1. i - 1 \in 0 .. n  BY <1>1
  <2>. QED  BY <1>5, <2>1
<1>7. f = step(f)
  <2>1. \A i \in 0 .. n : f[i] = step(f)[i]
    <3>. TAKE i \in 0 .. n
    <3>1. CASE i = 0  BY <1>5, <3>1
    <3>2. CASE i # 0
      <4>1. i \in 1 .. n  BY <1>1, <3>2
      <4>. QED  BY <1>6, <3>2, <4>1
    <3>. QED  BY <3>1, <3>2
  <2>. QED  BY <1>5, <2>1
<1>8. after = step(after)
  <2>1. \E a : a = step(a)  BY <1>7
  <2>. HIDE DEF step
  <2>. QED  BY <2>1
<1>9. after[n] = f[n]
  <2>. DEFINE T == {r \in Nat : r <= n => after[r] = f[r]}
  <2>. HIDE DEF after
  <2>1. 0 \in T
    <3>1. 0 \in 0 .. n  BY <1>1
    <3>2. step(after)[0] = acc  BY <3>1
    <3>. HIDE DEF step
    <3>. QED  BY <1>5, <1>8, <3>2
  <2>2. ASSUME NEW r \in Nat, r \in T PROVE r + 1 \in T
    <3>. SUFFICES ASSUME r + 1 <= n PROVE after[r + 1] = f[r + 1]
      OBVIOUS
    <3>1. r + 1 \in 1 .. n /\ r + 1 \in 0 .. n /\ r + 1 # 0 /\ (r + 1) - 1 = r /\ after[r] = f[r]
      BY <1>1, <2>2
    <3>2. step(after)[r + 1] = LosesTarget(after[r], order[r + 1], p, registered)
      BY <3>1
    <3>. HIDE DEF step
    <3>3. after[r + 1] = LosesTarget(after[r], order[r + 1], p, registered)
      BY <1>8, <3>2
    <3>. QED  BY <1>6, <3>1, <3>3
  <2>3. n \in T
    <3>. HIDE DEF T
    <3>. QED  BY <1>1, <2>1, <2>2, Inductive
  <2>. QED  BY <1>1, <2>3
<1>. QED  BY <1>2, <1>5, <1>6, <1>9 DEF n, acc, DisconnectPasses

\* onPeerDisconnected: the plays that had no other target are over; the others of the
\* controller that the peer, or such a play, touched are heard by every target left.
Ended(order, p) == {k \in Range(order) : Targets[k] = {p}}
Settled(g, r, p, registered, using, order) ==
    /\ r.targets = [k \in Clips |-> IF k \in Range(order) THEN Targets[k] \ {p} ELSE Targets[k]]
    /\ r.targets \in Aims
    /\ Range(r.rest) = Range(order) \ Ended(order, p)
    /\ GraphOk(r.g, registered, using \ Ended(order, p), r.targets) /\ SameGroups(g, r.g)
    /\ \A k \in Clips \ Ended(order, p) : \A l \in registered \cap r.targets[k] :
         k \in g.routes[l] => k \in r.g.routes[l]
    /\ \A k \in Range(order) \ Ended(order, p) :
         UsingMix(k) /\ (p \in Targets[k] \/ \E j \in Ended(order, p) : UsingMix(j)) =>
           Heard(r.g, k, registered, r.targets)

LEMMA DisconnectOk ==
    ASSUME NEW g, NEW p \in Peers, NEW registered \in SUBSET (Peers \ {p}), NEW using \in SUBSET Clips,
           Targets \in Aims, GraphOk(g, registered, using, Targets),
           NEW order \in Seq(Clips), order = Playing(HostOf[p]), IsInjective(order),
           \A k \in Range(order) : UsingMix(k) <=> k \in using
    PROVE  Settled(g, AfterDisconnect(g, p, registered), p, registered, using, order)
<1>. SUFFICES ASSUME NEW r, r = AfterDisconnect(g, p, registered),
                     NEW over, over = Ended(order, p)
              PROVE  /\ r.targets = [k \in Clips |-> IF k \in Range(order) THEN Targets[k] \ {p} ELSE Targets[k]]
                     /\ r.targets \in Aims
                     /\ Range(r.rest) = Range(order) \ over
                     /\ GraphOk(r.g, registered, using \ over, r.targets) /\ SameGroups(g, r.g)
                     /\ \A k \in Clips \ over : \A l \in registered \cap r.targets[k] :
                          k \in g.routes[l] => k \in r.g.routes[l]
                     /\ \A k \in Range(order) \ over :
                          UsingMix(k) /\ (p \in Targets[k] \/ \E j \in over : UsingMix(j)) =>
                            Heard(r.g, k, registered, r.targets)
  BY DEF Settled
<1>. DEFINE n == Len(order)
            Firsts(i) == {order[j] : j \in 1 .. i}
            Gone(i) == {k \in Firsts(i) : Targets[k] = {p}}
            Left(i) == [k \in Clips |-> IF k \in Firsts(i) THEN Targets[k] \ {p} ELSE Targets[k]]
            Lists(i, a) == GraphOk(a.g, registered, using \ Gone(i), a.targets) /\ SameGroups(g, a.g)
            Still(i, a) == \A k \in Clips \ Gone(i) : \A l \in registered \cap a.targets[k] :
                             k \in g.routes[l] => k \in a.g.routes[l]
            Lost(i, a) == \A k \in Firsts(i) \ Gone(i) : p \in Targets[k] /\ UsingMix(k) =>
                            Heard(a.g, k, registered, a.targets)
            Beside(i, a) == (\E j \in Gone(i) : UsingMix(j)) =>
                              \A k \in Again(a.rest) : Heard(a.g, k, registered, a.targets)
            Good(i, a) == /\ a.targets = Left(i) /\ Range(a.rest) = Range(order) \ Gone(i)
                          /\ Lists(i, a) /\ Still(i, a) /\ Lost(i, a) /\ Beside(i, a)
<1>1. /\ n \in Nat /\ (\A i \in 1 .. n : order[i] \in Clips) /\ Range(order) = Firsts(n)
      /\ g \in Graphs /\ registered \in SUBSET Peers
  BY DEF Range, GraphOk
<1>2. PICK f \in [0 .. n -> Accs] :
          /\ f[0] = [g |-> g, targets |-> Targets, rest |-> order]
          /\ \A i \in 1 .. n : f[i] = LosesTarget(f[i - 1], order[i], p, registered)
          /\ r = f[n]
  <2>1. \E f : DisconnectPasses(f, g, p, registered, order)
    BY <1>1, DisconnectRuns
  <2>. QED  BY <2>1 DEF DisconnectPasses
<1>. DEFINE T == {i \in Nat : i <= n => Good(i, f[i])}
<1>3. 0 \in T
  <2>. DEFINE a == f[0]
  <2>1. Firsts(0) = {} /\ Gone(0) = {} /\ using \ {} = using
    OBVIOUS
  <2>2. a.g = g /\ a.targets = Targets /\ a.rest = order
    BY <1>2
  <2>. HIDE DEF a, Firsts
  <2>3. Left(0) = Targets
    BY <2>1 DEF Aims
  <2>4. Lists(0, a)
    BY <2>1, <2>2 DEF SameGroups
  <2>5. Still(0, a) /\ Lost(0, a) /\ Beside(0, a)
    BY <2>1, <2>2
  <2>. QED  BY <2>1, <2>2, <2>3, <2>4, <2>5 DEF a
<1>4. ASSUME NEW i \in Nat, i \in T PROVE i + 1 \in T
  <2>. SUFFICES ASSUME i + 1 <= n PROVE Good(i + 1, f[i + 1])
    OBVIOUS
  <2>. DEFINE k == order[i + 1]
              a == f[i]
              z == f[i + 1]
              F == Firsts(i)
              G == Gone(i)
              F2 == Firsts(i + 1)
              G2 == Gone(i + 1)
  <2>1. i + 1 \in 1 .. n /\ i + 1 \in 0 .. n /\ (i + 1) - 1 = i /\ i <= n /\ i \in 0 .. n
    BY <1>1
  <2>2. /\ z = LosesTarget(a, k, p, registered) /\ a \in Accs /\ z \in Accs
        /\ k \in Clips /\ k \in Range(order)
        /\ Good(i, a)
    <3>1. k \in Range(order)
      BY <2>1 DEF Range
    <3>. QED  BY <1>1, <1>2, <1>4, <2>1, <3>1
  <2>3. /\ F2 = F \union {k} /\ k \notin F
        /\ G = {j \in F : Targets[j] = {p}} /\ G2 = {j \in F2 : Targets[j] = {p}}
        /\ F \subseteq Range(order)
    <3>1. 1 .. i + 1 = 1 .. i \union {i + 1}
      OBVIOUS
    <3>2. F2 = F \union {k}
      BY <3>1
    <3>3. \A j \in 1 .. i : j \in 1 .. n /\ j # i + 1
      BY <2>1
    <3>4. \A j \in 1 .. i : order[j] # k
      BY <2>1, <3>3 DEF IsInjective
    <3>5. k \notin F
      BY <3>4
    <3>6. F \subseteq Range(order)
      BY <3>3 DEF Range
    <3>. QED  BY <3>2, <3>5, <3>6
  <2>4. /\ a.targets = [j \in Clips |-> IF j \in F THEN Targets[j] \ {p} ELSE Targets[j]]
        /\ Range(a.rest) = Range(order) \ G
        /\ GraphOk(a.g, registered, using \ G, a.targets) /\ SameGroups(g, a.g)
        /\ \A j \in Clips \ G : \A l \in registered \cap a.targets[j] : j \in g.routes[l] => j \in a.g.routes[l]
        /\ \A j \in F \ G : p \in Targets[j] /\ UsingMix(j) => Heard(a.g, j, registered, a.targets)
        /\ (\E j \in G : UsingMix(j)) => \A j \in Again(a.rest) : Heard(a.g, j, registered, a.targets)
    BY <2>2
  <2>. HIDE DEF k, a, z, F, G, F2, G2, Good, Firsts, Gone
  <2>5. a.targets[k] = Targets[k] /\ k \notin G
    BY <2>2, <2>3, <2>4
  <2>6. /\ UsingMix(k) <=> k \in using \ G
        /\ Again(a.rest) \subseteq using \ G
        /\ using \ G \in SUBSET Clips
    BY <2>2, <2>4, <2>5 DEF Again
  <2>7. /\ z.targets = Without(a.targets, k, p)
        /\ Range(z.rest) = IF a.targets[k] = {p} THEN Range(a.rest) \ {k} ELSE Range(a.rest)
    BY <1>1, <2>2, LosesTyped
  <2>8. /\ GraphOk(z.g, registered, IF a.targets[k] = {p} THEN (using \ G) \ {k} ELSE using \ G, z.targets)
        /\ SameGroups(a.g, z.g)
        /\ \A j \in Clips : \A l \in registered \cap z.targets[j] :
             (j # k \/ a.targets[k] # {p}) /\ j \in a.g.routes[l] => j \in z.g.routes[l]
        /\ p \in a.targets[k] /\ a.targets[k] # {p} /\ UsingMix(k) => Heard(z.g, k, registered, z.targets)
        /\ a.targets[k] = {p} /\ UsingMix(k) => \A j \in Again(z.rest) : Heard(z.g, j, registered, z.targets)
    <3>1. GraphOk(a.g, registered, using \ G, a.targets)
      BY <2>4
    <3>. QED  BY <2>2, <2>6, <3>1, LosesOk DEF PassOk
  <2>9. G2 = IF a.targets[k] = {p} THEN G \union {k} ELSE G
    BY <2>3, <2>5
  <2>10. z.targets = [j \in Clips |-> IF j \in F2 THEN Targets[j] \ {p} ELSE Targets[j]]
    <3>1. Without(a.targets, k, p) = [j \in Clips |-> IF j \in F2 THEN Targets[j] \ {p} ELSE Targets[j]]
      <4>1. a.targets \in Aims
        BY <2>2 DEF Accs
      <4>2. \A j \in Clips : Without(a.targets, k, p)[j] = IF j \in F2 THEN Targets[j] \ {p} ELSE Targets[j]
        BY <2>2, <2>3, <2>4, <4>1 DEF Without, Aims
      <4>3. Without(a.targets, k, p) \in [Clips -> SUBSET Peers]
        BY <4>1 DEF Without, Aims
      <4>. QED  BY <4>2, <4>3
    <3>. QED  BY <2>7, <3>1
  <2>11. Range(z.rest) = Range(order) \ G2
    BY <2>4, <2>7, <2>9
  <2>12. GraphOk(z.g, registered, using \ G2, z.targets) /\ SameGroups(g, z.g)
    <3>1. using \ G2 = IF a.targets[k] = {p} THEN (using \ G) \ {k} ELSE using \ G
      BY <2>9
    <3>. QED  BY <2>4, <2>8, <3>1 DEF SameGroups
  <2>13. \A j \in Clips : z.targets[j] \subseteq a.targets[j]
    BY <2>3, <2>4, <2>10
  <2>14. ASSUME NEW j \in Clips \ G2, NEW l \in registered \cap z.targets[j], j \in a.g.routes[l]
         PROVE  j \in z.g.routes[l]
    BY <2>8, <2>9, <2>14
  <2>15. ASSUME NEW j \in Clips \ G2, Heard(a.g, j, registered, a.targets)
         PROVE  Heard(z.g, j, registered, z.targets)
    BY <2>13, <2>14, <2>15 DEF Heard, Listed
  <2>16. ASSUME NEW j \in Clips \ G2, NEW l \in registered \cap z.targets[j], j \in g.routes[l]
         PROVE  j \in z.g.routes[l]
    <3>1. j \notin G /\ l \in registered \cap a.targets[j]
      BY <2>9, <2>13
    <3>. QED  BY <2>4, <2>14, <2>16, <3>1
  <2>17. ASSUME NEW j \in F2 \ G2, p \in Targets[j], UsingMix(j)
         PROVE  Heard(z.g, j, registered, z.targets)
    <3>1. CASE j = k
      BY <2>5, <2>8, <2>9, <2>17, <3>1
    <3>2. CASE j # k
      <4>1. j \in F \ G /\ j \in Clips
        BY <1>1, <2>3, <2>9, <3>2 DEF Firsts
      <4>. QED  BY <2>4, <2>15, <2>17, <4>1
    <3>. QED  BY <3>1, <3>2
  <2>18. ASSUME \E j \in G2 : UsingMix(j), NEW q \in Again(z.rest)
         PROVE  Heard(z.g, q, registered, z.targets)
    <3>1. q \in Range(order) /\ q \notin G2 /\ UsingMix(q) /\ q \in Clips
      BY <1>1, <2>11 DEF Again, Range
    <3>2. CASE \E j \in G : UsingMix(j)
      <4>1. q \in Again(a.rest)
        BY <2>4, <2>9, <3>1 DEF Again
      <4>. QED  BY <2>4, <2>15, <3>1, <3>2, <4>1
    <3>3. CASE ~\E j \in G : UsingMix(j)
      <4>1. a.targets[k] = {p} /\ UsingMix(k)
        BY <2>9, <2>18, <3>3
      <4>. QED  BY <2>8, <2>18, <4>1
    <3>. QED  BY <3>2, <3>3
  <2>. QED  BY <2>10, <2>11, <2>12, <2>16, <2>17, <2>18 DEF Good, z, F2, G2
<1>5. n \in T
  <2>. HIDE DEF T
  <2>. QED  BY <1>1, <1>3, <1>4, Inductive
<1>6. Good(n, r) /\ r \in Accs
  <2>1. n \in 0 .. n /\ n <= n
    BY <1>1
  <2>. HIDE DEF Good, n
  <2>. QED  BY <1>2, <1>5, <2>1
<1>7. Gone(n) = over
  BY <1>1 DEF Ended
<1>8. /\ r.targets = [k \in Clips |-> IF k \in Range(order) THEN Targets[k] \ {p} ELSE Targets[k]]
      /\ Range(r.rest) = Range(order) \ over
      /\ GraphOk(r.g, registered, using \ over, r.targets) /\ SameGroups(g, r.g)
      /\ \A k \in Clips \ over : \A l \in registered \cap r.targets[k] : k \in g.routes[l] => k \in r.g.routes[l]
      /\ \A k \in Range(order) \ over : p \in Targets[k] /\ UsingMix(k) => Heard(r.g, k, registered, r.targets)
      /\ (\E j \in over : UsingMix(j)) => \A k \in Again(r.rest) : Heard(r.g, k, registered, r.targets)
  <2>. HIDE DEF Firsts, Gone
  <2>. QED  BY <1>1, <1>6, <1>7
<1>9. ASSUME NEW k \in Range(order) \ over, UsingMix(k), \E j \in over : UsingMix(j)
      PROVE  Heard(r.g, k, registered, r.targets)
  <2>1. k \in Again(r.rest)
    BY <1>8, <1>9 DEF Again
  <2>. QED  BY <1>8, <1>9, <2>1
<1>10. r.targets \in Aims
  BY <1>6 DEF Accs
<1>. QED  BY <1>8, <1>9, <1>10

-----------------------------------------------------------------------------
(* The invariant.                                                          *)

Plays == [stage : {"new", "fetching", "playing", "over"}, targets : SUBSET Peers, usesMixGraph : BOOLEAN]
Typed ==
    /\ known \in SUBSET Peers
    /\ memberGroups \in [Peers -> Groups \union {NoGroup}]
    /\ plays \in Seq(Clips) /\ IsInjective(plays)
    /\ Range(plays) = {k \in Clips : play[k].stage = "playing"}
    /\ play \in [Clips -> Plays]
    /\ routed \in [Clips -> SUBSET known]
    /\ joins \in 0 .. MaxJoins /\ moves \in 0 .. MaxMoves
Using == {k \in Clips : play[k].stage = "playing" /\ UsingMix(k)}

RouteInv ==
    /\ Typed
    /\ GraphOk(graph, known, Using, Targets)
    /\ \A p \in Peers, g \in Groups : p \in graph.groups[g] <=> memberGroups[p] = g
    /\ \A k \in Clips : play[k].stage \in {"fetching", "playing"} => play[k].targets # {}
    \* whoever was routed to a clip is on its list by name, and does not just lack a list
    /\ \A k \in Using : Listed(graph, k, routed[k] \cap play[k].targets)

LEMMA TargetsAimed == Typed => Targets \in Aims /\ Using \in SUBSET Clips
BY DEF Typed, Targets, Aims, Using, Plays

LEMMA InitRoute == Init => RouteInv
<1>. SUFFICES ASSUME Init PROVE RouteInv  OBVIOUS
<1>1. Range(plays) = {} /\ IsInjective(plays) /\ plays \in Seq(Clips)
  BY DEF Init, Range, IsInjective
<1>2. play \in [Clips -> Plays] /\ \A k \in Clips : play[k].stage = "new"
  BY DEF Init, Plays
<1>3. Typed
  BY <1>1, <1>2, RoutingAssumption DEF Init, Typed
<1>4. Using = {}
  BY <1>2 DEF Using
<1>5. graph \in Graphs /\ graph.inputs = known \union {}
  BY DEF Init, Graphs
<1>6. ListsOk(graph, known, Targets) /\ GroupsOk(graph, known)
  BY DEF Init, ListsOk, GroupsOk
<1>7. \A p \in Peers, g \in Groups : p \in graph.groups[g] <=> memberGroups[p] = g
  BY RoutingAssumption DEF Init
<1>. QED  BY <1>2, <1>3, <1>4, <1>5, <1>6, <1>7 DEF RouteInv, GraphOk

LEMMA RegisterKeeps ==
    ASSUME RouteInv, NEW p \in Peers, Register(p)
    PROVE  RouteInv'
<1>1. Typed /\ GraphOk(graph, known, Using, Targets)
  BY DEF RouteInv
<1>2. /\ graph' = AddInput(graph, p) /\ known' = known \union {p}
      /\ memberGroups' = memberGroups /\ plays' = plays /\ play' = play /\ routed' = routed
      /\ joins' = joins + 1 /\ joins < MaxJoins /\ moves' = moves
  BY DEF Register
<1>3. Using' = Using /\ Targets' = Targets
  BY <1>2 DEF Using, Targets, UsingMix
<1>4. GraphOk(graph', known', Using', Targets') /\ graph'.routes = graph.routes /\ SameGroups(graph, graph')
  BY <1>1, <1>2, <1>3, TargetsAimed, InputAdded DEF Typed
<1>5. Typed'
  BY <1>1, <1>2, RoutingAssumption DEF Typed
<1>6. \A k \in Using' : Listed(graph', k, routed'[k] \cap play'[k].targets)
  BY <1>2, <1>3, <1>4 DEF RouteInv, Listed
<1>. QED  BY <1>2, <1>4, <1>5, <1>6 DEF RouteInv, SameGroups

\* A group operation that leaves the lists fit, and the members where memberGroups has them.
LEMMA GroupChangeKeeps ==
    ASSUME RouteInv, NEW g, GroupChange(g), GraphOk(g, known, Using, Targets),
           UNCHANGED <<known, plays, play, joins>>, moves < MaxMoves, moves' = moves + 1,
           memberGroups' \in [Peers -> Groups \union {NoGroup}],
           \A q \in Peers, h \in Groups : q \in g.groups[h] <=> memberGroups'[q] = h
    PROVE  RouteInv'
<1>1. Typed
  BY DEF RouteInv
<1>2. graph' = g /\ routed' = IF g = graph THEN routed ELSE [k \in Clips |-> {}]
  BY DEF GroupChange
<1>3. Using' = Using /\ Targets' = Targets
  BY DEF Using, Targets, UsingMix
<1>4. GraphOk(graph', known', Using', Targets')
  BY <1>2, <1>3
<1>5. routed' \in [Clips -> SUBSET known]
  BY <1>1, <1>2 DEF Typed
<1>6. Typed'
  BY <1>1, <1>5, RoutingAssumption DEF Typed
<1>7. \A k \in Using' : Listed(graph', k, routed'[k] \cap play'[k].targets)
  <2>1. CASE g = graph
    BY <1>2, <1>3, <2>1 DEF RouteInv
  <2>2. CASE g # graph
    <3>1. \A k \in Clips : routed'[k] = {}
      BY <1>2, <2>2
    <3>. QED  BY <1>3, <3>1 DEF Listed, Using
  <2>. QED  BY <2>1, <2>2
<1>. QED  BY <1>2, <1>4, <1>6, <1>7 DEF RouteInv

LEMMA GroupOperationsKeep ==
    ASSUME RouteInv
    PROVE  /\ \A g \in Groups, members \in SUBSET Peers : CreateMixGroup(g, members) => RouteInv'
           /\ \A g \in Groups, p \in Peers : AddClientToMix(g, p) => RouteInv'
           /\ \A p \in Peers : RemoveClientFromMix(p) => RouteInv'
<1>1. /\ known \in SUBSET Peers /\ Using \in SUBSET Clips /\ GraphOk(graph, known, Using, Targets)
      /\ memberGroups \in [Peers -> Groups \union {NoGroup}] /\ NoGroup \notin Groups
      /\ \A q \in Peers, h \in Groups : q \in graph.groups[h] <=> memberGroups[q] = h
      /\ \A h \in Groups : graph.groups[h] \subseteq Peers
  BY TargetsAimed, RoutingAssumption, GraphFields DEF RouteInv, Typed, GraphOk
<1>2. ASSUME NEW g \in Groups, NEW members \in SUBSET Peers, CreateMixGroup(g, members)
      PROVE  RouteInv'
  <2>. DEFINE h == SetGroupMembers(graph, g, members)
  <2>1. /\ members \in SUBSET known /\ GroupChange(h) /\ UNCHANGED <<known, plays, play, joins>>
        /\ moves < MaxMoves /\ moves' = moves + 1
        /\ memberGroups' = [p \in Peers |-> IF p \in members THEN g
                              ELSE IF memberGroups[p] = g THEN NoGroup ELSE memberGroups[p]]
    BY <1>2 DEF CreateMixGroup
  <2>2. /\ GraphOk(h, known, Using, Targets)
        /\ \A i \in Groups : h.groups[i] = IF i = g THEN members ELSE graph.groups[i] \ members
    BY <1>1, <2>1, SetGroupMembersOk
  <2>. HIDE DEF h
  <2>3. memberGroups' \in [Peers -> Groups \union {NoGroup}]
    BY <1>1, <2>1
  <2>4. \A q \in Peers, i \in Groups : q \in h.groups[i] <=> memberGroups'[q] = i
    <3>. TAKE q \in Peers, i \in Groups
    <3>1. q \in graph.groups[i] <=> memberGroups[q] = i
      BY <1>1
    <3>2. memberGroups'[q] = IF q \in members THEN g
                             ELSE IF memberGroups[q] = g THEN NoGroup ELSE memberGroups[q]
      BY <2>1
    <3>3. h.groups[i] = IF i = g THEN members ELSE graph.groups[i] \ members
      BY <2>2
    <3>4. CASE i = g
      BY <1>1, <3>1, <3>2, <3>3, <3>4
    <3>5. CASE i # g
      <4>1. h.groups[i] = graph.groups[i] \ members
        BY <3>3, <3>5
      <4>2. CASE q \in members
        BY <3>2, <3>5, <4>1, <4>2
      <4>3. CASE q \notin members
        BY <1>1, <3>1, <3>2, <3>5, <4>1, <4>3
      <4>. QED  BY <4>2, <4>3
    <3>. QED  BY <3>4, <3>5
  <2>. QED  BY <2>1, <2>2, <2>3, <2>4, GroupChangeKeeps
<1>3. ASSUME NEW g \in Groups, NEW p \in Peers, AddClientToMix(g, p)
      PROVE  RouteInv'
  <2>. DEFINE h == MoveToGroup(graph, p, g)
  <2>1. /\ p \in known /\ GroupChange(h) /\ UNCHANGED <<known, plays, play, joins>>
        /\ moves < MaxMoves /\ moves' = moves + 1
        /\ memberGroups' = [memberGroups EXCEPT ![p] = g]
    BY <1>3 DEF AddClientToMix
  <2>2. /\ GraphOk(h, known, Using, Targets)
        /\ \A i \in Groups : h.groups[i] = IF i = g THEN graph.groups[i] \union {p} ELSE graph.groups[i] \ {p}
    <3>1. p \in known /\ known \in SUBSET Peers /\ Using \in SUBSET Clips
          /\ GraphOk(graph, known, Using, Targets)
      BY <1>1, <2>1
    <3>2. GraphOk(h, known, Using, Targets) /\ InGroup(graph, h, p, g)
      BY <3>1, MoveToGroupOk
    <3>. QED  BY <3>2 DEF InGroup
  <2>. HIDE DEF h
  <2>3. memberGroups' \in [Peers -> Groups \union {NoGroup}]
    BY <1>1, <2>1
  <2>4. \A q \in Peers, i \in Groups : q \in h.groups[i] <=> memberGroups'[q] = i
    <3>. TAKE q \in Peers, i \in Groups
    <3>1. q \in graph.groups[i] <=> memberGroups[q] = i
      BY <1>1
    <3>2. memberGroups'[q] = IF q = p THEN g ELSE memberGroups[q]
      BY <1>1, <2>1
    <3>3. h.groups[i] = IF i = g THEN graph.groups[i] \union {p} ELSE graph.groups[i] \ {p}
      BY <2>2
    <3>4. CASE i = g
      BY <1>1, <3>1, <3>2, <3>3, <3>4
    <3>5. CASE i # g
      BY <1>1, <3>1, <3>2, <3>3, <3>5
    <3>. QED  BY <3>4, <3>5
  <2>. QED  BY <2>1, <2>2, <2>3, <2>4, GroupChangeKeeps
<1>4. ASSUME NEW p \in Peers, RemoveClientFromMix(p)
      PROVE  RouteInv'
  <2>. DEFINE h == RemoveFromGroup(graph, p)
  <2>1. /\ p \in known /\ GroupChange(h) /\ UNCHANGED <<known, plays, play, joins>>
        /\ moves < MaxMoves /\ moves' = moves + 1
        /\ memberGroups' = [memberGroups EXCEPT ![p] = NoGroup]
    BY <1>4 DEF RemoveClientFromMix
  <2>2. /\ GraphOk(h, known, Using, Targets)
        /\ \A i \in Groups : h.groups[i] = graph.groups[i] \ {p}
    BY <1>1, <2>1, RemoveFromGroupOk
  <2>. HIDE DEF h
  <2>3. memberGroups' \in [Peers -> Groups \union {NoGroup}]
    BY <1>1, <2>1
  <2>4. \A q \in Peers, i \in Groups : q \in h.groups[i] <=> memberGroups'[q] = i
    <3>. TAKE q \in Peers, i \in Groups
    <3>1. q \in graph.groups[i] <=> memberGroups[q] = i
      BY <1>1
    <3>. QED  BY <1>1, <2>1, <2>2, <3>1
  <2>. QED  BY <2>1, <2>2, <2>3, <2>4, GroupChangeKeeps
<1>. QED  BY <1>2, <1>3, <1>4

\* The plays of a controller, and their clips.
LEMMA PlayingOf ==
    ASSUME Typed, NEW controller
    PROVE  /\ Playing(controller) \in Seq(Clips) /\ IsInjective(Playing(controller))
           /\ Range(Playing(controller)) \subseteq {k \in Clips : play[k].stage = "playing"}
           /\ \A k \in Range(Playing(controller)) : UsingMix(k) <=> k \in Using
<1>1. /\ plays \in Seq(Clips) /\ IsInjective(plays)
      /\ Range(plays) = {k \in Clips : play[k].stage = "playing"}
  BY DEF Typed
<1>2. /\ Playing(controller) \in Seq(Clips) /\ IsInjective(Playing(controller))
      /\ Range(Playing(controller)) = Range(plays) \cap {k \in Clips : HostOf[k] = controller}
  BY <1>1, AmongOk DEF Playing
<1>. QED  BY <1>1, <1>2 DEF Using

LEMMA DisconnectKeeps ==
    ASSUME RouteInv, NEW p \in Peers, Disconnect(p)
    PROVE  RouteInv'
<1>. DEFINE left == known \ {p}
            gone == RemoveInput(graph, p)
            order == Playing(HostOf[p])
            r == AfterDisconnect(gone, p, left)
            over == {k \in Range(order) : k \notin Range(r.rest)}
            again == {k \in Range(r.rest) : UsingMix(k) /\ (p \in play[k].targets \/ \E j \in over : UsingMix(j))}
            ended == {k \in Range(order) : Targets[k] = {p}}
<1>1. /\ Typed /\ GraphOk(graph, known, Using, Targets) /\ Targets \in Aims /\ Using \in SUBSET Clips
      /\ known \in SUBSET Peers /\ p \in known /\ left \in SUBSET (Peers \ {p}) /\ left \in SUBSET Peers
  BY TargetsAimed DEF RouteInv, Disconnect, Typed
<1>2. /\ GraphOk(gone, left, Using, Targets) /\ gone.member[p] = NoGroup
      /\ \A i \in Groups : gone.groups[i] = graph.groups[i] \ {p}
      /\ graph.member[p] = NoGroup =>
           \A k \in Clips : \A l \in Peers \ {p} : k \in graph.routes[l] => k \in gone.routes[l]
  <2>. HIDE DEF left
  <2>1. /\ GraphOk(gone, known \ {p}, Using, Targets) /\ gone.member[p] = NoGroup
        /\ \A i \in Groups : gone.groups[i] = graph.groups[i] \ {p}
        /\ graph.member[p] = NoGroup =>
             \A k \in Clips : \A l \in Peers \ {p} : k \in graph.routes[l] => k \in gone.routes[l]
    BY <1>1, PeerRemovedOk
  <2>. QED  BY <2>1 DEF left
<1>3. RemoveFromGroup(gone, p) = gone
  BY <1>2 DEF RemoveFromGroup
<1>4. /\ known' = left /\ memberGroups' = [memberGroups EXCEPT ![p] = NoGroup]
      /\ graph' = r.g /\ plays' = Among(plays, Clips \ over)
      /\ play' = [k \in Clips |-> [play[k] EXCEPT !.targets = r.targets[k],
                                                  !.stage = IF k \in over THEN "over" ELSE @]]
      /\ routed' = [k \in Clips |-> IF k \in again THEN left
                                    ELSE IF graph.member[p] # NoGroup THEN {} ELSE routed[k] \ {p}]
      /\ joins' = joins /\ moves' = moves
  BY <1>3 DEF Disconnect
<1>5. /\ order \in Seq(Clips) /\ IsInjective(order)
      /\ Range(order) \subseteq {k \in Clips : play[k].stage = "playing"}
      /\ \A k \in Range(order) : UsingMix(k) <=> k \in Using
  BY <1>1, PlayingOf
<1>. HIDE DEF gone
<1>6. /\ r.targets = [k \in Clips |-> IF k \in Range(order) THEN Targets[k] \ {p} ELSE Targets[k]]
      /\ r.targets \in Aims
      /\ Range(r.rest) = Range(order) \ ended
      /\ GraphOk(r.g, left, Using \ ended, r.targets) /\ SameGroups(gone, r.g)
      /\ \A k \in Clips \ ended : \A l \in left \cap r.targets[k] : k \in gone.routes[l] => k \in r.g.routes[l]
      /\ \A k \in Range(order) \ ended :
           UsingMix(k) /\ (p \in Targets[k] \/ \E j \in ended : UsingMix(j)) => Heard(r.g, k, left, r.targets)
  <2>1. Settled(gone, AfterDisconnect(gone, p, left), p, left, Using, Playing(HostOf[p]))
    <3>. HIDE DEF left
    <3>. QED  BY <1>1, <1>2, <1>5, DisconnectOk
  <2>2. order = Playing(HostOf[p]) /\ r = AfterDisconnect(gone, p, left) /\ ended = Ended(order, p)
    BY DEF Ended
  <2>. HIDE DEF order, ended, left, r
  <2>. QED  BY <2>1, <2>2 DEF Settled
<1>7. over = ended
  BY <1>6
<1>. DEFINE targets == r.targets
            h == r.g
            rest == Range(r.rest)
<1>8. targets = [k \in Clips |-> IF k \in Range(order) THEN Targets[k] \ {p} ELSE Targets[k]]
  BY <1>6
<1>9. \A k \in Clips : targets[k] \subseteq Targets[k] /\ Targets[k] = play[k].targets /\ play[k] \in Plays
  BY <1>1, <1>8 DEF Targets, Typed
<1>10. again = {k \in Range(order) \ ended : UsingMix(k) /\ (p \in Targets[k] \/ \E j \in ended : UsingMix(j))}
  <2>1. \A k \in Range(order) : Targets[k] = play[k].targets
    BY <1>5, <1>9
  <2>2. rest = Range(order) \ ended
    BY <1>6
  <2>. HIDE DEF ended, order
  <2>. QED  BY <1>7, <2>1, <2>2
<1>11. play' = [k \in Clips |-> [stage |-> IF k \in ended THEN "over" ELSE play[k].stage,
                                 targets |-> targets[k], usesMixGraph |-> play[k].usesMixGraph]]
  <2>1. \A k \in Clips : [play[k] EXCEPT !.targets = targets[k], !.stage = IF k \in over THEN "over" ELSE @]
                         = [stage |-> IF k \in ended THEN "over" ELSE play[k].stage,
                            targets |-> targets[k], usesMixGraph |-> play[k].usesMixGraph]
    <3>. TAKE k \in Clips
    <3>. DEFINE now == IF k \in over THEN "over" ELSE play[k].stage
    <3>1. play[k] \in Plays /\ now = IF k \in ended THEN "over" ELSE play[k].stage
      BY <1>7, <1>9
    <3>. HIDE DEF now, over, targets, ended
    <3>. DEFINE mid == [play[k] EXCEPT !.targets = targets[k]]
                uses == play[k].usesMixGraph
                old == play[k].stage
    <3>2. [play[k] EXCEPT !.targets = targets[k], !.stage = now] = [mid EXCEPT !.stage = now]
      OBVIOUS
    <3>3. mid = [stage |-> old, targets |-> targets[k], usesMixGraph |-> uses]
      BY <3>1 DEF Plays
    <3>. HIDE DEF mid, uses, old
    <3>4. [mid EXCEPT !.stage = now] = [stage |-> now, targets |-> targets[k], usesMixGraph |-> uses]
      BY <3>3
    <3>. QED  BY <3>1, <3>2, <3>4 DEF now, uses
  <2>. HIDE DEF over, targets, ended
  <2>. QED  BY <1>4, <2>1 DEF targets
<1>. HIDE DEF over, r, order, left
<1>12. \A k \in Clips : targets[k] \in SUBSET Peers
  BY <1>6 DEF Aims
<1>. HIDE DEF targets, ended
<1>13. /\ play' \in [Clips -> Plays]
       /\ \A k \in Clips : play'[k].targets = targets[k] /\ play'[k].usesMixGraph = play[k].usesMixGraph
       /\ \A k \in Clips : play'[k].stage = IF k \in ended THEN "over" ELSE play[k].stage
  BY <1>9, <1>11, <1>12 DEF Plays
<1>14. Targets' = targets
  BY <1>6, <1>13 DEF Targets, Aims, targets
<1>15. Using' = Using \ ended
  BY <1>13 DEF Using, UsingMix
<1>16. GraphOk(graph', known', Using', Targets')
  BY <1>4, <1>6, <1>14, <1>15 DEF targets
<1>17. /\ plays' \in Seq(Clips) /\ IsInjective(plays')
       /\ Range(plays') = {k \in Clips : play'[k].stage = "playing"}
  <2>1. /\ plays' \in Seq(Clips) /\ Range(plays') = Range(plays) \cap (Clips \ ended) /\ IsInjective(plays')
    BY <1>1, <1>4, <1>7, AmongOk DEF Typed
  <2>. QED  BY <1>1, <1>13, <2>1 DEF Typed
<1>18. routed' \in [Clips -> SUBSET left]
  BY <1>1, <1>4 DEF Typed, left
<1>19. memberGroups' \in [Peers -> Groups \union {NoGroup}]
  BY <1>1, <1>4 DEF Typed
<1>20. Typed'
  BY <1>1, <1>4, <1>13, <1>17, <1>18, <1>19 DEF Typed
<1>21. ASSUME NEW q \in Peers, NEW i \in Groups PROVE q \in graph'.groups[i] <=> memberGroups'[q] = i
  <2>1. graph'.groups[i] = graph.groups[i] \ {p}
    BY <1>2, <1>4, <1>6 DEF SameGroups
  <2>2. q \in graph.groups[i] <=> memberGroups[q] = i
    BY DEF RouteInv
  <2>3. memberGroups'[q] = IF q = p THEN NoGroup ELSE memberGroups[q]
    BY <1>1, <1>4 DEF Typed
  <2>. QED  BY <2>1, <2>2, <2>3, RoutingAssumption
<1>22. ASSUME NEW k \in Clips, play'[k].stage \in {"fetching", "playing"} PROVE play'[k].targets # {}
  <2>1. k \notin ended /\ play[k].stage \in {"fetching", "playing"}
    BY <1>13, <1>22
  <2>2. Targets[k] # {} /\ Targets[k] \in SUBSET Peers
    BY <1>9, <2>1 DEF RouteInv, Plays
  <2>3. CASE k \in Range(order)
    <3>1. Targets[k] # {p}
      BY <2>1, <2>3 DEF ended
    <3>2. targets[k] = Targets[k] \ {p} /\ k \in Clips
      BY <1>8, <1>22, <2>3
    <3>3. Targets[k] \ {p} # {}
      BY <2>2, <3>1
    <3>. QED  BY <1>13, <3>2, <3>3
  <2>4. CASE k \notin Range(order)
    BY <1>8, <1>13, <2>2, <2>4
  <2>. QED  BY <2>3, <2>4
<1>23. ASSUME NEW k \in Using' PROVE Listed(graph', k, routed'[k] \cap play'[k].targets)
  <2>1. k \in Using /\ k \notin ended /\ k \in Clips
    BY <1>15, <1>23 DEF Using
  <2>2. play'[k].targets = targets[k]
    BY <1>13, <2>1
  <2>3. CASE k \in again
    <3>1. Heard(h, k, left, targets) /\ routed'[k] = left
      <4>1. routed'[k] = left
        BY <1>4, <2>1, <2>3
      <4>2. k \in Range(order) \ ended /\ UsingMix(k) /\ (p \in Targets[k] \/ \E j \in ended : UsingMix(j))
        BY <1>10, <2>3
      <4>. QED  BY <1>6, <4>1, <4>2 DEF targets
    <3>. QED  BY <1>4, <2>2, <3>1 DEF Heard
  <2>4. CASE k \notin again /\ graph.member[p] # NoGroup
    BY <1>4, <2>1, <2>4 DEF Listed
  <2>5. CASE k \notin again /\ graph.member[p] = NoGroup
    <3>1. routed'[k] = routed[k] \ {p} /\ routed[k] \subseteq known
      BY <1>1, <1>4, <2>1, <2>5 DEF Typed
    <3>. SUFFICES ASSUME NEW l \in routed'[k] \cap targets[k] PROVE k \in h.routes[l]
      BY <1>4, <2>2 DEF Listed
    <3>2. l \in routed[k] \cap play[k].targets /\ l \in left \cap targets[k] /\ l \in Peers \ {p}
      BY <1>1, <1>9, <2>1, <3>1 DEF left
    <3>3. k \in graph.routes[l]
      BY <2>1, <3>2 DEF RouteInv, Listed
    <3>4. k \in gone.routes[l]
      BY <1>2, <2>1, <2>5, <3>2, <3>3
    <3>. QED  BY <1>6, <2>1, <3>2, <3>4 DEF targets
  <2>. QED  BY <2>3, <2>4, <2>5
<1>. QED  BY <1>16, <1>20, <1>21, <1>22, <1>23 DEF RouteInv

LEMMA PlayAudioKeeps ==
    ASSUME RouteInv, NEW k \in Clips, NEW targets \in SUBSET Peers, PlayAudio(k, targets)
    PROVE  RouteInv'
<1>1. /\ Typed /\ GraphOk(graph, known, Using, Targets) /\ Using \in SUBSET Clips /\ play[k] \in Plays
      /\ known \in SUBSET Peers
  BY TargetsAimed DEF RouteInv, Typed
<1>2. /\ play[k].stage = "new" /\ targets # {}
      /\ play' = [play EXCEPT ![k] = [@ EXCEPT !.stage = "fetching", !.targets = targets]]
      /\ UNCHANGED <<graph, known, memberGroups, plays, routed, joins, moves>>
  BY DEF PlayAudio
<1>3. [play[k] EXCEPT !.stage = "fetching", !.targets = targets] \in Plays
  BY <1>1 DEF Plays
<1>4. /\ play' \in [Clips -> Plays]
      /\ play'[k].stage = "fetching" /\ play'[k].targets = targets
      /\ \A j \in Clips \ {k} : play'[j] = play[j]
  BY <1>1, <1>2, <1>3 DEF Typed, Plays
<1>5. Using' = Using /\ k \notin Using /\ \A j \in Using : Targets'[j] = Targets[j]
  BY <1>2, <1>4 DEF Using, UsingMix, Targets
<1>6. GraphOk(graph, known, Using, Targets')
  BY <1>1, <1>5, TargetsMatter
<1>7. Typed'
  <2>1. {j \in Clips : play'[j].stage = "playing"} = {j \in Clips : play[j].stage = "playing"}
    BY <1>2, <1>4
  <2>. QED  BY <1>1, <1>2, <1>4, <2>1 DEF Typed
<1>8. \A j \in Clips : play'[j].stage \in {"fetching", "playing"} => play'[j].targets # {}
  BY <1>2, <1>4 DEF RouteInv
<1>9. \A j \in Using' : Listed(graph', j, routed'[j] \cap play'[j].targets)
  BY <1>2, <1>4, <1>5 DEF RouteInv, Using
<1>. QED  BY <1>2, <1>5, <1>6, <1>7, <1>8, <1>9 DEF RouteInv

LEMMA PlayFailsKeeps ==
    ASSUME RouteInv, NEW k \in Clips, PlayFails(k)
    PROVE  RouteInv'
<1>1. /\ Typed /\ GraphOk(graph, known, Using, Targets) /\ Using \in SUBSET Clips /\ play[k] \in Plays
      /\ known \in SUBSET Peers
  BY TargetsAimed DEF RouteInv, Typed
<1>2. /\ play[k].stage = "fetching"
      /\ play' = [play EXCEPT ![k] = [@ EXCEPT !.stage = "over", !.targets = {}]]
      /\ UNCHANGED <<graph, known, memberGroups, plays, routed, joins, moves>>
  BY DEF PlayFails
<1>3. [play[k] EXCEPT !.stage = "over", !.targets = {}] \in Plays
  BY <1>1 DEF Plays
<1>4. /\ play' \in [Clips -> Plays]
      /\ play'[k].stage = "over"
      /\ \A j \in Clips \ {k} : play'[j] = play[j]
  BY <1>1, <1>2, <1>3 DEF Typed, Plays
<1>5. Using' = Using /\ k \notin Using /\ \A j \in Using : Targets'[j] = Targets[j]
  BY <1>2, <1>4 DEF Using, UsingMix, Targets
<1>6. GraphOk(graph, known, Using, Targets')
  BY <1>1, <1>5, TargetsMatter
<1>7. Typed'
  <2>1. {j \in Clips : play'[j].stage = "playing"} = {j \in Clips : play[j].stage = "playing"}
    BY <1>2, <1>4
  <2>. QED  BY <1>1, <1>2, <1>4, <2>1 DEF Typed
<1>8. \A j \in Clips : play'[j].stage \in {"fetching", "playing"} => play'[j].targets # {}
  BY <1>2, <1>4 DEF RouteInv
<1>9. \A j \in Using' : Listed(graph', j, routed'[j] \cap play'[j].targets)
  BY <1>2, <1>4, <1>5 DEF RouteInv, Using
<1>. QED  BY <1>2, <1>5, <1>6, <1>7, <1>8, <1>9 DEF RouteInv

\* The clip is routed to its targets, and no other clip is taken off a list.
LEMMA PlayStartsKeeps ==
    ASSUME RouteInv, NEW k \in Clips, PlayStarts(k)
    PROVE  RouteInv'
<1>. DEFINE uses == play[k].targets \cap known # {}
            T == play[k].targets
            in == AddInput(graph, k)
            h == ClipRoutes(in, known, k, T)
<1>1. /\ Typed /\ GraphOk(graph, known, Using, Targets) /\ Using \in SUBSET Clips /\ play[k] \in Plays
      /\ known \in SUBSET Peers /\ T \in SUBSET Peers /\ Targets[k] = T
  BY TargetsAimed DEF RouteInv, Typed, Plays, Targets
<1>2. /\ play[k].stage = "fetching"
      /\ play' = [play EXCEPT ![k] = [@ EXCEPT !.stage = "playing", !.usesMixGraph = uses]]
      /\ graph' = IF uses THEN h ELSE graph
      /\ plays' = Append(plays, k) /\ routed' = [routed EXCEPT ![k] = known]
      /\ UNCHANGED <<known, memberGroups, joins, moves>>
  BY DEF PlayStarts
<1>. HIDE DEF uses
<1>3. uses \in BOOLEAN
  BY DEF uses
<1>4. [play[k] EXCEPT !.stage = "playing", !.usesMixGraph = uses]
        = [stage |-> "playing", targets |-> T, usesMixGraph |-> uses]
  <2>. DEFINE mid == [play[k] EXCEPT !.stage = "playing"]
              flag == play[k].usesMixGraph
  <2>1. [play[k] EXCEPT !.stage = "playing", !.usesMixGraph = uses] = [mid EXCEPT !.usesMixGraph = uses]
    OBVIOUS
  <2>2. mid = [stage |-> "playing", targets |-> T, usesMixGraph |-> flag]
    BY <1>1 DEF Plays
  <2>. HIDE DEF mid, T, flag
  <2>3. [mid EXCEPT !.usesMixGraph = uses] = [stage |-> "playing", targets |-> T, usesMixGraph |-> uses]
    BY <2>2
  <2>. QED  BY <2>1, <2>3
<1>5. /\ play' \in [Clips -> Plays]
      /\ play'[k] = [stage |-> "playing", targets |-> T, usesMixGraph |-> uses]
      /\ \A j \in Clips \ {k} : play'[j] = play[j]
  <2>1. [stage |-> "playing", targets |-> T, usesMixGraph |-> uses] \in Plays
    BY <1>1, <1>3 DEF Plays
  <2>2. play' = [play EXCEPT ![k] = [stage |-> "playing", targets |-> T, usesMixGraph |-> uses]]
    BY <1>2, <1>4
  <2>. HIDE DEF T
  <2>. QED  BY <1>1, <2>1, <2>2 DEF Typed
<1>6. \A j \in Clips : play'[j].targets = play[j].targets
  BY <1>5
<1>7. Targets' = Targets
  BY <1>6 DEF Targets
<1>8. k \notin Using /\ Using' = IF uses THEN Using \union {k} ELSE Using
  BY <1>2, <1>3, <1>5 DEF Using, UsingMix
<1>9. /\ GraphOk(graph', known', Using', Targets') /\ graph'.groups = graph.groups
      /\ \A j \in Clips \ {k} : Keeps(graph, graph', j)
      /\ uses => Listed(graph', k, known \cap T)
  <2>1. CASE uses
    <3>1. GraphOk(in, known, Using \union {k}, Targets) /\ in.routes = graph.routes /\ SameGroups(graph, in)
      BY <1>1, InputAdded
    <3>. HIDE DEF in
    <3>2. GraphOk(ClipRoutes(in, known, k, Targets[k]), known, Using \union {k}, Targets)
      <4>1. k \in Using \union {k} /\ Using \union {k} \in SUBSET Clips
        BY <1>1
      <4>. QED  BY <1>1, <3>1, <4>1, ClipKeepsOk
    <3>3. /\ SameGroups(in, ClipRoutes(in, known, k, T)) /\ Listed(ClipRoutes(in, known, k, T), k, known \cap T)
          /\ \A j \in Clips \ {k} : Keeps(in, ClipRoutes(in, known, k, T), j)
      <4>1. in \in Graphs
        BY <3>1 DEF GraphOk
      <4>. HIDE DEF T
      <4>. QED  BY <1>1, <4>1, ClipRouted
    <3>4. graph' = ClipRoutes(in, known, k, T)
      BY <1>2, <2>1
    <3>5. \A j \in Clips \ {k} : Keeps(graph, graph', j)
      BY <3>1, <3>3, <3>4 DEF Keeps
    <3>6. GraphOk(graph', known', Using', Targets')
      BY <1>1, <1>2, <1>7, <1>8, <2>1, <3>2, <3>4
    <3>. QED  BY <3>1, <3>3, <3>4, <3>5, <3>6 DEF SameGroups
  <2>2. CASE ~uses
    <3>1. graph' = graph /\ known' = known /\ Using' = Using /\ Targets' = Targets
      BY <1>2, <1>7, <1>8, <2>2
    <3>. QED  BY <1>1, <2>2, <3>1 DEF Keeps
  <2>. QED  BY <2>1, <2>2
<1>10. Typed'
  <2>1. /\ plays \in Seq(Clips) /\ IsInjective(plays)
        /\ Range(plays) = {j \in Clips : play[j].stage = "playing"} /\ k \notin Range(plays)
    BY <1>1, <1>2 DEF Typed
  <2>2. /\ plays' \in Seq(Clips) /\ IsInjective(plays')
        /\ Range(plays') = {j \in Clips : play[j].stage = "playing"} \union {k}
    BY <1>2, <2>1, Appended
  <2>3. {j \in Clips : play'[j].stage = "playing"} = {j \in Clips : play[j].stage = "playing"} \union {k}
    BY <1>5
  <2>4. routed' \in [Clips -> SUBSET known]
    BY <1>1, <1>2 DEF Typed
  <2>. QED  BY <1>1, <1>2, <1>5, <2>2, <2>3, <2>4 DEF Typed
<1>11. \A j \in Clips : play'[j].stage \in {"fetching", "playing"} => play'[j].targets # {}
  <2>1. play[k].targets # {}
    BY <1>2 DEF RouteInv
  <2>. QED  BY <1>5, <1>6, <2>1 DEF RouteInv
<1>12. ASSUME NEW j \in Using' PROVE Listed(graph', j, routed'[j] \cap play'[j].targets)
  <2>1. CASE j = k
    <3>1. uses /\ routed'[k] = known /\ play'[k].targets = T
      BY <1>1, <1>2, <1>5, <1>8, <1>12, <2>1 DEF Typed
    <3>. QED  BY <1>9, <2>1, <3>1
  <2>2. CASE j # k
    <3>1. j \in Using /\ j \in Clips \ {k} /\ routed'[j] = routed[j] /\ play'[j].targets = play[j].targets
          /\ routed[j] \subseteq Peers
      BY <1>1, <1>2, <1>5, <1>8, <1>12, <2>2 DEF Typed, Using
    <3>. QED  BY <1>9, <3>1 DEF RouteInv, Listed, Keeps
  <2>. QED  BY <2>1, <2>2
<1>. QED  BY <1>2, <1>9, <1>10, <1>11, <1>12 DEF RouteInv

\* A clip goes; the controller's other clips are heard by all of their targets again.
LEMMA PlayEndsKeeps ==
    ASSUME RouteInv, NEW k \in Clips, PlayEnds(k)
    PROVE  RouteInv'
<1>. DEFINE rest == Among(Playing(HostOf[k]), Clips \ {k})
            h == TeardownGraph(graph, k, rest, Targets, known)
<1>1. /\ Typed /\ GraphOk(graph, known, Using, Targets) /\ Using \in SUBSET Clips /\ play[k] \in Plays
      /\ known \in SUBSET Peers /\ Targets \in Aims
  BY TargetsAimed DEF RouteInv, Typed
<1>2. /\ play[k].stage = "playing"
      /\ graph' = h
      /\ routed' = [j \in Clips |-> IF UsingMix(k) /\ j \in Range(rest) /\ UsingMix(j) THEN known ELSE routed[j]]
      /\ play' = [play EXCEPT ![k] = [@ EXCEPT !.stage = "over", !.targets = {}]]
      /\ plays' = Among(plays, Clips \ {k})
      /\ UNCHANGED <<known, memberGroups, joins, moves>>
  BY DEF PlayEnds, Targets
<1>3. [play[k] EXCEPT !.stage = "over", !.targets = {}] \in Plays
  BY <1>1 DEF Plays
<1>4. /\ play' \in [Clips -> Plays]
      /\ play'[k].stage = "over"
      /\ \A j \in Clips \ {k} : play'[j] = play[j]
  BY <1>1, <1>2, <1>3 DEF Typed, Plays
<1>5. (UsingMix(k) <=> k \in Using) /\ Using' = Using \ {k} /\ \A j \in Using' : Targets'[j] = Targets[j]
  BY <1>2, <1>4 DEF Using, UsingMix, Targets
<1>6. rest \in Seq(Clips) /\ Range(rest) \subseteq Clips \ {k} /\ Again(rest) \subseteq Using \ {k}
  <2>1. /\ Playing(HostOf[k]) \in Seq(Clips) /\ \A j \in Range(Playing(HostOf[k])) : UsingMix(j) <=> j \in Using
    BY <1>1, PlayingOf
  <2>2. rest \in Seq(Clips) /\ Range(rest) = Range(Playing(HostOf[k])) \cap (Clips \ {k})
    BY <2>1, AmongOk
  <2>. HIDE DEF rest
  <2>. QED  BY <2>1, <2>2 DEF Again
<1>7. /\ GraphOk(h, known, Using \ {k}, Targets) /\ SameGroups(graph, h)
      /\ \A j \in Clips \ {k} : \A l \in known \cap Targets[j] : j \in graph.routes[l] => j \in h.routes[l]
      /\ UsingMix(k) => \A j \in Again(rest) : Heard(h, j, known, Targets)
  <2>. HIDE DEF rest
  <2>. QED  BY <1>1, <1>5, <1>6, TeardownOk
<1>. HIDE DEF h, rest
<1>8. GraphOk(graph', known', Using', Targets')
  <2>1. Using \ {k} \in SUBSET Clips /\ known' = known /\ graph' = h
    BY <1>1, <1>2
  <2>2. \A j \in Using \ {k} : \A l \in known : l \in Targets[j] => l \in Targets'[j]
    BY <1>5
  <2>3. GraphOk(h, known, Using \ {k}, Targets')
    BY <1>1, <1>7, <2>1, <2>2, TargetsMatter
  <2>. QED  BY <1>5, <2>1, <2>3
<1>9. Typed'
  <2>1. plays' \in Seq(Clips) /\ IsInjective(plays') /\ Range(plays') = Range(plays) \cap (Clips \ {k})
    BY <1>1, <1>2, AmongOk DEF Typed
  <2>2. {j \in Clips : play'[j].stage = "playing"} = {j \in Clips : play[j].stage = "playing"} \cap (Clips \ {k})
    BY <1>4
  <2>3. routed' \in [Clips -> SUBSET known]
    BY <1>1, <1>2 DEF Typed
  <2>. QED  BY <1>1, <1>2, <1>4, <2>1, <2>2, <2>3 DEF Typed
<1>10. \A j \in Clips : play'[j].stage \in {"fetching", "playing"} => play'[j].targets # {}
  BY <1>2, <1>4 DEF RouteInv
<1>11. ASSUME NEW j \in Using' PROVE Listed(graph', j, routed'[j] \cap play'[j].targets)
  <2>1. j \in Using /\ j \in Clips \ {k} /\ play'[j] = play[j] /\ Targets[j] = play[j].targets
    BY <1>4, <1>5, <1>11 DEF Using, Targets
  <2>2. CASE UsingMix(k) /\ j \in Range(rest) /\ UsingMix(j)
    <3>1. Heard(h, j, known, Targets) /\ routed'[j] = known
      BY <1>2, <1>7, <2>1, <2>2 DEF Again
    <3>. QED  BY <1>2, <2>1, <3>1 DEF Heard
  <2>3. CASE ~(UsingMix(k) /\ j \in Range(rest) /\ UsingMix(j))
    <3>1. routed'[j] = routed[j] /\ routed[j] \subseteq known
      BY <1>1, <1>2, <2>1, <2>3 DEF Typed
    <3>2. Listed(graph, j, routed[j] \cap play[j].targets)
      BY <2>1 DEF RouteInv
    <3>. QED  BY <1>2, <1>7, <2>1, <3>1, <3>2 DEF Listed
  <2>. QED  BY <2>2, <2>3
<1>12. graph'.groups = graph.groups
  BY <1>2, <1>7 DEF SameGroups
<1>. QED  BY <1>2, <1>8, <1>9, <1>10, <1>11, <1>12 DEF RouteInv

LEMMA NextRoutes == RouteInv /\ [Next]_vars => RouteInv'
<1>. SUFFICES ASSUME RouteInv, [Next]_vars PROVE RouteInv'  OBVIOUS
<1>1. ASSUME NEW p \in Peers, Register(p) PROVE RouteInv'
  BY <1>1, RegisterKeeps
<1>2. ASSUME NEW p \in Peers, Disconnect(p) PROVE RouteInv'
  BY <1>2, DisconnectKeeps
<1>3. ASSUME NEW p \in Peers, RemoveClientFromMix(p) PROVE RouteInv'
  BY <1>3, GroupOperationsKeep
<1>4. ASSUME NEW g \in Groups, NEW members \in SUBSET Peers, CreateMixGroup(g, members) PROVE RouteInv'
  BY <1>4, GroupOperationsKeep
<1>5. ASSUME NEW g \in Groups, NEW p \in Peers, AddClientToMix(g, p) PROVE RouteInv'
  BY <1>5, GroupOperationsKeep
<1>6. ASSUME NEW k \in Clips, PlayStarts(k) PROVE RouteInv'
  BY <1>6, PlayStartsKeeps
<1>7. ASSUME NEW k \in Clips, PlayFails(k) PROVE RouteInv'
  BY <1>7, PlayFailsKeeps
<1>8. ASSUME NEW k \in Clips, PlayEnds(k) PROVE RouteInv'
  BY <1>8, PlayEndsKeeps
<1>9. ASSUME NEW k \in Clips, NEW targets \in SUBSET Peers, PlayAudio(k, targets) PROVE RouteInv'
  BY <1>9, PlayAudioKeeps
<1>10. CASE UNCHANGED vars
  <2>1. UNCHANGED <<graph, known, memberGroups, plays, play, routed, joins, moves>>
    BY <1>10 DEF vars
  <2>2. Typed' /\ Using' = Using /\ Targets' = Targets
    BY <2>1 DEF RouteInv, Typed, Using, Targets, UsingMix
  <2>. QED  BY <2>1, <2>2 DEF RouteInv
<1>. QED  BY <1>1, <1>2, <1>3, <1>4, <1>5, <1>6, <1>7, <1>8, <1>9, <1>10 DEF Next

LEMMA RouteTyped == RouteInv => TypeOK
<1>. SUFFICES ASSUME RouteInv PROVE TypeOK  OBVIOUS
<1>1. /\ graph.inputs \in SUBSET (Peers \union Clips)
      /\ graph.routes \in [Peers -> SUBSET (Peers \union Clips)]
      /\ graph.groups \in [Groups -> SUBSET Peers]
      /\ graph.member \in [Peers -> Groups \union {NoGroup}]
  BY GraphFields DEF RouteInv, GraphOk
<1>2. Typed
  BY DEF RouteInv
<1>3. routed \in [Clips -> SUBSET Peers]
  BY <1>2 DEF Typed
<1>. QED  BY <1>1, <1>2, <1>3 DEF TypeOK, Typed, Plays

LEMMA RouteIsolates == RouteInv => GroupsIsolate
<1>. SUFFICES ASSUME RouteInv, NEW p \in Peers, NEW g \in Groups
              PROVE  /\ p \in graph.groups[g] <=> memberGroups[p] = g
                     /\ p \in graph.groups[g] => graph.member[p] = g
                     /\ p \in graph.groups[g] /\ graph.groups[g] # {p} =>
                          {q \in Peers : Hears(graph, p, q)} = graph.groups[g] \ {p}
  BY DEF GroupsIsolate
<1>1. /\ graph.inputs = known \union Using /\ ListsOk(graph, known, Targets) /\ GroupsOk(graph, known)
      /\ p \in graph.groups[g] <=> memberGroups[p] = g
      /\ known \subseteq Peers
  BY DEF RouteInv, GraphOk, Typed
<1>2. ASSUME p \in graph.groups[g], graph.groups[g] # {p}
      PROVE  {q \in Peers : Hears(graph, p, q)} = graph.groups[g] \ {p}
  <2>1. graph.routes[p] \cap Peers = graph.groups[g] \ {p} /\ \A q \in graph.groups[g] : q \in known
    BY <1>1, <1>2 DEF GroupsOk
  <2>2. graph.routes[p] # {}
    BY <1>2, <2>1
  <2>3. \A q \in Peers : q \in graph.routes[p] <=> q \in graph.groups[g] \ {p}
    BY <2>1
  <2>4. \A q \in Peers : Hears(graph, p, q) <=> q \in graph.groups[g] \ {p}
    BY <1>1, <2>1, <2>2, <2>3 DEF Hears
  <2>. QED  BY <1>1, <2>1, <2>4
<1>. QED  BY <1>1, <1>2 DEF GroupsOk

LEMMA RouteCurrent == RouteInv => ListsAreCurrent
<1>. SUFFICES ASSUME RouteInv PROVE ListsAreCurrent  OBVIOUS
<1>1. /\ graph.inputs = known \union Using /\ ListsOk(graph, known, Targets)
      /\ Range(plays) = {k \in Clips : play[k].stage = "playing"}
  BY DEF RouteInv, GraphOk, Typed
<1>2. Using = {k \in Range(plays) : UsingMix(k)}
  BY <1>1 DEF Using
<1>3. \A k \in Clips : Targets[k] = play[k].targets
  BY DEF Targets
<1>4. \A k \in Range(plays) : play[k].targets # {}
  BY <1>1 DEF RouteInv
<1>. QED  BY <1>1, <1>2, <1>3, <1>4 DEF ListsAreCurrent, ListsOk

LEMMA RouteHeard == RouteInv => TargetsHearTheirClip
<1>. SUFFICES ASSUME RouteInv, NEW k \in Range(plays), NEW l \in routed[k],
                     UsingMix(k), l \in play[k].targets
              PROVE  Hears(graph, l, k)
  BY DEF TargetsHearTheirClip
<1>1. k \in Using /\ k \in Clips /\ k \notin Peers /\ l \in Peers
  BY RoutingAssumption DEF RouteInv, Typed, Using
<1>2. k \in graph.routes[l]
  BY <1>1 DEF RouteInv, Listed
<1>3. k \in graph.inputs
  BY <1>1 DEF RouteInv, GraphOk
<1>. QED  BY <1>1, <1>2, <1>3 DEF Hears

LEMMA RouteInvariant == Spec => []RouteInv
BY InitRoute, NextRoutes, PTL DEF Spec

\* The fields of graph.rs's MixGraph, the records of the ClientAudioMixers and the plays of
\* the AudioClipControllers: a controller lists the plays that are running, each once.
THEOREM RoutingTyped == Spec => []TypeOK
BY RouteInvariant, RouteTyped, PTL

\* set_group_members, move_to_group, remove_from_group and remove_input leave the members of
\* a group of two or more hearing each other and no other client, and clips that start and end
\* (applyTargetPlayRoutes, reapplyPlayRoutes) do not undo it, for any number of groups.
THEOREM IsolationKept == Spec => []GroupsIsolate
BY RouteInvariant, RouteIsolates, PTL

\* unregisterPeer, onPeerDisconnected and teardownPlay leave nothing behind on a list, and a
\* clip is on the list of no one but its targets, for any number of hosts, peers and clips.
THEOREM NothingLeftBehind == Spec => []ListsAreCurrent
BY RouteInvariant, RouteCurrent, PTL

\* reapplyPlayRoutes, in the order of the plays: the routes of one clip never take another
\* clip from its targets, however many play and end beside it.
THEOREM ClipsReachTheirTargets == Spec => []TargetsHearTheirClip
BY RouteInvariant, RouteHeard, PTL

=============================================================================
