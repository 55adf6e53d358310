-------------------------- MODULE SttActor_proofs --------------------------
(***************************************************************************)
(* The STT actor and its provider, for any number of utterances and chunks *)
(* and any interleaving of agent, actor, vendor, deadlines and lost        *)
(* connections.                                                            *)
(* Markers. The provider owes as many markers as finalizes are outstanding *)
(* (Owed, Aligned): every answer, poll, loss and refusal keeps the sum of  *)
(* what is requested and what is queued, and a stream is replaced only     *)
(* when nothing is outstanding (ReopenedIdle) or all of it is forgotten.   *)
(* Closes. Ledger relates the entries to what the agent was told: the keys *)
(* grow, the closed ones are those of timed-out entries and of entries     *)
(* that are gone, and every utterance whose end was read is one of these.  *)
(* With the order of the command channel (SpokenInOrder), each is closed   *)
(* once and in its turn.                                                   *)
(* Generations. Every chunk in the hands of the provider was pushed under  *)
(* the current generation, and so was every outstanding finalize requested *)
(* (Under, Entries): what is heard carries the generation that heard it.   *)
(* Texts. What queue, segments, vendor and socket hold belongs to the      *)
(* entry that the next marker behind it answers, or to the utterance whose *)
(* audio comes next (TextsOwned). That a finalize without audio overtakes  *)
(* no other (Unasked) needs the agent's side: each utterance whose end is  *)
(* still to be read has audio before it (ToCome).                          *)
(* Queued configs. Their Swap is sent right behind an end, so that when it *)
(* is next, or parked, nothing was pushed since the last finalize (Swaps). *)
(* Completeness. A chunk is with the agent, in the channel, in hand, held  *)
(* by the provider or in a reported final (Present), and undisturbed no    *)
(* step loses it: the vendor's text is fresh while a segment of it waits   *)
(* (Counted, FreshText), so IsLate drops none, and a stream is replaced    *)
(* only when it is empty. What a closed utterance has can then be nowhere  *)
(* but in the reports (Whole, WholeIsHeard).                               *)
(***************************************************************************)
EXTENDS SttActor, LoopLemmas, FiniteSetTheorems, SequenceTheorems, TLAPS

-----------------------------------------------------------------------------
(* Counting. *)

\* How many of the first n items are x; how many of all.
First(s, x, n) == Cardinality({j \in 1 .. n : s[j] = x})
All(s, x) == First(s, x, Len(s))

\* A count of a prefix is a number.
LEMMA FirstNat ==
    ASSUME NEW s, NEW x, NEW n \in Nat
    PROVE  First(s, x, n) \in Nat /\ First(s, x, n) <= n /\ First(s, x, 0) = 0
           /\ IsFiniteSet({j \in 1 .. n : s[j] = x})
<1>. DEFINE A == {j \in 1 .. n : s[j] = x}
<1>1. IsFiniteSet(1 .. n) /\ Cardinality(1 .. n) = n
  BY FS_Interval
<1>2. A \in SUBSET (1 .. n)
  OBVIOUS
<1>3. IsFiniteSet(A) /\ Cardinality(A) <= n
  BY <1>1, <1>2, FS_Subset
<1>4. Cardinality(A) \in Nat
  BY <1>3, FS_CardinalityType
<1>5. First(s, x, n) = Cardinality(A)
  BY DEF First
<1>6. First(s, x, 0) = 0
  <2>1. {j \in 1 .. 0 : s[j] = x} = {}
    OBVIOUS
  <2>. QED  BY <2>1, FS_EmptySet DEF First
<1>. QED  BY <1>3, <1>4, <1>5, <1>6

\* t is what s holds beyond its first m items, as far as i of them go.
LEMMA FirstJoin ==
    ASSUME NEW s, NEW t, NEW x, NEW m \in Nat, NEW i \in Nat, NEW n \in Nat, n = m + i,
           \A j \in 1 .. i : t[j] = s[j + m]
    PROVE  First(s, x, n) = First(s, x, m) + First(t, x, i)
<1>. DEFINE A == {j \in 1 .. n : s[j] = x}
            B == {j \in 1 .. m : s[j] = x}
            C == {j \in 1 .. i : t[j] = x}
            D == {j \in A : j > m}
            f == [j \in C |-> j + m]
<1>2. First(s, x, n) = Cardinality(A) /\ First(s, x, m) = Cardinality(B)
      /\ First(t, x, i) = Cardinality(C)
  BY DEF First
<1>3. IsFiniteSet(B) /\ IsFiniteSet(C) /\ Cardinality(B) \in Nat /\ Cardinality(C) \in Nat
  BY <1>2, FirstNat
<1>4. A = B \cup D /\ B \cap D = {}
  <2>1. \A j \in 1 .. m : j \in 1 .. n
    OBVIOUS
  <2>2. \A j \in A : j > m \/ j \in 1 .. m
    OBVIOUS
  <2>3. \A j \in B : ~(j > m)
    OBVIOUS
  <2>. QED  BY <2>1, <2>2, <2>3
<1>5. ExistsBijection(C, D)
  <2>1. \A j \in C : f[j] \in D
    OBVIOUS
  <2>2. \A j, k \in C : f[j] = f[k] => j = k
    OBVIOUS
  <2>3. \A j \in D : j - m \in C /\ f[j - m] = j
    <3>. TAKE j \in D
    <3>1. j - m \in 1 .. i /\ (j - m) + m = j
      OBVIOUS
    <3>2. s[j] = t[j - m]
      BY <3>1
    <3>. QED  BY <3>1, <3>2
  <2>4. f \in [C -> D]
    BY <2>1
  <2>. HIDE DEF f, C, D
  <2>5. f \in Bijection(C, D)
    BY <2>2, <2>3, <2>4 DEF Bijection, Injection, Surjection, IsInjective
  <2>. QED  BY <2>5 DEF ExistsBijection
<1>. HIDE DEF A, B, C, D
<1>6. IsFiniteSet(D) /\ Cardinality(D) = Cardinality(C)
  BY <1>3, <1>5, FS_Bijection
<1>7. Cardinality(A) = Cardinality(B) + Cardinality(D) - Cardinality(B \cap D)
  BY <1>3, <1>4, <1>6, FS_Union
<1>8. Cardinality(B \cap D) = 0
  BY <1>4, FS_EmptySet
<1>. QED  BY <1>2, <1>3, <1>6, <1>7, <1>8

\* The same first items.
LEMMA FirstSame ==
    ASSUME NEW s, NEW t, NEW x, NEW n \in Nat, \A j \in 1 .. n : t[j] = s[j]
    PROVE  First(t, x, n) = First(s, x, n)
<1>1. {j \in 1 .. n : t[j] = x} = {j \in 1 .. n : s[j] = x}
  OBVIOUS
<1>. QED  BY <1>1 DEF First

\* Only x, or none.
LEMMA FirstAlike ==
    ASSUME NEW s, NEW x, NEW n \in Nat
    PROVE  /\ (\A j \in 1 .. n : s[j] = x) => First(s, x, n) = n
           /\ (\A j \in 1 .. n : s[j] # x) <=> First(s, x, n) = 0
<1>. DEFINE A == {j \in 1 .. n : s[j] = x}
<1>1. First(s, x, n) = Cardinality(A)
  BY DEF First
<1>2. IsFiniteSet(A)
  BY FirstNat
<1>3. ASSUME \A j \in 1 .. n : s[j] = x PROVE First(s, x, n) = n
  <2>1. A = 1 .. n
    BY <1>3
  <2>2. Cardinality(1 .. n) = n
    BY FS_Interval
  <2>. QED  BY <1>1, <2>1, <2>2
<1>4. (\A j \in 1 .. n : s[j] # x) <=> A = {}
  OBVIOUS
<1>5. A = {} <=> Cardinality(A) = 0
  <2>. HIDE DEF A
  <2>. QED  BY <1>2, FS_EmptySet
<1>. QED  BY <1>1, <1>3, <1>4, <1>5

\* One more item at the end.
LEMMA FirstNext ==
    ASSUME NEW s, NEW x, NEW n \in Nat
    PROVE  First(s, x, n + 1) = First(s, x, n) + (IF s[n + 1] = x THEN 1 ELSE 0)
<1>. DEFINE t == [j \in {1} |-> s[j + n]]
<1>1. t[1] = s[n + 1] /\ \A j \in 1 .. 1 : t[j] = s[j + n]
  <2>1. 1 + n = n + 1
    OBVIOUS
  <2>. QED  BY <2>1
<1>. HIDE DEF t
<1>2. First(s, x, n + 1) = First(s, x, n) + First(t, x, 1)
  <2>1. n + 1 \in Nat /\ 1 \in Nat
    OBVIOUS
  <2>. QED  BY <1>1, <2>1, FirstJoin
<1>3. First(t, x, 1) = IF s[n + 1] = x THEN 1 ELSE 0
  <2>1. /\ (\A j \in 1 .. 1 : t[j] = x) => First(t, x, 1) = 1
        /\ (\A j \in 1 .. 1 : t[j] # x) <=> First(t, x, 1) = 0
    BY FirstAlike
  <2>. QED  BY <1>1, <2>1
<1>. QED  BY <1>2, <1>3

\* One item less at the front.
LEMMA FirstTail ==
    ASSUME NEW s, NEW t, NEW x, NEW n \in Nat, \A j \in 1 .. n : t[j] = s[j + 1]
    PROVE  First(s, x, n + 1) = First(t, x, n) + (IF s[1] = x THEN 1 ELSE 0)
<1>1. First(s, x, n + 1) = First(s, x, 1) + First(t, x, n)
  <2>1. n + 1 \in Nat /\ 1 \in Nat /\ n + 1 = 1 + n
    OBVIOUS
  <2>. QED  BY <2>1, FirstJoin
<1>2. First(s, x, 1) = IF s[1] = x THEN 1 ELSE 0
  <2>1. /\ (\A j \in 1 .. 1 : s[j] = x) => First(s, x, 1) = 1
        /\ (\A j \in 1 .. 1 : s[j] # x) <=> First(s, x, 1) = 0
    BY FirstAlike
  <2>. QED  BY <2>1
<1>3. First(t, x, n) \in Nat
  BY FirstNat
<1>. QED  BY <1>1, <1>2, <1>3

\* Further is not less.
LEMMA FirstGrows ==
    ASSUME NEW s, NEW x, NEW m \in Nat, NEW n \in Nat, m <= n
    PROVE  First(s, x, m) <= First(s, x, n)
<1>. DEFINE i == n - m
            t == [j \in 1 .. i |-> s[j + m]]
<1>1. i \in Nat /\ n = m + i /\ \A j \in 1 .. i : t[j] = s[j + m]
  OBVIOUS
<1>. HIDE DEF i, t
<1>2. First(s, x, n) = First(s, x, m) + First(t, x, i)
  BY <1>1, FirstJoin
<1>3. First(t, x, i) \in Nat /\ First(s, x, m) \in Nat
  BY <1>1, FirstNat
<1>. QED  BY <1>2, <1>3

-----------------------------------------------------------------------------
(* What the provider holds, of the chunks C. *)

Items(C) ==
    {x \in [kind : {"partial", "final", "done", "failure"}, text : SUBSET C] :
       x.kind \in {"done", "failure"} => x.text = {}}
FinalsOf(C) == [queue : Seq(Items(C)), pending : Nat, segments : SUBSET C]
SocketItems(C) == {SocketAudio(c) : c \in C} \union {SocketFinalize}
Providers(C) ==
    [alive : BOOLEAN, finals : FinalsOf(C), pushed : Nat, boundary : Nat,
     socket : Seq(SocketItems(C)), heard : SUBSET C, position : Nat]

\* Markers the provider owes: those requested, and those not polled yet.
Owed(finals) == finals.pending + Dones(finals.queue)

\* No chunk is processed that was not pushed.
InStep(p) == p.position + (Len(p.socket) - All(p.socket, SocketFinalize)) <= p.pushed

\* Dones counts the markers.
LEMMA DonesIsAll ==
    ASSUME NEW S, NEW q \in Seq(S)
    PROVE  Dones(q) = All(q, FinalizeDone) /\ Dones(q) \in Nat
<1>1. DOMAIN q = 1 .. Len(q) /\ Len(q) \in Nat
  OBVIOUS
<1>2. Dones(q) = All(q, FinalizeDone)
  BY <1>1 DEF Dones, All, First
<1>. QED  BY <1>1, <1>2, FirstNat DEF All

\* Counting in a concatenation, in one more item and in the rest.
LEMMA AllJoined ==
    ASSUME NEW S, NEW s \in Seq(S), NEW t \in Seq(S), NEW x
    PROVE  All(s \o t, x) = All(s, x) + All(t, x)
<1>. DEFINE u == s \o t
<1>1. Len(u) = Len(s) + Len(t) /\ Len(u) \in Nat /\ Len(s) \in Nat /\ Len(t) \in Nat
      /\ (\A j \in 1 .. Len(s) : u[j] = s[j])
      /\ \A j \in 1 .. Len(t) : t[j] = u[j + Len(s)]
  OBVIOUS
<1>. HIDE DEF u
<1>2. First(u, x, Len(u)) = First(u, x, Len(s)) + First(t, x, Len(t))
  <2>. DEFINE m == Len(s)
              i == Len(t)
              n == Len(u)
  <2>1. m \in Nat /\ i \in Nat /\ n \in Nat /\ n = m + i /\ \A j \in 1 .. i : t[j] = u[j + m]
    BY <1>1
  <2>. HIDE DEF m, i, n
  <2>2. First(u, x, n) = First(u, x, m) + First(t, x, i)
    BY <2>1, FirstJoin
  <2>. QED  BY <2>2 DEF m, i, n
<1>3. First(u, x, Len(s)) = First(s, x, Len(s))
  BY <1>1, FirstSame
<1>. QED  BY <1>2, <1>3 DEF All, u

\* The count after one more item.
LEMMA AllNext ==
    ASSUME NEW S, NEW s \in Seq(S), NEW y \in S, NEW x
    PROVE  All(Append(s, y), x) = All(s, x) + (IF y = x THEN 1 ELSE 0)
<1>. DEFINE u == Append(s, y)
<1>1. Len(u) = Len(s) + 1 /\ Len(s) \in Nat /\ u[Len(s) + 1] = y
      /\ \A j \in 1 .. Len(s) : u[j] = s[j]
  OBVIOUS
<1>. HIDE DEF u
<1>2. First(u, x, Len(s) + 1) = First(u, x, Len(s)) + (IF u[Len(s) + 1] = x THEN 1 ELSE 0)
  BY <1>1, FirstNext
<1>3. First(u, x, Len(s)) = First(s, x, Len(s))
  BY <1>1, FirstSame
<1>. QED  BY <1>1, <1>2, <1>3 DEF All, u

\* The count without the first item.
LEMMA AllRest ==
    ASSUME NEW S, NEW s \in Seq(S), s # <<>>, NEW x
    PROVE  All(s, x) = All(Tail(s), x) + (IF Head(s) = x THEN 1 ELSE 0)
<1>. DEFINE t == Tail(s)
            n == Len(t)
<1>1. n \in Nat /\ Len(s) = n + 1 /\ Head(s) = s[1] /\ \A j \in 1 .. n : t[j] = s[j + 1]
  OBVIOUS
<1>. HIDE DEF t, n
<1>2. First(s, x, n + 1) = First(t, x, n) + (IF s[1] = x THEN 1 ELSE 0)
  BY <1>1, FirstTail
<1>. QED  BY <1>1, <1>2 DEF All, t, n

\* A count is a number, no greater than the length.
LEMMA AllNat ==
    ASSUME NEW S, NEW s \in Seq(S), NEW x
    PROVE  All(s, x) \in Nat /\ All(s, x) <= Len(s)
<1>1. Len(s) \in Nat
  OBVIOUS
<1>. QED  BY <1>1, FirstNat DEF All

\* There is nothing in an empty sequence.
LEMMA NoneInEmpty ==
    ASSUME NEW x
    PROVE  All(<<>>, x) = 0 /\ Dones(<<>>) = 0
<1>1. Len(<<>>) = 0 /\ 0 \in Nat /\ <<>> \in Seq({})
  OBVIOUS
<1>2. \A y : All(<<>>, y) = 0
  BY <1>1, FirstNat DEF All
<1>. QED  BY <1>1, <1>2, DonesIsAll

-----------------------------------------------------------------------------
(* The operations of the books. *)

\* The items a queue may hold.
LEMMA ItemsAre ==
    ASSUME NEW C
    PROVE  /\ FinalizeDone \in Items(C) /\ Failure \in Items(C) /\ Failure # FinalizeDone
           /\ \A text \in SUBSET C :
                /\ Partial(text) \in Items(C) /\ Final(text) \in Items(C)
                /\ Partial(text) # FinalizeDone /\ Final(text) # FinalizeDone
                /\ Partial(text) # Failure /\ Final(text) # Failure
           /\ \A x \in Items(C) : x.text \in SUBSET C /\ (x.kind = "done" <=> x = FinalizeDone)
  BY DEF Items, FinalizeDone, Failure, Partial, Final

\* Interims and segments owe nothing new.
LEMMA TextOwesNothing ==
    ASSUME NEW C, NEW f \in FinalsOf(C), NEW text \in SUBSET C
    PROVE  /\ Interim(f, text) \in FinalsOf(C) /\ Segment(f, text) \in FinalsOf(C)
           /\ Owed(Interim(f, text)) = Owed(f) /\ Owed(Segment(f, text)) = Owed(f)
           /\ Segment(f, text).pending = f.pending /\ Interim(f, text).pending = f.pending
<1>1. f.queue \in Seq(Items(C)) /\ f.pending \in Nat /\ f.segments \in SUBSET C
  BY DEF FinalsOf
<1>. DEFINE all == f.segments \union text
            item == Partial(all)
            q == Append(f.queue, item)
<1>2. all \in SUBSET C
  BY <1>1
<1>3. item \in Items(C) /\ item # FinalizeDone
  BY <1>2, ItemsAre
<1>4. q \in Seq(Items(C)) /\ Dones(q) = Dones(f.queue)
  <2>. HIDE DEF item
  <2>1. q \in Seq(Items(C))
    BY <1>1, <1>3
  <2>2. All(q, FinalizeDone) = All(f.queue, FinalizeDone) + 0
    BY <1>1, <1>3, AllNext
  <2>3. Dones(q) = All(q, FinalizeDone) /\ Dones(f.queue) = All(f.queue, FinalizeDone) /\ Dones(f.queue) \in Nat
    BY <1>1, <2>1, DonesIsAll
  <2>. QED  BY <2>1, <2>2, <2>3
<1>5. Interim(f, text) = IF text = {} THEN f ELSE [f EXCEPT !.queue = q]
  BY DEF Interim
<1>6. Segment(f, text) = IF text = {} THEN f ELSE [f EXCEPT !.segments = all, !.queue = q]
  BY DEF Segment
<1>. HIDE DEF q, all
<1>. QED  BY <1>1, <1>2, <1>4, <1>5, <1>6 DEF FinalsOf, Owed

\* n markers are requested no longer, and wait to be polled.
LEMMA AnswerOwesTheSame ==
    ASSUME NEW C, NEW f \in FinalsOf(C), NEW n \in 0 .. f.pending
    PROVE  /\ Answer(f, n) \in FinalsOf(C) /\ Owed(Answer(f, n)) = Owed(f)
           /\ Answer(f, n).pending = f.pending - n
<1>1. f.queue \in Seq(Items(C)) /\ f.pending \in Nat /\ f.segments \in SUBSET C
  BY DEF FinalsOf
<1>. DEFINE flushed == IF f.segments = {} THEN <<>> ELSE <<Final(f.segments)>>
            dones == [i \in 1 .. n |-> FinalizeDone]
            q == f.queue \o flushed \o dones
<1>2. CASE n = 0
  BY <1>1, <1>2 DEF Answer
<1>3. CASE n # 0
  <2>1. Answer(f, n) = [queue |-> q, pending |-> f.pending - n, segments |-> {}]
    BY <1>3 DEF Answer
  <2>2. n \in Nat /\ f.pending - n \in Nat
    BY <1>1
  <2>3. flushed \in Seq(Items(C)) /\ All(flushed, FinalizeDone) = 0
    <3>1. CASE f.segments = {}
      <4>1. Len(<<>>) = 0 /\ 0 \in Nat
        OBVIOUS
      <4>2. All(<<>>, FinalizeDone) = 0
        BY <4>1, FirstNat DEF All
      <4>. QED  BY <3>1, <4>2
    <3>2. CASE f.segments # {}
      <4>. DEFINE item == Final(f.segments)
      <4>1. item \in Items(C) /\ item # FinalizeDone
        BY <1>1, ItemsAre
      <4>. HIDE DEF item
      <4>2. Len(<<item>>) = 1 /\ 1 \in Nat /\ \A j \in 1 .. 1 : <<item>>[j] # FinalizeDone
        BY <4>1
      <4>3. First(<<item>>, FinalizeDone, 1) = 0
        BY <4>2, FirstAlike
      <4>4. <<item>> \in Seq(Items(C))
        BY <4>1
      <4>. QED  BY <3>2, <4>2, <4>3, <4>4 DEF All, item
    <3>. QED  BY <3>1, <3>2
  <2>4. dones \in Seq(Items(C)) /\ All(dones, FinalizeDone) = n
    <3>1. \A j \in 1 .. n : dones[j] = FinalizeDone
      OBVIOUS
    <3>2. dones \in Seq(Items(C)) /\ Len(dones) = n
      <4>1. FinalizeDone \in Items(C)
        BY ItemsAre
      <4>. QED  BY <2>2, <4>1
    <3>. HIDE DEF dones
    <3>3. First(dones, FinalizeDone, n) = n
      BY <2>2, <3>1, FirstAlike
    <3>. QED  BY <3>2, <3>3 DEF All
  <2>. HIDE DEF flushed, dones
  <2>. DEFINE head == f.queue \o flushed
  <2>5. head \in Seq(Items(C)) /\ All(head, FinalizeDone) = All(f.queue, FinalizeDone) + 0
    BY <1>1, <2>3, AllJoined
  <2>6. q \in Seq(Items(C)) /\ All(q, FinalizeDone) = All(head, FinalizeDone) + n
    <3>. HIDE DEF head
    <3>1. head \o dones \in Seq(Items(C)) /\ All(head \o dones, FinalizeDone) = All(head, FinalizeDone) + n
      BY <2>4, <2>5, AllJoined
    <3>. QED  BY <3>1 DEF head
  <2>7. Dones(q) = All(q, FinalizeDone) /\ Dones(f.queue) = All(f.queue, FinalizeDone) /\ Dones(f.queue) \in Nat
    BY <1>1, <2>6, DonesIsAll
  <2>. HIDE DEF q
  <2>8. Answer(f, n) \in FinalsOf(C)
    BY <2>1, <2>2, <2>6 DEF FinalsOf
  <2>9. Owed(Answer(f, n)) = (f.pending - n) + Dones(q)
    BY <2>1 DEF Owed
  <2>10. Dones(q) = Dones(f.queue) + n
    BY <2>5, <2>6, <2>7
  <2>. QED  BY <1>1, <2>1, <2>2, <2>7, <2>8, <2>9, <2>10 DEF Owed
<1>. QED  BY <1>2, <1>3

\* A lost connection answers all that is requested.
LEMMA LostOwesTheSame ==
    ASSUME NEW C, NEW f \in FinalsOf(C)
    PROVE  Lost(f) \in FinalsOf(C) /\ Owed(Lost(f)) = Owed(f) /\ Lost(f).pending = 0
<1>. DEFINE q == Append(f.queue, Failure)
            failed == [f EXCEPT !.queue = q]
<1>1. f.queue \in Seq(Items(C)) /\ f.pending \in Nat /\ f.segments \in SUBSET C
  BY DEF FinalsOf
<1>2. q \in Seq(Items(C)) /\ Dones(q) = Dones(f.queue)
  <2>1. Failure \in Items(C) /\ Failure # FinalizeDone
    BY ItemsAre
  <2>2. q \in Seq(Items(C))
    BY <1>1, <2>1
  <2>3. All(q, FinalizeDone) = All(f.queue, FinalizeDone) + 0
    BY <1>1, <2>1, AllNext
  <2>4. Dones(q) = All(q, FinalizeDone) /\ Dones(f.queue) = All(f.queue, FinalizeDone) /\ Dones(f.queue) \in Nat
    BY <1>1, <2>2, DonesIsAll
  <2>. QED  BY <2>2, <2>3, <2>4
<1>3. Lost(f) = IF f.pending = 0 /\ f.segments = {} THEN f
                ELSE IF f.pending = 0 THEN [failed EXCEPT !.segments = {}]
                ELSE Answer(failed, f.pending)
  BY DEF Lost
<1>. HIDE DEF q
<1>4. failed \in FinalsOf(C) /\ Owed(failed) = Owed(f) /\ failed.pending = f.pending
  BY <1>1, <1>2 DEF FinalsOf, Owed
<1>5. CASE f.pending = 0
  <2>1. [failed EXCEPT !.segments = {}] \in FinalsOf(C)
    BY <1>1, <1>2 DEF FinalsOf
  <2>2. Owed([failed EXCEPT !.segments = {}]) = Owed(f)
    BY <1>1, <1>2 DEF Owed, FinalsOf
  <2>3. [failed EXCEPT !.segments = {}].pending = 0
    BY <1>5, <1>4 DEF FinalsOf
  <2>. QED  BY <1>3, <1>5, <2>1, <2>2, <2>3
<1>6. CASE f.pending # 0
  <2>. HIDE DEF failed
  <2>1. f.pending \in 0 .. failed.pending
    BY <1>1, <1>4
  <2>2. /\ Answer(failed, f.pending) \in FinalsOf(C) /\ Owed(Answer(failed, f.pending)) = Owed(failed)
        /\ Answer(failed, f.pending).pending = failed.pending - f.pending
    <3>. DEFINE n == f.pending
    <3>. HIDE DEF n
    <3>1. /\ Answer(failed, n) \in FinalsOf(C) /\ Owed(Answer(failed, n)) = Owed(failed)
          /\ Answer(failed, n).pending = failed.pending - n
      BY <1>4, <2>1, AnswerOwesTheSame DEF n
    <3>. QED  BY <3>1 DEF n
  <2>. QED  BY <1>1, <1>3, <1>4, <1>6, <2>2
<1>. QED  BY <1>5, <1>6

-----------------------------------------------------------------------------
(* Polling. *)

\* The failure that ends a poll, where there is one.
LEMMA FailureIsFound ==
    ASSUME NEW C, NEW q \in Seq(Items(C))
    PROVE  \/ FirstFailure(q) = 0
           \/ FirstFailure(q) \in 1 .. Len(q) /\ q[FirstFailure(q)] = Failure
<1>. DEFINE I == {i \in 1 .. Len(q) : q[i] = Failure}
<1>1. FirstFailure(q) = IF I # {} THEN Min(I) ELSE 0
  BY DEF FirstFailure, SelectInSeq
<1>2. CASE I # {}
  <2>1. I \in SUBSET Nat
    OBVIOUS
  <2>2. \E n \in I : \A m \in I : n <= m
    <3>. HIDE DEF I
    <3>. QED  BY <1>2, <2>1, LeastOf
  <2>3. Min(I) \in I
    <3>. HIDE DEF I
    <3>. QED  BY <2>2 DEF Min
  <2>4. FirstFailure(q) \in I
    BY <1>1, <1>2, <2>3
  <2>. QED  BY <2>4
<1>. QED  BY <1>1, <1>2

\* What is polled and what is left are the queue, but for the failure between.
LEMMA PollingSplits ==
    ASSUME NEW C, NEW q \in Seq(Items(C))
    PROVE  /\ Polled(q) \in Seq(Items(C)) /\ Unpolled(q) \in Seq(Items(C))
           /\ Dones(q) = Dones(Polled(q)) + Dones(Unpolled(q))
<1>. DEFINE F == FirstFailure(q)
<1>1. Len(<<>>) = 0 /\ 0 \in Nat /\ <<>> \in Seq(Items(C))
  OBVIOUS
<1>2. Dones(<<>>) = 0
  BY NoneInEmpty
<1>3. CASE F = 0
  <2>1. Polled(q) = q /\ Unpolled(q) = <<>>
    BY <1>3 DEF Polled, Unpolled
  <2>2. Dones(q) \in Nat
    BY DonesIsAll
  <2>. QED  BY <1>1, <1>2, <2>1, <2>2
<1>4. CASE F \in 1 .. Len(q) /\ q[F] = Failure
  <2>. DEFINE a == SubSeq(q, 1, F - 1)
              b == SubSeq(q, F, Len(q))
              c == SubSeq(q, F + 1, Len(q))
  <2>1. Polled(q) = a /\ Unpolled(q) = c
    <3>1. FirstFailure(q) # 0
      BY <1>4
    <3>. QED  BY <3>1, Zenon DEF Polled, Unpolled
  <2>. HIDE DEF F
  <2>2. a \in Seq(Items(C)) /\ b \in Seq(Items(C)) /\ c \in Seq(Items(C))
    BY <1>4
  <2>3. q = a \o b
    BY <1>4
  <2>4. b # <<>> /\ Head(b) = Failure /\ Tail(b) = c
    BY <1>4
  <2>. HIDE DEF a, b, c
  <2>5. All(a \o b, FinalizeDone) = All(a, FinalizeDone) + All(b, FinalizeDone)
    BY <2>2, AllJoined
  <2>6. All(b, FinalizeDone) = All(c, FinalizeDone) + 0
    BY <2>2, <2>4, ItemsAre, AllRest
  <2>7. /\ Dones(q) = All(q, FinalizeDone) /\ Dones(a) = All(a, FinalizeDone)
        /\ Dones(c) = All(c, FinalizeDone) /\ Dones(a) \in Nat /\ Dones(c) \in Nat
    BY <2>2, DonesIsAll
  <2>. QED  BY <2>1, <2>2, <2>3, <2>5, <2>6, <2>7
<1>. QED  BY <1>3, <1>4, FailureIsFound

-----------------------------------------------------------------------------
(* The provider's steps. *)

\* A step of the provider that owes what it owed.
Kept(C, p, r) == r \in Providers(C) /\ InStep(r) /\ Owed(r.finals) = Owed(p.finals)

\* A new provider.
LEMMA OpenedIs ==
    ASSUME NEW C
    PROVE  Opened \in Providers(C) /\ InStep(Opened) /\ Owed(Opened.finals) = 0
<1>1. Len(<<>>) = 0 /\ <<>> \in Seq(Items(C)) /\ <<>> \in Seq(SocketItems(C))
  OBVIOUS
<1>2. Dones(<<>>) = 0
  BY NoneInEmpty
<1>3. All(<<>>, SocketFinalize) = 0
  BY NoneInEmpty
<1>4. Finals0 \in FinalsOf(C)
  BY <1>1 DEF Finals0, FinalsOf
<1>5. Opened \in Providers(C)
  BY <1>1, <1>4 DEF Opened, Providers
<1>6. InStep(Opened)
  BY <1>1, <1>3 DEF Opened, InStep
<1>7. Owed(Finals0) = 0
  BY <1>2 DEF Finals0, Owed
<1>. QED  BY <1>5, <1>6, <1>7 DEF Opened

\* What goes through the socket.
LEMMA SocketIs ==
    ASSUME NEW C
    PROVE  /\ SocketFinalize \in SocketItems(C)
           /\ \A c \in C : SocketAudio(c) \in SocketItems(C) /\ SocketAudio(c) # SocketFinalize
           /\ \A x \in SocketItems(C) : /\ x.chunk \in SUBSET C
                                        /\ x.kind = "audio" <=> x # SocketFinalize
<1>1. SocketFinalize \in SocketItems(C) /\ \A c \in C : SocketAudio(c) \in SocketItems(C)
  BY DEF SocketItems
<1>2. SocketFinalize.kind = "finalize" /\ SocketFinalize.chunk = {}
  BY DEF SocketFinalize
<1>3. \A c \in C : SocketAudio(c).kind = "audio" /\ SocketAudio(c).chunk = {c}
  BY DEF SocketAudio
<1>4. \A c \in C : SocketAudio(c) # SocketFinalize
  BY <1>2, <1>3
<1>5. ASSUME NEW x \in SocketItems(C)
      PROVE  x.chunk \in SUBSET C /\ (x.kind = "audio" <=> x # SocketFinalize)
  <2>1. x = SocketFinalize \/ \E c \in C : x = SocketAudio(c)
    BY DEF SocketItems
  <2>. QED  BY <1>2, <1>3, <2>1
<1>. QED  BY <1>1, <1>4, <1>5

\* PushAudio.
LEMMA PushKeeps ==
    ASSUME NEW C, NEW p \in Providers(C), InStep(p), NEW chunk \in C
    PROVE  Kept(C, p, PushAudio(p, chunk))
<1>. DEFINE item == SocketAudio(chunk)
            sent == Append(p.socket, item)
<1>1. /\ p.socket \in Seq(SocketItems(C)) /\ p.pushed \in Nat /\ p.position \in Nat
      /\ p.finals \in FinalsOf(C)
  BY DEF Providers
<1>2. item \in SocketItems(C) /\ item # SocketFinalize
  BY SocketIs
<1>3. PushAudio(p, chunk) = IF ~p.alive THEN p ELSE [p EXCEPT !.socket = sent, !.pushed = p.pushed + 1]
  BY DEF PushAudio
<1>. HIDE DEF item
<1>4. sent \in Seq(SocketItems(C)) /\ Len(sent) = Len(p.socket) + 1 /\ Len(p.socket) \in Nat
  BY <1>1, <1>2
<1>5. All(sent, SocketFinalize) = All(p.socket, SocketFinalize) + 0
  BY <1>1, <1>2, AllNext
<1>6. All(p.socket, SocketFinalize) \in Nat
  BY <1>1, AllNat
<1>. HIDE DEF sent
<1>. DEFINE r == [p EXCEPT !.socket = sent, !.pushed = p.pushed + 1]
<1>7. r \in Providers(C)
  <2>1. p.pushed + 1 \in Nat
    BY <1>1
  <2>. QED  BY <1>4, <2>1 DEF Providers
<1>8. r.socket = sent /\ r.pushed = p.pushed + 1 /\ r.position = p.position /\ r.finals = p.finals
  BY DEF Providers
<1>. HIDE DEF r
<1>9. InStep(r)
  BY <1>1, <1>4, <1>5, <1>6, <1>8 DEF InStep
<1>10. Kept(C, p, r) /\ Kept(C, p, p)
  BY <1>7, <1>8, <1>9 DEF Kept
<1>. QED  BY <1>3, <1>10 DEF r

\* A request owes one more marker.
LEMMA RequestOwesOne ==
    ASSUME NEW C, NEW p \in Providers(C), InStep(p)
    PROVE  LET r == RequestFinalize(p)
           IN  r \in Providers(C) /\ InStep(r) /\ Owed(r.finals) = Owed(p.finals) + 1
<1>. DEFINE requested == Request(p.finals)
            answered == Answer(requested, 1)
            sent == Append(p.socket, SocketFinalize)
<1>1. /\ p.socket \in Seq(SocketItems(C)) /\ p.pushed \in Nat /\ p.position \in Nat
      /\ p.finals \in FinalsOf(C) /\ p.finals.queue \in Seq(Items(C)) /\ p.finals.pending \in Nat
  BY DEF Providers, FinalsOf
<1>2. requested \in FinalsOf(C) /\ Owed(requested) = Owed(p.finals) + 1 /\ requested.pending = p.finals.pending + 1
  <2>1. requested = [p.finals EXCEPT !.pending = p.finals.pending + 1]
    BY DEF Request
  <2>2. Dones(p.finals.queue) \in Nat
    BY <1>1, DonesIsAll
  <2>3. p.finals.pending + 1 \in Nat
    BY <1>1
  <2>4. requested \in FinalsOf(C)
    BY <1>1, <2>1, <2>3 DEF FinalsOf
  <2>5. requested.queue = p.finals.queue /\ requested.pending = p.finals.pending + 1
    BY <1>1, <2>1 DEF FinalsOf
  <2>. HIDE DEF requested
  <2>. QED  BY <1>1, <2>2, <2>4, <2>5 DEF Owed
<1>. HIDE DEF requested
<1>3. answered \in FinalsOf(C) /\ Owed(answered) = Owed(requested)
  <2>1. 1 \in 0 .. requested.pending
    BY <1>1, <1>2
  <2>. QED  BY <1>2, <2>1, AnswerOwesTheSame
<1>. HIDE DEF answered
<1>4. sent \in Seq(SocketItems(C)) /\ Len(sent) = Len(p.socket) + 1 /\ Len(p.socket) \in Nat
  BY <1>1, SocketIs
<1>5. All(sent, SocketFinalize) = All(p.socket, SocketFinalize) + 1
  BY <1>1, SocketIs, AllNext
<1>6. All(p.socket, SocketFinalize) \in Nat
  BY <1>1, AllNat
<1>. HIDE DEF sent
<1>. DEFINE r1 == [p EXCEPT !.finals = answered]
            r2 == [p EXCEPT !.finals = requested, !.boundary = p.pushed, !.socket = sent]
<1>7. RequestFinalize(p) = r1 \/ RequestFinalize(p) = r2
  BY DEF RequestFinalize, requested, answered, sent
<1>8. r1 \in Providers(C) /\ r2 \in Providers(C)
  BY <1>1, <1>2, <1>3, <1>4 DEF Providers
<1>9. /\ r1.finals = answered /\ r1.socket = p.socket /\ r1.position = p.position /\ r1.pushed = p.pushed
      /\ r2.finals = requested /\ r2.socket = sent /\ r2.position = p.position /\ r2.pushed = p.pushed
  BY DEF Providers
<1>. HIDE DEF r1, r2
<1>10. InStep(r1) /\ InStep(r2)
  BY <1>1, <1>4, <1>5, <1>6, <1>9 DEF InStep
<1>. QED  BY <1>2, <1>3, <1>7, <1>8, <1>9, <1>10

\* The books alone change.
LEMMA BooksKept ==
    ASSUME NEW C, NEW p \in Providers(C), InStep(p), NEW f \in FinalsOf(C), Owed(f) = Owed(p.finals),
           NEW h \in SUBSET C
    PROVE  Kept(C, p, [p EXCEPT !.finals = f, !.heard = h]) /\ Kept(C, p, [p EXCEPT !.finals = f])
<1>. DEFINE r1 == [p EXCEPT !.finals = f, !.heard = h]
            r2 == [p EXCEPT !.finals = f]
<1>1. r1 \in Providers(C) /\ r2 \in Providers(C)
  BY DEF Providers
<1>2. /\ r1.finals = f /\ r1.socket = p.socket /\ r1.position = p.position /\ r1.pushed = p.pushed
      /\ r2.finals = f /\ r2.socket = p.socket /\ r2.position = p.position /\ r2.pushed = p.pushed
  BY DEF Providers
<1>. HIDE DEF r1, r2
<1>3. Kept(C, p, r1) /\ Kept(C, p, r2)
  BY <1>1, <1>2 DEF Kept, InStep
<1>. QED  BY <1>3 DEF r1, r2

\* ConnectionLost.
LEMMA LostKeeps ==
    ASSUME NEW C, NEW p \in Providers(C), InStep(p)
    PROVE  Kept(C, p, ConnectionLost(p))
<1>. DEFINE f == Lost(p.finals)
            r == [p EXCEPT !.alive = FALSE, !.finals = f, !.socket = <<>>, !.heard = {}]
<1>1. ConnectionLost(p) = r
  BY DEF ConnectionLost
<1>2. p.finals \in FinalsOf(C) /\ p.socket \in Seq(SocketItems(C)) /\ p.position \in Nat /\ p.pushed \in Nat
  BY DEF Providers
<1>3. f \in FinalsOf(C) /\ Owed(f) = Owed(p.finals)
  BY <1>2, LostOwesTheSame
<1>. HIDE DEF f
<1>4. Len(<<>>) = 0 /\ <<>> \in Seq(SocketItems(C))
  OBVIOUS
<1>5. r \in Providers(C)
  BY <1>3, <1>4 DEF Providers
<1>6. r.finals = f /\ r.socket = <<>> /\ r.position = p.position /\ r.pushed = p.pushed
  BY DEF Providers
<1>7. All(<<>>, SocketFinalize) = 0
  BY NoneInEmpty
<1>8. All(p.socket, SocketFinalize) <= Len(p.socket) /\ All(p.socket, SocketFinalize) \in Nat /\ Len(p.socket) \in Nat
  BY <1>2, AllNat
<1>. HIDE DEF r
<1>9. InStep(r)
  BY <1>2, <1>4, <1>6, <1>7, <1>8 DEF InStep
<1>. QED  BY <1>1, <1>3, <1>5, <1>6, <1>9 DEF Kept

\* The vendor takes the next of the socket, or speaks.
LEMMA VendorKeeps ==
    ASSUME NEW C, NEW p \in Providers(C), InStep(p)
    PROVE  /\ Kept(C, p, VendorSegments(p)) /\ Kept(C, p, VendorInterims(p))
           /\ p.socket # <<>> /\ Head(p.socket).kind = "audio" => Kept(C, p, VendorHears(p))
           /\ p.socket # <<>> /\ Head(p.socket).kind # "audio" => Kept(C, p, VendorFinalizes(p))
<1>1. /\ p.finals \in FinalsOf(C) /\ p.socket \in Seq(SocketItems(C)) /\ p.position \in Nat /\ p.pushed \in Nat
      /\ p.heard \in SUBSET C /\ p.finals.pending \in Nat
  BY DEF Providers, FinalsOf
<1>. DEFINE seg == Segment(p.finals, p.heard)
            int == Interim(p.finals, p.heard)
<1>2. seg \in FinalsOf(C) /\ int \in FinalsOf(C) /\ Owed(seg) = Owed(p.finals) /\ Owed(int) = Owed(p.finals)
      /\ seg.pending = p.finals.pending
  BY <1>1, TextOwesNothing
<1>3. Kept(C, p, VendorSegments(p))
  <2>. DEFINE f == OnSegment(p)
  <2>1. f \in FinalsOf(C) /\ Owed(f) = Owed(p.finals)
    BY <1>1, <1>2 DEF OnSegment
  <2>. HIDE DEF f
  <2>2. Kept(C, p, [p EXCEPT !.finals = f, !.heard = {}])
    BY <2>1, BooksKept
  <2>. QED  BY <2>2 DEF VendorSegments, f
<1>4. Kept(C, p, VendorInterims(p))
  <2>. DEFINE f == OnInterim(p)
  <2>1. f \in FinalsOf(C) /\ Owed(f) = Owed(p.finals)
    BY <1>1, <1>2 DEF OnInterim
  <2>. HIDE DEF f
  <2>2. Kept(C, p, [p EXCEPT !.finals = f])
    BY <2>1, BooksKept
  <2>. QED  BY <2>2 DEF VendorInterims, f
<1>. HIDE DEF int
<1>5. ASSUME p.socket # <<>> PROVE
        /\ Tail(p.socket) \in Seq(SocketItems(C)) /\ Len(p.socket) = Len(Tail(p.socket)) + 1
        /\ Head(p.socket) \in SocketItems(C) /\ Len(Tail(p.socket)) \in Nat
        /\ All(Tail(p.socket), SocketFinalize) \in Nat
        /\ All(p.socket, SocketFinalize)
             = All(Tail(p.socket), SocketFinalize) + (IF Head(p.socket) = SocketFinalize THEN 1 ELSE 0)
  <2>1. /\ Tail(p.socket) \in Seq(SocketItems(C)) /\ Len(p.socket) = Len(Tail(p.socket)) + 1
        /\ Head(p.socket) \in SocketItems(C) /\ Len(Tail(p.socket)) \in Nat
    BY <1>1, <1>5
  <2>2. All(Tail(p.socket), SocketFinalize) \in Nat
    BY <2>1, AllNat
  <2>. QED  BY <1>1, <1>5, <2>1, <2>2, AllRest
<1>6. ASSUME p.socket # <<>>, Head(p.socket).kind = "audio" PROVE Kept(C, p, VendorHears(p))
  <2>. DEFINE t == Tail(p.socket)
              h == p.heard \union Head(p.socket).chunk
              r == [p EXCEPT !.socket = t, !.heard = h, !.position = p.position + 1]
  <2>1. VendorHears(p) = r
    BY DEF VendorHears, VendorTakes, Providers
  <2>2. h \in SUBSET C /\ Head(p.socket) # SocketFinalize
    BY <1>1, <1>5, <1>6, SocketIs
  <2>3. t \in Seq(SocketItems(C))
    BY <1>5, <1>6
  <2>. HIDE DEF t, h
  <2>4. r \in Providers(C)
    <3>1. p.position + 1 \in Nat
      BY <1>1
    <3>. QED  BY <2>2, <2>3, <3>1 DEF Providers
  <2>5. r.finals = p.finals /\ r.socket = t /\ r.position = p.position + 1 /\ r.pushed = p.pushed
    BY DEF Providers
  <2>. HIDE DEF r
  <2>6. InStep(r)
    BY <1>1, <1>5, <1>6, <2>2, <2>5 DEF InStep, t
  <2>. QED  BY <2>1, <2>4, <2>5, <2>6 DEF Kept
<1>7. ASSUME p.socket # <<>>, Head(p.socket).kind # "audio" PROVE Kept(C, p, VendorFinalizes(p))
  <2>. DEFINE t == Tail(p.socket)
              f == OnFinalizeAnswer(p.finals, p.heard)
              r == [p EXCEPT !.socket = t, !.finals = f, !.heard = {}]
  <2>1. VendorFinalizes(p) = r
    BY DEF VendorFinalizes, VendorTakes, Providers
  <2>2. f \in FinalsOf(C) /\ Owed(f) = Owed(p.finals)
    <3>1. CASE p.finals.pending = 0
      BY <1>1, <3>1 DEF OnFinalizeAnswer
    <3>2. CASE p.finals.pending # 0
      <4>1. 1 \in 0 .. seg.pending
        BY <1>1, <1>2, <3>2
      <4>2. f = Answer(seg, 1)
        BY <3>2 DEF OnFinalizeAnswer
      <4>. HIDE DEF seg, f
      <4>3. Answer(seg, 1) \in FinalsOf(C) /\ Owed(Answer(seg, 1)) = Owed(seg)
        BY <1>2, <4>1, AnswerOwesTheSame
      <4>. QED  BY <1>2, <4>2, <4>3
    <3>. QED  BY <3>1, <3>2
  <2>3. t \in Seq(SocketItems(C)) /\ Head(p.socket) = SocketFinalize
    BY <1>5, <1>7, SocketIs
  <2>. HIDE DEF t, f
  <2>4. r \in Providers(C)
    BY <2>2, <2>3 DEF Providers
  <2>5. r.finals = f /\ r.socket = t /\ r.position = p.position /\ r.pushed = p.pushed
    BY DEF Providers
  <2>. HIDE DEF r
  <2>6. InStep(r)
    BY <1>1, <1>5, <1>7, <2>3, <2>5 DEF InStep, t
  <2>. QED  BY <2>1, <2>2, <2>4, <2>5, <2>6 DEF Kept
<1>. QED  BY <1>3, <1>4, <1>6, <1>7

-----------------------------------------------------------------------------
(* What the actor has told, and the ledger of the finalizes it waits for. *)

\* Chunks pushed to the provider of generation g.
Under(g) == Keys \X Nat \X {g}

Entries(g) == [key : Keys, gen : {g}, timed_out : BOOLEAN]

\* Transcripts with the generation of the provider that heard them, and Swaps
\* and Barriers reached with no utterance waiting for its answer.
Reports ==
    {h \in [key : Keys \union {NoKey}, gen : Nat, chunk : Keys \X Nat \X Nat, final : BOOLEAN, live : BOOLEAN] :
       h.gen = h.chunk[3]}
Reaches ==
    [cmd : {"swap", "barrier"}, by : {"close", "idle", "wait_stt_idle"}, owing : {{}}, midway : BOOLEAN]
ToldOf ==
    [ended : SUBSET Keys, closed : Seq(Keys), refused : SUBSET Keys, timed_out : SUBSET Keys,
     gave_up : SUBSET {"provider", "actor"}, heard : SUBSET Reports, reached : SUBSET Reaches]

\* Waiting entries are unanswered utterances, in order, behind the timed-out ones.
InTurn(entries) ==
    \A i, j \in DOMAIN entries : i < j => /\ entries[i].key < entries[j].key
                                          /\ entries[j].timed_out => entries[i].timed_out
Booked(entries, t) ==
    \A i \in DOMAIN entries : /\ entries[i].key \in t.ended \ t.refused
                              /\ entries[i].timed_out <=> entries[i].key \in ToSet(t.closed)
AllAccounted(entries, t) ==
    \A k \in t.ended : k \in ToSet(t.closed) \/ \E i \in DOMAIN entries : entries[i].key = k
ClosedBefore(entries, t) ==
    \A j \in DOMAIN t.closed, i \in DOMAIN entries :
      t.closed[j] \notin t.refused /\ ~entries[i].timed_out => t.closed[j] < entries[i].key
ClosedWell(t) ==
    /\ ToSet(t.closed) \subseteq t.ended /\ t.refused \subseteq t.ended
    /\ IsInjective(t.closed)
    /\ \A i, j \in DOMAIN t.closed :
         i < j /\ t.closed[i] \notin t.refused /\ t.closed[j] \notin t.refused => t.closed[i] < t.closed[j]
Ledger(entries, t) ==
    /\ InTurn(entries) /\ Booked(entries, t) /\ AllAccounted(entries, t)
    /\ ClosedBefore(entries, t) /\ ClosedWell(t)

\* The keys of a longer list.
LEMMA ClosedNext ==
    ASSUME NEW s \in Seq(Keys), NEW k \in Keys
    PROVE  /\ Append(s, k) \in Seq(Keys) /\ ToSet(Append(s, k)) = ToSet(s) \union {k}
           /\ DOMAIN Append(s, k) = DOMAIN s \union {Len(s) + 1}
           /\ Append(s, k)[Len(s) + 1] = k
           /\ \A i \in DOMAIN s : Append(s, k)[i] = s[i] /\ i < Len(s) + 1 /\ i \in Int
<1>. DEFINE r == Append(s, k)
<1>1. /\ r \in Seq(Keys) /\ Len(r) = Len(s) + 1 /\ Len(s) \in Nat /\ r[Len(s) + 1] = k
      /\ \A i \in 1 .. Len(s) : r[i] = s[i]
  OBVIOUS
<1>2. DOMAIN s = 1 .. Len(s) /\ DOMAIN r = 1 .. Len(s) + 1
  BY <1>1
<1>. HIDE DEF r
<1>3. DOMAIN r = DOMAIN s \union {Len(s) + 1}
  BY <1>1, <1>2
<1>4. ToSet(r) = ToSet(s) \union {k}
  BY <1>1, <1>2, <1>3 DEF ToSet
<1>. QED  BY <1>1, <1>2, <1>3, <1>4 DEF r

\* Keys are positive.
LEMMA KeysAre == Keys \subseteq Nat /\ NoKey \notin Keys
  BY DEF Keys, NoKey

\* An unanswered utterance is closed, its entry gone or timed out (`left` holds
\* what then still waits).
LEMMA ClosingKeeps ==
    ASSUME NEW t \in ToldOf, NEW entries, ClosedWell(t), NEW k \in t.ended \ ToSet(t.closed),
           \A j \in DOMAIN t.closed : t.closed[j] \notin t.refused /\ k \notin t.refused => t.closed[j] < k
    PROVE  Close(t, k) \in ToldOf /\ ClosedWell(Close(t, k))
<1>. DEFINE s == t.closed
            r == Append(s, k)
            c == [t EXCEPT !.closed = r]
<1>1. Close(t, k) = c
  BY DEF Close
<1>2. s \in Seq(Keys) /\ k \in Keys
  BY DEF ToldOf
<1>3. /\ r \in Seq(Keys) /\ ToSet(r) = ToSet(s) \union {k}
      /\ DOMAIN r = DOMAIN s \union {Len(s) + 1} /\ r[Len(s) + 1] = k /\ Len(s) + 1 \in Int
      /\ \A i \in DOMAIN s : r[i] = s[i] /\ i < Len(s) + 1 /\ i \in Int
  BY <1>2, ClosedNext
<1>. HIDE DEF r
<1>4. c \in ToldOf
  BY <1>3 DEF ToldOf
<1>5. c.closed = r /\ c.ended = t.ended /\ c.refused = t.refused
  BY DEF ToldOf
<1>. HIDE DEF c
<1>6. IsInjective(r)
  <2>1. \A a, b \in DOMAIN s : s[a] = s[b] => a = b
    BY DEF ClosedWell, IsInjective
  <2>2. \A a \in DOMAIN s : s[a] # k
    BY DEF ToSet
  <2>. QED  BY <1>3, <2>1, <2>2 DEF IsInjective
<1>7. \A i, j \in DOMAIN r : i < j /\ r[i] \notin t.refused /\ r[j] \notin t.refused => r[i] < r[j]
  <2>. TAKE i, j \in DOMAIN r
  <2>. HAVE i < j /\ r[i] \notin t.refused /\ r[j] \notin t.refused
  <2>1. i \in DOMAIN s
    BY <1>3
  <2>2. CASE j \in DOMAIN s
    BY <1>3, <2>1, <2>2 DEF ClosedWell
  <2>3. CASE j = Len(s) + 1
    BY <1>3, <2>1, <2>3
  <2>. QED  BY <1>3, <2>2, <2>3
<1>8. ToSet(r) \subseteq t.ended
  BY <1>3 DEF ClosedWell
<1>. QED  BY <1>1, <1>4, <1>5, <1>6, <1>7, <1>8 DEF ClosedWell

\* What a transcript adds.
LEMMA TranscriptIs ==
    ASSUME NEW t \in ToldOf, gen \in Nat, NEW entries \in Seq(Entries(gen)), NEW item \in Items(Under(gen))
    PROVE  /\ Transcript(t, entries, item) \in ToldOf
           /\ \E heard : Transcript(t, entries, item) = [t EXCEPT !.heard = heard]
<1>. DEFINE key == IF entries = <<>> THEN NoKey ELSE FrontEntry(entries).key
            under == IF entries = <<>> THEN gen ELSE FrontEntry(entries).gen
            report(c) == [key |-> key, gen |-> under, chunk |-> c, final |-> item.kind = "final",
                          live |-> c[1] \notin t.ended]
            new == {report(c) : c \in item.text}
<1>1. Transcript(t, entries, item) = [t EXCEPT !.heard = t.heard \union new]
  BY DEF Transcript
<1>2. key \in Keys \union {NoKey} /\ under = gen
  <2>1. entries # <<>> => entries[1] \in Entries(gen)
    OBVIOUS
  <2>. QED  BY <2>1 DEF FrontEntry, Entries
<1>3. new \in SUBSET Reports
  <2>1. ASSUME NEW c \in item.text PROVE report(c) \in Reports
    <3>1. c \in Keys \X Nat \X {gen}
      BY ItemsAre DEF Under
    <3>2. c \in Keys \X Nat \X Nat /\ c[3] = gen
      BY <3>1
    <3>3. (item.kind = "final") \in BOOLEAN /\ (c[1] \notin t.ended) \in BOOLEAN
      OBVIOUS
    <3>. DEFINE final == item.kind = "final"
                live == c[1] \notin t.ended
    <3>. HIDE DEF key, under
    <3>4. [key |-> key, gen |-> under, chunk |-> c, final |-> final, live |-> live]
             \in [key : Keys \union {NoKey}, gen : Nat, chunk : Keys \X Nat \X Nat, final : BOOLEAN, live : BOOLEAN]
      <4>. HIDE DEF final, live
      <4>1. final \in BOOLEAN /\ live \in BOOLEAN
        BY <3>3 DEF final, live
      <4>. QED  BY <1>2, <3>2, <4>1
    <3>5. report(c).gen = report(c).chunk[3]
      BY <1>2, <3>2
    <3>. QED  BY <3>4, <3>5 DEF Reports
  <2>. QED  BY <2>1
<1>. HIDE DEF new
<1>. QED  BY <1>1, <1>3 DEF ToldOf

-----------------------------------------------------------------------------
(* Delivering what was polled. *)

SameEnds(t, r) ==
    /\ r.ended = t.ended /\ r.refused = t.refused /\ r.timed_out = t.timed_out
    /\ r.gave_up = t.gave_up /\ r.reached = t.reached

\* The ledger reads no more of what was told than this.
LEMMA LedgerOfTheSame ==
    ASSUME NEW entries, NEW t, NEW r, Ledger(entries, t), r.ended = t.ended, r.refused = t.refused, r.closed = t.closed
    PROVE  Ledger(entries, r)
  BY DEF Ledger, Booked, AllAccounted, ClosedBefore, ClosedWell

\* The tail of a sequence.
LEMMA TailIs ==
    ASSUME NEW S, NEW e \in Seq(S), e # <<>>
    PROVE  /\ Tail(e) \in Seq(S) /\ Head(e) = e[1] /\ 1 \in DOMAIN e /\ Len(Tail(e)) = Len(e) - 1
           /\ \A i \in DOMAIN Tail(e) : i + 1 \in DOMAIN e /\ Tail(e)[i] = e[i + 1] /\ 1 < i + 1 /\ i \in Int
           /\ \A i \in DOMAIN e : i # 1 => i - 1 \in DOMAIN Tail(e) /\ Tail(e)[i - 1] = e[i]
           /\ \A i, j \in DOMAIN Tail(e) : i < j => i + 1 < j + 1
<1>. DEFINE t == Tail(e)
<1>1. /\ t \in Seq(S) /\ Len(t) = Len(e) - 1 /\ Len(e) \in Nat /\ Head(e) = e[1] /\ Len(e) >= 1
      /\ \A i \in 1 .. Len(t) : t[i] = e[i + 1]
  OBVIOUS
<1>2. DOMAIN t = 1 .. Len(t) /\ DOMAIN e = 1 .. Len(e)
  OBVIOUS
<1>. HIDE DEF t
<1>3. \A i \in DOMAIN e : i # 1 => i - 1 \in DOMAIN t /\ t[i - 1] = e[i]
  <2>. TAKE i \in DOMAIN e
  <2>. HAVE i # 1
  <2>1. i - 1 \in 1 .. Len(t) /\ (i - 1) + 1 = i
    BY <1>1, <1>2
  <2>. QED  BY <1>1, <1>2, <2>1
<1>. QED  BY <1>1, <1>2, <1>3 DEF t

\* The front entry is answered.
LEMMA AnsweredKeeps ==
    ASSUME NEW g, NEW e \in Seq(Entries(g)), e # <<>>, NEW t \in ToldOf, Ledger(e, t),
           NEW r, r = IF Head(e).timed_out THEN t ELSE Close(t, Head(e).key)
    PROVE  r \in ToldOf /\ SameEnds(t, r) /\ Ledger(Tail(e), r)
<1>. DEFINE f == Tail(e)
            k == e[1].key
<1>1. /\ f \in Seq(Entries(g)) /\ Head(e) = e[1] /\ 1 \in DOMAIN e
      /\ \A i \in DOMAIN f : i + 1 \in DOMAIN e /\ f[i] = e[i + 1] /\ 1 < i + 1 /\ i \in Int
      /\ \A i \in DOMAIN e : i # 1 => i - 1 \in DOMAIN f /\ f[i - 1] = e[i]
      /\ \A i, j \in DOMAIN f : i < j => i + 1 < j + 1
  BY TailIs
<1>2. \A i \in DOMAIN e : e[i] \in Entries(g) /\ e[i].key \in Keys
  <2>1. \A i \in DOMAIN e : e[i] \in Entries(g)
    OBVIOUS
  <2>. QED  BY <2>1 DEF Entries
<1>. HIDE DEF f
<1>3. /\ InTurn(e) /\ Booked(e, t) /\ AllAccounted(e, t) /\ ClosedBefore(e, t) /\ ClosedWell(t)
  BY DEF Ledger
<1>4. InTurn(f)
  BY <1>1, <1>3 DEF InTurn
<1>5. CASE e[1].timed_out
  <2>1. r = t
    BY <1>1, <1>5
  <2>2. Booked(f, t) /\ ClosedBefore(f, t)
    BY <1>1, <1>3 DEF Booked, ClosedBefore
  <2>3. k \in ToSet(t.closed)
    BY <1>1, <1>3, <1>5 DEF Booked
  <2>4. AllAccounted(f, t)
    <3>1. ASSUME NEW x \in t.ended, x \notin ToSet(t.closed)
          PROVE  \E i \in DOMAIN f : f[i].key = x
      <4>1. PICK i \in DOMAIN e : e[i].key = x
        BY <1>3, <3>1 DEF AllAccounted
      <4>2. i # 1
        BY <2>3, <3>1, <4>1
      <4>. QED  BY <1>1, <4>1, <4>2
    <3>. QED  BY <3>1 DEF AllAccounted
  <2>. QED  BY <1>3, <1>4, <2>1, <2>2, <2>4 DEF Ledger, SameEnds, f
<1>6. CASE ~e[1].timed_out
  <2>1. r = Close(t, k)
    BY <1>1, <1>6
  <2>2. k \in t.ended \ ToSet(t.closed) /\ k \notin t.refused /\ k \in Keys
    BY <1>1, <1>2, <1>3, <1>6 DEF Booked
  <2>3. \A j \in DOMAIN t.closed : t.closed[j] \notin t.refused => t.closed[j] < k
    BY <1>1, <1>3, <1>6 DEF ClosedBefore
  <2>4. \A i \in DOMAIN f : f[i].key # k /\ k < f[i].key
    <3>. TAKE i \in DOMAIN f
    <3>1. e[1].key < e[i + 1].key
      BY <1>1, <1>3 DEF InTurn
    <3>2. e[1].key \in Nat /\ e[i + 1].key \in Nat
      BY <1>1, <1>2, KeysAre
    <3>. QED  BY <1>1, <3>1, <3>2
  <2>. HIDE DEF k
  <2>5. r \in ToldOf /\ ClosedWell(r)
    BY <1>3, <2>1, <2>2, <2>3, ClosingKeeps
  <2>6. r = [t EXCEPT !.closed = Append(t.closed, k)]
    BY <2>1 DEF Close
  <2>7. /\ r.closed = Append(t.closed, k) /\ SameEnds(t, r)
    BY <2>6 DEF ToldOf, SameEnds
  <2>8. t.closed \in Seq(Keys)
    BY DEF ToldOf
  <2>9. /\ ToSet(r.closed) = ToSet(t.closed) \union {k}
        /\ DOMAIN r.closed = DOMAIN t.closed \union {Len(t.closed) + 1} /\ r.closed[Len(t.closed) + 1] = k
        /\ \A i \in DOMAIN t.closed : r.closed[i] = t.closed[i]
    <3>. DEFINE s == t.closed
    <3>. HIDE DEF s
    <3>1. /\ ToSet(Append(s, k)) = ToSet(s) \union {k}
          /\ DOMAIN Append(s, k) = DOMAIN s \union {Len(s) + 1} /\ Append(s, k)[Len(s) + 1] = k
          /\ \A i \in DOMAIN s : Append(s, k)[i] = s[i]
      BY <2>2, <2>8, ClosedNext DEF s
    <3>2. r.closed = Append(s, k)
      BY <2>7 DEF s
    <3>. QED  BY <3>1, <3>2 DEF s
  <2>10. Booked(f, r)
    BY <1>1, <1>3, <2>4, <2>7, <2>9 DEF Booked, SameEnds
  <2>11. AllAccounted(f, r)
    <3>1. ASSUME NEW x \in r.ended, x \notin ToSet(r.closed)
          PROVE  \E i \in DOMAIN f : f[i].key = x
      <4>1. PICK i \in DOMAIN e : e[i].key = x
        BY <1>3, <2>7, <2>9, <3>1 DEF AllAccounted, SameEnds
      <4>2. i # 1
        BY <2>9, <3>1, <4>1 DEF k
      <4>. QED  BY <1>1, <4>1, <4>2
    <3>. QED  BY <3>1 DEF AllAccounted
  <2>12. ClosedBefore(f, r)
    <3>1. ASSUME NEW j \in DOMAIN r.closed, NEW i \in DOMAIN f, r.closed[j] \notin r.refused, ~f[i].timed_out
          PROVE  r.closed[j] < f[i].key
      <4>1. CASE j \in DOMAIN t.closed
        BY <1>1, <1>3, <2>7, <2>9, <3>1, <4>1 DEF ClosedBefore, SameEnds
      <4>2. CASE j = Len(t.closed) + 1
        BY <2>4, <2>9, <4>2
      <4>. QED  BY <2>9, <4>1, <4>2
    <3>. QED  BY <3>1 DEF ClosedBefore
  <2>. QED  BY <1>4, <2>5, <2>7, <2>10, <2>11, <2>12 DEF Ledger, f
<1>. QED  BY <1>5, <1>6 DEF f

Accs(g) == {acc \in [entries : Seq(Entries(g)), told : ToldOf] : Ledger(acc.entries, acc.told)}

\* One item delivered.
LEMMA DeliverKeeps ==
    ASSUME gen \in Nat, NEW acc \in Accs(gen), NEW item \in Items(Under(gen))
    PROVE  /\ Deliver(acc, item) \in Accs(gen)
           /\ SameEnds(acc.told, Deliver(acc, item).told)
           /\ Len(Deliver(acc, item).entries) =
                IF item = FinalizeDone /\ acc.entries # <<>> THEN Len(acc.entries) - 1 ELSE Len(acc.entries)
<1>. DEFINE e == acc.entries
            t == acc.told
            d == Deliver(acc, item)
<1>1. /\ e \in Seq(Entries(gen)) /\ t \in ToldOf /\ Ledger(e, t)
      /\ acc \in [entries : Seq(Entries(gen)), told : ToldOf] /\ acc = [entries |-> e, told |-> t]
  BY DEF Accs
<1>2. CASE item # FinalizeDone
  <2>. DEFINE r == Transcript(t, e, item)
  <2>1. item.kind # "done"
    BY <1>2, ItemsAre
  <2>2. d = [acc EXCEPT !.told = r]
    BY <2>1 DEF Deliver
  <2>3. r \in ToldOf /\ \E heard : r = [t EXCEPT !.heard = heard]
    BY <1>1, TranscriptIs
  <2>4. SameEnds(t, r) /\ r.closed = t.closed
    BY <1>1, <2>3 DEF ToldOf, SameEnds
  <2>. HIDE DEF r
  <2>5. Ledger(e, r)
    BY <1>1, <2>4, LedgerOfTheSame DEF SameEnds
  <2>6. d.entries = e /\ d.told = r /\ d \in [entries : Seq(Entries(gen)), told : ToldOf]
    BY <1>1, <2>2, <2>3
  <2>. QED  BY <1>2, <2>4, <2>5, <2>6 DEF Accs
<1>3. CASE item = FinalizeDone /\ e = <<>>
  <2>1. d = acc
    BY <1>3 DEF Deliver, FinalizeDone
  <2>. QED  BY <1>3, <2>1 DEF SameEnds
<1>4. CASE item = FinalizeDone /\ e # <<>>
  <2>. DEFINE r == IF Head(e).timed_out THEN t ELSE Close(t, Head(e).key)
  <2>1. d = [entries |-> Tail(e), told |-> r]
    BY <1>4 DEF Deliver, FinalizeDone
  <2>2. Tail(e) \in Seq(Entries(gen)) /\ Len(Tail(e)) = Len(e) - 1
    BY <1>1, <1>4, TailIs
  <2>3. r \in ToldOf /\ SameEnds(t, r) /\ Ledger(Tail(e), r)
    <3>. DEFINE q == r
    <3>1. q = IF Head(e).timed_out THEN t ELSE Close(t, Head(e).key)
      OBVIOUS
    <3>. HIDE DEF q
    <3>2. q \in ToldOf /\ SameEnds(t, q) /\ Ledger(Tail(e), q)
      BY <1>1, <1>4, <3>1, AnsweredKeeps
    <3>. QED  BY <3>2 DEF q
  <2>. HIDE DEF r
  <2>4. d.entries = Tail(e) /\ d.told = r /\ d \in [entries : Seq(Entries(gen)), told : ToldOf]
    BY <2>1, <2>2, <2>3
  <2>. HIDE DEF d, e, t
  <2>5. d \in Accs(gen)
    BY <2>3, <2>4 DEF Accs
  <2>6. Len(d.entries) = Len(e) - 1
    BY <2>2, <2>4
  <2>. QED  BY <1>4, <2>3, <2>4, <2>5, <2>6 DEF d, e, t
<1>. QED  BY <1>2, <1>3, <1>4

\* DrainOutputs is the loop over the polled items.
LEMMA DeliveredRuns ==
    ASSUME gen \in Nat, NEW items \in Seq(Items(Under(gen))),
           [entries |-> outstanding, told |-> told] \in Accs(gen)
    PROVE  \E f \in [0 .. Len(items) -> Accs(gen)] :
              /\ f[0] = [entries |-> outstanding, told |-> told]
              /\ \A i \in 1 .. Len(items) : f[i] = Deliver(f[i - 1], items[i])
              /\ Delivered(items) = f[Len(items)]
<1>. DEFINE m == Len(items)
            x == [entries |-> outstanding, told |-> told]
            S == Accs(gen)
            pass == [i \in 1 .. m |-> [acc \in S |-> Deliver(acc, items[i])]]
            step(a) == [i \in 0 .. m |-> IF i = 0 THEN x ELSE Deliver(a[i - 1], items[i])]
            after == CHOOSE a : a = step(a)
            T == {i \in Nat : i <= m => after[i] \in S}
<1>1. m \in Nat /\ \A i \in 1 .. m : items[i] \in Items(Under(gen))
  OBVIOUS
<1>2. Delivered(items) = after[m]
  BY DEF Delivered
<1>. HIDE DEF m
<1>3. x \in S
  OBVIOUS
<1>4. ASSUME NEW acc \in S, NEW i \in 1 .. m PROVE Deliver(acc, items[i]) \in S
  <2>. DEFINE item == items[i]
  <2>1. item \in Items(Under(gen))
    BY <1>1
  <2>. HIDE DEF item
  <2>2. Deliver(acc, item) \in S
    BY <2>1, DeliverKeeps
  <2>. QED  BY <2>2 DEF item
<1>. HIDE DEF x, S
<1>5. \E a : a = step(a)
  <2>1. pass \in [1 .. m -> [S -> S]]
    BY <1>1, <1>4
  <2>2. PICK f : f \in [0 .. m -> S] /\ f[0] = x /\ \A i \in 1 .. m : f[i] = pass[i][f[i - 1]]
    <3>. HIDE DEF pass
    <3>1. \E f : Loop(f, m, S, x, pass)
      BY <1>1, <1>3, <2>1, LoopExists
    <3>. QED  BY <3>1 DEF Loop
  <2>3. \A i \in 1 .. m : f[i] = Deliver(f[i - 1], items[i])
    <3>. TAKE i \in 1 .. m
    <3>1. i - 1 \in 0 .. m  BY <1>1
    <3>. QED  BY <2>2, <3>1
  <2>4. \A i \in 0 .. m : f[i] = step(f)[i]
    <3>. TAKE i \in 0 .. m
    <3>1. CASE i = 0  BY <2>2, <3>1
    <3>2. CASE i # 0
      <4>1. i \in 1 .. m  BY <1>1, <3>2
      <4>. QED  BY <2>3, <3>2, <4>1
    <3>. QED  BY <3>1, <3>2
  <2>5. f = step(f)
    BY <2>2, <2>4
  <2>. QED  BY <2>5
<1>6. after = step(after)
  <2>. HIDE DEF step
  <2>. QED  BY <1>5
<1>. HIDE DEF after
<1>7. after[0] = x /\ \A i \in 1 .. m : after[i] = Deliver(after[i - 1], items[i])
  BY <1>1, <1>6
<1>8. 0 \in T
  BY <1>3, <1>7
<1>9. ASSUME NEW i \in Nat, i \in T PROVE i + 1 \in T
  <2>. SUFFICES ASSUME i + 1 <= m PROVE after[i + 1] \in S
    OBVIOUS
  <2>. DEFINE j == i + 1
  <2>1. j \in 1 .. m /\ j - 1 = i /\ after[i] \in S
    BY <1>1, <1>9
  <2>. HIDE DEF j
  <2>2. after[j] = Deliver(after[i], items[j])
    BY <1>7, <2>1
  <2>. QED  BY <1>4, <2>1, <2>2 DEF j
<1>10. \A i \in 0 .. m : after[i] \in S
  <2>. HIDE DEF T
  <2>1. Nat \subseteq T
    BY <1>8, <1>9, Inductive
  <2>. QED  BY <1>1, <2>1 DEF T
<1>11. after \in [0 .. m -> S]
  <2>1. after = [i \in 0 .. m |-> after[i]]
    BY <1>6
  <2>. QED  BY <1>10, <2>1
<1>. QED  BY <1>2, <1>7, <1>11 DEF m, x, S

-----------------------------------------------------------------------------
(* drain_outputs *)

\* Markers of finalizes still waited for leave the ledger one by one.
LEMMA MarkersPop ==
    ASSUME gen \in Nat, NEW items \in Seq(Items(Under(gen))),
           NEW f \in [0 .. Len(items) -> Accs(gen)],
           \A i \in 1 .. Len(items) : f[i] = Deliver(f[i - 1], items[i])
    PROVE  /\ SameEnds(f[0].told, f[Len(items)].told)
           /\ f[0].entries = <<>> => f[Len(items)].entries = <<>>
           /\ Dones(items) <= Len(f[0].entries)
                => Len(f[Len(items)].entries) = Len(f[0].entries) - Dones(items)
<1>. DEFINE m == Len(items)
            popped(i) == First(items, FinalizeDone, i)
            n == Len(f[0].entries)
            T == {i \in Nat : i <= m =>
                    /\ SameEnds(f[0].told, f[i].told)
                    /\ f[0].entries = <<>> => f[i].entries = <<>>
                    /\ popped(i) <= n => Len(f[i].entries) = n - popped(i)}
<1>1. m \in Nat /\ \A i \in 1 .. m : items[i] \in Items(Under(gen))
  OBVIOUS
<1>2. \A i \in 0 .. m : f[i] \in Accs(gen) /\ f[i].entries \in Seq(Entries(gen)) /\ f[i].told \in ToldOf
  BY DEF Accs
<1>3. n \in Nat
  <2>1. 0 \in 0 .. m
    BY <1>1
  <2>2. f[0].entries \in Seq(Entries(gen))
    BY <1>2, <2>1
  <2>. QED  BY <2>2
<1>4. \A i \in Nat : popped(i) \in Nat
  BY FirstNat
<1>5. Dones(items) = popped(m)
  BY DonesIsAll DEF All
<1>6. \A i \in 1 .. m : f[i] = Deliver(f[i - 1], items[i])
  OBVIOUS
<1>. HIDE DEF m
<1>7. 0 \in T
  <2>1. popped(0) = 0
    <3>1. 0 \in Nat
      OBVIOUS
    <3>. QED  BY <3>1, FirstNat
  <2>. QED  BY <1>3, <2>1 DEF SameEnds
<1>8. ASSUME NEW i \in Nat, i \in T PROVE i + 1 \in T
  <2>. SUFFICES ASSUME i + 1 <= m
                PROVE  /\ SameEnds(f[0].told, f[i + 1].told)
                       /\ f[0].entries = <<>> => f[i + 1].entries = <<>>
                       /\ popped(i + 1) <= n => Len(f[i + 1].entries) = n - popped(i + 1)
    OBVIOUS
  <2>1. i \in 0 .. m /\ i + 1 \in 1 .. m /\ (i + 1) - 1 = i /\ i <= m
    BY <1>1
  <2>2. /\ SameEnds(f[0].told, f[i].told)
        /\ f[0].entries = <<>> => f[i].entries = <<>>
        /\ popped(i) <= n => Len(f[i].entries) = n - popped(i)
    BY <1>8, <2>1
  <2>. DEFINE acc == f[i]
              item == items[i + 1]
              d == f[i + 1]
  <2>3. acc \in Accs(gen) /\ item \in Items(Under(gen)) /\ acc.entries \in Seq(Entries(gen))
    BY <1>1, <1>2, <2>1
  <2>4. d = Deliver(acc, item)
    BY <1>6, <2>1
  <2>5. popped(i + 1) = popped(i) + (IF item = FinalizeDone THEN 1 ELSE 0)
    BY FirstNext
  <2>6. popped(i) \in Nat
    BY <1>4
  <2>7. d \in Accs(gen) /\ d.entries \in Seq(Entries(gen))
    <3>1. i + 1 \in 0 .. m
      BY <2>1
    <3>. QED  BY <1>2, <3>1
  <2>. HIDE DEF item, acc, d
  <2>8. /\ SameEnds(acc.told, d.told)
        /\ Len(d.entries) = IF item = FinalizeDone /\ acc.entries # <<>>
                              THEN Len(acc.entries) - 1 ELSE Len(acc.entries)
    BY <2>3, <2>4, DeliverKeeps
  <2>9. SameEnds(f[0].told, d.told)
    BY <2>2, <2>8 DEF SameEnds, acc
  <2>10. acc.entries = <<>> => d.entries = <<>>
    <3>1. acc.entries = <<>> => Len(d.entries) = 0
      BY <2>8
    <3>. QED  BY <2>7, <3>1
  <2>11. ASSUME popped(i + 1) <= n PROVE Len(d.entries) = n - popped(i + 1)
    <3>. DEFINE p == popped(i)
                q == popped(i + 1)
                a == Len(acc.entries)
    <3>1. p \in Nat /\ q = p + (IF item = FinalizeDone THEN 1 ELSE 0)
      BY <2>5, <2>6
    <3>2. acc.entries = <<>> <=> a = 0
      BY <2>3
    <3>3. p <= n => a = n - p
      BY <2>2 DEF acc
    <3>4. q <= n
      BY <2>11
    <3>5. Len(d.entries) = IF item = FinalizeDone /\ a # 0 THEN a - 1 ELSE a
      BY <2>8, <3>2
    <3>. HIDE DEF p, q, a, n
    <3>6. Len(d.entries) = n - q
      BY <1>3, <3>1, <3>3, <3>4, <3>5
    <3>. QED  BY <3>6 DEF q, n
  <2>. QED  BY <2>2, <2>9, <2>10, <2>11 DEF acc, d
<1>9. m \in T
  <2>. HIDE DEF T
  <2>1. Nat \subseteq T
    BY <1>7, <1>8, Inductive
  <2>. QED  BY <1>1, <2>1
<1>. QED  BY <1>1, <1>5, <1>9 DEF m

\* What a drain leaves of provider, ledger and history.
Drain_(s, e, t) ==
    /\ s \in Providers(Under(gen)) /\ InStep(s)
    /\ e \in Seq(Entries(gen)) /\ t \in ToldOf /\ Ledger(e, t)
    /\ t.ended = told.ended /\ t.refused = told.refused /\ t.timed_out = told.timed_out
    /\ t.reached = told.reached /\ told.gave_up \subseteq t.gave_up
    /\ outstanding = <<>> => e = <<>>
    /\ Len(outstanding) = Owed(stt.finals) => Len(e) = Owed(s.finals)
    /\ s.alive = stt.alive /\ s.pushed = stt.pushed /\ s.boundary = stt.boundary

\* drain_outputs keeps the types, the ledger and the markers.
LEMMA DrainIs ==
    ASSUME gen \in Nat, stt \in Providers(Under(gen)), InStep(stt), outstanding \in Seq(Entries(gen)),
           told \in ToldOf, Ledger(outstanding, told), DrainOutputs
    PROVE  Drain_(stt', outstanding', told')
<1>. DEFINE C == Under(gen)
<1>1. stt.finals \in FinalsOf(C) /\ stt.finals.pending \in Nat /\ stt.heard \in SUBSET C
  BY DEF Providers, FinalsOf
<1>2. PICK n \in 0 .. stt.finals.pending :
        LET expired == Answer(stt.finals, n)
            after == Delivered(Polled(expired.queue))
        IN  /\ stt' = [stt EXCEPT !.finals = [expired EXCEPT !.queue = Unpolled(expired.queue)]]
            /\ outstanding' = after.entries
            /\ told' = [after.told EXCEPT !.gave_up = @ \union IF n > 0 THEN {"provider"} ELSE {}]
  <2>1. 0 \in 0 .. stt.finals.pending
    BY <1>1
  <2>. QED  BY <2>1 DEF DrainOutputs
<1>. DEFINE expired == Answer(stt.finals, n)
            items == Polled(expired.queue)
            rest == Unpolled(expired.queue)
            left == [expired EXCEPT !.queue = rest]
            after == Delivered(items)
            gives == after.told.gave_up \union (IF n > 0 THEN {"provider"} ELSE {})
<1>3. /\ stt' = [stt EXCEPT !.finals = left] /\ outstanding' = after.entries
      /\ told' = [after.told EXCEPT !.gave_up = gives]
  BY <1>2
<1>4. expired \in FinalsOf(C) /\ Owed(expired) = Owed(stt.finals) /\ expired.queue \in Seq(Items(C))
      /\ expired.pending \in Nat
  <2>1. expired \in FinalsOf(C) /\ Owed(expired) = Owed(stt.finals)
    BY <1>1, AnswerOwesTheSame
  <2>. HIDE DEF expired
  <2>. QED  BY <2>1 DEF FinalsOf
<1>. HIDE DEF expired
<1>5. items \in Seq(Items(C)) /\ rest \in Seq(Items(C)) /\ Dones(expired.queue) = Dones(items) + Dones(rest)
  BY <1>4, PollingSplits
<1>. HIDE DEF items, rest
<1>6. left \in FinalsOf(C) /\ left.queue = rest /\ left.pending = expired.pending
  BY <1>4, <1>5 DEF FinalsOf
<1>7. Dones(items) \in Nat /\ Dones(rest) \in Nat
  BY <1>5, DonesIsAll
<1>8. Owed(left) = Owed(stt.finals) - Dones(items) /\ Owed(stt.finals) \in Nat /\ Owed(left) \in Nat
  <2>1. Owed(left) = expired.pending + Dones(rest) /\ Owed(expired) = expired.pending + Dones(expired.queue)
    <3>. HIDE DEF left
    <3>. QED  BY <1>6 DEF Owed
  <2>. HIDE DEF left
  <2>. QED  BY <1>4, <1>5, <1>7, <2>1
<1>. HIDE DEF left
<1>9. stt' \in Providers(C) /\ stt'.finals = left /\ stt'.socket = stt.socket /\ stt'.pushed = stt.pushed
      /\ stt'.position = stt.position /\ stt'.alive = stt.alive /\ stt'.boundary = stt.boundary
  <2>. DEFINE s == [stt EXCEPT !.finals = left]
  <2>1. s \in Providers(C) /\ s.finals = left /\ s.socket = stt.socket /\ s.pushed = stt.pushed
        /\ s.position = stt.position /\ s.alive = stt.alive /\ s.boundary = stt.boundary
    BY <1>6 DEF Providers
  <2>. HIDE DEF s
  <2>2. stt' = s
    BY <1>3 DEF s
  <2>. QED  BY <2>1, <2>2
<1>10. InStep(stt')
  BY <1>9 DEF InStep
<1>. DEFINE x == [entries |-> outstanding, told |-> told]
<1>11. x \in Accs(gen)
  BY DEF Accs
<1>12. PICK f \in [0 .. Len(items) -> Accs(gen)] :
         /\ f[0] = x /\ \A i \in 1 .. Len(items) : f[i] = Deliver(f[i - 1], items[i])
         /\ after = f[Len(items)]
  BY <1>5, <1>11, DeliveredRuns
<1>13. /\ SameEnds(f[0].told, f[Len(items)].told)
       /\ f[0].entries = <<>> => f[Len(items)].entries = <<>>
       /\ Dones(items) <= Len(f[0].entries)
            => Len(f[Len(items)].entries) = Len(f[0].entries) - Dones(items)
  BY <1>5, <1>12, MarkersPop
<1>14. after \in Accs(gen)
  <2>1. Len(items) \in 0 .. Len(items)
    BY <1>5
  <2>. QED  BY <1>12, <2>1
<1>15. f[0].entries = outstanding /\ f[0].told = told
  BY <1>12
<1>. HIDE DEF after
<1>16. after.entries \in Seq(Entries(gen)) /\ after.told \in ToldOf /\ Ledger(after.entries, after.told)
  BY <1>14 DEF Accs
<1>17. SameEnds(told, after.told) /\ (outstanding = <<>> => after.entries = <<>>)
       /\ (Dones(items) <= Len(outstanding) => Len(after.entries) = Len(outstanding) - Dones(items))
  BY <1>12, <1>13, <1>15
<1>18. gives \in SUBSET {"provider", "actor"} /\ told.gave_up \subseteq gives
  BY <1>16, <1>17 DEF ToldOf, SameEnds
<1>. HIDE DEF gives
<1>19. /\ told' \in ToldOf /\ told'.ended = after.told.ended /\ told'.refused = after.told.refused
       /\ told'.timed_out = after.told.timed_out /\ told'.reached = after.told.reached
       /\ told'.closed = after.told.closed /\ told'.gave_up = gives
  <2>. DEFINE a == after.told
              t == [a EXCEPT !.gave_up = gives]
  <2>1. a \in ToldOf /\ told' = t
    BY <1>3, <1>16
  <2>. HIDE DEF a
  <2>2. /\ t \in ToldOf /\ t.ended = a.ended /\ t.refused = a.refused /\ t.timed_out = a.timed_out
        /\ t.reached = a.reached /\ t.closed = a.closed /\ t.gave_up = gives
    BY <1>18, <2>1 DEF ToldOf
  <2>. HIDE DEF t
  <2>. QED  BY <2>1, <2>2 DEF a
<1>20. Ledger(outstanding', told')
  <2>. DEFINE e == after.entries
              t == after.told
              r == told'
  <2>1. Ledger(e, t) /\ r.ended = t.ended /\ r.refused = t.refused /\ r.closed = t.closed
    BY <1>16, <1>19
  <2>. HIDE DEF e, t, r
  <2>2. Ledger(e, r)
    BY <2>1, LedgerOfTheSame
  <2>. QED  BY <1>3, <2>2 DEF e, r
<1>21. Len(outstanding) = Owed(stt.finals) => Len(outstanding') = Owed(stt'.finals)
  <2>. DEFINE l == Owed(left)
  <2>1. Len(outstanding) \in Nat /\ l \in Nat /\ l = Owed(stt.finals) - Dones(items)
    BY <1>8
  <2>2. Owed(stt'.finals) = l /\ outstanding' = after.entries
    BY <1>3, <1>9
  <2>. HIDE DEF l
  <2>3. ASSUME Len(outstanding) = Owed(stt.finals) PROVE Len(after.entries) = l
    BY <1>7, <1>8, <1>17, <2>1, <2>3
  <2>. QED  BY <2>2, <2>3
<1>. QED  BY <1>3, <1>9, <1>10, <1>16, <1>17, <1>18, <1>19, <1>20, <1>21 DEF Drain_, SameEnds

-----------------------------------------------------------------------------
(* The command channel. *)

Parkables == {Swap("close"), Swap("idle"), Barrier}
Commands ==
    {Audio(<<k, i>>) : k \in Keys, i \in Nat} \union {EndUtterance(k) : k \in Keys}
    \union Parkables \union {Stop}

Keyed(c) == c.cmd \in {"audio", "end"}
KeyOf(c) == c.arg[1]

\* The utterances whose chunks and ends are queued come one after the other,
\* behind those whose ends have been read and up to the one being spoken; and
\* every end in between is queued.
SpokenInOrder(cs, utt, ended) ==
    /\ \A i \in DOMAIN cs : Keyed(cs[i]) => \A k \in ended : k < KeyOf(cs[i])
    /\ \A i, j \in DOMAIN cs :
         i < j /\ Keyed(cs[i]) /\ Keyed(cs[j]) =>
           /\ KeyOf(cs[i]) <= KeyOf(cs[j])
           /\ cs[i].cmd = "end" => KeyOf(cs[i]) < KeyOf(cs[j])
    /\ utt # NoKey =>
         /\ \A k \in ended : k < utt
         /\ \A i \in DOMAIN cs : Keyed(cs[i]) =>
              /\ KeyOf(cs[i]) <= utt
              /\ cs[i].cmd = "end" => KeyOf(cs[i]) < utt
    /\ \A k \in Keys \ ended :
         (k < utt \/ \E i \in DOMAIN cs : Keyed(cs[i]) /\ k < KeyOf(cs[i]))
           => \E i \in DOMAIN cs : cs[i] = EndUtterance(k)

\* The utterance whose audio comes next.
Open(ended, k) == k \in Keys \ ended /\ \A j \in Keys : j < k => j \in ended

\* The commands differ.
LEMMA CommandsAre ==
    /\ \A k \in Keys, i \in Nat :
         /\ Audio(<<k, i>>) \in Commands /\ Audio(<<k, i>>).cmd = "audio" /\ KeyOf(Audio(<<k, i>>)) = k
         /\ Audio(<<k, i>>).arg = <<k, i>>
    /\ \A k \in Keys : EndUtterance(k) \in Commands /\ EndUtterance(k).cmd = "end" /\ KeyOf(EndUtterance(k)) = k
    /\ Parkables \subseteq Commands /\ Stop \in Commands /\ Stop.cmd = "stop"
    /\ \A c \in Parkables : c.cmd \in {"swap", "barrier"} /\ c.arg[1] \in {"close", "idle", "wait_stt_idle"}
    /\ \A c \in Commands :
         /\ c.cmd = "audio" => KeyOf(c) \in Keys /\ c.arg \in Keys \X Nat
         /\ c.cmd = "end" => KeyOf(c) \in Keys /\ c = EndUtterance(KeyOf(c))
         /\ c.cmd \in {"swap", "barrier"} => c \in Parkables
<1>1. \A k \in Keys, i \in Nat :
        /\ Audio(<<k, i>>) \in Commands /\ Audio(<<k, i>>).cmd = "audio" /\ KeyOf(Audio(<<k, i>>)) = k
        /\ Audio(<<k, i>>).arg = <<k, i>>
  <2>. TAKE k \in Keys, i \in Nat
  <2>1. Audio(<<k, i>>) \in Commands
    BY DEF Commands
  <2>. QED  BY <2>1 DEF Audio, KeyOf
<1>2. \A k \in Keys : EndUtterance(k) \in Commands /\ EndUtterance(k).cmd = "end" /\ KeyOf(EndUtterance(k)) = k
  <2>. TAKE k \in Keys
  <2>1. EndUtterance(k) \in Commands
    BY DEF Commands
  <2>. QED  BY <2>1 DEF EndUtterance, KeyOf
<1>3. Parkables \subseteq Commands /\ Stop \in Commands /\ Stop.cmd = "stop"
  BY DEF Commands, Stop
<1>4. \A c \in Parkables : c.cmd \in {"swap", "barrier"} /\ c.arg[1] \in {"close", "idle", "wait_stt_idle"}
  BY DEF Parkables, Swap, Barrier
<1>5. ASSUME NEW c \in Commands
      PROVE  /\ c.cmd = "audio" => KeyOf(c) \in Keys /\ c.arg \in Keys \X Nat
             /\ c.cmd = "end" => KeyOf(c) \in Keys /\ c = EndUtterance(KeyOf(c))
             /\ c.cmd \in {"swap", "barrier"} => c \in Parkables
  <2>1. CASE \E k \in Keys, i \in Nat : c = Audio(<<k, i>>)
    <3>1. PICK k \in Keys, i \in Nat : c = Audio(<<k, i>>)
      BY <2>1
    <3>2. c.cmd = "audio" /\ KeyOf(c) = k /\ c.arg = <<k, i>>
      BY <1>1, <3>1
    <3>3. <<k, i>> \in Keys \X Nat
      OBVIOUS
    <3>. QED  BY <3>2, <3>3
  <2>2. CASE \E k \in Keys : c = EndUtterance(k)
    BY <1>2, <2>2
  <2>3. CASE c \in Parkables
    BY <1>4, <2>3
  <2>4. CASE c = Stop
    BY <1>3, <2>4
  <2>. QED  BY <2>1, <2>2, <2>3, <2>4 DEF Commands
<1>. QED  BY <1>1, <1>2, <1>3, <1>4, <1>5

\* A sequence with one more item.
LEMMA AppendIs ==
    ASSUME NEW S, NEW s \in Seq(S), NEW c \in S
    PROVE  /\ Append(s, c) \in Seq(S) /\ DOMAIN Append(s, c) = DOMAIN s \union {Len(s) + 1}
           /\ Append(s, c)[Len(s) + 1] = c
           /\ \A i \in DOMAIN s : Append(s, c)[i] = s[i] /\ i < Len(s) + 1 /\ i \in Int
           /\ Len(s) + 1 \in Int
<1>1. DOMAIN s = 1 .. Len(s) /\ Len(s) \in Nat
  OBVIOUS
<1>2. Append(s, c) \in Seq(S) /\ Len(Append(s, c)) = Len(s) + 1
  OBVIOUS
<1>3. DOMAIN Append(s, c) = 1 .. Len(s) + 1
  BY <1>2
<1>4. 1 .. Len(s) + 1 = (1 .. Len(s)) \union {Len(s) + 1}
  BY <1>1
<1>. QED  BY <1>1, <1>2, <1>3, <1>4

\* The agent sends a chunk of the utterance it is in, or something of no utterance.
LEMMA SendKeepsOrder ==
    ASSUME NEW cs \in Seq(Commands), NEW utt \in Nat, NEW ended \in SUBSET Keys,
           SpokenInOrder(cs, utt, ended), NEW c \in Commands,
           ~Keyed(c) \/ (c.cmd = "audio" /\ KeyOf(c) = utt /\ utt # NoKey)
    PROVE  Append(cs, c) \in Seq(Commands) /\ SpokenInOrder(Append(cs, c), utt, ended)
<1>. DEFINE r == Append(cs, c)
            n == Len(cs) + 1
<1>1. /\ r \in Seq(Commands) /\ DOMAIN r = DOMAIN cs \union {n} /\ r[n] = c /\ n \in Int
      /\ \A i \in DOMAIN cs : r[i] = cs[i] /\ i < n /\ i \in Int /\ i # n
  BY AppendIs
<1>2. \A i \in DOMAIN cs : cs[i] \in Commands
  OBVIOUS
<1>3. \A i \in DOMAIN cs : Keyed(cs[i]) => KeyOf(cs[i]) \in Nat
  BY <1>2, CommandsAre, KeysAre DEF Keyed
<1>. HIDE DEF r, n
<1>4. ended \subseteq Nat
  BY KeysAre
<1>5. c.cmd # "end"
  BY DEF Keyed
<1>6. \A i \in DOMAIN r : Keyed(r[i]) => \A k \in ended : k < KeyOf(r[i])
  BY <1>1, <1>4 DEF SpokenInOrder
<1>7. ASSUME NEW i \in DOMAIN r, NEW j \in DOMAIN r, i < j, Keyed(r[i]), Keyed(r[j])
      PROVE  KeyOf(r[i]) <= KeyOf(r[j]) /\ (r[i].cmd = "end" => KeyOf(r[i]) < KeyOf(r[j]))
  <2>1. i \in DOMAIN cs
    BY <1>1, <1>7
  <2>2. CASE j \in DOMAIN cs
    BY <1>1, <1>7, <2>1, <2>2 DEF SpokenInOrder
  <2>3. CASE j = n
    BY <1>1, <1>7, <2>1, <2>3 DEF SpokenInOrder
  <2>. QED  BY <1>1, <2>2, <2>3
<1>8. utt # NoKey =>
        /\ \A k \in ended : k < utt
        /\ \A i \in DOMAIN r : Keyed(r[i]) => KeyOf(r[i]) <= utt /\ (r[i].cmd = "end" => KeyOf(r[i]) < utt)
  BY <1>1, <1>5 DEF SpokenInOrder
<1>9. ASSUME NEW k \in Keys \ ended, k < utt \/ \E i \in DOMAIN r : Keyed(r[i]) /\ k < KeyOf(r[i])
      PROVE  \E i \in DOMAIN r : r[i] = EndUtterance(k)
  <2>1. k < utt \/ \E i \in DOMAIN cs : Keyed(cs[i]) /\ k < KeyOf(cs[i])
    BY <1>1, <1>9
  <2>2. PICK i \in DOMAIN cs : cs[i] = EndUtterance(k)
    BY <2>1 DEF SpokenInOrder
  <2>. QED  BY <1>1, <2>2
<1>10. SpokenInOrder(r, utt, ended)
  BY <1>6, <1>7, <1>8, <1>9 DEF SpokenInOrder
<1>. QED  BY <1>1, <1>10 DEF r

\* The agent ends the utterance it is in.
LEMMA EndKeepsOrder ==
    ASSUME NEW cs \in Seq(Commands), NEW utt \in Keys, NEW ended \in SUBSET Keys,
           SpokenInOrder(cs, utt, ended)
    PROVE  /\ Append(cs, EndUtterance(utt)) \in Seq(Commands)
           /\ SpokenInOrder(Append(cs, EndUtterance(utt)), utt + 1, ended)
<1>. DEFINE c == EndUtterance(utt)
            r == Append(cs, c)
            n == Len(cs) + 1
<1>0. c \in Commands /\ c.cmd = "end" /\ KeyOf(c) = utt /\ utt \in Nat /\ utt # NoKey
  BY CommandsAre, KeysAre
<1>1. /\ r \in Seq(Commands) /\ DOMAIN r = DOMAIN cs \union {n} /\ r[n] = c /\ n \in Int
      /\ \A i \in DOMAIN cs : r[i] = cs[i] /\ i < n /\ i \in Int /\ i # n
  <2>. HIDE DEF c
  <2>. QED  BY <1>0, AppendIs
<1>2. \A i \in DOMAIN cs : cs[i] \in Commands
  OBVIOUS
<1>3. \A i \in DOMAIN cs : Keyed(cs[i]) => KeyOf(cs[i]) \in Nat
  BY <1>2, CommandsAre, KeysAre DEF Keyed
<1>4. ended \subseteq Nat
  BY KeysAre
<1>5. /\ \A k \in ended : k < utt
      /\ \A i \in DOMAIN cs : Keyed(cs[i]) => KeyOf(cs[i]) <= utt /\ (cs[i].cmd = "end" => KeyOf(cs[i]) < utt)
  BY <1>0 DEF SpokenInOrder
<1>. HIDE DEF r, n
<1>6. \A i \in DOMAIN r : Keyed(r[i]) => \A k \in ended : k < KeyOf(r[i])
  BY <1>0, <1>1, <1>5 DEF SpokenInOrder
<1>7. ASSUME NEW i \in DOMAIN r, NEW j \in DOMAIN r, i < j, Keyed(r[i]), Keyed(r[j])
      PROVE  KeyOf(r[i]) <= KeyOf(r[j]) /\ (r[i].cmd = "end" => KeyOf(r[i]) < KeyOf(r[j]))
  <2>1. i \in DOMAIN cs
    BY <1>1, <1>7
  <2>2. CASE j \in DOMAIN cs
    BY <1>1, <1>7, <2>1, <2>2 DEF SpokenInOrder
  <2>3. CASE j = n
    BY <1>0, <1>1, <1>5, <1>7, <2>1, <2>3
  <2>. QED  BY <1>1, <2>2, <2>3
<1>8. /\ \A k \in ended : k < utt + 1
      /\ \A i \in DOMAIN r : Keyed(r[i]) => KeyOf(r[i]) <= utt + 1 /\ (r[i].cmd = "end" => KeyOf(r[i]) < utt + 1)
  BY <1>0, <1>1, <1>3, <1>4, <1>5
<1>9. ASSUME NEW k \in Keys \ ended, k < utt + 1 \/ \E i \in DOMAIN r : Keyed(r[i]) /\ k < KeyOf(r[i])
      PROVE  \E i \in DOMAIN r : r[i] = EndUtterance(k)
  <2>0. k \in Nat
    BY KeysAre
  <2>1. k = utt \/ k < utt \/ \E i \in DOMAIN cs : Keyed(cs[i]) /\ k < KeyOf(cs[i])
    BY <1>0, <1>1, <1>9, <2>0
  <2>2. CASE k = utt
    BY <1>1, <2>2
  <2>3. CASE k # utt
    <3>1. PICK i \in DOMAIN cs : cs[i] = EndUtterance(k)
      BY <2>1, <2>3 DEF SpokenInOrder
    <3>. QED  BY <1>1, <3>1
  <2>. QED  BY <2>2, <2>3
<1>10. SpokenInOrder(r, utt + 1, ended)
  BY <1>6, <1>7, <1>8, <1>9 DEF SpokenInOrder
<1>. QED  BY <1>1, <1>10 DEF r

\* The agent says no more.
LEMMA NoKeyKeepsOrder ==
    ASSUME NEW cs \in Seq(Commands), NEW utt \in Nat, NEW ended \in SUBSET Keys, SpokenInOrder(cs, utt, ended)
    PROVE  SpokenInOrder(cs, NoKey, ended)
<1>1. \A k \in Keys : ~(k < NoKey)
  BY KeysAre DEF NoKey
<1>. QED  BY <1>1 DEF SpokenInOrder

\* The actor reads a command; of an end, it is handled with it.
LEMMA ReadKeepsOrder ==
    ASSUME NEW cs \in Seq(Commands), cs # <<>>, NEW utt \in Nat, NEW ended \in SUBSET Keys,
           SpokenInOrder(cs, utt, ended),
           NEW more, more = IF Head(cs).cmd = "end" THEN ended \union {KeyOf(Head(cs))} ELSE ended
    PROVE  /\ Tail(cs) \in Seq(Commands) /\ Head(cs) \in Commands /\ more \in SUBSET Keys
           /\ SpokenInOrder(Tail(cs), utt, more)
           /\ Keyed(Head(cs)) => Open(ended, KeyOf(Head(cs)))
<1>. DEFINE r == Tail(cs)
            c == Head(cs)
<1>1. /\ r \in Seq(Commands) /\ c = cs[1] /\ 1 \in DOMAIN cs
      /\ \A i \in DOMAIN r : i + 1 \in DOMAIN cs /\ r[i] = cs[i + 1] /\ 1 < i + 1 /\ i \in Int
      /\ \A i \in DOMAIN cs : i # 1 => i - 1 \in DOMAIN r /\ r[i - 1] = cs[i]
      /\ \A i, j \in DOMAIN r : i < j => i + 1 < j + 1
  BY TailIs
<1>2. \A i \in DOMAIN cs : cs[i] \in Commands /\ i \in Int /\ i >= 1
  OBVIOUS
<1>3. \A i \in DOMAIN cs : Keyed(cs[i]) => KeyOf(cs[i]) \in Nat
  BY <1>2, CommandsAre, KeysAre DEF Keyed
<1>4. c \in Commands /\ (c.cmd = "end" => KeyOf(c) \in Keys /\ c = EndUtterance(KeyOf(c)) /\ Keyed(c))
      /\ (Keyed(c) => KeyOf(c) \in Keys)
  BY <1>1, <1>2, CommandsAre DEF Keyed
<1>. HIDE DEF r, c
<1>5. more = (IF c.cmd = "end" THEN ended \union {KeyOf(c)} ELSE ended) /\ more \in SUBSET Keys
  BY <1>4 DEF c
<1>6. \A i \in DOMAIN r : Keyed(r[i]) => \A k \in more : k < KeyOf(r[i])
  BY <1>1, <1>4, <1>5 DEF SpokenInOrder
<1>7. \A i, j \in DOMAIN r : i < j /\ Keyed(r[i]) /\ Keyed(r[j]) =>
        KeyOf(r[i]) <= KeyOf(r[j]) /\ (r[i].cmd = "end" => KeyOf(r[i]) < KeyOf(r[j]))
  BY <1>1 DEF SpokenInOrder
<1>8. utt # NoKey =>
        /\ \A k \in more : k < utt
        /\ \A i \in DOMAIN r : Keyed(r[i]) => KeyOf(r[i]) <= utt /\ (r[i].cmd = "end" => KeyOf(r[i]) < utt)
  BY <1>1, <1>4, <1>5 DEF SpokenInOrder
<1>9. ASSUME NEW k \in Keys \ more, k < utt \/ \E i \in DOMAIN r : Keyed(r[i]) /\ k < KeyOf(r[i])
      PROVE  \E i \in DOMAIN r : r[i] = EndUtterance(k)
  <2>1. k < utt \/ \E i \in DOMAIN cs : Keyed(cs[i]) /\ k < KeyOf(cs[i])
    BY <1>1, <1>9
  <2>2. k \in Keys \ ended
    BY <1>5
  <2>3. PICK i \in DOMAIN cs : cs[i] = EndUtterance(k)
    BY <2>1, <2>2 DEF SpokenInOrder
  <2>4. i # 1
    BY <1>1, <1>5, <2>3, CommandsAre
  <2>. QED  BY <1>1, <2>3, <2>4
<1>10. SpokenInOrder(r, utt, more)
  BY <1>6, <1>7, <1>8, <1>9 DEF SpokenInOrder
<1>11. ASSUME Keyed(c) PROVE Open(ended, KeyOf(c))
  <2>1. KeyOf(c) \in Keys /\ \A k \in ended : k < KeyOf(c)
    BY <1>1, <1>4, <1>11 DEF SpokenInOrder
  <2>. DEFINE x == KeyOf(c)
  <2>0. x \in Nat /\ x \in Keys
    BY <2>1, KeysAre
  <2>2. x \notin ended
    <3>1. \A k \in ended : k < x
      BY <2>1
    <3>. HIDE DEF x
    <3>2. ~(x < x)
      BY <2>0
    <3>. QED  BY <3>1, <3>2
  <2>3. ASSUME NEW j \in Keys, j < KeyOf(c), j \notin ended PROVE FALSE
    <3>1. PICK i \in DOMAIN cs : cs[i] = EndUtterance(j)
      BY <1>1, <1>11, <2>3 DEF SpokenInOrder
    <3>2. cs[i].cmd = "end" /\ KeyOf(cs[i]) = j /\ Keyed(cs[i])
      BY <3>1, CommandsAre DEF Keyed
    <3>3. i # 1
      BY <1>1, <2>1, <2>3, <3>2, KeysAre
    <3>4. KeyOf(c) <= j
      BY <1>1, <1>2, <1>11, <3>2, <3>3 DEF SpokenInOrder
    <3>5. j \in Nat /\ j < x /\ x <= j
      BY <2>3, <3>4, KeysAre
    <3>. HIDE DEF x
    <3>. QED  BY <2>0, <3>5
  <2>. QED  BY <2>1, <2>2, <2>3 DEF Open
<1>. QED  BY <1>1, <1>4, <1>5, <1>10, <1>11 DEF r, c

-----------------------------------------------------------------------------
(* The ledger under the actor's own steps. *)

\* An entry and its fields.
LEMMA EntriesAre ==
    ASSUME NEW g, NEW e \in Seq(Entries(g))
    PROVE  /\ \A i \in DOMAIN e : e[i] \in Entries(g) /\ e[i].key \in Keys /\ e[i].key \in Nat
           /\ \A i \in DOMAIN e : i \in Int
<1>1. \A i \in DOMAIN e : e[i] \in Entries(g) /\ i \in Int
  OBVIOUS
<1>2. \A i \in DOMAIN e : e[i].key \in Keys
  BY <1>1 DEF Entries
<1>. QED  BY <1>1, <1>2, KeysAre

\* The oldest entry that waits has waited too long.
LateEntry(e, i) == [e EXCEPT ![i].timed_out = TRUE]
LateClose(t, k) == [Close(t, k) EXCEPT !.timed_out = @ \union {k}]

\* A deadline closes the oldest entry that waits.
LEMMA ExpiryKeeps ==
    ASSUME NEW g, NEW e \in Seq(Entries(g)), NEW t \in ToldOf, Ledger(e, t),
           NEW i \in DOMAIN e, ~e[i].timed_out, \A j \in DOMAIN e : ~e[j].timed_out => i <= j,
           NEW f, f = LateEntry(e, i),
           NEW r, r = LateClose(t, e[i].key)
    PROVE  f \in Seq(Entries(g)) /\ Len(f) = Len(e) /\ r \in ToldOf /\ Ledger(f, r)
           /\ r.gave_up = t.gave_up /\ r.ended = t.ended
<1>. DEFINE k == e[i].key
            c == Close(t, k)
<1>1. /\ \A j \in DOMAIN e : e[j] \in Entries(g) /\ e[j].key \in Keys /\ e[j].key \in Nat /\ j \in Int
  BY EntriesAre
<1>2. /\ DOMAIN f = DOMAIN e /\ Len(f) = Len(e)
      /\ \A j \in DOMAIN e : j # i => f[j] = e[j]
      /\ f[i].key = k /\ f[i].timed_out
      /\ f \in Seq(Entries(g))
  <2>. DEFINE new == [e[i] EXCEPT !.timed_out = TRUE]
  <2>1. new \in Entries(g) /\ new.key = k /\ new.timed_out
    BY <1>1 DEF Entries
  <2>2. f = [e EXCEPT ![i] = new]
    BY DEF LateEntry
  <2>. HIDE DEF new
  <2>3. f \in Seq(Entries(g)) /\ Len(f) = Len(e)
    <3>1. DOMAIN e = 1 .. Len(e) /\ Len(e) \in Nat
      OBVIOUS
    <3>. DEFINE n == Len(e)
    <3>2. f \in [1 .. n -> Entries(g)]
      <4>1. e \in [1 .. n -> Entries(g)]
        BY <1>1, <3>1
      <4>. HIDE DEF n
      <4>. QED  BY <2>1, <2>2, <4>1
    <3>. HIDE DEF n
    <3>3. n \in Nat
      BY <3>1 DEF n
    <3>4. f \in Seq(Entries(g)) /\ Len(f) = n
      BY <3>2, <3>3
    <3>. QED  BY <3>4 DEF n
  <2>4. DOMAIN f = DOMAIN e /\ f[i] = new /\ \A j \in DOMAIN e : j # i => f[j] = e[j]
    BY <2>2
  <2>. QED  BY <2>1, <2>3, <2>4
<1>3. /\ InTurn(e) /\ Booked(e, t) /\ AllAccounted(e, t) /\ ClosedBefore(e, t) /\ ClosedWell(t)
  BY DEF Ledger
<1>4. k \in t.ended \ ToSet(t.closed) /\ k \notin t.refused /\ k \in Keys
  BY <1>1, <1>3 DEF Booked
<1>5. \A j \in DOMAIN t.closed : t.closed[j] \notin t.refused => t.closed[j] < k
  BY <1>3 DEF ClosedBefore
<1>6. \A j \in DOMAIN e : /\ j # i => e[j].key # k
                          /\ ~e[j].timed_out /\ j # i => k < e[j].key
  <2>. TAKE j \in DOMAIN e
  <2>1. CASE j < i
    BY <1>1, <1>3, <2>1 DEF InTurn
  <2>2. CASE i < j
    BY <1>1, <1>3, <2>2 DEF InTurn
  <2>. QED  BY <1>1, <2>1, <2>2
<1>7. InTurn(f)
  <2>1. ASSUME NEW a \in DOMAIN f, NEW b \in DOMAIN f, a < b
        PROVE  f[a].key < f[b].key /\ (f[b].timed_out => f[a].timed_out)
    <3>1. e[a].key < e[b].key /\ (e[b].timed_out => e[a].timed_out) /\ f[a].key = e[a].key /\ f[b].key = e[b].key
      BY <1>2, <1>3, <2>1 DEF InTurn
    <3>2. CASE b = i
      BY <1>1, <1>2, <2>1, <3>1, <3>2
    <3>3. CASE b # i
      BY <1>2, <2>1, <3>1, <3>3
    <3>. QED  BY <3>2, <3>3
  <2>. QED  BY <2>1 DEF InTurn
<1>. HIDE DEF k
<1>8. c \in ToldOf /\ ClosedWell(c) /\ c = [t EXCEPT !.closed = Append(t.closed, k)]
  <2>1. c \in ToldOf /\ ClosedWell(c)
    BY <1>3, <1>4, <1>5, ClosingKeeps
  <2>. QED  BY <2>1 DEF Close
<1>9. /\ r \in ToldOf /\ r.closed = Append(t.closed, k) /\ r.ended = t.ended /\ r.refused = t.refused
      /\ r.gave_up = t.gave_up /\ c.closed = r.closed /\ c.ended = r.ended /\ c.refused = r.refused
  <2>. DEFINE late == c.timed_out \union {k}
  <2>1. r = [c EXCEPT !.timed_out = late]
    BY DEF k, LateClose
  <2>. HIDE DEF c
  <2>2. late \in SUBSET Keys
    BY <1>4, <1>8 DEF ToldOf
  <2>. HIDE DEF late
  <2>3. r \in ToldOf /\ r.closed = c.closed /\ r.ended = c.ended /\ r.refused = c.refused /\ r.gave_up = c.gave_up
    BY <1>8, <2>1, <2>2 DEF ToldOf
  <2>4. c.closed = Append(t.closed, k) /\ c.ended = t.ended /\ c.refused = t.refused /\ c.gave_up = t.gave_up
    BY <1>8 DEF ToldOf
  <2>. QED  BY <2>3, <2>4
<1>10. /\ ToSet(r.closed) = ToSet(t.closed) \union {k}
       /\ DOMAIN r.closed = DOMAIN t.closed \union {Len(t.closed) + 1} /\ r.closed[Len(t.closed) + 1] = k
       /\ \A j \in DOMAIN t.closed : r.closed[j] = t.closed[j]
  <2>. DEFINE s == t.closed
  <2>1. s \in Seq(Keys) /\ r.closed = Append(s, k)
    BY <1>9 DEF ToldOf
  <2>. HIDE DEF s
  <2>2. /\ ToSet(Append(s, k)) = ToSet(s) \union {k}
        /\ DOMAIN Append(s, k) = DOMAIN s \union {Len(s) + 1} /\ Append(s, k)[Len(s) + 1] = k
        /\ \A j \in DOMAIN s : Append(s, k)[j] = s[j]
    BY <1>4, <2>1, ClosedNext
  <2>. QED  BY <2>1, <2>2 DEF s
<1>11. Booked(f, r)
  <2>1. ASSUME NEW j \in DOMAIN f
        PROVE  f[j].key \in r.ended \ r.refused /\ (f[j].timed_out <=> f[j].key \in ToSet(r.closed))
    <3>1. CASE j = i
      BY <1>2, <1>4, <1>9, <1>10, <3>1
    <3>2. CASE j # i
      <4>1. f[j] = e[j] /\ e[j].key # k /\ j \in DOMAIN e
        BY <1>2, <1>6, <2>1, <3>2 DEF k
      <4>2. e[j].key \in t.ended \ t.refused /\ (e[j].timed_out <=> e[j].key \in ToSet(t.closed))
        BY <1>3, <4>1 DEF Booked
      <4>. QED  BY <1>9, <1>10, <4>1, <4>2
    <3>. QED  BY <3>1, <3>2
  <2>. QED  BY <2>1 DEF Booked
<1>12. AllAccounted(f, r)
  <2>1. ASSUME NEW x \in r.ended, x \notin ToSet(r.closed) PROVE \E j \in DOMAIN f : f[j].key = x
    <3>1. PICK j \in DOMAIN e : e[j].key = x
      BY <1>3, <1>9, <1>10, <2>1 DEF AllAccounted
    <3>2. f[j].key = x
      BY <1>2, <3>1 DEF k
    <3>. QED  BY <1>2, <3>2
  <2>. QED  BY <2>1 DEF AllAccounted
<1>13. ClosedBefore(f, r)
  <2>1. ASSUME NEW j \in DOMAIN r.closed, NEW a \in DOMAIN f, r.closed[j] \notin r.refused, ~f[a].timed_out
        PROVE  r.closed[j] < f[a].key
    <3>1. a # i /\ f[a] = e[a] /\ ~e[a].timed_out /\ k < e[a].key /\ a \in DOMAIN e
      BY <1>2, <1>6, <2>1 DEF k
    <3>2. CASE j \in DOMAIN t.closed
      BY <1>3, <1>9, <1>10, <2>1, <3>1, <3>2 DEF ClosedBefore
    <3>3. CASE j = Len(t.closed) + 1
      BY <1>10, <3>1, <3>3
    <3>. QED  BY <1>10, <3>2, <3>3
  <2>. QED  BY <2>1 DEF ClosedBefore
<1>14. ClosedWell(r)
  BY <1>8, <1>9 DEF ClosedWell
<1>. QED  BY <1>2, <1>7, <1>9, <1>11, <1>12, <1>13, <1>14 DEF Ledger

\* An end is read: the finalize waits, ...
LEMMA EndedKeeps ==
    ASSUME NEW g, NEW e \in Seq(Entries(g)), NEW t \in ToldOf, Ledger(e, t),
           NEW k \in Keys, \A x \in t.ended : x < k,
           NEW y, y = [key |-> k, gen |-> g, timed_out |-> FALSE],
           NEW r, r = [t EXCEPT !.ended = @ \union {k}]
    PROVE  /\ Append(e, y) \in Seq(Entries(g)) /\ Len(Append(e, y)) = Len(e) + 1
           /\ r \in ToldOf /\ Ledger(Append(e, y), r)
<1>. DEFINE f == Append(e, y)
            n == Len(e) + 1
<1>1. y \in Entries(g) /\ y.key = k /\ ~y.timed_out
  BY DEF Entries
<1>2. /\ f \in Seq(Entries(g)) /\ DOMAIN f = DOMAIN e \union {n} /\ f[n] = y /\ n \in Int
      /\ \A i \in DOMAIN e : f[i] = e[i] /\ i < n /\ i \in Int
  BY <1>1, AppendIs
<1>3. Len(f) = Len(e) + 1
  BY <1>1
<1>. HIDE DEF f, n
<1>4. /\ r \in ToldOf /\ r.ended = t.ended \union {k} /\ r.closed = t.closed /\ r.refused = t.refused
  <2>. DEFINE more == t.ended \union {k}
  <2>1. more \in SUBSET Keys /\ r = [t EXCEPT !.ended = more]
    BY DEF ToldOf
  <2>. HIDE DEF more
  <2>2. r \in ToldOf /\ r.ended = more /\ r.closed = t.closed /\ r.refused = t.refused
    BY <2>1 DEF ToldOf
  <2>. QED  BY <2>2 DEF more
<1>5. /\ InTurn(e) /\ Booked(e, t) /\ AllAccounted(e, t) /\ ClosedBefore(e, t) /\ ClosedWell(t)
  BY DEF Ledger
<1>6. k \notin t.ended
  <2>1. k \in Nat /\ ~(k < k)
    BY KeysAre
  <2>. QED  BY <2>1
<1>7. \A i \in DOMAIN e : e[i].key < k
  BY <1>5 DEF Booked
<1>8. InTurn(f)
  <2>1. ASSUME NEW a \in DOMAIN f, NEW b \in DOMAIN f, a < b
        PROVE  f[a].key < f[b].key /\ (f[b].timed_out => f[a].timed_out)
    <3>1. a \in DOMAIN e
      BY <1>2, <2>1
    <3>2. CASE b \in DOMAIN e
      BY <1>2, <1>5, <2>1, <3>1, <3>2 DEF InTurn
    <3>3. CASE b = n
      BY <1>1, <1>2, <1>7, <3>1, <3>3
    <3>. QED  BY <1>2, <3>2, <3>3
  <2>. QED  BY <2>1 DEF InTurn
<1>9. k \notin ToSet(t.closed) /\ k \notin t.refused
  BY <1>5, <1>6 DEF ClosedWell
<1>10. Booked(f, r)
  BY <1>1, <1>2, <1>4, <1>5, <1>9 DEF Booked
<1>11. AllAccounted(f, r)
  <2>1. ASSUME NEW x \in r.ended, x \notin ToSet(r.closed) PROVE \E j \in DOMAIN f : f[j].key = x
    <3>1. CASE x = k
      BY <1>1, <1>2, <3>1
    <3>2. CASE x # k
      <4>1. PICK j \in DOMAIN e : e[j].key = x
        BY <1>4, <1>5, <2>1, <3>2 DEF AllAccounted
      <4>. QED  BY <1>2, <4>1
    <3>. QED  BY <3>1, <3>2
  <2>. QED  BY <2>1 DEF AllAccounted
<1>12. ClosedBefore(f, r)
  <2>1. \A j \in DOMAIN t.closed : t.closed[j] \in t.ended
    BY <1>5 DEF ClosedWell, ToSet
  <2>. QED  BY <1>1, <1>2, <1>4, <1>5, <2>1 DEF ClosedBefore
<1>13. ClosedWell(r)
  BY <1>4, <1>5 DEF ClosedWell
<1>. QED  BY <1>2, <1>3, <1>4, <1>8, <1>10, <1>11, <1>12, <1>13 DEF Ledger, f

\* ... or is refused.
Refusal(t, k) == [Close([t EXCEPT !.ended = @ \union {k}], k) EXCEPT !.refused = @ \union {k}]

\* A refused finalize is closed at once.
LEMMA RefusedKeeps ==
    ASSUME NEW g, NEW e \in Seq(Entries(g)), NEW t \in ToldOf, Ledger(e, t),
           NEW k \in Keys, \A x \in t.ended : x < k,
           NEW r, r = Refusal(t, k)
    PROVE  r \in ToldOf /\ Ledger(e, r) /\ r.gave_up = t.gave_up /\ r.ended = t.ended \union {k}
<1>. DEFINE more == t.ended \union {k}
            refs == t.refused \union {k}
            u == [t EXCEPT !.ended = more, !.refused = refs]
            s == t.closed
<1>1. /\ InTurn(e) /\ Booked(e, t) /\ AllAccounted(e, t) /\ ClosedBefore(e, t) /\ ClosedWell(t)
  BY DEF Ledger
<1>2. k \notin t.ended
  <2>1. k \in Nat /\ ~(k < k)
    BY KeysAre
  <2>. QED  BY <2>1
<1>3. more \in SUBSET Keys /\ refs \in SUBSET Keys /\ s \in Seq(Keys)
  BY DEF ToldOf
<1>4. r = Close(u, k)
  BY DEF Close, ToldOf, Refusal
<1>. HIDE DEF more, refs
<1>5. u \in ToldOf /\ u.ended = more /\ u.refused = refs /\ u.closed = s /\ u.gave_up = t.gave_up
  BY <1>3 DEF ToldOf
<1>. HIDE DEF u
<1>6. k \in u.ended \ ToSet(u.closed) /\ k \in u.refused
  BY <1>1, <1>2, <1>5 DEF ClosedWell, more, refs
<1>7. ClosedWell(u)
  BY <1>1, <1>5 DEF ClosedWell, more, refs
<1>8. r \in ToldOf /\ ClosedWell(r)
  BY <1>4, <1>5, <1>6, <1>7, ClosingKeeps
<1>9. r.closed = Append(s, k) /\ r.ended = more /\ r.refused = refs /\ r.gave_up = t.gave_up
  BY <1>4, <1>5 DEF Close, ToldOf
<1>10. /\ ToSet(r.closed) = ToSet(s) \union {k}
       /\ DOMAIN r.closed = DOMAIN s \union {Len(s) + 1} /\ r.closed[Len(s) + 1] = k
       /\ \A i \in DOMAIN s : r.closed[i] = s[i]
  <2>. HIDE DEF s
  <2>1. /\ ToSet(Append(s, k)) = ToSet(s) \union {k}
        /\ DOMAIN Append(s, k) = DOMAIN s \union {Len(s) + 1} /\ Append(s, k)[Len(s) + 1] = k
        /\ \A i \in DOMAIN s : Append(s, k)[i] = s[i]
    BY <1>3, ClosedNext
  <2>2. r.closed = Append(s, k)
    BY <1>9
  <2>. QED  BY <2>1, <2>2
<1>11. Booked(e, r)
  <2>1. \A i \in DOMAIN e : e[i].key # k
    BY <1>1, <1>2 DEF Booked
  <2>. QED  BY <1>1, <1>9, <1>10, <2>1 DEF Booked, more, refs
<1>12. AllAccounted(e, r)
  BY <1>1, <1>9, <1>10 DEF AllAccounted, more
<1>13. ClosedBefore(e, r)
  <2>1. k \in r.refused /\ t.refused \subseteq r.refused
    BY <1>9 DEF refs
  <2>. QED  BY <1>1, <1>10, <2>1 DEF ClosedBefore
<1>. QED  BY <1>1, <1>8, <1>9, <1>11, <1>12, <1>13 DEF Ledger, more

-----------------------------------------------------------------------------
(* The invariant. *)

Agents == [utt : Nat, left : Nat, in_progress : BOOLEAN, config : {"none", "queued", "sent"},
           apply_now : BOOLEAN, barrier : BOOLEAN]
InHand == {"reopen", "start", "push"}
Pcs == {"select", "drain", "parked", "stopped"} \union InHand

Typed ==
    /\ scope \in Scopes /\ agent \in Agents /\ cmds \in Seq(Commands) /\ pc \in Pcs
    /\ gen \in Nat
    /\ stt \in Providers(Under(gen)) /\ InStep(stt)
    /\ outstanding \in Seq(Entries(gen))
    /\ parked \in Parkables \union {None}
    /\ told \in ToldOf

\* The chunk in hand is of the utterance whose audio comes next.
HandInTurn ==
    /\ hand # <<>> <=> pc \in InHand
    /\ hand # <<>> => hand \in Keys \X Nat /\ Open(told.ended, hand[1])

\* No stream is replaced that owes an answer.
ReopenedIdle == pc \in {"reopen", "start"} => outstanding = <<>>

Aligned == pc # "stopped" /\ "actor" \notin told.gave_up => Len(outstanding) = Owed(stt.finals)

Inv ==
    /\ Typed
    /\ SpokenInOrder(cmds, agent.utt, told.ended)
    /\ HandInTurn
    /\ ReopenedIdle
    /\ Ledger(outstanding, told)
    /\ Aligned

\* A new actor.
LEMMA InitInv == Init => Inv
<1>. SUFFICES ASSUME Init PROVE Inv
  OBVIOUS
<1>1. scope \in Scopes /\ cmds = <<>> /\ pc = "select" /\ hand = <<>> /\ stt = Opened
      /\ outstanding = <<>> /\ parked = None /\ gen = 0 /\ told = Told0
  BY DEF Init
<1>2. PICK n \in scope.chunk_counts :
        agent = [utt |-> 1, left |-> n, in_progress |-> FALSE,
                 config |-> "none", apply_now |-> FALSE, barrier |-> FALSE]
  BY DEF Init
<1>3. n \in Nat
  BY <1>1, ActorAssumption
<1>4. agent \in Agents /\ agent.utt = 1
  BY <1>2, <1>3 DEF Agents
<1>5. cmds \in Seq(Commands) /\ DOMAIN cmds = {} /\ outstanding \in Seq(Entries(gen)) /\ DOMAIN outstanding = {}
      /\ Len(outstanding) = 0
  BY <1>1
<1>6. told \in ToldOf /\ told.ended = {} /\ told.closed = <<>> /\ told.refused = {}
  BY <1>1 DEF Told0, ToldOf
<1>7. stt \in Providers(Under(gen)) /\ InStep(stt) /\ Owed(stt.finals) = 0
  BY <1>1, OpenedIs
<1>8. Typed
  BY <1>1, <1>4, <1>5, <1>6, <1>7 DEF Typed, Pcs
<1>9. SpokenInOrder(cmds, agent.utt, told.ended)
  <2>1. \A k \in Keys : ~(k < agent.utt)
    BY <1>4 DEF Keys
  <2>. QED  BY <1>5, <1>6, <2>1 DEF SpokenInOrder
<1>10. Ledger(outstanding, told)
  <2>1. DOMAIN told.closed = {} /\ ToSet(told.closed) = {}
    BY <1>6 DEF ToSet
  <2>. QED
    BY <1>5, <1>6, <2>1 DEF Ledger, InTurn, Booked, AllAccounted, ClosedBefore, ClosedWell, IsInjective
<1>11. HandInTurn /\ ReopenedIdle /\ Aligned
  BY <1>1, <1>5, <1>7 DEF HandInTurn, InHand, ReopenedIdle, Aligned
<1>. QED  BY <1>8, <1>9, <1>10, <1>11 DEF Inv

\* Concatenations are appended items.
LEMMA JoinIsAppend ==
    ASSUME NEW S, NEW s \in Seq(S), NEW c \in S
    PROVE  s \o <<c>> = Append(s, c) /\ s \o <<>> = s
  OBVIOUS

\* The agent sends.
LEMMA AgentKeeps == Inv /\ AgentStep => Inv'
<1>. SUFFICES ASSUME Inv, AgentStep PROVE Inv'
  OBVIOUS
<1>. DEFINE utt == agent.utt
            ended == told.ended
<1>1. /\ Typed /\ SpokenInOrder(cmds, utt, ended) /\ HandInTurn /\ ReopenedIdle
      /\ Ledger(outstanding, told) /\ Aligned
  BY DEF Inv
<1>2. /\ agent \in Agents /\ cmds \in Seq(Commands) /\ utt \in Nat /\ ended \in SUBSET Keys
      /\ scope \in Scopes /\ scope.chunk_counts \subseteq Nat
  <2>1. scope \in Scopes
    BY <1>1 DEF Typed
  <2>2. scope.chunk_counts \subseteq Nat
    BY <2>1, ActorAssumption
  <2>. QED  BY <1>1, <2>1, <2>2 DEF Typed, Agents, ToldOf
<1>3. AgentOnly
  BY DEF AgentStep, SendAudio, SendEnd, CloseNotFound, UpdateConfig, ApplyConfig, SendBarrier, SendStop
<1>4. ASSUME NEW c \in Commands, ~Keyed(c) \/ (c.cmd = "audio" /\ KeyOf(c) = utt /\ utt # NoKey)
      PROVE  Append(cmds, c) \in Seq(Commands) /\ SpokenInOrder(Append(cmds, c), utt, ended)
  BY <1>1, <1>2, <1>4, SendKeepsOrder
<1>5. Parkables \subseteq Commands /\ Stop \in Commands /\ (\A c \in Parkables : ~Keyed(c)) /\ ~Keyed(Stop)
  BY CommandsAre DEF Keyed
<1>6. Swap("close") \in Parkables /\ Swap("idle") \in Parkables /\ Barrier \in Parkables
  BY DEF Parkables
<1>. DEFINE Good == agent' \in Agents /\ cmds' \in Seq(Commands) /\ SpokenInOrder(cmds', agent'.utt, ended)
<1>7. ASSUME SendAudio PROVE Good
  <2>. DEFINE left == agent.left - 1
              c == Audio(<<utt, agent.left>>)
  <2>1. utt \in Keys /\ agent.left > 0 /\ cmds' = Append(cmds, c)
        /\ agent' = [agent EXCEPT !.left = left, !.in_progress = TRUE]
    BY <1>7 DEF SendAudio
  <2>2. left \in Nat /\ agent.left \in Nat
    BY <1>2, <2>1 DEF Agents
  <2>3. c \in Commands /\ c.cmd = "audio" /\ KeyOf(c) = utt /\ utt # NoKey
    BY <2>1, <2>2, CommandsAre, KeysAre
  <2>. HIDE DEF c, left
  <2>4. agent' \in Agents /\ agent'.utt = utt
    BY <1>2, <2>1, <2>2 DEF Agents
  <2>. QED  BY <1>4, <2>1, <2>3, <2>4
<1>8. ASSUME NEW n \in scope.chunk_counts, NEW config, config \in {"none", "queued", "sent"}, utt \in Keys,
             agent' = [agent EXCEPT !.utt = utt + 1, !.left = n, !.in_progress = FALSE, !.config = config],
             cmds' = Append(cmds, EndUtterance(utt))
               \/ cmds' = Append(Append(cmds, EndUtterance(utt)), Swap("close"))
      PROVE  Good
  <2>. DEFINE c1 == Append(cmds, EndUtterance(utt))
              next == utt + 1
  <2>1. c1 \in Seq(Commands) /\ SpokenInOrder(c1, next, ended)
    BY <1>1, <1>2, <1>8, EndKeepsOrder
  <2>2. next \in Nat /\ n \in Nat
    BY <1>2, <1>8
  <2>3. cmds' = c1 \/ cmds' = Append(c1, Swap("close"))
    BY <1>8
  <2>. HIDE DEF next, c1
  <2>4. Append(c1, Swap("close")) \in Seq(Commands) /\ SpokenInOrder(Append(c1, Swap("close")), next, ended)
    <3>. DEFINE c == Swap("close")
    <3>1. c \in Commands /\ ~Keyed(c)
      BY <1>5, <1>6
    <3>. HIDE DEF c
    <3>2. Append(c1, c) \in Seq(Commands) /\ SpokenInOrder(Append(c1, c), next, ended)
      BY <1>2, <2>1, <2>2, <3>1, SendKeepsOrder
    <3>. QED  BY <3>2 DEF c
  <2>5. agent' = [agent EXCEPT !.utt = next, !.left = n, !.in_progress = FALSE, !.config = config]
    BY <1>8 DEF next
  <2>6. agent' \in Agents /\ agent'.utt = next
    BY <1>2, <1>8, <2>2, <2>5 DEF Agents
  <2>. QED  BY <2>1, <2>3, <2>4, <2>6
<1>9. ASSUME SendEnd PROVE Good
  <2>. DEFINE config == IF agent.config = "queued" THEN "sent" ELSE agent.config
  <2>1. PICK n \in scope.chunk_counts :
          /\ utt \in Keys
          /\ cmds' = cmds \o <<EndUtterance(utt)>> \o (IF agent.config = "queued" THEN <<Swap("close")>> ELSE <<>>)
          /\ agent' = [agent EXCEPT !.utt = utt + 1, !.left = n, !.in_progress = FALSE, !.config = config]
    BY <1>9 DEF SendEnd
  <2>2. config \in {"none", "queued", "sent"}
    BY <1>2 DEF Agents
  <2>. DEFINE c1 == Append(cmds, EndUtterance(utt))
  <2>3. EndUtterance(utt) \in Commands /\ Swap("close") \in Commands
    BY <1>5, <1>6, <2>1, CommandsAre
  <2>4. cmds \o <<EndUtterance(utt)>> = c1 /\ c1 \in Seq(Commands)
    BY <1>2, <2>3, JoinIsAppend
  <2>. HIDE DEF c1
  <2>5. c1 \o <<Swap("close")>> = Append(c1, Swap("close")) /\ c1 \o <<>> = c1
    BY <2>3, <2>4, JoinIsAppend
  <2>6. cmds' = c1 \/ cmds' = Append(c1, Swap("close"))
    BY <2>1, <2>4, <2>5
  <2>. HIDE DEF config
  <2>. QED  BY <1>8, <2>1, <2>2, <2>6 DEF c1
<1>10. ASSUME CloseNotFound PROVE Good
  <2>. DEFINE config == agent.config
  <2>1. PICK n \in scope.chunk_counts :
          /\ utt \in Keys /\ cmds' = Append(cmds, EndUtterance(utt))
          /\ agent' = [agent EXCEPT !.utt = utt + 1, !.left = n, !.in_progress = FALSE]
    BY <1>10 DEF CloseNotFound
  <2>2. config \in {"none", "queued", "sent"}
    BY <1>2 DEF Agents
  <2>3. agent' = [agent EXCEPT !.utt = utt + 1, !.left = n, !.in_progress = FALSE, !.config = config]
    BY <1>2, <2>1 DEF Agents
  <2>. HIDE DEF config
  <2>. QED  BY <1>8, <2>1, <2>2, <2>3
<1>11. ASSUME UpdateConfig PROVE Good
  <2>1. agent' \in Agents /\ agent'.utt = utt /\ cmds' = cmds
    BY <1>2, <1>11 DEF UpdateConfig, Agents
  <2>. QED  BY <1>1, <1>2, <2>1
<1>12. ASSUME ApplyConfig PROVE Good
  <2>1. agent' \in Agents /\ agent'.utt = utt /\ (cmds' = cmds \/ cmds' = Append(cmds, Swap("idle")))
    BY <1>2, <1>12 DEF ApplyConfig, Agents
  <2>2. Append(cmds, Swap("idle")) \in Seq(Commands) /\ SpokenInOrder(Append(cmds, Swap("idle")), utt, ended)
    BY <1>4, <1>5, <1>6
  <2>. QED  BY <1>1, <1>2, <2>1, <2>2
<1>13. ASSUME SendBarrier PROVE Good
  <2>1. agent' \in Agents /\ agent'.utt = utt /\ cmds' = Append(cmds, Barrier)
    BY <1>2, <1>13 DEF SendBarrier, Agents
  <2>2. Append(cmds, Barrier) \in Seq(Commands) /\ SpokenInOrder(Append(cmds, Barrier), utt, ended)
    BY <1>4, <1>5, <1>6
  <2>. QED  BY <2>1, <2>2
<1>14. ASSUME SendStop PROVE Good
  <2>1. agent' \in Agents /\ agent'.utt = NoKey /\ cmds' = Append(cmds, Stop)
    BY <1>2, <1>14 DEF SendStop, Agents, NoKey
  <2>2. Append(cmds, Stop) \in Seq(Commands) /\ SpokenInOrder(Append(cmds, Stop), utt, ended)
    BY <1>4, <1>5
  <2>. DEFINE c1 == Append(cmds, Stop)
  <2>3. c1 \in Seq(Commands) /\ SpokenInOrder(c1, utt, ended) /\ cmds' = c1
    BY <2>1, <2>2
  <2>. HIDE DEF c1
  <2>4. SpokenInOrder(c1, NoKey, ended)
    BY <1>2, <2>3, NoKeyKeepsOrder
  <2>. QED  BY <2>1, <2>3, <2>4
<1>15. Good
  BY <1>7, <1>9, <1>10, <1>11, <1>12, <1>13, <1>14 DEF AgentStep
<1>16. /\ scope' = scope /\ pc' = pc /\ hand' = hand /\ stt' = stt /\ outstanding' = outstanding
       /\ parked' = parked /\ gen' = gen /\ told' = told
  BY <1>3 DEF AgentOnly
<1>17. Typed'
  BY <1>1, <1>15, <1>16 DEF Typed
<1>18. HandInTurn' /\ ReopenedIdle' /\ Aligned' /\ Ledger(outstanding, told)'
  BY <1>1, <1>16 DEF HandInTurn, ReopenedIdle, Aligned
<1>19. SpokenInOrder(cmds, agent.utt, told.ended)'
  BY <1>15, <1>16
<1>. QED  BY <1>17, <1>18, <1>19 DEF Inv

\* The provider's tasks and the vendor.
LEMMA VendorKeepsInv == Inv /\ VendorStep => Inv'
<1>. SUFFICES ASSUME Inv, VendorStep PROVE Inv'
  OBVIOUS
<1>. DEFINE C == Under(gen)
<1>1. Typed /\ stt \in Providers(C) /\ InStep(stt)
  BY DEF Inv, Typed
<1>2. VendorOnly
  BY DEF VendorStep, VendorTakesNext, VendorSpeaks, Lose
<1>3. Kept(C, stt, stt')
  <2>1. CASE VendorTakesNext
    BY <1>1, <2>1, VendorKeeps DEF VendorTakesNext
  <2>2. CASE VendorSpeaks
    BY <1>1, <2>2, VendorKeeps DEF VendorSpeaks
  <2>3. CASE Lose
    BY <1>1, <2>3, LostKeeps DEF Lose
  <2>. QED  BY <2>1, <2>2, <2>3 DEF VendorStep
<1>4. stt' \in Providers(C) /\ InStep(stt') /\ Owed(stt'.finals) = Owed(stt.finals)
  BY <1>3 DEF Kept
<1>5. /\ scope' = scope /\ agent' = agent /\ cmds' = cmds /\ pc' = pc /\ hand' = hand
      /\ outstanding' = outstanding /\ parked' = parked /\ gen' = gen /\ told' = told
  BY <1>2 DEF VendorOnly
<1>6. Typed'
  BY <1>1, <1>4, <1>5 DEF Typed
<1>7. Aligned'
  BY <1>4, <1>5 DEF Inv, Aligned
<1>8. HandInTurn' /\ ReopenedIdle' /\ Ledger(outstanding, told)' /\ SpokenInOrder(cmds, agent.utt, told.ended)'
  BY <1>5 DEF Inv, HandInTurn, ReopenedIdle
<1>. QED  BY <1>6, <1>7, <1>8 DEF Inv

\* A drain, with the actor going on from `pc` elsewhere.
LEMMA DrainKeepsInv ==
    ASSUME Inv, DrainOutputs, scope' = scope, agent' = agent, cmds' = cmds, hand' = hand,
           parked' = parked, gen' = gen, pc # "stopped",
           \/ pc = "reopen" /\ pc' = "start"
           \/ pc \in {"drain", "select"} /\ pc' = "parked"
    PROVE  Inv'
<1>1. Typed /\ Ledger(outstanding, told) /\ HandInTurn /\ ReopenedIdle /\ Aligned
      /\ SpokenInOrder(cmds, agent.utt, told.ended)
  BY DEF Inv
<1>2. Drain_(stt', outstanding', told')
  BY <1>1, DrainIs DEF Typed
<1>3. /\ stt' \in Providers(Under(gen)) /\ InStep(stt')
      /\ outstanding' \in Seq(Entries(gen)) /\ told' \in ToldOf /\ Ledger(outstanding', told')
      /\ told'.ended = told.ended /\ told.gave_up \subseteq told'.gave_up
      /\ outstanding = <<>> => outstanding' = <<>>
      /\ Len(outstanding) = Owed(stt.finals) => Len(outstanding') = Owed(stt'.finals)
  BY <1>2 DEF Drain_
<1>4. pc' \in Pcs /\ (pc' \in InHand <=> pc \in InHand) /\ pc' # "stopped"
  BY DEF Pcs, InHand
<1>5. Typed'
  BY <1>1, <1>3, <1>4 DEF Typed
<1>6. HandInTurn'
  BY <1>1, <1>3, <1>4 DEF HandInTurn
<1>7. ReopenedIdle'
  BY <1>1, <1>3 DEF ReopenedIdle
<1>8. Aligned'
  BY <1>1, <1>3 DEF Aligned
<1>9. SpokenInOrder(cmds, agent.utt, told.ended)' /\ Ledger(outstanding, told)'
  BY <1>1, <1>3
<1>. QED  BY <1>5, <1>6, <1>7, <1>8, <1>9 DEF Inv

\* The chunk in hand.
LEMMA HandKeepsInv == Inv /\ (ReopenStart \/ Push) => Inv'
<1>. SUFFICES ASSUME Inv, ReopenStart \/ Push PROVE Inv'
  OBVIOUS
<1>1. Typed /\ Ledger(outstanding, told) /\ HandInTurn /\ ReopenedIdle /\ Aligned
      /\ SpokenInOrder(cmds, agent.utt, told.ended)
  BY DEF Inv
<1>2. /\ scope' = scope /\ agent' = agent /\ cmds' = cmds /\ outstanding' = outstanding
      /\ parked' = parked /\ gen' = gen /\ told' = told
  BY DEF ReopenStart, Push
<1>3. SpokenInOrder(cmds, agent.utt, told.ended)' /\ Ledger(outstanding, told)'
  BY <1>1, <1>2
<1>4. CASE ReopenStart
  <2>1. pc = "start" /\ pc' = "push" /\ hand' = hand /\ (stt' = Opened \/ stt' = stt)
    BY <1>4 DEF ReopenStart
  <2>2. Opened \in Providers(Under(gen)) /\ InStep(Opened) /\ Owed(Opened.finals) = 0
    BY OpenedIs
  <2>3. Typed'
    BY <1>1, <1>2, <2>1, <2>2 DEF Typed, Pcs, InHand
  <2>4. HandInTurn' /\ ReopenedIdle'
    BY <1>1, <1>2, <2>1 DEF HandInTurn, InHand, ReopenedIdle
  <2>5. Len(outstanding) = 0
    BY <1>1, <2>1 DEF ReopenedIdle
  <2>6. Aligned'
    BY <1>1, <1>2, <2>1, <2>2, <2>5 DEF Aligned
  <2>. QED  BY <1>3, <2>3, <2>4, <2>6 DEF Inv
<1>5. CASE Push
  <2>. DEFINE chunk == <<hand[1], hand[2], gen>>
  <2>1. pc = "push" /\ pc' = "drain" /\ hand' = <<>> /\ stt' = PushAudio(stt, chunk)
    BY <1>5 DEF Push
  <2>2. hand \in Keys \X Nat
    BY <1>1, <2>1 DEF HandInTurn, InHand
  <2>3. chunk \in Under(gen)
    BY <2>2 DEF Under
  <2>. HIDE DEF chunk
  <2>4. Kept(Under(gen), stt, stt')
    BY <1>1, <2>1, <2>3, PushKeeps DEF Typed
  <2>5. Typed'
    BY <1>1, <1>2, <2>1, <2>4 DEF Typed, Pcs, Kept
  <2>6. HandInTurn' /\ ReopenedIdle'
    BY <1>1, <1>2, <2>1 DEF HandInTurn, InHand, ReopenedIdle
  <2>7. Aligned'
    BY <1>1, <1>2, <2>1, <2>4 DEF Aligned, Kept
  <2>. QED  BY <1>3, <2>5, <2>6, <2>7 DEF Inv
<1>. QED  BY <1>4, <1>5

\* A command is read.
LEMMA ReadIs ==
    ASSUME Inv, NEW name, Reads(name),
           NEW more, more = IF name = "end" THEN told.ended \union {KeyOf(Head(cmds))} ELSE told.ended
    PROVE  /\ cmds # <<>> /\ cmds' \in Seq(Commands) /\ Head(cmds) \in Commands /\ Head(cmds).cmd = name
           /\ SpokenInOrder(cmds', agent.utt, more)
           /\ name \in {"audio", "end"} => Open(told.ended, KeyOf(Head(cmds)))
<1>1. cmds \in Seq(Commands) /\ agent.utt \in Nat /\ told.ended \in SUBSET Keys
      /\ SpokenInOrder(cmds, agent.utt, told.ended)
  BY DEF Inv, Typed, Agents, ToldOf
<1>2. cmds # <<>> /\ Head(cmds).cmd = name /\ cmds' = Tail(cmds)
  BY DEF Reads
<1>3. more = IF Head(cmds).cmd = "end" THEN told.ended \union {KeyOf(Head(cmds))} ELSE told.ended
  BY <1>2
<1>4. /\ Tail(cmds) \in Seq(Commands) /\ Head(cmds) \in Commands
      /\ SpokenInOrder(Tail(cmds), agent.utt, more)
      /\ Keyed(Head(cmds)) => Open(told.ended, KeyOf(Head(cmds)))
  <2>. DEFINE utt == agent.utt
              ended == told.ended
  <2>1. utt \in Nat /\ ended \in SUBSET Keys /\ SpokenInOrder(cmds, utt, ended)
        /\ more = IF Head(cmds).cmd = "end" THEN ended \union {KeyOf(Head(cmds))} ELSE ended
    BY <1>1, <1>3
  <2>. HIDE DEF utt, ended
  <2>2. /\ Tail(cmds) \in Seq(Commands) /\ Head(cmds) \in Commands
        /\ SpokenInOrder(Tail(cmds), utt, more)
        /\ Keyed(Head(cmds)) => Open(ended, KeyOf(Head(cmds)))
    BY <1>1, <1>2, <2>1, ReadKeepsOrder
  <2>. QED  BY <2>2 DEF utt, ended
<1>. QED  BY <1>2, <1>4 DEF Keyed

\* A command is read.
LEMMA ReadKeepsInv == Inv /\ ReadCommand => Inv'
<1>. SUFFICES ASSUME Inv, ReadCommand PROVE Inv'
  OBVIOUS
<1>. DEFINE c == Head(cmds)
<1>1. Typed /\ Ledger(outstanding, told) /\ HandInTurn /\ ReopenedIdle /\ Aligned
      /\ SpokenInOrder(cmds, agent.utt, told.ended)
  BY DEF Inv
<1>2. /\ scope' = scope /\ agent' = agent /\ gen' = gen
  BY DEF ReadCommand, OnAudio, OnEnd, OnParkable, OnStop
<1>3. CASE OnAudio
  <2>1. Reads("audio") /\ hand' = c.arg /\ pc' = (IF MayReopen THEN "reopen" ELSE "push")
        /\ stt' = stt /\ outstanding' = outstanding /\ parked' = parked /\ told' = told
    BY <1>3 DEF OnAudio
  <2>2. cmds' \in Seq(Commands) /\ c \in Commands /\ c.cmd = "audio" /\ SpokenInOrder(cmds', agent.utt, told.ended)
        /\ Open(told.ended, KeyOf(c))
    BY <2>1, ReadIs
  <2>3. c.arg \in Keys \X Nat /\ Open(told.ended, c.arg[1])
    BY <2>2, CommandsAre DEF KeyOf
  <2>4. Typed'
    BY <1>1, <1>2, <2>1, <2>2 DEF Typed, Pcs, InHand
  <2>5. HandInTurn'
    <3>1. c.arg # <<>>
      BY <2>3
    <3>. QED  BY <2>1, <2>3, <3>1 DEF HandInTurn, InHand
  <2>6. ReopenedIdle' /\ Aligned'
    <3>1. pc = "select"
      BY <2>1 DEF Reads
    <3>. QED  BY <1>1, <1>2, <2>1, <3>1 DEF ReopenedIdle, Aligned, MayReopen
  <2>7. SpokenInOrder(cmds, agent.utt, told.ended)' /\ Ledger(outstanding, told)'
    BY <1>1, <1>2, <2>1, <2>2
  <2>. QED  BY <2>4, <2>5, <2>6, <2>7 DEF Inv
<1>4. CASE OnEnd
  <2>. DEFINE k == KeyOf(c)
              more == told.ended \union {k}
              t == [told EXCEPT !.ended = @ \union {k}]
              r == [Close(t, k) EXCEPT !.refused = @ \union {k}]
              f == Append(outstanding, Entry(k))
  <2>1. /\ Reads("end") /\ hand' = hand /\ parked' = parked
        /\ \/ /\ stt' = RequestFinalize(stt) /\ outstanding' = f /\ told' = t /\ pc' = "drain"
           \/ /\ told' = r /\ pc' = "parked" /\ stt' = stt /\ outstanding' = outstanding
    BY <1>4 DEF OnEnd, KeyOf
  <2>2. cmds' \in Seq(Commands) /\ c \in Commands /\ c.cmd = "end" /\ SpokenInOrder(cmds', agent.utt, more)
        /\ Open(told.ended, k)
    BY <2>1, ReadIs
  <2>3. k \in Keys /\ \A x \in told.ended : x < k
    <3>1. k \in Keys
      BY <2>2 DEF Open
    <3>2. cmds # <<>> /\ Keyed(cmds[1]) /\ 1 \in DOMAIN cmds /\ c = cmds[1]
      <4>1. cmds # <<>> /\ cmds \in Seq(Commands)
        BY <1>1, <2>1 DEF Reads, Typed
      <4>2. c = cmds[1] /\ 1 \in DOMAIN cmds
        BY <4>1, TailIs
      <4>. QED  BY <2>2, <4>1, <4>2 DEF Keyed
    <3>. QED  BY <1>1, <3>1, <3>2 DEF SpokenInOrder
  <2>4. pc = "select" /\ hand = <<>>
    BY <1>1, <2>1 DEF Reads, HandInTurn, InHand
  <2>5. outstanding \in Seq(Entries(gen)) /\ told \in ToldOf /\ gen \in Nat
        /\ stt \in Providers(Under(gen)) /\ InStep(stt)
    BY <1>1 DEF Typed
  <2>. HIDE DEF c, k
  <2>6. CASE stt' = RequestFinalize(stt) /\ outstanding' = f /\ told' = t /\ pc' = "drain"
    <3>. DEFINE y == Entry(k)
    <3>1. y = [key |-> k, gen |-> gen, timed_out |-> FALSE]
      BY DEF Entry
    <3>. HIDE DEF y
    <3>2. t = [told EXCEPT !.ended = @ \union {k}]
      OBVIOUS
    <3>3. t.ended = more /\ t.gave_up = told.gave_up
      BY <2>5 DEF ToldOf
    <3>. HIDE DEF t
    <3>4. /\ Append(outstanding, y) \in Seq(Entries(gen)) /\ Len(Append(outstanding, y)) = Len(outstanding) + 1
          /\ t \in ToldOf /\ Ledger(Append(outstanding, y), t)
      BY <1>1, <2>3, <2>5, <3>1, <3>2, EndedKeeps
    <3>5. stt' \in Providers(Under(gen)) /\ InStep(stt') /\ Owed(stt'.finals) = Owed(stt.finals) + 1
      BY <2>5, <2>6, RequestOwesOne
    <3>6. f = Append(outstanding, y)
      BY DEF y
    <3>. HIDE DEF f
    <3>7. Typed'
      BY <1>1, <1>2, <2>1, <2>2, <2>6, <3>4, <3>5, <3>6 DEF Typed, Pcs
    <3>8. HandInTurn' /\ ReopenedIdle'
      BY <2>1, <2>4, <2>6 DEF HandInTurn, InHand, ReopenedIdle
    <3>9. Aligned'
      BY <1>1, <2>4, <2>6, <3>3, <3>4, <3>5, <3>6 DEF Aligned
    <3>10. SpokenInOrder(cmds, agent.utt, told.ended)' /\ Ledger(outstanding, told)'
      BY <1>2, <2>2, <2>6, <3>3, <3>4, <3>6
    <3>. QED  BY <3>7, <3>8, <3>9, <3>10 DEF Inv
  <2>7. CASE told' = r /\ pc' = "parked" /\ stt' = stt /\ outstanding' = outstanding
    <3>1. r = Refusal(told, k)
      BY DEF Refusal
    <3>. HIDE DEF r
    <3>2. r \in ToldOf /\ Ledger(outstanding, r) /\ r.gave_up = told.gave_up /\ r.ended = more
      BY <1>1, <2>3, <2>5, <3>1, RefusedKeeps
    <3>3. Typed'
      BY <1>1, <1>2, <2>1, <2>2, <2>7, <3>2 DEF Typed, Pcs
    <3>4. HandInTurn' /\ ReopenedIdle'
      BY <2>1, <2>4, <2>7 DEF HandInTurn, InHand, ReopenedIdle
    <3>5. Aligned'
      BY <1>1, <2>4, <2>7, <3>2 DEF Aligned
    <3>6. SpokenInOrder(cmds, agent.utt, told.ended)' /\ Ledger(outstanding, told)'
      BY <1>2, <2>2, <2>7, <3>2
    <3>. QED  BY <3>3, <3>4, <3>5, <3>6 DEF Inv
  <2>. QED  BY <2>1, <2>6, <2>7
<1>5. CASE OnParkable
  <2>1. PICK name \in {"swap", "barrier"} :
          /\ Reads(name) /\ parked' = c /\ pc' = "parked" /\ hand' = hand
          /\ stt' = stt /\ outstanding' = outstanding /\ told' = told
    BY <1>5 DEF OnParkable
  <2>2. cmds' \in Seq(Commands) /\ c \in Commands /\ c.cmd = name /\ SpokenInOrder(cmds', agent.utt, told.ended)
    BY <2>1, ReadIs
  <2>3. c \in Parkables
    BY <2>2, CommandsAre
  <2>4. pc = "select"
    BY <2>1 DEF Reads
  <2>5. Typed'
    BY <1>1, <1>2, <2>1, <2>2, <2>3 DEF Typed, Pcs
  <2>6. HandInTurn' /\ ReopenedIdle' /\ Aligned'
    BY <1>1, <2>1, <2>4 DEF HandInTurn, InHand, ReopenedIdle, Aligned
  <2>7. SpokenInOrder(cmds, agent.utt, told.ended)' /\ Ledger(outstanding, told)'
    BY <1>1, <1>2, <2>1, <2>2
  <2>. QED  BY <2>5, <2>6, <2>7 DEF Inv
<1>6. CASE OnStop
  <2>. DEFINE s == [stt EXCEPT !.alive = FALSE, !.finals = Finals0, !.socket = <<>>, !.heard = {}]
              C == Under(gen)
  <2>1. Reads("stop") /\ stt' = s /\ pc' = "stopped" /\ hand' = hand
        /\ outstanding' = outstanding /\ parked' = parked /\ told' = told
    BY <1>6 DEF OnStop
  <2>2. cmds' \in Seq(Commands) /\ SpokenInOrder(cmds', agent.utt, told.ended)
    BY <2>1, ReadIs
  <2>3. /\ stt \in Providers(C) /\ InStep(stt)
    BY <1>1 DEF Typed
  <2>4. Finals0 \in FinalsOf(C) /\ <<>> \in Seq(SocketItems(C)) /\ Len(<<>>) = 0
    BY DEF Finals0, FinalsOf
  <2>5. s \in Providers(C) /\ s.socket = <<>> /\ s.position = stt.position /\ s.pushed = stt.pushed
    BY <2>3, <2>4 DEF Providers
  <2>6. InStep(s)
    <3>1. stt.socket \in Seq(SocketItems(C)) /\ stt.position \in Nat /\ stt.pushed \in Nat
      BY <2>3 DEF Providers
    <3>2. All(stt.socket, SocketFinalize) <= Len(stt.socket) /\ All(stt.socket, SocketFinalize) \in Nat
          /\ Len(stt.socket) \in Nat
      BY <3>1, AllNat
    <3>3. All(<<>>, SocketFinalize) = 0
      BY NoneInEmpty
    <3>. HIDE DEF s
    <3>. QED  BY <2>3, <2>4, <2>5, <3>1, <3>2, <3>3 DEF InStep
  <2>. HIDE DEF s
  <2>7. Typed'
    BY <1>1, <1>2, <2>1, <2>2, <2>5, <2>6 DEF Typed, Pcs
  <2>8. pc = "select"
    BY <2>1 DEF Reads
  <2>9. HandInTurn' /\ ReopenedIdle' /\ Aligned'
    BY <1>1, <2>1, <2>8 DEF HandInTurn, InHand, ReopenedIdle, Aligned
  <2>10. SpokenInOrder(cmds, agent.utt, told.ended)' /\ Ledger(outstanding, told)'
    BY <1>1, <1>2, <2>1, <2>2
  <2>. QED  BY <2>7, <2>9, <2>10 DEF Inv
<1>. QED  BY <1>3, <1>4, <1>5, <1>6 DEF ReadCommand

\* With nobody waiting, every utterance whose end was read is answered.
LEMMA NobodyOwed ==
    ASSUME Inv, Waiting = {}
    PROVE  Owing = {}
<1>1. Booked(outstanding, told) /\ AllAccounted(outstanding, told)
  BY DEF Inv, Ledger
<1>2. ASSUME NEW k \in told.ended, k \notin ToSet(told.closed) PROVE FALSE
  <2>1. PICK i \in DOMAIN outstanding : outstanding[i].key = k
    BY <1>1, <1>2 DEF AllAccounted
  <2>2. ~outstanding[i].timed_out
    BY <1>1, <1>2, <2>1 DEF Booked
  <2>. QED  BY <2>1, <2>2 DEF Waiting
<1>. QED  BY <1>2 DEF Owing

\* The parked command runs, or waits on.
LEMMA ParkedKeepsInv == Inv /\ RunParked => Inv'
<1>. SUFFICES ASSUME Inv, RunParked PROVE Inv'
  OBVIOUS
<1>1. Typed /\ Ledger(outstanding, told) /\ HandInTurn /\ ReopenedIdle /\ Aligned
      /\ SpokenInOrder(cmds, agent.utt, told.ended)
  BY DEF Inv
<1>2. /\ scope' = scope /\ agent' = agent /\ cmds' = cmds /\ hand' = hand
      /\ pc = "parked" /\ pc' = "select"
  BY DEF RunParked
<1>3. hand = <<>>
  BY <1>1, <1>2 DEF HandInTurn, InHand
<1>4. CASE ~MayRunParked
  <2>1. stt' = stt /\ outstanding' = outstanding /\ parked' = parked /\ gen' = gen /\ told' = told
    BY <1>4 DEF RunParked
  <2>2. Typed'
    BY <1>1, <1>2, <2>1 DEF Typed, Pcs
  <2>3. HandInTurn' /\ ReopenedIdle' /\ Aligned'
    BY <1>1, <1>2, <1>3, <2>1 DEF HandInTurn, InHand, ReopenedIdle, Aligned
  <2>4. SpokenInOrder(cmds, agent.utt, told.ended)' /\ Ledger(outstanding, told)'
    BY <1>1, <1>2, <2>1
  <2>. QED  BY <2>2, <2>3, <2>4 DEF Inv
<1>5. CASE MayRunParked
  <2>1. /\ parked' = None /\ told' = Reached(parked) /\ parked # None /\ Waiting = {}
        /\ \/ stt' = Opened /\ gen' = gen + 1 /\ outstanding' = <<>>
           \/ stt' = stt /\ gen' = gen /\ outstanding' = outstanding
    BY <1>5 DEF RunParked, MayRunParked, Survivors
  <2>2. Owing = {}
    BY <2>1, NobodyOwed
  <2>. DEFINE midway == stt.alive /\ stt.pushed > stt.boundary
              reach == [cmd |-> parked.cmd, by |-> parked.arg[1], owing |-> Owing, midway |-> midway]
              more == told.reached \union {reach}
  <2>3. parked \in Parkables
    BY <1>1, <2>1 DEF Typed
  <2>4. reach \in Reaches
    <3>1. parked.cmd \in {"swap", "barrier"} /\ parked.arg[1] \in {"close", "idle", "wait_stt_idle"}
      BY <2>3, CommandsAre
    <3>2. midway \in BOOLEAN
      <4>1. stt.alive \in BOOLEAN
        BY <1>1 DEF Typed, Providers
      <4>. QED  BY <4>1
    <3>. HIDE DEF midway
    <3>. QED  BY <2>2, <3>1, <3>2 DEF Reaches
  <2>5. told' = [told EXCEPT !.reached = more]
    BY <2>1 DEF Reached
  <2>. HIDE DEF reach
  <2>6. more \in SUBSET Reaches /\ told \in ToldOf
    BY <1>1, <2>4 DEF Typed, ToldOf
  <2>. HIDE DEF more
  <2>7. /\ told' \in ToldOf /\ told'.ended = told.ended /\ told'.refused = told.refused
        /\ told'.closed = told.closed /\ told'.gave_up = told.gave_up
    <3>. DEFINE t == [told EXCEPT !.reached = more]
    <3>1. /\ t \in ToldOf /\ t.ended = told.ended /\ t.refused = told.refused
          /\ t.closed = told.closed /\ t.gave_up = told.gave_up
      BY <2>6 DEF ToldOf
    <3>. QED  BY <2>5, <3>1
  <2>8. Ledger(outstanding, told')
    <3>. DEFINE e == outstanding
                t == told
                r == told'
    <3>1. Ledger(e, t) /\ r.ended = t.ended /\ r.refused = t.refused /\ r.closed = t.closed
      BY <1>1, <2>7
    <3>. HIDE DEF e, t, r
    <3>2. Ledger(e, r)
      BY <3>1, LedgerOfTheSame
    <3>. QED  BY <3>2 DEF e, r
  <2>9. HandInTurn' /\ ReopenedIdle'
    BY <1>2, <1>3 DEF HandInTurn, InHand, ReopenedIdle
  <2>10. SpokenInOrder(cmds, agent.utt, told.ended)'
    BY <1>1, <1>2, <2>7
  <2>11. CASE stt' = stt /\ gen' = gen /\ outstanding' = outstanding
    <3>1. Typed'
      BY <1>1, <1>2, <2>1, <2>7, <2>11 DEF Typed, Pcs
    <3>2. Aligned'
      BY <1>1, <1>2, <2>7, <2>11 DEF Aligned
    <3>. QED  BY <2>8, <2>9, <2>10, <2>11, <3>1, <3>2 DEF Inv
  <2>12. CASE stt' = Opened /\ gen' = gen + 1 /\ outstanding' = <<>>
    <3>1. Opened \in Providers(Under(gen + 1)) /\ InStep(Opened) /\ Owed(Opened.finals) = 0
      BY OpenedIs
    <3>2. gen + 1 \in Nat /\ <<>> \in Seq(Entries(gen + 1)) /\ Len(<<>>) = 0 /\ DOMAIN <<>> = {}
      BY <1>1 DEF Typed
    <3>3. Typed'
      BY <1>1, <1>2, <2>1, <2>7, <2>12, <3>1, <3>2 DEF Typed, Pcs
    <3>4. Aligned'
      BY <2>12, <3>1, <3>2 DEF Aligned
    <3>5. Ledger(<<>>, told')
      <4>1. \A k \in told'.ended : k \in ToSet(told'.closed)
        BY <2>2, <2>7 DEF Owing
      <4>2. ClosedWell(told')
        BY <2>8 DEF Ledger
      <4>. QED  BY <3>2, <4>1, <4>2 DEF Ledger, InTurn, Booked, AllAccounted, ClosedBefore
    <3>. QED  BY <2>9, <2>10, <2>12, <3>3, <3>4, <3>5 DEF Inv
  <2>. QED  BY <2>1, <2>11, <2>12
<1>. QED  BY <1>4, <1>5

\* A deadline passes, or the marker of a finalize closed by one never came.
LEMMA DeadlineKeepsInv == Inv /\ (ExpireDeadlines \/ ForgetFront) => Inv'
<1>. SUFFICES ASSUME Inv, ExpireDeadlines \/ ForgetFront PROVE Inv'
  OBVIOUS
<1>1. Typed /\ Ledger(outstanding, told) /\ HandInTurn /\ ReopenedIdle /\ Aligned
      /\ SpokenInOrder(cmds, agent.utt, told.ended)
  BY DEF Inv
<1>2. /\ scope' = scope /\ agent' = agent /\ cmds' = cmds /\ hand' = hand
      /\ stt' = stt /\ parked' = parked /\ gen' = gen /\ pc = "select" /\ pc' = "parked"
  BY DEF ExpireDeadlines, ForgetFront
<1>4. outstanding \in Seq(Entries(gen)) /\ told \in ToldOf
  BY <1>1 DEF Typed
<1>5. hand = <<>>
  BY <1>1, <1>2 DEF HandInTurn, InHand
<1>6. HandInTurn' /\ ReopenedIdle'
  BY <1>2, <1>5 DEF HandInTurn, InHand, ReopenedIdle
<1>7. CASE ExpireDeadlines
  <2>1. PICK i \in Waiting :
          /\ MayExpire(i)
          /\ outstanding' = [outstanding EXCEPT ![i].timed_out = TRUE]
          /\ told' = [Close(told, outstanding[i].key)
                        EXCEPT !.timed_out = @ \union {outstanding[i].key}]
    BY <1>7 DEF ExpireDeadlines
  <2>2. i \in DOMAIN outstanding /\ ~outstanding[i].timed_out
        /\ \A j \in DOMAIN outstanding : ~outstanding[j].timed_out => i <= j
    BY <2>1 DEF Waiting, MayExpire
  <2>. DEFINE e == outstanding
              t == told
              f == outstanding'
              r == told'
  <2>3. /\ e \in Seq(Entries(gen)) /\ t \in ToldOf /\ Ledger(e, t) /\ i \in DOMAIN e /\ ~e[i].timed_out
        /\ \A j \in DOMAIN e : ~e[j].timed_out => i <= j
        /\ f = LateEntry(e, i) /\ r = LateClose(t, e[i].key)
    BY <1>1, <1>4, <2>1, <2>2 DEF LateEntry, LateClose
  <2>. HIDE DEF e, t, f, r
  <2>4. f \in Seq(Entries(gen)) /\ Len(f) = Len(e) /\ r \in ToldOf /\ Ledger(f, r)
        /\ r.gave_up = t.gave_up /\ r.ended = t.ended
    BY <2>3, ExpiryKeeps
  <2>5. outstanding' \in Seq(Entries(gen)) /\ Len(outstanding') = Len(outstanding) /\ told' \in ToldOf
        /\ Ledger(outstanding', told') /\ told'.gave_up = told.gave_up /\ told'.ended = told.ended
    BY <2>4 DEF e, t, f, r
  <2>6. Typed'
    BY <1>1, <1>2, <2>5 DEF Typed, Pcs
  <2>7. Aligned'
    BY <1>1, <1>2, <2>5 DEF Aligned
  <2>8. SpokenInOrder(cmds, agent.utt, told.ended)' /\ Ledger(outstanding, told)'
    BY <1>1, <1>2, <2>5
  <2>. QED  BY <1>6, <2>6, <2>7, <2>8 DEF Inv
<1>8. CASE ForgetFront
  <2>. DEFINE gives == told.gave_up \union {"actor"}
  <2>1. outstanding # <<>> /\ Head(outstanding).timed_out /\ outstanding' = Tail(outstanding)
        /\ told' = [told EXCEPT !.gave_up = gives]
    BY <1>8 DEF ForgetFront
  <2>2. gives \in SUBSET {"provider", "actor"} /\ "actor" \in gives
    BY <1>4 DEF ToldOf
  <2>. HIDE DEF gives
  <2>3. /\ told' \in ToldOf /\ told'.gave_up = gives /\ told'.ended = told.ended
        /\ told'.refused = told.refused /\ told'.closed = told.closed
    <3>. DEFINE t == [told EXCEPT !.gave_up = gives]
    <3>1. /\ t \in ToldOf /\ t.gave_up = gives /\ t.ended = told.ended
          /\ t.refused = told.refused /\ t.closed = told.closed
      BY <1>4, <2>2 DEF ToldOf
    <3>. QED  BY <2>1, <3>1
  <2>4. Tail(outstanding) \in Seq(Entries(gen))
    BY <1>4, <2>1, TailIs
  <2>5. Ledger(Tail(outstanding), told)
    <3>. DEFINE e == outstanding
                t == told
    <3>1. e \in Seq(Entries(gen)) /\ e # <<>> /\ t \in ToldOf /\ Ledger(e, t)
          /\ t = IF Head(e).timed_out THEN t ELSE Close(t, Head(e).key)
      BY <1>1, <1>4, <2>1
    <3>. HIDE DEF e, t
    <3>2. Ledger(Tail(e), t)
      BY <3>1, AnsweredKeeps
    <3>. QED  BY <3>2 DEF e, t
  <2>6. Ledger(outstanding', told')
    <3>. DEFINE e == Tail(outstanding)
                t == told
                r == told'
    <3>1. Ledger(e, t) /\ r.ended = t.ended /\ r.refused = t.refused /\ r.closed = t.closed
      BY <2>3, <2>5
    <3>. HIDE DEF e, t, r
    <3>2. Ledger(e, r)
      BY <3>1, LedgerOfTheSame
    <3>. QED  BY <2>1, <3>2 DEF e, r
  <2>7. Typed'
    BY <1>1, <1>2, <2>1, <2>3, <2>4 DEF Typed, Pcs
  <2>8. Aligned'
    BY <2>2, <2>3 DEF Aligned
  <2>9. SpokenInOrder(cmds, agent.utt, told.ended)' /\ Ledger(outstanding, told)'
    BY <1>1, <1>2, <2>3, <2>6
  <2>. QED  BY <1>6, <2>7, <2>8, <2>9 DEF Inv
<1>. QED  BY <1>7, <1>8

\* Every step preserves the invariant.
LEMMA NextInv == Inv /\ [Next]_vars => Inv'
<1>. SUFFICES ASSUME Inv, [Next]_vars PROVE Inv'
  OBVIOUS
<1>1. CASE AgentStep
  BY <1>1, AgentKeeps
<1>2. CASE VendorStep
  BY <1>2, VendorKeepsInv
<1>3. CASE ReadCommand
  BY <1>3, ReadKeepsInv
<1>4. CASE ReopenStart \/ Push
  BY <1>4, HandKeepsInv
<1>5. CASE RunParked
  BY <1>5, ParkedKeepsInv
<1>6. CASE ExpireDeadlines \/ ForgetFront
  BY <1>6, DeadlineKeepsInv
<1>7. CASE ReopenDrain
  BY <1>7, DrainKeepsInv DEF ReopenDrain
<1>8. CASE Drain
  BY <1>8, DrainKeepsInv DEF Drain
<1>9. CASE Poll
  BY <1>9, DrainKeepsInv DEF Poll
<1>10. CASE BackoffPasses
  <2>1. /\ scope' = scope /\ agent' = agent /\ cmds' = cmds /\ pc' = pc /\ hand' = hand /\ stt' = stt
        /\ outstanding' = outstanding /\ parked' = parked /\ gen' = gen /\ told' = told
    BY <1>10 DEF BackoffPasses
  <2>. QED  BY <2>1 DEF Inv, Typed, HandInTurn, ReopenedIdle, Aligned
<1>11. CASE UNCHANGED vars
  <2>1. /\ scope' = scope /\ agent' = agent /\ cmds' = cmds /\ pc' = pc /\ hand' = hand /\ stt' = stt
        /\ outstanding' = outstanding /\ parked' = parked /\ gen' = gen /\ told' = told
    BY <1>11 DEF vars
  <2>. QED  BY <2>1 DEF Inv, Typed, HandInTurn, ReopenedIdle, Aligned
<1>. QED  BY <1>1, <1>2, <1>3, <1>4, <1>5, <1>6, <1>7, <1>8, <1>9, <1>10, <1>11 DEF Next, ActorStep

\* The inductive invariant holds in every state.
LEMMA InvHolds == Spec => []Inv
  BY InitInv, NextInv, PTL DEF Spec

-----------------------------------------------------------------------------
(* Whose the texts are. *)

\* The chunks behind d markers are of the utterance of the entry that the next
\* marker answers, or of the one whose audio comes next.
Owned(T, d, entries, ended) ==
    \A c \in T : IF d < Len(entries) THEN c[1] = entries[d + 1].key ELSE Open(ended, c[1])

\* An item of the queue; of one no entry waits for, only if somebody claims it.
ItemOwned(x, d, entries, ended, claims) ==
    \A c \in x.text :
      /\ x.kind = "final" => d < Len(entries)
      /\ d < Len(entries) => c[1] = entries[d + 1].key
      /\ claims /\ d >= Len(entries) => Open(ended, c[1])

QueueOwned(q, entries, ended, claims) ==
    \A i \in DOMAIN q : ItemOwned(q[i], First(q, FinalizeDone, i - 1), entries, ended, claims)
SocketOwned(s, d, entries, ended) ==
    \A j \in DOMAIN s : Owned(s[j].chunk, d + First(s, SocketFinalize, j - 1), entries, ended)

\* All that the provider holds.
TextsOwned(p, entries, ended, claims) ==
    /\ QueueOwned(p.finals.queue, entries, ended, claims)
    /\ Owned(p.finals.segments \union p.heard, Dones(p.finals.queue), entries, ended)
    /\ SocketOwned(p.socket, Dones(p.finals.queue), entries, ended)

\* A finalize in the socket for each that is requested.
MarkersSent(p) == p.alive => p.finals.pending = All(p.socket, SocketFinalize)

\* A dead stream holds only its queue.
DeadIsEmpty(p) ==
    ~p.alive => /\ p.finals.pending = 0 /\ p.finals.segments = {}
                /\ p.socket = <<>> /\ p.heard = {}

\* With nothing pushed since the last finalize, the vendor has all before it.
Quiet(p) ==
    /\ p.boundary <= p.pushed
    /\ p.alive /\ p.boundary = p.pushed =>
         IF p.socket = <<>> THEN p.heard = {} ELSE p.socket[Len(p.socket)] = SocketFinalize

Books(p) == DeadIsEmpty(p) /\ Quiet(p)

\* One more item in the queue.
LEMMA QueueNext ==
    ASSUME NEW C, NEW q \in Seq(Items(C)), NEW x \in Items(C), NEW entries, NEW ended, NEW claims,
           QueueOwned(q, entries, ended, claims), ItemOwned(x, Dones(q), entries, ended, claims)
    PROVE  QueueOwned(Append(q, x), entries, ended, claims)
<1>. DEFINE r == Append(q, x)
            n == Len(q)
<1>1. /\ DOMAIN r = DOMAIN q \union {n + 1} /\ r[n + 1] = x /\ n \in Nat /\ DOMAIN q = 1 .. n
      /\ \A i \in DOMAIN q : r[i] = q[i]
  BY AppendIs
<1>. HIDE DEF r, n
<1>2. ASSUME NEW m \in Nat, m <= n PROVE First(r, FinalizeDone, m) = First(q, FinalizeDone, m)
  <2>1. \A j \in 1 .. m : r[j] = q[j]
    BY <1>1, <1>2
  <2>. QED  BY <2>1, FirstSame
<1>3. Dones(q) = First(q, FinalizeDone, n)
  BY DonesIsAll DEF All, n
<1>4. ASSUME NEW i \in DOMAIN r PROVE ItemOwned(r[i], First(r, FinalizeDone, i - 1), entries, ended, claims)
  <2>1. CASE i \in DOMAIN q
    <3>. DEFINE m == i - 1
    <3>1. m \in Nat /\ m <= n
      BY <1>1, <2>1
    <3>. HIDE DEF m
    <3>2. First(r, FinalizeDone, m) = First(q, FinalizeDone, m)
      BY <1>2, <3>1
    <3>. QED  BY <1>1, <2>1, <3>2 DEF QueueOwned, m
  <2>2. CASE i = n + 1
    <3>1. i - 1 = n /\ n <= n
      BY <1>1, <2>2
    <3>2. First(r, FinalizeDone, n) = Dones(q)
      BY <1>1, <1>2, <1>3, <3>1
    <3>. QED  BY <1>1, <2>2, <3>1, <3>2
  <2>. QED  BY <1>1, <1>4, <2>1, <2>2
<1>. QED  BY <1>4 DEF QueueOwned, r

\* Items without text.
LEMMA QueueJoined ==
    ASSUME NEW C, NEW q \in Seq(Items(C)), NEW t \in Seq(Items(C)), NEW entries, NEW ended, NEW claims,
           QueueOwned(q, entries, ended, claims), \A i \in DOMAIN t : t[i].text = {}
    PROVE  QueueOwned(q \o t, entries, ended, claims)
<1>. DEFINE r == q \o t
            n == Len(q)
<1>1. /\ n \in Nat /\ DOMAIN q = 1 .. n /\ \A i \in DOMAIN q : i \in DOMAIN r /\ r[i] = q[i]
  OBVIOUS
<1>2. \A i \in DOMAIN r : i \in DOMAIN q \/ (i - n \in DOMAIN t /\ r[i] = t[i - n])
  OBVIOUS
<1>. HIDE DEF r, n
<1>3. ASSUME NEW i \in DOMAIN r PROVE ItemOwned(r[i], First(r, FinalizeDone, i - 1), entries, ended, claims)
  <2>1. CASE i \in DOMAIN q
    <3>. DEFINE m == i - 1
    <3>1. m \in Nat /\ \A j \in 1 .. m : r[j] = q[j]
      BY <1>1, <2>1
    <3>. HIDE DEF m
    <3>2. First(r, FinalizeDone, m) = First(q, FinalizeDone, m)
      BY <3>1, FirstSame
    <3>. QED  BY <1>1, <2>1, <3>2 DEF QueueOwned, m
  <2>2. CASE r[i].text = {}
    BY <2>2 DEF ItemOwned
  <2>. QED  BY <1>2, <1>3, <2>1, <2>2
<1>. QED  BY <1>3 DEF QueueOwned, r

\* Text that is owned may be queued as a partial, and as a final if an entry waits.
LEMMA OwnedItem ==
    ASSUME NEW T, NEW d \in Nat, NEW entries, NEW ended, NEW claims, Owned(T, d, entries, ended),
           Len(entries) \in Nat
    PROVE  /\ ItemOwned(Partial(T), d, entries, ended, claims)
           /\ d < Len(entries) => ItemOwned(Final(T), d, entries, ended, claims)
<1>1. Partial(T).kind = "partial" /\ Partial(T).text = T /\ Final(T).text = T
  BY DEF Partial, Final
<1>. QED  BY <1>1 DEF ItemOwned, Owned

\* Text T is heard, or n finalizes are answered, and what there is has its owner.
Hearing(C, f, T, entries, ended, claims) ==
    /\ f \in FinalsOf(C) /\ T \in SUBSET C /\ Len(entries) \in Nat
    /\ QueueOwned(f.queue, entries, ended, claims)
    /\ Owned(f.segments \union T, Dones(f.queue), entries, ended)
Answering(C, f, n, entries, ended, claims) ==
    /\ f \in FinalsOf(C) /\ n \in 1 .. f.pending /\ Len(entries) \in Nat /\ Dones(f.queue) < Len(entries)
    /\ QueueOwned(f.queue, entries, ended, claims)
    /\ Owned(f.segments, Dones(f.queue), entries, ended)

\* Interims and segments.
LEMMA TextIsOwned ==
    ASSUME NEW C, NEW f, NEW T, NEW entries, NEW ended, NEW claims,
           Hearing(C, f, T, entries, ended, claims)
    PROVE  /\ QueueOwned(Interim(f, T).queue, entries, ended, claims)
           /\ QueueOwned(Segment(f, T).queue, entries, ended, claims)
           /\ Dones(Interim(f, T).queue) = Dones(f.queue) /\ Dones(Segment(f, T).queue) = Dones(f.queue)
           /\ Interim(f, T).segments = f.segments /\ Segment(f, T).segments = f.segments \union T
<1>. DEFINE all == f.segments \union T
            x == Partial(all)
            q == Append(f.queue, x)
<1>0. /\ f \in FinalsOf(C) /\ T \in SUBSET C /\ Len(entries) \in Nat
      /\ QueueOwned(f.queue, entries, ended, claims)
      /\ Owned(f.segments \union T, Dones(f.queue), entries, ended)
  BY DEF Hearing
<1>1. f.queue \in Seq(Items(C)) /\ all \in SUBSET C
  BY <1>0 DEF FinalsOf
<1>2. Dones(f.queue) \in Nat
  BY <1>1, DonesIsAll
<1>. HIDE DEF all
<1>3. x \in Items(C) /\ x # FinalizeDone
  BY <1>1, ItemsAre
<1>4. ItemOwned(x, Dones(f.queue), entries, ended, claims)
  BY <1>0, <1>2, OwnedItem DEF all
<1>. HIDE DEF x
<1>5. QueueOwned(q, entries, ended, claims) /\ q \in Seq(Items(C))
  BY <1>0, <1>1, <1>3, <1>4, QueueNext
<1>6. Dones(q) = Dones(f.queue)
  <2>1. All(q, FinalizeDone) = All(f.queue, FinalizeDone) + 0
    BY <1>1, <1>3, AllNext
  <2>2. Dones(q) = All(q, FinalizeDone) /\ Dones(f.queue) = All(f.queue, FinalizeDone)
    BY <1>1, <1>5, DonesIsAll
  <2>. QED  BY <1>2, <2>1, <2>2
<1>7. Interim(f, T) = IF T = {} THEN f ELSE [f EXCEPT !.queue = q]
  BY DEF Interim, x, all
<1>8. Segment(f, T) = IF T = {} THEN f ELSE [f EXCEPT !.segments = all, !.queue = q]
  BY DEF Segment, x, all
<1>. HIDE DEF q
<1>9. CASE T = {}
  <2>1. all = f.segments
    BY <1>9 DEF all
  <2>. QED  BY <1>0, <1>7, <1>8, <1>9, <2>1 DEF all
<1>10. CASE T # {}
  <2>1. /\ Interim(f, T).queue = q /\ Interim(f, T).segments = f.segments
        /\ Segment(f, T).queue = q /\ Segment(f, T).segments = all
    BY <1>0, <1>7, <1>8, <1>10 DEF FinalsOf
  <2>. QED  BY <1>5, <1>6, <2>1 DEF all
<1>. QED  BY <1>9, <1>10

\* An answer flushes the text so far to its entry, and queues the markers behind it.
LEMMA AnswerIsOwned ==
    ASSUME NEW C, NEW f, NEW n, NEW entries, NEW ended, NEW claims,
           Answering(C, f, n, entries, ended, claims)
    PROVE  /\ QueueOwned(Answer(f, n).queue, entries, ended, claims)
           /\ Answer(f, n).segments = {} /\ Dones(Answer(f, n).queue) = Dones(f.queue) + n
<1>. DEFINE flushed == IF f.segments = {} THEN <<>> ELSE <<Final(f.segments)>>
            dones == [i \in 1 .. n |-> FinalizeDone]
            q == f.queue \o flushed
            r == q \o dones
<1>0. /\ f \in FinalsOf(C) /\ n \in 1 .. f.pending /\ Len(entries) \in Nat /\ Dones(f.queue) < Len(entries)
      /\ QueueOwned(f.queue, entries, ended, claims)
      /\ Owned(f.segments, Dones(f.queue), entries, ended)
  BY DEF Answering
<1>1. f.queue \in Seq(Items(C)) /\ f.pending \in Nat /\ f.segments \in SUBSET C
  BY <1>0 DEF FinalsOf
<1>2. Answer(f, n) = [queue |-> r, pending |-> f.pending - n, segments |-> {}]
  <2>1. n # 0
    BY <1>0, <1>1
  <2>. QED  BY <2>1 DEF Answer
<1>3. Dones(f.queue) \in Nat
  BY <1>0, <1>1, DonesIsAll
<1>4. q \in Seq(Items(C)) /\ QueueOwned(q, entries, ended, claims)
  <2>1. CASE f.segments = {}
    <3>1. q = f.queue
      BY <1>0, <1>1, <2>1
    <3>. QED  BY <1>0, <1>1, <3>1
  <2>2. CASE f.segments # {}
    <3>. DEFINE x == Final(f.segments)
    <3>1. x \in Items(C)
      BY <1>0, <1>1, ItemsAre
    <3>2. ItemOwned(x, Dones(f.queue), entries, ended, claims)
      BY <1>0, <1>3, OwnedItem
    <3>3. q = f.queue \o <<x>>
      BY <2>2
    <3>. HIDE DEF x, q
    <3>4. q = Append(f.queue, x)
      BY <1>0, <1>1, <3>1, <3>3
    <3>. QED  BY <1>0, <1>1, <3>1, <3>2, <3>4, QueueNext
  <2>. QED  BY <2>1, <2>2
<1>5. dones \in Seq(Items(C)) /\ \A i \in DOMAIN dones : dones[i].text = {}
  <2>1. n \in Nat /\ FinalizeDone \in Items(C)
    BY <1>0, <1>1, ItemsAre
  <2>2. dones \in Seq(Items(C))
    BY <2>1
  <2>3. \A i \in DOMAIN dones : dones[i] = FinalizeDone
    OBVIOUS
  <2>. QED  BY <2>2, <2>3 DEF FinalizeDone
<1>. HIDE DEF q, dones
<1>6. QueueOwned(r, entries, ended, claims)
  BY <1>4, <1>5, QueueJoined
<1>7. Answer(f, n).queue = r /\ Answer(f, n).segments = {}
  BY <1>2
<1>8. Dones(Answer(f, n).queue) = Dones(f.queue) + n
  <2>1. n \in 0 .. f.pending /\ n \in Nat
    BY <1>0, <1>1
  <2>. DEFINE a == Answer(f, n)
              x == Dones(a.queue)
              y == Dones(f.queue)
              p == a.pending
              q0 == f.pending
  <2>2. a \in FinalsOf(C) /\ p + x = q0 + y /\ p = q0 - n
    BY <1>0, <2>1, AnswerOwesTheSame DEF Owed
  <2>3. a.queue \in Seq(Items(C))
    BY <2>2 DEF FinalsOf
  <2>. HIDE DEF a
  <2>4. x \in Nat /\ y \in Nat /\ q0 \in Nat
    BY <1>0, <1>1, <1>3, <2>3, DonesIsAll
  <2>. HIDE DEF x, y, p, q0
  <2>5. x = y + n
    BY <2>1, <2>2, <2>4
  <2>. QED  BY <2>5 DEF x, y, a
<1>. QED  BY <1>6, <1>7, <1>8

\* What the provider's steps change.
LEMMA VendorFields ==
    ASSUME NEW C, NEW p \in Providers(C), NEW r
    PROVE  /\ r \in {VendorHears(p), VendorFinalizes(p), VendorSegments(p), VendorInterims(p)} =>
                r.alive = p.alive /\ r.pushed = p.pushed /\ r.boundary = p.boundary
           /\ r = VendorHears(p) => /\ r.finals = p.finals /\ r.socket = Tail(p.socket)
                                    /\ r.heard = p.heard \union Head(p.socket).chunk
           /\ r = VendorFinalizes(p) => /\ r.finals = OnFinalizeAnswer(p.finals, p.heard)
                                        /\ r.socket = Tail(p.socket) /\ r.heard = {}
           /\ r = VendorSegments(p) => r.finals = OnSegment(p) /\ r.socket = p.socket /\ r.heard = {}
           /\ r = VendorInterims(p) => r.finals = OnInterim(p) /\ r.socket = p.socket /\ r.heard = p.heard
<1>. DEFINE t == Tail(p.socket)
            h == p.heard \union Head(p.socket).chunk
            a == OnFinalizeAnswer(p.finals, p.heard)
            s == OnSegment(p)
            i == OnInterim(p)
<1>1. /\ VendorHears(p) = [p EXCEPT !.socket = t, !.heard = h, !.position = p.position + 1]
      /\ VendorFinalizes(p) = [p EXCEPT !.socket = t, !.finals = a, !.heard = {}]
      /\ VendorSegments(p) = [p EXCEPT !.finals = s, !.heard = {}]
      /\ VendorInterims(p) = [p EXCEPT !.finals = i]
  BY DEF VendorHears, VendorFinalizes, VendorSegments, VendorInterims, VendorTakes, Providers
<1>. HIDE DEF t, h, a, s, i
<1>2. r = VendorHears(p) => /\ r.alive = p.alive /\ r.pushed = p.pushed /\ r.boundary = p.boundary
                            /\ r.finals = p.finals /\ r.socket = t /\ r.heard = h
  BY <1>1 DEF Providers
<1>3. r = VendorFinalizes(p) => /\ r.alive = p.alive /\ r.pushed = p.pushed /\ r.boundary = p.boundary
                                /\ r.finals = a /\ r.socket = t /\ r.heard = {}
  BY <1>1 DEF Providers
<1>4. r = VendorSegments(p) => /\ r.alive = p.alive /\ r.pushed = p.pushed /\ r.boundary = p.boundary
                               /\ r.finals = s /\ r.socket = p.socket /\ r.heard = {}
  BY <1>1 DEF Providers
<1>5. r = VendorInterims(p) => /\ r.alive = p.alive /\ r.pushed = p.pushed /\ r.boundary = p.boundary
                               /\ r.finals = i /\ r.socket = p.socket /\ r.heard = p.heard
  BY <1>1 DEF Providers
<1>. QED  BY <1>2, <1>3, <1>4, <1>5 DEF t, h, a, s, i

\* The end of a socket whose head is taken.
LEMMA LastStays ==
    ASSUME NEW S, NEW s \in Seq(S), s # <<>>, Tail(s) # <<>>
    PROVE  Tail(s)[Len(Tail(s))] = s[Len(s)]
  OBVIOUS

\* The vendor's steps leave a live stream, and Quiet.
LEMMA VendorBooks ==
    ASSUME NEW C, NEW p \in Providers(C), p.alive, Books(p), NEW r,
           \/ r \in {VendorSegments(p), VendorInterims(p)}
           \/ p.socket # <<>> /\ Head(p.socket).kind = "audio" /\ r = VendorHears(p)
           \/ p.socket # <<>> /\ Head(p.socket).kind # "audio" /\ r = VendorFinalizes(p)
    PROVE  Books(r)
<1>1. /\ r.alive = p.alive /\ r.pushed = p.pushed /\ r.boundary = p.boundary
  BY VendorFields
<1>2. DeadIsEmpty(r)
  BY <1>1 DEF DeadIsEmpty
<1>3. p.boundary <= p.pushed /\ p.socket \in Seq(SocketItems(C))
  BY DEF Books, Quiet, Providers
<1>4. ASSUME p.boundary = p.pushed
      PROVE  IF r.socket = <<>> THEN r.heard = {} ELSE r.socket[Len(r.socket)] = SocketFinalize
  <2>1. IF p.socket = <<>> THEN p.heard = {} ELSE p.socket[Len(p.socket)] = SocketFinalize
    BY <1>4 DEF Books, Quiet
  <2>2. CASE r \in {VendorSegments(p), VendorInterims(p)}
    <3>1. r.socket = p.socket /\ (r.heard = {} \/ r.heard = p.heard)
      BY <2>2, VendorFields
    <3>. QED  BY <2>1, <3>1
  <2>3. CASE p.socket # <<>> /\ (IF Head(p.socket).kind = "audio" THEN r = VendorHears(p) ELSE r = VendorFinalizes(p))
    <3>1. r.socket = Tail(p.socket)
      BY <2>3, VendorFields
    <3>2. CASE r.socket # <<>>
      BY <1>3, <2>1, <2>3, <3>1, <3>2, LastStays
    <3>3. CASE r.socket = <<>>
      <4>1. p.socket[Len(p.socket)] = Head(p.socket)
        <5>. DEFINE u == p.socket
        <5>1. u \in Seq(SocketItems(C)) /\ u # <<>> /\ Tail(u) = <<>>
          BY <1>3, <2>3, <3>1, <3>3
        <5>. HIDE DEF u
        <5>2. Len(u) = 1
          <6>1. Len(Tail(u)) = Len(u) - 1 /\ Len(u) \in Nat
            BY <5>1, TailIs
          <6>. DEFINE t == Tail(u)
          <6>2. t = <<>>
            BY <5>1
          <6>. HIDE DEF t
          <6>3. Len(t) = 0
            BY <6>2
          <6>. QED  BY <6>1, <6>3 DEF t
        <5>3. u[Len(u)] = Head(u)
          BY <5>1, <5>2
        <5>. QED  BY <5>3 DEF u
      <4>2. Head(p.socket).kind # "audio"
        BY <2>1, <2>3, <4>1 DEF SocketFinalize
      <4>3. r = VendorFinalizes(p)
        BY <2>3, <4>2
      <4>. QED  BY <3>3, <4>3, VendorFields
    <3>. QED  BY <3>2, <3>3
  <2>. QED  BY <2>2, <2>3
<1>. QED  BY <1>1, <1>2, <1>3, <1>4 DEF Books, Quiet

-----------------------------------------------------------------------------
(* The socket and the vendor. *)

\* What is behind the head of the socket.
LEMMA SocketRest ==
    ASSUME NEW C, NEW s \in Seq(SocketItems(C)), s # <<>>, NEW d \in Nat, NEW entries, NEW ended,
           SocketOwned(s, d, entries, ended)
    PROVE  /\ Owned(Head(s).chunk, d, entries, ended)
           /\ Head(s) # SocketFinalize => SocketOwned(Tail(s), d, entries, ended)
           /\ Head(s) = SocketFinalize => SocketOwned(Tail(s), d + 1, entries, ended)
<1>. DEFINE t == Tail(s)
<1>1. /\ Head(s) = s[1] /\ 1 \in DOMAIN s /\ t \in Seq(SocketItems(C))
      /\ \A j \in DOMAIN t : j + 1 \in DOMAIN s /\ t[j] = s[j + 1] /\ j - 1 \in Nat /\ j \in Nat
      /\ DOMAIN t = 1 .. Len(t)
  OBVIOUS
<1>2. First(s, SocketFinalize, 0) = 0
  BY FirstNat
<1>3. Owned(Head(s).chunk, d, entries, ended)
  <2>1. 1 - 1 = 0 /\ d + 0 = d
    OBVIOUS
  <2>. QED  BY <1>1, <1>2, <2>1 DEF SocketOwned
<1>. HIDE DEF t
<1>4. ASSUME NEW j \in DOMAIN t
      PROVE  Owned(t[j].chunk, d + (First(t, SocketFinalize, j - 1) + (IF s[1] = SocketFinalize THEN 1 ELSE 0)),
                   entries, ended)
  <2>. DEFINE n == j - 1
  <2>1. n \in Nat /\ n + 1 = j /\ (j + 1) - 1 = j /\ \A i \in 1 .. n : t[i] = s[i + 1]
    <3>1. Len(t) \in Nat /\ j <= Len(t) /\ n \in Nat /\ n + 1 = j /\ (j + 1) - 1 = j
      BY <1>1
    <3>2. \A i \in 1 .. n : i \in DOMAIN t
      BY <1>1, <3>1
    <3>. QED  BY <1>1, <3>1, <3>2
  <2>. HIDE DEF n
  <2>2. First(s, SocketFinalize, n + 1) = First(t, SocketFinalize, n) + (IF s[1] = SocketFinalize THEN 1 ELSE 0)
    BY <2>1, FirstTail
  <2>3. Owned(s[j + 1].chunk, d + First(s, SocketFinalize, (j + 1) - 1), entries, ended)
    BY <1>1 DEF SocketOwned
  <2>4. Owned(t[j].chunk, d + First(s, SocketFinalize, n + 1), entries, ended)
    BY <1>1, <2>1, <2>3
  <2>. QED  BY <2>2, <2>4 DEF n
<1>5. ASSUME NEW j \in DOMAIN t PROVE First(t, SocketFinalize, j - 1) \in Nat
  <2>. DEFINE n == j - 1
  <2>1. n \in Nat
    BY <1>1
  <2>. HIDE DEF n
  <2>2. First(t, SocketFinalize, n) \in Nat
    BY <2>1, FirstNat
  <2>. QED  BY <2>2 DEF n
<1>6. Head(s) # SocketFinalize => SocketOwned(t, d, entries, ended)
  <2>. SUFFICES ASSUME Head(s) # SocketFinalize, NEW j \in DOMAIN t
                PROVE  Owned(t[j].chunk, d + First(t, SocketFinalize, j - 1), entries, ended)
    BY DEF SocketOwned
  <2>. DEFINE x == First(t, SocketFinalize, j - 1)
  <2>1. x \in Nat /\ Owned(t[j].chunk, d + (x + 0), entries, ended)
    BY <1>1, <1>4, <1>5
  <2>. HIDE DEF x
  <2>2. d + (x + 0) = d + x
    BY <2>1
  <2>3. Owned(t[j].chunk, d + x, entries, ended)
    BY <2>1, <2>2
  <2>. QED  BY <2>3 DEF x
<1>7. Head(s) = SocketFinalize => SocketOwned(t, d + 1, entries, ended)
  <2>. SUFFICES ASSUME Head(s) = SocketFinalize, NEW j \in DOMAIN t
                PROVE  Owned(t[j].chunk, d + 1 + First(t, SocketFinalize, j - 1), entries, ended)
    BY DEF SocketOwned
  <2>. DEFINE x == First(t, SocketFinalize, j - 1)
  <2>1. x \in Nat /\ Owned(t[j].chunk, d + (x + 1), entries, ended)
    BY <1>1, <1>4, <1>5
  <2>. HIDE DEF x
  <2>2. d + (x + 1) = d + 1 + x
    BY <2>1
  <2>3. Owned(t[j].chunk, d + 1 + x, entries, ended)
    BY <2>1, <2>2
  <2>. QED  BY <2>3 DEF x
<1>. QED  BY <1>3, <1>6, <1>7 DEF t

\* The provider's texts are owned and its finalizes are on their way.
Right(p, entries, ended, claims) == TextsOwned(p, entries, ended, claims) /\ MarkersSent(p)

\* Part of a text.
LEMMA OwnedPart ==
    ASSUME NEW T, NEW U \in SUBSET T, NEW d, NEW entries, NEW ended, Owned(T, d, entries, ended)
    PROVE  Owned(U, d, entries, ended)
  BY DEF Owned

\* With every marker owed to an entry, the vendor's steps keep every text its owner.
LEMMA VendorOwns ==
    ASSUME NEW C, NEW p \in Providers(C), p.alive, NEW entries, Len(entries) \in Nat,
           Owed(p.finals) = Len(entries), NEW ended, NEW claims, Right(p, entries, ended, claims), NEW r,
           \/ r \in {VendorSegments(p), VendorInterims(p)}
           \/ p.socket # <<>> /\ Head(p.socket).kind = "audio" /\ r = VendorHears(p)
           \/ p.socket # <<>> /\ Head(p.socket).kind # "audio" /\ r = VendorFinalizes(p)
    PROVE  Right(r, entries, ended, claims)
<1>. DEFINE f == p.finals
            h == p.heard
            d == Dones(f.queue)
            s == p.socket
<1>1. /\ f \in FinalsOf(C) /\ h \in SUBSET C /\ s \in Seq(SocketItems(C))
      /\ f.queue \in Seq(Items(C)) /\ f.pending \in Nat /\ f.segments \in SUBSET C
  BY DEF Providers, FinalsOf
<1>2. d \in Nat /\ f.pending + d = Len(entries) /\ f.pending = All(s, SocketFinalize)
  BY <1>1, DonesIsAll DEF Owed, Right, MarkersSent
<1>3. /\ QueueOwned(f.queue, entries, ended, claims)
      /\ Owned(f.segments \union h, d, entries, ended)
      /\ SocketOwned(s, d, entries, ended)
  BY DEF Right, TextsOwned
<1>4. r.alive = p.alive
  BY VendorFields
<1>. DEFINE seg == Segment(f, h)
            int == Interim(f, h)
<1>5. /\ QueueOwned(int.queue, entries, ended, claims) /\ QueueOwned(seg.queue, entries, ended, claims)
      /\ Dones(int.queue) = d /\ Dones(seg.queue) = d
      /\ int.segments = f.segments /\ seg.segments = f.segments \union h
  <2>. HIDE DEF f, h
  <2>1. Len(entries) \in Nat /\ Owned(f.segments \union h, Dones(f.queue), entries, ended)
    BY <1>3
  <2>3. Hearing(C, f, h, entries, ended, claims)
    BY <1>1, <1>3, <2>1 DEF Hearing
  <2>2. /\ QueueOwned(Interim(f, h).queue, entries, ended, claims)
        /\ QueueOwned(Segment(f, h).queue, entries, ended, claims)
        /\ Dones(Interim(f, h).queue) = Dones(f.queue) /\ Dones(Segment(f, h).queue) = Dones(f.queue)
        /\ Interim(f, h).segments = f.segments /\ Segment(f, h).segments = f.segments \union h
    BY <2>3, TextIsOwned
  <2>. QED  BY <2>2
<1>6. seg.pending = f.pending /\ int.pending = f.pending /\ seg \in FinalsOf(C)
  BY <1>1, TextOwesNothing
<1>7. CASE r = VendorSegments(p)
  <2>1. r.socket = s /\ r.heard = {} /\ (r.finals = f \/ r.finals = seg)
    BY <1>7, VendorFields DEF OnSegment
  <2>. HIDE DEF f, h, s, d, seg, int
  <2>2. /\ QueueOwned(r.finals.queue, entries, ended, claims) /\ Dones(r.finals.queue) = d
        /\ r.finals.segments \union r.heard \in SUBSET (f.segments \union h) /\ r.finals.pending = f.pending
    BY <1>3, <1>5, <1>6, <2>1 DEF d
  <2>3. Owned(r.finals.segments \union r.heard, d, entries, ended)
    BY <1>3, <2>2, OwnedPart
  <2>. QED  BY <1>2, <1>3, <2>1, <2>2, <2>3 DEF Right, TextsOwned, MarkersSent
<1>8. CASE r = VendorInterims(p)
  <2>1. r.socket = s /\ r.heard = h /\ (r.finals = f \/ r.finals = int)
    BY <1>8, VendorFields DEF OnInterim
  <2>. HIDE DEF f, h, s, d, seg, int
  <2>2. /\ QueueOwned(r.finals.queue, entries, ended, claims) /\ Dones(r.finals.queue) = d
        /\ r.finals.segments = f.segments /\ r.finals.pending = f.pending
    BY <1>3, <1>5, <1>6, <2>1 DEF d
  <2>. QED  BY <1>2, <1>3, <2>1, <2>2 DEF Right, TextsOwned, MarkersSent
<1>9. ASSUME s # <<>>
      PROVE  /\ Head(s) \in SocketItems(C) /\ Tail(s) \in Seq(SocketItems(C))
             /\ Owned(Head(s).chunk, d, entries, ended)
             /\ Head(s) # SocketFinalize => SocketOwned(Tail(s), d, entries, ended)
             /\ Head(s) = SocketFinalize => SocketOwned(Tail(s), d + 1, entries, ended)
             /\ Head(s).kind = "audio" <=> Head(s) # SocketFinalize
             /\ All(s, SocketFinalize) = All(Tail(s), SocketFinalize) + (IF Head(s) = SocketFinalize THEN 1 ELSE 0)
             /\ All(Tail(s), SocketFinalize) \in Nat
  <2>. HIDE DEF s, d
  <2>1. Head(s) \in SocketItems(C) /\ Tail(s) \in Seq(SocketItems(C))
    BY <1>1, <1>9
  <2>2. Head(s).kind = "audio" <=> Head(s) # SocketFinalize
    BY <2>1, SocketIs
  <2>. QED  BY <1>1, <1>2, <1>3, <1>9, <2>1, <2>2, SocketRest, AllRest, AllNat
<1>10. CASE s # <<>> /\ Head(s).kind = "audio" /\ r = VendorHears(p)
  <2>1. r.finals = f /\ r.socket = Tail(s) /\ r.heard = h \union Head(s).chunk
    BY <1>10, VendorFields
  <2>. HIDE DEF f, h, s, d, seg, int
  <2>2. SocketOwned(r.socket, d, entries, ended) /\ All(r.socket, SocketFinalize) = f.pending
    BY <1>2, <1>9, <1>10, <2>1
  <2>3. Owned(f.segments \union r.heard, d, entries, ended)
    BY <1>3, <1>9, <1>10, <2>1 DEF Owned
  <2>. QED  BY <1>3, <2>1, <2>2, <2>3 DEF Right, TextsOwned, MarkersSent, d
<1>11. CASE s # <<>> /\ Head(s).kind # "audio" /\ r = VendorFinalizes(p)
  <2>. DEFINE a == Answer(seg, 1)
  <2>1. Head(s) = SocketFinalize /\ f.pending # 0 /\ f.pending - 1 = All(Tail(s), SocketFinalize)
    BY <1>1, <1>2, <1>9, <1>11
  <2>2. r.finals = a /\ r.socket = Tail(s) /\ r.heard = {}
    BY <1>11, <2>1, VendorFields DEF OnFinalizeAnswer
  <2>. HIDE DEF f, h, s, d, seg, int
  <2>3. 1 \in 1 .. seg.pending /\ 1 \in 0 .. seg.pending /\ d < Len(entries)
    BY <1>1, <1>2, <1>6, <2>1
  <2>4. /\ QueueOwned(a.queue, entries, ended, claims) /\ a.segments = {} /\ Dones(a.queue) = d + 1
    <3>1. /\ seg \in FinalsOf(C) /\ QueueOwned(seg.queue, entries, ended, claims) /\ Dones(seg.queue) < Len(entries)
          /\ Owned(seg.segments, Dones(seg.queue), entries, ended)
      BY <1>3, <1>5, <1>6, <2>3
    <3>2. /\ QueueOwned(Answer(seg, 1).queue, entries, ended, claims) /\ Answer(seg, 1).segments = {}
          /\ Dones(Answer(seg, 1).queue) = Dones(seg.queue) + 1
      <4>. HIDE DEF seg
      <4>1. Answering(C, seg, 1, entries, ended, claims)
        BY <2>3, <3>1 DEF Answering
      <4>. QED  BY <4>1, AnswerIsOwned
    <3>. QED  BY <1>5, <3>2
  <2>5. a.pending = seg.pending - 1
    BY <1>6, <2>3, AnswerOwesTheSame
  <2>. HIDE DEF a
  <2>6. SocketOwned(r.socket, Dones(a.queue), entries, ended) /\ a.pending = All(r.socket, SocketFinalize)
    BY <1>6, <1>9, <1>11, <2>1, <2>2, <2>4, <2>5
  <2>7. Owned(a.segments \union r.heard, Dones(a.queue), entries, ended)
    BY <2>2, <2>4 DEF Owned
  <2>. QED  BY <2>2, <2>4, <2>6, <2>7 DEF Right, TextsOwned, MarkersSent
<1>. QED  BY <1>7, <1>8, <1>10, <1>11

\* A lost connection.
LEMMA LostOwns ==
    ASSUME NEW C, NEW p \in Providers(C), NEW entries, Len(entries) \in Nat,
           Owed(p.finals) = Len(entries), NEW ended, NEW claims, NEW claimed, claimed => claims,
           TextsOwned(p, entries, ended, claims), NEW r, r = ConnectionLost(p)
    PROVE  Right(r, entries, ended, claimed)
<1>. DEFINE f == p.finals
            l == Lost(f)
            q == Append(f.queue, Failure)
            g == [f EXCEPT !.queue = q]
            d == Dones(f.queue)
<1>1. /\ f \in FinalsOf(C) /\ f.queue \in Seq(Items(C)) /\ f.pending \in Nat /\ f.segments \in SUBSET C
  BY DEF Providers, FinalsOf
<1>2. d \in Nat /\ f.pending + d = Len(entries)
  BY <1>1, DonesIsAll DEF Owed
<1>3. /\ QueueOwned(f.queue, entries, ended, claimed)
      /\ Owned(f.segments, d, entries, ended)
  BY DEF TextsOwned, QueueOwned, ItemOwned, Owned
<1>4. r.alive = FALSE /\ r.finals = l /\ r.socket = <<>> /\ r.heard = {}
  BY DEF ConnectionLost, Providers
<1>5. l.queue \in Seq(Items(C))
  BY <1>1, LostOwesTheSame DEF FinalsOf
<1>6. QueueOwned(l.queue, entries, ended, claimed) /\ l.segments = {}
  <2>1. Failure \in Items(C) /\ ItemOwned(Failure, d, entries, ended, claimed) /\ Failure # FinalizeDone
    BY ItemsAre DEF ItemOwned, Failure
  <2>2. q \in Seq(Items(C)) /\ QueueOwned(q, entries, ended, claimed)
    BY <1>1, <1>3, <2>1, QueueNext
  <2>3. Dones(q) = d
    <3>1. All(q, FinalizeDone) = All(f.queue, FinalizeDone) + 0
      BY <1>1, <2>1, AllNext
    <3>2. Dones(q) = All(q, FinalizeDone) /\ d = All(f.queue, FinalizeDone)
      BY <1>1, <2>2, DonesIsAll
    <3>. QED  BY <1>2, <3>1, <3>2
  <2>4. l = IF f.pending = 0 /\ f.segments = {} THEN f
            ELSE IF f.pending = 0 THEN [g EXCEPT !.segments = {}] ELSE Answer(g, f.pending)
    BY DEF Lost
  <2>. HIDE DEF q, d, l, f
  <2>5. g \in FinalsOf(C) /\ g.queue = q /\ g.pending = f.pending /\ g.segments = f.segments
    BY <1>1, <2>2 DEF FinalsOf
  <2>. HIDE DEF g
  <2>6. CASE f.pending = 0 /\ f.segments = {}
    BY <1>3, <2>4, <2>6
  <2>7. CASE f.pending = 0 /\ f.segments # {}
    <3>. DEFINE e == [g EXCEPT !.segments = {}]
    <3>1. e.queue = q /\ e.segments = {}
      BY <2>5 DEF FinalsOf
    <3>. QED  BY <2>2, <2>4, <2>7, <3>1
  <2>8. CASE f.pending # 0
    <3>. DEFINE n == f.pending
    <3>1. n \in 1 .. g.pending /\ d < Len(entries) /\ Dones(g.queue) < Len(entries)
      BY <1>1, <1>2, <2>3, <2>5, <2>8
    <3>2. QueueOwned(g.queue, entries, ended, claimed) /\ Owned(g.segments, Dones(g.queue), entries, ended)
      BY <1>3, <2>2, <2>3, <2>5
    <3>. HIDE DEF n
    <3>3. QueueOwned(Answer(g, n).queue, entries, ended, claimed) /\ Answer(g, n).segments = {}
      <4>1. Answering(C, g, n, entries, ended, claimed)
        BY <2>5, <3>1, <3>2 DEF Answering
      <4>. QED  BY <4>1, AnswerIsOwned
    <3>. QED  BY <2>4, <2>8, <3>3 DEF n
  <2>. QED  BY <2>6, <2>7, <2>8
<1>. HIDE DEF l
<1>7. DOMAIN <<>> = {}
  OBVIOUS
<1>. QED  BY <1>4, <1>6, <1>7 DEF Right, TextsOwned, MarkersSent, Owned, SocketOwned

\* One more item in the socket.
LEMMA SocketNext ==
    ASSUME NEW C, NEW s \in Seq(SocketItems(C)), NEW x \in SocketItems(C), NEW d \in Nat, NEW entries, NEW ended,
           SocketOwned(s, d, entries, ended), Owned(x.chunk, d + All(s, SocketFinalize), entries, ended)
    PROVE  SocketOwned(Append(s, x), d, entries, ended)
<1>. DEFINE r == Append(s, x)
            n == Len(s)
<1>1. /\ DOMAIN r = DOMAIN s \union {n + 1} /\ r[n + 1] = x /\ n \in Nat /\ DOMAIN s = 1 .. n
      /\ \A i \in DOMAIN s : r[i] = s[i]
  BY AppendIs
<1>2. All(s, SocketFinalize) = First(s, SocketFinalize, n)
  BY DEF All
<1>. HIDE DEF r, n
<1>3. ASSUME NEW m \in Nat, m <= n PROVE First(r, SocketFinalize, m) = First(s, SocketFinalize, m)
  <2>1. \A j \in 1 .. m : r[j] = s[j]
    BY <1>1, <1>3
  <2>. QED  BY <2>1, FirstSame
<1>4. ASSUME NEW i \in DOMAIN r PROVE Owned(r[i].chunk, d + First(r, SocketFinalize, i - 1), entries, ended)
  <2>1. CASE i \in DOMAIN s
    <3>. DEFINE m == i - 1
    <3>1. m \in Nat /\ m <= n
      BY <1>1, <2>1
    <3>. HIDE DEF m
    <3>2. First(r, SocketFinalize, m) = First(s, SocketFinalize, m)
      BY <1>3, <3>1
    <3>. QED  BY <1>1, <2>1, <3>2 DEF SocketOwned, m
  <2>2. CASE i = n + 1
    <3>1. i - 1 = n /\ n <= n
      BY <1>1, <2>2
    <3>2. First(r, SocketFinalize, n) = First(s, SocketFinalize, n)
      BY <1>1, <1>3, <3>1
    <3>. QED  BY <1>1, <1>2, <2>2, <3>1, <3>2
  <2>. QED  BY <1>1, <1>4, <2>1, <2>2
<1>. QED  BY <1>4 DEF SocketOwned, r

\* A chunk that is pushed is of the utterance whose audio comes next.
LEMMA PushOwns ==
    ASSUME NEW C, NEW p \in Providers(C), NEW c \in C, NEW entries, Len(entries) \in Nat, NEW ended, NEW claims,
           Open(ended, c[1]), Books(p), NEW r, r = PushAudio(p, c)
    PROVE  /\ Books(r)
           /\ Right(p, entries, ended, claims) /\ Owed(p.finals) = Len(entries) => Right(r, entries, ended, claims)
           /\ p.alive => r.pushed > r.boundary
<1>. DEFINE x == SocketAudio(c)
            s == p.socket
            t == Append(s, x)
<1>1. /\ s \in Seq(SocketItems(C)) /\ p.pushed \in Nat /\ p.boundary \in Nat
      /\ p.finals.queue \in Seq(Items(C)) /\ p.finals.pending \in Nat
  BY DEF Providers, FinalsOf
<1>2. x \in SocketItems(C) /\ x # SocketFinalize /\ x.chunk = {c}
  BY SocketIs DEF SocketAudio
<1>3. p.boundary <= p.pushed
  BY DEF Books, Quiet
<1>4. CASE ~p.alive
  BY <1>4 DEF PushAudio
<1>5. CASE p.alive
  <2>1. r = [p EXCEPT !.socket = t, !.pushed = p.pushed + 1]
    BY <1>5 DEF PushAudio
  <2>. HIDE DEF t
  <2>2. /\ r.alive = p.alive /\ r.finals = p.finals /\ r.heard = p.heard /\ r.socket = t
        /\ r.boundary = p.boundary /\ r.pushed = p.pushed + 1
    BY <2>1 DEF Providers
  <2>3. Books(r)
    BY <1>1, <1>3, <1>5, <2>2 DEF Books, DeadIsEmpty, Quiet
  <2>4. ASSUME Right(p, entries, ended, claims), Owed(p.finals) = Len(entries) PROVE Right(r, entries, ended, claims)
    <3>. DEFINE d == Dones(p.finals.queue)
                a == All(s, SocketFinalize)
    <3>. HIDE DEF x, s
    <3>1. d \in Nat /\ p.finals.pending + d = Len(entries) /\ p.finals.pending = a /\ a \in Nat
      BY <1>1, <1>5, <2>4, DonesIsAll DEF Owed, Right, MarkersSent, s
    <3>2. SocketOwned(s, d, entries, ended) /\ QueueOwned(p.finals.queue, entries, ended, claims)
          /\ Owned(p.finals.segments \union p.heard, d, entries, ended)
      BY <2>4 DEF Right, TextsOwned, s
    <3>3. Owned(x.chunk, d + a, entries, ended)
      <4>1. ~(d + a < Len(entries))
        BY <3>1
      <4>. QED  BY <1>2, <4>1 DEF Owned
    <3>4. All(t, SocketFinalize) = a + 0
      BY <1>1, <1>2, AllNext DEF t
    <3>. HIDE DEF d
    <3>5. SocketOwned(t, d, entries, ended)
      BY <1>1, <1>2, <3>1, <3>2, <3>3, SocketNext DEF t
    <3>. QED  BY <2>2, <3>1, <3>2, <3>4, <3>5 DEF Right, TextsOwned, MarkersSent, d
  <2>. QED  BY <1>1, <1>3, <2>2, <2>3, <2>4
<1>. QED  BY <1>4, <1>5

\* Only one utterance is open.
LEMMA OpenIsOne ==
    ASSUME NEW ended, NEW j, NEW k, Open(ended, j), Open(ended, k)
    PROVE  j = k
<1>1. j \in Nat /\ k \in Nat /\ j \in Keys /\ k \in Keys /\ j \notin ended /\ k \notin ended
  BY KeysAre DEF Open
<1>2. ~(j < k) /\ ~(k < j)
  BY <1>1 DEF Open
<1>. QED  BY <1>1, <1>2

\* The open utterance ends, and its entry goes behind all others.
LEMMA OwnedEnds ==
    ASSUME NEW S, NEW e \in Seq(S), NEW y \in S, NEW ended, Open(ended, y.key), NEW d \in Nat, d <= Len(e)
    PROVE  /\ \A T : Owned(T, d, e, ended) => Owned(T, d, Append(e, y), ended \union {y.key})
           /\ \A x, c : ItemOwned(x, d, e, ended, TRUE) => ItemOwned(x, d, Append(e, y), ended \union {y.key}, c)
<1>. DEFINE f == Append(e, y)
            n == Len(e)
            k == y.key
            more == ended \union {k}
<1>1. Len(f) = n + 1 /\ n \in Nat /\ f[n + 1] = y /\ \A i \in 1 .. n : f[i] = e[i]
  OBVIOUS
<1>. HIDE DEF f, n
<1>2. d < Len(f) /\ (d < n \/ d = n)
  BY <1>1 DEF n
<1>3. d < n => f[d + 1] = e[d + 1]
  BY <1>1
<1>4. \A j : Open(ended, j) => j = k
  BY OpenIsOne
<1>. HIDE DEF k, more
<1>5. ASSUME NEW T, Owned(T, d, e, ended) PROVE Owned(T, d, f, more)
  BY <1>1, <1>2, <1>3, <1>4, <1>5 DEF Owned, n, k
<1>6. ASSUME NEW x, NEW c, ItemOwned(x, d, e, ended, TRUE) PROVE ItemOwned(x, d, f, more, c)
  BY <1>1, <1>2, <1>3, <1>4, <1>6 DEF ItemOwned, n, k
<1>. QED  BY <1>5, <1>6 DEF f, k, more

\* All texts of a queue or socket, when the open utterance ends.
LEMMA QueueEnds ==
    ASSUME NEW C, NEW q \in Seq(Items(C)), NEW S, NEW e \in Seq(S), NEW y \in S, NEW ended, Open(ended, y.key),
           Dones(q) <= Len(e), QueueOwned(q, e, ended, TRUE), NEW claims
    PROVE  QueueOwned(q, Append(e, y), ended \union {y.key}, claims)
<1>1. DOMAIN q = 1 .. Len(q) /\ Len(q) \in Nat /\ Len(e) \in Nat
  OBVIOUS
<1>2. Dones(q) = First(q, FinalizeDone, Len(q)) /\ Dones(q) \in Nat
  BY DonesIsAll DEF All
<1>. SUFFICES ASSUME NEW i \in DOMAIN q
              PROVE  ItemOwned(q[i], First(q, FinalizeDone, i - 1), Append(e, y), ended \union {y.key}, claims)
  BY DEF QueueOwned
<1>. DEFINE m == i - 1
            d == First(q, FinalizeDone, m)
            n == Len(q)
<1>3. m \in Nat /\ n \in Nat /\ m <= n
  BY <1>1
<1>4. ItemOwned(q[i], d, e, ended, TRUE)
  BY DEF QueueOwned
<1>. HIDE DEF m, n
<1>5. d \in Nat /\ d <= First(q, FinalizeDone, n)
  BY <1>3, FirstNat, FirstGrows
<1>. HIDE DEF d
<1>6. d <= Len(e)
  BY <1>1, <1>2, <1>5 DEF n
<1>7. ItemOwned(q[i], d, Append(e, y), ended \union {y.key}, claims)
  BY <1>4, <1>5, <1>6, OwnedEnds
<1>. QED  BY <1>7 DEF d, m

\* All texts in the socket, when the open utterance ends.
LEMMA SocketEnds ==
    ASSUME NEW C, NEW s \in Seq(SocketItems(C)), NEW S, NEW e \in Seq(S), NEW y \in S, NEW ended, Open(ended, y.key),
           NEW d \in Nat, d + All(s, SocketFinalize) <= Len(e), SocketOwned(s, d, e, ended)
    PROVE  SocketOwned(s, d, Append(e, y), ended \union {y.key})
<1>1. DOMAIN s = 1 .. Len(s) /\ Len(s) \in Nat /\ Len(e) \in Nat
  OBVIOUS
<1>2. All(s, SocketFinalize) = First(s, SocketFinalize, Len(s)) /\ All(s, SocketFinalize) \in Nat
  BY AllNat DEF All
<1>. SUFFICES ASSUME NEW i \in DOMAIN s
              PROVE  Owned(s[i].chunk, d + First(s, SocketFinalize, i - 1), Append(e, y), ended \union {y.key})
  BY DEF SocketOwned
<1>. DEFINE m == i - 1
            x == First(s, SocketFinalize, m)
            n == Len(s)
            b == d + x
<1>3. m \in Nat /\ n \in Nat /\ m <= n
  BY <1>1
<1>4. Owned(s[i].chunk, b, e, ended)
  BY DEF SocketOwned
<1>. HIDE DEF m, n
<1>5. x \in Nat /\ x <= First(s, SocketFinalize, n)
  BY <1>3, FirstNat, FirstGrows
<1>. HIDE DEF x
<1>6. b <= Len(e) /\ b \in Nat
  BY <1>1, <1>2, <1>5 DEF n
<1>. HIDE DEF b
<1>7. Owned(s[i].chunk, b, Append(e, y), ended \union {y.key})
  BY <1>4, <1>6, OwnedEnds
<1>. QED  BY <1>7 DEF b, x, m

\* The end of the open utterance is requested: what was pushed for it is then its text.
LEMMA RequestOwns ==
    ASSUME NEW C, NEW p \in Providers(C), p.alive, Books(p),
           NEW S, NEW e \in Seq(S), NEW y \in S, NEW ended, Open(ended, y.key),
           NEW r, r = RequestFinalize(p)
    PROVE  /\ Books(r) /\ r.alive
           /\ \/ r.boundary = r.pushed
              \/ r.pushed = p.pushed /\ r.boundary = p.boundary /\ r.finals.pending = p.finals.pending
           /\ /\ Right(p, e, ended, TRUE) /\ Owed(p.finals) = Len(e)
              /\ p.pushed <= p.boundary => p.finals.pending = 0
              => Right(r, Append(e, y), ended \union {y.key}, TRUE)
<1>. DEFINE f == p.finals
            s == p.socket
            q == f.queue
            d == Dones(q)
            g == Request(f)
            a == Answer(g, 1)
            t == Append(s, SocketFinalize)
            n == Append(e, y)
            more == ended \union {y.key}
<1>1. /\ s \in Seq(SocketItems(C)) /\ p.pushed \in Nat /\ p.boundary \in Nat
      /\ f \in FinalsOf(C) /\ q \in Seq(Items(C)) /\ f.pending \in Nat /\ f.segments \in SUBSET C
      /\ Len(e) \in Nat
  BY DEF Providers, FinalsOf
<1>2. /\ g \in FinalsOf(C) /\ g.queue = q /\ g.pending = f.pending + 1 /\ g.segments = f.segments
  <2>1. g = [f EXCEPT !.pending = f.pending + 1]
    BY DEF Request
  <2>2. f.pending + 1 \in Nat
    BY <1>1
  <2>3. g \in FinalsOf(C)
    BY <1>1, <2>1, <2>2 DEF FinalsOf
  <2>. QED  BY <1>1, <2>1, <2>3 DEF FinalsOf
<1>3. d \in Nat /\ (Owed(f) = Len(e) => f.pending + d = Len(e))
  BY <1>1, DonesIsAll DEF Owed
<1>4. p.boundary <= p.pushed
  BY DEF Books, Quiet
<1>5. Len(n) = Len(e) + 1
  OBVIOUS
<1>6. SocketFinalize \in SocketItems(C) /\ SocketFinalize.chunk = {}
  BY SocketIs DEF SocketFinalize
<1>. HIDE DEF g, d
<1>7. CASE ~(p.pushed > p.boundary) /\ g.segments = {}
  <2>1. r = [p EXCEPT !.finals = a]
    BY <1>7 DEF RequestFinalize, g
  <2>2. a.pending = f.pending /\ a.pending = g.pending - 1 /\ 1 \in 1 .. g.pending
    <3>1. 1 \in 0 .. g.pending /\ 1 \in 1 .. g.pending
      BY <1>1, <1>2
    <3>2. a.pending = g.pending - 1
      BY <1>2, <3>1, AnswerOwesTheSame
    <3>. QED  BY <1>1, <1>2, <3>1, <3>2
  <2>. HIDE DEF a
  <2>3. /\ r.alive = p.alive /\ r.finals = a /\ r.heard = p.heard /\ r.socket = s
        /\ r.boundary = p.boundary /\ r.pushed = p.pushed
    BY <2>1 DEF Providers
  <2>4. Books(r)
    BY <2>3 DEF Books, DeadIsEmpty, Quiet
  <2>5. ASSUME Right(p, e, ended, TRUE), Owed(f) = Len(e), p.pushed <= p.boundary => f.pending = 0
        PROVE  Right(r, n, more, TRUE)
    <3>1. f.pending = 0 /\ d = Len(e) /\ All(s, SocketFinalize) = 0
      BY <1>1, <1>3, <1>7, <2>5 DEF Right, MarkersSent
    <3>2. s = <<>> /\ p.heard = {}
      <4>1. p.boundary = p.pushed
        BY <1>1, <1>4, <1>7
      <4>2. IF s = <<>> THEN p.heard = {} ELSE s[Len(s)] = SocketFinalize
        BY <4>1 DEF Books, Quiet
      <4>3. CASE s # <<>>
        <5>. DEFINE j == Len(s)
        <5>1. j \in Nat /\ j \in 1 .. j /\ s[j] = SocketFinalize
          BY <1>1, <4>2, <4>3
        <5>. HIDE DEF j
        <5>2. First(s, SocketFinalize, j) # 0
          BY <5>1, FirstAlike
        <5>. QED  BY <3>1, <5>2 DEF All, j
      <4>. QED  BY <4>2, <4>3
    <3>3. QueueOwned(q, n, more, TRUE)
      <4>1. QueueOwned(q, e, ended, TRUE)
        BY <2>5 DEF Right, TextsOwned
      <4>2. Dones(q) <= Len(e)
        BY <1>1, <3>1 DEF d
      <4>. QED  BY <1>1, <4>1, <4>2, QueueEnds
    <3>4. Owned({}, d, n, more)
      BY DEF Owned
    <3>. HIDE DEF n, more
    <3>5. Answering(C, g, 1, n, more, TRUE)
      <4>1. Len(n) \in Nat /\ d < Len(n)
        BY <1>1, <1>5, <3>1
      <4>2. Dones(g.queue) = d /\ g.segments = {} /\ g.queue = q
        BY <1>2, <1>7 DEF d
      <4>. HIDE DEF q, s, f
      <4>. QED  BY <1>2, <2>2, <3>3, <3>4, <4>1, <4>2 DEF Answering
    <3>6. QueueOwned(a.queue, n, more, TRUE) /\ a.segments = {}
      BY <3>5, AnswerIsOwned DEF a
    <3>7. r.heard = {} /\ r.socket = <<>> /\ r.finals = a
      BY <2>3, <3>2
    <3>8. DOMAIN <<>> = {} /\ All(<<>>, SocketFinalize) = 0
      BY NoneInEmpty
    <3>. QED  BY <2>2, <3>1, <3>6, <3>7, <3>8 DEF Right, TextsOwned, MarkersSent, Owned, SocketOwned
  <2>. QED  BY <2>2, <2>3, <2>4, <2>5 DEF n, more
<1>8. CASE p.pushed > p.boundary \/ g.segments # {}
  <2>1. r = [p EXCEPT !.finals = g, !.boundary = p.pushed, !.socket = t]
    BY <1>8 DEF RequestFinalize, g
  <2>2. /\ r.alive = p.alive /\ r.finals = g /\ r.heard = p.heard /\ r.socket = t
        /\ r.boundary = p.pushed /\ r.pushed = p.pushed
    BY <2>1 DEF Providers
  <2>3. t # <<>> /\ t[Len(t)] = SocketFinalize
    BY <1>1
  <2>. HIDE DEF t
  <2>4. Books(r)
    BY <1>1, <2>2, <2>3 DEF Books, DeadIsEmpty, Quiet
  <2>5. ASSUME Right(p, e, ended, TRUE), Owed(f) = Len(e)
        PROVE  Right(r, n, more, TRUE)
    <3>. DEFINE b == All(s, SocketFinalize)
    <3>1. /\ QueueOwned(q, e, ended, TRUE) /\ Owned(f.segments \union p.heard, d, e, ended)
          /\ SocketOwned(s, d, e, ended) /\ b \in Nat /\ f.pending = b
      BY <1>1, <2>5, AllNat DEF Right, TextsOwned, MarkersSent, d
    <3>2. d + b <= Len(e) /\ d <= Len(e)
      BY <1>1, <1>3, <2>5, <3>1
    <3>3. QueueOwned(q, n, more, TRUE)
      <4>1. Dones(q) <= Len(e)
        BY <3>2 DEF d
      <4>. QED  BY <1>1, <3>1, <4>1, QueueEnds
    <3>4. Owned(f.segments \union p.heard, d, n, more)
      BY <1>3, <3>1, <3>2, OwnedEnds
    <3>5. SocketOwned(s, d, n, more)
      BY <1>1, <1>3, <3>1, <3>2, SocketEnds
    <3>. HIDE DEF n, more
    <3>6. SocketOwned(t, d, n, more)
      <4>1. Owned(SocketFinalize.chunk, d + b, n, more)
        BY <1>6 DEF Owned
      <4>. QED  BY <1>1, <1>3, <1>6, <3>5, <4>1, SocketNext DEF t
    <3>7. All(t, SocketFinalize) = b + 1
      BY <1>1, <1>6, AllNext DEF t
    <3>. QED  BY <1>2, <2>2, <3>1, <3>3, <3>4, <3>6, <3>7 DEF Right, TextsOwned, MarkersSent, d
  <2>. QED  BY <2>2, <2>4, <2>5 DEF n, more
<1>. QED  BY <1>1, <1>7, <1>8

-----------------------------------------------------------------------------
(* Draining. *)

\* The entries without the first m.
Later(f, e, m) ==
    /\ m <= Len(e) /\ Len(f) = Len(e) - m
    /\ \A i \in 1 .. Len(f) : f[i].key = e[i + m].key

\* What was owned behind m + d markers is owned behind d.
LEMMA OwnedLater ==
    ASSUME NEW e, NEW f, NEW m \in Nat, NEW d \in Nat, Len(e) \in Nat, Later(f, e, m), NEW ended, NEW b, b = m + d
    PROVE  /\ \A T : Owned(T, b, e, ended) => Owned(T, d, f, ended)
           /\ \A x, c : ItemOwned(x, b, e, ended, c) => ItemOwned(x, d, f, ended, c)
<1>1. d < Len(f) <=> b < Len(e)
  BY DEF Later
<1>2. ASSUME d < Len(f) PROVE f[d + 1].key = e[b + 1].key
  <2>1. d + 1 \in 1 .. Len(f) /\ (d + 1) + m = b + 1
    BY <1>2 DEF Later
  <2>2. f[d + 1].key = e[(d + 1) + m].key
    BY <2>1 DEF Later
  <2>. QED  BY <2>1, <2>2
<1>3. ASSUME NEW T, Owned(T, b, e, ended) PROVE Owned(T, d, f, ended)
  BY <1>1, <1>2, <1>3 DEF Owned
<1>4. d >= Len(f) <=> b >= Len(e)
  BY DEF Later
<1>5. ASSUME NEW x, NEW c, ItemOwned(x, b, e, ended, c) PROVE ItemOwned(x, d, f, ended, c)
  BY <1>1, <1>2, <1>4, <1>5 DEF ItemOwned
<1>. QED  BY <1>3, <1>5

\* The socket, behind m markers less.
LEMMA SocketLater ==
    ASSUME NEW C, NEW s \in Seq(SocketItems(C)), NEW e, NEW f, NEW m \in Nat, NEW d \in Nat, Len(e) \in Nat,
           Later(f, e, m), NEW ended, NEW b, b = m + d, SocketOwned(s, b, e, ended)
    PROVE  SocketOwned(s, d, f, ended)
<1>. SUFFICES ASSUME NEW i \in DOMAIN s PROVE Owned(s[i].chunk, d + First(s, SocketFinalize, i - 1), f, ended)
  BY DEF SocketOwned
<1>. DEFINE n == i - 1
            x == First(s, SocketFinalize, n)
            y == d + x
            z == b + x
<1>1. n \in Nat
  OBVIOUS
<1>2. Owned(s[i].chunk, z, e, ended)
  BY DEF SocketOwned
<1>. HIDE DEF n
<1>3. x \in Nat
  BY <1>1, FirstNat
<1>. HIDE DEF x
<1>4. y \in Nat /\ z = m + y
  BY <1>3
<1>. HIDE DEF y, z
<1>5. Owned(s[i].chunk, y, f, ended)
  BY <1>2, <1>4, OwnedLater
<1>. QED  BY <1>5 DEF y, x, n

\* What is polled is the front of the queue.
LEMMA PolledIs ==
    ASSUME NEW C, NEW q \in Seq(Items(C))
    PROVE  \E z \in Nat :
             /\ Len(Polled(q)) <= Len(q) /\ Len(Polled(q)) \in Nat
             /\ \A i \in 1 .. Len(Polled(q)) : Polled(q)[i] = q[i]
             /\ \A i \in 1 .. Len(Unpolled(q)) : i + z \in 1 .. Len(q) /\ Unpolled(q)[i] = q[i + z]
             /\ Unpolled(q) # <<>> => First(q, FinalizeDone, z) = Dones(Polled(q))
<1>. DEFINE F == FirstFailure(q)
<1>1. CASE F = 0
  <2>1. Polled(q) = q /\ Unpolled(q) = <<>>
    BY <1>1 DEF Polled, Unpolled
  <2>2. Len(<<>>) = 0 /\ Len(q) \in Nat /\ 0 \in Nat
    OBVIOUS
  <2>. QED  BY <2>1, <2>2
<1>2. CASE F \in 1 .. Len(q) /\ q[F] = Failure
  <2>. DEFINE a == SubSeq(q, 1, F - 1)
              c == SubSeq(q, F + 1, Len(q))
              m == F - 1
  <2>1. Polled(q) = a /\ Unpolled(q) = c
    <3>1. FirstFailure(q) # 0
      BY <1>2
    <3>. QED  BY <3>1, Zenon DEF Polled, Unpolled
  <2>. HIDE DEF F
  <2>2. a \in Seq(Items(C)) /\ Len(a) = m /\ m \in Nat /\ F \in Nat /\ F = m + 1 /\ Len(q) \in Nat /\ F <= Len(q)
        /\ \A i \in 1 .. m : a[i] = q[i]
    BY <1>2
  <2>3. \A i \in 1 .. Len(c) : i + F \in 1 .. Len(q) /\ c[i] = q[i + F]
    <3>1. c = [i \in 1 .. (Len(q) - (F + 1)) + 1 |-> q[(i + (F + 1)) - 1]]
      BY <1>2
    <3>2. (Len(q) - (F + 1)) + 1 = Len(q) - F /\ Len(q) - F \in Nat
      BY <2>2
    <3>. HIDE DEF a, c, m
    <3>3. c = [i \in 1 .. Len(q) - F |-> q[(i + (F + 1)) - 1]]
      BY <3>1, <3>2
    <3>4. Len(c) = Len(q) - F
      BY <3>2, <3>3
    <3>5. \A i \in 1 .. Len(q) - F : (i + (F + 1)) - 1 = i + F /\ i + F \in 1 .. Len(q)
      BY <2>2
    <3>. QED  BY <3>3, <3>4, <3>5
  <2>. HIDE DEF a, c, m
  <2>4. First(q, FinalizeDone, m + 1) = First(q, FinalizeDone, m) + 0
    <3>1. q[m + 1] # FinalizeDone
      BY <1>2, <2>2, ItemsAre
    <3>. QED  BY <2>2, <3>1, FirstNext
  <2>5. First(q, FinalizeDone, m) = First(a, FinalizeDone, m) /\ First(q, FinalizeDone, m) \in Nat
    <3>1. First(a, FinalizeDone, m) = First(q, FinalizeDone, m)
      BY <2>2, FirstSame
    <3>2. First(q, FinalizeDone, m) \in Nat
      BY <2>2, FirstNat
    <3>. QED  BY <3>1, <3>2
  <2>6. Dones(a) = First(a, FinalizeDone, m)
    BY <2>2, DonesIsAll DEF All
  <2>7. First(q, FinalizeDone, F) = Dones(a)
    BY <2>2, <2>4, <2>5, <2>6
  <2>8. Len(a) <= Len(q) /\ Len(a) \in Nat
    BY <2>2
  <2>. QED  BY <2>1, <2>2, <2>3, <2>7, <2>8
<1>. QED  BY <1>1, <1>2, FailureIsFound

\* So both parts of it keep their owners.
LEMMA PollingOwns ==
    ASSUME NEW C, NEW q \in Seq(Items(C)), NEW e, Len(e) \in Nat, NEW ended, NEW claims,
           QueueOwned(q, e, ended, claims)
    PROVE  /\ QueueOwned(Polled(q), e, ended, claims)
           /\ \A f : Later(f, e, Dones(Polled(q))) => QueueOwned(Unpolled(q), f, ended, claims)
<1>. DEFINE a == Polled(q)
            c == Unpolled(q)
            m == Dones(a)
<1>1. PICK z \in Nat :
        /\ Len(a) <= Len(q) /\ Len(a) \in Nat
        /\ \A i \in 1 .. Len(a) : a[i] = q[i]
        /\ \A i \in 1 .. Len(c) : i + z \in 1 .. Len(q) /\ c[i] = q[i + z]
        /\ c # <<>> => First(q, FinalizeDone, z) = m
  BY PolledIs
<1>2. a \in Seq(Items(C)) /\ c \in Seq(Items(C))
  BY PollingSplits
<1>3. m \in Nat
  BY <1>2, DonesIsAll
<1>4. DOMAIN q = 1 .. Len(q) /\ DOMAIN a = 1 .. Len(a) /\ DOMAIN c = 1 .. Len(c) /\ Len(q) \in Nat
  BY <1>2
<1>. HIDE DEF a, c, m
<1>5. QueueOwned(a, e, ended, claims)
  <2>. SUFFICES ASSUME NEW i \in DOMAIN a PROVE ItemOwned(a[i], First(a, FinalizeDone, i - 1), e, ended, claims)
    BY DEF QueueOwned
  <2>. DEFINE n == i - 1
  <2>1. n \in Nat /\ i \in DOMAIN q /\ a[i] = q[i] /\ \A j \in 1 .. n : j \in 1 .. Len(a)
    BY <1>1, <1>4
  <2>2. ItemOwned(q[i], First(q, FinalizeDone, n), e, ended, claims)
    BY <2>1 DEF QueueOwned
  <2>. HIDE DEF n
  <2>3. First(q, FinalizeDone, n) = First(a, FinalizeDone, n)
    <3>1. \A j \in 1 .. n : q[j] = a[j]
      BY <1>1, <2>1
    <3>. QED  BY <2>1, <3>1, FirstSame
  <2>. QED  BY <2>1, <2>2, <2>3 DEF n
<1>6. ASSUME NEW f, Later(f, e, m) PROVE QueueOwned(c, f, ended, claims)
  <2>. SUFFICES ASSUME NEW i \in DOMAIN c PROVE ItemOwned(c[i], First(c, FinalizeDone, i - 1), f, ended, claims)
    BY DEF QueueOwned
  <2>. DEFINE n == i - 1
              l == n + z
              x == First(c, FinalizeDone, n)
              b == First(q, FinalizeDone, l)
  <2>1. n \in Nat /\ i + z \in DOMAIN q /\ c[i] = q[i + z] /\ (i + z) - 1 = l /\ l = z + n /\ l \in Nat
        /\ \A j \in 1 .. n : j \in 1 .. Len(c)
    BY <1>1, <1>2, <1>4
  <2>2. ItemOwned(c[i], First(q, FinalizeDone, (i + z) - 1), e, ended, claims)
    BY <2>1 DEF QueueOwned
  <2>3. ItemOwned(c[i], b, e, ended, claims)
    BY <2>1, <2>2
  <2>4. c # <<>>
    BY <1>2
  <2>. HIDE DEF n, l
  <2>5. First(q, FinalizeDone, l) = First(q, FinalizeDone, z) + First(c, FinalizeDone, n)
    <3>1. \A j \in 1 .. n : c[j] = q[j + z]
      BY <1>1, <2>1
    <3>. QED  BY <2>1, <3>1, FirstJoin
  <2>6. b = m + x /\ x \in Nat
    BY <1>1, <2>1, <2>4, <2>5, FirstNat
  <2>. HIDE DEF b, x
  <2>7. ItemOwned(c[i], x, f, ended, claims)
    BY <1>3, <1>6, <2>3, <2>6, OwnedLater
  <2>. QED  BY <2>7 DEF x, n
<1>. QED  BY <1>5, <1>6 DEF a, c, m

\* A transcript has the key of its utterance, a partial perhaps none.
HeardRight(t) ==
    /\ \A h \in t.heard : h.final => h.key = h.chunk[1]
    /\ t.refused = {} => \A h \in t.heard : ~h.final => h.key = h.chunk[1] \/ (h.key = NoKey /\ h.live)

\* An item whose turn has come, with d of the entries e answered.
InFront(acc, item, e, d, claims) ==
    /\ gen \in Nat /\ acc \in Accs(gen) /\ item \in Items(Under(gen)) /\ Len(e) \in Nat /\ d \in Nat
    /\ Later(acc.entries, e, d) /\ HeardRight(acc.told)
    /\ acc.told.refused = {} => claims
    /\ ItemOwned(item, d, e, acc.told.ended, claims)

\* One item is reported rightly, and a marker takes the entry it answers.
LEMMA DeliverRight ==
    ASSUME NEW acc, NEW item, NEW e, NEW d, NEW claims, InFront(acc, item, e, d, claims),
           NEW r, r = Deliver(acc, item)
    PROVE  /\ HeardRight(r.told)
           /\ item # FinalizeDone => Later(r.entries, e, d)
           /\ item = FinalizeDone /\ d < Len(e) => Later(r.entries, e, d + 1)
<1>. DEFINE t == acc.told
            f == acc.entries
<1>0. /\ gen \in Nat /\ acc \in Accs(gen) /\ item \in Items(Under(gen)) /\ Len(e) \in Nat /\ d \in Nat
      /\ Later(f, e, d) /\ HeardRight(t)
      /\ t.refused = {} => claims
      /\ ItemOwned(item, d, e, t.ended, claims)
  BY DEF InFront
<1>1. acc \in [entries : Seq(Entries(gen)), told : ToldOf] /\ f \in Seq(Entries(gen)) /\ t \in ToldOf
  BY <1>0 DEF Accs
<1>2. item.kind = "done" <=> item = FinalizeDone
  BY <1>0, ItemsAre
<1>3. Len(f) \in Nat /\ (f = <<>> <=> Len(f) = 0) /\ Len(f) = Len(e) - d /\ d <= Len(e)
      /\ \A i \in 1 .. Len(f) : f[i].key = e[i + d].key
  BY <1>0, <1>1 DEF Later
<1>4. CASE item.kind # "done"
  <2>. DEFINE key == IF f = <<>> THEN NoKey ELSE FrontEntry(f).key
              under == IF f = <<>> THEN gen ELSE FrontEntry(f).gen
              report(c) == [key |-> key, gen |-> under, chunk |-> c, final |-> item.kind = "final",
                            live |-> c[1] \notin t.ended]
              more == t.heard \union {report(c) : c \in item.text}
              x == [t EXCEPT !.heard = more]
  <2>1. Transcript(t, f, item) = x
    BY DEF Transcript
  <2>2. r = [acc EXCEPT !.told = x]
    BY <1>4, <2>1 DEF Deliver
  <2>. HIDE DEF x
  <2>3. r.told = x /\ r.entries = f
    BY <1>1, <2>2
  <2>4. x.heard = more /\ x.refused = t.refused
    BY <1>1 DEF x, ToldOf
  <2>5. ASSUME NEW c \in item.text
        PROVE  /\ report(c).final => report(c).key = c[1]
               /\ t.refused = {} /\ ~report(c).final => report(c).key = c[1] \/ (report(c).key = NoKey /\ report(c).live)
    <3>1. /\ item.kind = "final" => d < Len(e)
          /\ d < Len(e) => c[1] = e[d + 1].key
          /\ claims /\ d >= Len(e) => Open(t.ended, c[1])
      BY <1>0 DEF ItemOwned
    <3>2. CASE f = <<>>
      <4>1. ~(d < Len(e)) /\ d >= Len(e)
        BY <1>0, <1>3, <3>2
      <4>2. item.kind # "final" /\ (t.refused = {} => c[1] \notin t.ended)
        BY <1>0, <3>1, <4>1 DEF Open
      <4>. QED  BY <3>2, <4>2
    <3>3. CASE f # <<>>
      <4>1. d < Len(e) /\ 1 \in 1 .. Len(f) /\ 1 + d = d + 1
        BY <1>0, <1>3, <3>3
      <4>2. f[1].key = e[d + 1].key
        BY <1>3, <4>1
      <4>3. key = c[1]
        BY <3>1, <3>3, <4>1, <4>2 DEF FrontEntry
      <4>. HIDE DEF key
      <4>. QED  BY <4>3
    <3>. QED  BY <3>2, <3>3
  <2>6. \A c : report(c).chunk = c
    OBVIOUS
  <2>. HIDE DEF report
  <2>7. HeardRight(x)
    BY <1>0, <2>4, <2>5, <2>6 DEF HeardRight
  <2>. QED  BY <1>0, <1>2, <1>4, <2>3, <2>7
<1>5. CASE item.kind = "done" /\ f = <<>>
  <2>1. r = acc
    BY <1>5 DEF Deliver
  <2>2. ~(d < Len(e))
    BY <1>0, <1>3, <1>5
  <2>. QED  BY <1>0, <1>2, <1>5, <2>1, <2>2
<1>6. CASE item.kind = "done" /\ f # <<>>
  <2>1. r.entries = Tail(f) /\ (r.told = t \/ r.told = Close(t, Head(f).key))
    BY <1>6 DEF Deliver
  <2>2. \A k : Close(t, k).heard = t.heard /\ Close(t, k).refused = t.refused
    BY <1>1 DEF Close, ToldOf
  <2>3. HeardRight(r.told)
    BY <1>0, <2>1, <2>2 DEF HeardRight
  <2>. DEFINE g == Tail(f)
  <2>4. Len(g) = Len(f) - 1 /\ \A i \in 1 .. Len(g) : i + 1 \in 1 .. Len(f) /\ g[i] = f[i + 1]
    BY <1>1, <1>6
  <2>. HIDE DEF g, f
  <2>5. Later(g, e, d + 1)
    <3>1. d + 1 <= Len(e) /\ Len(g) = Len(e) - (d + 1)
      BY <1>0, <1>3, <1>6, <2>4
    <3>2. ASSUME NEW i \in 1 .. Len(g) PROVE g[i].key = e[i + (d + 1)].key
      <4>1. i + 1 \in 1 .. Len(f) /\ g[i] = f[i + 1] /\ (i + 1) + d = i + (d + 1)
        BY <1>0, <2>4
      <4>2. f[i + 1].key = e[(i + 1) + d].key
        BY <1>3, <4>1
      <4>. QED  BY <4>1, <4>2
    <3>. QED  BY <3>1, <3>2 DEF Later
  <2>. QED  BY <1>2, <1>6, <2>1, <2>3, <2>5 DEF g
<1>. QED  BY <1>4, <1>5, <1>6

\* All that is polled.
LEMMA RunRight ==
    ASSUME gen \in Nat, NEW items, items \in Seq(Items(Under(gen))),
           NEW f, f \in [0 .. Len(items) -> Accs(gen)],
           \A i \in 1 .. Len(items) : f[i] = Deliver(f[i - 1], items[i]),
           NEW e, e = f[0].entries, Dones(items) <= Len(e), HeardRight(f[0].told), NEW claims,
           f[0].told.refused = {} => claims, QueueOwned(items, e, f[0].told.ended, claims)
    PROVE  /\ HeardRight(f[Len(items)].told)
           /\ Later(f[Len(items)].entries, e, Dones(items))
<1>. DEFINE m == Len(items)
            popped(i) == First(items, FinalizeDone, i)
            n == Len(e)
            T == {i \in Nat : i <= m =>
                    /\ SameEnds(f[0].told, f[i].told)
                    /\ HeardRight(f[i].told)
                    /\ Later(f[i].entries, e, popped(i))}
<1>1. m \in Nat /\ (\A i \in 1 .. m : items[i] \in Items(Under(gen))) /\ DOMAIN items = 1 .. m
  OBVIOUS
<1>2. \A i \in 0 .. m : f[i] \in Accs(gen) /\ f[i].entries \in Seq(Entries(gen)) /\ f[i].told \in ToldOf
  BY DEF Accs
<1>3. n \in Nat
  <2>1. 0 \in 0 .. m
    BY <1>1
  <2>2. f[0].entries \in Seq(Entries(gen))
    BY <1>2, <2>1
  <2>. QED  BY <2>2
<1>4. \A i \in Nat : popped(i) \in Nat
  BY FirstNat
<1>5. Dones(items) = popped(m) /\ Dones(items) \in Nat
  BY DonesIsAll DEF All
<1>6. \A i \in 1 .. m : f[i] = Deliver(f[i - 1], items[i])
  OBVIOUS
<1>. HIDE DEF m
<1>7. 0 \in T
  <2>1. popped(0) = 0
    <3>1. 0 \in Nat
      OBVIOUS
    <3>. QED  BY <3>1, FirstNat
  <2>2. Later(e, e, 0)
    BY <1>3 DEF Later
  <2>. QED  BY <2>1, <2>2 DEF SameEnds
<1>8. ASSUME NEW i \in Nat, i \in T PROVE i + 1 \in T
  <2>. SUFFICES ASSUME i + 1 <= m
                PROVE  /\ SameEnds(f[0].told, f[i + 1].told)
                       /\ HeardRight(f[i + 1].told)
                       /\ Later(f[i + 1].entries, e, popped(i + 1))
    OBVIOUS
  <2>1. i \in 0 .. m /\ i + 1 \in 1 .. m /\ (i + 1) - 1 = i /\ i <= m
    BY <1>1
  <2>2. SameEnds(f[0].told, f[i].told) /\ HeardRight(f[i].told) /\ Later(f[i].entries, e, popped(i))
    BY <1>8, <2>1
  <2>. DEFINE acc == f[i]
              item == items[i + 1]
              r == f[i + 1]
              d == popped(i)
              c == popped(i + 1)
              l == popped(m)
  <2>3. acc \in Accs(gen) /\ item \in Items(Under(gen))
    BY <1>1, <1>2, <2>1
  <2>4. r = Deliver(acc, item)
    BY <1>6, <2>1
  <2>5. c = d + (IF item = FinalizeDone THEN 1 ELSE 0)
    BY FirstNext
  <2>6. d \in Nat /\ c \in Nat
    <3>1. i + 1 \in Nat
      OBVIOUS
    <3>. QED  BY <1>4, <3>1
  <2>7. c <= l
    BY <1>1, <2>1, FirstGrows
  <2>8. l <= n /\ l \in Nat
    BY <1>1, <1>4, <1>5
  <2>9. ItemOwned(item, d, e, acc.told.ended, claims)
    <3>1. ItemOwned(item, First(items, FinalizeDone, (i + 1) - 1), e, f[0].told.ended, claims)
      BY <1>1, <2>1 DEF QueueOwned
    <3>2. acc.told.ended = f[0].told.ended
      BY <2>2 DEF SameEnds
    <3>. QED  BY <2>1, <3>1, <3>2
  <2>10. acc.told.refused = {} => claims
    BY <2>2 DEF SameEnds
  <2>11. HeardRight(acc.told) /\ Later(acc.entries, e, d)
    BY <2>2
  <2>. HIDE DEF item, acc, r, d, c, l
  <2>12. /\ HeardRight(r.told)
         /\ item # FinalizeDone => Later(r.entries, e, d)
         /\ item = FinalizeDone /\ d < Len(e) => Later(r.entries, e, d + 1)
    <3>1. InFront(acc, item, e, d, claims)
      BY <1>3, <2>3, <2>6, <2>9, <2>10, <2>11 DEF InFront
    <3>. QED  BY <2>4, <3>1, DeliverRight
  <2>13. Later(r.entries, e, c)
    <3>1. CASE item # FinalizeDone
      <4>1. c = d
        BY <2>5, <2>6, <3>1
      <4>. QED  BY <2>12, <3>1, <4>1
    <3>2. CASE item = FinalizeDone
      <4>1. c = d + 1 /\ d < Len(e)
        BY <1>3, <2>5, <2>6, <2>7, <2>8, <3>2
      <4>. QED  BY <2>12, <3>2, <4>1
    <3>. QED  BY <3>1, <3>2
  <2>14. SameEnds(acc.told, r.told)
    BY <2>3, <2>4, DeliverKeeps
  <2>15. SameEnds(f[0].told, r.told)
    BY <2>2, <2>14 DEF SameEnds, acc
  <2>. QED  BY <2>12, <2>13, <2>15 DEF r, c
<1>9. m \in T
  <2>. HIDE DEF T
  <2>1. Nat \subseteq T
    BY <1>7, <1>8, Inductive
  <2>. QED  BY <1>1, <2>1
<1>. QED  BY <1>1, <1>5, <1>9 DEF m

\* drain_outputs leaves every text its owner, and reports what it takes rightly.
LEMMA DrainRight ==
    ASSUME gen \in Nat, stt \in Providers(Under(gen)), outstanding \in Seq(Entries(gen)),
           told \in ToldOf, Ledger(outstanding, told), DrainOutputs, NEW claims, told.refused = {} => claims
    PROVE  /\ Books(stt) => Books(stt')
           /\ stt'.finals.pending <= stt.finals.pending
           /\ /\ told'.gave_up = {} /\ Len(outstanding) = Owed(stt.finals)
              /\ Right(stt, outstanding, told.ended, claims) /\ HeardRight(told)
              => Right(stt', outstanding', told.ended, claims) /\ HeardRight(told')
<1>. DEFINE C == Under(gen)
<1>1. stt.finals \in FinalsOf(C) /\ stt.finals.pending \in Nat
  BY DEF Providers, FinalsOf
<1>2. PICK n \in 0 .. stt.finals.pending :
        LET expired == Answer(stt.finals, n)
            after == Delivered(Polled(expired.queue))
        IN  /\ stt' = [stt EXCEPT !.finals = [expired EXCEPT !.queue = Unpolled(expired.queue)]]
            /\ outstanding' = after.entries
            /\ told' = [after.told EXCEPT !.gave_up = @ \union IF n > 0 THEN {"provider"} ELSE {}]
  <2>1. 0 \in 0 .. stt.finals.pending
    BY <1>1
  <2>. QED  BY <2>1 DEF DrainOutputs
<1>. DEFINE expired == Answer(stt.finals, n)
            items == Polled(expired.queue)
            rest == Unpolled(expired.queue)
            left == [expired EXCEPT !.queue = rest]
            after == Delivered(items)
            gives == after.told.gave_up \union (IF n > 0 THEN {"provider"} ELSE {})
<1>3. /\ stt' = [stt EXCEPT !.finals = left] /\ outstanding' = after.entries
      /\ told' = [after.told EXCEPT !.gave_up = gives]
  BY <1>2
<1>4. expired \in FinalsOf(C) /\ expired.queue \in Seq(Items(C)) /\ expired.pending \in Nat
      /\ expired.pending <= stt.finals.pending /\ (n = 0 => expired = stt.finals)
      /\ (stt.finals.segments = {} => expired.segments = {})
  <2>1. expired \in FinalsOf(C) /\ expired.pending = stt.finals.pending - n
    BY <1>1, AnswerOwesTheSame
  <2>2. n = 0 => expired = stt.finals
    BY DEF Answer
  <2>3. n # 0 => expired.segments = {}
    BY DEF Answer
  <2>. HIDE DEF expired
  <2>. QED  BY <1>1, <2>1, <2>2, <2>3 DEF FinalsOf
<1>. HIDE DEF expired
<1>5. items \in Seq(Items(C)) /\ rest \in Seq(Items(C)) /\ Dones(expired.queue) = Dones(items) + Dones(rest)
      /\ Dones(items) \in Nat /\ Dones(rest) \in Nat
  <2>1. items \in Seq(Items(C)) /\ rest \in Seq(Items(C)) /\ Dones(expired.queue) = Dones(items) + Dones(rest)
    BY <1>4, PollingSplits
  <2>. HIDE DEF items, rest
  <2>. QED  BY <2>1, DonesIsAll
<1>6. left \in FinalsOf(C) /\ left.queue = rest /\ left.pending = expired.pending /\ left.segments = expired.segments
  <2>. HIDE DEF items, rest
  <2>. QED  BY <1>4, <1>5 DEF FinalsOf
<1>. HIDE DEF left
<1>7. /\ stt'.finals = left /\ stt'.socket = stt.socket /\ stt'.heard = stt.heard /\ stt'.alive = stt.alive
      /\ stt'.pushed = stt.pushed /\ stt'.boundary = stt.boundary
  <2>. DEFINE s == [stt EXCEPT !.finals = left]
  <2>1. /\ s.finals = left /\ s.socket = stt.socket /\ s.heard = stt.heard /\ s.alive = stt.alive
        /\ s.pushed = stt.pushed /\ s.boundary = stt.boundary
    BY <1>6 DEF Providers
  <2>. HIDE DEF s
  <2>2. stt' = s
    BY <1>3 DEF s
  <2>. QED  BY <2>1, <2>2
<1>8. Books(stt) => Books(stt')
  <2>. HIDE DEF items, rest, after, gives
  <2>. QED  BY <1>1, <1>4, <1>6, <1>7 DEF Books, DeadIsEmpty, Quiet
<1>9. ASSUME told'.gave_up = {}, Len(outstanding) = Owed(stt.finals),
             Right(stt, outstanding, told.ended, claims), HeardRight(told)
      PROVE  Right(stt', outstanding', told.ended, claims) /\ HeardRight(told')
  <2>. DEFINE x == [entries |-> outstanding, told |-> told]
              q == stt.finals.queue
              e == outstanding
              m == Dones(items)
  <2>1. x \in Accs(gen)
    BY DEF Accs
  <2>2. PICK f \in [0 .. Len(items) -> Accs(gen)] :
           /\ f[0] = x /\ \A i \in 1 .. Len(items) : f[i] = Deliver(f[i - 1], items[i])
           /\ after = f[Len(items)]
    BY <1>5, <2>1, DeliveredRuns
  <2>3. after.told \in ToldOf
    <3>1. Len(items) \in 0 .. Len(items)
      BY <1>5
    <3>2. after \in Accs(gen)
      BY <2>2, <3>1
    <3>. QED  BY <3>2 DEF Accs
  <2>. HIDE DEF after
  <2>4. told'.gave_up = gives /\ told'.heard = after.told.heard /\ told'.refused = after.told.refused
    <3>. DEFINE a == after.told
                t == [a EXCEPT !.gave_up = gives]
    <3>1. a \in ToldOf /\ told' = t
      BY <1>3, <2>3
    <3>. HIDE DEF a, gives
    <3>2. t.gave_up = gives /\ t.heard = a.heard /\ t.refused = a.refused
      BY <3>1 DEF ToldOf
    <3>. HIDE DEF t
    <3>. QED  BY <3>1, <3>2 DEF a
  <2>5. n = 0
    <3>1. gives = {}
      BY <1>9, <2>4
    <3>2. ~(n > 0)
      BY <3>1 DEF gives
    <3>. QED  BY <1>1, <3>2
  <2>6. expired = stt.finals /\ expired.queue = q
    BY <1>4, <2>5
  <2>7. /\ QueueOwned(q, e, told.ended, claims) /\ q \in Seq(Items(C)) /\ Len(e) \in Nat
        /\ Dones(q) = m + Dones(rest) /\ m <= Len(e)
    <3>1. q \in Seq(Items(C)) /\ Dones(q) = m + Dones(rest) /\ Len(e) \in Nat
      BY <1>4, <1>5, <2>6
    <3>2. Len(e) = stt.finals.pending + Dones(q)
      BY <1>9 DEF Owed
    <3>. HIDE DEF items, rest, q, e
    <3>3. m <= Len(e)
      BY <1>1, <1>5, <3>1, <3>2
    <3>4. QueueOwned(q, e, told.ended, claims)
      BY <1>9 DEF Right, TextsOwned, q, e
    <3>. QED  BY <3>1, <3>3, <3>4
  <2>8. /\ QueueOwned(items, e, told.ended, claims)
        /\ \A g : Later(g, e, m) => QueueOwned(rest, g, told.ended, claims)
    <3>1. /\ QueueOwned(Polled(q), e, told.ended, claims)
          /\ \A g : Later(g, e, Dones(Polled(q))) => QueueOwned(Unpolled(q), g, told.ended, claims)
      <4>. HIDE DEF q, e
      <4>. QED  BY <2>7, PollingOwns
    <3>. QED  BY <2>6, <3>1
  <2>9. f[0].entries = e /\ f[0].told = told
    BY <2>2
  <2>. HIDE DEF items, rest, q, x, gives
  <2>10. HeardRight(f[Len(items)].told) /\ Later(f[Len(items)].entries, e, m)
    <3>1. e = f[0].entries /\ Dones(items) <= Len(e) /\ HeardRight(f[0].told)
          /\ (f[0].told.refused = {} => claims) /\ QueueOwned(items, e, f[0].told.ended, claims)
      BY <1>9, <2>7, <2>8, <2>9
    <3>. HIDE DEF e
    <3>. QED  BY <1>5, <2>2, <3>1, RunRight
  <2>11. HeardRight(told')
    BY <2>2, <2>4, <2>10 DEF HeardRight
  <2>. DEFINE g == outstanding'
              d == Dones(rest)
  <2>12. Later(g, e, m)
    BY <1>3, <2>2, <2>10
  <2>13. /\ QueueOwned(rest, g, told.ended, claims)
    BY <2>8, <2>12
  <2>14. /\ Owned(stt.finals.segments \union stt.heard, Dones(q), e, told.ended)
         /\ SocketOwned(stt.socket, Dones(q), e, told.ended) /\ stt.socket \in Seq(SocketItems(C))
    BY <1>9 DEF Right, TextsOwned, Providers, q
  <2>. HIDE DEF e, g, m, d
  <2>15. m \in Nat /\ d \in Nat /\ Dones(q) = m + d
    BY <1>5, <2>7 DEF m, d
  <2>16. Owned(stt.finals.segments \union stt.heard, d, g, told.ended)
    BY <2>7, <2>12, <2>14, <2>15, OwnedLater
  <2>17. SocketOwned(stt.socket, d, g, told.ended)
    BY <2>7, <2>12, <2>14, <2>15, SocketLater
  <2>18. left.segments = stt.finals.segments /\ left.pending = stt.finals.pending /\ left.queue = rest
    BY <1>6, <2>6
  <2>19. TextsOwned(stt', g, told.ended, claims)
    BY <1>7, <2>13, <2>16, <2>17, <2>18 DEF TextsOwned, d
  <2>20. MarkersSent(stt')
    BY <1>7, <1>9, <2>18 DEF Right, MarkersSent
  <2>. QED  BY <2>11, <2>19, <2>20 DEF Right, g
<1>10. stt'.finals.pending <= stt.finals.pending
  BY <1>4, <1>6, <1>7
<1>. QED  BY <1>8, <1>9, <1>10

-----------------------------------------------------------------------------
(* No finalize without audio waits for one with it. *)

\* An utterance has audio to come, if its end comes at all: a chunk of it is
\* queued, or its end is not and the agent has a chunk to send before it.
ToCome(cs, a, k) ==
    \/ \E i \in DOMAIN cs : cs[i].cmd = "audio" /\ KeyOf(cs[i]) = k
    \/ /\ \A i \in DOMAIN cs : cs[i] # EndUtterance(k)
       /\ a.utt = k => a.left > 0

\* A command is sent that is not the end of utterance k.
LEMMA ToComeSent ==
    ASSUME NEW cs \in Seq(Commands), NEW c \in Commands, NEW a, NEW b, NEW k, ToCome(cs, a, k),
           c # EndUtterance(k),
           b.utt = k => b.left > 0 \/ (c.cmd = "audio" /\ KeyOf(c) = k)
    PROVE  ToCome(Append(cs, c), b, k)
<1>. DEFINE r == Append(cs, c)
            n == Len(cs) + 1
<1>1. DOMAIN r = DOMAIN cs \union {n} /\ r[n] = c /\ \A i \in DOMAIN cs : r[i] = cs[i]
  BY AppendIs
<1>. HIDE DEF r, n
<1>. QED  BY <1>1 DEF ToCome, r

\* What the agent may do: send a chunk, end its utterance (with the queued swap
\* behind the end), or send something of no utterance.
AgentSends(utt, left, cs, u, l) ==
    \/ /\ utt \in Keys /\ left > 0 /\ cs = Append(cmds, Audio(<<utt, left>>))
       /\ u = utt /\ l = left - 1
    \/ /\ utt \in Keys /\ left = 0
       /\ cs \in {Append(cmds, EndUtterance(utt)), Append(Append(cmds, EndUtterance(utt)), Swap("close"))}
       /\ u = utt + 1 /\ l \in scope.chunk_counts
    \/ /\ cs \in {cmds} \union {Append(cmds, c) : c \in {Swap("idle"), Barrier, Stop}}
       /\ u \in {utt, NoKey} /\ l = left

\* Each step of the agent is one of these.
LEMMA AgentIs ==
    ASSUME Inv, AgentStep
    PROVE  AgentSends(agent.utt, agent.left, cmds', agent'.utt, agent'.left)
<1>. DEFINE utt == agent.utt
            left == agent.left
            Good == AgentSends(utt, left, cmds', agent'.utt, agent'.left)
<1>1. agent \in Agents /\ cmds \in Seq(Commands) /\ utt \in Nat /\ scope \in Scopes
  BY DEF Inv, Typed, Agents
<1>2. CASE SendEnd
  <2>. DEFINE config == IF agent.config = "queued" THEN "sent" ELSE agent.config
              e == EndUtterance(utt)
              w == Swap("close")
  <2>1. PICK n \in scope.chunk_counts :
          /\ utt \in Keys /\ left = 0
          /\ cmds' = cmds \o <<e>> \o (IF agent.config = "queued" THEN <<w>> ELSE <<>>)
          /\ agent' = [agent EXCEPT !.utt = utt + 1, !.left = n, !.in_progress = FALSE, !.config = config]
    BY <1>2 DEF SendEnd
  <2>. HIDE DEF config
  <2>2. agent'.utt = utt + 1 /\ agent'.left = n
    BY <1>1, <2>1 DEF Agents
  <2>. DEFINE c1 == Append(cmds, e)
  <2>3. e \in Commands /\ w \in Commands
    BY <2>1, CommandsAre DEF Parkables
  <2>. HIDE DEF e, w
  <2>4. cmds \o <<e>> = c1 /\ c1 \in Seq(Commands)
    BY <1>1, <2>3, JoinIsAppend
  <2>. HIDE DEF c1
  <2>5. c1 \o <<w>> = Append(c1, w) /\ c1 \o <<>> = c1
    BY <2>3, <2>4, JoinIsAppend
  <2>6. cmds' = c1 \/ cmds' = Append(c1, w)
    BY <2>1, <2>4, <2>5
  <2>. QED  BY <2>1, <2>2, <2>6 DEF AgentSends, c1, e, w
<1>3. CASE CloseNotFound
  <2>1. PICK n \in scope.chunk_counts :
          /\ utt \in Keys /\ left = 0 /\ cmds' = Append(cmds, EndUtterance(utt))
          /\ agent' = [agent EXCEPT !.utt = utt + 1, !.left = n, !.in_progress = FALSE]
    BY <1>3 DEF CloseNotFound
  <2>2. agent'.utt = utt + 1 /\ agent'.left = n
    BY <1>1, <2>1 DEF Agents
  <2>. QED  BY <2>1, <2>2 DEF AgentSends
<1>4. CASE SendAudio
  <2>1. utt \in Keys /\ left > 0 /\ cmds' = Append(cmds, Audio(<<utt, left>>))
        /\ agent' = [agent EXCEPT !.left = @ - 1, !.in_progress = TRUE]
    BY <1>4 DEF SendAudio
  <2>2. agent'.utt = utt /\ agent'.left = left - 1
    BY <1>1, <2>1 DEF Agents
  <2>. QED  BY <2>1, <2>2 DEF AgentSends
<1>5. ASSUME agent'.utt \in {utt, NoKey}, agent'.left = left,
             cmds' = cmds \/ \E c \in {Swap("idle"), Barrier, Stop} : cmds' = Append(cmds, c)
      PROVE  Good
  BY <1>5 DEF AgentSends
<1>6. CASE UpdateConfig
  <2>1. agent'.utt = utt /\ agent'.left = left /\ cmds' = cmds
    BY <1>1, <1>6 DEF UpdateConfig, Agents
  <2>. QED  BY <1>5, <2>1
<1>7. CASE ApplyConfig
  <2>1. agent'.utt = utt /\ agent'.left = left /\ (cmds' = cmds \/ cmds' = Append(cmds, Swap("idle")))
    BY <1>1, <1>7 DEF ApplyConfig, Agents
  <2>. QED  BY <1>5, <2>1
<1>8. CASE SendBarrier
  <2>1. agent'.utt = utt /\ agent'.left = left /\ cmds' = Append(cmds, Barrier)
    BY <1>1, <1>8 DEF SendBarrier, Agents
  <2>. QED  BY <1>5, <2>1
<1>9. CASE SendStop
  <2>1. agent'.utt = NoKey /\ agent'.left = left /\ cmds' = Append(cmds, Stop)
    BY <1>1, <1>9 DEF SendStop, Agents, NoKey
  <2>. QED  BY <1>5, <2>1
<1>. QED  BY <1>2, <1>3, <1>4, <1>6, <1>7, <1>8, <1>9 DEF AgentStep

\* The agent sends what it announced.
LEMMA AgentBrings ==
    ASSUME Inv, AgentStep, NEW k \in Keys, ToCome(cmds, agent, k)
    PROVE  ToCome(cmds', agent', k)
<1>. DEFINE utt == agent.utt
            e == EndUtterance(utt)
            w == Swap("close")
<1>1. cmds \in Seq(Commands) /\ utt \in Nat /\ agent.left \in Nat /\ k \in Nat /\ k # NoKey
      /\ scope.chunk_counts \subseteq Nat \ {0}
  BY KeysAre, ActorAssumption DEF Inv, Typed, Agents
<1>2. \A c \in Parkables \union {Stop} : c \in Commands /\ c # EndUtterance(k)
  <2>1. EndUtterance(k).cmd = "end" /\ Stop.cmd # "end" /\ \A c \in Parkables : c.cmd # "end"
    BY CommandsAre
  <2>. QED  BY <2>1, CommandsAre
<1>3. AgentSends(utt, agent.left, cmds', agent'.utt, agent'.left)
  BY AgentIs
<1>4. ASSUME NEW cs \in Seq(Commands), NEW c \in Commands, NEW b, \E i \in DOMAIN cs : cs[i].cmd = "audio" /\ KeyOf(cs[i]) = k
      PROVE  ToCome(Append(cs, c), b, k) /\ \E i \in DOMAIN Append(cs, c) : Append(cs, c)[i].cmd = "audio" /\ KeyOf(Append(cs, c)[i]) = k
  <2>1. PICK i \in DOMAIN cs : cs[i].cmd = "audio" /\ KeyOf(cs[i]) = k
    BY <1>4
  <2>2. i \in DOMAIN Append(cs, c) /\ Append(cs, c)[i] = cs[i]
    BY AppendIs
  <2>. QED  BY <2>1, <2>2 DEF ToCome
<1>5. CASE utt \in Keys /\ agent.left > 0 /\ cmds' = Append(cmds, Audio(<<utt, agent.left>>)) /\ agent'.utt = utt
  <2>. DEFINE c == Audio(<<utt, agent.left>>)
  <2>1. c \in Commands /\ c.cmd = "audio" /\ KeyOf(c) = utt /\ c # EndUtterance(k)
    BY <1>1, <1>5, CommandsAre
  <2>2. CASE utt = k
    <3>1. DOMAIN Append(cmds, c) = DOMAIN cmds \union {Len(cmds) + 1} /\ Append(cmds, c)[Len(cmds) + 1] = c
      BY <1>1, <2>1, AppendIs
    <3>. HIDE DEF c
    <3>. QED  BY <1>5, <2>1, <2>2, <3>1 DEF ToCome, c
  <2>3. CASE utt # k
    <3>. HIDE DEF c
    <3>1. ToCome(Append(cmds, c), agent', k)
      BY <1>1, <1>5, <2>1, <2>3, ToComeSent
    <3>. QED  BY <1>5, <3>1 DEF c
  <2>. QED  BY <2>2, <2>3
<1>6. CASE /\ utt \in Keys /\ agent.left = 0 /\ cmds' \in {Append(cmds, e), Append(Append(cmds, e), w)}
           /\ agent'.utt = utt + 1 /\ agent'.left \in scope.chunk_counts
  <2>. DEFINE c1 == Append(cmds, e)
              b == agent'
  <2>1. e \in Commands /\ w \in Commands /\ w # EndUtterance(k) /\ (utt # k => e # EndUtterance(k))
    <3>1. KeyOf(e) = utt /\ KeyOf(EndUtterance(k)) = k /\ e \in Commands
      BY <1>6, CommandsAre
    <3>. QED  BY <1>2, <3>1 DEF Parkables
  <2>2. b.left > 0
    BY <1>1, <1>6
  <2>. HIDE DEF e, w, b
  <2>3. c1 \in Seq(Commands)
    BY <1>1, <2>1, AppendIs
  <2>4. ToCome(c1, b, k) /\ ToCome(Append(c1, w), b, k)
    <3>1. CASE utt = k
      <4>1. \E i \in DOMAIN cmds : cmds[i].cmd = "audio" /\ KeyOf(cmds[i]) = k
        BY <1>6, <3>1 DEF ToCome
      <4>2. ToCome(c1, b, k) /\ \E i \in DOMAIN c1 : c1[i].cmd = "audio" /\ KeyOf(c1[i]) = k
        BY <1>1, <1>4, <2>1, <4>1
      <4>. HIDE DEF c1
      <4>3. ToCome(Append(c1, w), b, k)
        BY <1>4, <2>1, <2>3, <4>2
      <4>. QED  BY <4>2, <4>3
    <3>2. CASE utt # k
      <4>1. ToCome(c1, b, k)
        BY <1>1, <2>1, <2>2, <3>2, ToComeSent
      <4>. HIDE DEF c1
      <4>. QED  BY <2>1, <2>2, <2>3, <4>1, ToComeSent
    <3>. QED  BY <3>1, <3>2
  <2>. QED  BY <1>6, <2>4 DEF b, e, w
<1>7. CASE /\ cmds' \in {cmds} \union {Append(cmds, c) : c \in {Swap("idle"), Barrier, Stop}}
           /\ agent'.utt \in {utt, NoKey} /\ agent'.left = agent.left
  <2>1. CASE cmds' = cmds
    BY <1>1, <1>7, <2>1 DEF ToCome
  <2>2. ASSUME NEW c \in {Swap("idle"), Barrier, Stop}, cmds' = Append(cmds, c) PROVE ToCome(cmds', agent', k)
    <3>. DEFINE b == agent'
    <3>1. c \in Commands /\ c # EndUtterance(k)
      BY <1>2 DEF Parkables
    <3>2. CASE \E i \in DOMAIN cmds : cmds[i].cmd = "audio" /\ KeyOf(cmds[i]) = k
      BY <1>1, <1>4, <2>2, <3>1, <3>2
    <3>3. CASE agent.utt = k => agent.left > 0
      <4>1. b.utt = k => b.left > 0
        BY <1>1, <1>7, <3>3
      <4>. HIDE DEF b
      <4>2. ToCome(Append(cmds, c), b, k)
        BY <1>1, <3>1, <4>1, ToComeSent
      <4>. QED  BY <2>2, <4>2 DEF b
    <3>. QED  BY <3>2, <3>3 DEF ToCome
  <2>. QED  BY <1>7, <2>1, <2>2
<1>. QED  BY <1>3, <1>5, <1>6, <1>7 DEF AgentSends

\* A command is read that is not a chunk of utterance k.
LEMMA ToComeRead ==
    ASSUME NEW cs \in Seq(Commands), cs # <<>>, NEW a, NEW k, ToCome(cs, a, k),
           Keyed(Head(cs)) => KeyOf(Head(cs)) # k
    PROVE  ToCome(Tail(cs), a, k)
<1>. DEFINE r == Tail(cs)
            c == Head(cs)
<1>1. /\ c = cs[1]
      /\ \A i \in DOMAIN r : i + 1 \in DOMAIN cs /\ r[i] = cs[i + 1]
      /\ \A i \in DOMAIN cs : i # 1 => i - 1 \in DOMAIN r /\ r[i - 1] = cs[i]
  BY TailIs
<1>. HIDE DEF r, c
<1>2. CASE \E i \in DOMAIN cs : cs[i].cmd = "audio" /\ KeyOf(cs[i]) = k
  <2>1. PICK i \in DOMAIN cs : cs[i].cmd = "audio" /\ KeyOf(cs[i]) = k
    BY <1>2
  <2>2. i # 1
    BY <1>1, <2>1 DEF Keyed, c
  <2>. QED  BY <1>1, <2>1, <2>2 DEF ToCome, r
<1>3. CASE (\A i \in DOMAIN cs : cs[i] # EndUtterance(k)) /\ (a.utt = k => a.left > 0)
  BY <1>1, <1>3 DEF ToCome, r
<1>. QED  BY <1>2, <1>3 DEF ToCome

\* An end that is read has nothing behind it of its own utterance.
LEMMA NothingBehindEnd ==
    ASSUME NEW cs \in Seq(Commands), cs # <<>>, NEW utt, NEW ended, SpokenInOrder(cs, utt, ended),
           Head(cs).cmd = "end", NEW a
    PROVE  ~ToCome(cs, a, KeyOf(Head(cs)))
<1>. DEFINE c == Head(cs)
            k == KeyOf(c)
<1>1. c = cs[1] /\ 1 \in DOMAIN cs /\ c \in Commands /\ \A i \in DOMAIN cs : i \in Int /\ i >= 1
  BY TailIs
<1>2. k \in Nat /\ c = EndUtterance(k) /\ Keyed(c)
  BY <1>1, CommandsAre, KeysAre DEF Keyed
<1>. HIDE DEF c, k
<1>3. ASSUME NEW i \in DOMAIN cs, cs[i].cmd = "audio", KeyOf(cs[i]) = k PROVE FALSE
  <2>1. c.cmd = "end" /\ KeyOf(c) = k
    BY DEF c, k
  <2>2. i # 1 /\ 1 < i
    BY <1>1, <1>3, <2>1
  <2>3. k < k
    BY <1>1, <1>2, <1>3, <2>1, <2>2 DEF SpokenInOrder, Keyed
  <2>. QED  BY <1>2, <2>3
<1>. QED  BY <1>1, <1>2, <1>3 DEF ToCome, c, k

-----------------------------------------------------------------------------
(* What the provider owns through the other steps. *)

\* A fresh stream and one that is stopped or lost are in order.
LEMMA OpenedRight ==
    ASSUME NEW ended, NEW claims
    PROVE  Books(Opened) /\ Right(Opened, <<>>, ended, claims)
<1>1. /\ Opened.alive /\ Opened.finals.queue = <<>> /\ Opened.finals.segments = {} /\ Opened.finals.pending = 0
      /\ Opened.pushed = 0 /\ Opened.boundary = 0 /\ Opened.socket = <<>> /\ Opened.heard = {}
  BY DEF Opened, Finals0
<1>2. DOMAIN <<>> = {}
  OBVIOUS
<1>3. All(<<>>, SocketFinalize) = 0
  BY NoneInEmpty
<1>4. Books(Opened)
  BY <1>1 DEF Books, DeadIsEmpty, Quiet
<1>5. TextsOwned(Opened, <<>>, ended, claims)
  BY <1>1, <1>2 DEF TextsOwned, QueueOwned, Owned, SocketOwned
<1>6. MarkersSent(Opened)
  BY <1>1, <1>3 DEF MarkersSent
<1>. QED  BY <1>4, <1>5, <1>6 DEF Right

\* A stream that is stopped.
LEMMA StoppedBooks ==
    ASSUME NEW C, NEW p \in Providers(C), Books(p), NEW r,
           r = [p EXCEPT !.alive = FALSE, !.finals = Finals0, !.socket = <<>>, !.heard = {}]
    PROVE  Books(r) /\ ~r.alive
<1>1. /\ ~r.alive /\ r.finals = Finals0 /\ r.socket = <<>> /\ r.heard = {}
      /\ r.pushed = p.pushed /\ r.boundary = p.boundary
  BY DEF Providers
<1>2. Finals0.pending = 0 /\ Finals0.segments = {}
  BY DEF Finals0
<1>. QED  BY <1>1, <1>2 DEF Books, DeadIsEmpty, Quiet

\* A stream that is lost.
LEMMA LostBooks ==
    ASSUME NEW C, NEW p \in Providers(C), Books(p), NEW r, r = ConnectionLost(p)
    PROVE  Books(r) /\ ~r.alive
<1>. DEFINE f == p.finals
            l == Lost(f)
<1>1. f \in FinalsOf(C) /\ f.pending \in Nat /\ f.queue \in Seq(Items(C))
  BY DEF Providers, FinalsOf
<1>2. r = [p EXCEPT !.alive = FALSE, !.finals = l, !.socket = <<>>, !.heard = {}]
  BY DEF ConnectionLost
<1>3. l.pending = 0 /\ l.segments = {}
  <2>. DEFINE q == Append(f.queue, Failure)
              g == [f EXCEPT !.queue = q]
  <2>1. g \in FinalsOf(C) /\ g.pending = f.pending /\ g.segments = f.segments
    <3>1. q \in Seq(Items(C))
      BY <1>1, ItemsAre
    <3>. HIDE DEF q
    <3>. QED  BY <1>1, <3>1 DEF FinalsOf
  <2>. HIDE DEF g
  <2>2. CASE f.pending = 0 /\ f.segments = {}
    BY <2>2 DEF Lost
  <2>3. CASE f.pending = 0 /\ f.segments # {}
    <3>1. l = [g EXCEPT !.segments = {}]
      BY <2>3 DEF Lost, g
    <3>. HIDE DEF l
    <3>. QED  BY <2>1, <2>3, <3>1 DEF FinalsOf
  <2>4. CASE f.pending # 0
    <3>1. l = Answer(g, f.pending)
      BY <2>4 DEF Lost, g
    <3>2. Answer(g, f.pending).segments = {} /\ Answer(g, f.pending).pending = g.pending - f.pending
      BY <2>4 DEF Answer
    <3>. QED  BY <1>1, <2>1, <3>1, <3>2
  <2>. QED  BY <2>2, <2>3, <2>4
<1>. HIDE DEF l
<1>4. /\ ~r.alive /\ r.finals = l /\ r.socket = <<>> /\ r.heard = {}
      /\ r.pushed = p.pushed /\ r.boundary = p.boundary
  BY <1>2 DEF Providers
<1>. QED  BY <1>3, <1>4 DEF Books, DeadIsEmpty, Quiet

\* The vendor answers finalizes and requests none.
LEMMA VendorRequestsNone ==
    ASSUME NEW C, NEW p \in Providers(C), NEW r,
           r \in {VendorHears(p), VendorFinalizes(p), VendorSegments(p), VendorInterims(p)}
    PROVE  r.finals.pending <= p.finals.pending
<1>. DEFINE f == p.finals
            h == p.heard
            seg == Segment(f, h)
<1>1. f \in FinalsOf(C) /\ f.pending \in Nat /\ h \in SUBSET C
  BY DEF Providers, FinalsOf
<1>2. seg \in FinalsOf(C) /\ seg.pending = f.pending /\ Interim(f, h).pending = f.pending
  BY <1>1, TextOwesNothing
<1>3. CASE r = VendorHears(p)
  BY <1>1, <1>3, VendorFields
<1>4. CASE r = VendorSegments(p)
  <2>1. r.finals = IF IsLate(p) THEN f ELSE seg
    BY <1>4, VendorFields DEF OnSegment
  <2>. HIDE DEF f, seg
  <2>. QED  BY <1>1, <1>2, <2>1 DEF f
<1>5. CASE r = VendorInterims(p)
  <2>1. r.finals = IF IsLate(p) THEN f ELSE Interim(f, h)
    BY <1>5, VendorFields DEF OnInterim
  <2>. HIDE DEF f, h
  <2>. QED  BY <1>1, <1>2, <2>1 DEF f
<1>6. CASE r = VendorFinalizes(p)
  <2>1. r.finals = IF f.pending = 0 THEN f ELSE Answer(seg, 1)
    BY <1>6, VendorFields DEF OnFinalizeAnswer
  <2>. HIDE DEF f, seg
  <2>2. Answer(seg, 1).pending = seg.pending - 1
    BY DEF Answer
  <2>. QED  BY <1>1, <1>2, <2>1, <2>2 DEF f
<1>. QED  BY <1>3, <1>4, <1>5, <1>6

\* A refused finalize leaves what a dead stream still holds to nobody.
LEMMA RefusedRight ==
    ASSUME NEW p, ~p.alive, Books(p), NEW entries, NEW ended, NEW claims, Right(p, entries, ended, claims), NEW more
    PROVE  Right(p, entries, more, FALSE)
<1>1. p.finals.segments = {} /\ p.socket = <<>> /\ p.heard = {}
  BY DEF Books, DeadIsEmpty
<1>2. DOMAIN <<>> = {}
  OBVIOUS
<1>3. QueueOwned(p.finals.queue, entries, more, FALSE)
  BY DEF Right, TextsOwned, QueueOwned, ItemOwned
<1>4. TextsOwned(p, entries, more, FALSE)
  BY <1>1, <1>2, <1>3 DEF TextsOwned, Owned, SocketOwned
<1>. QED  BY <1>4 DEF Right, MarkersSent

\* Ownership reads nothing but the keys of the entries.
LEMMA KeysOwn ==
    ASSUME NEW C, NEW p \in Providers(C), NEW e, NEW f, Len(e) \in Nat, Len(f) = Len(e),
           \A i \in 1 .. Len(e) : f[i].key = e[i].key,
           NEW ended, NEW claims, Right(p, e, ended, claims)
    PROVE  Right(p, f, ended, claims)
<1>. DEFINE q == p.finals.queue
            s == p.socket
            d == Dones(q)
            T == p.finals.segments \union p.heard
<1>1. q \in Seq(Items(C)) /\ s \in Seq(SocketItems(C))
  BY DEF Providers, FinalsOf
<1>2. d \in Nat
  BY <1>1, DonesIsAll
<1>3. QueueOwned(q, e, ended, claims) /\ Owned(T, d, e, ended) /\ SocketOwned(s, d, e, ended)
  BY DEF Right, TextsOwned
<1>. HIDE DEF q, s, d, T
<1>4. ASSUME NEW b \in Nat, b < Len(e) PROVE f[b + 1].key = e[b + 1].key
  <2>1. b + 1 \in 1 .. Len(e)
    BY <1>4
  <2>. QED  BY <2>1
<1>5. ASSUME NEW x, NEW b \in Nat, ItemOwned(x, b, e, ended, claims) PROVE ItemOwned(x, b, f, ended, claims)
  BY <1>4, <1>5 DEF ItemOwned
<1>6. ASSUME NEW X, NEW b \in Nat, Owned(X, b, e, ended) PROVE Owned(X, b, f, ended)
  BY <1>4, <1>6 DEF Owned
<1>7. QueueOwned(q, f, ended, claims)
  <2>. SUFFICES ASSUME NEW i \in DOMAIN q PROVE ItemOwned(q[i], First(q, FinalizeDone, i - 1), f, ended, claims)
    BY DEF QueueOwned
  <2>. DEFINE n == i - 1
              b == First(q, FinalizeDone, n)
  <2>1. n \in Nat
    BY <1>1
  <2>2. ItemOwned(q[i], b, e, ended, claims)
    BY <1>3 DEF QueueOwned
  <2>. HIDE DEF n
  <2>3. b \in Nat
    BY <2>1, FirstNat
  <2>. HIDE DEF b
  <2>4. ItemOwned(q[i], b, f, ended, claims)
    BY <1>5, <2>2, <2>3
  <2>. QED  BY <2>4 DEF b, n
<1>8. SocketOwned(s, d, f, ended)
  <2>. SUFFICES ASSUME NEW i \in DOMAIN s PROVE Owned(s[i].chunk, d + First(s, SocketFinalize, i - 1), f, ended)
    BY DEF SocketOwned
  <2>. DEFINE n == i - 1
              x == First(s, SocketFinalize, n)
              b == d + x
  <2>1. n \in Nat
    BY <1>1
  <2>2. Owned(s[i].chunk, b, e, ended)
    BY <1>3 DEF SocketOwned
  <2>. HIDE DEF n
  <2>3. x \in Nat
    BY <2>1, FirstNat
  <2>. HIDE DEF x
  <2>4. b \in Nat
    BY <1>2, <2>3
  <2>. HIDE DEF b
  <2>5. Owned(s[i].chunk, b, f, ended)
    BY <1>6, <2>2, <2>4
  <2>. QED  BY <2>5 DEF b, x, n
<1>9. Owned(T, d, f, ended)
  BY <1>2, <1>3, <1>6
<1>. QED  BY <1>7, <1>8, <1>9 DEF Right, TextsOwned, q, s, d, T

-----------------------------------------------------------------------------
(* The invariant of the texts. *)

\* What a dead stream holds behind its entries, once a finalize was refused, is
\* nobody's.
Claimed == stt.alive \/ told.refused = {}
TextsRight == told.gave_up = {} /\ pc # "stopped" => Right(stt, outstanding, told.ended, Claimed)
ReportsRight == told.gave_up = {} => HeardRight(told)

\* Of the utterances whose ends are still to be read, all but the one whose
\* audio is being pushed have audio to come; and that one too, while the vendor
\* owes an answer and has nothing to transcribe.
AllToCome == \A k \in Keys \ told.ended : ToCome(cmds, agent, k)
AudioToCome == \A k \in Keys \ told.ended : Open(told.ended, k) \/ ToCome(cmds, agent, k)
Unasked == stt.alive /\ stt.pushed <= stt.boundary /\ stt.finals.pending > 0 => hand # <<>> \/ AllToCome

Owners == Books(stt) /\ AudioToCome /\ Unasked /\ TextsRight /\ ReportsRight

\* A new actor has no text, and its agent a chunk to send.
LEMMA InitOwners == Init => Owners
<1>. SUFFICES ASSUME Init PROVE Owners
  OBVIOUS
<1>1. scope \in Scopes /\ cmds = <<>> /\ stt = Opened /\ outstanding = <<>> /\ told = Told0
  BY DEF Init
<1>2. PICK n \in scope.chunk_counts :
        agent = [utt |-> 1, left |-> n, in_progress |-> FALSE,
                 config |-> "none", apply_now |-> FALSE, barrier |-> FALSE]
  BY DEF Init
<1>3. n \in Nat /\ n > 0
  BY <1>1, ActorAssumption
<1>4. agent.left > 0 /\ DOMAIN cmds = {}
  BY <1>1, <1>2, <1>3
<1>5. AllToCome /\ AudioToCome /\ Unasked
  BY <1>4 DEF AllToCome, AudioToCome, Unasked, ToCome
<1>6. Books(stt) /\ TextsRight
  BY <1>1, OpenedRight DEF TextsRight
<1>7. told.heard = {}
  BY <1>1 DEF Told0
<1>8. ReportsRight
  BY <1>7 DEF ReportsRight, HeardRight
<1>. QED  BY <1>5, <1>6, <1>8 DEF Owners

\* The agent sends: what is to come stays to come.
LEMMA AgentKeepsOwners == Inv /\ Owners /\ AgentStep => Owners'
<1>. SUFFICES ASSUME Inv, Owners, AgentStep PROVE Owners'
  OBVIOUS
<1>1. AgentOnly
  BY DEF AgentStep, SendAudio, SendEnd, CloseNotFound, UpdateConfig, ApplyConfig, SendBarrier, SendStop
<1>2. /\ pc' = pc /\ hand' = hand /\ stt' = stt /\ outstanding' = outstanding /\ told' = told
  BY <1>1 DEF AgentOnly
<1>3. \A k \in Keys : ToCome(cmds, agent, k) => ToCome(cmds', agent', k)
  BY AgentBrings
<1>4. AudioToCome' /\ (AllToCome => AllToCome')
  BY <1>2, <1>3 DEF Owners, AudioToCome, AllToCome
<1>5. Unasked'
  BY <1>2, <1>4 DEF Owners, Unasked
<1>6. Books(stt)' /\ TextsRight' /\ ReportsRight'
  BY <1>2 DEF Owners, TextsRight, Claimed, ReportsRight
<1>. QED  BY <1>4, <1>5, <1>6 DEF Owners

\* The vendor hears, transcribes, answers or is lost.
LEMMA VendorKeepsOwners == Inv /\ Owners /\ VendorStep => Owners'
<1>. SUFFICES ASSUME Inv, Owners, VendorStep PROVE Owners'
  OBVIOUS
<1>. DEFINE C == Under(gen)
            p == stt
            r == stt'
            e == outstanding
<1>1. p \in Providers(C) /\ e \in Seq(Entries(gen)) /\ Len(e) \in Nat /\ p.finals.pending \in Nat /\ p.alive
  BY DEF Inv, Typed, Providers, FinalsOf, VendorStep, VendorTakesNext, VendorSpeaks, Lose
<1>2. VendorOnly
  BY DEF VendorStep, VendorTakesNext, VendorSpeaks, Lose
<1>3. /\ agent' = agent /\ cmds' = cmds /\ pc' = pc /\ hand' = hand
      /\ outstanding' = outstanding /\ told' = told
  BY <1>2 DEF VendorOnly
<1>4. AudioToCome' /\ ReportsRight' /\ (AllToCome => AllToCome')
  BY <1>3 DEF Owners, AudioToCome, AllToCome, ReportsRight
<1>5. told.gave_up = {} /\ pc # "stopped" => Owed(p.finals) = Len(e) /\ Right(p, e, told.ended, TRUE)
  BY <1>1 DEF Inv, Aligned, Owners, TextsRight, Claimed
<1>6. Books(p)
  BY DEF Owners
<1>7. CASE Lose
  <2>1. r = ConnectionLost(p)
    BY <1>7 DEF Lose
  <2>. HIDE DEF p, r
  <2>2. Books(r) /\ ~r.alive
    BY <1>1, <1>6, <2>1, LostBooks
  <2>. DEFINE ended == told.ended
              claimed == Claimed'
  <2>. HIDE DEF ended, claimed, e
  <2>3. ASSUME Owed(p.finals) = Len(e), Right(p, e, ended, TRUE) PROVE Right(r, e, ended, claimed)
    BY <1>1, <2>1, <2>3, LostOwns DEF Right
  <2>4. TextsRight'
    BY <1>3, <1>5, <2>3 DEF TextsRight, r, e, ended, claimed
  <2>5. Unasked'
    BY <2>2 DEF Unasked, r
  <2>. QED  BY <1>4, <2>2, <2>4, <2>5 DEF Owners, r
<1>8. CASE VendorTakesNext \/ VendorSpeaks
  <2>1. \/ r \in {VendorSegments(p), VendorInterims(p)}
        \/ p.socket # <<>> /\ Head(p.socket).kind = "audio" /\ r = VendorHears(p)
        \/ p.socket # <<>> /\ Head(p.socket).kind # "audio" /\ r = VendorFinalizes(p)
    BY <1>8 DEF VendorTakesNext, VendorSpeaks
  <2>. DEFINE ended == told.ended
  <2>. HIDE DEF p, r, e, ended
  <2>2. r.alive = p.alive /\ r.pushed = p.pushed /\ r.boundary = p.boundary
    BY <1>1, <2>1, VendorFields
  <2>3. r.finals.pending <= p.finals.pending
    BY <1>1, <2>1, VendorRequestsNone
  <2>4. Books(r)
    BY <1>1, <1>6, <2>1, VendorBooks
  <2>5. ASSUME Owed(p.finals) = Len(e), Right(p, e, ended, TRUE) PROVE Right(r, e, ended, TRUE)
    BY <1>1, <2>1, <2>5, VendorOwns
  <2>6. r.alive
    BY <1>1, <2>2
  <2>7. TextsRight'
    BY <1>3, <1>5, <2>5, <2>6 DEF TextsRight, Claimed, p, r, e, ended
  <2>8. stt'.finals.pending \in Nat
    <3>1. Inv'
      BY VendorKeepsInv
    <3>. QED  BY <3>1 DEF Inv, Typed, Providers, FinalsOf
  <2>9. r.finals.pending > 0 => p.finals.pending > 0
    BY <1>1, <2>3, <2>8 DEF r
  <2>10. Unasked'
    <3>1. Unasked
      BY DEF Owners
    <3>. QED  BY <1>3, <1>4, <2>2, <2>9, <3>1 DEF Unasked, p, r
  <2>. QED  BY <1>4, <2>4, <2>7, <2>10 DEF Owners, r
<1>. QED  BY <1>7, <1>8 DEF VendorStep

\* A command is read: the utterances it is not of keep what is to come.
LEMMA ReadLeavesToCome ==
    ASSUME Inv, NEW name, Reads(name), agent' = agent,
           NEW k, ToCome(cmds, agent, k), Keyed(Head(cmds)) => KeyOf(Head(cmds)) # k
    PROVE  ToCome(cmds', agent', k)
<1>1. cmds \in Seq(Commands) /\ cmds # <<>> /\ cmds' = Tail(cmds)
  BY DEF Inv, Typed, Reads
<1>2. ToCome(Tail(cmds), agent, k)
  BY <1>1, ToComeRead
<1>. QED  BY <1>1, <1>2

\* A command is read. With its end, an utterance gets the entry that what was pushed
\* for it waits for, or none.
LEMMA ReadKeepsOwners == Inv /\ Owners /\ ReadCommand => Owners'
<1>. SUFFICES ASSUME Inv, Owners, ReadCommand PROVE Owners'
  OBVIOUS
<1>. DEFINE c == Head(cmds)
            C == Under(gen)
<1>1. /\ agent' = agent /\ gen' = gen /\ pc = "select"
  BY DEF ReadCommand, OnAudio, OnEnd, OnParkable, OnStop, Reads
<1>2. hand = <<>>
  BY <1>1 DEF Inv, HandInTurn, InHand
<1>3. Books(stt) /\ AudioToCome /\ Unasked /\ TextsRight /\ ReportsRight
  BY DEF Owners
<1>4. stt \in Providers(C) /\ outstanding \in Seq(Entries(gen)) /\ told \in ToldOf /\ gen \in Nat
      /\ cmds \in Seq(Commands)
  BY DEF Inv, Typed
<1>5. ASSUME NEW name, Reads(name), ~Keyed(c), told' = told
      PROVE  AudioToCome' /\ (AllToCome => AllToCome')
  <2>1. \A k : ToCome(cmds, agent, k) => ToCome(cmds', agent', k)
    BY <1>1, <1>5, ReadLeavesToCome
  <2>. QED  BY <1>3, <1>5, <2>1 DEF AudioToCome, AllToCome
<1>6. ASSUME NEW name, Reads(name), Keyed(c), Open(told.ended, KeyOf(c)), NEW k \in Keys \ told.ended, k # KeyOf(c)
      PROVE  ToCome(cmds', agent', k)
  <2>1. ~Open(told.ended, k)
    <3>. DEFINE x == KeyOf(c)
                ended == told.ended
    <3>. HIDE DEF x, ended
    <3>1. Open(ended, x) /\ k # x
      BY <1>6 DEF x, ended
    <3>2. ~Open(ended, k)
      BY <3>1, OpenIsOne
    <3>. QED  BY <3>2 DEF ended
  <2>2. ToCome(cmds, agent, k)
    BY <1>3, <1>6, <2>1 DEF AudioToCome
  <2>. QED  BY <1>1, <1>6, <2>2, ReadLeavesToCome
<1>7. CASE OnAudio
  <2>1. Reads("audio") /\ hand' = c.arg /\ pc' = (IF MayReopen THEN "reopen" ELSE "push")
        /\ stt' = stt /\ outstanding' = outstanding /\ told' = told
    BY <1>7 DEF OnAudio
  <2>2. c \in Commands /\ c.cmd = "audio" /\ Open(told.ended, KeyOf(c)) /\ Keyed(c)
    BY <2>1, ReadIs DEF Keyed
  <2>3. AudioToCome'
    BY <1>6, <2>1, <2>2 DEF AudioToCome
  <2>4. hand' # <<>>
    <3>1. c.arg \in Keys \X Nat
      BY <2>2, CommandsAre
    <3>2. c.arg # <<>>
      BY <3>1
    <3>. HIDE DEF c
    <3>. QED  BY <2>1, <3>2
  <2>5. Unasked'
    BY <2>4 DEF Unasked
  <2>6. Books(stt)' /\ TextsRight' /\ ReportsRight'
    BY <1>1, <1>3, <2>1 DEF TextsRight, Claimed, ReportsRight
  <2>. QED  BY <2>3, <2>5, <2>6 DEF Owners
<1>8. CASE OnEnd
  <2>. DEFINE k == KeyOf(c)
              ended == told.ended
              more == ended \union {k}
              t == [told EXCEPT !.ended = @ \union {k}]
              r == [Close(t, k) EXCEPT !.refused = @ \union {k}]
              y == Entry(k)
              e == outstanding
  <2>1. /\ Reads("end") /\ hand' = hand
        /\ \/ /\ stt.alive /\ stt' = RequestFinalize(stt) /\ outstanding' = Append(e, y) /\ told' = t /\ pc' = "drain"
           \/ /\ ~stt.alive /\ told' = r /\ pc' = "parked" /\ stt' = stt /\ outstanding' = e
    BY <1>8 DEF OnEnd, KeyOf, CanFinalize
  <2>2. c \in Commands /\ c.cmd = "end" /\ Open(ended, k) /\ Keyed(c)
    BY <2>1, ReadIs DEF Keyed
  <2>3. k \in Keys /\ k \notin ended
    BY <2>2 DEF Open
  <2>4. /\ t \in ToldOf /\ t.ended = more /\ t.heard = told.heard /\ t.refused = told.refused /\ t.gave_up = told.gave_up
        /\ r.ended = more /\ r.heard = told.heard /\ k \in r.refused /\ r.gave_up = told.gave_up
    <3>. HIDE DEF k
    <3>1. /\ t \in ToldOf /\ t.ended = more /\ t.heard = told.heard /\ t.refused = told.refused
          /\ t.gave_up = told.gave_up
      BY <1>4, <2>3 DEF ToldOf
    <3>. HIDE DEF t
    <3>2. Close(t, k) = [t EXCEPT !.closed = Append(t.closed, k)]
      BY DEF Close
    <3>. DEFINE u == Close(t, k)
    <3>3. /\ u.ended = t.ended /\ u.heard = t.heard /\ u.gave_up = t.gave_up /\ u.refused = t.refused
          /\ DOMAIN u = DOMAIN t
      BY <3>1, <3>2 DEF ToldOf
    <3>4. "refused" \in DOMAIN u /\ "ended" \in DOMAIN u /\ "heard" \in DOMAIN u /\ "gave_up" \in DOMAIN u
      BY <3>1, <3>3 DEF ToldOf
    <3>. HIDE DEF u
    <3>5. r = [u EXCEPT !.refused = u.refused \union {k}]
      BY DEF u
    <3>6. /\ r.ended = u.ended /\ r.heard = u.heard /\ r.gave_up = u.gave_up /\ k \in r.refused
      BY <3>4, <3>5
    <3>. QED  BY <3>1, <3>3, <3>6
  <2>5. told'.ended = more /\ told'.heard = told.heard /\ told'.gave_up = told.gave_up
    BY <2>1, <2>4
  <2>6. AllToCome' /\ AudioToCome' /\ Unasked'
    <3>1. \A x \in Keys \ more : ToCome(cmds', agent', x)
      BY <1>6, <2>1, <2>2
    <3>2. \A x \in Keys \ told'.ended : ToCome(cmds', agent', x)
      BY <2>5, <3>1
    <3>. QED  BY <3>2 DEF AllToCome, AudioToCome, Unasked
  <2>7. ~ToCome(cmds, agent, k)
    <3>1. cmds # <<>> /\ SpokenInOrder(cmds, agent.utt, ended)
      BY <2>1 DEF Reads, Inv
    <3>. DEFINE utt == agent.utt
    <3>2. SpokenInOrder(cmds, utt, ended)
      BY <3>1
    <3>. HIDE DEF utt, ended
    <3>. QED  BY <1>4, <2>2, <3>1, <3>2, NothingBehindEnd
  <2>8. stt.alive /\ stt.pushed <= stt.boundary => stt.finals.pending = 0
    <3>1. ~AllToCome
      BY <2>3, <2>7 DEF AllToCome
    <3>2. stt.finals.pending \in Nat
      BY <1>4 DEF Providers, FinalsOf
    <3>. QED  BY <1>2, <1>3, <3>1, <3>2 DEF Unasked
  <2>9. CASE stt.alive /\ stt' = RequestFinalize(stt) /\ outstanding' = Append(e, y) /\ told' = t /\ pc' = "drain"
    <3>. DEFINE p == stt
                q == stt'
                S == Entries(gen)
    <3>1. y \in S /\ y.key = k
      BY <1>4, <2>3 DEF Entry, Entries
    <3>2. p \in Providers(C) /\ p.alive /\ Books(p) /\ e \in Seq(S) /\ q = RequestFinalize(p)
          /\ (p.pushed <= p.boundary => p.finals.pending = 0)
      BY <1>3, <1>4, <2>8, <2>9
    <3>. HIDE DEF p, q, S, e, y, ended, k
    <3>3. Open(ended, y.key)
      BY <2>2, <3>1 DEF k
    <3>4. /\ Books(q) /\ q.alive
          /\ Right(p, e, ended, TRUE) /\ Owed(p.finals) = Len(e) => Right(q, Append(e, y), ended \union {y.key}, TRUE)
      BY <3>1, <3>2, <3>3, RequestOwns
    <3>5. told.gave_up = {} => Right(p, e, ended, TRUE) /\ Owed(p.finals) = Len(e)
      BY <1>1, <1>3, <2>9 DEF TextsRight, Claimed, Inv, Aligned, p, e, ended
    <3>6. TextsRight'
      BY <2>5, <2>9, <3>1, <3>4, <3>5 DEF TextsRight, Claimed, q
    <3>7. ReportsRight'
      BY <1>3, <2>4, <2>9 DEF ReportsRight, HeardRight
    <3>. QED  BY <2>6, <3>4, <3>6, <3>7 DEF Owners, q
  <2>10. CASE ~stt.alive /\ told' = r /\ pc' = "parked" /\ stt' = stt /\ outstanding' = e
    <3>1. told.gave_up = {} => Right(stt, e, more, FALSE)
      <4>. DEFINE p == stt
                  claimed == Claimed
      <4>1. told.gave_up = {} => Right(p, e, ended, claimed)
        BY <1>1, <1>3 DEF TextsRight
      <4>2. ~p.alive /\ Books(p)
        BY <1>3, <2>10
      <4>. HIDE DEF p, claimed, e, ended, more
      <4>3. told.gave_up = {} => Right(p, e, more, FALSE)
        BY <4>1, <4>2, RefusedRight
      <4>. QED  BY <4>3 DEF p
    <3>2. told'.refused # {}
      BY <2>4, <2>10
    <3>3. Claimed' = FALSE
      BY <2>10, <3>2 DEF Claimed
    <3>. HIDE DEF more, r, t
    <3>4. TextsRight'
      BY <2>5, <2>10, <3>1, <3>3 DEF TextsRight
    <3>5. ReportsRight'
      BY <1>3, <2>5, <3>2 DEF ReportsRight, HeardRight
    <3>. QED  BY <1>3, <2>6, <2>10, <3>4, <3>5 DEF Owners
  <2>. QED  BY <2>1, <2>9, <2>10
<1>9. CASE OnParkable
  <2>1. PICK name \in {"swap", "barrier"} :
          /\ Reads(name) /\ hand' = hand
          /\ stt' = stt /\ outstanding' = outstanding /\ told' = told /\ pc' = "parked"
    BY <1>9 DEF OnParkable
  <2>2. ~Keyed(c)
    BY <2>1 DEF Reads, Keyed
  <2>3. AudioToCome' /\ (AllToCome => AllToCome')
    BY <1>5, <2>1, <2>2
  <2>4. Unasked'
    BY <1>3, <2>1, <2>3 DEF Unasked
  <2>5. Books(stt)' /\ TextsRight' /\ ReportsRight'
    BY <1>1, <1>3, <2>1 DEF TextsRight, Claimed, ReportsRight
  <2>. QED  BY <2>3, <2>4, <2>5 DEF Owners
<1>10. CASE OnStop
  <2>1. Reads("stop") /\ pc' = "stopped" /\ told' = told
        /\ stt' = [stt EXCEPT !.alive = FALSE, !.finals = Finals0, !.socket = <<>>, !.heard = {}]
    BY <1>10 DEF OnStop
  <2>2. ~Keyed(c)
    BY <2>1 DEF Reads, Keyed
  <2>3. AudioToCome'
    BY <1>5, <2>1, <2>2
  <2>4. Books(stt') /\ ~stt'.alive
    <3>. DEFINE p == stt
                q == stt'
    <3>1. p \in Providers(C) /\ Books(p)
          /\ q = [p EXCEPT !.alive = FALSE, !.finals = Finals0, !.socket = <<>>, !.heard = {}]
      BY <1>3, <1>4, <2>1
    <3>. HIDE DEF p, q
    <3>2. Books(q) /\ ~q.alive
      BY <3>1, StoppedBooks
    <3>. QED  BY <3>2 DEF q
  <2>5. Unasked' /\ TextsRight' /\ ReportsRight'
    BY <1>3, <2>1, <2>4 DEF Unasked, TextsRight, ReportsRight
  <2>. QED  BY <2>3, <2>4, <2>5 DEF Owners
<1>. QED  BY <1>7, <1>8, <1>9, <1>10 DEF ReadCommand

\* A drain reports rightly.
LEMMA DrainKeepsOwners ==
    ASSUME Inv, Owners, DrainOutputs, agent' = agent, cmds' = cmds, hand' = hand, gen' = gen,
           pc # "stopped"
    PROVE  Owners'
<1>1. Books(stt) /\ AudioToCome /\ Unasked /\ TextsRight /\ ReportsRight
  BY DEF Owners
<1>2. gen \in Nat /\ stt \in Providers(Under(gen)) /\ InStep(stt) /\ outstanding \in Seq(Entries(gen))
      /\ told \in ToldOf /\ Ledger(outstanding, told)
  BY DEF Inv, Typed
<1>3. Drain_(stt', outstanding', told')
  BY <1>2, DrainIs
<1>4. /\ told'.ended = told.ended /\ told'.refused = told.refused /\ told.gave_up \subseteq told'.gave_up
      /\ stt'.alive = stt.alive /\ stt'.pushed = stt.pushed /\ stt'.boundary = stt.boundary
      /\ stt'.finals.pending \in Nat /\ stt.finals.pending \in Nat
  BY <1>2, <1>3 DEF Drain_, Providers, FinalsOf
<1>5. Claimed' = Claimed
  BY <1>4 DEF Claimed
<1>6. /\ Books(stt) => Books(stt')
      /\ stt'.finals.pending <= stt.finals.pending
      /\ /\ told'.gave_up = {} /\ Len(outstanding) = Owed(stt.finals)
         /\ Right(stt, outstanding, told.ended, Claimed) /\ HeardRight(told)
         => Right(stt', outstanding', told.ended, Claimed) /\ HeardRight(told')
  <2>. DEFINE claims == Claimed
  <2>1. told.refused = {} => claims
    BY DEF Claimed
  <2>. HIDE DEF claims
  <2>2. /\ Books(stt) => Books(stt')
        /\ stt'.finals.pending <= stt.finals.pending
        /\ /\ told'.gave_up = {} /\ Len(outstanding) = Owed(stt.finals)
           /\ Right(stt, outstanding, told.ended, claims) /\ HeardRight(told)
           => Right(stt', outstanding', told.ended, claims) /\ HeardRight(told')
    BY <1>2, <2>1, DrainRight
  <2>. QED  BY <2>2 DEF claims
<1>7. AudioToCome' /\ (AllToCome => AllToCome')
  BY <1>1, <1>4 DEF AudioToCome, AllToCome, ToCome
<1>8. Unasked'
  BY <1>1, <1>4, <1>6, <1>7 DEF Unasked
<1>9. ASSUME told'.gave_up = {}
      PROVE  Right(stt', outstanding', told.ended, Claimed) /\ HeardRight(told')
  <2>1. told.gave_up = {}
    BY <1>4, <1>9
  <2>2. Len(outstanding) = Owed(stt.finals) /\ Right(stt, outstanding, told.ended, Claimed) /\ HeardRight(told)
    BY <1>1, <2>1 DEF Inv, Aligned, TextsRight, ReportsRight
  <2>. QED  BY <1>6, <1>9, <2>2
<1>10. TextsRight' /\ ReportsRight'
  BY <1>4, <1>5, <1>9 DEF TextsRight, ReportsRight
<1>. QED  BY <1>1, <1>6, <1>7, <1>8, <1>10 DEF Owners

\* The chunk in hand is pushed, perhaps to a reopened stream.
LEMMA HandKeepsOwners == Inv /\ Owners /\ (ReopenStart \/ Push) => Owners'
<1>. SUFFICES ASSUME Inv, Owners, ReopenStart \/ Push PROVE Owners'
  OBVIOUS
<1>1. Books(stt) /\ AudioToCome /\ Unasked /\ TextsRight /\ ReportsRight
  BY DEF Owners
<1>2. gen \in Nat /\ stt \in Providers(Under(gen)) /\ outstanding \in Seq(Entries(gen)) /\ Len(outstanding) \in Nat
  BY DEF Inv, Typed
<1>3. /\ agent' = agent /\ cmds' = cmds /\ outstanding' = outstanding /\ gen' = gen /\ told' = told
      /\ pc # "stopped"
  BY DEF ReopenStart, Push
<1>4. AudioToCome' /\ ReportsRight'
  BY <1>1, <1>3 DEF AudioToCome, ToCome, ReportsRight
<1>5. CASE ReopenStart
  <2>1. pc = "start" /\ hand' = hand /\ (stt' = Opened \/ stt' = stt)
    BY <1>5 DEF ReopenStart
  <2>2. hand # <<>> /\ outstanding = <<>>
    BY <2>1 DEF Inv, HandInTurn, InHand, ReopenedIdle
  <2>3. Unasked'
    BY <2>1, <2>2 DEF Unasked
  <2>4. Books(stt') /\ TextsRight'
    <3>1. CASE stt' = Opened
      BY <1>3, <2>2, <3>1, OpenedRight DEF TextsRight
    <3>2. CASE stt' = stt
      BY <1>1, <1>3, <3>2 DEF TextsRight, Claimed
    <3>. QED  BY <2>1, <3>1, <3>2
  <2>. QED  BY <1>4, <2>3, <2>4 DEF Owners
<1>6. CASE Push
  <2>. DEFINE c == <<hand[1], hand[2], gen>>
              C == Under(gen)
              p == stt
              r == stt'
              e == outstanding
              ended == told.ended
              claims == Claimed
  <2>1. pc = "push" /\ hand' = <<>> /\ r = PushAudio(p, c)
    BY <1>6 DEF Push
  <2>2. hand \in Keys \X Nat /\ Open(told.ended, hand[1])
    BY <2>1 DEF Inv, HandInTurn, InHand
  <2>3. c \in C /\ c[1] = hand[1]
    BY <1>2, <2>2 DEF Under
  <2>4. r.alive = p.alive
    BY <1>2, <2>1 DEF PushAudio, Providers
  <2>5. p \in Providers(C) /\ Len(e) \in Nat /\ Open(ended, c[1]) /\ Books(p)
    BY <1>1, <1>2, <2>2, <2>3
  <2>. HIDE DEF c, C, p, r, e, ended, claims
  <2>6. /\ Books(r)
        /\ Right(p, e, ended, claims) /\ Owed(p.finals) = Len(e) => Right(r, e, ended, claims)
        /\ p.alive => r.pushed > r.boundary
    BY <2>1, <2>3, <2>5, PushOwns
  <2>7. stt' \in Providers(Under(gen'))
    <3>1. Inv'
      BY HandKeepsInv
    <3>. QED  BY <3>1 DEF Inv, Typed
  <2>8. Unasked'
    <3>1. stt'.pushed \in Nat /\ stt'.boundary \in Nat
      BY <2>7 DEF Providers
    <3>. QED  BY <2>4, <2>6, <3>1 DEF Unasked, p, r
  <2>9. told.gave_up = {} => Right(p, e, ended, claims) /\ Owed(p.finals) = Len(e)
    BY <1>1, <1>3 DEF TextsRight, Inv, Aligned, p, e, ended, claims
  <2>10. Claimed' = claims
    BY <1>3, <2>4 DEF Claimed, p, r, claims
  <2>11. TextsRight'
    BY <1>3, <2>6, <2>9, <2>10 DEF TextsRight, p, r, e, ended
  <2>. QED  BY <1>4, <2>6, <2>8, <2>11 DEF Owners, r
<1>. QED  BY <1>5, <1>6

\* A parked command runs.
LEMMA ParkedKeepsOwners == Inv /\ Owners /\ RunParked => Owners'
<1>. SUFFICES ASSUME Inv, Owners, RunParked PROVE Owners'
  OBVIOUS
<1>1. Books(stt) /\ AudioToCome /\ Unasked /\ TextsRight /\ ReportsRight
  BY DEF Owners
<1>2. told \in ToldOf
  BY DEF Inv, Typed
<1>3. /\ agent' = agent /\ cmds' = cmds /\ hand' = hand /\ pc = "parked"
      /\ \/ stt' = stt /\ outstanding' = outstanding
         \/ stt' = Opened /\ outstanding' = <<>>
      /\ told' = told \/ told' = Reached(parked)
  BY DEF RunParked, Survivors
<1>4. /\ told'.ended = told.ended /\ told'.heard = told.heard /\ told'.refused = told.refused
      /\ told'.gave_up = told.gave_up
  <2>. DEFINE r == Reached(parked)
  <2>1. r.ended = told.ended /\ r.heard = told.heard /\ r.refused = told.refused /\ r.gave_up = told.gave_up
    BY <1>2 DEF Reached, ToldOf
  <2>. QED  BY <1>3, <2>1
<1>5. AudioToCome' /\ ReportsRight' /\ (AllToCome => AllToCome')
  BY <1>1, <1>3, <1>4 DEF AudioToCome, AllToCome, ToCome, ReportsRight, HeardRight
<1>6. CASE stt' = stt /\ outstanding' = outstanding
  <2>1. Unasked' /\ TextsRight'
    BY <1>1, <1>3, <1>4, <1>5, <1>6 DEF Unasked, TextsRight, Claimed
  <2>. QED  BY <1>1, <1>5, <1>6, <2>1 DEF Owners
<1>7. CASE stt' = Opened /\ outstanding' = <<>>
  <2>1. Books(stt') /\ TextsRight'
    BY <1>7, OpenedRight DEF TextsRight
  <2>2. Unasked'
    <3>1. Opened.finals.pending = 0
      BY DEF Opened, Finals0
    <3>. QED  BY <1>7, <3>1 DEF Unasked
  <2>. QED  BY <1>5, <2>1, <2>2 DEF Owners
<1>. QED  BY <1>3, <1>6, <1>7

\* A deadline takes no entry away, and whoever gives one up claims nothing.
LEMMA DeadlineKeepsOwners == Inv /\ Owners /\ (ExpireDeadlines \/ ForgetFront) => Owners'
<1>. SUFFICES ASSUME Inv, Owners, ExpireDeadlines \/ ForgetFront PROVE Owners'
  OBVIOUS
<1>1. Books(stt) /\ AudioToCome /\ Unasked /\ TextsRight /\ ReportsRight
  BY DEF Owners
<1>2. told \in ToldOf /\ stt \in Providers(Under(gen)) /\ outstanding \in Seq(Entries(gen)) /\ Len(outstanding) \in Nat
  BY DEF Inv, Typed
<1>3. agent' = agent /\ cmds' = cmds /\ hand' = hand /\ stt' = stt /\ pc = "select"
  BY DEF ExpireDeadlines, ForgetFront
<1>4. CASE ExpireDeadlines
  <2>1. PICK i \in Waiting :
          /\ outstanding' = [outstanding EXCEPT ![i].timed_out = TRUE]
          /\ told' = [Close(told, outstanding[i].key)
                        EXCEPT !.timed_out = @ \union {outstanding[i].key}]
    BY <1>4 DEF ExpireDeadlines
  <2>. DEFINE k == outstanding[i].key
              t == LateClose(told, k)
              f == LateEntry(outstanding, i)
  <2>2. told' = t /\ outstanding' = f
    BY <2>1 DEF LateClose, LateEntry
  <2>3. t.ended = told.ended /\ t.heard = told.heard /\ t.refused = told.refused /\ t.gave_up = told.gave_up
    <3>. HIDE DEF k
    <3>. QED  BY <1>2 DEF LateClose, Close, ToldOf
  <2>. HIDE DEF t
  <2>4. Len(f) = Len(outstanding) /\ \A j \in 1 .. Len(outstanding) : f[j].key = outstanding[j].key
    <3>1. \A j \in 1 .. Len(outstanding) : outstanding[j] \in Entries(gen)
      BY <1>2
    <3>2. \A j \in 1 .. Len(outstanding) : f[j] = IF j = i THEN [outstanding[i] EXCEPT !.timed_out = TRUE] ELSE outstanding[j]
      BY <1>2 DEF LateEntry
    <3>3. Len(f) = Len(outstanding)
      BY <1>2 DEF LateEntry
    <3>. HIDE DEF f
    <3>. QED  BY <3>1, <3>2, <3>3 DEF Entries
  <2>. HIDE DEF f
  <2>5. AudioToCome' /\ ReportsRight' /\ (AllToCome => AllToCome')
    BY <1>1, <1>3, <2>2, <2>3 DEF AudioToCome, AllToCome, ToCome, ReportsRight, HeardRight
  <2>6. Unasked'
    BY <1>1, <1>3, <2>5 DEF Unasked
  <2>7. told.gave_up = {} => Right(stt, f, told.ended, Claimed)
    <3>. DEFINE e == outstanding
                p == stt
                claims == Claimed
                ended == told.ended
                C == Under(gen)
    <3>1. told.gave_up = {} => Right(p, e, ended, claims)
      BY <1>1, <1>3 DEF TextsRight
    <3>2. p \in Providers(C) /\ Len(e) \in Nat /\ Len(f) = Len(e) /\ \A j \in 1 .. Len(e) : f[j].key = e[j].key
      BY <1>2, <2>4
    <3>. HIDE DEF e, p, claims, ended, C
    <3>3. told.gave_up = {} => Right(p, f, ended, claims)
      BY <3>1, <3>2, KeysOwn
    <3>. QED  BY <3>3 DEF p, ended, claims
  <2>8. Claimed' = Claimed
    BY <1>3, <2>2, <2>3 DEF Claimed
  <2>9. TextsRight'
    BY <1>3, <2>2, <2>3, <2>7, <2>8 DEF TextsRight
  <2>. QED  BY <1>1, <1>3, <2>5, <2>6, <2>9 DEF Owners
<1>5. CASE ForgetFront
  <2>. DEFINE gives == told.gave_up \union {"actor"}
  <2>1. told' = [told EXCEPT !.gave_up = gives]
    BY <1>5 DEF ForgetFront
  <2>2. told'.gave_up # {} /\ told'.ended = told.ended
    BY <1>2, <2>1 DEF ToldOf
  <2>3. AudioToCome' /\ (AllToCome => AllToCome')
    BY <1>1, <1>3, <2>2 DEF AudioToCome, AllToCome, ToCome
  <2>4. Unasked' /\ TextsRight' /\ ReportsRight'
    BY <1>1, <1>3, <2>2, <2>3 DEF Unasked, TextsRight, ReportsRight
  <2>. QED  BY <1>1, <1>3, <2>3, <2>4 DEF Owners
<1>. QED  BY <1>4, <1>5

\* Every step keeps the owners.
LEMMA NextOwners == Inv /\ Owners /\ [Next]_vars => Owners'
<1>. SUFFICES ASSUME Inv, Owners, [Next]_vars PROVE Owners'
  OBVIOUS
<1>1. CASE AgentStep
  BY <1>1, AgentKeepsOwners
<1>2. CASE VendorStep
  BY <1>2, VendorKeepsOwners
<1>3. CASE ReadCommand
  BY <1>3, ReadKeepsOwners
<1>4. CASE ReopenStart \/ Push
  BY <1>4, HandKeepsOwners
<1>5. CASE RunParked
  BY <1>5, ParkedKeepsOwners
<1>6. CASE ExpireDeadlines \/ ForgetFront
  BY <1>6, DeadlineKeepsOwners
<1>7. CASE ReopenDrain
  BY <1>7, DrainKeepsOwners DEF ReopenDrain
<1>8. CASE Drain
  BY <1>8, DrainKeepsOwners DEF Drain
<1>9. CASE Poll
  BY <1>9, DrainKeepsOwners DEF Poll
<1>10. CASE BackoffPasses \/ UNCHANGED vars
  <2>1. /\ agent' = agent /\ cmds' = cmds /\ pc' = pc /\ hand' = hand /\ stt' = stt
        /\ outstanding' = outstanding /\ told' = told
    BY <1>10 DEF BackoffPasses, vars
  <2>2. AudioToCome' /\ Unasked' /\ TextsRight' /\ ReportsRight'
    BY <2>1 DEF Owners, AudioToCome, AllToCome, ToCome, Unasked, TextsRight, Claimed, ReportsRight
  <2>. QED  BY <2>1, <2>2 DEF Owners
<1>. QED  BY <1>1, <1>2, <1>3, <1>4, <1>5, <1>6, <1>7, <1>8, <1>9, <1>10 DEF Next, ActorStep

\* They are right in every state.
LEMMA OwnersHold == Spec => []Owners
<1>1. Init => Inv /\ Owners
  BY InitInv, InitOwners
<1>2. Inv /\ Owners /\ [Next]_vars => (Inv /\ Owners)'
  BY NextInv, NextOwners
<1>. QED  BY <1>1, <1>2, PTL DEF Spec

-----------------------------------------------------------------------------
(* Queued configurations. *)

\* The Swap of a queued config comes right behind an end.
FollowsEnd(cs) == \A i \in DOMAIN cs : i # 1 /\ cs[i] = Swap("close") => cs[i - 1].cmd = "end"
\* No audio since the last finalize.
Finished(p) == ~(p.alive /\ p.pushed > p.boundary)
IsFirst(c, cs) == cs # <<>> /\ cs[1] = c
SwapIsNext == IsFirst(Swap("close"), cmds) \/ parked = Swap("close")
Swaps == FollowsEnd(cmds) /\ (SwapIsNext => hand = <<>> /\ Finished(stt)) /\ QueuedSwapWaits

\* One more command, that is no Swap of a queued config or comes behind an end.
LEMMA FollowsNext ==
    ASSUME NEW cs \in Seq(Commands), NEW c \in Commands, FollowsEnd(cs),
           c = Swap("close") => cs # <<>> /\ cs[Len(cs)].cmd = "end"
    PROVE  /\ Append(cs, c) \in Seq(Commands) /\ FollowsEnd(Append(cs, c))
           /\ IsFirst(Swap("close"), Append(cs, c)) => IsFirst(Swap("close"), cs)
<1>. DEFINE w == Swap("close")
            more == Append(cs, c)
<1>. HIDE DEF w, more
<1>1. /\ more \in Seq(Commands) /\ DOMAIN more = DOMAIN cs \union {Len(cs) + 1} /\ more[Len(cs) + 1] = c
      /\ \A i \in DOMAIN cs : more[i] = cs[i] /\ i < Len(cs) + 1 /\ i \in Int
      /\ Len(cs) + 1 \in Int
  BY AppendIs DEF more
<1>2. DOMAIN cs = 1 .. Len(cs) /\ Len(cs) \in Nat /\ (cs = <<>> <=> Len(cs) = 0)
  OBVIOUS
<1>3. \A i \in DOMAIN cs : i # 1 /\ cs[i] = w => cs[i - 1].cmd = "end"
  BY DEF FollowsEnd, w
<1>4. c = w => cs # <<>> /\ cs[Len(cs)].cmd = "end"
  BY DEF w
<1>5. ASSUME NEW i \in DOMAIN more, i # 1, more[i] = w
      PROVE  more[i - 1].cmd = "end"
  <2>1. i - 1 \in DOMAIN cs
    BY <1>1, <1>2, <1>5
  <2>2. CASE i \in DOMAIN cs
    BY <1>1, <1>3, <1>5, <2>1, <2>2
  <2>3. CASE i = Len(cs) + 1
    <3>1. i - 1 = Len(cs)
      BY <1>2, <2>3
    <3>. QED  BY <1>1, <1>4, <1>5, <2>1, <2>3, <3>1
  <2>. QED  BY <1>1, <2>2, <2>3
<1>6. IsFirst(w, more) => IsFirst(w, cs)
  <2>. SUFFICES ASSUME more[1] = w PROVE IsFirst(w, cs)
    BY DEF IsFirst
  <2>1. CASE cs = <<>>
    <3>1. more[1] = c
      BY <1>1, <1>2, <2>1
    <3>. QED  BY <1>4, <2>1, <3>1
  <2>2. CASE cs # <<>>
    BY <1>1, <1>2, <2>2 DEF IsFirst
  <2>. QED  BY <2>1, <2>2
<1>. QED  BY <1>1, <1>5, <1>6 DEF FollowsEnd, w, more

\* Only the Swap of a queued config is that Swap.
LEMMA OtherCommands ==
    /\ Swap("close") \in Commands
    /\ Swap("idle") # Swap("close") /\ Barrier # Swap("close") /\ Stop # Swap("close") /\ None # Swap("close")
    /\ \A x : Audio(x) # Swap("close") /\ EndUtterance(x) # Swap("close")
<1>1. <<"idle">> # <<"close">>
  OBVIOUS
<1>2. Swap("close").arg = <<"close">> /\ Swap("idle").arg = <<"idle">> /\ Swap("close").cmd = "swap"
  BY DEF Swap
<1>3. Barrier.cmd # "swap" /\ Stop.cmd # "swap" /\ None.cmd # "swap"
  BY DEF Barrier, Stop, None
<1>4. \A x : Audio(x).cmd # "swap" /\ EndUtterance(x).cmd # "swap"
  BY DEF Audio, EndUtterance
<1>. QED  BY <1>1, <1>2, <1>3, <1>4, CommandsAre DEF Parkables

\* The agent sends the Swap of a queued config behind an end only.
LEMMA AgentSwaps ==
    ASSUME Inv, AgentStep, FollowsEnd(cmds)
    PROVE  FollowsEnd(cmds') /\ (IsFirst(Swap("close"), cmds') => IsFirst(Swap("close"), cmds))
<1>. DEFINE utt == agent.utt
            e == EndUtterance(utt)
            w == Swap("close")
            c1 == Append(cmds, e)
            Good(cs) == FollowsEnd(cs) /\ (IsFirst(w, cs) => IsFirst(w, cmds))
<1>1. cmds \in Seq(Commands) /\ agent.left \in Nat
  BY DEF Inv, Typed, Agents
<1>2. AgentSends(utt, agent.left, cmds', agent'.utt, agent'.left)
  BY AgentIs
<1>3. ASSUME NEW c \in Commands, c # w
      PROVE  Good(Append(cmds, c))
  BY <1>1, <1>3, FollowsNext
<1>4. CASE utt \in Keys /\ cmds' = Append(cmds, Audio(<<utt, agent.left>>))
  <2>. DEFINE c == Audio(<<utt, agent.left>>)
  <2>1. c \in Commands /\ c # w
    BY <1>1, <1>4, CommandsAre, OtherCommands
  <2>. HIDE DEF c
  <2>2. Good(Append(cmds, c))
    BY <1>3, <2>1
  <2>. QED  BY <1>4, <2>2 DEF c
<1>5. CASE utt \in Keys /\ cmds' \in {c1, Append(c1, w)}
  <2>1. e \in Commands /\ e # w /\ e.cmd = "end" /\ w \in Commands
    BY <1>5, CommandsAre, OtherCommands
  <2>. HIDE DEF e
  <2>2. Good(c1)
    BY <1>3, <2>1
  <2>3. c1 \in Seq(Commands) /\ c1 # <<>> /\ c1[Len(c1)] = e
    BY <1>1, <2>1
  <2>. HIDE DEF c1
  <2>4. FollowsEnd(Append(c1, w)) /\ (IsFirst(w, Append(c1, w)) => IsFirst(w, c1))
    BY <2>1, <2>2, <2>3, FollowsNext
  <2>. QED  BY <1>5, <2>2, <2>4
<1>6. CASE cmds' \in {cmds} \union {Append(cmds, c) : c \in {Swap("idle"), Barrier, Stop}}
  <2>1. \A c \in {Swap("idle"), Barrier, Stop} : c \in Commands /\ c # w
    BY CommandsAre, OtherCommands DEF Parkables
  <2>2. \A c \in {Swap("idle"), Barrier, Stop} : Good(Append(cmds, c))
    BY <1>3, <2>1
  <2>. QED  BY <1>6, <2>2
<1>. QED  BY <1>2, <1>4, <1>5, <1>6 DEF AgentSends

\* What follows a command that is read.
LEMMA RestSwaps ==
    ASSUME NEW cs \in Seq(Commands), cs # <<>>, FollowsEnd(cs)
    PROVE  /\ FollowsEnd(Tail(cs))
           /\ IsFirst(Swap("close"), Tail(cs)) => Head(cs).cmd = "end"
<1>. DEFINE w == Swap("close")
<1>. HIDE DEF w
<1>1. /\ Head(cs) = cs[1] /\ 1 \in DOMAIN cs
      /\ \A i \in DOMAIN Tail(cs) : i + 1 \in DOMAIN cs /\ Tail(cs)[i] = cs[i + 1] /\ 1 < i + 1 /\ i \in Int
  BY TailIs
<1>2. \A i \in DOMAIN cs : i # 1 /\ cs[i] = w => cs[i - 1].cmd = "end"
  BY DEF FollowsEnd, w
<1>3. ASSUME NEW i \in DOMAIN Tail(cs), i # 1, Tail(cs)[i] = w
      PROVE  Tail(cs)[i - 1].cmd = "end"
  <2>1. i - 1 \in DOMAIN Tail(cs)
    BY <1>3
  <2>2. Tail(cs)[i - 1] = cs[i]
    <3>1. (i - 1) + 1 = i
      BY <1>1
    <3>. QED  BY <1>1, <2>1, <3>1
  <2>3. (i + 1) - 1 = i /\ i + 1 # 1
    BY <1>1
  <2>. QED  BY <1>1, <1>2, <1>3, <2>2, <2>3
<1>4. ASSUME IsFirst(w, Tail(cs)) PROVE Head(cs).cmd = "end"
  <2>1. 1 \in DOMAIN Tail(cs) /\ Tail(cs)[1] = w
    BY <1>4 DEF IsFirst
  <2>2. 1 + 1 \in DOMAIN cs /\ cs[1 + 1] = w
    BY <1>1, <2>1
  <2>. QED  BY <1>1, <1>2, <2>2
<1>. QED  BY <1>3, <1>4 DEF FollowsEnd, w

\* A provider that is not in the middle of an utterance.
LEMMA FinishedWays ==
    ASSUME NEW C, NEW p \in Providers(C)
    PROVE  Finished(Opened) /\ Finished(RequestFinalize(p))
<1>1. Finished(Opened)
  BY DEF Finished, Opened
<1>2. Finished(RequestFinalize(p))
  <2>1. CASE ~(p.pushed > p.boundary) /\ Request(p.finals).segments = {}
    <3>1. RequestFinalize(p) = [p EXCEPT !.finals = Answer(Request(p.finals), 1)]
      BY <2>1 DEF RequestFinalize
    <3>2. RequestFinalize(p).pushed = p.pushed /\ RequestFinalize(p).boundary = p.boundary
      BY <3>1 DEF Providers
    <3>. QED  BY <2>1, <3>2 DEF Finished
  <2>2. CASE ~(~(p.pushed > p.boundary) /\ Request(p.finals).segments = {})
    <3>1. RequestFinalize(p) = [p EXCEPT !.finals = Request(p.finals), !.boundary = p.pushed,
                                         !.socket = Append(@, SocketFinalize)]
      BY <2>2 DEF RequestFinalize
    <3>2. RequestFinalize(p).pushed = p.pushed /\ RequestFinalize(p).boundary = p.pushed /\ p.pushed \in Nat
      BY <3>1 DEF Providers
    <3>. QED  BY <3>2 DEF Finished
  <2>. QED  BY <2>1, <2>2
<1>. QED  BY <1>1, <1>2

\* The vendor leaves a finished stream finished.
LEMMA VendorFinished ==
    ASSUME Inv, VendorStep, Finished(stt)
    PROVE  Finished(stt')
<1>. DEFINE C == Under(gen)
<1>1. stt \in Providers(C)
  BY DEF Inv, Typed
<1>. HIDE DEF C
<1>2. CASE Lose
  <2>1. stt' = ConnectionLost(stt)
    BY <1>2 DEF Lose
  <2>2. ~stt'.alive
    BY <1>1, <2>1 DEF ConnectionLost, Providers
  <2>. QED  BY <2>2 DEF Finished
<1>3. CASE VendorTakesNext \/ VendorSpeaks
  <2>1. stt' \in {VendorHears(stt), VendorFinalizes(stt), VendorSegments(stt), VendorInterims(stt)}
    BY <1>3 DEF VendorTakesNext, VendorSpeaks
  <2>2. stt'.alive = stt.alive /\ stt'.pushed = stt.pushed /\ stt'.boundary = stt.boundary
    BY <1>1, <2>1, VendorFields
  <2>. QED  BY <2>2 DEF Finished
<1>. QED  BY <1>2, <1>3 DEF VendorStep

\* Nothing is queued at first.
LEMMA InitSwaps == Init => Swaps
<1>. SUFFICES ASSUME Init PROVE Swaps
  OBVIOUS
<1>1. cmds = <<>> /\ parked = None /\ told = Told0
  BY DEF Init
<1>2. FollowsEnd(cmds) /\ ~SwapIsNext /\ QueuedSwapWaits
  BY <1>1, OtherCommands DEF FollowsEnd, SwapIsNext, IsFirst, QueuedSwapWaits, Told0
<1>. QED  BY <1>2 DEF Swaps

\* A command is read.
LEMMA ReadSwaps == Inv /\ Swaps /\ ReadCommand => Swaps'
<1>. SUFFICES ASSUME Inv, Swaps, ReadCommand PROVE Swaps'
  OBVIOUS
<1>. DEFINE w == Swap("close")
            C == Under(gen)
<1>1. FollowsEnd(cmds) /\ (SwapIsNext => hand = <<>> /\ Finished(stt)) /\ QueuedSwapWaits
  BY DEF Swaps
<1>2. cmds \in Seq(Commands) /\ stt \in Providers(C) /\ told \in ToldOf /\ HandInTurn
  BY DEF Inv, Typed
<1>3. /\ \E name : Reads(name)
      /\ pc = "select" /\ parked = None /\ cmds # <<>> /\ cmds' = Tail(cmds)
  BY DEF ReadCommand, OnAudio, OnEnd, OnParkable, OnStop, Reads
<1>4. /\ FollowsEnd(cmds') /\ Head(cmds) = cmds[1]
      /\ IsFirst(w, cmds') => Head(cmds).cmd = "end"
  BY <1>1, <1>2, <1>3, RestSwaps, TailIs
<1>5. told'.reached = told.reached
  <2>1. CASE ~OnEnd
    BY <2>1 DEF ReadCommand, OnAudio, OnParkable, OnStop
  <2>2. CASE OnEnd
    <3>. DEFINE k == Head(cmds).arg[1]
                t == [told EXCEPT !.ended = @ \union {k}]
    <3>1. told' = t \/ told' = [Close(t, k) EXCEPT !.refused = @ \union {k}]
      BY <2>2 DEF OnEnd
    <3>. HIDE DEF k
    <3>2. t \in [ended : SUBSET (Keys \union {k}), closed : Seq(Keys), refused : SUBSET Keys, timed_out : SUBSET Keys,
                 gave_up : SUBSET {"provider", "actor"}, heard : SUBSET Reports, reached : SUBSET Reaches]
          /\ t.reached = told.reached
      BY <1>2 DEF ToldOf
    <3>. HIDE DEF t
    <3>3. [Close(t, k) EXCEPT !.refused = @ \union {k}].reached = t.reached
      BY <3>2 DEF Close
    <3>. QED  BY <3>1, <3>2, <3>3
  <2>. QED  BY <2>1, <2>2
<1>6. QueuedSwapWaits'
  BY <1>1, <1>5 DEF QueuedSwapWaits
<1>7. ASSUME SwapIsNext' PROVE hand' = <<>> /\ Finished(stt')
  <2>1. hand = <<>>
    BY <1>2, <1>3 DEF HandInTurn, InHand
  <2>2. CASE IsFirst(w, cmds')
    <3>1. Head(cmds).cmd = "end"
      BY <1>4, <2>2
    <3>2. OnEnd
      BY <3>1 DEF ReadCommand, OnAudio, OnParkable, OnStop, Reads
    <3>3. hand' = hand /\ (stt' = RequestFinalize(stt) \/ (~CanFinalize(stt) /\ stt' = stt)) /\ (CanFinalize(stt) => stt' = RequestFinalize(stt))
      BY <3>2 DEF OnEnd
    <3>4. Finished(stt')
      <4>1. Finished(RequestFinalize(stt))
        BY <1>2, FinishedWays
      <4>2. ~CanFinalize(stt) => Finished(stt)
        BY DEF CanFinalize, Finished
      <4>. QED  BY <3>3, <4>1, <4>2
    <3>. QED  BY <2>1, <3>3, <3>4
  <2>3. CASE ~IsFirst(w, cmds') /\ parked' = w
    <3>1. OnParkable
      BY <1>3, <2>3, OtherCommands DEF ReadCommand, OnAudio, OnEnd, OnStop
    <3>2. parked' = Head(cmds) /\ hand' = hand /\ stt' = stt
      BY <3>1 DEF OnParkable
    <3>3. IsFirst(w, cmds)
      BY <1>3, <1>4, <2>3, <3>2 DEF IsFirst
    <3>. QED  BY <1>1, <3>2, <3>3 DEF SwapIsNext
  <2>. QED  BY <1>7, <2>2, <2>3 DEF SwapIsNext
<1>. QED  BY <1>4, <1>6, <1>7 DEF Swaps

\* A parked command runs.
LEMMA ParkedSwaps == Inv /\ Swaps /\ RunParked => Swaps'
<1>. SUFFICES ASSUME Inv, Swaps, RunParked PROVE Swaps'
  OBVIOUS
<1>. DEFINE w == Swap("close")
<1>1. FollowsEnd(cmds) /\ (SwapIsNext => hand = <<>> /\ Finished(stt)) /\ QueuedSwapWaits
  BY DEF Swaps
<1>2. told \in ToldOf /\ parked \in Parkables \union {None}
  BY DEF Inv, Typed
<1>3. cmds' = cmds /\ hand' = hand /\ (stt' = stt \/ stt' = Opened)
      /\ \/ told' = told /\ parked' = parked
         \/ told' = Reached(parked) /\ parked' = None /\ parked # None
  BY DEF RunParked, MayRunParked
<1>4. SwapIsNext' => SwapIsNext
  BY <1>3, OtherCommands DEF SwapIsNext
<1>5. Finished(stt) => Finished(stt')
  <2>1. Finished(Opened)
    BY DEF Finished, Opened
  <2>. QED  BY <1>3, <2>1
<1>6. CASE told' = told
  BY <1>1, <1>3, <1>4, <1>5, <1>6 DEF Swaps, QueuedSwapWaits
<1>7. CASE told' = Reached(parked) /\ parked # None
  <2>. DEFINE midway == stt.alive /\ stt.pushed > stt.boundary
              reach == [cmd |-> parked.cmd, by |-> parked.arg[1], owing |-> Owing, midway |-> midway]
  <2>1. told'.reached = told.reached \union {reach}
    <3>. DEFINE more == told.reached \union {reach}
    <3>1. told' = [told EXCEPT !.reached = more]
      BY <1>7 DEF Reached
    <3>. HIDE DEF more
    <3>2. told'.reached = more
      BY <1>2, <3>1 DEF ToldOf
    <3>. QED  BY <3>2 DEF more
  <2>2. parked.cmd = "swap" /\ parked.arg[1] = "close" => ~midway
    <3>. SUFFICES ASSUME parked.arg[1] = "close" PROVE ~midway
      OBVIOUS
    <3>1. parked = w
      <4>1. Swap("idle").arg[1] = "idle" /\ Barrier.arg[1] = "wait_stt_idle"
        BY DEF Swap, Barrier
      <4>. QED  BY <1>2, <1>7, <4>1 DEF Parkables
    <3>. QED  BY <1>1, <3>1 DEF SwapIsNext, Finished
  <2>3. reach.cmd = parked.cmd /\ reach.by = parked.arg[1] /\ reach.midway = midway
    OBVIOUS
  <2>. HIDE DEF reach, midway
  <2>4. QueuedSwapWaits'
    BY <1>1, <2>1, <2>2, <2>3 DEF QueuedSwapWaits
  <2>. QED  BY <1>1, <1>3, <1>4, <1>5, <2>4 DEF Swaps
<1>. QED  BY <1>3, <1>6, <1>7

\* What the others leave of a queued swap.
LEMMA NextSwaps == Inv /\ Swaps /\ [Next]_vars => Swaps'
<1>. SUFFICES ASSUME Inv, Swaps, [Next]_vars PROVE Swaps'
  OBVIOUS
<1>. DEFINE w == Swap("close")
<1>1. FollowsEnd(cmds) /\ (SwapIsNext => hand = <<>> /\ Finished(stt)) /\ QueuedSwapWaits
  BY DEF Swaps
<1>2. Typed /\ HandInTurn /\ Ledger(outstanding, told)
  BY DEF Inv
<1>3. CASE AgentStep
  <2>1. parked' = parked /\ hand' = hand /\ stt' = stt /\ told' = told
    BY <1>3 DEF AgentStep, AgentOnly, SendAudio, SendEnd, CloseNotFound, UpdateConfig, ApplyConfig, SendBarrier, SendStop
  <2>2. FollowsEnd(cmds') /\ (IsFirst(w, cmds') => IsFirst(w, cmds))
    BY <1>1, <1>3, AgentSwaps
  <2>. QED  BY <1>1, <2>1, <2>2 DEF Swaps, SwapIsNext, QueuedSwapWaits
<1>4. CASE VendorStep
  <2>1. parked' = parked /\ hand' = hand /\ cmds' = cmds /\ told' = told
    BY <1>4 DEF VendorStep, VendorOnly, VendorTakesNext, VendorSpeaks, Lose
  <2>2. Finished(stt) => Finished(stt')
    BY <1>4, VendorFinished
  <2>. QED  BY <1>1, <2>1, <2>2 DEF Swaps, SwapIsNext, QueuedSwapWaits
<1>5. CASE ReadCommand
  BY <1>5, ReadSwaps
<1>6. CASE RunParked
  BY <1>6, ParkedSwaps
<1>7. CASE ReopenStart \/ Push
  <2>1. hand # <<>>
    BY <1>2, <1>7 DEF ReopenStart, Push, HandInTurn, InHand
  <2>2. parked' = parked /\ cmds' = cmds /\ told' = told
    BY <1>7 DEF ReopenStart, Push
  <2>. QED  BY <1>1, <2>1, <2>2 DEF Swaps, SwapIsNext, QueuedSwapWaits
<1>8. CASE ReopenDrain \/ Drain \/ Poll
  <2>1. DrainOutputs /\ parked' = parked /\ cmds' = cmds /\ hand' = hand
    BY <1>8 DEF ReopenDrain, Drain, Poll
  <2>2. Drain_(stt', outstanding', told')
    BY <1>2, <2>1, DrainIs DEF Typed
  <2>3. told'.reached = told.reached /\ (Finished(stt) => Finished(stt'))
    BY <2>2 DEF Drain_, Finished
  <2>. QED  BY <1>1, <2>1, <2>3 DEF Swaps, SwapIsNext, QueuedSwapWaits
<1>9. CASE ExpireDeadlines \/ ForgetFront
  <2>1. parked' = parked /\ cmds' = cmds /\ hand' = hand /\ stt' = stt
    BY <1>9 DEF ExpireDeadlines, ForgetFront
  <2>2. told'.reached = told.reached
    <3>1. told \in ToldOf
      BY <1>2 DEF Typed
    <3>2. CASE ForgetFront
      <4>. DEFINE gives == told.gave_up \union {"actor"}
      <4>1. told' = [told EXCEPT !.gave_up = gives]
        BY <3>2 DEF ForgetFront
      <4>. QED  BY <3>1, <4>1 DEF ToldOf
    <3>3. CASE ExpireDeadlines
      <4>1. PICK i \in Waiting : told' = LateClose(told, outstanding[i].key)
        BY <3>3 DEF ExpireDeadlines, LateClose
      <4>. DEFINE k == outstanding[i].key
      <4>. HIDE DEF k
      <4>2. LateClose(told, k).reached = told.reached
        BY <3>1 DEF LateClose, Close, ToldOf
      <4>. QED  BY <4>1, <4>2 DEF k
    <3>. QED  BY <1>9, <3>2, <3>3
  <2>. QED  BY <1>1, <2>1, <2>2 DEF Swaps, SwapIsNext, QueuedSwapWaits
<1>10. CASE BackoffPasses \/ UNCHANGED vars
  <2>1. parked' = parked /\ cmds' = cmds /\ hand' = hand /\ stt' = stt /\ told' = told
    BY <1>10 DEF BackoffPasses, vars
  <2>. QED  BY <1>1, <2>1 DEF Swaps, SwapIsNext, QueuedSwapWaits
<1>. QED  BY <1>3, <1>4, <1>5, <1>6, <1>7, <1>8, <1>9, <1>10 DEF Next, ActorStep

\* So a queued config waits in every state.
LEMMA SwapsHold == Spec => []Swaps
<1>1. Init => Inv /\ Swaps
  BY InitInv, InitSwaps
<1>2. Inv /\ Swaps /\ [Next]_vars => (Inv /\ Swaps)'
  BY NextInv, NextSwaps
<1>. QED  BY <1>1, <1>2, PTL DEF Spec

-----------------------------------------------------------------------------
(* Positions in the audio stream. *)

\* The last finalize of a socket; and what the counters say of its audio.
LastAt(s, i) == i \in DOMAIN s /\ s[i] = SocketFinalize /\ \A j \in DOMAIN s : i < j => s[j] # SocketFinalize
CountedAs(s, pushed, position, boundary) ==
    /\ pushed = position + (Len(s) - All(s, SocketFinalize))
    /\ \A i : LastAt(s, i) => boundary + (Len(s) - i) = pushed
    /\ All(s, SocketFinalize) = 0 => boundary <= position

\* The last finalize, after one more item.
LEMMA LastNext ==
    ASSUME NEW S, NEW s \in Seq(S), NEW x \in S, NEW i, LastAt(Append(s, x), i)
    PROVE  IF x = SocketFinalize THEN i = Len(s) + 1 ELSE LastAt(s, i)
<1>. DEFINE t == Append(s, x)
<1>1. /\ DOMAIN t = DOMAIN s \union {Len(s) + 1} /\ t[Len(s) + 1] = x
      /\ \A j \in DOMAIN s : t[j] = s[j] /\ j < Len(s) + 1 /\ j \in Int
  BY AppendIs
<1>. HIDE DEF t
<1>2. i \in DOMAIN t /\ t[i] = SocketFinalize /\ \A j \in DOMAIN t : i < j => t[j] # SocketFinalize
  BY DEF LastAt, t
<1>3. CASE x = SocketFinalize
  BY <1>1, <1>2, <1>3
<1>4. CASE x # SocketFinalize
  BY <1>1, <1>2, <1>4 DEF LastAt
<1>. QED  BY <1>3, <1>4

\* The last finalize, without the first item.
LEMMA LastOfRest ==
    ASSUME NEW S, NEW s \in Seq(S), s # <<>>, NEW i, LastAt(Tail(s), i)
    PROVE  LastAt(s, i + 1) /\ i \in Int /\ Len(Tail(s)) - i = Len(s) - (i + 1)
<1>1. /\ Len(Tail(s)) = Len(s) - 1 /\ Len(s) \in Nat
      /\ \A j \in DOMAIN Tail(s) : j + 1 \in DOMAIN s /\ Tail(s)[j] = s[j + 1] /\ 1 < j + 1 /\ j \in Int
      /\ \A j \in DOMAIN s : j # 1 => j - 1 \in DOMAIN Tail(s) /\ Tail(s)[j - 1] = s[j]
  BY TailIs
<1>2. i \in DOMAIN Tail(s) /\ Tail(s)[i] = SocketFinalize
      /\ \A j \in DOMAIN Tail(s) : i < j => Tail(s)[j] # SocketFinalize
  BY DEF LastAt
<1>3. i + 1 \in DOMAIN s /\ s[i + 1] = SocketFinalize /\ i \in Int /\ 1 < i + 1
  BY <1>1, <1>2
<1>4. ASSUME NEW j \in DOMAIN s, i + 1 < j
      PROVE  s[j] # SocketFinalize
  <2>1. j \in Int /\ j # 1 /\ i < j - 1
    BY <1>3, <1>4
  <2>. QED  BY <1>1, <1>2, <2>1
<1>. QED  BY <1>1, <1>3, <1>4 DEF LastAt

\* What is appended to the socket, and what the vendor takes from it.
LEMMA CountSent ==
    ASSUME NEW C, NEW s \in Seq(SocketItems(C)), NEW x \in SocketItems(C),
           NEW pushed \in Nat, NEW position \in Nat, NEW boundary \in Nat,
           CountedAs(s, pushed, position, boundary)
    PROVE  IF x = SocketFinalize THEN CountedAs(Append(s, x), pushed, position, pushed)
           ELSE CountedAs(Append(s, x), pushed + 1, position, boundary)
<1>. DEFINE t == Append(s, x)
            n == All(s, SocketFinalize)
            m == All(t, SocketFinalize)
<1>1. Len(t) = Len(s) + 1 /\ Len(s) \in Nat
  OBVIOUS
<1>2. n \in Nat /\ m = n + (IF x = SocketFinalize THEN 1 ELSE 0)
  BY AllNat, AllNext
<1>3. \A i : LastAt(t, i) => IF x = SocketFinalize THEN i = Len(s) + 1 ELSE LastAt(s, i)
  BY LastNext
<1>4. /\ pushed = position + (Len(s) - n)
      /\ \A i : LastAt(s, i) => i \in Int /\ boundary + (Len(s) - i) = pushed
      /\ n = 0 => boundary <= position
  BY DEF CountedAs, LastAt
<1>. HIDE DEF t, n, m
<1>5. CASE x = SocketFinalize
  <2>1. pushed = position + (Len(t) - m) /\ m # 0
    BY <1>1, <1>2, <1>4, <1>5
  <2>2. \A i : LastAt(t, i) => pushed + (Len(t) - i) = pushed
    BY <1>1, <1>3, <1>5
  <2>. QED  BY <1>5, <2>1, <2>2 DEF CountedAs, t, m
<1>6. CASE x # SocketFinalize
  <2>1. pushed + 1 = position + (Len(t) - m) /\ (m = 0 => boundary <= position)
    BY <1>1, <1>2, <1>4, <1>6
  <2>2. \A i : LastAt(t, i) => boundary + (Len(t) - i) = pushed + 1
    BY <1>1, <1>3, <1>4, <1>6
  <2>. QED  BY <1>6, <2>1, <2>2 DEF CountedAs, t, m
<1>. QED  BY <1>5, <1>6

\* The vendor takes the next item.
LEMMA CountTaken ==
    ASSUME NEW C, NEW s \in Seq(SocketItems(C)), s # <<>>,
           NEW pushed \in Nat, NEW position \in Nat, NEW boundary \in Nat,
           CountedAs(s, pushed, position, boundary)
    PROVE  IF Head(s) = SocketFinalize THEN CountedAs(Tail(s), pushed, position, boundary)
           ELSE CountedAs(Tail(s), pushed, position + 1, boundary)
<1>. DEFINE t == Tail(s)
            n == All(s, SocketFinalize)
            m == All(t, SocketFinalize)
<1>1. Len(t) = Len(s) - 1 /\ Len(s) \in Nat /\ Head(s) = s[1] /\ 1 \in DOMAIN s /\ t \in Seq(SocketItems(C))
  BY TailIs
<1>2. n \in Nat /\ m \in Nat /\ n = m + (IF Head(s) = SocketFinalize THEN 1 ELSE 0)
  BY <1>1, AllNat, AllRest
<1>3. \A i : LastAt(t, i) => LastAt(s, i + 1) /\ i \in Int /\ Len(t) - i = Len(s) - (i + 1)
  BY LastOfRest
<1>4. /\ pushed = position + (Len(s) - n)
      /\ \A i : LastAt(s, i) => boundary + (Len(s) - i) = pushed
      /\ n = 0 => boundary <= position
  BY DEF CountedAs
<1>5. \A i : LastAt(t, i) => boundary + (Len(t) - i) = pushed
  <2>. HIDE DEF t
  <2>. QED  BY <1>3, <1>4
<1>6. CASE Head(s) = SocketFinalize
  <2>1. m = 0 => boundary <= position
    <3>. SUFFICES ASSUME m = 0 PROVE boundary <= position
      OBVIOUS
    <3>1. \A j \in 1 .. Len(t) : t[j] # SocketFinalize
      <4>. HIDE DEF t
      <4>1. First(t, SocketFinalize, Len(t)) = 0 /\ Len(t) \in Nat
        BY <1>1 DEF All
      <4>. QED  BY <4>1, FirstAlike
    <3>2. LastAt(s, 1)
      <4>1. ASSUME NEW j \in DOMAIN s, 1 < j PROVE s[j] # SocketFinalize
        <5>1. j - 1 \in DOMAIN t /\ t[j - 1] = s[j] /\ DOMAIN t = 1 .. Len(t)
          BY <1>1, <4>1, TailIs
        <5>. QED  BY <3>1, <5>1
      <4>. QED  BY <1>1, <1>6, <4>1 DEF LastAt
    <3>3. boundary + (Len(s) - 1) = pushed /\ n = 1
      BY <1>2, <1>4, <1>6, <3>2
    <3>. QED  BY <1>1, <1>4, <3>3
  <2>2. pushed = position + (Len(t) - m)
    <3>. HIDE DEF t, n, m
    <3>. QED  BY <1>1, <1>2, <1>4, <1>6
  <2>. QED  BY <1>5, <1>6, <2>1, <2>2 DEF CountedAs
<1>7. CASE Head(s) # SocketFinalize
  <2>1. pushed = (position + 1) + (Len(t) - m) /\ (m = 0 => boundary <= position + 1)
    <3>. HIDE DEF t, n, m
    <3>. QED  BY <1>1, <1>2, <1>4, <1>7
  <2>. QED  BY <1>5, <1>7, <2>1 DEF CountedAs
<1>. QED  BY <1>6, <1>7

\* The counters of a live stream; and text that waits for a finalize is of audio
\* behind the last one.
Counted(p) == p.alive => CountedAs(p.socket, p.pushed, p.position, p.boundary)
FreshText(p) ==
    p.alive /\ All(p.socket, SocketFinalize) = 0 /\ p.finals.segments \union p.heard # {}
      => p.boundary < p.position

\* Hearing a chunk advances the position, and nothing else does.
LEMMA VendorPositions ==
    ASSUME NEW C, NEW p \in Providers(C)
    PROVE  /\ VendorHears(p).position = p.position + 1
           /\ VendorFinalizes(p).position = p.position /\ VendorSegments(p).position = p.position
           /\ VendorInterims(p).position = p.position
<1>. DEFINE t == Tail(p.socket)
            h == p.heard \union Head(p.socket).chunk
            a == OnFinalizeAnswer(p.finals, p.heard)
            s == OnSegment(p)
            i == OnInterim(p)
            n == p.position + 1
<1>1. /\ VendorHears(p) = [p EXCEPT !.socket = t, !.heard = h, !.position = n]
      /\ VendorFinalizes(p) = [p EXCEPT !.socket = t, !.finals = a, !.heard = {}]
      /\ VendorSegments(p) = [p EXCEPT !.finals = s, !.heard = {}]
      /\ VendorInterims(p) = [p EXCEPT !.finals = i]
  BY DEF VendorHears, VendorFinalizes, VendorSegments, VendorInterims, VendorTakes, Providers
<1>. HIDE DEF t, h, a, s, i, n
<1>2. VendorHears(p).position = n
  BY <1>1 DEF Providers
<1>. QED  BY <1>1, <1>2 DEF Providers, n

\* Segments that no one takes.
LEMMA SegmentsAre ==
    ASSUME NEW C, NEW f \in FinalsOf(C), NEW T \in SUBSET C
    PROVE  /\ Interim(f, T).segments = f.segments /\ Segment(f, T).segments = f.segments \union T
           /\ Interim(f, T) \in FinalsOf(C) /\ Segment(f, T) \in FinalsOf(C)
           /\ Segment(f, T).pending = f.pending
           /\ \A n \in 1 .. f.pending : Answer(f, n).segments = {}
<1>1. Interim(f, T).segments = f.segments /\ Segment(f, T).segments = f.segments \union T
  <2>. DEFINE x == Partial(f.segments \union T)
              q == Append(f.queue, x)
              g == f.segments \union T
  <2>1. /\ Interim(f, T) = IF T = {} THEN f ELSE [f EXCEPT !.queue = q]
        /\ Segment(f, T) = IF T = {} THEN f ELSE [f EXCEPT !.segments = g, !.queue = q]
    BY DEF Interim, Segment
  <2>2. T = {} => g = f.segments
    OBVIOUS
  <2>. HIDE DEF q, g
  <2>3. Interim(f, T).segments = f.segments /\ Segment(f, T).segments = g
    BY <2>1, <2>2 DEF FinalsOf
  <2>. QED  BY <2>3 DEF g
<1>2. \A n \in 1 .. f.pending : Answer(f, n).segments = {}
  <2>. TAKE n \in 1 .. f.pending
  <2>1. n # 0
    OBVIOUS
  <2>. QED  BY <2>1 DEF Answer
<1>. QED  BY <1>1, <1>2, TextOwesNothing

\* The vendor keeps the counters right and the text fresh.
LEMMA VendorCounts ==
    ASSUME NEW C, NEW p \in Providers(C), p.alive, Counted(p), NEW r,
           \/ r \in {VendorSegments(p), VendorInterims(p)}
           \/ p.socket # <<>> /\ Head(p.socket).kind = "audio" /\ r = VendorHears(p)
           \/ p.socket # <<>> /\ Head(p.socket).kind # "audio" /\ r = VendorFinalizes(p)
    PROVE  Counted(r) /\ (FreshText(p) /\ MarkersSent(p) => FreshText(r))
<1>. DEFINE s == p.socket
            f == p.finals
            T == p.heard
<1>1. /\ s \in Seq(SocketItems(C)) /\ p.pushed \in Nat /\ p.position \in Nat /\ p.boundary \in Nat
      /\ f \in FinalsOf(C) /\ T \in SUBSET C /\ f.pending \in Nat
  BY DEF Providers, FinalsOf
<1>2. r.alive = p.alive /\ r.pushed = p.pushed /\ r.boundary = p.boundary
  BY VendorFields
<1>3. CountedAs(s, p.pushed, p.position, p.boundary)
  BY DEF Counted
<1>4. CASE p.socket # <<>> /\ (Head(p.socket).kind = "audio" \/ Head(p.socket).kind # "audio")
           /\ (IF Head(p.socket).kind = "audio" THEN r = VendorHears(p) ELSE r = VendorFinalizes(p))
  <2>. DEFINE t == Tail(s)
  <2>1. r.socket = t /\ Head(s) \in SocketItems(C) /\ t \in Seq(SocketItems(C))
    BY <1>1, <1>4, VendorFields
  <2>2. Head(s).kind = "audio" <=> Head(s) # SocketFinalize
    BY <2>1, SocketIs
  <2>3. IF Head(s) = SocketFinalize THEN CountedAs(t, p.pushed, p.position, p.boundary)
        ELSE CountedAs(t, p.pushed, p.position + 1, p.boundary)
    <3>. DEFINE a == p.pushed
                b == p.position
                d == p.boundary
    <3>1. CountedAs(s, a, b, d) /\ a \in Nat /\ b \in Nat /\ d \in Nat /\ s # <<>>
      BY <1>1, <1>3, <1>4
    <3>. HIDE DEF a, b, d, s
    <3>2. IF Head(s) = SocketFinalize THEN CountedAs(Tail(s), a, b, d) ELSE CountedAs(Tail(s), a, b + 1, d)
      BY <1>1, <3>1, CountTaken
    <3>. QED  BY <3>2 DEF a, b, d, s
  <2>4. r.position = p.position + (IF Head(s) = SocketFinalize THEN 0 ELSE 1)
    BY <1>1, <1>4, <2>2, VendorPositions
  <2>5. Counted(r)
    <3>1. Head(s) = SocketFinalize => r.position = p.position
      BY <1>1, <2>4
    <3>2. Head(s) # SocketFinalize => r.position = p.position + 1
      BY <2>4
    <3>. HIDE DEF t
    <3>. QED  BY <1>2, <2>1, <2>3, <3>1, <3>2 DEF Counted
  <2>6. ASSUME FreshText(p), MarkersSent(p) PROVE FreshText(r)
    <3>1. CASE Head(s) # SocketFinalize
      <4>1. CountedAs(r.socket, p.pushed, p.position + 1, p.boundary)
        BY <2>1, <2>3, <3>1
      <4>2. All(s, SocketFinalize) = All(r.socket, SocketFinalize) + 0 /\ All(r.socket, SocketFinalize) \in Nat
        BY <1>1, <1>4, <2>1, <3>1, AllRest, AllNat
      <4>3. All(s, SocketFinalize) = 0 => p.boundary <= p.position
        BY <1>3 DEF CountedAs
      <4>4. All(r.socket, SocketFinalize) = 0 => p.boundary < r.position
        BY <1>1, <2>4, <3>1, <4>2, <4>3
      <4>. QED  BY <1>2, <4>4 DEF FreshText
    <3>2. CASE Head(s) = SocketFinalize
      <4>1. r.finals = OnFinalizeAnswer(f, T) /\ r.heard = {}
        BY <1>4, <2>2, <3>2, VendorFields
      <4>2. f.pending # 0
        <5>1. All(s, SocketFinalize) = All(t, SocketFinalize) + 1 /\ All(t, SocketFinalize) \in Nat
          BY <1>1, <1>4, <2>1, <3>2, AllRest, AllNat
        <5>. QED  BY <2>6, <5>1 DEF MarkersSent
      <4>3. r.finals = Answer(Segment(f, T), 1)
        BY <4>1, <4>2 DEF OnFinalizeAnswer
      <4>4. r.finals.segments = {}
        <5>. DEFINE g == Segment(f, T)
        <5>1. g \in FinalsOf(C) /\ g.pending = f.pending
          BY <1>1, SegmentsAre
        <5>. HIDE DEF g
        <5>2. 1 \in 1 .. g.pending
          BY <1>1, <4>2, <5>1
        <5>3. Answer(g, 1).segments = {}
          BY <5>1, <5>2, SegmentsAre
        <5>. QED  BY <4>3, <5>3 DEF g
      <4>. QED  BY <4>1, <4>4 DEF FreshText
    <3>. QED  BY <3>1, <3>2
  <2>. QED  BY <2>5, <2>6
<1>5. CASE r \in {VendorSegments(p), VendorInterims(p)}
  <2>1. r.socket = p.socket /\ r.position = p.position
    BY <1>5, VendorFields, VendorPositions
  <2>2. r.finals.segments \union r.heard \subseteq p.finals.segments \union p.heard
    <3>1. CASE r = VendorSegments(p)
      <4>1. r.finals = OnSegment(p) /\ r.heard = {}
        BY <3>1, VendorFields
      <4>2. OnSegment(p).segments \subseteq f.segments \union T
        BY <1>1, SegmentsAre DEF OnSegment
      <4>. QED  BY <4>1, <4>2
    <3>2. CASE r = VendorInterims(p)
      <4>1. r.finals = OnInterim(p) /\ r.heard = T
        BY <3>2, VendorFields
      <4>2. OnInterim(p).segments \subseteq f.segments \union T
        BY <1>1, SegmentsAre DEF OnInterim
      <4>. QED  BY <4>1, <4>2
    <3>. QED  BY <1>5, <3>1, <3>2
  <2>. QED  BY <1>2, <2>1, <2>2 DEF Counted, FreshText
<1>. QED  BY <1>4, <1>5

-----------------------------------------------------------------------------
(* Which chunks have been reported in finals, and which are on their way. *)

Reported(t, c) == \E h \in t.heard : h.final /\ h.chunk = c
Queued(q, c) == \E i \in DOMAIN q : q[i].kind = "final" /\ c \in q[i].text
Sent(s, c) == \E i \in DOMAIN s : c \in s[i].chunk
\* The provider holds a chunk that will be in a final.
Holds(p, c) == Queued(p.finals.queue, c) \/ c \in p.finals.segments \union p.heard \/ Sent(p.socket, c)

\* One more item in the queue.
LEMMA QueuedNext ==
    ASSUME NEW S, NEW q \in Seq(S), NEW x \in S, NEW c
    PROVE  Queued(Append(q, x), c) <=> Queued(q, c) \/ (x.kind = "final" /\ c \in x.text)
<1>. DEFINE t == Append(q, x)
<1>1. /\ DOMAIN t = DOMAIN q \union {Len(q) + 1} /\ t[Len(q) + 1] = x
      /\ \A j \in DOMAIN q : t[j] = q[j]
  BY AppendIs
<1>. HIDE DEF t
<1>2. Queued(t, c) <=> Queued(q, c) \/ (x.kind = "final" /\ c \in x.text)
  BY <1>1 DEF Queued
<1>. QED  BY <1>2 DEF t

\* One more item in the socket.
LEMMA SentNext ==
    ASSUME NEW S, NEW s \in Seq(S), NEW x \in S, NEW c
    PROVE  Sent(Append(s, x), c) <=> Sent(s, c) \/ c \in x.chunk
<1>. DEFINE t == Append(s, x)
<1>1. /\ DOMAIN t = DOMAIN s \union {Len(s) + 1} /\ t[Len(s) + 1] = x
      /\ \A j \in DOMAIN s : t[j] = s[j]
  BY AppendIs
<1>. HIDE DEF t
<1>2. Sent(t, c) <=> Sent(s, c) \/ c \in x.chunk
  BY <1>1 DEF Sent
<1>. QED  BY <1>2 DEF t

\* The socket without its first item.
LEMMA SentRest ==
    ASSUME NEW S, NEW s \in Seq(S), s # <<>>, NEW c
    PROVE  Sent(s, c) <=> Sent(Tail(s), c) \/ c \in Head(s).chunk
<1>. DEFINE t == Tail(s)
<1>1. /\ Head(s) = s[1] /\ 1 \in DOMAIN s
      /\ \A i \in DOMAIN t : i + 1 \in DOMAIN s /\ t[i] = s[i + 1]
      /\ \A i \in DOMAIN s : i # 1 => i - 1 \in DOMAIN t /\ t[i - 1] = s[i]
  BY TailIs
<1>. HIDE DEF t
<1>2. Sent(s, c) <=> Sent(t, c) \/ c \in Head(s).chunk
  BY <1>1 DEF Sent
<1>. QED  BY <1>2 DEF t

\* Polling leaves in the queue what it does not take.
LEMMA PollingQueued ==
    ASSUME NEW C, NEW q \in Seq(Items(C)), NEW c
    PROVE  Queued(q, c) <=> Queued(Polled(q), c) \/ Queued(Unpolled(q), c)
<1>. DEFINE F == FirstFailure(q)
<1>1. CASE F = 0
  <2>1. Polled(q) = q /\ Unpolled(q) = <<>>
    BY <1>1 DEF Polled, Unpolled
  <2>2. ~Queued(<<>>, c)
    BY DEF Queued
  <2>. QED  BY <2>1, <2>2
<1>2. CASE F \in 1 .. Len(q) /\ q[F] = Failure
  <2>. DEFINE a == SubSeq(q, 1, F - 1)
              d == SubSeq(q, F + 1, Len(q))
              m == F - 1
  <2>1. Polled(q) = a /\ Unpolled(q) = d
    <3>1. FirstFailure(q) # 0
      BY <1>2
    <3>. QED  BY <3>1, Zenon DEF Polled, Unpolled
  <2>. HIDE DEF F
  <2>2. m \in Nat /\ F \in Nat /\ F = m + 1 /\ Len(q) \in Nat /\ F <= Len(q)
        /\ DOMAIN a = 1 .. m /\ \A i \in 1 .. m : a[i] = q[i]
    BY <1>2
  <2>3. DOMAIN d = 1 .. Len(q) - F /\ \A i \in 1 .. Len(q) - F : d[i] = q[i + F]
    BY <1>2
  <2>4. DOMAIN q = 1 .. Len(q)
    OBVIOUS
  <2>. HIDE DEF a, d
  <2>5. q[F].kind # "final"
    BY <1>2 DEF Failure
  <2>6. Queued(a, c) \/ Queued(d, c) => Queued(q, c)
    <3>1. \A i \in DOMAIN a : i \in DOMAIN q /\ a[i] = q[i]
      BY <2>2, <2>4
    <3>2. \A i \in DOMAIN d : i + F \in DOMAIN q /\ d[i] = q[i + F]
      BY <2>2, <2>3, <2>4
    <3>. QED  BY <3>1, <3>2 DEF Queued
  <2>7. ASSUME NEW i \in DOMAIN q, q[i].kind = "final", c \in q[i].text
        PROVE  Queued(a, c) \/ Queued(d, c)
    <3>1. CASE i < F
      <4>1. i \in DOMAIN a /\ a[i] = q[i]
        BY <2>2, <2>4, <3>1
      <4>. QED  BY <2>7, <4>1 DEF Queued
    <3>2. CASE i > F
      <4>1. i - F \in DOMAIN d /\ (i - F) + F = i
        BY <2>2, <2>3, <2>4, <3>2
      <4>2. d[i - F] = q[i]
        BY <2>3, <4>1
      <4>. QED  BY <2>7, <4>1, <4>2 DEF Queued
    <3>. QED  BY <2>2, <2>4, <2>5, <2>7, <3>1, <3>2
  <2>. QED  BY <2>1, <2>6, <2>7 DEF Queued
<1>. QED  BY <1>1, <1>2, FailureIsFound

\* An item reports its chunks, if it is a final.
LEMMA DeliverReports ==
    ASSUME gen \in Nat, NEW acc \in Accs(gen), NEW item \in Items(Under(gen)), NEW c
    PROVE  /\ Reported(Deliver(acc, item).told, c) <=>
                Reported(acc.told, c) \/ (item.kind = "final" /\ c \in item.text)
           /\ \A y : y \in Range(Deliver(acc, item).entries) => y \in Range(acc.entries)
<1>1. acc.told \in ToldOf /\ acc.entries \in Seq(Entries(gen)) /\ acc \in [entries : Seq(Entries(gen)), told : ToldOf]
  BY DEF Accs
<1>2. item.kind = "done" => item.text = {}
  BY DEF Items
<1>. DEFINE e == acc.entries
            t == acc.told
<1>. HIDE DEF e, t
<1>3. CASE item.kind # "done"
  <2>. DEFINE x == Transcript(t, e, item)
  <2>1. Deliver(acc, item) = [acc EXCEPT !.told = x]
    BY <1>3 DEF Deliver, e, t
  <2>2. Reported(x, c) <=> Reported(t, c) \/ (item.kind = "final" /\ c \in item.text)
    <3>. DEFINE key == IF e = <<>> THEN NoKey ELSE FrontEntry(e).key
                under == IF e = <<>> THEN gen ELSE FrontEntry(e).gen
                rep(d) == [key |-> key, gen |-> under, chunk |-> d, final |-> item.kind = "final",
                           live |-> d[1] \notin t.ended]
                more == t.heard \union {rep(d) : d \in item.text}
    <3>1. x = [t EXCEPT !.heard = more]
      BY DEF Transcript
    <3>2. x.heard = more
      <4>. HIDE DEF more, x
      <4>1. t \in ToldOf
        BY <1>1 DEF t
      <4>. QED  BY <3>1, <4>1 DEF ToldOf
    <3>3. \A d : (rep(d).final <=> item.kind = "final") /\ rep(d).chunk = d
      OBVIOUS
    <3>. HIDE DEF rep, x
    <3>4. ASSUME NEW h \in more, h.final, h.chunk = c
          PROVE  Reported(t, c) \/ (item.kind = "final" /\ c \in item.text)
      <4>1. CASE h \in t.heard
        BY <3>4, <4>1 DEF Reported
      <4>2. CASE h \notin t.heard
        <5>1. PICK d \in item.text : h = rep(d)
          BY <4>2
        <5>. QED  BY <3>3, <3>4, <5>1
      <4>. QED  BY <4>1, <4>2
    <3>5. ASSUME item.kind = "final", c \in item.text PROVE \E h \in more : h.final /\ h.chunk = c
      <4>1. rep(c) \in more /\ rep(c).final /\ rep(c).chunk = c
        BY <3>3, <3>5
      <4>. HIDE DEF more
      <4>. QED  BY <4>1
    <3>6. Reported(t, c) => \E h \in more : h.final /\ h.chunk = c
      BY DEF Reported
    <3>. HIDE DEF more
    <3>. QED  BY <3>2, <3>4, <3>5, <3>6 DEF Reported
  <2>. HIDE DEF x
  <2>3. Deliver(acc, item).told = x /\ Deliver(acc, item).entries = e
    BY <1>1, <2>1 DEF e
  <2>. QED  BY <2>2, <2>3 DEF e, t
<1>4. CASE item.kind = "done" /\ e = <<>>
  <2>1. Deliver(acc, item) = acc
    BY <1>4 DEF Deliver, e
  <2>. QED  BY <1>2, <1>4, <2>1
<1>5. CASE item.kind = "done" /\ e # <<>>
  <2>. DEFINE k == Head(e).key
              x == IF Head(e).timed_out THEN t ELSE Close(t, k)
  <2>1. Deliver(acc, item) = [entries |-> Tail(e), told |-> x]
    BY <1>5 DEF Deliver, e, t
  <2>2. x.heard = t.heard
    <3>. DEFINE closed == Append(t.closed, k)
    <3>1. Close(t, k) = [t EXCEPT !.closed = closed]
      BY DEF Close
    <3>. HIDE DEF closed
    <3>2. Close(t, k).heard = t.heard
      BY <1>1, <3>1 DEF ToldOf, t
    <3>. HIDE DEF k
    <3>. QED  BY <3>2
  <2>3. \A y : y \in Range(Tail(e)) => y \in Range(e)
    <3>1. e \in Seq(Entries(gen))
      BY <1>1 DEF e
    <3>2. \A i \in DOMAIN Tail(e) : i + 1 \in DOMAIN e /\ Tail(e)[i] = e[i + 1]
      BY <1>5, <3>1, TailIs
    <3>. QED  BY <3>2 DEF Range
  <2>. HIDE DEF x
  <2>4. Deliver(acc, item).told = x /\ Deliver(acc, item).entries = Tail(e)
    BY <2>1
  <2>. QED  BY <1>2, <1>5, <2>2, <2>3, <2>4 DEF Reported, e, t
<1>. QED  BY <1>3, <1>4, <1>5

\* All that is polled.
LEMMA RunReports ==
    ASSUME gen \in Nat, NEW items, items \in Seq(Items(Under(gen))),
           NEW f, f \in [0 .. Len(items) -> Accs(gen)],
           \A i \in 1 .. Len(items) : f[i] = Deliver(f[i - 1], items[i])
    PROVE  /\ \A c : Reported(f[Len(items)].told, c) <=> Reported(f[0].told, c) \/ Queued(items, c)
           /\ \A y : y \in Range(f[Len(items)].entries) => y \in Range(f[0].entries)
<1>. DEFINE m == Len(items)
            Upto(i, c) == \E j \in 1 .. i : items[j].kind = "final" /\ c \in items[j].text
            T == {i \in Nat : i <= m =>
                    /\ \A c : Reported(f[i].told, c) <=> Reported(f[0].told, c) \/ Upto(i, c)
                    /\ \A y : y \in Range(f[i].entries) => y \in Range(f[0].entries)}
<1>1. m \in Nat /\ (\A i \in 1 .. m : items[i] \in Items(Under(gen))) /\ DOMAIN items = 1 .. m
  OBVIOUS
<1>2. \A i \in 1 .. m : f[i] = Deliver(f[i - 1], items[i])
  OBVIOUS
<1>3. \A i \in 0 .. m : f[i] \in Accs(gen)
  OBVIOUS
<1>. HIDE DEF m
<1>4. 0 \in T
  <2>1. \A c : ~Upto(0, c)
    OBVIOUS
  <2>. HIDE DEF Upto
  <2>. QED  BY <2>1
<1>5. ASSUME NEW i \in Nat, i \in T PROVE i + 1 \in T
  <2>. SUFFICES ASSUME i + 1 <= m
                PROVE  /\ \A c : Reported(f[i + 1].told, c) <=> Reported(f[0].told, c) \/ Upto(i + 1, c)
                       /\ \A y : y \in Range(f[i + 1].entries) => y \in Range(f[0].entries)
    OBVIOUS
  <2>1. i \in 0 .. m /\ i + 1 \in 1 .. m /\ (i + 1) - 1 = i /\ i <= m
    BY <1>1
  <2>. DEFINE acc == f[i]
              item == items[i + 1]
              r == f[i + 1]
  <2>2. /\ \A c : Reported(acc.told, c) <=> Reported(f[0].told, c) \/ Upto(i, c)
        /\ \A y : y \in Range(acc.entries) => y \in Range(f[0].entries)
    BY <1>5, <2>1
  <2>3. acc \in Accs(gen) /\ item \in Items(Under(gen)) /\ r = Deliver(acc, item)
    BY <1>1, <1>2, <1>3, <2>1
  <2>4. \A c : Upto(i + 1, c) <=> Upto(i, c) \/ (item.kind = "final" /\ c \in item.text)
    <3>1. \A j : j \in 1 .. i + 1 <=> j \in 1 .. i \/ j = i + 1
      OBVIOUS
    <3>. QED  BY <3>1
  <2>. HIDE DEF acc, item, r, Upto
  <2>5. \A c : Reported(r.told, c) <=> Reported(acc.told, c) \/ (item.kind = "final" /\ c \in item.text)
    BY <2>3, DeliverReports
  <2>6. \A y : y \in Range(r.entries) => y \in Range(acc.entries)
    BY <2>3, DeliverReports
  <2>7. /\ \A c : Reported(r.told, c) <=> Reported(f[0].told, c) \/ Upto(i + 1, c)
        /\ \A y : y \in Range(r.entries) => y \in Range(f[0].entries)
    BY <2>2, <2>4, <2>5, <2>6
  <2>. QED  BY <2>7 DEF r
<1>6. m \in T
  <2>. HIDE DEF T
  <2>1. Nat \subseteq T
    BY <1>4, <1>5, Inductive
  <2>. QED  BY <1>1, <2>1
<1>7. \A c : Upto(m, c) <=> Queued(items, c)
  BY <1>1 DEF Queued
<1>. HIDE DEF Upto
<1>. QED  BY <1>1, <1>6, <1>7 DEF m

\* A drain in which nobody gives an answer up.
Drained(p, r, e, f, t, u) ==
    /\ r.alive = p.alive /\ r.socket = p.socket /\ r.heard = p.heard /\ r.position = p.position
    /\ r.pushed = p.pushed /\ r.boundary = p.boundary
    /\ r.finals.segments = p.finals.segments
    /\ \A c : Reported(u, c) \/ Holds(r, c) <=> Reported(t, c) \/ Holds(p, c)
    /\ \A y : y \in Range(f) => y \in Range(e)

\* drain_outputs moves finals from the queue to the reports, and nothing else.
LEMMA DrainConserves ==
    ASSUME gen \in Nat, stt \in Providers(Under(gen)), outstanding \in Seq(Entries(gen)),
           told \in ToldOf, Ledger(outstanding, told), DrainOutputs, told'.gave_up = {}
    PROVE  Drained(stt, stt', outstanding, outstanding', told, told')
<1>. DEFINE C == Under(gen)
            q == stt.finals.queue
            items == Polled(q)
            rest == Unpolled(q)
            after == Delivered(items)
            x == [entries |-> outstanding, told |-> told]
<1>1. stt.finals \in FinalsOf(C) /\ stt.finals.pending \in Nat /\ q \in Seq(Items(C))
  BY DEF Providers, FinalsOf
<1>2. PICK n \in 0 .. stt.finals.pending :
        LET expired == Answer(stt.finals, n)
            done == Delivered(Polled(expired.queue))
        IN  /\ stt' = [stt EXCEPT !.finals = [expired EXCEPT !.queue = Unpolled(expired.queue)]]
            /\ outstanding' = done.entries
            /\ told' = [done.told EXCEPT !.gave_up = @ \union IF n > 0 THEN {"provider"} ELSE {}]
  <2>1. 0 \in 0 .. stt.finals.pending
    BY <1>1
  <2>. QED  BY <2>1 DEF DrainOutputs
<1>3. n = 0
  <2>. DEFINE expired == Answer(stt.finals, n)
              polled == Polled(expired.queue)
              done == Delivered(polled)
              gives == done.told.gave_up \union (IF n > 0 THEN {"provider"} ELSE {})
  <2>1. told' = [done.told EXCEPT !.gave_up = gives]
    BY <1>2
  <2>2. expired \in FinalsOf(C)
    BY <1>1, AnswerOwesTheSame
  <2>. HIDE DEF expired
  <2>3. polled \in Seq(Items(C))
    <3>1. expired.queue \in Seq(Items(C))
      BY <2>2 DEF FinalsOf
    <3>. QED  BY <3>1, PollingSplits
  <2>. HIDE DEF polled
  <2>4. done.told \in ToldOf
    <3>1. x \in Accs(gen)
      BY DEF Accs
    <3>2. PICK f \in [0 .. Len(polled) -> Accs(gen)] : done = f[Len(polled)]
      BY <2>3, <3>1, DeliveredRuns
    <3>3. Len(polled) \in 0 .. Len(polled)
      BY <2>3
    <3>4. done \in Accs(gen)
      BY <3>2, <3>3
    <3>. HIDE DEF done
    <3>. QED  BY <3>4 DEF Accs
  <2>. HIDE DEF done
  <2>5. told'.gave_up = gives
    <3>. HIDE DEF gives
    <3>. QED  BY <2>1, <2>4 DEF ToldOf
  <2>6. ~(n > 0)
    BY <2>5
  <2>. QED  BY <1>1, <2>6
<1>. DEFINE left == [stt.finals EXCEPT !.queue = rest]
            gives == after.told.gave_up \union {}
<1>4. stt' = [stt EXCEPT !.finals = left] /\ outstanding' = after.entries
      /\ told' = [after.told EXCEPT !.gave_up = gives]
  <2>1. Answer(stt.finals, n) = stt.finals
    BY <1>3 DEF Answer
  <2>2. ~(n > 0)
    BY <1>3
  <2>. QED  BY <1>2, <2>1, <2>2
<1>5. items \in Seq(Items(C)) /\ rest \in Seq(Items(C))
  BY <1>1, PollingSplits
<1>6. \A c : Queued(q, c) <=> Queued(items, c) \/ Queued(rest, c)
  BY <1>1, PollingQueued
<1>7. x \in Accs(gen)
  BY DEF Accs
<1>. HIDE DEF items, rest
<1>8. PICK f \in [0 .. Len(items) -> Accs(gen)] :
         /\ f[0] = x /\ \A i \in 1 .. Len(items) : f[i] = Deliver(f[i - 1], items[i])
         /\ after = f[Len(items)]
  BY <1>5, <1>7, DeliveredRuns
<1>9. after.told \in ToldOf
  <2>1. Len(items) \in 0 .. Len(items)
    BY <1>5
  <2>2. after \in Accs(gen)
    BY <1>8, <2>1
  <2>. HIDE DEF after
  <2>. QED  BY <2>2 DEF Accs
<1>10. /\ \A c : Reported(after.told, c) <=> Reported(told, c) \/ Queued(items, c)
       /\ \A y : y \in Range(after.entries) => y \in Range(outstanding)
  <2>1. /\ \A c : Reported(f[Len(items)].told, c) <=> Reported(f[0].told, c) \/ Queued(items, c)
        /\ \A y : y \in Range(f[Len(items)].entries) => y \in Range(f[0].entries)
    BY <1>5, <1>8, RunReports
  <2>2. f[0].told = told /\ f[0].entries = outstanding
    BY <1>8
  <2>. HIDE DEF after
  <2>. QED  BY <1>8, <2>1, <2>2
<1>. HIDE DEF after
<1>11. told'.heard = after.told.heard
  <2>. HIDE DEF gives
  <2>. QED  BY <1>4, <1>9 DEF ToldOf
<1>12. left.queue = rest /\ left.segments = stt.finals.segments
  BY <1>1 DEF FinalsOf
<1>. HIDE DEF left
<1>13. /\ stt'.finals = left /\ stt'.socket = stt.socket /\ stt'.heard = stt.heard /\ stt'.alive = stt.alive
       /\ stt'.pushed = stt.pushed /\ stt'.boundary = stt.boundary /\ stt'.position = stt.position
  BY <1>4 DEF Providers
<1>14. \A c : Reported(told', c) <=> Reported(after.told, c)
  BY <1>11 DEF Reported
<1>15. \A c : Holds(stt', c) <=> Queued(rest, c) \/ c \in stt.finals.segments \union stt.heard \/ Sent(stt.socket, c)
  BY <1>12, <1>13 DEF Holds
<1>16. \A c : Holds(stt, c) <=> Queued(q, c) \/ c \in stt.finals.segments \union stt.heard \/ Sent(stt.socket, c)
  BY DEF Holds
<1>. HIDE DEF q
<1>17. \A c : Reported(told', c) \/ Holds(stt', c) <=> Reported(told, c) \/ Holds(stt, c)
  BY <1>6, <1>10, <1>14, <1>15, <1>16
<1>18. \A y : y \in Range(outstanding') => y \in Range(outstanding)
  BY <1>4, <1>10
<1>. QED  BY <1>12, <1>13, <1>17, <1>18 DEF Drained

\* push_audio on a live stream, field by field.
LEMMA PushIs ==
    ASSUME NEW C, NEW p \in Providers(C), p.alive, NEW chunk \in C, NEW r, r = PushAudio(p, chunk)
    PROVE  /\ r.alive /\ r.socket = Append(p.socket, SocketAudio(chunk)) /\ r.pushed = p.pushed + 1
           /\ r.position = p.position /\ r.boundary = p.boundary /\ r.finals = p.finals /\ r.heard = p.heard
<1>. DEFINE sent == Append(p.socket, SocketAudio(chunk))
            n == p.pushed + 1
<1>1. r = [p EXCEPT !.socket = sent, !.pushed = n]
  BY DEF PushAudio
<1>. HIDE DEF sent, n
<1>2. /\ r.alive = p.alive /\ r.socket = sent /\ r.pushed = n /\ r.position = p.position
      /\ r.boundary = p.boundary /\ r.finals = p.finals /\ r.heard = p.heard
  BY <1>1 DEF Providers
<1>. QED  BY <1>2 DEF sent, n

\* request_finalize, field by field.
LEMMA RequestIs ==
    ASSUME NEW C, NEW p \in Providers(C), NEW r, r = RequestFinalize(p)
    PROVE  /\ r.alive = p.alive /\ r.pushed = p.pushed /\ r.position = p.position /\ r.heard = p.heard
           /\ r.finals.segments = p.finals.segments
           /\ \/ /\ r.socket = p.socket /\ r.boundary = p.boundary /\ p.finals.segments = {}
                 /\ r.finals.queue = p.finals.queue \o <<FinalizeDone>>
              \/ /\ r.socket = Append(p.socket, SocketFinalize) /\ r.boundary = p.pushed
                 /\ r.finals.queue = p.finals.queue
<1>. DEFINE asked == Request(p.finals)
            answered == Answer(asked, 1)
            sent == Append(p.socket, SocketFinalize)
<1>1. p.finals \in FinalsOf(C)
  BY DEF Providers
<1>2. asked.queue = p.finals.queue /\ asked.segments = p.finals.segments
  <2>. DEFINE n == p.finals.pending + 1
  <2>1. asked = [p.finals EXCEPT !.pending = n]
    BY DEF Request
  <2>. HIDE DEF n
  <2>. QED  BY <1>1, <2>1 DEF FinalsOf
<1>3. asked.segments = {} => answered.segments = {} /\ answered.queue = p.finals.queue \o <<FinalizeDone>>
  <2>. SUFFICES ASSUME asked.segments = {}
                PROVE  answered.segments = {} /\ answered.queue = p.finals.queue \o <<FinalizeDone>>
    OBVIOUS
  <2>. DEFINE q == p.finals.queue
  <2>1. answered.segments = {} /\ answered.queue = q \o <<>> \o [i \in 1 .. 1 |-> FinalizeDone]
    BY <1>2 DEF Answer
  <2>2. q \o <<>> = q
    BY <1>1 DEF FinalsOf
  <2>3. [i \in 1 .. 1 |-> FinalizeDone] = <<FinalizeDone>>
    OBVIOUS
  <2>. QED  BY <2>1, <2>2, <2>3
<1>. HIDE DEF asked, answered
<1>4. CASE ~(p.pushed > p.boundary) /\ asked.segments = {}
  <2>1. r = [p EXCEPT !.finals = answered]
    BY <1>4 DEF RequestFinalize, asked, answered
  <2>2. /\ r.alive = p.alive /\ r.pushed = p.pushed /\ r.position = p.position /\ r.heard = p.heard
        /\ r.finals = answered /\ r.socket = p.socket /\ r.boundary = p.boundary
    BY <2>1 DEF Providers
  <2>. QED  BY <1>2, <1>3, <1>4, <2>2
<1>5. CASE ~(~(p.pushed > p.boundary) /\ asked.segments = {})
  <2>1. r = [p EXCEPT !.finals = asked, !.boundary = p.pushed, !.socket = sent]
    BY <1>5 DEF RequestFinalize, asked
  <2>. HIDE DEF sent
  <2>2. /\ r.alive = p.alive /\ r.pushed = p.pushed /\ r.position = p.position /\ r.heard = p.heard
        /\ r.finals = asked /\ r.socket = sent /\ r.boundary = p.pushed
    BY <2>1 DEF Providers
  <2>. QED  BY <1>2, <2>2 DEF sent
<1>. QED  BY <1>4, <1>5

\* Pushing and requesting keep the counters.
LEMMA PushCounts ==
    ASSUME NEW C, NEW p \in Providers(C), p.alive, NEW chunk \in C, Counted(p), NEW r, r = PushAudio(p, chunk)
    PROVE  Counted(r) /\ (FreshText(p) => FreshText(r))
<1>. DEFINE s == p.socket
            x == SocketAudio(chunk)
            a == p.pushed
            b == p.position
            d == p.boundary
<1>1. s \in Seq(SocketItems(C)) /\ a \in Nat /\ b \in Nat /\ d \in Nat /\ x \in SocketItems(C) /\ x # SocketFinalize
  BY SocketIs DEF Providers
<1>2. CountedAs(s, a, b, d)
  BY DEF Counted
<1>3. /\ r.alive /\ r.socket = Append(s, x) /\ r.pushed = a + 1
      /\ r.position = b /\ r.boundary = d /\ r.finals = p.finals /\ r.heard = p.heard
  BY PushIs
<1>. HIDE DEF s, x, a, b, d
<1>4. CountedAs(Append(s, x), a + 1, b, d)
  BY <1>1, <1>2, CountSent
<1>5. All(Append(s, x), SocketFinalize) = All(s, SocketFinalize) + 0 /\ All(s, SocketFinalize) \in Nat
  BY <1>1, AllNext, AllNat
<1>6. Counted(r)
  BY <1>3, <1>4 DEF Counted
<1>7. FreshText(p) => FreshText(r)
  BY <1>3, <1>5 DEF FreshText, s, b, d
<1>. QED  BY <1>6, <1>7

\* A request moves the boundary to what is pushed.
LEMMA RequestCounts ==
    ASSUME NEW C, NEW p \in Providers(C), p.alive, Counted(p), NEW r, r = RequestFinalize(p)
    PROVE  Counted(r) /\ (FreshText(p) => FreshText(r))
<1>. DEFINE s == p.socket
            a == p.pushed
            b == p.position
            d == p.boundary
<1>1. s \in Seq(SocketItems(C)) /\ a \in Nat /\ b \in Nat /\ d \in Nat /\ SocketFinalize \in SocketItems(C)
  BY SocketIs DEF Providers
<1>2. CountedAs(s, a, b, d)
  BY DEF Counted
<1>3. /\ r.alive = p.alive /\ r.pushed = a /\ r.position = b /\ r.heard = p.heard
      /\ r.finals.segments = p.finals.segments
      /\ \/ r.socket = s /\ r.boundary = d
         \/ r.socket = Append(s, SocketFinalize) /\ r.boundary = a
  BY RequestIs
<1>. HIDE DEF s, a, b, d
<1>4. CountedAs(Append(s, SocketFinalize), a, b, a)
  BY <1>1, <1>2, CountSent
<1>5. All(Append(s, SocketFinalize), SocketFinalize) = All(s, SocketFinalize) + 1 /\ All(s, SocketFinalize) \in Nat
  BY <1>1, AllNext, AllNat
<1>6. Counted(r)
  BY <1>2, <1>3, <1>4 DEF Counted
<1>7. CASE r.socket = s /\ r.boundary = d
  BY <1>3, <1>6, <1>7 DEF FreshText, s, b, d
<1>8. CASE r.socket = Append(s, SocketFinalize) /\ r.boundary = a
  <2>1. All(r.socket, SocketFinalize) # 0
    <3>. DEFINE m == All(Append(s, SocketFinalize), SocketFinalize)
                n == All(s, SocketFinalize)
    <3>1. m = n + 1 /\ n \in Nat
      BY <1>5
    <3>. HIDE DEF m, n
    <3>2. m # 0
      BY <3>1
    <3>. QED  BY <1>8, <3>2 DEF m
  <2>2. FreshText(r)
    BY <2>1 DEF FreshText
  <2>. QED  BY <1>6, <2>2
<1>. QED  BY <1>3, <1>7, <1>8

\* A new stream.
LEMMA OpenedCounts == Counted(Opened) /\ FreshText(Opened)
<1>1. /\ Opened.socket = <<>> /\ Opened.pushed = 0 /\ Opened.position = 0 /\ Opened.boundary = 0
      /\ Opened.heard = {} /\ Opened.finals.segments = {}
  BY DEF Opened, Finals0
<1>2. All(<<>>, SocketFinalize) = 0 /\ Len(<<>>) = 0 /\ \A i : ~LastAt(<<>>, i)
  BY NoneInEmpty DEF LastAt
<1>. QED  BY <1>1, <1>2 DEF Counted, CountedAs, FreshText

-----------------------------------------------------------------------------
(* What never shrinks. *)

Grows(t, r) ==
    /\ t.gave_up \subseteq r.gave_up /\ t.timed_out \subseteq r.timed_out
    /\ t.reached \subseteq r.reached /\ t.ended \subseteq r.ended

\* Every step.
LEMMA HistoryGrows ==
    ASSUME Inv, [Next]_vars
    PROVE  scope' = scope /\ Grows(told, told')
<1>1. Typed /\ Ledger(outstanding, told) /\ told \in ToldOf
  BY DEF Inv, Typed
<1>2. scope' = scope
  BY DEF Next, AgentStep, ActorStep, VendorStep, ReadCommand, VendorOnly, AgentOnly, vars,
         SendAudio, SendEnd, CloseNotFound, UpdateConfig, ApplyConfig, SendBarrier, SendStop,
         OnAudio, OnEnd, OnParkable, OnStop, ReopenDrain, ReopenStart, Push, Drain, RunParked,
         ExpireDeadlines, ForgetFront, Poll, BackoffPasses, VendorTakesNext, VendorSpeaks, Lose
<1>. SUFFICES Grows(told, told')
  BY <1>2
<1>3. Grows(told, told)
  BY DEF Grows
<1>4. CASE AgentStep \/ VendorStep \/ ReopenStart \/ Push \/ OnAudio \/ OnParkable \/ OnStop \/ BackoffPasses \/ UNCHANGED vars
  <2>1. told' = told
    BY <1>4 DEF AgentStep, VendorStep, VendorOnly, AgentOnly, vars,
         SendAudio, SendEnd, CloseNotFound, UpdateConfig, ApplyConfig, SendBarrier, SendStop,
         OnAudio, OnParkable, OnStop, ReopenStart, Push, BackoffPasses, VendorTakesNext, VendorSpeaks, Lose
  <2>. QED  BY <1>3, <2>1
<1>5. CASE OnEnd
  <2>. DEFINE key == Head(cmds).arg[1]
              more == told.ended \union {key}
              t == [told EXCEPT !.ended = more]
              shut == Append(t.closed, key)
              no == t.refused \union {key}
  <2>1. told' = t \/ told' = [[t EXCEPT !.closed = shut] EXCEPT !.refused = no]
    <3>. DEFINE c == Close(t, key)
    <3>1. told' = t \/ told' = [c EXCEPT !.refused = @ \union {key}]
      BY <1>5 DEF OnEnd
    <3>2. c = [t EXCEPT !.closed = shut] /\ c.refused = t.refused
      <4>. HIDE DEF key
      <4>1. c = [t EXCEPT !.closed = shut]
        BY DEF Close
      <4>. HIDE DEF shut, more, c
      <4>. QED  BY <1>1, <4>1 DEF ToldOf
    <3>. QED  BY <3>1, <3>2
  <2>. HIDE DEF key, no, shut
  <2>2. told.ended \subseteq more
    OBVIOUS
  <2>. HIDE DEF more
  <2>. QED  BY <1>1, <2>1, <2>2 DEF Grows, ToldOf
<1>6. CASE ReopenDrain \/ Drain \/ Poll
  <2>1. DrainOutputs
    BY <1>6 DEF ReopenDrain, Drain, Poll
  <2>2. Drain_(stt', outstanding', told')
    BY <1>1, <2>1, DrainIs DEF Typed
  <2>. QED  BY <2>2 DEF Drain_, Grows
<1>7. CASE ForgetFront
  <2>. DEFINE gives == told.gave_up \union {"actor"}
  <2>1. told' = [told EXCEPT !.gave_up = gives]
    BY <1>7 DEF ForgetFront
  <2>2. told.gave_up \subseteq gives
    OBVIOUS
  <2>. HIDE DEF gives
  <2>. QED  BY <1>1, <2>1, <2>2 DEF ToldOf, Grows
<1>8. CASE ExpireDeadlines
  <2>1. PICK i \in Waiting : told' = LateClose(told, outstanding[i].key)
    BY <1>8 DEF ExpireDeadlines, LateClose
  <2>. DEFINE k == outstanding[i].key
              shut == Append(told.closed, k)
              c == [told EXCEPT !.closed = shut]
              late == c.timed_out \union {k}
  <2>2. told' = [c EXCEPT !.timed_out = late]
    BY <2>1 DEF LateClose, Close
  <2>. HIDE DEF k, shut
  <2>3. told.timed_out \subseteq late
    BY <1>1 DEF ToldOf
  <2>. HIDE DEF late
  <2>. QED  BY <1>1, <2>2, <2>3 DEF ToldOf, Grows
<1>9. CASE RunParked
  <2>1. CASE told' = Reached(parked)
    <3>. DEFINE x == [cmd |-> parked.cmd, by |-> parked.arg[1], owing |-> Owing,
                      midway |-> stt.alive /\ stt.pushed > stt.boundary]
                more == told.reached \union {x}
    <3>1. told' = [told EXCEPT !.reached = more]
      BY <2>1 DEF Reached
    <3>2. told.reached \subseteq more
      OBVIOUS
    <3>. HIDE DEF more
    <3>. QED  BY <1>1, <3>1, <3>2 DEF ToldOf, Grows
  <2>2. CASE told' = told
    BY <1>3, <2>2
  <2>. QED  BY <1>9, <2>1, <2>2 DEF RunParked
<1>. QED  BY <1>4, <1>5, <1>6, <1>7, <1>8, <1>9 DEF Next, ActorStep, ReadCommand
-----------------------------------------------------------------------------
(* The counters of the stream, and that a stopped stream is dead. *)
Counts ==
    /\ Counted(stt)
    /\ told.gave_up = {} => FreshText(stt)
    /\ pc = "stopped" => ~stt.alive

\* A new actor has a new stream.
LEMMA InitCounts == Init => Counts
<1>. SUFFICES ASSUME Init PROVE Counts
  OBVIOUS
<1>1. stt = Opened /\ pc = "select"
  BY DEF Init
<1>. QED  BY <1>1, OpenedCounts DEF Counts

\* The vendor's steps.
LEMMA VendorKeepsCounts == Inv /\ Owners /\ Counts /\ VendorStep => Counts'
<1>. SUFFICES ASSUME Inv, Owners, Counts, VendorStep PROVE Counts'
  OBVIOUS
<1>1. told' = told /\ pc' = pc
  BY DEF VendorStep, VendorOnly, VendorTakesNext, VendorSpeaks, Lose
<1>2. stt \in Providers(Under(gen)) /\ Counted(stt) /\ (told.gave_up = {} => FreshText(stt)) /\ stt.alive
      /\ (pc = "stopped" => ~stt.alive)
  BY DEF Inv, Typed, Counts, VendorStep, VendorTakesNext, VendorSpeaks, Lose
<1>3. told.gave_up = {} => MarkersSent(stt)
  BY <1>2 DEF Owners, TextsRight, Right
<1>4. CASE Lose
  <2>1. ~stt'.alive
    BY <1>2, <1>4, LostBooks DEF Lose, Owners
  <2>. QED  BY <1>1, <2>1 DEF Counts, Counted, FreshText
<1>5. CASE VendorTakesNext \/ VendorSpeaks
  <2>1. \/ stt' \in {VendorSegments(stt), VendorInterims(stt)}
        \/ stt.socket # <<>> /\ Head(stt.socket).kind = "audio" /\ stt' = VendorHears(stt)
        \/ stt.socket # <<>> /\ Head(stt.socket).kind # "audio" /\ stt' = VendorFinalizes(stt)
    BY <1>5 DEF VendorTakesNext, VendorSpeaks
  <2>2. Counted(stt') /\ (FreshText(stt) /\ MarkersSent(stt) => FreshText(stt'))
    BY <1>2, <2>1, VendorCounts
  <2>. QED  BY <1>1, <1>2, <1>3, <2>2 DEF Counts
<1>. QED  BY <1>4, <1>5 DEF VendorStep

\* Every step.
LEMMA NextCounts == Inv /\ Owners /\ Counts /\ [Next]_vars => Counts'
<1>. SUFFICES ASSUME Inv, Owners, Counts, [Next]_vars PROVE Counts'
  OBVIOUS
<1>1. Typed /\ Ledger(outstanding, told) /\ stt \in Providers(Under(gen)) /\ gen \in Nat /\ told \in ToldOf
      /\ outstanding \in Seq(Entries(gen))
  BY DEF Inv, Typed
<1>2. Counted(stt) /\ (told.gave_up = {} => FreshText(stt)) /\ (pc = "stopped" => ~stt.alive)
  BY DEF Counts
<1>3. told'.gave_up = {} => told.gave_up = {}
  BY HistoryGrows DEF Grows
<1>4. CASE VendorStep
  BY <1>4, VendorKeepsCounts
<1>5. CASE stt' = stt /\ (pc' = "stopped" => pc = "stopped")
  BY <1>2, <1>3, <1>5 DEF Counts
<1>6. CASE OnStop
  <2>1. stt' = [stt EXCEPT !.alive = FALSE, !.finals = Finals0, !.socket = <<>>, !.heard = {}]
    BY <1>6 DEF OnStop
  <2>2. ~stt'.alive
    BY <1>1, <2>1, StoppedBooks DEF Owners
  <2>. QED  BY <2>2 DEF Counts, Counted, FreshText
<1>7. CASE pc' # "stopped" /\ stt' = Opened
  BY <1>7, OpenedCounts DEF Counts
<1>8. CASE OnEnd
  <2>1. \/ stt.alive /\ stt' = RequestFinalize(stt) /\ pc' # "stopped"
        \/ stt' = stt /\ pc' # "stopped"
    BY <1>8 DEF OnEnd, CanFinalize
  <2>2. CASE stt.alive /\ stt' = RequestFinalize(stt) /\ pc' # "stopped"
    BY <1>1, <1>2, <1>3, <2>2, RequestCounts DEF Counts
  <2>. QED  BY <1>5, <2>1, <2>2
<1>9. CASE Push
  <2>. DEFINE chunk == <<hand[1], hand[2], gen>>
  <2>1. stt' = PushAudio(stt, chunk) /\ pc' # "stopped" /\ hand # <<>>
    BY <1>9 DEF Push, Inv, HandInTurn, InHand
  <2>2. chunk \in Under(gen)
    <3>1. hand \in Keys \X Nat
      BY <2>1 DEF Inv, HandInTurn
    <3>. QED  BY <3>1 DEF Under
  <2>. HIDE DEF chunk
  <2>3. CASE stt.alive
    BY <1>1, <1>2, <1>3, <2>1, <2>2, <2>3, PushCounts DEF Counts
  <2>4. CASE ~stt.alive
    <3>1. stt' = stt
      BY <2>1, <2>4 DEF PushAudio
    <3>. QED  BY <1>5, <2>1, <3>1
  <2>. QED  BY <2>3, <2>4
<1>10. CASE ReopenDrain \/ Drain \/ Poll
  <2>1. DrainOutputs /\ pc' # "stopped"
    BY <1>10 DEF ReopenDrain, Drain, Poll
  <2>2. stt'.alive = stt.alive /\ stt'.socket = stt.socket /\ stt'.position = stt.position
        /\ stt'.pushed = stt.pushed /\ stt'.boundary = stt.boundary
    <3>1. PICK f : stt' = [stt EXCEPT !.finals = f]
      <4>1. PICK n \in Nat : stt' = [stt EXCEPT !.finals = [Answer(stt.finals, n) EXCEPT !.queue = Unpolled(Answer(stt.finals, n).queue)]]
        <5>1. stt.finals.pending \in Nat
          BY <1>1 DEF Providers, FinalsOf
        <5>. QED  BY <2>1, <5>1 DEF DrainOutputs
      <4>. QED  BY <4>1
    <3>. QED  BY <1>1, <3>1 DEF Providers
  <2>3. Counted(stt')
    BY <1>2, <2>2 DEF Counted
  <2>4. ASSUME told'.gave_up = {} PROVE FreshText(stt')
    <3>1. Drained(stt, stt', outstanding, outstanding', told, told')
      BY <1>1, <2>1, <2>4, DrainConserves
    <3>2. stt'.heard = stt.heard /\ stt'.finals.segments = stt.finals.segments
      BY <3>1 DEF Drained
    <3>. QED  BY <1>2, <1>3, <2>2, <2>4, <3>2 DEF FreshText
  <2>. QED  BY <2>1, <2>3, <2>4 DEF Counts
<1>11. CASE AgentStep \/ OnAudio \/ OnParkable \/ ExpireDeadlines \/ ForgetFront \/ BackoffPasses \/ UNCHANGED vars
  <2>1. stt' = stt /\ (pc' = "stopped" => pc = "stopped")
    BY <1>11 DEF AgentStep, AgentOnly, vars,
         SendAudio, SendEnd, CloseNotFound, UpdateConfig, ApplyConfig, SendBarrier, SendStop,
         OnAudio, OnParkable, BackoffPasses, ExpireDeadlines, ForgetFront
  <2>. QED  BY <1>5, <2>1
<1>12. CASE ReopenStart \/ RunParked
  <2>1. pc' # "stopped" /\ (stt' = stt \/ stt' = Opened)
    BY <1>12 DEF ReopenStart, RunParked
  <2>. QED  BY <1>5, <1>7, <2>1
<1>. QED  BY <1>4, <1>6, <1>8, <1>9, <1>10, <1>11, <1>12 DEF Next, ActorStep, ReadCommand

\* They are right in every state.
LEMMA CountsHold == Spec => []Counts
<1>1. Init => Inv /\ Owners /\ Counts
  BY InitInv, InitOwners, InitCounts
<1>2. Inv /\ Owners /\ Counts /\ [Next]_vars => (Inv /\ Owners /\ Counts)'
  BY NextInv, NextOwners, NextCounts
<1>. QED  BY <1>1, <1>2, PTL DEF Spec

-----------------------------------------------------------------------------
(* What the provider's own steps leave of what it holds. *)

\* Finals in a concatenation.
LEMMA QueuedJoined ==
    ASSUME NEW S, NEW q \in Seq(S), NEW t \in Seq(S), NEW c
    PROVE  Queued(q \o t, c) <=> Queued(q, c) \/ Queued(t, c)
<1>. DEFINE m == Len(q)
            n == Len(t)
            u == q \o t
<1>1. /\ m \in Nat /\ n \in Nat /\ DOMAIN q = 1 .. m /\ DOMAIN t = 1 .. n /\ DOMAIN u = 1 .. m + n
      /\ \A i \in 1 .. m : u[i] = q[i]
      /\ \A i \in 1 .. n : u[m + i] = t[i]
  OBVIOUS
<1>. HIDE DEF m, n, u
<1>2. ASSUME NEW i \in DOMAIN u, u[i].kind = "final", c \in u[i].text
      PROVE  Queued(q, c) \/ Queued(t, c)
  <2>1. CASE i <= m
    <3>1. i \in DOMAIN q /\ u[i] = q[i]
      BY <1>1, <1>2, <2>1
    <3>. QED  BY <1>2, <3>1 DEF Queued
  <2>2. CASE i > m
    <3>1. i - m \in 1 .. n /\ m + (i - m) = i
      BY <1>1, <1>2, <2>2
    <3>2. i - m \in DOMAIN t /\ u[i] = t[i - m]
      BY <1>1, <3>1
    <3>. QED  BY <1>2, <3>2 DEF Queued
  <2>. QED  BY <1>1, <1>2, <2>1, <2>2
<1>3. Queued(q, c) => Queued(u, c)
  <2>1. \A i \in DOMAIN q : i \in DOMAIN u /\ u[i] = q[i]
    BY <1>1
  <2>. QED  BY <2>1 DEF Queued
<1>4. Queued(t, c) => Queued(u, c)
  <2>1. \A i \in DOMAIN t : m + i \in DOMAIN u /\ u[m + i] = t[i]
    BY <1>1
  <2>. QED  BY <2>1 DEF Queued
<1>5. Queued(u, c) <=> Queued(q, c) \/ Queued(t, c)
  BY <1>2, <1>3, <1>4 DEF Queued
<1>. QED  BY <1>5 DEF u

\* Partials hold nothing; an answer queues the text there is.
LEMMA TextQueued ==
    ASSUME NEW C, NEW f \in FinalsOf(C), NEW T \in SUBSET C, NEW c
    PROVE  /\ Queued(Interim(f, T).queue, c) <=> Queued(f.queue, c)
           /\ Queued(Segment(f, T).queue, c) <=> Queued(f.queue, c)
<1>. DEFINE x == Partial(f.segments \union T)
            q == Append(f.queue, x)
            g == f.segments \union T
<1>1. /\ Interim(f, T) = IF T = {} THEN f ELSE [f EXCEPT !.queue = q]
      /\ Segment(f, T) = IF T = {} THEN f ELSE [f EXCEPT !.segments = g, !.queue = q]
  BY DEF Interim, Segment
<1>2. Queued(q, c) <=> Queued(f.queue, c)
  <2>1. f.queue \in Seq(Items(C)) /\ f.segments \union T \in SUBSET C
    BY DEF FinalsOf
  <2>2. x \in Items(C)
    BY <2>1, ItemsAre
  <2>3. x.kind # "final"
    BY DEF Partial
  <2>. HIDE DEF x
  <2>. QED  BY <2>1, <2>2, <2>3, QueuedNext
<1>. HIDE DEF q, g
<1>3. (Interim(f, T).queue = f.queue \/ Interim(f, T).queue = q) /\ (Segment(f, T).queue = f.queue \/ Segment(f, T).queue = q)
  BY <1>1 DEF FinalsOf
<1>. QED  BY <1>2, <1>3

\* The first of the answered finalizes gets the text there is.
LEMMA AnswerQueued ==
    ASSUME NEW C, NEW f \in FinalsOf(C), NEW c
    PROVE  Queued(Answer(f, 1).queue, c) <=> Queued(f.queue, c) \/ c \in f.segments
<1>. DEFINE flushed == IF f.segments = {} THEN <<>> ELSE <<Final(f.segments)>>
            marks == [i \in 1 .. 1 |-> FinalizeDone]
            q == f.queue
<1>1. q \in Seq(Items(C)) /\ f.segments \in SUBSET C
  BY DEF FinalsOf
<1>2. Answer(f, 1).queue = q \o flushed \o marks
  <2>1. 1 # 0
    OBVIOUS
  <2>2. Answer(f, 1) = [queue |-> q \o flushed \o marks, pending |-> f.pending - 1, segments |-> {}]
    BY <2>1, Zenon DEF Answer
  <2>. HIDE DEF q, flushed, marks
  <2>. QED  BY <2>2
<1>3. marks \in Seq(Items(C)) /\ ~Queued(marks, c)
  <2>1. FinalizeDone \in Items(C) /\ FinalizeDone.kind # "final"
    BY ItemsAre DEF FinalizeDone
  <2>2. DOMAIN marks = 1 .. 1 /\ \A i \in 1 .. 1 : marks[i] = FinalizeDone
    OBVIOUS
  <2>3. marks \in Seq(Items(C))
    BY <2>1
  <2>. HIDE DEF marks
  <2>. QED  BY <2>1, <2>2, <2>3 DEF Queued
<1>4. flushed \in Seq(Items(C)) /\ (Queued(flushed, c) <=> c \in f.segments)
  <2>1. CASE f.segments = {}
    <3>1. flushed = <<>>
      BY <2>1
    <3>. HIDE DEF flushed
    <3>. QED  BY <2>1, <3>1 DEF Queued
  <2>2. CASE f.segments # {}
    <3>. DEFINE x == Final(f.segments)
    <3>1. x \in Items(C) /\ x.kind = "final" /\ x.text = f.segments
      BY <1>1, ItemsAre DEF Final
    <3>2. flushed = <<x>>
      BY <2>2
    <3>. HIDE DEF flushed, x
    <3>3. flushed \in Seq(Items(C)) /\ DOMAIN flushed = {1} /\ flushed[1] = x
      BY <3>1, <3>2
    <3>. QED  BY <3>1, <3>3 DEF Queued
  <2>. QED  BY <2>1, <2>2
<1>. HIDE DEF flushed, marks, q
<1>5. q \o flushed \in Seq(Items(C)) /\ (Queued(q \o flushed, c) <=> Queued(q, c) \/ Queued(flushed, c))
  BY <1>1, <1>4, QueuedJoined
<1>. DEFINE w == q \o flushed
<1>. HIDE DEF w
<1>6. Queued(w \o marks, c) <=> Queued(w, c) \/ Queued(marks, c)
  BY <1>3, <1>5, QueuedJoined DEF w
<1>. QED  BY <1>2, <1>3, <1>4, <1>5, <1>6 DEF w, q

\* No text of the vendor is dropped while it is fresh.
LEMMA VendorConserves ==
    ASSUME NEW C, NEW p \in Providers(C), p.alive, FreshText(p), MarkersSent(p), NEW r,
           \/ r \in {VendorSegments(p), VendorInterims(p)}
           \/ p.socket # <<>> /\ Head(p.socket).kind = "audio" /\ r = VendorHears(p)
           \/ p.socket # <<>> /\ Head(p.socket).kind # "audio" /\ r = VendorFinalizes(p)
    PROVE  \A c : Holds(r, c) <=> Holds(p, c)
<1>. TAKE c
<1>. DEFINE f == p.finals
            T == p.heard
            s == p.socket
<1>1. /\ f \in FinalsOf(C) /\ T \in SUBSET C /\ s \in Seq(SocketItems(C)) /\ f.pending \in Nat
      /\ p.position \in Nat /\ p.boundary \in Nat
  BY DEF Providers, FinalsOf
<1>2. /\ Queued(Interim(f, T).queue, c) <=> Queued(f.queue, c)
      /\ Queued(Segment(f, T).queue, c) <=> Queued(f.queue, c)
  BY <1>1, TextQueued
<1>3. /\ Interim(f, T).segments = f.segments /\ Segment(f, T).segments = f.segments \union T
      /\ Segment(f, T) \in FinalsOf(C) /\ Segment(f, T).pending = f.pending
  BY <1>1, SegmentsAre
<1>4. Holds(p, c) <=> Queued(f.queue, c) \/ c \in f.segments \union T \/ Sent(s, c)
  BY DEF Holds
<1>5. Holds(r, c) <=> Queued(r.finals.queue, c) \/ c \in r.finals.segments \union r.heard \/ Sent(r.socket, c)
  BY DEF Holds
<1>6. CASE r = VendorInterims(p)
  <2>1. r.finals = OnInterim(p) /\ r.socket = s /\ r.heard = T
    BY <1>6, VendorFields
  <2>2. r.finals = f \/ r.finals = Interim(f, T)
    BY <2>1 DEF OnInterim
  <2>. QED  BY <1>2, <1>3, <1>4, <1>5, <2>1, <2>2
<1>7. CASE r = VendorSegments(p)
  <2>1. r.finals = OnSegment(p) /\ r.socket = s /\ r.heard = {}
    BY <1>7, VendorFields
  <2>2. CASE r.finals = Segment(f, T)
    BY <1>2, <1>3, <1>4, <1>5, <2>1, <2>2
  <2>3. CASE IsLate(p) /\ r.finals = f
    <3>1. f.pending = 0 /\ p.position <= p.boundary
      BY <2>3 DEF IsLate
    <3>2. ~(p.boundary < p.position)
      BY <1>1, <3>1
    <3>3. All(s, SocketFinalize) = 0
      BY <3>1 DEF MarkersSent
    <3>4. T = {}
      BY <3>2, <3>3 DEF FreshText
    <3>. QED  BY <1>4, <1>5, <2>1, <2>3, <3>4
  <2>. QED  BY <2>1, <2>2, <2>3 DEF OnSegment
<1>8. CASE s # <<>> /\ Head(s).kind = "audio" /\ r = VendorHears(p)
  <2>1. r.finals = f /\ r.socket = Tail(s) /\ r.heard = T \union Head(s).chunk
    BY <1>8, VendorFields
  <2>2. Sent(s, c) <=> Sent(Tail(s), c) \/ c \in Head(s).chunk
    BY <1>1, <1>8, SentRest
  <2>. QED  BY <1>4, <1>5, <2>1, <2>2
<1>9. CASE s # <<>> /\ Head(s).kind # "audio" /\ r = VendorFinalizes(p)
  <2>1. r.finals = OnFinalizeAnswer(f, T) /\ r.socket = Tail(s) /\ r.heard = {}
    BY <1>9, VendorFields
  <2>2. Sent(s, c) <=> Sent(Tail(s), c) \/ c \in Head(s).chunk
    BY <1>1, <1>9, SentRest
  <2>3. Head(s) = SocketFinalize /\ Tail(s) \in Seq(SocketItems(C))
    <3>1. Head(s) \in SocketItems(C) /\ Tail(s) \in Seq(SocketItems(C))
      BY <1>1, <1>9
    <3>. QED  BY <1>9, <3>1, SocketIs
  <2>4. Head(s).chunk = {}
    BY <2>3 DEF SocketFinalize
  <2>5. f.pending # 0
    <3>. DEFINE n == All(Tail(s), SocketFinalize)
    <3>1. All(s, SocketFinalize) = n + 1 /\ n \in Nat
      BY <1>1, <1>9, <2>3, AllRest, AllNat
    <3>2. f.pending = All(s, SocketFinalize)
      BY DEF MarkersSent
    <3>. HIDE DEF n
    <3>. QED  BY <3>1, <3>2
  <2>. DEFINE g == Segment(f, T)
  <2>6. r.finals = Answer(g, 1)
    BY <2>1, <2>5 DEF OnFinalizeAnswer
  <2>7. g \in FinalsOf(C) /\ g.pending = f.pending /\ g.segments = f.segments \union T
        /\ (Queued(g.queue, c) <=> Queued(f.queue, c))
    BY <1>2, <1>3
  <2>. HIDE DEF g
  <2>8. Queued(Answer(g, 1).queue, c) <=> Queued(g.queue, c) \/ c \in g.segments
    BY <2>7, AnswerQueued
  <2>9. Answer(g, 1).segments = {}
    <3>1. 1 \in 1 .. g.pending
      BY <1>1, <2>5, <2>7
    <3>2. \E U : U \in SUBSET C
      BY <1>1
    <3>. QED  BY <2>7, <3>1, <3>2, SegmentsAre
  <2>. QED  BY <1>4, <1>5, <2>1, <2>2, <2>4, <2>6, <2>7, <2>8, <2>9
<1>. QED  BY <1>6, <1>7, <1>8, <1>9

\* A chunk that is pushed is held, and a request drops nothing.
LEMMA PushHolds ==
    ASSUME NEW C, NEW p \in Providers(C), p.alive, NEW chunk \in C, NEW r, r = PushAudio(p, chunk)
    PROVE  \A c : Holds(r, c) <=> Holds(p, c) \/ c = chunk
<1>. TAKE c
<1>. DEFINE x == SocketAudio(chunk)
<1>1. r.socket = Append(p.socket, x) /\ r.finals = p.finals /\ r.heard = p.heard
  BY PushIs
<1>2. p.socket \in Seq(SocketItems(C)) /\ x \in SocketItems(C) /\ x.chunk = {chunk}
  BY SocketIs DEF Providers, SocketAudio
<1>. HIDE DEF x
<1>3. Sent(r.socket, c) <=> Sent(p.socket, c) \/ c = chunk
  BY <1>1, <1>2, SentNext
<1>. QED  BY <1>1, <1>3 DEF Holds

\* A request drops nothing.
LEMMA RequestHolds ==
    ASSUME NEW C, NEW p \in Providers(C), NEW r, r = RequestFinalize(p)
    PROVE  \A c : Holds(r, c) <=> Holds(p, c)
<1>. TAKE c
<1>1. /\ r.heard = p.heard /\ r.finals.segments = p.finals.segments
      /\ \/ r.socket = p.socket /\ r.finals.queue = p.finals.queue \o <<FinalizeDone>>
         \/ r.socket = Append(p.socket, SocketFinalize) /\ r.finals.queue = p.finals.queue
  BY RequestIs
<1>2. p.socket \in Seq(SocketItems(C)) /\ p.finals.queue \in Seq(Items(C)) /\ SocketFinalize \in SocketItems(C)
      /\ FinalizeDone \in Items(C) /\ FinalizeDone.kind # "final" /\ SocketFinalize.chunk = {}
  BY SocketIs, ItemsAre DEF Providers, FinalsOf, FinalizeDone, SocketFinalize
<1>3. Sent(Append(p.socket, SocketFinalize), c) <=> Sent(p.socket, c)
  BY <1>2, SentNext
<1>4. Queued(p.finals.queue \o <<FinalizeDone>>, c) <=> Queued(p.finals.queue, c)
  <2>1. p.finals.queue \o <<FinalizeDone>> = Append(p.finals.queue, FinalizeDone)
    BY <1>2, JoinIsAppend
  <2>2. Queued(Append(p.finals.queue, FinalizeDone), c) <=> Queued(p.finals.queue, c)
    BY <1>2, QueuedNext
  <2>. QED  BY <2>1, <2>2
<1>. QED  BY <1>1, <1>3, <1>4 DEF Holds

-----------------------------------------------------------------------------
(* A behaviour without losses, late answers and swaps in mid-utterance. *)

Undisturbed == losses = scope.losses /\ told.gave_up = {} /\ told.timed_out = {} /\ SwapWaits

\* Its stream lives and none of its entries is timed out.
NoneLate(entries) == \A y \in Range(entries) : ~y.timed_out
Calm ==
    /\ losses \in Nat /\ losses <= scope.losses
    /\ Undisturbed /\ pc # "stopped" => stt.alive /\ pc \notin {"reopen", "start"} /\ NoneLate(outstanding)

\* At first nothing is lost or late.
LEMMA InitCalm == Init => Calm
<1>. SUFFICES ASSUME Init PROVE Calm
  OBVIOUS
<1>1. scope \in Scopes /\ losses = scope.losses /\ stt = Opened /\ pc = "select" /\ outstanding = <<>>
  BY DEF Init
<1>2. losses \in Nat
  BY <1>1, ActorAssumption
<1>3. Opened.alive
  BY DEF Opened
<1>. QED  BY <1>1, <1>2, <1>3 DEF Calm, NoneLate, Range

\* Whatever is undisturbed was.
LEMMA StaysUndisturbed ==
    ASSUME Inv, Calm, [Next]_vars
    PROVE  /\ losses' \in Nat /\ losses' <= scope'.losses
           /\ Undisturbed' => Undisturbed /\ losses' = losses
<1>1. scope' = scope /\ Grows(told, told')
  BY HistoryGrows
<1>2. losses \in Nat /\ losses <= scope.losses /\ scope.losses \in Nat
  BY ActorAssumption DEF Calm, Inv, Typed
<1>3. losses' = losses \/ (losses > 0 /\ losses' = losses - 1)
  BY DEF Next, AgentStep, ActorStep, VendorStep, ReadCommand, VendorOnly, AgentOnly, vars,
         SendAudio, SendEnd, CloseNotFound, UpdateConfig, ApplyConfig, SendBarrier, SendStop,
         OnAudio, OnEnd, OnParkable, OnStop, ReopenDrain, ReopenStart, Push, Drain, RunParked,
         ExpireDeadlines, ForgetFront, Poll, BackoffPasses, VendorTakesNext, VendorSpeaks, Lose
<1>4. losses' \in Nat /\ losses' <= scope'.losses
  BY <1>1, <1>2, <1>3
<1>5. ASSUME Undisturbed' PROVE Undisturbed /\ losses' = losses
  <2>1. losses' = scope.losses
    BY <1>1, <1>5 DEF Undisturbed
  <2>2. losses' = losses
    BY <1>2, <1>3, <2>1
  <2>3. SwapWaits
    BY <1>1, <1>5 DEF Undisturbed, SwapWaits, Grows
  <2>. QED  BY <1>1, <1>5, <2>1, <2>2, <2>3 DEF Undisturbed, Grows
<1>. QED  BY <1>4, <1>5

\* One more entry, that is not late.
LEMMA LateNext ==
    ASSUME NEW S, NEW e \in Seq(S), NEW y \in S, NoneLate(e), ~y.timed_out
    PROVE  NoneLate(Append(e, y))
<1>. DEFINE t == Append(e, y)
<1>1. /\ DOMAIN t = DOMAIN e \union {Len(e) + 1} /\ t[Len(e) + 1] = y
      /\ \A j \in DOMAIN e : t[j] = e[j]
  BY AppendIs
<1>. HIDE DEF t
<1>2. \A j \in DOMAIN t : ~t[j].timed_out
  BY <1>1 DEF NoneLate, Range
<1>. QED  BY <1>2 DEF NoneLate, Range, t

\* Every step of an undisturbed behaviour.
LEMMA NextCalm == Inv /\ Calm /\ [Next]_vars => Calm'
<1>. SUFFICES ASSUME Inv, Calm, [Next]_vars, Undisturbed', pc' # "stopped"
              PROVE  stt'.alive /\ pc' \notin {"reopen", "start"} /\ NoneLate(outstanding')
  BY StaysUndisturbed DEF Calm
<1>1. Typed /\ Ledger(outstanding, told) /\ stt \in Providers(Under(gen)) /\ gen \in Nat /\ told \in ToldOf
      /\ outstanding \in Seq(Entries(gen))
  BY DEF Inv, Typed
<1>2. Undisturbed /\ losses' = losses /\ told'.gave_up = {} /\ told'.timed_out = {} /\ losses \in Nat
  BY StaysUndisturbed DEF Undisturbed, Calm
<1>3. pc # "stopped"
  BY DEF Next, AgentStep, ActorStep, VendorStep, ReadCommand, VendorOnly, AgentOnly, vars, Reads,
         SendAudio, SendEnd, CloseNotFound, UpdateConfig, ApplyConfig, SendBarrier, SendStop,
         OnAudio, OnEnd, OnParkable, OnStop, ReopenDrain, ReopenStart, Push, Drain, RunParked,
         ExpireDeadlines, ForgetFront, Poll, BackoffPasses, VendorTakesNext, VendorSpeaks, Lose
<1>4. stt.alive /\ pc \notin {"reopen", "start"} /\ NoneLate(outstanding)
  BY <1>2, <1>3 DEF Calm
<1>5. CASE AgentStep \/ OnParkable \/ BackoffPasses \/ UNCHANGED vars
  <2>1. stt' = stt /\ outstanding' = outstanding /\ pc' \in {pc, "parked"}
    BY <1>5 DEF AgentStep, AgentOnly, vars,
         SendAudio, SendEnd, CloseNotFound, UpdateConfig, ApplyConfig, SendBarrier, SendStop,
         OnParkable, BackoffPasses
  <2>. QED  BY <1>4, <2>1
<1>6. CASE VendorStep
  <2>1. pc' = pc /\ outstanding' = outstanding
    BY <1>6 DEF VendorStep, VendorOnly, VendorTakesNext, VendorSpeaks, Lose
  <2>2. ~Lose
    BY <1>2 DEF Lose
  <2>3. stt' \in {VendorHears(stt), VendorFinalizes(stt), VendorSegments(stt), VendorInterims(stt)}
    BY <1>6, <2>2 DEF VendorStep, VendorTakesNext, VendorSpeaks
  <2>. QED  BY <1>1, <1>4, <2>1, <2>3, VendorFields
<1>7. CASE OnAudio
  <2>1. stt' = stt /\ outstanding' = outstanding /\ pc' = "push"
    BY <1>4, <1>7 DEF OnAudio, MayReopen
  <2>. QED  BY <1>4, <2>1
<1>8. CASE OnEnd
  <2>. DEFINE y == Entry(KeyOf(Head(cmds)))
  <2>1. stt' = RequestFinalize(stt) /\ outstanding' = Append(outstanding, y) /\ pc' = "drain"
    BY <1>4, <1>8 DEF OnEnd, CanFinalize, KeyOf
  <2>2. ~y.timed_out /\ y \in Entries(gen)
    <3>1. Open(told.ended, KeyOf(Head(cmds)))
      BY <1>8, ReadIs DEF OnEnd
    <3>. QED  BY <3>1 DEF Entry, Entries, Open
  <2>3. NoneLate(outstanding')
    <3>. HIDE DEF y
    <3>. QED  BY <1>1, <1>4, <2>1, <2>2, LateNext
  <2>4. stt'.alive
    BY <1>1, <1>4, <2>1, RequestIs
  <2>. QED  BY <2>1, <2>3, <2>4
<1>9. CASE OnStop
  BY <1>9 DEF OnStop
<1>10. CASE ReopenDrain \/ Drain \/ Poll
  <2>1. DrainOutputs /\ pc' = "parked"
    BY <1>4, <1>10 DEF ReopenDrain, Drain, Poll
  <2>2. Drained(stt, stt', outstanding, outstanding', told, told')
    BY <1>1, <1>2, <2>1, DrainConserves
  <2>. QED  BY <1>4, <2>1, <2>2 DEF Drained, NoneLate
<1>11. CASE ReopenStart
  BY <1>4, <1>11 DEF ReopenStart
<1>12. CASE Push
  <2>. DEFINE chunk == <<hand[1], hand[2], gen>>
  <2>1. stt' = PushAudio(stt, chunk) /\ pc' = "drain" /\ hand # <<>> /\ outstanding' = outstanding
    BY <1>12 DEF Push, Inv, HandInTurn, InHand
  <2>2. chunk \in Under(gen)
    <3>1. hand \in Keys \X Nat
      BY <2>1 DEF Inv, HandInTurn
    <3>. QED  BY <3>1 DEF Under
  <2>. HIDE DEF chunk
  <2>3. stt'.alive
    BY <1>1, <1>4, <2>1, <2>2, PushIs
  <2>. QED  BY <1>4, <2>1, <2>3
<1>13. CASE RunParked
  <2>1. pc' = "select" /\ (stt' = stt \/ stt' = Opened) /\ (outstanding' = outstanding \/ outstanding' = <<>>)
    BY <1>13 DEF RunParked, Survivors
  <2>2. Opened.alive /\ NoneLate(<<>>)
    BY DEF Opened, NoneLate, Range
  <2>. QED  BY <1>4, <2>1, <2>2
<1>14. CASE ForgetFront
  <2>1. told' = [told EXCEPT !.gave_up = told.gave_up \union {"actor"}]
    BY <1>14 DEF ForgetFront
  <2>2. "actor" \in told'.gave_up
    BY <1>1, <2>1 DEF ToldOf
  <2>. QED  BY <1>2, <2>2
<1>15. CASE ExpireDeadlines
  <2>1. PICK i \in Waiting : told' = LateClose(told, outstanding[i].key)
    BY <1>15 DEF ExpireDeadlines, LateClose
  <2>. DEFINE k == outstanding[i].key
              shut == Append(told.closed, k)
              c == [told EXCEPT !.closed = shut]
              late == c.timed_out \union {k}
  <2>2. told' = [c EXCEPT !.timed_out = late]
    BY <2>1 DEF LateClose, Close
  <2>. HIDE DEF k, shut
  <2>3. k \in late
    OBVIOUS
  <2>. HIDE DEF late
  <2>4. k \in told'.timed_out
    BY <1>1, <2>2, <2>3 DEF ToldOf
  <2>. QED  BY <1>2, <2>4
<1>. QED  BY <1>5, <1>6, <1>7, <1>8, <1>9, <1>10, <1>11, <1>12, <1>13, <1>14, <1>15
          DEF Next, ActorStep, ReadCommand

-----------------------------------------------------------------------------
(* No chunk is lost. *)

\* A stream that is replaced when it is finished and owes nothing is empty.
LEMMA FinishedIsEmpty ==
    ASSUME NEW C, NEW p \in Providers(C), p.alive, Finished(p), Books(p), Counted(p), FreshText(p),
           NEW ended, NEW claims, Right(p, <<>>, ended, claims), Owed(p.finals) = 0
    PROVE  \A c : ~Holds(p, c)
<1>. TAKE c
<1>. DEFINE s == p.socket
            q == p.finals.queue
<1>1. /\ p.finals \in FinalsOf(C) /\ p.finals.pending \in Nat /\ q \in Seq(Items(C)) /\ s \in Seq(SocketItems(C))
      /\ p.pushed \in Nat /\ p.position \in Nat /\ p.boundary \in Nat
  BY DEF Providers, FinalsOf
<1>2. p.finals.pending = 0 /\ Dones(q) = 0
  <2>1. Dones(q) \in Nat
    BY <1>1, DonesIsAll
  <2>. QED  BY <1>1, <2>1 DEF Owed
<1>3. All(s, SocketFinalize) = 0
  BY <1>2 DEF Right, MarkersSent
<1>4. p.boundary = p.pushed
  BY <1>1 DEF Finished, Books, Quiet
<1>5. IF s = <<>> THEN p.heard = {} ELSE s[Len(s)] = SocketFinalize
  BY <1>4 DEF Books, Quiet
<1>6. s = <<>> /\ p.heard = {}
  <2>1. ASSUME s # <<>> PROVE FALSE
    <3>1. Len(s) \in 1 .. Len(s) /\ s[Len(s)] = SocketFinalize /\ Len(s) \in Nat
      BY <1>1, <1>5, <2>1
    <3>2. First(s, SocketFinalize, Len(s)) = 0
      BY <1>3 DEF All
    <3>. HIDE DEF s
    <3>. QED  BY <3>1, <3>2, FirstAlike
  <2>. QED  BY <1>5, <2>1
<1>7. p.finals.segments = {}
  <2>1. CountedAs(s, p.pushed, p.position, p.boundary)
    BY DEF Counted
  <2>2. p.pushed = p.position + (Len(s) - 0)
    BY <1>3, <2>1 DEF CountedAs
  <2>3. ~(p.boundary < p.position)
    BY <1>1, <1>4, <1>6, <2>2
  <2>. QED  BY <1>3, <2>3 DEF FreshText
<1>8. ~Queued(q, c)
  <2>1. ASSUME NEW i \in DOMAIN q, q[i].kind = "final", c \in q[i].text PROVE FALSE
    <3>. DEFINE d == First(q, FinalizeDone, i - 1)
    <3>1. i \in Nat /\ i - 1 \in Nat
      BY <1>1
    <3>2. d \in Nat
      BY <3>1, FirstNat
    <3>3. ItemOwned(q[i], d, <<>>, ended, claims)
      BY DEF Right, TextsOwned, QueueOwned
    <3>. HIDE DEF d, q
    <3>4. d < Len(<<>>)
      BY <2>1, <3>3 DEF ItemOwned
    <3>. QED  BY <3>2, <3>4
  <2>. QED  BY <2>1 DEF Queued
<1>9. ~Sent(s, c)
  BY <1>6 DEF Sent
<1>. QED  BY <1>6, <1>7, <1>8, <1>9 DEF Holds

\* What is reported and what is held are what was, and the chunk that is pushed.
Known(c) == Reported(told, c) \/ Holds(stt, c)
Settled == Inv /\ Owners /\ Counts /\ Calm

\* The chunk in hand is pushed to a live stream.
LEMMA PushKnows ==
    ASSUME Settled, Undisturbed, Push
    PROVE  \A c : Known(c)' <=> Known(c) \/ c = <<hand[1], hand[2], gen>>
<1>. DEFINE chunk == <<hand[1], hand[2], gen>>
<1>1. stt' = PushAudio(stt, chunk) /\ told' = told /\ hand # <<>> /\ pc # "stopped"
  BY DEF Push, Settled, Inv, HandInTurn, InHand
<1>2. chunk \in Under(gen) /\ stt \in Providers(Under(gen)) /\ stt.alive
  <2>1. hand \in Keys \X Nat
    BY <1>1 DEF Settled, Inv, HandInTurn
  <2>. QED  BY <1>1, <2>1 DEF Under, Settled, Calm, Inv, Typed
<1>. HIDE DEF chunk
<1>3. \A c : Holds(stt', c) <=> Holds(stt, c) \/ c = chunk
  BY <1>1, <1>2, PushHolds
<1>. QED  BY <1>1, <1>3 DEF Known, chunk

\* Nothing else adds a chunk or drops one: a stream is replaced only when it is empty.
LEMMA OthersKnow ==
    ASSUME Settled, [Next]_vars, Undisturbed', pc' # "stopped", ~Push
    PROVE  \A c : Known(c)' <=> Known(c)
<1>1. Typed /\ Ledger(outstanding, told) /\ stt \in Providers(Under(gen)) /\ gen \in Nat /\ told \in ToldOf
      /\ outstanding \in Seq(Entries(gen)) /\ Inv /\ Owners /\ Counts /\ Calm
  BY DEF Settled, Inv, Typed
<1>2. Undisturbed /\ losses' = losses /\ told'.gave_up = {} /\ told'.timed_out = {} /\ losses \in Nat /\ told.gave_up = {}
  BY <1>1, StaysUndisturbed DEF Undisturbed, Calm
<1>3. pc # "stopped"
  BY DEF Next, AgentStep, ActorStep, VendorStep, ReadCommand, VendorOnly, AgentOnly, vars, Reads,
         SendAudio, SendEnd, CloseNotFound, UpdateConfig, ApplyConfig, SendBarrier, SendStop,
         OnAudio, OnEnd, OnParkable, OnStop, ReopenDrain, ReopenStart, Push, Drain, RunParked,
         ExpireDeadlines, ForgetFront, Poll, BackoffPasses, VendorTakesNext, VendorSpeaks, Lose
<1>4. stt.alive /\ pc \notin {"reopen", "start"} /\ NoneLate(outstanding)
  BY <1>1, <1>2, <1>3 DEF Calm
<1>5. FreshText(stt) /\ MarkersSent(stt) /\ Right(stt, outstanding, told.ended, Claimed) /\ Books(stt) /\ Counted(stt)
  BY <1>1, <1>2, <1>3 DEF Counts, Owners, TextsRight, Right
<1>6. CASE AgentStep \/ OnAudio \/ OnParkable \/ BackoffPasses \/ UNCHANGED vars
  <2>1. stt' = stt /\ told' = told
    BY <1>6 DEF AgentStep, AgentOnly, vars,
         SendAudio, SendEnd, CloseNotFound, UpdateConfig, ApplyConfig, SendBarrier, SendStop,
         OnAudio, OnParkable, BackoffPasses
  <2>. QED  BY <2>1 DEF Known
<1>7. CASE VendorStep
  <2>1. told' = told /\ ~Lose
    BY <1>2, <1>7 DEF VendorStep, VendorOnly, VendorTakesNext, VendorSpeaks, Lose
  <2>2. \/ stt' \in {VendorSegments(stt), VendorInterims(stt)}
        \/ stt.socket # <<>> /\ Head(stt.socket).kind = "audio" /\ stt' = VendorHears(stt)
        \/ stt.socket # <<>> /\ Head(stt.socket).kind # "audio" /\ stt' = VendorFinalizes(stt)
    BY <1>7, <2>1 DEF VendorStep, VendorTakesNext, VendorSpeaks
  <2>3. \A c : Holds(stt', c) <=> Holds(stt, c)
    BY <1>1, <1>4, <1>5, <2>2, VendorConserves
  <2>. QED  BY <2>1, <2>3 DEF Known
<1>8. CASE OnEnd
  <2>1. stt' = RequestFinalize(stt) /\ told' = [told EXCEPT !.ended = told.ended \union {Head(cmds).arg[1]}]
    BY <1>4, <1>8 DEF OnEnd, CanFinalize
  <2>2. told'.heard = told.heard
    BY <1>1, <2>1 DEF ToldOf
  <2>3. \A c : Holds(stt', c) <=> Holds(stt, c)
    BY <1>1, <2>1, RequestHolds
  <2>. QED  BY <2>2, <2>3 DEF Known, Reported
<1>9. CASE OnStop
  BY <1>9 DEF OnStop
<1>10. CASE ReopenDrain \/ Drain \/ Poll
  <2>1. DrainOutputs
    BY <1>10 DEF ReopenDrain, Drain, Poll
  <2>2. Drained(stt, stt', outstanding, outstanding', told, told')
    BY <1>1, <1>2, <2>1, DrainConserves
  <2>. QED  BY <2>2 DEF Drained, Known
<1>11. CASE ReopenStart
  BY <1>4, <1>11 DEF ReopenStart
<1>12. CASE RunParked
  <2>1. told'.heard = told.heard
    <3>. DEFINE x == [cmd |-> parked.cmd, by |-> parked.arg[1], owing |-> Owing,
                      midway |-> stt.alive /\ stt.pushed > stt.boundary]
                more == told.reached \union {x}
    <3>1. told' = told \/ told' = [told EXCEPT !.reached = more]
      BY <1>12 DEF RunParked, Reached
    <3>. HIDE DEF more
    <3>. QED  BY <1>1, <3>1 DEF ToldOf
  <2>2. CASE stt' = stt
    BY <2>1, <2>2 DEF Known, Reported
  <2>3. CASE stt' # stt
    <3>1. MayRunParked /\ parked.cmd = "swap" /\ told' = Reached(parked) /\ stt' = Opened
      BY <1>12, <2>3 DEF RunParked
    <3>2. Finished(stt)
      <4>. DEFINE x == [cmd |-> parked.cmd, by |-> parked.arg[1], owing |-> Owing,
                        midway |-> stt.alive /\ stt.pushed > stt.boundary]
                  more == told.reached \union {x}
      <4>1. told' = [told EXCEPT !.reached = more]
        BY <3>1 DEF Reached
      <4>2. x \in more /\ x.cmd = "swap" /\ x.midway = (stt.alive /\ stt.pushed > stt.boundary)
        BY <3>1
      <4>. HIDE DEF more, x
      <4>3. told'.reached = more
        BY <1>1, <4>1 DEF ToldOf
      <4>4. ~x.midway
        BY <4>2, <4>3 DEF Undisturbed, SwapWaits
      <4>. QED  BY <4>2, <4>4 DEF Finished
    <3>3. outstanding = <<>>
      <4>1. ASSUME outstanding # <<>> PROVE FALSE
        <5>1. 1 \in DOMAIN outstanding
          BY <1>1, <4>1
        <5>2. ~outstanding[1].timed_out
          BY <1>4, <5>1 DEF NoneLate, Range
        <5>. QED  BY <3>1, <5>1, <5>2 DEF MayRunParked, Waiting
      <4>. QED  BY <4>1
    <3>4. Owed(stt.finals) = 0
      <4>1. Len(outstanding) = Owed(stt.finals)
        BY <1>1, <1>2, <1>3 DEF Inv, Aligned
      <4>. QED  BY <3>3, <4>1
    <3>5. \A c : ~Holds(stt, c)
      BY <1>1, <1>4, <1>5, <3>2, <3>3, <3>4, FinishedIsEmpty
    <3>6. \A c : ~Holds(Opened, c)
      BY DEF Holds, Queued, Sent, Opened, Finals0
    <3>. QED  BY <2>1, <3>1, <3>5, <3>6 DEF Known, Reported
  <2>. QED  BY <2>2, <2>3
<1>13. CASE ForgetFront
  <2>1. told' = [told EXCEPT !.gave_up = told.gave_up \union {"actor"}]
    BY <1>13 DEF ForgetFront
  <2>2. "actor" \in told'.gave_up
    BY <1>1, <2>1 DEF ToldOf
  <2>. QED  BY <1>2, <2>2
<1>14. CASE ExpireDeadlines
  <2>1. PICK i \in Waiting : told' = LateClose(told, outstanding[i].key)
    BY <1>14 DEF ExpireDeadlines, LateClose
  <2>. DEFINE k == outstanding[i].key
              shut == Append(told.closed, k)
              c == [told EXCEPT !.closed = shut]
              late == c.timed_out \union {k}
  <2>2. told' = [c EXCEPT !.timed_out = late]
    BY <2>1 DEF LateClose, Close
  <2>. HIDE DEF k, shut
  <2>3. k \in late
    OBVIOUS
  <2>. HIDE DEF late
  <2>4. k \in told'.timed_out
    BY <1>1, <2>2, <2>3 DEF ToldOf
  <2>. QED  BY <1>2, <2>4
<1>. QED  BY <1>6, <1>7, <1>8, <1>9, <1>10, <1>11, <1>12, <1>13, <1>14
          DEF Next, ActorStep, ReadCommand

-----------------------------------------------------------------------------
(* Where the chunks are, from the agent to the reports. *)

Brought(cs, k, i) == \E j \in DOMAIN cs : cs[j] = Audio(<<k, i>>)
Present(k, i) == (\E g \in Nat : Known(<<k, i, g>>)) \/ hand = <<k, i>> \/ Brought(cmds, k, i)
EndSent(k) == k \in told.ended \/ \E j \in DOMAIN cmds : cmds[j] = EndUtterance(k)

\* Audio commands with different chunks differ.
LEMMA AudioIs == \A x, y : Audio(x) = Audio(y) <=> x = y
<1>1. \A x : Audio(x).arg = x
  BY DEF Audio
<1>. QED  BY <1>1

\* One more command.
LEMMA BroughtNext ==
    ASSUME NEW cs \in Seq(Commands), NEW x \in Commands
    PROVE  /\ \A k, i : Brought(Append(cs, x), k, i) <=> Brought(cs, k, i) \/ x = Audio(<<k, i>>)
           /\ \A k : (\E j \in DOMAIN Append(cs, x) : Append(cs, x)[j] = EndUtterance(k))
                       <=> (\E j \in DOMAIN cs : cs[j] = EndUtterance(k)) \/ x = EndUtterance(k)
<1>. DEFINE t == Append(cs, x)
<1>1. /\ DOMAIN t = DOMAIN cs \union {Len(cs) + 1} /\ t[Len(cs) + 1] = x
      /\ \A j \in DOMAIN cs : t[j] = cs[j]
  BY AppendIs
<1>. HIDE DEF t
<1>2. \A k, i : Brought(t, k, i) <=> Brought(cs, k, i) \/ x = Audio(<<k, i>>)
  BY <1>1 DEF Brought
<1>3. \A k : (\E j \in DOMAIN t : t[j] = EndUtterance(k)) <=> (\E j \in DOMAIN cs : cs[j] = EndUtterance(k)) \/ x = EndUtterance(k)
  BY <1>1
<1>. QED  BY <1>2, <1>3 DEF t

\* The commands without the first.
LEMMA BroughtRest ==
    ASSUME NEW cs \in Seq(Commands), cs # <<>>
    PROVE  /\ \A k, i : Brought(cs, k, i) <=> Brought(Tail(cs), k, i) \/ Head(cs) = Audio(<<k, i>>)
           /\ \A k : (\E j \in DOMAIN cs : cs[j] = EndUtterance(k))
                       <=> (\E j \in DOMAIN Tail(cs) : Tail(cs)[j] = EndUtterance(k)) \/ Head(cs) = EndUtterance(k)
<1>. DEFINE t == Tail(cs)
<1>1. /\ Head(cs) = cs[1] /\ 1 \in DOMAIN cs
      /\ \A i \in DOMAIN t : i + 1 \in DOMAIN cs /\ t[i] = cs[i + 1]
      /\ \A i \in DOMAIN cs : i # 1 => i - 1 \in DOMAIN t /\ t[i - 1] = cs[i]
  BY TailIs
<1>. HIDE DEF t
<1>2. \A k, i : Brought(cs, k, i) <=> Brought(t, k, i) \/ Head(cs) = Audio(<<k, i>>)
  BY <1>1 DEF Brought
<1>3. \A k : (\E j \in DOMAIN cs : cs[j] = EndUtterance(k)) <=> (\E j \in DOMAIN t : t[j] = EndUtterance(k)) \/ Head(cs) = EndUtterance(k)
  BY <1>1
<1>. QED  BY <1>2, <1>3 DEF t

\* What the others than the agent do to the channel, the hand and the ends.
ReadsOne(h) ==
    /\ cmds # <<>> /\ h = Head(cmds) /\ cmds' = Tail(cmds) /\ hand = <<>>
    /\ \/ h.cmd = "audio" /\ hand' = h.arg /\ told'.ended = told.ended
       \/ h.cmd = "end" /\ hand' = hand /\ told'.ended = told.ended \union {KeyOf(h)}
       \/ h.cmd \notin {"audio", "end"} /\ hand' = hand /\ told'.ended = told.ended

\* Every step that is not the agent's.
LEMMA ChannelIs ==
    ASSUME Inv, [Next]_vars, ~AgentStep
    PROVE  /\ agent' = agent
           /\ \/ cmds' = cmds /\ told'.ended = told.ended /\ hand' = hand
              \/ cmds' = cmds /\ told' = told /\ Push
              \/ \E h : ReadsOne(h)
<1>1. Typed /\ Ledger(outstanding, told) /\ stt \in Providers(Under(gen)) /\ gen \in Nat /\ told \in ToldOf
      /\ outstanding \in Seq(Entries(gen)) /\ HandInTurn
  BY DEF Inv, Typed
<1>2. agent' = agent
  BY DEF Next, ActorStep, VendorStep, ReadCommand, VendorOnly, vars,
         OnAudio, OnEnd, OnParkable, OnStop, ReopenDrain, ReopenStart, Push, Drain, RunParked,
         ExpireDeadlines, ForgetFront, Poll, BackoffPasses, VendorTakesNext, VendorSpeaks, Lose
<1>. DEFINE Ways == \/ cmds' = cmds /\ told'.ended = told.ended /\ hand' = hand
                    \/ cmds' = cmds /\ told' = told /\ Push
                    \/ \E h : ReadsOne(h)
<1>. SUFFICES Ways
  BY <1>2
<1>. DEFINE h0 == Head(cmds)
<1>3. pc = "select" => hand = <<>>
  BY <1>1 DEF HandInTurn, InHand
<1>4. CASE VendorStep \/ ReopenStart \/ Push \/ BackoffPasses \/ UNCHANGED vars
  BY <1>4 DEF VendorStep, VendorOnly, vars, ReopenStart, Push, BackoffPasses, VendorTakesNext, VendorSpeaks, Lose
<1>5. CASE OnAudio
  <2>1. ReadsOne(h0)
    BY <1>3, <1>5 DEF OnAudio, Reads, ReadsOne
  <2>. QED  BY <2>1
<1>6. CASE OnParkable \/ OnStop
  <2>1. ReadsOne(h0)
    BY <1>3, <1>6 DEF OnParkable, OnStop, Reads, ReadsOne
  <2>. QED  BY <2>1
<1>7. CASE OnEnd
  <2>. DEFINE key == KeyOf(h0)
              more == told.ended \union {key}
              t == [told EXCEPT !.ended = more]
              shut == Append(t.closed, key)
              no == t.refused \union {key}
  <2>1. told' = t \/ told' = [[t EXCEPT !.closed = shut] EXCEPT !.refused = no]
    <3>. DEFINE c == Close(t, key)
    <3>1. told' = t \/ told' = [c EXCEPT !.refused = @ \union {key}]
      BY <1>7 DEF OnEnd, KeyOf
    <3>2. c = [t EXCEPT !.closed = shut] /\ c.refused = t.refused
      <4>. HIDE DEF key
      <4>1. c = [t EXCEPT !.closed = shut]
        BY DEF Close
      <4>. HIDE DEF shut, more, c
      <4>. QED  BY <1>1, <4>1 DEF ToldOf
    <3>. QED  BY <3>1, <3>2
  <2>2. told'.ended = more
    <3>. HIDE DEF more, shut, no
    <3>. QED  BY <1>1, <2>1 DEF ToldOf
  <2>3. cmds # <<>> /\ cmds' = Tail(cmds) /\ h0.cmd = "end" /\ hand' = hand /\ hand = <<>>
    BY <1>3, <1>7 DEF OnEnd, Reads
  <2>4. ReadsOne(h0)
    BY <2>2, <2>3 DEF ReadsOne
  <2>. QED  BY <2>4
<1>8. CASE ReopenDrain \/ Drain \/ Poll
  <2>1. DrainOutputs /\ cmds' = cmds /\ hand' = hand
    BY <1>8 DEF ReopenDrain, Drain, Poll
  <2>2. Drain_(stt', outstanding', told')
    BY <1>1, <2>1, DrainIs DEF Typed
  <2>. QED  BY <2>1, <2>2 DEF Drain_
<1>9. CASE RunParked
  <2>. DEFINE x == [cmd |-> parked.cmd, by |-> parked.arg[1], owing |-> Owing,
                    midway |-> stt.alive /\ stt.pushed > stt.boundary]
              more == told.reached \union {x}
  <2>1. (told' = told \/ told' = [told EXCEPT !.reached = more]) /\ cmds' = cmds /\ hand' = hand
    BY <1>9 DEF RunParked, Reached
  <2>. HIDE DEF more
  <2>. QED  BY <1>1, <2>1 DEF ToldOf
<1>10. CASE ForgetFront
  <2>. DEFINE gives == told.gave_up \union {"actor"}
  <2>1. told' = [told EXCEPT !.gave_up = gives] /\ cmds' = cmds /\ hand' = hand
    BY <1>10 DEF ForgetFront
  <2>. HIDE DEF gives
  <2>. QED  BY <1>1, <2>1 DEF ToldOf
<1>11. CASE ExpireDeadlines
  <2>1. (\E i \in Waiting : told' = LateClose(told, outstanding[i].key)) /\ cmds' = cmds /\ hand' = hand
    BY <1>11 DEF ExpireDeadlines, LateClose
  <2>2. PICK i \in Waiting : told' = LateClose(told, outstanding[i].key)
    BY <2>1
  <2>. DEFINE k == outstanding[i].key
              shut == Append(told.closed, k)
              c == [told EXCEPT !.closed = shut]
              late == c.timed_out \union {k}
  <2>3. told' = [c EXCEPT !.timed_out = late]
    BY <2>2 DEF LateClose, Close
  <2>. HIDE DEF k, shut, late
  <2>. QED  BY <1>1, <2>1, <2>3 DEF ToldOf
<1>. QED  BY <1>4, <1>5, <1>6, <1>7, <1>8, <1>9, <1>10, <1>11 DEF Next, ActorStep, ReadCommand

\* No step but the agent's brings a chunk or loses one, or ends an utterance.
LEMMA PresentStays ==
    ASSUME Settled, [Next]_vars, Undisturbed', pc' # "stopped", ~AgentStep
    PROVE  /\ \A k \in Keys, i \in Nat : Present(k, i)' <=> Present(k, i)
           /\ \A k \in Keys : EndSent(k)' <=> EndSent(k)
<1>1. Inv /\ Calm /\ cmds \in Seq(Commands) /\ gen \in Nat /\ HandInTurn
  BY DEF Settled, Inv, Typed
<1>2. Undisturbed
  BY <1>1, StaysUndisturbed
<1>3. CASE Push
  <2>1. \A c : Known(c)' <=> Known(c) \/ c = <<hand[1], hand[2], gen>>
    BY <1>2, <1>3, PushKnows
  <2>2. hand \in Keys \X Nat /\ hand' = <<>> /\ cmds' = cmds /\ told' = told
    BY <1>1, <1>3 DEF Push, HandInTurn, InHand
  <2>3. ASSUME NEW k \in Keys, NEW i \in Nat PROVE Present(k, i)' <=> Present(k, i)
    <3>1. hand = <<k, i>> <=> hand[1] = k /\ hand[2] = i
      BY <2>2
    <3>2. \A g \in Nat : <<k, i, g>> = <<hand[1], hand[2], gen>> <=> (hand = <<k, i>> /\ g = gen)
      BY <3>1
    <3>3. (\E g \in Nat : Known(<<k, i, g>>)') <=> (\E g \in Nat : Known(<<k, i, g>>)) \/ hand = <<k, i>>
      BY <1>1, <2>1, <3>2
    <3>4. hand' # <<k, i>>
      BY <2>2
    <3>. QED  BY <2>2, <3>3, <3>4 DEF Present, Brought
  <2>. QED  BY <2>2, <2>3 DEF EndSent
<1>4. CASE ~Push
  <2>1. \A c : Known(c)' <=> Known(c)
    BY <1>4, OthersKnow
  <2>2. CASE cmds' = cmds /\ told'.ended = told.ended /\ hand' = hand
    BY <2>1, <2>2 DEF Present, EndSent, Brought
  <2>3. ASSUME NEW h, ReadsOne(h)
        PROVE  /\ \A k \in Keys, i \in Nat : Present(k, i)' <=> Present(k, i)
               /\ \A k \in Keys : EndSent(k)' <=> EndSent(k)
    <3>1. cmds # <<>> /\ h = Head(cmds) /\ cmds' = Tail(cmds) /\ hand = <<>> /\ h \in Commands
      BY <1>1, <2>3 DEF ReadsOne
    <3>2. /\ \A k, i : Brought(cmds, k, i) <=> Brought(cmds', k, i) \/ h = Audio(<<k, i>>)
          /\ \A k : (\E j \in DOMAIN cmds : cmds[j] = EndUtterance(k))
                       <=> (\E j \in DOMAIN cmds' : cmds'[j] = EndUtterance(k)) \/ h = EndUtterance(k)
      BY <1>1, <3>1, BroughtRest
    <3>3. ASSUME NEW k \in Keys, NEW i \in Nat PROVE hand' = <<k, i>> <=> h = Audio(<<k, i>>)
      <4>1. CASE h.cmd = "audio"
        <5>1. hand' = h.arg
          BY <2>3, <4>1 DEF ReadsOne
        <5>2. h = Audio(h.arg)
          <6>1. h \in {Audio(<<j, n>>) : j \in Keys, n \in Nat}
            <7>1. \A j \in Keys : h # EndUtterance(j)
              BY <4>1 DEF EndUtterance
            <7>2. h \notin Parkables /\ h # Stop
              BY <4>1, CommandsAre
            <7>. DEFINE A == {Audio(<<j, n>>) : j \in Keys, n \in Nat}
                        E == {EndUtterance(j) : j \in Keys}
            <7>3. h \notin E
              BY <7>1
            <7>4. h \in A \union E \union Parkables \union {Stop}
              BY <3>1 DEF Commands
            <7>. HIDE DEF A, E
            <7>5. h \in A
              BY <7>2, <7>3, <7>4
            <7>. QED  BY <7>5 DEF A
          <6>2. PICK j \in Keys, n \in Nat : h = Audio(<<j, n>>)
            BY <6>1
          <6>. QED  BY <6>2 DEF Audio
        <5>. QED  BY <5>1, <5>2, AudioIs
      <4>2. CASE h.cmd # "audio"
        <5>1. hand' = <<>> /\ h # Audio(<<k, i>>)
          BY <2>3, <4>2 DEF ReadsOne, Audio
        <5>. QED  BY <5>1
      <4>. QED  BY <4>1, <4>2
    <3>4. \A k \in Keys : k \in told'.ended <=> k \in told.ended \/ h = EndUtterance(k)
      <4>1. CASE h.cmd = "end"
        <5>1. told'.ended = told.ended \union {KeyOf(h)} /\ h = EndUtterance(KeyOf(h))
          BY <2>3, <3>1, <4>1, CommandsAre DEF ReadsOne
        <5>2. \A k \in Keys : h = EndUtterance(k) => KeyOf(h) = k
          BY CommandsAre
        <5>. QED  BY <5>1, <5>2
      <4>2. CASE h.cmd # "end"
        <5>1. told'.ended = told.ended /\ \A k : h # EndUtterance(k)
          BY <2>3, <4>2 DEF ReadsOne, EndUtterance
        <5>. QED  BY <5>1
      <4>. QED  BY <4>1, <4>2
    <3>5. \A k \in Keys, i \in Nat : hand # <<k, i>>
      BY <3>1
    <3>6. \A k \in Keys, i \in Nat : Present(k, i)' <=> Present(k, i)
      <4>. TAKE k \in Keys, i \in Nat
      <4>1. Brought(cmds, k, i)' <=> Brought(cmds', k, i)
        BY DEF Brought
      <4>. QED  BY <2>1, <3>2, <3>3, <3>5, <4>1 DEF Present
    <3>. QED  BY <3>2, <3>4, <3>6 DEF EndSent
  <2>. QED  BY <1>1, <1>4, <2>2, <2>3, ChannelIs
<1>. QED  BY <1>3, <1>4

-----------------------------------------------------------------------------
(* Utterances are whole. *)

Spans(k, l, n) == \A i \in Nat : Present(k, i) <=> l < i /\ i <= n

\* All chunks of an utterance whose end is sent are somewhere, and of the one
\* being spoken all that are not left; none of the ones to come.
Whole ==
    /\ \A k \in Keys : EndSent(k) => \E n \in scope.chunk_counts : Spans(k, 0, n)
    /\ agent.utt \in Keys => \E n \in scope.chunk_counts : agent.left <= n /\ Spans(agent.utt, agent.left, n)
    /\ agent.utt # NoKey => \A k \in Keys, i \in Nat : k > agent.utt => ~Present(k, i)
WholeSoFar == Undisturbed /\ pc # "stopped" => Whole

\* At first the agent has all the chunks.
LEMMA InitWhole == Init => WholeSoFar
<1>. SUFFICES ASSUME Init PROVE Whole
  BY DEF WholeSoFar
<1>1. told = Told0 /\ stt = Opened /\ hand = <<>> /\ cmds = <<>> /\ scope \in Scopes
  BY DEF Init
<1>2. \A k \in Keys, i \in Nat : ~Present(k, i)
  <2>1. \A c : ~Known(c)
    BY <1>1 DEF Known, Reported, Told0, Holds, Queued, Sent, Opened, Finals0
  <2>2. \A k \in Keys, i \in Nat : hand # <<k, i>> /\ ~Brought(cmds, k, i)
    BY <1>1 DEF Brought
  <2>. QED  BY <2>1, <2>2 DEF Present
<1>3. \A k : ~EndSent(k)
  BY <1>1 DEF EndSent, Told0
<1>4. PICK n \in scope.chunk_counts :
        agent = [utt |-> 1, left |-> n, in_progress |-> FALSE,
                 config |-> "none", apply_now |-> FALSE, barrier |-> FALSE]
  BY DEF Init
<1>5. n \in Nat /\ agent.left = n
  BY <1>1, <1>4, ActorAssumption
<1>6. \A i \in Nat : ~(n < i /\ i <= n)
  BY <1>5
<1>7. agent.utt \in Keys => Spans(agent.utt, agent.left, n)
  BY <1>2, <1>5, <1>6 DEF Spans
<1>. QED  BY <1>2, <1>3, <1>5, <1>7 DEF Whole

\* The agent's part.
LEMMA AgentWhole == Inv /\ Whole /\ AgentStep => Whole'
<1>. SUFFICES ASSUME Inv, Whole, AgentStep PROVE Whole'
  OBVIOUS
<1>. PICK u, l, v, m : u = agent.utt /\ l = agent.left /\ v = agent'.utt /\ m = agent'.left
  OBVIOUS
<1>1. cmds \in Seq(Commands) /\ u \in Nat /\ l \in Nat /\ scope.chunk_counts \subseteq Nat
  BY ActorAssumption DEF Inv, Typed, Agents
<1>2. told' = told /\ stt' = stt /\ hand' = hand /\ scope' = scope
  BY DEF AgentStep, AgentOnly, SendAudio, SendEnd, CloseNotFound, UpdateConfig, ApplyConfig, SendBarrier, SendStop
<1>3. AgentSends(u, l, cmds', v, m)
  BY AgentIs
<1>4. /\ \A k \in Keys : EndSent(k) => \E n \in scope.chunk_counts : Spans(k, 0, n)
      /\ u \in Keys => \E n \in scope.chunk_counts : l <= n /\ Spans(u, l, n)
      /\ u # NoKey => \A k \in Keys, i \in Nat : k > u => ~Present(k, i)
  BY DEF Whole
<1>5. u # NoKey => \A k \in Keys : EndSent(k) => k # u
  <2>1. u # NoKey => /\ \A k \in told.ended : k < u
                     /\ \A i \in DOMAIN cmds : Keyed(cmds[i]) /\ cmds[i].cmd = "end" => KeyOf(cmds[i]) < u
    BY DEF Inv, SpokenInOrder
  <2>2. \A k \in Keys : k \in Nat
    BY KeysAre
  <2>. SUFFICES ASSUME u # NoKey, NEW k \in Keys, EndSent(k) PROVE k < u
    BY <1>1, <2>2
  <2>3. CASE k \in told.ended
    BY <2>1, <2>3
  <2>4. ASSUME NEW j \in DOMAIN cmds, cmds[j] = EndUtterance(k) PROVE k < u
    <3>1. cmds[j].cmd = "end" /\ KeyOf(cmds[j]) = k
      BY <2>4, CommandsAre
    <3>. QED  BY <2>1, <3>1 DEF Keyed
  <2>. QED  BY <2>3, <2>4 DEF EndSent
<1>6. \A k, i : Present(k, i)' <=> Present(k, i) \/ (Brought(cmds', k, i) /\ ~Brought(cmds, k, i))
  <2>1. \A k, i : Brought(cmds, k, i) => Brought(cmds', k, i)
    <3>1. \A c \in Commands : \A k, i : Brought(cmds, k, i) => Brought(Append(cmds, c), k, i)
      BY <1>1, BroughtNext
    <3>2. \A c \in Commands, d \in Commands : \A k, i : Brought(cmds, k, i) => Brought(Append(Append(cmds, c), d), k, i)
      <4>. TAKE c \in Commands, d \in Commands
      <4>. DEFINE t == Append(cmds, c)
      <4>1. t \in Seq(Commands)
        BY <1>1
      <4>2. \A k, i : Brought(cmds, k, i) => Brought(t, k, i)
        BY <3>1
      <4>. HIDE DEF t
      <4>3. \A k, i : Brought(t, k, i) => Brought(Append(t, d), k, i)
        BY <4>1, BroughtNext
      <4>. QED  BY <4>2, <4>3 DEF t
    <3>3. /\ u \in Keys => Audio(<<u, l>>) \in Commands /\ EndUtterance(u) \in Commands
          /\ Swap("close") \in Commands /\ Swap("idle") \in Commands /\ Barrier \in Commands /\ Stop \in Commands
      BY <1>1, CommandsAre DEF Parkables
    <3>. QED  BY <1>3, <3>1, <3>2, <3>3 DEF AgentSends
  <2>2. \A c : Known(c)' <=> Known(c)
    BY <1>2 DEF Known
  <2>3. \A k, i : Brought(cmds, k, i)' <=> Brought(cmds', k, i)
    BY DEF Brought
  <2>. QED  BY <1>2, <2>1, <2>2, <2>3 DEF Present
<1>7. CASE u \in Keys /\ l > 0 /\ cmds' = Append(cmds, Audio(<<u, l>>)) /\ v = u /\ m = l - 1
  <2>. DEFINE x == Audio(<<u, l>>)
  <2>1. x \in Commands /\ x.cmd = "audio"
    BY <1>1, <1>7, CommandsAre
  <2>2. /\ \A k, i : Brought(cmds', k, i) <=> Brought(cmds, k, i) \/ x = Audio(<<k, i>>)
        /\ \A k : (\E j \in DOMAIN cmds' : cmds'[j] = EndUtterance(k))
                       <=> (\E j \in DOMAIN cmds : cmds[j] = EndUtterance(k)) \/ x = EndUtterance(k)
    <3>. HIDE DEF x
    <3>1. /\ \A k, i : Brought(Append(cmds, x), k, i) <=> Brought(cmds, k, i) \/ x = Audio(<<k, i>>)
          /\ \A k : (\E j \in DOMAIN Append(cmds, x) : Append(cmds, x)[j] = EndUtterance(k))
                       <=> (\E j \in DOMAIN cmds : cmds[j] = EndUtterance(k)) \/ x = EndUtterance(k)
      BY <1>1, <2>1, BroughtNext
    <3>2. cmds' = Append(cmds, x)
      BY <1>7 DEF x
    <3>. QED  BY <3>1, <3>2
  <2>3. \A k : x # EndUtterance(k)
    BY DEF Audio, EndUtterance
  <2>4. \A k, i : x = Audio(<<k, i>>) <=> k = u /\ i = l
    BY AudioIs
  <2>. HIDE DEF x
  <2>5. \A k, i : Present(k, i)' <=> Present(k, i) \/ (k = u /\ i = l)
    <3>1. \A k, i : Brought(cmds, k, i) => Present(k, i)
      BY DEF Present
    <3>. QED  BY <1>6, <2>2, <2>4, <3>1
  <2>6. \A k : EndSent(k)' <=> EndSent(k)
    BY <1>2, <2>2, <2>3 DEF EndSent
  <2>7. u # NoKey /\ u \in Nat
    BY <1>7, KeysAre
  <2>8. \A k \in Keys : EndSent(k)' => \E n \in scope.chunk_counts : Spans(k, 0, n)'
    <3>. TAKE k \in Keys
    <3>. SUFFICES ASSUME EndSent(k)' PROVE \E n \in scope.chunk_counts : Spans(k, 0, n)'
      OBVIOUS
    <3>1. PICK n \in scope.chunk_counts : Spans(k, 0, n)
      BY <1>4, <2>6
    <3>2. k # u
      BY <1>5, <2>6, <2>7
    <3>3. Spans(k, 0, n)'
      BY <2>5, <3>1, <3>2 DEF Spans
    <3>. QED  BY <3>3
  <2>9. \E n \in scope.chunk_counts : m <= n /\ Spans(v, m, n)'
    <3>1. PICK n \in scope.chunk_counts : l <= n /\ Spans(u, l, n)
      BY <1>4, <1>7
    <3>2. n \in Nat /\ m <= n
      BY <1>1, <1>7, <3>1
    <3>3. \A i \in Nat : m < i /\ i <= n <=> i = l \/ (l < i /\ i <= n)
      BY <1>1, <1>7, <3>1, <3>2
    <3>4. \A i \in Nat : Present(u, i)' <=> m < i /\ i <= n
      BY <2>5, <3>1, <3>3 DEF Spans
    <3>. QED  BY <1>7, <3>2, <3>4 DEF Spans
  <2>10. \A k \in Keys, i \in Nat : k > v => ~Present(k, i)'
    <3>1. \A k \in Keys : k > v => k # u /\ k > u
      BY <1>7, <2>7, KeysAre
    <3>. QED  BY <1>4, <2>5, <2>7, <3>1
  <2>. QED  BY <1>2, <1>7, <2>8, <2>9, <2>10 DEF Whole
<1>8. CASE u \in Keys /\ l = 0 /\ v = u + 1 /\ m \in scope.chunk_counts
           /\ cmds' \in {Append(cmds, EndUtterance(u)), Append(Append(cmds, EndUtterance(u)), Swap("close"))}
  <2>. DEFINE x == EndUtterance(u)
              w == Swap("close")
              t == Append(cmds, x)
  <2>1. x \in Commands /\ x.cmd = "end" /\ KeyOf(x) = u /\ w \in Commands /\ t \in Seq(Commands)
    BY <1>1, <1>8, CommandsAre DEF Parkables
  <2>2. /\ \A k, i : x # Audio(<<k, i>>) /\ w # Audio(<<k, i>>)
        /\ \A k : w # EndUtterance(k)
    BY DEF Audio, EndUtterance, Swap
  <2>3. \A k \in Keys : x = EndUtterance(k) <=> k = u
    BY <2>1, CommandsAre
  <2>4. cmds' = t \/ cmds' = Append(t, w)
    BY <1>8
  <2>. HIDE DEF x, w
  <2>5. /\ \A k, i : Brought(t, k, i) <=> Brought(cmds, k, i)
        /\ \A k : (\E j \in DOMAIN t : t[j] = EndUtterance(k))
                       <=> (\E j \in DOMAIN cmds : cmds[j] = EndUtterance(k)) \/ x = EndUtterance(k)
    <3>1. /\ \A k, i : Brought(t, k, i) <=> Brought(cmds, k, i) \/ x = Audio(<<k, i>>)
          /\ \A k : (\E j \in DOMAIN t : t[j] = EndUtterance(k))
                       <=> (\E j \in DOMAIN cmds : cmds[j] = EndUtterance(k)) \/ x = EndUtterance(k)
      BY <1>1, <2>1, BroughtNext
    <3>. HIDE DEF t
    <3>. QED  BY <2>2, <3>1
  <2>. HIDE DEF t
  <2>6. /\ \A k, i : Brought(Append(t, w), k, i) <=> Brought(t, k, i)
        /\ \A k : (\E j \in DOMAIN Append(t, w) : Append(t, w)[j] = EndUtterance(k))
                       <=> (\E j \in DOMAIN t : t[j] = EndUtterance(k))
    <3>. DEFINE t2 == Append(t, w)
    <3>1. /\ \A k, i : Brought(t2, k, i) <=> Brought(t, k, i) \/ w = Audio(<<k, i>>)
          /\ \A k : (\E j \in DOMAIN t2 : t2[j] = EndUtterance(k))
                       <=> (\E j \in DOMAIN t : t[j] = EndUtterance(k)) \/ w = EndUtterance(k)
      BY <2>1, BroughtNext
    <3>. HIDE DEF t2
    <3>2. /\ \A k, i : Brought(t2, k, i) <=> Brought(t, k, i)
          /\ \A k : (\E j \in DOMAIN t2 : t2[j] = EndUtterance(k)) <=> (\E j \in DOMAIN t : t[j] = EndUtterance(k))
      <4>1. ASSUME NEW k, NEW i PROVE Brought(t2, k, i) <=> Brought(t, k, i)
        <5>1. w # Audio(<<k, i>>)
          BY <2>2
        <5>. QED  BY <3>1, <5>1
      <4>2. ASSUME NEW k
            PROVE  (\E j \in DOMAIN t2 : t2[j] = EndUtterance(k)) <=> (\E j \in DOMAIN t : t[j] = EndUtterance(k))
        <5>1. w # EndUtterance(k)
          BY <2>2
        <5>. QED  BY <3>1, <5>1
      <4>. QED  BY <4>1, <4>2
    <3>. QED  BY <3>2 DEF t2
  <2>7. \A k, i : Present(k, i)' <=> Present(k, i)
    <3>1. \A k, i : Brought(cmds', k, i) <=> Brought(cmds, k, i)
      BY <2>4, <2>5, <2>6
    <3>. QED  BY <1>6, <3>1
  <2>8. \A k \in Keys : EndSent(k)' <=> EndSent(k) \/ k = u
    <3>1. \A k \in Keys : (\E j \in DOMAIN cmds' : cmds'[j] = EndUtterance(k))
                       <=> (\E j \in DOMAIN cmds : cmds[j] = EndUtterance(k)) \/ k = u
      BY <2>3, <2>4, <2>5, <2>6
    <3>. QED  BY <1>2, <3>1 DEF EndSent
  <2>9. u # NoKey /\ u \in Nat
    BY <1>8, KeysAre
  <2>10. \A k \in Keys : EndSent(k)' => \E n \in scope.chunk_counts : Spans(k, 0, n)'
    <3>. TAKE k \in Keys
    <3>. SUFFICES ASSUME EndSent(k)' PROVE \E n \in scope.chunk_counts : Spans(k, 0, n)'
      OBVIOUS
    <3>1. PICK n \in scope.chunk_counts : Spans(k, 0, n)
      <4>1. u \in Keys /\ l = 0
        BY <1>8
      <4>. QED  BY <1>4, <2>8, <4>1
    <3>2. Spans(k, 0, n)'
      BY <2>7, <3>1 DEF Spans
    <3>. QED  BY <3>2
  <2>11. v \in Keys => m <= m /\ Spans(v, m, m)'
    <3>. SUFFICES ASSUME v \in Keys PROVE m <= m /\ Spans(v, m, m)'
      OBVIOUS
    <3>1. m \in Nat /\ v > u
      BY <1>1, <1>8, <2>9
    <3>2. \A i \in Nat : ~Present(v, i)'
      BY <1>4, <2>7, <2>9, <3>1
    <3>3. \A i \in Nat : ~(m < i /\ i <= m)
      BY <3>1
    <3>4. \A n : (m = n /\ \A i \in Nat : ~(n < i /\ i <= n)) => Spans(v, n, n)'
      BY <3>2 DEF Spans
    <3>. QED  BY <3>1, <3>3, <3>4
  <2>12. \A k \in Keys, i \in Nat : k > v => ~Present(k, i)'
    <3>1. \A k \in Keys : k > v => k > u
      BY <1>8, <2>9, KeysAre
    <3>. QED  BY <1>4, <2>7, <2>9, <3>1
  <2>. QED  BY <1>2, <1>8, <2>10, <2>11, <2>12 DEF Whole
<1>9. CASE cmds' \in {cmds} \union {Append(cmds, c) : c \in {Swap("idle"), Barrier, Stop}} /\ v \in {u, NoKey} /\ m = l
  <2>1. \A c \in {Swap("idle"), Barrier, Stop} : /\ c \in Commands /\ \A k, i : c # Audio(<<k, i>>)
                                                 /\ \A k : c # EndUtterance(k)
    <3>1. Swap("idle") \in Commands /\ Barrier \in Commands /\ Stop \in Commands
      BY CommandsAre DEF Parkables
    <3>. QED  BY <3>1 DEF Audio, EndUtterance, Swap, Barrier, Stop
  <2>2. /\ \A k, i : Brought(cmds', k, i) <=> Brought(cmds, k, i)
        /\ \A k : (\E j \in DOMAIN cmds' : cmds'[j] = EndUtterance(k))
                       <=> (\E j \in DOMAIN cmds : cmds[j] = EndUtterance(k))
    <3>1. CASE cmds' = cmds
      BY <3>1
    <3>2. ASSUME NEW c \in {Swap("idle"), Barrier, Stop}, cmds' = Append(cmds, c)
          PROVE  /\ \A k, i : Brought(cmds', k, i) <=> Brought(cmds, k, i)
                 /\ \A k : (\E j \in DOMAIN cmds' : cmds'[j] = EndUtterance(k))
                              <=> (\E j \in DOMAIN cmds : cmds[j] = EndUtterance(k))
      <4>. DEFINE t2 == Append(cmds, c)
      <4>1. /\ \A k, i : Brought(t2, k, i) <=> Brought(cmds, k, i) \/ c = Audio(<<k, i>>)
            /\ \A k : (\E j \in DOMAIN t2 : t2[j] = EndUtterance(k))
                         <=> (\E j \in DOMAIN cmds : cmds[j] = EndUtterance(k)) \/ c = EndUtterance(k)
        BY <1>1, <2>1, BroughtNext
      <4>. HIDE DEF t2
      <4>2. ASSUME NEW k
            PROVE  (\E j \in DOMAIN t2 : t2[j] = EndUtterance(k)) <=> (\E j \in DOMAIN cmds : cmds[j] = EndUtterance(k))
        <5>1. c # EndUtterance(k)
          BY <2>1
        <5>. QED  BY <4>1, <5>1
      <4>3. ASSUME NEW k, NEW i
            PROVE  Brought(t2, k, i) <=> Brought(cmds, k, i)
        <5>1. c # Audio(<<k, i>>)
          BY <2>1
        <5>2. Brought(t2, k, i) <=> Brought(cmds, k, i) \/ c = Audio(<<k, i>>)
          BY <4>1
        <5>. QED  BY <5>1, <5>2
      <4>4. cmds' = t2
        BY <3>2 DEF t2
      <4>. QED  BY <4>2, <4>3, <4>4
    <3>. QED  BY <1>9, <3>1, <3>2
  <2>3. \A k, i : Present(k, i)' <=> Present(k, i)
    BY <1>6, <2>2
  <2>4. \A k : EndSent(k)' <=> EndSent(k)
    BY <1>2, <2>2 DEF EndSent
  <2>5. \A k, a, n : Spans(k, a, n)' <=> Spans(k, a, n)
    BY <2>3 DEF Spans
  <2>6. \A k \in Keys : EndSent(k)' => \E n \in scope.chunk_counts : Spans(k, 0, n)'
    BY <1>4, <2>4, <2>5
  <2>7. v \in Keys => v = u /\ \E n \in scope.chunk_counts : m <= n /\ Spans(v, m, n)'
    BY <1>4, <1>9, <2>5, KeysAre
  <2>8. v # NoKey => \A k \in Keys, i \in Nat : k > v => ~Present(k, i)'
    BY <1>4, <1>9, <2>3
  <2>. QED  BY <1>2, <2>6, <2>7, <2>8 DEF Whole
<1>. QED  BY <1>3, <1>7, <1>8, <1>9 DEF AgentSends

\* Every step of an undisturbed behaviour.
LEMMA NextWhole == Settled /\ WholeSoFar /\ [Next]_vars => WholeSoFar'
<1>. SUFFICES ASSUME Settled, WholeSoFar, [Next]_vars, Undisturbed', pc' # "stopped" PROVE Whole'
  BY DEF WholeSoFar
<1>1. Inv /\ Calm /\ Undisturbed
  BY StaysUndisturbed DEF Settled
<1>2. pc # "stopped"
  BY DEF Next, AgentStep, ActorStep, VendorStep, ReadCommand, VendorOnly, AgentOnly, vars, Reads,
         SendAudio, SendEnd, CloseNotFound, UpdateConfig, ApplyConfig, SendBarrier, SendStop,
         OnAudio, OnEnd, OnParkable, OnStop, ReopenDrain, ReopenStart, Push, Drain, RunParked,
         ExpireDeadlines, ForgetFront, Poll, BackoffPasses, VendorTakesNext, VendorSpeaks, Lose
<1>3. Whole
  BY <1>1, <1>2 DEF WholeSoFar
<1>4. CASE AgentStep
  BY <1>1, <1>3, <1>4, AgentWhole
<1>5. CASE ~AgentStep
  <2>1. /\ \A k \in Keys, i \in Nat : Present(k, i)' <=> Present(k, i)
        /\ \A k \in Keys : EndSent(k)' <=> EndSent(k)
    BY <1>5, PresentStays
  <2>2. agent' = agent /\ scope' = scope
    BY <1>1, <1>5, ChannelIs, HistoryGrows
  <2>3. \A k \in Keys : \A a, n : Spans(k, a, n)' <=> Spans(k, a, n)
    BY <2>1 DEF Spans
  <2>. QED  BY <1>3, <2>1, <2>2, <2>3 DEF Whole
<1>. QED  BY <1>4, <1>5

-----------------------------------------------------------------------------
(* An answered utterance has been heard. *)

\* The provider holds no chunk of an utterance that is closed.
LEMMA ClosedIsGone ==
    ASSUME Settled, Undisturbed, pc # "stopped", NEW k \in ToSet(told.closed), NEW i \in Nat
    PROVE  /\ \A g : ~Holds(stt, <<k, i, g>>)
           /\ hand # <<k, i>> /\ ~Brought(cmds, k, i)
<1>1. /\ Inv /\ Typed /\ HandInTurn /\ SpokenInOrder(cmds, agent.utt, told.ended) /\ Booked(outstanding, told)
      /\ NoneLate(outstanding) /\ Right(stt, outstanding, told.ended, Claimed)
      /\ outstanding \in Seq(Entries(gen)) /\ stt \in Providers(Under(gen))
  BY DEF Settled, Inv, Typed, Ledger, Calm, Owners, TextsRight, Undisturbed
<1>2. k \in told.ended /\ k \in Keys
  <2>1. told \in ToldOf /\ ToSet(told.closed) \subseteq told.ended
    BY <1>1 DEF Typed, Inv, Ledger, ClosedWell
  <2>. QED  BY <2>1 DEF ToldOf
<1>3. \A d \in Nat : d < Len(outstanding) => k # outstanding[d + 1].key
  <2>. TAKE d \in Nat
  <2>. SUFFICES ASSUME d < Len(outstanding), k = outstanding[d + 1].key PROVE FALSE
    OBVIOUS
  <2>1. d + 1 \in DOMAIN outstanding
    BY <1>1
  <2>. QED  BY <1>1, <2>1 DEF NoneLate, Range, Booked
<1>4. ~Open(told.ended, k)
  BY <1>2 DEF Open
<1>5. \A d \in Nat : \A T, g : Owned(T, d, outstanding, told.ended) => <<k, i, g>> \notin T
  <2>1. \A g : <<k, i, g>>[1] = k
    OBVIOUS
  <2>. QED  BY <1>3, <1>4, <2>1 DEF Owned
<1>6. ASSUME NEW g PROVE ~Holds(stt, <<k, i, g>>)
  <2>. DEFINE q == stt.finals.queue
              c == <<k, i, g>>
  <2>1. q \in Seq(Items(Under(gen))) /\ stt.socket \in Seq(SocketItems(Under(gen)))
    BY <1>1 DEF Providers, FinalsOf
  <2>2. Dones(q) \in Nat
    BY <2>1, DonesIsAll
  <2>3. c \notin stt.finals.segments \union stt.heard
    BY <1>1, <1>5, <2>2 DEF Right, TextsOwned
  <2>4. ASSUME NEW j \in DOMAIN stt.socket PROVE c \notin stt.socket[j].chunk
    <3>1. j - 1 \in Nat
      BY <2>1
    <3>. DEFINE n == First(stt.socket, SocketFinalize, j - 1)
    <3>2. n \in Nat
      BY <3>1, FirstNat
    <3>3. Owned(stt.socket[j].chunk, Dones(q) + n, outstanding, told.ended)
      BY <1>1 DEF Right, TextsOwned, SocketOwned
    <3>. HIDE DEF n, q
    <3>4. Dones(q) + n \in Nat
      BY <2>2, <3>2
    <3>. QED  BY <1>5, <3>3, <3>4
  <2>5. ASSUME NEW j \in DOMAIN q, q[j].kind = "final", c \in q[j].text PROVE FALSE
    <3>1. j - 1 \in Nat
      BY <2>1
    <3>. DEFINE d == First(q, FinalizeDone, j - 1)
    <3>2. d \in Nat
      BY <3>1, FirstNat
    <3>3. ItemOwned(q[j], d, outstanding, told.ended, Claimed)
      BY <1>1 DEF Right, TextsOwned, QueueOwned
    <3>4. c[1] = k
      OBVIOUS
    <3>. HIDE DEF d, q, c
    <3>5. d < Len(outstanding) /\ k = outstanding[d + 1].key
      BY <2>5, <3>3, <3>4 DEF ItemOwned
    <3>. QED  BY <1>3, <3>2, <3>5
  <2>. QED  BY <2>3, <2>4, <2>5 DEF Holds, Queued, Sent
<1>7. hand # <<k, i>>
  <2>. SUFFICES ASSUME hand = <<k, i>> PROVE FALSE
    OBVIOUS
  <2>1. hand # <<>> /\ hand[1] = k
    BY <1>2
  <2>. QED  BY <1>1, <1>4, <2>1 DEF HandInTurn
<1>8. ~Brought(cmds, k, i)
  <2>. SUFFICES ASSUME NEW j \in DOMAIN cmds, cmds[j] = Audio(<<k, i>>) PROVE FALSE
    BY DEF Brought
  <2>1. Keyed(cmds[j]) /\ KeyOf(cmds[j]) = k
    BY <1>2, CommandsAre DEF Keyed
  <2>2. k < k /\ k \in Nat
    BY <1>1, <1>2, <2>1, KeysAre DEF SpokenInOrder
  <2>. QED  BY <2>2
<1>. QED  BY <1>6, <1>7, <1>8

\* So the chunks of a closed utterance are in the reports, and its finals hold all of them.
LEMMA WholeIsHeard == Settled /\ WholeSoFar /\ pc # "stopped" => ClosedMeansHeard
<1>. SUFFICES ASSUME Settled, WholeSoFar, pc # "stopped", Undisturbed, NEW x \in DOMAIN told.closed
              PROVE  \E n \in scope.chunk_counts : {c[2] : c \in ChunksOf(told.closed[x])} = 1 .. n
  BY DEF ClosedMeansHeard, Undisturbed
<1>. DEFINE k == told.closed[x]
<1>1. told \in ToldOf /\ HeardRight(told) /\ ToSet(told.closed) \subseteq told.ended /\ scope \in Scopes
  BY DEF Settled, Inv, Typed, Owners, ReportsRight, Undisturbed, Ledger, ClosedWell
<1>2. k \in ToSet(told.closed) /\ k \in told.ended /\ k \in Keys
  <2>1. k \in ToSet(told.closed)
    BY DEF ToSet
  <2>. QED  BY <1>1, <2>1 DEF ToldOf
<1>. HIDE DEF k
<1>3. PICK n \in scope.chunk_counts : Spans(k, 0, n)
  BY <1>2 DEF WholeSoFar, Whole, EndSent
<1>4. n \in Nat
  BY <1>1, <1>3, ActorAssumption
<1>. DEFINE C == ChunksOf(k)
<1>5. \A c : c \in C <=> \E h \in told.heard : h.final /\ h.key = k /\ h.chunk = c
  BY DEF ChunksOf
<1>. HIDE DEF C
<1>6. ASSUME NEW c \in C PROVE c[2] \in 1 .. n
  <2>1. PICK h \in told.heard : h.final /\ h.key = k /\ h.chunk = c
    BY <1>5
  <2>2. h \in Reports
    BY <1>1, <2>1 DEF ToldOf
  <2>3. h.chunk \in Keys \X Nat \X Nat
    BY <2>2 DEF Reports
  <2>4. c \in Keys \X Nat \X Nat /\ c[1] = k
    BY <1>1, <2>1, <2>3 DEF HeardRight
  <2>5. c = <<k, c[2], c[3]>> /\ c[2] \in Nat /\ c[3] \in Nat
    BY <2>4
  <2>6. Known(c)
    BY <2>1 DEF Known, Reported
  <2>7. Present(k, c[2])
    BY <2>5, <2>6 DEF Present
  <2>. QED  BY <1>3, <1>4, <2>5, <2>7 DEF Spans
<1>7. ASSUME NEW i \in 1 .. n PROVE \E c \in C : c[2] = i
  <2>1. i \in Nat /\ 0 < i /\ i <= n
    BY <1>4
  <2>2. Present(k, i)
    BY <1>3, <2>1 DEF Spans
  <2>3. /\ \A g : ~Holds(stt, <<k, i, g>>)
        /\ hand # <<k, i>> /\ ~Brought(cmds, k, i)
    BY <1>2, <2>1, ClosedIsGone
  <2>4. PICK g \in Nat : Reported(told, <<k, i, g>>)
    BY <2>2, <2>3 DEF Present, Known
  <2>5. PICK h \in told.heard : h.final /\ h.chunk = <<k, i, g>>
    BY <2>4 DEF Reported
  <2>6. h.key = h.chunk[1] /\ <<k, i, g>>[1] = k /\ <<k, i, g>>[2] = i
    BY <1>1, <2>5 DEF HeardRight
  <2>. QED  BY <1>5, <2>5, <2>6
<1>8. {c[2] : c \in C} = 1 .. n
  BY <1>6, <1>7
<1>. QED  BY <1>8 DEF C, k

\* When the actor has stopped, nothing is told any more.
LEMMA NextHeard ==
    Settled /\ WholeSoFar /\ ClosedMeansHeard /\ [Next]_vars /\ Settled' /\ WholeSoFar' => ClosedMeansHeard'
<1>. SUFFICES ASSUME Settled, WholeSoFar, ClosedMeansHeard, [Next]_vars, Settled', WholeSoFar'
              PROVE  ClosedMeansHeard'
  OBVIOUS
<1>1. CASE pc' # "stopped"
  <2>1. (Settled /\ WholeSoFar /\ pc # "stopped" => ClosedMeansHeard)'
    BY WholeIsHeard, PTL
  <2>. QED  BY <1>1, <2>1
<1>2. CASE pc' = "stopped"
  <2>1. pc = "stopped" => ~stt.alive
    BY DEF Settled, Counts
  <2>2. told' = told /\ scope' = scope /\ losses' = losses
    <3>1. AgentStep \/ OnStop \/ VendorStep \/ BackoffPasses \/ UNCHANGED vars
      BY <1>2 DEF Next, ActorStep, ReadCommand, OnAudio, OnEnd, OnParkable, ReopenDrain, ReopenStart, Push, Drain,
             RunParked, ExpireDeadlines, ForgetFront, Poll
    <3>2. ~VendorStep
      <4>1. VendorStep => pc' = pc /\ stt.alive
        BY DEF VendorStep, VendorOnly, VendorTakesNext, VendorSpeaks, Lose
      <4>. QED  BY <1>2, <2>1, <4>1
    <3>. QED  BY <3>1, <3>2 DEF AgentStep, AgentOnly, vars, OnStop, BackoffPasses,
                  SendAudio, SendEnd, CloseNotFound, UpdateConfig, ApplyConfig, SendBarrier, SendStop
  <2>. QED  BY <2>2 DEF ClosedMeansHeard, ChunksOf, SwapWaits
<1>. QED  BY <1>1, <1>2

\* In every state.
LEMMA WholeHolds == Spec => [](Settled /\ WholeSoFar /\ ClosedMeansHeard)
<1>1. Init => Settled /\ WholeSoFar /\ ClosedMeansHeard
  <2>1. Init => Settled /\ WholeSoFar
    BY InitInv, InitOwners, InitCounts, InitCalm, InitWhole DEF Settled
  <2>2. Init => pc # "stopped"
    BY DEF Init
  <2>. QED  BY <2>1, <2>2, WholeIsHeard
<1>2. Settled /\ [Next]_vars => Settled'
  BY NextInv, NextOwners, NextCounts, NextCalm DEF Settled
<1>3. Settled /\ WholeSoFar /\ ClosedMeansHeard /\ [Next]_vars => (Settled /\ WholeSoFar /\ ClosedMeansHeard)'
  BY <1>2, NextWhole, NextHeard
<1>. QED  BY <1>1, <1>3, PTL DEF Spec

-----------------------------------------------------------------------------
(* The theorems. *)

\* Whatever the vendor and the deadlines do, the provider's counters stay numbers in
\* their order, outstanding finalizes keep the order of their keys, and the timed-out
\* ones are the oldest (stt_actor.rs: outstanding, expire_deadlines).
THEOREM SttTyped == Spec => []TypeOK
<1>1. Inv => TypeOK
  <2>. SUFFICES ASSUME Inv PROVE TypeOK
    OBVIOUS
  <2>1. Typed /\ InTurn(outstanding)
    BY DEF Inv, Ledger
  <2>2. pc \in {"select", "reopen", "start", "push", "drain", "parked", "stopped"}
    BY <2>1 DEF Typed, Pcs, InHand
  <2>3. parked.cmd \in {"none", "swap", "barrier"}
    BY <2>1, CommandsAre DEF Typed, None
  <2>4. stt.finals.pending \in Nat /\ stt.position <= stt.pushed
    <3>1. /\ stt.finals.pending \in Nat /\ stt.position \in Nat /\ stt.pushed \in Nat
          /\ stt.socket \in Seq(SocketItems(Under(gen)))
      BY <2>1 DEF Typed, Providers, FinalsOf
    <3>2. All(stt.socket, SocketFinalize) \in Nat /\ All(stt.socket, SocketFinalize) <= Len(stt.socket)
          /\ Len(stt.socket) \in Nat
      BY <3>1, AllNat
    <3>. QED  BY <2>1, <3>1, <3>2 DEF Typed, InStep
  <2>. QED  BY <2>1, <2>2, <2>3, <2>4 DEF TypeOK, InTurn
<1>. QED  BY <1>1, InvHolds, PTL

\* An EndUtterance is answered by one FinalizeDone with its key, whichever of vendor,
\* deadline, refusal and lost connection closes it, and in the order they were sent
\* but for those refused at once (stt_actor.rs: drain_outputs, expire_deadlines,
\* on_end_utterance).
THEOREM ClosedInTurn == Spec => []ClosedOnceInOrder
<1>1. Inv => ClosedOnceInOrder
  BY DEF Inv, Ledger, ClosedWell, ClosedOnceInOrder, ClosedAtMostOnce, ClosedInOrder
<1>. QED  BY <1>1, InvHolds, PTL

\* The provider owes one marker per outstanding finalize, through answers, polls that
\* an error cuts short, losses and swaps: the actor never takes one utterance's
\* marker for another's (stt_deferred.rs: answer; stt_actor.rs: drain_outputs).
THEOREM MarkersStayAligned == Spec => []MarkersAligned
<1>1. Inv => MarkersAligned
  BY DEF Inv, Aligned, Owed, MarkersAligned
<1>. QED  BY <1>1, InvHolds, PTL

\* A transcript carries the generation of the provider that heard its audio, however
\* late it is polled (stt_actor.rs: front_key_gen, apply_swap).
THEOREM HeardByItsProvider == Spec => []GenerationsAttributed
<1>1. Inv => GenerationsAttributed
  BY DEF Inv, Typed, ToldOf, Reports, GenerationsAttributed
<1>. QED  BY <1>1, InvHolds, PTL

\* A Swap or Barrier is reached only when every EndUtterance sent before it has been
\* answered (stt_actor.rs: run_parked).
THEOREM SwapsAndBarriersWait == Spec => []ParkedWaits
<1>1. Inv => ParkedWaits
  <2>. SUFFICES ASSUME Inv, NEW r \in told.reached PROVE r.owing = {}
    BY DEF ParkedWaits
  <2>1. r \in Reaches
    BY DEF Inv, Typed, ToldOf
  <2>. QED  BY <2>1 DEF Reaches
<1>. QED  BY <1>1, InvHolds, PTL

\* What the actor matches by order alone is matched right: each marker to its request,
\* each result to the provider that heard it, and, as long as nobody closed a finalize
\* that the vendor may still answer, each text to the utterance it belongs to
\* (stt_actor.rs: front_key_gen, drain_outputs; stt_deferred.rs: answer, lost).
THEOREM ResultsFindTheirUtterance == Spec => []Attributed
<1>1. Inv /\ Owners => Attributed
  <2>. SUFFICES ASSUME Inv, Owners PROVE Attributed
    OBVIOUS
  <2>1. MarkersAligned
    BY DEF Inv, Aligned, Owed, MarkersAligned
  <2>2. GenerationsAttributed
    BY DEF Inv, Typed, ToldOf, Reports, GenerationsAttributed
  <2>3. ResultsAttributed
    BY DEF Owners, ReportsRight, HeardRight, ResultsAttributed, FinalsAttributed
  <2>. QED  BY <2>1, <2>2, <2>3 DEF Attributed
<1>. QED  BY <1>1, InvHolds, OwnersHold, PTL

\* An utterance is heard out before anything else happens to it. Unless a connection was
\* lost, an answer came too late or a swap came in the middle of it, an utterance that
\* is closed has been reported in finals with its key, every chunk of it and no other;
\* Swaps and Barriers wait for the answers before them, and a queued config never cuts
\* an utterance (stt_actor.rs: drain_outputs, run_parked; stt.rs: on_results,
\* request_finalize; agent.rs: begin_utterance_close).
THEOREM UtterancesAreHeardOut == Spec => []HeardOut
<1>1. Swaps => QueuedSwapWaits
  BY DEF Swaps
<1>. QED  BY <1>1, WholeHolds, SwapsHold, SwapsAndBarriersWait, PTL DEF HeardOut

=============================================================================
