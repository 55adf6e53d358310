------------------------ MODULE InboundPath_proofs ------------------------
(***************************************************************************)
(* The inbound audio path, for sequence numbers and limits of any size,    *)
(* any stream of packets and any interleaving of reader, stage, pump and   *)
(* clock.                                                                  *)
(* The buffer. Whatever push, poll and flush do to it, what is held lies   *)
(* between next and max_ext and has arrived; a running gap is older than a *)
(* held packet; and the wait and the histories are within their bounds     *)
(* (Sound). The operators are followed one by one: refresh of the wait,    *)
(* observation, emission, advance, hold, reset.                            *)
(* The path. The end of the track is the last thing its reader sends; the  *)
(* first error that read_sample returns finds nothing held, nothing ready  *)
(* and nothing pending; so the tail of silence is the last that is fed.    *)
(***************************************************************************)
EXTENDS InboundPath, LoopLemmas, FiniteSetTheorems, SequenceTheorems

-----------------------------------------------------------------------------
(* Finite sets of integers *)

\* A set of integers that is not empty and bounded from below has a least element.
LEMMA MinOf ==
    ASSUME NEW S, S \subseteq Int, S # {}, \E low \in Int : \A x \in S : low <= x
    PROVE  Min(S) \in S /\ \A y \in S : Min(S) <= y
<1>0. PICK low \in Int : \A x \in S : low <= x
  OBVIOUS
<1>. DEFINE T == {x - low : x \in S}
<1>1. T \in SUBSET Nat /\ T # {}
  <2>1. \A x \in S : x - low \in Nat
    BY <1>0
  <2>. QED  BY <2>1
<1>2. PICK n \in T : \A m \in T : n <= m
  <2>. HIDE DEF T
  <2>. QED  BY <1>1, LeastOf
<1>3. PICK x \in S : n = x - low
  BY <1>2
<1>4. \A y \in S : x <= y
  <2>. TAKE y \in S
  <2>1. y - low \in T
    OBVIOUS
  <2>2. n <= y - low /\ x \in Int /\ y \in Int
    <3>. HIDE DEF T
    <3>. QED  BY <1>2, <2>1
  <2>. QED  BY <1>3, <2>2
<1>. QED  BY <1>3, <1>4 DEF Min

\* The same from above.
LEMMA MaxOf ==
    ASSUME NEW S, S \subseteq Int, S # {}, \E high \in Int : \A x \in S : x <= high
    PROVE  Max(S) \in S /\ \A y \in S : y <= Max(S)
<1>0. PICK high \in Int : \A x \in S : x <= high
  OBVIOUS
<1>. DEFINE T == {high - x : x \in S}
<1>1. T \in SUBSET Nat /\ T # {}
  <2>1. \A x \in S : high - x \in Nat
    BY <1>0
  <2>. QED  BY <2>1
<1>2. PICK n \in T : \A m \in T : n <= m
  <2>. HIDE DEF T
  <2>. QED  BY <1>1, LeastOf
<1>3. PICK x \in S : n = high - x
  BY <1>2
<1>4. \A y \in S : y <= x
  <2>. TAKE y \in S
  <2>1. high - y \in T
    OBVIOUS
  <2>2. n <= high - y /\ x \in Int /\ y \in Int
    <3>. HIDE DEF T
    <3>. QED  BY <1>2, <2>1
  <2>. QED  BY <1>3, <2>2
<1>. QED  BY <1>3, <1>4 DEF Max

\* A finite set of integers is bounded.
LEMMA Bounded ==
    ASSUME NEW S \in SUBSET Int, IsFiniteSet(S)
    PROVE  \E high \in Int : \A x \in S : x <= high
<1>. DEFINE T == {n \in Nat : \A R \in SUBSET Int : IsFiniteSet(R) /\ Cardinality(R) = n
                                  => \E high \in Int : \A x \in R : x <= high}
<1>1. 0 \in T
  <2>. SUFFICES ASSUME NEW R \in SUBSET Int, IsFiniteSet(R), Cardinality(R) = 0
                PROVE  \E high \in Int : \A x \in R : x <= high
    OBVIOUS
  <2>1. R = {}
    BY FS_EmptySet
  <2>. QED  BY <2>1
<1>2. ASSUME NEW n \in Nat, n \in T PROVE n + 1 \in T
  <2>. SUFFICES ASSUME NEW R \in SUBSET Int, IsFiniteSet(R), Cardinality(R) = n + 1
                PROVE  \E high \in Int : \A x \in R : x <= high
    OBVIOUS
  <2>0. R # {}
    BY FS_EmptySet
  <2>1. PICK r \in R : TRUE
    BY <2>0
  <2>2. IsFiniteSet(R \ {r}) /\ Cardinality(R \ {r}) = n
    BY FS_RemoveElement
  <2>3. PICK high \in Int : \A x \in R \ {r} : x <= high
    BY <1>2, <2>2
  <2>4. CASE r <= high
    BY <2>3, <2>4
  <2>5. CASE ~(r <= high)
    <3>1. r \in Int /\ \A x \in R : x <= r
      BY <2>3, <2>5
    <3>. QED  BY <3>1
  <2>. QED  BY <2>4, <2>5
<1>3. Cardinality(S) \in T
  <2>1. Cardinality(S) \in Nat
    BY FS_CardinalityType
  <2>. HIDE DEF T
  <2>. QED  BY <1>1, <1>2, <2>1, Inductive
<1>. QED  BY <1>3

\* A finite set of integers that is not empty has a greatest element.
LEMMA Greatest ==
    ASSUME NEW S \in SUBSET Int, IsFiniteSet(S), S # {}
    PROVE  Max(S) \in S /\ \A y \in S : y <= Max(S)
BY Bounded, MaxOf

\* A finite set of integers can be put in order.
Sorts(s, S) == s \in [1 .. Cardinality(S) -> S] /\ \A i, j \in DOMAIN s : i < j => s[i] < s[j]

\* InOrder lists its set.
LEMMA InOrderIs ==
    ASSUME NEW S \in SUBSET Int, IsFiniteSet(S)
    PROVE  Sorts(InOrder(S), S) /\ InOrder(S) \in Seq(S)
<1>. DEFINE T == {n \in Nat : \A R \in SUBSET Int : IsFiniteSet(R) /\ Cardinality(R) = n
                                  => \E s : Sorts(s, R)}
<1>1. 0 \in T
  <2>. SUFFICES ASSUME NEW R \in SUBSET Int, IsFiniteSet(R), Cardinality(R) = 0
                PROVE  \E s : Sorts(s, R)
    OBVIOUS
  <2>1. Sorts([i \in 1 .. 0 |-> i], R)
    BY DEF Sorts
  <2>. QED  BY <2>1
<1>2. ASSUME NEW n \in Nat, n \in T PROVE n + 1 \in T
  <2>. SUFFICES ASSUME NEW R \in SUBSET Int, IsFiniteSet(R), Cardinality(R) = n + 1
                PROVE  \E s : Sorts(s, R)
    OBVIOUS
  <2>1. R # {}
    BY FS_EmptySet
  <2>. DEFINE r == Max(R)
              Q == R \ {r}
  <2>2. r \in R /\ \A y \in R : y <= r
    BY <2>1, Greatest
  <2>. HIDE DEF r
  <2>3. IsFiniteSet(Q) /\ Cardinality(Q) = n /\ Q \in SUBSET Int
    <3>1. Cardinality(R \ {r}) = Cardinality(R) - 1 /\ IsFiniteSet(R \ {r})
      BY <2>2, FS_RemoveElement
    <3>2. Cardinality(R) - 1 = n
      OBVIOUS
    <3>. QED  BY <3>1, <3>2
  <2>4. \A y \in Q : y < r
    BY <2>2
  <2>5. PICK s : Sorts(s, Q)
    BY <1>2, <2>3
  <2>. DEFINE t == [i \in 1 .. n + 1 |-> IF i = n + 1 THEN r ELSE s[i]]
  <2>6. s \in [1 .. n -> Q] /\ \A i, j \in 1 .. n : i < j => s[i] < s[j]
    BY <2>3, <2>5 DEF Sorts
  <2>7. ASSUME NEW i \in 1 .. n + 1 PROVE t[i] \in R /\ (i # n + 1 => i \in 1 .. n /\ t[i] = s[i] /\ s[i] \in Q)
    <3>1. i # n + 1 => i \in 1 .. n
      OBVIOUS
    <3>. QED  BY <2>2, <2>6, <3>1
  <2>8. ASSUME NEW i \in 1 .. n + 1, NEW j \in 1 .. n + 1, i < j PROVE t[i] < t[j]
    <3>1. i # n + 1 /\ i \in 1 .. n
      BY <2>8
    <3>2. CASE j = n + 1
      BY <2>4, <2>7, <3>1, <3>2
    <3>3. CASE j # n + 1
      <4>1. j \in 1 .. n
        BY <3>3
      <4>. QED  BY <2>6, <2>7, <2>8, <3>1, <3>3, <4>1
    <3>. QED  BY <3>2, <3>3
  <2>9. Sorts(t, R)
    <3>1. t \in [1 .. n + 1 -> R]
      BY <2>7
    <3>. HIDE DEF t
    <3>. QED  BY <2>8, <3>1 DEF Sorts
  <2>. QED  BY <2>9
<1>3. Cardinality(S) \in T
  <2>1. Cardinality(S) \in Nat
    BY FS_CardinalityType
  <2>. HIDE DEF T
  <2>. QED  BY <1>1, <1>2, <2>1, Inductive
<1>4. PICK s : Sorts(s, S)
  BY <1>3
<1>5. Sorts(InOrder(S), S)
  BY <1>4 DEF Sorts, InOrder
<1>6. Cardinality(S) \in Nat
  BY FS_CardinalityType
<1>. QED  BY <1>5, <1>6 DEF Sorts

-----------------------------------------------------------------------------
(* Sequences *)

\* LastOf keeps no more than it may, and nothing new.
LEMMA LastOfKeeps ==
    ASSUME NEW A, NEW s \in Seq(A), NEW n \in Nat \ {0}
    PROVE  /\ LastOf(s, n) \in Seq(A) /\ Len(LastOf(s, n)) <= n
           /\ \A i \in DOMAIN LastOf(s, n) : \E j \in DOMAIN s : LastOf(s, n)[i] = s[j]
<1>. DEFINE from == IF Len(s) > n THEN Len(s) - n + 1 ELSE 1
            t == SubSeq(s, from, Len(s))
<1>1. from \in 1 .. Len(s) + 1 /\ Len(s) - from + 1 <= n
  OBVIOUS
<1>. HIDE DEF from
<1>2. t \in Seq(A) /\ Len(t) = Len(s) - from + 1 /\ \A i \in 1 .. Len(t) : t[i] = s[from + i - 1]
  BY <1>1
<1>3. \A i \in DOMAIN t : from + i - 1 \in DOMAIN s
  BY <1>1, <1>2
<1>4. LastOf(s, n) = t
  BY DEF LastOf, from
<1>. HIDE DEF t
<1>5. \A i \in DOMAIN t : i \in 1 .. Len(t) /\ from + i - 1 \in DOMAIN s /\ t[i] = s[from + i - 1]
  BY <1>2, <1>3
<1>6. \A i \in DOMAIN t : \E j \in DOMAIN s : t[i] = s[j]
  BY <1>5
<1>. QED  BY <1>1, <1>2, <1>4, <1>6

\* The recursive function of FlattenSeq, on any sequence of sequences.
LEMMA Flattened ==
    ASSUME NEW A, NEW ss \in Seq(Seq(A))
    PROVE  FlattenSeq(ss) \in Seq(A)
<1>. DEFINE n == Len(ss)
            pass == [i \in 1 .. n |-> [x \in Seq(A) |-> x \o ss[i]]]
            step(a) == [i \in 1 .. n |-> IF i = 1 THEN ss[i] ELSE a[i - 1] \o ss[i]]
            whole == CHOOSE a : a = step(a)
            T == {i \in Nat : i < n => whole[i + 1] \in Seq(A)}
<1>1. n \in Nat /\ \A i \in 1 .. n : ss[i] \in Seq(A)
  OBVIOUS
<1>2. CASE n = 0
  <2>1. FlattenSeq(ss) = ss /\ ss = <<>>
    BY <1>2 DEF FlattenSeq
  <2>. QED  BY <2>1
<1>3. CASE n # 0
  <2>1. FlattenSeq(ss) = whole[n]
    BY <1>3 DEF FlattenSeq
  <2>. HIDE DEF n
  <2>2. \E a : a = step(a)
    <3>1. pass \in [1 .. n -> [Seq(A) -> Seq(A)]]
      BY <1>1
    <3>2. PICK f : f \in [0 .. n -> Seq(A)] /\ f[0] = <<>> /\ \A i \in 1 .. n : f[i] = pass[i][f[i - 1]]
      <4>. HIDE DEF pass
      <4>1. \E f : Loop(f, n, Seq(A), <<>>, pass)
        <5>1. <<>> \in Seq(A)
          OBVIOUS
        <5>. QED  BY <1>1, <3>1, <5>1, LoopExists
      <4>. QED  BY <4>1 DEF Loop
    <3>3. \A i \in 1 .. n : f[i] = f[i - 1] \o ss[i]
      <4>. TAKE i \in 1 .. n
      <4>1. i - 1 \in 0 .. n  BY <1>1
      <4>. QED  BY <3>2, <4>1
    <3>. DEFINE g == [i \in 1 .. n |-> f[i]]
    <3>4. \A i \in 1 .. n : g[i] = step(g)[i]
      <4>. TAKE i \in 1 .. n
      <4>1. CASE i = 1
        <5>1. f[i] = <<>> \o ss[i] /\ ss[i] \in Seq(A)
          <6>1. i - 1 = 0 /\ ss[i] \in Seq(A) /\ f[i] = f[i - 1] \o ss[i]
            <7>1. f[i] = f[i - 1] \o ss[i]
              BY <3>3
            <7>. QED  BY <1>1, <4>1, <7>1
          <6>. QED  BY <3>2, <6>1
        <5>. QED  BY <4>1, <5>1
      <4>2. CASE i # 1
        <5>1. i - 1 \in 1 .. n  BY <1>1, <4>2
        <5>. QED  BY <3>3, <4>2, <5>1
      <4>. QED  BY <4>1, <4>2
    <3>5. g = step(g)
      BY <3>4
    <3>. QED  BY <3>5
  <2>3. whole = step(whole)
    BY <2>2
  <2>. HIDE DEF whole
  <2>4. 0 \in T
    <3>1. 1 \in 1 .. n  BY <1>1, <1>3
    <3>. QED  BY <1>1, <2>3, <3>1
  <2>5. ASSUME NEW i \in Nat, i \in T PROVE i + 1 \in T
    <3>. SUFFICES ASSUME i + 1 < n PROVE whole[i + 1 + 1] \in Seq(A)
      OBVIOUS
    <3>1. i + 1 + 1 \in 1 .. n /\ i + 1 + 1 # 1 /\ i + 1 + 1 - 1 = i + 1 /\ i < n
      BY <1>1
    <3>2. whole[i + 1] \in Seq(A)
      BY <2>5, <3>1
    <3>3. whole[i + 1 + 1] = whole[i + 1] \o ss[i + 1 + 1]
      <4>. DEFINE k == i + 1 + 1
      <4>1. k \in 1 .. n /\ k # 1 /\ k - 1 = i + 1
        BY <3>1
      <4>. HIDE DEF k
      <4>2. whole[k] = whole[k - 1] \o ss[k]
        BY <2>3, <4>1
      <4>. QED  BY <4>1, <4>2 DEF k
    <3>4. ss[i + 1 + 1] \in Seq(A)
      BY <1>1, <3>1
    <3>. QED  BY <3>2, <3>3, <3>4
  <2>6. n - 1 \in T
    <3>1. n - 1 \in Nat  BY <1>1, <1>3
    <3>. HIDE DEF T
    <3>. QED  BY <2>4, <2>5, <3>1, Inductive
  <2>7. n - 1 < n /\ n - 1 + 1 = n
    BY <1>1
  <2>. QED  BY <2>1, <2>6, <2>7
<1>. QED  BY <1>2, <1>3

-----------------------------------------------------------------------------
(* The buffer *)

Outputs == [kind : {"packet", "lost"}, pos : Int, count : Int]
HeldPackets == [pos : Int, arrived : Int]
Holdings == UNION {[D -> HeldPackets] : D \in SUBSET Int}
LostRanges == [start : Int, end : Int, gap_since : Int]
Observations == [at : Int, delay : Int]

Buffers ==
    [started : BOOLEAN, next : Int, max_ext : Int, held : Holdings, ready : Seq(Outputs),
     gap_since : Int, lost_ranges : Seq(LostRanges), observations : Seq(Observations),
     wait : Int, discarded : Int, resets : Nat]

\* What is held is above next and has arrived; a gap has waited since then.
HeldIsAhead(b, clock) ==
    /\ IsFiniteSet(HeldNumbers(b))
    /\ \A ext \in HeldNumbers(b) :
         /\ b.next <= ext /\ ext <= b.max_ext
         /\ 0 <= b.held[ext].arrived /\ b.held[ext].arrived <= clock
    /\ ~b.started => HeldNumbers(b) = {}
GapHasHeld(b) ==
    b.gap_since # None =>
        /\ 0 <= b.gap_since
        /\ \E ext \in HeldNumbers(b) : b.held[ext].arrived <= b.gap_since
WithinBounds(b) ==
    /\ Len(b.lost_ranges) <= MaxLostRanges /\ Len(b.observations) <= MaxObservations
    /\ MinWait <= b.wait /\ b.wait <= MaxWait

Sound(b, clock) == b \in Buffers /\ HeldIsAhead(b, clock) /\ GapHasHeld(b) /\ WithinBounds(b)

\* What the wait does not touch.
SameHoldings(b, c) ==
    /\ c.started = b.started /\ c.next = b.next /\ c.max_ext = b.max_ext /\ c.held = b.held
    /\ c.ready = b.ready /\ c.gap_since = b.gap_since /\ c.lost_ranges = b.lost_ranges
    /\ c.resets = b.resets

\* The types of what is held.
LEMMA HeldAre ==
    ASSUME NEW b \in Buffers
    PROVE  /\ HeldNumbers(b) \in SUBSET Int
           /\ b.held \in [HeldNumbers(b) -> HeldPackets]
           /\ \A ext \in HeldNumbers(b) : b.held[ext].pos \in Int /\ b.held[ext].arrived \in Int
<1>1. b.held \in Holdings
  BY DEF Buffers
<1>2. PICK D \in SUBSET Int : b.held \in [D -> HeldPackets]
  BY <1>1 DEF Holdings
<1>3. DOMAIN b.held = D
  BY <1>2
<1>. QED  BY <1>2, <1>3 DEF HeldNumbers, HeldPackets

\* The values of a function with a finite domain are finitely many.
LEMMA ImageIsFinite ==
    ASSUME NEW f, f = [x \in DOMAIN f |-> f[x]], IsFiniteSet(DOMAIN f)
    PROVE  IsFiniteSet({f[x] : x \in DOMAIN f})
<1>. DEFINE T == {f[x] : x \in DOMAIN f}
<1>1. f \in [DOMAIN f -> T]
  OBVIOUS
<1>2. \A t \in T : \E x \in DOMAIN f : f[x] = t
  OBVIOUS
<1>. HIDE DEF T
<1>3. f \in Surjection(DOMAIN f, T)
  BY <1>1, <1>2 DEF Surjection
<1>4. IsFiniteSet(T)
  BY <1>3, FS_Surjection
<1>. QED  BY <1>4 DEF T

\* The clamp of the wait.
LEMMA ClampIs ==
    ASSUME NEW x \in Int, NEW low \in Int, NEW high \in Int, low <= high
    PROVE  Clamp(x, low, high) \in Int /\ low <= Clamp(x, low, high) /\ Clamp(x, low, high) <= high
BY DEF Clamp

\* The refresh of the wait forgets observations and computes the wait.
LEMMA Refreshed ==
    ASSUME NEW b \in Buffers, Len(b.lost_ranges) <= MaxLostRanges,
           Len(b.observations) <= MaxObservations, NEW clock \in Int
    PROVE  /\ RefreshWait(b, clock) \in Buffers /\ WithinBounds(RefreshWait(b, clock))
           /\ SameHoldings(b, RefreshWait(b, clock))
<1>. DEFINE obs == b.observations
            fresh == {i \in DOMAIN obs : clock - obs[i].at < ObservationWindow}
            recent == IF fresh = {} THEN <<>> ELSE SubSeq(obs, Min(fresh), Len(obs))
            delays == {0} \union {recent[i].delay : i \in DOMAIN recent}
            wait == Clamp(Max(delays) + WaitMargin, MinWait, MaxWait)
<1>1. obs \in Seq(Observations)
  BY DEF Buffers
<1>2. recent \in Seq(Observations) /\ Len(recent) <= Len(obs)
  <2>1. CASE fresh = {}
    BY <1>1, <2>1
  <2>2. CASE fresh # {}
    <3>1. fresh \subseteq 1 .. Len(obs)
      BY <1>1
    <3>. HIDE DEF fresh
    <3>2. Min(fresh) \in 1 .. Len(obs)
      <4>1. fresh \subseteq Int /\ \A x \in fresh : 1 <= x
        BY <3>1
      <4>2. Min(fresh) \in fresh
        <5>1. \E low \in Int : \A x \in fresh : low <= x
          BY <4>1
        <5>. QED  BY <2>2, <4>1, <5>1, MinOf
      <4>. QED  BY <3>1, <4>2
    <3>. QED  BY <1>1, <2>2, <3>2
  <2>. QED  BY <2>1, <2>2
<1>. HIDE DEF recent
<1>3. delays \in SUBSET Int /\ delays # {}
  <2>1. \A i \in DOMAIN recent : recent[i].delay \in Int
    <3>1. \A i \in DOMAIN recent : recent[i] \in Observations
      BY <1>2
    <3>. QED  BY <3>1 DEF Observations
  <2>. QED  BY <2>1
<1>4. IsFiniteSet(delays)
  <2>1. DOMAIN recent = 1 .. Len(recent) /\ Len(recent) \in Nat
    BY <1>2
  <2>2. IsFiniteSet(DOMAIN recent)
    BY <2>1, FS_Interval
  <2>. DEFINE f == [i \in DOMAIN recent |-> recent[i].delay]
  <2>3. IsFiniteSet({recent[i].delay : i \in DOMAIN recent})
    <3>1. DOMAIN f = DOMAIN recent /\ f = [i \in DOMAIN f |-> f[i]]
      OBVIOUS
    <3>2. {f[i] : i \in DOMAIN f} = {recent[i].delay : i \in DOMAIN recent}
      OBVIOUS
    <3>3. IsFiniteSet({f[i] : i \in DOMAIN f})
      <4>. HIDE DEF f
      <4>. QED  BY <2>2, <3>1, ImageIsFinite
    <3>. QED  BY <3>2, <3>3
  <2>. QED  BY <2>3, FS_AddElement
<1>5. wait \in Int /\ MinWait <= wait /\ wait <= MaxWait
  <2>1. Max(delays) \in Int
    <3>. HIDE DEF delays
    <3>. QED  BY <1>3, <1>4, Greatest
  <2>. HIDE DEF delays
  <2>2. MinWait \in Int /\ MaxWait \in Int /\ MinWait <= MaxWait /\ WaitMargin \in Int
    BY ReorderAssumption
  <2>. DEFINE x == Max(delays) + WaitMargin
  <2>3. x \in Int
    BY <2>1, <2>2
  <2>. HIDE DEF x
  <2>4. Clamp(x, MinWait, MaxWait) \in Int /\ MinWait <= Clamp(x, MinWait, MaxWait)
         /\ Clamp(x, MinWait, MaxWait) <= MaxWait
    BY <2>2, <2>3, ClampIs
  <2>. QED  BY <2>4 DEF x
<1>6. RefreshWait(b, clock) = [b EXCEPT !.observations = recent, !.wait = wait]
  BY DEF RefreshWait, recent
<1>. HIDE DEF wait, obs
<1>7. Len(obs) <= MaxObservations
  BY DEF obs
<1>. QED
  <2>1. Len(recent) <= MaxObservations
    BY <1>1, <1>2, <1>7, ReorderAssumption
  <2>2. RefreshWait(b, clock) \in Buffers
    BY <1>2, <1>5, <1>6 DEF Buffers
  <2>. QED  BY <1>2, <1>5, <1>6, <2>1, <2>2 DEF Buffers, WithinBounds, SameHoldings

\* So does an observation, which it makes first.
LEMMA Observed ==
    ASSUME NEW b \in Buffers, WithinBounds(b), NEW clock \in Int, NEW delay \in Int
    PROVE  /\ Observe(b, clock, delay) \in Buffers /\ WithinBounds(Observe(b, clock, delay))
           /\ SameHoldings(b, Observe(b, clock, delay))
<1>. DEFINE added == Append(b.observations, [at |-> clock, delay |-> delay])
            kept == LastOf(added, MaxObservations)
            c == [b EXCEPT !.observations = kept]
<1>1. added \in Seq(Observations)
  BY DEF Buffers, Observations
<1>2. kept \in Seq(Observations) /\ Len(kept) <= MaxObservations
  <2>. HIDE DEF added
  <2>. QED  BY <1>1, LastOfKeeps, ReorderAssumption
<1>. HIDE DEF kept
<1>3. c \in Buffers /\ SameHoldings(b, c) /\ Len(c.observations) <= MaxObservations
      /\ Len(c.lost_ranges) <= MaxLostRanges
  BY <1>2 DEF Buffers, SameHoldings, WithinBounds
<1>4. Observe(b, clock, delay) = RefreshWait(c, clock)
  BY DEF Observe, kept
<1>. HIDE DEF c
<1>5. RefreshWait(c, clock) \in Buffers /\ WithinBounds(RefreshWait(c, clock)) /\ SameHoldings(c, RefreshWait(c, clock))
  BY <1>3, Refreshed
<1>. QED  BY <1>3, <1>4, <1>5 DEF SameHoldings

\* A buffer that differs in its wait alone holds the same, as soundly.
LEMMA SameIsSound ==
    ASSUME NEW b, NEW c \in Buffers, NEW clock, Sound(b, clock), SameHoldings(b, c), WithinBounds(c)
    PROVE  Sound(c, clock)
BY DEF Sound, SameHoldings, HeldIsAhead, GapHasHeld, HeldNumbers

-----------------------------------------------------------------------------
(* Emission *)

Book(b, clock) == b \in Buffers /\ HeldIsAhead(b, clock) /\ GapHasHeld(b)
\* A set of held numbers that holds with each of them all below.
DownTo(b, exts) ==
    exts \subseteq HeldNumbers(b) /\ \A e \in exts, d \in HeldNumbers(b) : d <= e => d \in exts

\* What is held has a first number.
LEMMA HeadIs ==
    ASSUME NEW b, NEW clock, Book(b, clock), NEW S \in SUBSET HeldNumbers(b), S # {}
    PROVE  Min(S) \in S /\ \A e \in S : Min(S) <= e
<1>1. S \subseteq Int /\ b.next \in Int /\ \A e \in S : b.next <= e
  BY HeldAre DEF Book, HeldIsAhead, Buffers
<1>2. \E low \in Int : \A e \in S : low <= e
  BY <1>1
<1>. QED  BY <1>1, <1>2, MinOf

\* There is a packet or a gap below a held packet.
LEMMA BelowIs ==
    ASSUME NEW b, NEW clock, Book(b, clock), NEW ext \in HeldNumbers(b)
    PROVE  Below(b, ext) \in Int
<1>. DEFINE S == {b.next - 1} \union {e \in HeldNumbers(b) : e < ext}
<1>1. b.next - 1 \in Int /\ HeldNumbers(b) \subseteq Int /\ IsFiniteSet(HeldNumbers(b))
  BY HeldAre DEF Book, HeldIsAhead, Buffers
<1>2. S \in SUBSET Int /\ S # {}
  BY <1>1
<1>3. IsFiniteSet(S)
  <2>1. IsFiniteSet({e \in HeldNumbers(b) : e < ext})
    BY <1>1, FS_Subset
  <2>2. IsFiniteSet({e \in HeldNumbers(b) : e < ext} \union {b.next - 1})
    BY <2>1, FS_AddElement
  <2>3. S = {e \in HeldNumbers(b) : e < ext} \union {b.next - 1}
    OBVIOUS
  <2>. QED  BY <2>2, <2>3
<1>4. Max(S) \in Int
  <2>. HIDE DEF S
  <2>. QED  BY <1>2, <1>3, Greatest
<1>. QED  BY <1>4 DEF Below

\* A gap below a held packet has waited as long as some packet held behind it.
LEMMA SinceIs ==
    ASSUME NEW b, NEW clock, Book(b, clock), NEW ext \in HeldNumbers(b)
    PROVE  /\ Since(b, ext) \in Int /\ 0 <= Since(b, ext)
           /\ \E e \in HeldNumbers(b) : ext <= e /\ b.held[e].arrived <= Since(b, ext)
<1>1. b.held[ext].arrived \in Int /\ 0 <= b.held[ext].arrived /\ ext \in Int /\ b.gap_since \in Int
  BY HeldAre DEF Book, HeldIsAhead, Buffers
<1>2. CASE ext = Head0(b) /\ b.gap_since # None
  <2>1. Since(b, ext) = b.gap_since
    BY <1>2 DEF Since
  <2>2. PICK e \in HeldNumbers(b) : b.held[e].arrived <= b.gap_since
    BY <1>2 DEF Book, GapHasHeld
  <2>3. ext <= e
    BY <1>2, HeadIs DEF Head0
  <2>. QED  BY <1>1, <1>2, <2>1, <2>2, <2>3 DEF Book, GapHasHeld
<1>3. CASE ~(ext = Head0(b) /\ b.gap_since # None)
  <2>1. Since(b, ext) = b.held[ext].arrived
    BY <1>3 DEF Since
  <2>. QED  BY <1>1, <2>1
<1>. QED  BY <1>2, <1>3

\* Since when the head that remains has waited.
LEMMA NextGapSinceIs ==
    ASSUME NEW b, NEW clock, Book(b, clock), NEW exts \in SUBSET HeldNumbers(b)
    PROVE  LET gap == NextGapSince(b, exts)
               kept == HeldNumbers(b) \ exts
           IN  /\ gap \in Int /\ (gap = None) = (kept = {})
               /\ gap # None => 0 <= gap /\ \E e \in kept : b.held[e].arrived <= gap
<1>. DEFINE kept == HeldNumbers(b) \ exts
<1>1. CASE kept = {}
  BY <1>1 DEF NextGapSince, None
<1>2. CASE kept # {} /\ exts = {}
  <2>1. NextGapSince(b, exts) = Since(b, Head0(b))
    BY <1>2 DEF NextGapSince
  <2>2. Head0(b) \in HeldNumbers(b) /\ kept = HeldNumbers(b)
    BY <1>2, HeadIs DEF Head0
  <2>. HIDE DEF kept
  <2>3. Since(b, Head0(b)) \in Int /\ 0 <= Since(b, Head0(b))
        /\ \E e \in HeldNumbers(b) : b.held[e].arrived <= Since(b, Head0(b))
    BY <2>2, SinceIs
  <2>. QED  BY <1>2, <2>1, <2>2, <2>3 DEF None, kept
<1>3. CASE kept # {} /\ exts # {}
  <2>1. NextGapSince(b, exts) = b.held[Min(kept)].arrived
    BY <1>3 DEF NextGapSince
  <2>2. Min(kept) \in kept
    BY <1>3, HeadIs
  <2>3. b.held[Min(kept)].arrived \in Int /\ 0 <= b.held[Min(kept)].arrived
    BY <2>2, HeldAre DEF Book, HeldIsAhead
  <2>4. kept # {} /\ b.held[Min(kept)].arrived # None
    BY <1>3, <2>3 DEF None
  <2>5. \E e \in kept : b.held[e].arrived <= b.held[Min(kept)].arrived
    BY <2>2, <2>3
  <2>. HIDE DEF kept
  <2>. QED  BY <2>1, <2>3, <2>4, <2>5 DEF kept
<1>. QED  BY <1>1, <1>2, <1>3

\* The range EmitHeld declares lost below a held packet.
RangeBelow(b, ext) == [start |-> Below(b, ext) + 1, end |-> ext, gap_since |-> Since(b, ext)]

\* c is b without the packets of exts.
Emission(b, exts, c, clock) ==
    /\ Sound(c, clock)
    /\ HeldNumbers(c) = HeldNumbers(b) \ exts
    /\ c.started = b.started /\ c.max_ext = b.max_ext /\ c.resets = b.resets
    /\ HeldNumbers(c) = {} <=> c.gap_since = None
    /\ exts = {} => c.ready = b.ready
    /\ \A i \in DOMAIN c.lost_ranges :
         \/ \E j \in DOMAIN b.lost_ranges : c.lost_ranges[i] = b.lost_ranges[j]
         \/ \E e \in exts : HasGap(b, e) /\ c.lost_ranges[i] = RangeBelow(b, e)

\* EmitHeld removes what it emits and declares lost only gaps below it.
LEMMA Emitted ==
    ASSUME NEW b, NEW clock, Book(b, clock), NEW exts, DownTo(b, exts), WithinBounds(b)
    PROVE  Emission(b, exts, EmitHeld(b, exts), clock)
<1>. DEFINE order == InOrder(exts)
            holes == {e \in exts : HasGap(b, e)}
            gaps == InOrder(holes)
            kept == HeldNumbers(b) \ exts
            Out(e) == (IF HasGap(b, e) THEN <<Lost(e - Below(b, e) - 1)>> ELSE <<>>)
                        \o <<Packet(b.held[e].pos)>>
            nexts == {b.next} \union {e + 1 : e \in exts}
            n1 == Max(nexts)
            h1 == [e \in kept |-> b.held[e]]
            outs == [i \in DOMAIN order |-> Out(order[i])]
            r1 == b.ready \o FlattenSeq(outs)
            lost == [i \in DOMAIN gaps |-> RangeBelow(b, gaps[i])]
            l1 == LastOf(b.lost_ranges \o lost, MaxLostRanges)
            g1 == NextGapSince(b, exts)
            c == [b EXCEPT !.next = n1, !.held = h1, !.ready = r1, !.lost_ranges = l1, !.gap_since = g1]
<1>1. EmitHeld(b, exts) = c
  BY DEF EmitHeld, RangeBelow
<1>2. /\ b \in Buffers /\ b.next \in Int /\ HeldNumbers(b) \in SUBSET Int /\ IsFiniteSet(HeldNumbers(b))
      /\ exts \in SUBSET HeldNumbers(b) /\ exts \in SUBSET Int /\ IsFiniteSet(exts)
  BY HeldAre, FS_Subset DEF Book, DownTo, HeldIsAhead, Buffers
<1>3. n1 \in Int /\ b.next <= n1 /\ (\A e \in exts : e + 1 <= n1)
      /\ (n1 = b.next \/ \E e \in exts : n1 = e + 1)
  <2>. DEFINE f == [e \in exts |-> e + 1]
  <2>1. IsFiniteSet({f[e] : e \in DOMAIN f})
    <3>1. f = [e \in DOMAIN f |-> f[e]] /\ IsFiniteSet(DOMAIN f)
      BY <1>2
    <3>. HIDE DEF f
    <3>. QED  BY <3>1, ImageIsFinite
  <2>2. {f[e] : e \in DOMAIN f} = {e + 1 : e \in exts}
    OBVIOUS
  <2>3. IsFiniteSet({e + 1 : e \in exts} \union {b.next})
    BY <2>1, <2>2, FS_AddElement
  <2>4. nexts = {e + 1 : e \in exts} \union {b.next}
    OBVIOUS
  <2>5. nexts \in SUBSET Int /\ nexts # {}
    <3>1. \A e \in exts : e + 1 \in Int
      BY <1>2
    <3>. QED  BY <1>2, <3>1
  <2>6. n1 \in nexts /\ \A y \in nexts : y <= n1
    <3>1. IsFiniteSet(nexts)
      BY <2>3, <2>4
    <3>. HIDE DEF nexts
    <3>. QED  BY <2>5, <3>1, Greatest
  <2>. HIDE DEF n1
  <2>7. b.next \in nexts /\ \A e \in exts : e + 1 \in nexts
    OBVIOUS
  <2>8. n1 \in Int /\ b.next <= n1 /\ \A e \in exts : e + 1 <= n1
    <3>. HIDE DEF nexts
    <3>. QED  BY <2>5, <2>6, <2>7
  <2>9. n1 = b.next \/ \E e \in exts : n1 = e + 1
    BY <2>6
  <2>. QED  BY <2>8, <2>9
<1>. HIDE DEF n1
<1>4. h1 \in Holdings /\ DOMAIN h1 = kept
  <2>1. kept \in SUBSET Int /\ h1 \in [kept -> HeldPackets]
    BY <1>2, HeldAre
  <2>. QED  BY <2>1 DEF Holdings
<1>5. order \in Seq(exts) /\ gaps \in Seq(holes) /\ (exts = {} => order = <<>>)
  <2>1. IsFiniteSet(holes) /\ holes \in SUBSET Int
    BY <1>2, FS_Subset
  <2>. HIDE DEF holes
  <2>2. InOrder(exts) \in Seq(exts) /\ InOrder(holes) \in Seq(holes)
    BY <1>2, <2>1, InOrderIs
  <2>. QED  BY <2>2
<1>. HIDE DEF order, gaps
<1>6. ASSUME NEW e \in exts PROVE Out(e) \in Seq(Outputs)
  <2>1. Below(b, e) \in Int /\ b.held[e].pos \in Int /\ e \in Int
    BY <1>2, BelowIs, HeldAre
  <2>2. Packet(b.held[e].pos) \in Outputs
    BY <2>1 DEF Outputs, Packet
  <2>3. Lost(e - Below(b, e) - 1) \in Outputs
    BY <2>1 DEF Outputs, Lost, None
  <2>. QED  BY <2>2, <2>3
<1>. HIDE DEF Out
<1>7. r1 \in Seq(Outputs) /\ (exts = {} => r1 = b.ready)
  <2>1. outs \in Seq(Seq(Outputs)) /\ (exts = {} => outs = <<>>)
    <3>1. order \in [1 .. Len(order) -> exts] /\ Len(order) \in Nat /\ DOMAIN order = 1 .. Len(order)
      BY <1>5
    <3>2. \A i \in 1 .. Len(order) : Out(order[i]) \in Seq(Outputs)
      BY <1>6, <3>1
    <3>. QED  BY <1>5, <3>1, <3>2
  <2>2. b.ready \in Seq(Outputs)
    BY <1>2 DEF Buffers
  <2>. HIDE DEF outs
  <2>3. FlattenSeq(outs) \in Seq(Outputs)
    BY <2>1, Flattened
  <2>4. exts = {} => FlattenSeq(outs) = <<>>
    BY <2>1 DEF FlattenSeq
  <2>. QED  BY <2>2, <2>3, <2>4
<1>. HIDE DEF r1
<1>8. /\ l1 \in Seq(LostRanges) /\ Len(l1) <= MaxLostRanges
      /\ \A i \in DOMAIN l1 : \/ \E j \in DOMAIN b.lost_ranges : l1[i] = b.lost_ranges[j]
                              \/ \E e \in exts : HasGap(b, e) /\ l1[i] = RangeBelow(b, e)
  <2>1. gaps \in [1 .. Len(gaps) -> holes] /\ Len(gaps) \in Nat /\ DOMAIN gaps = 1 .. Len(gaps)
    BY <1>5
  <2>2. \A i \in 1 .. Len(gaps) : gaps[i] \in exts /\ HasGap(b, gaps[i])
    BY <2>1
  <2>3. \A e \in exts : RangeBelow(b, e) \in LostRanges
    <3>. TAKE e \in exts
    <3>1. Below(b, e) \in Int /\ Since(b, e) \in Int /\ e \in Int
      BY <1>2, BelowIs, SinceIs
    <3>. QED  BY <3>1 DEF RangeBelow, LostRanges
  <2>. HIDE DEF holes
  <2>4. lost \in Seq(LostRanges) /\ Len(lost) = Len(gaps) /\ \A i \in 1 .. Len(lost) : lost[i] = RangeBelow(b, gaps[i])
    BY <2>1, <2>2, <2>3
  <2>5. b.lost_ranges \in Seq(LostRanges)
    BY <1>2 DEF Buffers
  <2>. DEFINE all == b.lost_ranges \o lost
  <2>. HIDE DEF lost
  <2>6. /\ all \in Seq(LostRanges) /\ Len(all) = Len(b.lost_ranges) + Len(lost)
        /\ \A i \in 1 .. Len(b.lost_ranges) : all[i] = b.lost_ranges[i]
        /\ \A i \in 1 .. Len(all) : i > Len(b.lost_ranges) => all[i] = lost[i - Len(b.lost_ranges)]
    BY <2>4, <2>5
  <2>7. \A j \in DOMAIN all : \/ \E k \in DOMAIN b.lost_ranges : all[j] = b.lost_ranges[k]
                              \/ \E e \in exts : HasGap(b, e) /\ all[j] = RangeBelow(b, e)
    <3>. TAKE j \in DOMAIN all
    <3>. DEFINE m == Len(b.lost_ranges)
    <3>1. j \in 1 .. Len(all) /\ m \in Nat /\ Len(lost) \in Nat
      BY <2>1, <2>4, <2>5, <2>6
    <3>2. CASE j <= m
      <4>1. j \in DOMAIN b.lost_ranges /\ j \in 1 .. m
        BY <2>5, <3>1, <3>2
      <4>. QED  BY <2>6, <4>1
    <3>3. CASE j > m
      <4>1. j - m \in 1 .. Len(lost)
        BY <2>6, <3>1, <3>3
      <4>2. all[j] = lost[j - m] /\ lost[j - m] = RangeBelow(b, gaps[j - m]) /\ gaps[j - m] \in exts
             /\ HasGap(b, gaps[j - m])
        <5>. HIDE DEF all
        <5>. QED  BY <2>2, <2>4, <2>6, <3>1, <3>3, <4>1
      <4>. QED  BY <4>2
    <3>. QED  BY <3>1, <3>2, <3>3
  <2>. HIDE DEF all
  <2>8. LastOf(all, MaxLostRanges) \in Seq(LostRanges) /\ Len(LastOf(all, MaxLostRanges)) <= MaxLostRanges
        /\ \A i \in DOMAIN LastOf(all, MaxLostRanges) :
             \E j \in DOMAIN all : LastOf(all, MaxLostRanges)[i] = all[j]
    <3>1. all \in Seq(LostRanges) /\ MaxLostRanges \in Nat \ {0}
      BY <2>6, ReorderAssumption
    <3>. QED  BY <3>1, LastOfKeeps
  <2>9. l1 = LastOf(all, MaxLostRanges)
    BY DEF all
  <2>. HIDE DEF l1
  <2>. QED  BY <2>7, <2>8, <2>9
<1>. HIDE DEF l1
<1>9. g1 \in Int /\ (g1 = None) = (kept = {})
       /\ (g1 # None => 0 <= g1 /\ \E e \in kept : b.held[e].arrived <= g1)
  BY <1>2, NextGapSinceIs
<1>. HIDE DEF g1
<1>10. c \in Buffers
  BY <1>2, <1>3, <1>4, <1>7, <1>8, <1>9 DEF Buffers
<1>11. /\ c.next = n1 /\ c.held = h1 /\ c.ready = r1 /\ c.lost_ranges = l1 /\ c.gap_since = g1
       /\ c.started = b.started /\ c.max_ext = b.max_ext /\ c.resets = b.resets
       /\ c.observations = b.observations /\ c.wait = b.wait
  <2>. HIDE DEF h1
  <2>. QED  BY <1>2 DEF Buffers
<1>. HIDE DEF c
<1>12. HeldNumbers(c) = kept
  BY <1>4, <1>11 DEF HeldNumbers
<1>13. HeldIsAhead(c, clock)
  <2>1. IsFiniteSet(kept)
    BY <1>2, FS_Subset
  <2>2. ASSUME NEW e \in kept
        PROVE  n1 <= e /\ e <= b.max_ext /\ h1[e] = b.held[e] /\ 0 <= b.held[e].arrived /\ b.held[e].arrived <= clock
    <3>1. b.next <= e /\ e <= b.max_ext /\ 0 <= b.held[e].arrived /\ b.held[e].arrived <= clock /\ e \in Int
      BY <1>2 DEF Book, HeldIsAhead
    <3>2. \A x \in exts : x + 1 <= e
      BY <1>2 DEF DownTo
    <3>. QED  BY <1>3, <3>1, <3>2
  <2>3. ~b.started => kept = {}
    BY DEF Book, HeldIsAhead
  <2>. HIDE DEF kept, h1
  <2>. QED  BY <1>11, <1>12, <2>1, <2>2, <2>3 DEF HeldIsAhead
<1>14. GapHasHeld(c)
  <2>1. \A e \in kept : h1[e] = b.held[e]
    OBVIOUS
  <2>. HIDE DEF kept, h1
  <2>. QED  BY <1>9, <1>11, <1>12, <2>1 DEF GapHasHeld
<1>15. WithinBounds(c)
  BY <1>8, <1>11 DEF WithinBounds
<1>. HIDE DEF kept, h1
<1>. QED
  <2>1. Sound(c, clock)
    BY <1>10, <1>13, <1>14, <1>15 DEF Sound
  <2>2. \A i \in DOMAIN c.lost_ranges :
          \/ \E j \in DOMAIN b.lost_ranges : c.lost_ranges[i] = b.lost_ranges[j]
          \/ \E e \in exts : HasGap(b, e) /\ c.lost_ranges[i] = RangeBelow(b, e)
    BY <1>8, <1>11
  <2>3. kept = HeldNumbers(b) \ exts
    BY DEF kept
  <2>. HIDE DEF c
  <2>. QED  BY <1>1, <1>7, <1>9, <1>11, <1>12, <2>1, <2>2, <2>3 DEF Emission

-----------------------------------------------------------------------------
(* What push and poll do *)

\* A loss the code may declare: what was held behind it has waited for MinWait.
PatientFor(old, clock, r) ==
    \E ext \in HeldNumbers(old) : ext >= r.end /\ clock - old.held[ext].arrived >= MinWait
OldRange(old, r) == \E j \in DOMAIN old.lost_ranges : r = old.lost_ranges[j]
Justified(old, new, clock) ==
    \A i \in DOMAIN new.lost_ranges :
        \/ OldRange(old, new.lost_ranges[i])
        \/ PatientFor(old, clock, new.lost_ranges[i])
        \/ Cardinality(HeldNumbers(old)) >= MaxHeld
Waits(c) == HeldNumbers(c) = {} <=> c.gap_since = None

\* advance: what it declares lost was over, and what stays has a deadline.
LEMMA Advanced ==
    ASSUME NEW b, NEW clock, Book(b, clock), WithinBounds(b)
    PROVE  LET c == Advance(b, clock)
           IN  /\ Sound(c, clock) /\ Waits(c)
               /\ c.started = b.started /\ c.max_ext = b.max_ext /\ c.resets = b.resets
               /\ HeldNumbers(b) = {} => HeldNumbers(c) = {} /\ c.ready = b.ready
               /\ \A i \in DOMAIN c.lost_ranges :
                    \/ OldRange(b, c.lost_ranges[i])
                    \/ \E e \in HeldNumbers(b) : GapIsOver(b, e, clock) /\ c.lost_ranges[i].end = e
<1>. DEFINE passes(ext) == HasGap(b, ext) => GapIsOver(b, ext, clock)
            exts == {ext \in HeldNumbers(b) : \A e \in HeldNumbers(b) : e <= ext => passes(e)}
            c == EmitHeld(b, exts)
<1>1. Advance(b, clock) = c
  BY DEF Advance
<1>2. HeldNumbers(b) \in SUBSET Int
  BY HeldAre DEF Book
<1>3. DownTo(b, exts)
  <2>. HIDE DEF passes
  <2>. QED  BY <1>2 DEF DownTo
<1>4. \A e \in exts : HasGap(b, e) => GapIsOver(b, e, clock)
  BY <1>2
<1>5. exts \subseteq HeldNumbers(b)
  OBVIOUS
<1>. HIDE DEF exts
<1>6. /\ Sound(c, clock)
      /\ HeldNumbers(c) = HeldNumbers(b) \ exts
      /\ c.started = b.started /\ c.max_ext = b.max_ext /\ c.resets = b.resets
      /\ HeldNumbers(c) # {} => c.gap_since # None
      /\ HeldNumbers(c) = {} => c.gap_since = None
      /\ exts = {} => c.ready = b.ready
      /\ \A i \in DOMAIN c.lost_ranges :
           \/ \E j \in DOMAIN b.lost_ranges : c.lost_ranges[i] = b.lost_ranges[j]
           \/ \E e \in exts : HasGap(b, e) /\ c.lost_ranges[i] = RangeBelow(b, e)
  <2>. HIDE DEF c
  <2>1. Emission(b, exts, EmitHeld(b, exts), clock)
    BY <1>3, Emitted
  <2>. QED  BY <2>1 DEF c, Emission
<1>7. \A e \in exts : RangeBelow(b, e).end = e
  BY DEF RangeBelow
<1>. HIDE DEF c
<1>8. \A i \in DOMAIN c.lost_ranges :
         \/ OldRange(b, c.lost_ranges[i])
         \/ \E e \in HeldNumbers(b) : GapIsOver(b, e, clock) /\ c.lost_ranges[i].end = e
  BY <1>4, <1>5, <1>6, <1>7 DEF OldRange
<1>. QED  BY <1>1, <1>5, <1>6, <1>8 DEF Waits

\* A gap that is over has waited, behind the head or behind another held packet.
HasWaited(b, e, clock) ==
    \/ \E d \in HeldNumbers(b) : d >= e /\ clock - b.held[d].arrived >= MinWait
    \/ Cardinality(HeldNumbers(b)) > MaxHeld

LEMMA OverIsPatient ==
    ASSUME NEW b, NEW clock \in Int, Book(b, clock), WithinBounds(b), NEW e \in HeldNumbers(b),
           GapIsOver(b, e, clock)
    PROVE  HasWaited(b, e, clock)
<1>1. HeldNumbers(b) \in SUBSET Int /\ b.wait \in Int /\ MinWait <= b.wait /\ MinWait \in Int
  BY HeldAre, ReorderAssumption DEF Book, WithinBounds, Buffers
<1>2. CASE clock >= Since(b, e) + b.wait
  <2>1. PICK d \in HeldNumbers(b) : e <= d /\ b.held[d].arrived <= Since(b, e)
    BY SinceIs
  <2>2. Since(b, e) \in Int /\ b.held[d].arrived \in Int
    BY SinceIs, HeldAre DEF Book
  <2>3. clock - b.held[d].arrived >= MinWait /\ d >= e
    BY <1>1, <1>2, <2>1, <2>2
  <2>. QED  BY <2>3 DEF HasWaited
<1>3. CASE Cardinality({d \in HeldNumbers(b) : d >= e}) > MaxHeld
  <2>1. IsFiniteSet(HeldNumbers(b))
    BY DEF Book, HeldIsAhead
  <2>. DEFINE S == {d \in HeldNumbers(b) : d >= e}
  <2>2. S \in SUBSET HeldNumbers(b)
    OBVIOUS
  <2>3. Cardinality(S) > MaxHeld
    BY <1>3
  <2>. HIDE DEF S
  <2>4. Cardinality(S) <= Cardinality(HeldNumbers(b)) /\ IsFiniteSet(S)
    BY <2>1, <2>2, FS_Subset
  <2>5. Cardinality(S) \in Nat /\ Cardinality(HeldNumbers(b)) \in Nat /\ MaxHeld \in Int
    BY <2>1, <2>4, FS_CardinalityType, ReorderAssumption
  <2>. QED  BY <2>3, <2>4, <2>5 DEF HasWaited
<1>. QED  BY <1>2, <1>3 DEF GapIsOver

\* poll.
LEMMA Polls ==
    ASSUME NEW b, NEW clock \in Int, Sound(b, clock)
    PROVE  LET c == Poll(b, clock)
           IN  /\ Sound(c, clock) /\ Waits(c) /\ c.resets = b.resets /\ Justified(b, c, clock)
               /\ HeldNumbers(b) = {} => HeldNumbers(c) = {} /\ c.ready = b.ready
<1>. DEFINE d == RefreshWait(b, clock)
            c == Advance(d, clock)
<1>1. b \in Buffers /\ Len(b.lost_ranges) <= MaxLostRanges /\ Len(b.observations) <= MaxObservations
  BY DEF Sound, WithinBounds
<1>2. d \in Buffers /\ WithinBounds(d) /\ SameHoldings(b, d)
  BY <1>1, Refreshed
<1>. HIDE DEF d
<1>3. Sound(d, clock) /\ Book(d, clock)
  BY <1>2, SameIsSound DEF Sound, Book
<1>4. /\ Sound(c, clock) /\ Waits(c)
      /\ c.started = d.started /\ c.max_ext = d.max_ext /\ c.resets = d.resets
      /\ HeldNumbers(d) = {} => HeldNumbers(c) = {} /\ c.ready = d.ready
      /\ \A i \in DOMAIN c.lost_ranges :
           \/ OldRange(d, c.lost_ranges[i])
           \/ \E e \in HeldNumbers(d) : GapIsOver(d, e, clock) /\ c.lost_ranges[i].end = e
  BY <1>2, <1>3, Advanced
<1>. HIDE DEF c
<1>5. HeldNumbers(d) = HeldNumbers(b) /\ d.held = b.held /\ d.ready = b.ready /\ d.resets = b.resets
      /\ d.lost_ranges = b.lost_ranges
  BY <1>2 DEF SameHoldings, HeldNumbers
<1>6. ASSUME NEW i \in DOMAIN c.lost_ranges
      PROVE  \/ OldRange(b, c.lost_ranges[i]) \/ PatientFor(b, clock, c.lost_ranges[i])
             \/ Cardinality(HeldNumbers(b)) >= MaxHeld
  <2>1. CASE OldRange(d, c.lost_ranges[i])
    BY <1>5, <2>1 DEF OldRange
  <2>2. ASSUME NEW e \in HeldNumbers(d), GapIsOver(d, e, clock), c.lost_ranges[i].end = e
        PROVE  PatientFor(b, clock, c.lost_ranges[i]) \/ Cardinality(HeldNumbers(b)) >= MaxHeld
    <3>1. \/ \E x \in HeldNumbers(d) : x >= e /\ clock - d.held[x].arrived >= MinWait
          \/ Cardinality(HeldNumbers(d)) > MaxHeld
      <4>1. HasWaited(d, e, clock)
        BY <1>2, <1>3, <2>2, OverIsPatient
      <4>. QED  BY <4>1 DEF HasWaited
    <3>2. CASE \E x \in HeldNumbers(d) : x >= e /\ clock - d.held[x].arrived >= MinWait
      BY <1>5, <2>2, <3>2 DEF PatientFor
    <3>3. CASE Cardinality(HeldNumbers(d)) > MaxHeld
      <4>1. Cardinality(HeldNumbers(b)) \in Nat /\ MaxHeld \in Nat
        BY FS_CardinalityType, ReorderAssumption DEF Sound, HeldIsAhead
      <4>. QED  BY <1>5, <3>3, <4>1
    <3>. QED  BY <3>1, <3>2, <3>3
  <2>. QED  BY <1>4, <2>1, <2>2
<1>7. Justified(b, c, clock)
  BY <1>6 DEF Justified
<1>8. Poll(b, clock) = c
  BY DEF Poll, c, d
<1>. QED  BY <1>4, <1>5, <1>7, <1>8

\* flush leaves nothing held.
LEMMA Flushes ==
    ASSUME NEW b, NEW clock, Sound(b, clock)
    PROVE  LET c == FlushHeld(b)
           IN  /\ Sound(c, clock) /\ HeldNumbers(c) = {} /\ c.gap_since = None
               /\ c.resets = b.resets
               /\ HeldNumbers(b) = {} => c.ready = b.ready
<1>1. DownTo(b, HeldNumbers(b))
  BY DEF DownTo
<1>. DEFINE exts == HeldNumbers(b)
<1>2. Book(b, clock) /\ WithinBounds(b)
  BY DEF Sound, Book
<1>. HIDE DEF exts
<1>3. Emission(b, exts, EmitHeld(b, exts), clock)
  BY <1>1, <1>2, Emitted DEF exts
<1>. QED  BY <1>3 DEF FlushHeld, exts, Emission

\* Taking the output changes nothing else.
LEMMA DrainedIs ==
    ASSUME NEW b, NEW clock, Sound(b, clock)
    PROVE  /\ Sound(Drained(b), clock) /\ Drained(b).ready = <<>>
           /\ HeldNumbers(Drained(b)) = HeldNumbers(b) /\ Drained(b).lost_ranges = b.lost_ranges
           /\ Drained(b).resets = b.resets
<1>1. b \in Buffers
  BY DEF Sound
<1>2. Drained(b) \in Buffers
  <2>1. <<>> \in Seq(Outputs)
    OBVIOUS
  <2>. QED  BY <1>1, <2>1 DEF Drained, Buffers
<1>3. /\ Drained(b).ready = <<>> /\ Drained(b).held = b.held /\ Drained(b).next = b.next
      /\ Drained(b).max_ext = b.max_ext /\ Drained(b).started = b.started
      /\ Drained(b).gap_since = b.gap_since /\ Drained(b).lost_ranges = b.lost_ranges
      /\ Drained(b).observations = b.observations /\ Drained(b).wait = b.wait
      /\ Drained(b).resets = b.resets
  BY <1>1 DEF Drained, Buffers
<1>. QED  BY <1>2, <1>3 DEF Sound, HeldIsAhead, GapHasHeld, WithinBounds, HeldNumbers

\* Time only goes on.
LEMMA Later ==
    ASSUME NEW b, NEW clock \in Int, Sound(b, clock)
    PROVE  Sound(b, clock + 1)
<1>1. b \in Buffers /\ \A e \in HeldNumbers(b) : b.held[e].arrived \in Int
  BY HeldAre DEF Sound
<1>. QED  BY <1>1 DEF Sound, HeldIsAhead

\* The difference of two sequence numbers is a number.
LEMMA SeqDiffIs ==
    ASSUME NEW b \in Buffers, NEW pos \in Int
    PROVE  SeqDiff(b, pos) \in Int /\ pos % SeqSpace \in Int
<1>1. SeqSpace \in Nat /\ SeqSpace > 0 /\ SeqSpace \div 2 \in Int
  BY ReorderAssumption
<1>2. b.max_ext \in Int
  BY DEF Buffers
<1>3. pos % SeqSpace \in Int
  BY <1>1
<1>. DEFINE d == (pos % SeqSpace) - b.max_ext
<1>4. d \in Int
  BY <1>2, <1>3
<1>. HIDE DEF d
<1>5. d % SeqSpace \in Int
  BY <1>1, <1>4
<1>6. Signed(d) \in Int
  BY <1>1, <1>5 DEF Signed
<1>. QED  BY <1>3, <1>6 DEF SeqDiff, d

\* The stream starts, or starts over, at a packet.
LEMMA Rebased ==
    ASSUME NEW b, NEW clock, Sound(b, clock), HeldNumbers(b) = {}, NEW pos \in Int
    PROVE  LET c == Rebase(b, pos)
           IN  Sound(c, clock) /\ c.lost_ranges = b.lost_ranges /\ c.resets = b.resets
<1>. DEFINE n == pos % SeqSpace
            ready == Append(b.ready, Packet(pos))
            c == [b EXCEPT !.started = TRUE, !.next = n + 1, !.max_ext = n, !.ready = ready]
<1>1. b \in Buffers /\ n \in Int
  BY SeqDiffIs DEF Sound
<1>. HIDE DEF n
<1>2. ready \in Seq(Outputs)
  <2>1. Packet(pos) \in Outputs
    BY DEF Packet, Outputs
  <2>. QED  BY <1>1, <2>1 DEF Buffers
<1>3. Rebase(b, pos) = c
  BY DEF Rebase, n
<1>. HIDE DEF ready
<1>4. c \in Buffers
  <2>1. n + 1 \in Int /\ TRUE \in BOOLEAN
    BY <1>1
  <2>. DEFINE m == n + 1
  <2>. HIDE DEF m
  <2>2. [b EXCEPT !.started = TRUE, !.next = m, !.max_ext = n, !.ready = ready] \in Buffers
    BY <1>1, <1>2, <2>1 DEF Buffers, m
  <2>. QED  BY <2>2 DEF m
<1>5. /\ c.started = TRUE /\ c.held = b.held /\ c.gap_since = b.gap_since
      /\ c.lost_ranges = b.lost_ranges /\ c.observations = b.observations /\ c.wait = b.wait
      /\ c.resets = b.resets
  BY <1>1 DEF Buffers
<1>. HIDE DEF c
<1>6. HeldNumbers(c) = {} /\ IsFiniteSet({})
  BY <1>5, FS_EmptySet DEF HeldNumbers
<1>7. Sound(c, clock)
  BY <1>4, <1>5, <1>6 DEF Sound, HeldIsAhead, GapHasHeld, WithinBounds
<1>. QED  BY <1>3, <1>5, <1>7

\* A jump starts the buffer over.
LEMMA ResetIs ==
    ASSUME NEW b, NEW clock, Sound(b, clock), NEW pos \in Int
    PROVE  Sound(Reset(b, pos), clock) /\ Reset(b, pos).resets = b.resets + 1
<1>. DEFINE f == FlushHeld(b)
            c == [f EXCEPT !.lost_ranges = <<>>, !.resets = f.resets + 1]
<1>1. Sound(f, clock) /\ HeldNumbers(f) = {} /\ f.resets = b.resets
  BY Flushes
<1>. HIDE DEF f
<1>2. f \in Buffers
  BY <1>1 DEF Sound
<1>3. c \in Buffers
  <2>1. <<>> \in Seq(LostRanges) /\ f.resets + 1 \in Nat
    BY <1>2 DEF Buffers
  <2>. QED  BY <1>2, <2>1 DEF Buffers
<1>4. /\ c.started = f.started /\ c.held = f.held /\ c.gap_since = f.gap_since /\ c.next = f.next
      /\ c.max_ext = f.max_ext /\ c.observations = f.observations /\ c.wait = f.wait
      /\ c.lost_ranges = <<>> /\ c.resets = f.resets + 1
  BY <1>2 DEF Buffers
<1>5. Reset(b, pos) = Rebase(c, pos)
  BY DEF Reset, f
<1>. HIDE DEF c
<1>6. HeldNumbers(c) = {}
  BY <1>1, <1>4 DEF HeldNumbers
<1>7. WithinBounds(c)
  <2>1. Len(<<>>) <= MaxLostRanges
    BY ReorderAssumption
  <2>. QED  BY <1>1, <1>4, <2>1 DEF Sound, WithinBounds
<1>8. Sound(c, clock)
  BY <1>1, <1>3, <1>4, <1>6, <1>7 DEF Sound, HeldIsAhead, GapHasHeld, HeldNumbers
<1>9. Sound(Rebase(c, pos), clock) /\ Rebase(c, pos).resets = c.resets
  BY <1>6, <1>8, Rebased
<1>. QED  BY <1>1, <1>4, <1>5, <1>9

\* A packet that is stale changes the wait at most.
LEMMA DiscardIs ==
    ASSUME NEW b, NEW clock \in Int, Sound(b, clock), NEW ext \in Int
    PROVE  Sound(Discard(b, ext, clock), clock) /\ Discard(b, ext, clock).lost_ranges = b.lost_ranges
<1>. DEFINE dropped == [b EXCEPT !.discarded = b.discarded + 1]
            late == {i \in DOMAIN b.lost_ranges :
                        b.lost_ranges[i].start <= ext /\ ext < b.lost_ranges[i].end}
            r == b.lost_ranges[Min(late)]
            delay == Max({0, clock - r.gap_since})
<1>1. b \in Buffers
  BY DEF Sound
<1>2. dropped \in Buffers /\ SameHoldings(b, dropped) /\ WithinBounds(dropped)
  <2>1. b.discarded + 1 \in Int
    BY <1>1 DEF Buffers
  <2>2. dropped \in Buffers
    BY <1>1, <2>1 DEF Buffers
  <2>3. SameHoldings(b, dropped) /\ dropped.wait = b.wait /\ dropped.observations = b.observations
    BY <1>1 DEF Buffers, SameHoldings
  <2>. HIDE DEF dropped
  <2>. QED  BY <2>2, <2>3 DEF Sound, WithinBounds, SameHoldings
<1>. HIDE DEF dropped
<1>3. Sound(dropped, clock)
  BY <1>2, SameIsSound
<1>4. CASE ext < b.next /\ late # {}
  <2>1. Discard(b, ext, clock) = Observe(dropped, clock, delay)
    BY <1>4 DEF Discard, dropped
  <2>2. b.lost_ranges \in Seq(LostRanges)
    BY <1>1 DEF Buffers
  <2>3. Min(late) \in DOMAIN b.lost_ranges
    <3>1. late \subseteq 1 .. Len(b.lost_ranges) /\ Len(b.lost_ranges) \in Nat
          /\ DOMAIN b.lost_ranges = 1 .. Len(b.lost_ranges)
      BY <2>2
    <3>. HIDE DEF late
    <3>2. late \subseteq Int /\ \E low \in Int : \A x \in late : low <= x
      <4>1. 1 \in Int /\ \A x \in late : 1 <= x
        BY <3>1
      <4>. QED  BY <3>1, <4>1
    <3>3. Min(late) \in late
      BY <1>4, <3>2, MinOf
    <3>. QED  BY <3>1, <3>3
  <2>4. r \in LostRanges
    <3>. DEFINE i == Min(late)
    <3>1. i \in DOMAIN b.lost_ranges
      BY <2>3
    <3>. HIDE DEF i
    <3>2. b.lost_ranges[i] \in LostRanges
      BY <2>2, <3>1
    <3>. QED  BY <3>2 DEF i
  <2>. HIDE DEF r
  <2>5. delay \in Int
    <3>1. r.gap_since \in Int
      BY <2>4 DEF LostRanges
    <3>. DEFINE x == clock - r.gap_since
                S == {0, x}
    <3>2. x \in Int
      BY <3>1
    <3>. HIDE DEF x
    <3>3. S \in SUBSET Int /\ S # {} /\ IsFiniteSet(S)
      <4>1. IsFiniteSet({0} \union {x})
        BY FS_Singleton, FS_AddElement
      <4>2. S = {0} \union {x}
        OBVIOUS
      <4>. QED  BY <3>2, <4>1, <4>2
    <3>4. Max(S) \in Int
      <4>. HIDE DEF S
      <4>. QED  BY <3>3, Greatest
    <3>. QED  BY <3>4 DEF x
  <2>. HIDE DEF delay
  <2>6. /\ Observe(dropped, clock, delay) \in Buffers /\ WithinBounds(Observe(dropped, clock, delay))
        /\ SameHoldings(dropped, Observe(dropped, clock, delay))
    BY <1>2, <2>5, Observed
  <2>7. Sound(Observe(dropped, clock, delay), clock)
    BY <1>3, <2>6, SameIsSound
  <2>. QED  BY <1>2, <2>1, <2>6, <2>7 DEF SameHoldings
<1>5. CASE ~(ext < b.next /\ late # {})
  <2>1. Discard(b, ext, clock) = dropped
    BY <1>5 DEF Discard, dropped
  <2>. QED  BY <1>2, <1>3, <2>1 DEF SameHoldings
<1>. QED  BY <1>4, <1>5

\* A packet is held: it has waited for nothing yet.
LEMMA HoldIs ==
    ASSUME NEW b, NEW clock \in Nat, Sound(b, clock), b.started, NEW ext \in Int, NEW pos \in Int,
           b.next <= ext, ext <= b.max_ext, ext \notin HeldNumbers(b)
    PROVE  LET c == Hold(b, ext, pos, clock)
           IN  /\ Book(c, clock) /\ WithinBounds(c)
               /\ HeldNumbers(c) = HeldNumbers(b) \union {ext}
               /\ c.held[ext].arrived = clock
               /\ \A e \in HeldNumbers(b) : c.held[e] = b.held[e]
               /\ c.gap_since = b.gap_since /\ c.lost_ranges = b.lost_ranges /\ c.resets = b.resets
<1>. DEFINE f == IF ext = b.next /\ b.gap_since # None THEN Observe(b, clock, clock - b.gap_since) ELSE b
            D == HeldNumbers(b) \union {ext}
            h == [e \in D |-> IF e = ext THEN [pos |-> pos, arrived |-> clock] ELSE b.held[e]]
            c == [f EXCEPT !.held = h]
<1>1. b \in Buffers /\ WithinBounds(b)
  BY DEF Sound
<1>2. f \in Buffers /\ WithinBounds(f) /\ SameHoldings(b, f)
  <2>1. b.gap_since \in Int /\ SameHoldings(b, b)
    BY <1>1 DEF Buffers, SameHoldings
  <2>. DEFINE delay == clock - b.gap_since
  <2>2. delay \in Int
    BY <2>1
  <2>. HIDE DEF delay
  <2>3. /\ Observe(b, clock, delay) \in Buffers /\ WithinBounds(Observe(b, clock, delay))
        /\ SameHoldings(b, Observe(b, clock, delay))
    BY <1>1, <2>2, Observed
  <2>. QED  BY <1>1, <2>1, <2>3 DEF delay
<1>3. Hold(b, ext, pos, clock) = c
  BY DEF Hold
<1>. HIDE DEF f
<1>4. h \in Holdings /\ DOMAIN h = D
  <2>1. HeldNumbers(b) \in SUBSET Int /\ \A e \in HeldNumbers(b) : b.held[e] \in HeldPackets
    BY <1>1, HeldAre
  <2>2. [pos |-> pos, arrived |-> clock] \in HeldPackets
    BY DEF HeldPackets
  <2>3. h \in [D -> HeldPackets]
    BY <2>1, <2>2
  <2>4. D \in SUBSET Int
    BY <2>1
  <2>. QED  BY <2>3, <2>4 DEF Holdings
<1>5. h[ext].arrived = clock /\ \A e \in HeldNumbers(b) : h[e] = b.held[e]
  OBVIOUS
<1>. HIDE DEF h
<1>6. c \in Buffers
  BY <1>2, <1>4 DEF Buffers
<1>7. /\ c.started = f.started /\ c.next = f.next /\ c.max_ext = f.max_ext /\ c.held = h
      /\ c.gap_since = f.gap_since /\ c.lost_ranges = f.lost_ranges /\ c.resets = f.resets
      /\ c.observations = f.observations /\ c.wait = f.wait
  BY <1>2 DEF Buffers
<1>. HIDE DEF c
<1>8. HeldNumbers(c) = D
  BY <1>4, <1>7 DEF HeldNumbers
<1>9. HeldIsAhead(c, clock)
  <2>1. IsFiniteSet(D)
    BY FS_AddElement DEF Sound, HeldIsAhead
  <2>2. ASSUME NEW e \in D
        PROVE  b.next <= e /\ e <= b.max_ext /\ 0 <= h[e].arrived /\ h[e].arrived <= clock
    BY <1>5 DEF Sound, HeldIsAhead
  <2>. QED  BY <1>2, <1>7, <1>8, <2>1, <2>2 DEF HeldIsAhead, SameHoldings
<1>10. GapHasHeld(c)
  BY <1>2, <1>5, <1>7, <1>8 DEF GapHasHeld, SameHoldings, Sound
<1>11. WithinBounds(c)
  BY <1>2, <1>7 DEF WithinBounds
<1>. QED  BY <1>2, <1>3, <1>5, <1>6, <1>7, <1>8, <1>9, <1>10, <1>11 DEF Book, SameHoldings

\* The greater of two.
LEMMA MaxOfTwo ==
    ASSUME NEW x \in Int, NEW y \in Int
    PROVE  Max({x, y}) \in Int /\ x <= Max({x, y}) /\ y <= Max({x, y})
<1>. DEFINE S == {x, y}
<1>1. S \in SUBSET Int /\ S # {} /\ IsFiniteSet(S)
  <2>1. IsFiniteSet({x} \union {y})
    BY FS_Singleton, FS_AddElement
  <2>2. S = {x} \union {y}
    OBVIOUS
  <2>. QED  BY <2>1, <2>2
<1>2. x \in S /\ y \in S
  OBVIOUS
<1>3. Max(S) \in Int /\ \A z \in S : z <= Max(S)
  <2>. HIDE DEF S
  <2>. QED  BY <1>1, Greatest
<1>. QED  BY <1>2, <1>3

\* A packet that is not stale comes out at once or is held.
LEMMA AcceptIs ==
    ASSUME NEW b, NEW clock \in Nat, Sound(b, clock), b.started, NEW ext \in Int, NEW pos \in Int,
           b.next <= ext, ext \notin HeldNumbers(b)
    PROVE  Sound(Accept(b, ext, pos, clock), clock) /\ Justified(b, Accept(b, ext, pos, clock), clock)
<1>. DEFINE top == Max({b.max_ext, ext})
            seen == [b EXCEPT !.max_ext = top]
<1>1. b \in Buffers /\ b.max_ext \in Int
  BY DEF Sound, Buffers
<1>2. top \in Int /\ b.max_ext <= top /\ ext <= top
  BY <1>1, MaxOfTwo
<1>. HIDE DEF top
<1>3. seen \in Buffers
  BY <1>1, <1>2 DEF Buffers
<1>4. /\ seen.max_ext = top /\ seen.started = b.started /\ seen.next = b.next /\ seen.held = b.held
      /\ seen.ready = b.ready /\ seen.gap_since = b.gap_since /\ seen.lost_ranges = b.lost_ranges
      /\ seen.observations = b.observations /\ seen.wait = b.wait /\ seen.resets = b.resets
      /\ HeldNumbers(seen) = HeldNumbers(b)
  BY <1>1 DEF Buffers, HeldNumbers
<1>5. Sound(seen, clock)
  <2>1. HeldNumbers(b) \subseteq Int
    BY <1>1, HeldAre
  <2>2. HeldIsAhead(seen, clock)
    <3>. HIDE DEF seen
    <3>. QED  BY <1>1, <1>2, <1>4, <2>1 DEF Sound, HeldIsAhead
  <2>3. GapHasHeld(seen) /\ WithinBounds(seen)
    <3>. HIDE DEF seen
    <3>. QED  BY <1>4 DEF Sound, GapHasHeld, WithinBounds
  <2>. QED  BY <1>3, <2>2, <2>3 DEF Sound
<1>6. CASE ext = b.next /\ HeldNumbers(b) = {}
  <2>. DEFINE n == ext + 1
              ready == Append(b.ready, Packet(pos))
              c == [seen EXCEPT !.next = n, !.ready = ready]
  <2>1. Accept(b, ext, pos, clock) = c
    BY <1>4, <1>6 DEF Accept, top
  <2>2. n \in Int /\ ready \in Seq(Outputs)
    <3>1. Packet(pos) \in Outputs
      BY DEF Packet, Outputs
    <3>. QED  BY <1>1, <3>1 DEF Buffers
  <2>. HIDE DEF n, ready, seen
  <2>3. c \in Buffers
    BY <1>3, <2>2 DEF Buffers
  <2>4. /\ c.held = b.held /\ c.gap_since = b.gap_since /\ c.lost_ranges = b.lost_ranges
        /\ c.observations = b.observations /\ c.wait = b.wait /\ c.started = b.started
    BY <1>3, <1>4 DEF Buffers
  <2>. HIDE DEF c
  <2>5. HeldNumbers(c) = {} /\ IsFiniteSet({})
    BY <1>6, <2>4, FS_EmptySet DEF HeldNumbers
  <2>6. Sound(c, clock)
    BY <1>6, <2>3, <2>4, <2>5 DEF Sound, HeldIsAhead, GapHasHeld, WithinBounds
  <2>7. Justified(b, c, clock)
    BY <2>4 DEF Justified, OldRange
  <2>. QED  BY <2>1, <2>6, <2>7
<1>7. CASE ~(ext = b.next /\ HeldNumbers(b) = {})
  <2>. DEFINE h == Hold(seen, ext, pos, clock)
              c == Advance(h, clock)
  <2>1. Accept(b, ext, pos, clock) = c
    BY <1>4, <1>7 DEF Accept, top
  <2>. HIDE DEF seen
  <2>2. /\ Book(h, clock) /\ WithinBounds(h)
        /\ HeldNumbers(h) = HeldNumbers(seen) \union {ext}
        /\ h.held[ext].arrived = clock
        /\ \A e \in HeldNumbers(seen) : h.held[e] = seen.held[e]
        /\ h.gap_since = seen.gap_since /\ h.lost_ranges = seen.lost_ranges /\ h.resets = seen.resets
    BY <1>2, <1>4, <1>5, HoldIs
  <2>. HIDE DEF h
  <2>3. /\ Sound(c, clock)
        /\ \A i \in DOMAIN c.lost_ranges :
             \/ OldRange(h, c.lost_ranges[i])
             \/ \E e \in HeldNumbers(h) : GapIsOver(h, e, clock) /\ c.lost_ranges[i].end = e
    BY <2>2, Advanced
  <2>. HIDE DEF c
  <2>4. ASSUME NEW i \in DOMAIN c.lost_ranges
        PROVE  \/ OldRange(b, c.lost_ranges[i]) \/ PatientFor(b, clock, c.lost_ranges[i])
               \/ Cardinality(HeldNumbers(b)) >= MaxHeld
    <3>1. CASE OldRange(h, c.lost_ranges[i])
      BY <1>4, <2>2, <3>1 DEF OldRange
    <3>2. ASSUME NEW e \in HeldNumbers(h), GapIsOver(h, e, clock), c.lost_ranges[i].end = e
          PROVE  PatientFor(b, clock, c.lost_ranges[i]) \/ Cardinality(HeldNumbers(b)) >= MaxHeld
      <4>1. \/ \E x \in HeldNumbers(h) : x >= e /\ clock - h.held[x].arrived >= MinWait
            \/ Cardinality(HeldNumbers(h)) > MaxHeld
        <5>1. HasWaited(h, e, clock)
          BY <2>2, <3>2, OverIsPatient
        <5>. QED  BY <5>1 DEF HasWaited
      <4>2. ASSUME NEW x \in HeldNumbers(h), x >= e, clock - h.held[x].arrived >= MinWait
            PROVE  PatientFor(b, clock, c.lost_ranges[i])
        <5>1. clock - clock = 0 /\ ~(0 >= MinWait)
          BY ReorderAssumption
        <5>2. x # ext
          BY <2>2, <4>2, <5>1
        <5>. QED  BY <1>4, <2>2, <3>2, <4>2, <5>2 DEF PatientFor
      <4>3. CASE Cardinality(HeldNumbers(h)) > MaxHeld
        <5>1. IsFiniteSet(HeldNumbers(b))
          BY DEF Sound, HeldIsAhead
        <5>2. Cardinality(HeldNumbers(b)) \in Nat /\ MaxHeld \in Nat
          BY <5>1, FS_CardinalityType, ReorderAssumption
        <5>3. Cardinality(HeldNumbers(b) \union {ext}) = Cardinality(HeldNumbers(b)) + 1
          BY <5>1, FS_AddElement
        <5>. QED  BY <1>4, <2>2, <4>3, <5>2, <5>3
      <4>. QED  BY <4>1, <4>2, <4>3
    <3>. QED  BY <2>3, <3>1, <3>2
  <2>5. Justified(b, c, clock)
    BY <2>4 DEF Justified
  <2>. QED  BY <2>1, <2>3, <2>5
<1>. QED  BY <1>6, <1>7

\* push, whatever the packet.
LEMMA Pushes ==
    ASSUME NEW buffer, NEW clock \in Nat, Sound(buffer, clock), NEW pos \in Int
    PROVE  LET c == Push(buffer, pos, clock)
           IN  Sound(c, clock) /\ (Justified(buffer, c, clock) \/ c.resets > buffer.resets)
<1>. DEFINE b == RefreshWait(buffer, clock)
            diff == SeqDiff(b, pos)
            ext == b.max_ext + diff
            c == Push(buffer, pos, clock)
<1>1. buffer \in Buffers /\ Len(buffer.lost_ranges) <= MaxLostRanges
      /\ Len(buffer.observations) <= MaxObservations
  BY DEF Sound, WithinBounds
<1>2. b \in Buffers /\ WithinBounds(b) /\ SameHoldings(buffer, b)
  BY <1>1, Refreshed
<1>. HIDE DEF b
<1>3. Sound(b, clock) /\ b.max_ext \in Int /\ b.next \in Int /\ b.resets \in Nat
  BY <1>2, SameIsSound DEF Buffers
<1>4. diff \in Int
  BY <1>2, SeqDiffIs
<1>. HIDE DEF diff
<1>5. ext \in Int
  BY <1>3, <1>4
<1>6. c = IF ~b.started THEN Rebase(b, pos)
          ELSE IF diff > ResetJump \/ -diff > ResetJump THEN Reset(b, pos)
          ELSE IF IsStale(b, ext) THEN Discard(b, ext, clock)
          ELSE Accept(b, ext, pos, clock)
  BY DEF Push, b, diff
<1>. HIDE DEF c, ext
<1>7. ASSUME NEW d, Justified(b, d, clock) PROVE Justified(buffer, d, clock)
  <2>1. b.held = buffer.held /\ b.lost_ranges = buffer.lost_ranges /\ HeldNumbers(b) = HeldNumbers(buffer)
    BY <1>2 DEF SameHoldings, HeldNumbers
  <2>. QED  BY <1>7, <2>1 DEF Justified, OldRange, PatientFor
<1>8. ASSUME NEW d, d.lost_ranges = b.lost_ranges PROVE Justified(b, d, clock)
  BY <1>8 DEF Justified, OldRange
<1>9. CASE ~b.started
  <2>1. HeldNumbers(b) = {}
    BY <1>3, <1>9 DEF Sound, HeldIsAhead
  <2>2. Sound(Rebase(b, pos), clock) /\ Rebase(b, pos).lost_ranges = b.lost_ranges
    BY <1>3, <2>1, Rebased
  <2>3. Justified(buffer, Rebase(b, pos), clock)
    BY <1>7, <1>8, <2>2
  <2>. QED  BY <1>6, <1>9, <2>2, <2>3 DEF c
<1>10. CASE b.started /\ (diff > ResetJump \/ -diff > ResetJump)
  <2>1. Sound(Reset(b, pos), clock) /\ Reset(b, pos).resets = b.resets + 1
    BY <1>3, ResetIs
  <2>2. b.resets = buffer.resets
    BY <1>2 DEF SameHoldings
  <2>3. b.resets + 1 > b.resets
    BY <1>3
  <2>. QED  BY <1>6, <1>10, <2>1, <2>2, <2>3 DEF c
<1>11. CASE b.started /\ ~(diff > ResetJump \/ -diff > ResetJump) /\ IsStale(b, ext)
  <2>1. Sound(Discard(b, ext, clock), clock) /\ Discard(b, ext, clock).lost_ranges = b.lost_ranges
    <3>1. ext \in Int /\ clock \in Int
      BY <1>5 DEF ext
    <3>. QED  BY <1>3, <3>1, DiscardIs
  <2>2. Justified(buffer, Discard(b, ext, clock), clock)
    BY <1>7, <1>8, <2>1
  <2>. QED  BY <1>6, <1>11, <2>1, <2>2 DEF c
<1>12. CASE b.started /\ ~(diff > ResetJump \/ -diff > ResetJump) /\ ~IsStale(b, ext)
  <2>1. b.next <= ext /\ ext \notin HeldNumbers(b) /\ ext \in Int
    BY <1>3, <1>5, <1>12 DEF IsStale, ext
  <2>2. Sound(Accept(b, ext, pos, clock), clock) /\ Justified(b, Accept(b, ext, pos, clock), clock)
    BY <1>3, <1>12, <2>1, AcceptIs
  <2>3. Justified(buffer, Accept(b, ext, pos, clock), clock)
    BY <1>7, <2>2
  <2>. QED  BY <1>6, <1>12, <2>2, <2>3 DEF c
<1>. QED  BY <1>9, <1>10, <1>11, <1>12

-----------------------------------------------------------------------------
(* The inductive invariant *)

Messages == [kind : {"rtp", "end"}, pos : Int]
Frames == Outputs \union {Silence}

Typed ==
    /\ scope \in Scopes /\ now \in Nat
    /\ track \in {"open"} \union TrackErrors
    /\ arrived \in [scope.stream -> 0 .. scope.copies]
    /\ rx \in Seq(Messages)
    /\ stage \in [buf : Buffers, pending : Seq(Outputs), ended : BOOLEAN, at : {"scan", "select"}]
    /\ running \in BOOLEAN
    /\ pump \in [pc : {"read", "tail", "pause", "done"}, awaiting_next_burst : BOOLEAN,
                 tail : 0 .. TailFrames]
    /\ fed \in Seq(Frames)
    /\ processed \in {None} \union 0 .. Len(fed)

\* While the stage waits for a packet, what is held has a deadline.
SelectWakes == stage.at = "select" => HeldNumbers(stage.buf) = {} \/ stage.buf.gap_since # None

\* The end of the track is the last message of its reader.
EndComesLast ==
    /\ track = "open" => ~stage.ended /\ \A i \in DOMAIN rx : rx[i] # RtpEnd
    /\ stage.ended => rx = <<>>
    /\ \A i \in DOMAIN rx : rx[i] = RtpEnd => i = Len(rx)

\* Nothing is left when the silence begins.
NothingIsLeft ==
    pump.awaiting_next_burst =>
        /\ stage.ended /\ stage.pending = <<>>
        /\ HeldNumbers(stage.buf) = {} /\ stage.buf.ready = <<>>

Silences == {i \in DOMAIN fed : fed[i] = Silence}
SilenceFits ==
    /\ ~pump.awaiting_next_burst => Silences = {} /\ pump.pc # "tail"
    /\ Cardinality(Silences) + (IF pump.pc = "tail" THEN pump.tail ELSE 0) <= TailFrames
    /\ \A i, j \in DOMAIN fed : fed[i] = Silence /\ i < j => fed[j] = Silence

Inv == /\ Typed /\ Sound(stage.buf, now) /\ SelectWakes /\ EndComesLast
       /\ NothingIsLeft /\ SilenceFits

\* The silence fed so far can be counted.
LEMMA SilencesAreFinite ==
    ASSUME Typed PROVE IsFiniteSet(Silences) /\ Cardinality(Silences) \in Nat
<1>1. 1 \in Int /\ Len(fed) \in Int /\ Silences \subseteq 1 .. Len(fed)
  BY DEF Silences, Typed
<1>2. IsFiniteSet(1 .. Len(fed))
  BY <1>1, FS_Interval
<1>3. IsFiniteSet(Silences)
  BY <1>1, <1>2, FS_Subset
<1>. QED  BY <1>3, FS_CardinalityType

\* A new buffer is sound.
LEMMA BufferFresh == Sound(Buffer0, 0) /\ HeldNumbers(Buffer0) = {} /\ Buffer0.ready = <<>>
<1>1. /\ MinWait \in Nat /\ MaxWait \in Nat /\ MinWait <= MaxWait /\ MaxLostRanges \in Nat
      /\ MaxObservations \in Nat
  BY ReorderAssumption
<1>2. NothingHeld \in Holdings /\ DOMAIN NothingHeld = {}
  <2>1. NothingHeld \in [{} -> HeldPackets]
    BY DEF NothingHeld
  <2>. QED  BY <2>1 DEF Holdings
<1>3. Buffer0 \in Buffers
  BY <1>1, <1>2 DEF Buffer0, Buffers, None
<1>4. HeldNumbers(Buffer0) = {} /\ Buffer0.ready = <<>>
  BY <1>2 DEF Buffer0, HeldNumbers
<1>5. HeldIsAhead(Buffer0, 0)
  BY <1>4, FS_EmptySet DEF HeldIsAhead
<1>6. GapHasHeld(Buffer0)
  BY DEF GapHasHeld, Buffer0
<1>7. WithinBounds(Buffer0)
  BY <1>1 DEF WithinBounds, Buffer0
<1>. QED  BY <1>3, <1>4, <1>5, <1>6, <1>7 DEF Sound

\* A new stage and pump.
LEMMA InvInit == Init => Inv
<1>. SUFFICES ASSUME Init PROVE Inv
  OBVIOUS
<1>. USE DEF Init
<1>1. Typed
  <2>1. Buffer0 \in Buffers
    BY BufferFresh DEF Sound
  <2>2. arrived \in [scope.stream -> 0 .. scope.copies]
    BY PathAssumption
  <2>3. TailFrames \in Nat
    BY PathAssumption
  <2>. QED  BY <2>1, <2>2, <2>3 DEF Typed, None
<1>2. Sound(stage.buf, now) /\ HeldNumbers(stage.buf) = {} /\ stage.buf.ready = <<>>
  BY BufferFresh
<1>3. SelectWakes /\ EndComesLast /\ NothingIsLeft
  BY <1>2 DEF SelectWakes, EndComesLast, NothingIsLeft
<1>4. SilenceFits
  <2>1. Silences = {} /\ Cardinality(Silences) = 0
    BY FS_EmptySet DEF Silences
  <2>. QED  BY <2>1, PathAssumption DEF SilenceFits
<1>. QED  BY <1>1, <1>2, <1>3, <1>4 DEF Inv

\* What a scan finds.
LEMMA FoundIs ==
    ASSUME Inv
    PROVE  /\ Sound(Found, now)
           /\ HeldNumbers(stage.buf) = {} => HeldNumbers(Found) = {} /\ Found.ready = stage.buf.ready
           /\ stage.ended => HeldNumbers(Found) = {}
           /\ ~stage.ended => Waits(Found) /\ Justified(stage.buf, Found, now)
<1>1. Sound(stage.buf, now) /\ now \in Int
  BY DEF Inv, Typed
<1>. DEFINE b == stage.buf
<1>2. /\ Sound(Polled, now) /\ Waits(Polled) /\ Justified(b, Polled, now)
      /\ HeldNumbers(b) = {} => HeldNumbers(Polled) = {} /\ Polled.ready = b.ready
  BY <1>1, Polls DEF Polled
<1>3. /\ Sound(Flushed, now) /\ HeldNumbers(Flushed) = {}
      /\ HeldNumbers(Polled) = {} => Flushed.ready = Polled.ready
  BY <1>2, Flushes DEF Flushed
<1>. QED  BY <1>2, <1>3 DEF Found

-----------------------------------------------------------------------------
(* The steps that leave the stage alone *)

\* A packet arrives: the track is open, so no end has been sent.
LEMMA StepArrive ==
    ASSUME Inv, NEW pos \in scope.stream, Arrive(pos) PROVE Inv'
<1>. USE DEF Inv, Arrive
<1>1. Typed'
  <2>1. pos \in Int /\ scope.copies \in Nat
    BY PathAssumption DEF Typed
  <2>2. Rtp(pos) \in Messages
    BY <2>1 DEF Rtp, Messages
  <2>3. arrived' \in [scope.stream -> 0 .. scope.copies]
    <3>1. arrived[pos] + 1 \in 0 .. scope.copies
      BY <2>1 DEF Typed
    <3>. QED  BY <3>1 DEF Typed
  <2>. QED  BY <2>2, <2>3 DEF Typed
<1>2. EndComesLast'
  <2>1. ~stage.ended /\ \A i \in DOMAIN rx : rx[i] # RtpEnd
    BY DEF EndComesLast
  <2>2. rx' = Append(rx, Rtp(pos)) /\ rx \in Seq(Messages) /\ Rtp(pos) # RtpEnd
    BY DEF Typed, Rtp, RtpEnd
  <2>3. \A i \in DOMAIN rx' : rx'[i] # RtpEnd
    BY <2>1, <2>2
  <2>. QED  BY <2>1, <2>3 DEF EndComesLast
<1>3. SelectWakes' /\ NothingIsLeft' /\ SilenceFits'
  BY DEF SelectWakes, NothingIsLeft, SilenceFits, Silences
<1>. QED  BY <1>1, <1>2, <1>3

\* The end is sent last.
LEMMA StepTrackEnds == ASSUME Inv, TrackEnds PROVE Inv'
<1>. USE DEF Inv, TrackEnds
<1>1. Typed'
  <2>1. RtpEnd \in Messages
    BY DEF RtpEnd, Messages, None
  <2>. QED  BY <2>1 DEF Typed
<1>2. EndComesLast'
  <2>1. ~stage.ended /\ \A i \in DOMAIN rx : rx[i] # RtpEnd
    BY DEF EndComesLast
  <2>2. rx' = Append(rx, RtpEnd) /\ rx \in Seq(Messages)
    BY DEF Typed
  <2>3. \A i \in DOMAIN rx' : rx'[i] = RtpEnd => i = Len(rx')
    BY <2>1, <2>2
  <2>4. track' # "open"
    BY DEF TrackErrors
  <2>. QED  BY <2>1, <2>3, <2>4 DEF EndComesLast
<1>3. SelectWakes' /\ NothingIsLeft' /\ SilenceFits'
  BY DEF SelectWakes, NothingIsLeft, SilenceFits, Silences
<1>. QED  BY <1>1, <1>2, <1>3

\* Time passes.
LEMMA StepTick == ASSUME Inv, Tick PROVE Inv'
<1>. USE DEF Inv, Tick, network
<1>1. Typed'
  BY DEF Typed
<1>2. Sound(stage.buf, now)'
  BY Later DEF Typed
<1>3. SelectWakes' /\ EndComesLast' /\ NothingIsLeft' /\ SilenceFits'
  BY DEF SelectWakes, EndComesLast, NothingIsLeft, SilenceFits, Silences
<1>. QED  BY <1>1, <1>2, <1>3

\* The agent is fed a frame.
LEMMA StepProcess == ASSUME Inv, Process PROVE Inv'
<1>. USE DEF Inv, Process, network
<1>1. Typed'
  BY DEF Typed, Aborted
<1>3. SelectWakes' /\ EndComesLast' /\ NothingIsLeft' /\ SilenceFits'
  BY DEF SelectWakes, EndComesLast, NothingIsLeft, SilenceFits, Silences
<1>. QED  BY <1>1, <1>3

\* The agent stops.
LEMMA StepStops == ASSUME Inv, StopRunning \/ Abort PROVE Inv'
<1>. USE DEF Inv, StopRunning, Abort, network
<1>1. Typed'
  BY DEF Typed
<1>2. SelectWakes' /\ EndComesLast' /\ Sound(stage.buf, now)'
  BY DEF SelectWakes, EndComesLast
<1>3. /\ pump'.awaiting_next_burst = pump.awaiting_next_burst
      /\ pump'.pc = "tail" => pump.pc = "tail" /\ pump'.tail = pump.tail
      /\ pump.tail \in Nat
  BY PathAssumption DEF Typed
<1>4. NothingIsLeft'
  BY <1>3 DEF NothingIsLeft
<1>5. SilenceFits'
  <2>1. Cardinality(Silences) \in Nat
    BY SilencesAreFinite
  <2>2. Silences' = Silences /\ fed' = fed
    BY DEF Silences
  <2>. QED  BY <1>3, <2>1, <2>2, PathAssumption DEF SilenceFits
<1>. QED  BY <1>1, <1>2, <1>4, <1>5

\* The pause after an error.
LEMMA StepPauseEnds == ASSUME Inv, PauseEnds PROVE Inv'
<1>. USE DEF Inv, PauseEnds, network
<1>1. Typed' /\ pump'.pc \in {"read", "done"} /\ pump'.awaiting_next_burst = pump.awaiting_next_burst
  BY DEF Typed, AfterRead
<1>2. SelectWakes' /\ EndComesLast' /\ Sound(stage.buf, now)'
  BY DEF SelectWakes, EndComesLast
<1>3. NothingIsLeft'
  BY <1>1 DEF NothingIsLeft
<1>4. SilenceFits'
  BY <1>1 DEF SilenceFits, Silences
<1>. QED  BY <1>1, <1>2, <1>3, <1>4

-----------------------------------------------------------------------------
(* The steps of the reader *)

\* A sample is fed: there has been no silence yet.
LEMMA StepDeliverSample == ASSUME Inv, DeliverSample PROVE Inv'
<1>. USE DEF Inv, DeliverSample, network
<1>1. stage.pending \in Seq(Outputs) /\ stage.pending # <<>> /\ fed \in Seq(Frames)
  BY DEF Typed
<1>2. Head(stage.pending) \in Outputs /\ Tail(stage.pending) \in Seq(Outputs)
  BY <1>1
<1>3. Head(stage.pending) # Silence
  BY <1>2 DEF Outputs, Silence
<1>4. /\ stage' \in [buf : Buffers, pending : Seq(Outputs), ended : BOOLEAN, at : {"scan", "select"}]
      /\ stage'.buf = stage.buf /\ stage'.ended = stage.ended /\ stage'.at = "scan"
  BY <1>2 DEF Typed
<1>5. /\ pump' \in [pc : {"read", "tail", "pause", "done"}, awaiting_next_burst : BOOLEAN, tail : 0 .. TailFrames]
      /\ pump'.pc # "tail" /\ ~pump'.awaiting_next_burst
  BY DEF Typed, AfterRead
<1>6. fed' \in Seq(Frames) /\ Len(fed') = Len(fed) + 1 /\ Len(fed) \in Nat
      /\ \A i \in DOMAIN fed' : fed'[i] = IF i = Len(fed) + 1 THEN Head(stage.pending) ELSE fed[i]
  BY <1>1, <1>2 DEF Frames
<1>7. Typed'
  BY <1>4, <1>5, <1>6 DEF Typed
<1>8. ~pump.awaiting_next_burst /\ Silences = {}
  BY <1>1 DEF NothingIsLeft, SilenceFits
<1>9. \A i \in DOMAIN fed' : fed'[i] # Silence
  <2>1. \A i \in DOMAIN fed : fed[i] # Silence
    BY <1>8 DEF Silences
  <2>2. \A i \in DOMAIN fed' : i # Len(fed) + 1 => i \in DOMAIN fed
    BY <1>1, <1>6
  <2>. QED  BY <1>3, <1>6, <2>1, <2>2
<1>10. SilenceFits'
  <2>1. Silences' = {} /\ Cardinality({}) = 0 /\ 0 <= TailFrames
    BY <1>9, FS_EmptySet, PathAssumption DEF Silences
  <2>. QED  BY <1>5, <1>9, <2>1 DEF SilenceFits
<1>11. SelectWakes' /\ EndComesLast' /\ NothingIsLeft' /\ Sound(stage.buf, now)'
  BY <1>4, <1>5 DEF SelectWakes, EndComesLast, NothingIsLeft
<1>. QED  BY <1>7, <1>10, <1>11

\* The scan finds output: there has been no silence yet.
LEMMA StepScanFinds == ASSUME Inv, ScanFinds PROVE Inv'
<1>. USE DEF Inv, ScanFinds, network
<1>1. Sound(Found, now) /\ Found \in Buffers /\ (HeldNumbers(stage.buf) = {} => Found.ready = stage.buf.ready)
  BY FoundIs DEF Sound
<1>2. Sound(Drained(Found), now) /\ Drained(Found) \in Buffers
  BY <1>1, DrainedIs DEF Sound
<1>3. Found.ready \in Seq(Outputs)
  BY <1>1 DEF Buffers
<1>. HIDE DEF Found, Drained
<1>4. /\ stage' \in [buf : Buffers, pending : Seq(Outputs), ended : BOOLEAN, at : {"scan", "select"}]
      /\ stage'.buf = Drained(Found) /\ stage'.ended = stage.ended /\ stage'.at = "scan"
  BY <1>2, <1>3 DEF Typed, Scanning
<1>5. ~pump.awaiting_next_burst
  BY <1>1 DEF NothingIsLeft
<1>6. Typed'
  BY <1>4 DEF Typed
<1>7. SelectWakes' /\ EndComesLast' /\ NothingIsLeft' /\ Sound(stage.buf, now)'
  BY <1>2, <1>4, <1>5 DEF SelectWakes, EndComesLast, NothingIsLeft
<1>8. SilenceFits'
  BY DEF SilenceFits, Silences
<1>. QED  BY <1>6, <1>7, <1>8

\* The scan finds nothing: what is held has a deadline.
LEMMA StepScanWaits == ASSUME Inv, ScanWaits PROVE Inv'
<1>. USE DEF Inv, ScanWaits, network
<1>1. Sound(Found, now) /\ Found \in Buffers /\ Waits(Found)
  BY FoundIs DEF Sound
<1>4. /\ stage' \in [buf : Buffers, pending : Seq(Outputs), ended : BOOLEAN, at : {"scan", "select"}]
      /\ stage'.buf = Found /\ stage'.ended = stage.ended
  BY <1>1 DEF Typed, Scanning
<1>5. ~pump.awaiting_next_burst
  BY DEF NothingIsLeft
<1>6. Typed'
  BY <1>4 DEF Typed
<1>7. SelectWakes' /\ EndComesLast' /\ NothingIsLeft' /\ Sound(stage.buf, now)'
  BY <1>1, <1>4, <1>5 DEF SelectWakes, EndComesLast, NothingIsLeft, Waits
<1>8. SilenceFits'
  BY DEF SilenceFits, Silences
<1>. QED  BY <1>6, <1>7, <1>8

\* The reader reports the end: all that was held is out, and silence begins.
LEMMA StepScanFails == ASSUME Inv, ScanFails PROVE Inv'
<1>. USE DEF Inv, ScanFails, network
<1>1. Sound(Found, now) /\ Found \in Buffers /\ HeldNumbers(Found) = {} /\ Found.ready = <<>> /\ stage.ended
  BY FoundIs DEF Sound
<1>. HIDE DEF Found
<1>2. /\ stage' \in [buf : Buffers, pending : Seq(Outputs), ended : BOOLEAN, at : {"scan", "select"}]
      /\ stage'.buf = Found /\ stage'.ended = stage.ended /\ stage'.at = stage.at
      /\ stage'.pending = <<>>
  BY <1>1 DEF Typed, Scanning
<1>. DEFINE tail == track = "stream_end" /\ ~pump.awaiting_next_burst
<1>3. /\ pump' \in [pc : {"read", "tail", "pause", "done"}, awaiting_next_burst : BOOLEAN, tail : 0 .. TailFrames]
      /\ pump'.awaiting_next_burst = (pump.awaiting_next_burst \/ tail)
      /\ pump'.pc = "tail" <=> tail
      /\ tail => pump'.tail = TailFrames
  BY PathAssumption DEF Typed
<1>. HIDE DEF ScanFails
<1>4. /\ fed' = fed /\ rx' = rx /\ track' = track /\ now' = now /\ scope' = scope
      /\ arrived' = arrived /\ running' = running /\ processed' = processed
  BY DEF ScanFails
<1>5. Typed'
  BY <1>2, <1>3, <1>4 DEF Typed
<1>6. Sound(stage.buf, now)' /\ SelectWakes' /\ EndComesLast' /\ NothingIsLeft'
  BY <1>1, <1>2, <1>4 DEF SelectWakes, EndComesLast, NothingIsLeft
<1>7. SilenceFits'
  <2>1. Silences' = Silences
    BY <1>4 DEF Silences
  <2>2. CASE tail
    <3>1. Silences = {} /\ Cardinality(Silences) = 0
      BY <2>2, FS_EmptySet DEF SilenceFits
    <3>. QED  BY <1>3, <1>4, <2>1, <2>2, <3>1, PathAssumption DEF SilenceFits
  <2>3. CASE ~tail
    <3>1. Cardinality(Silences) \in Nat /\ pump.tail \in Nat
      BY SilencesAreFinite, PathAssumption DEF Typed
    <3>. QED  BY <1>3, <1>4, <2>1, <2>3, <3>1, PathAssumption DEF SilenceFits
  <2>. QED  BY <2>2, <2>3
<1>. QED  BY <1>5, <1>6, <1>7

\* A packet or the end is received.
LEMMA StepReceive == ASSUME Inv, Receive PROVE Inv'
<1>. USE DEF Inv, Receive, network
<1>1. rx \in Seq(Messages) /\ rx # <<>> /\ Head(rx) \in Messages /\ Tail(rx) \in Seq(Messages)
      /\ Head(rx) = rx[1] /\ 1 \in DOMAIN rx
  BY DEF Typed
<1>2. ~stage.ended /\ ~pump.awaiting_next_burst
  BY DEF EndComesLast, NothingIsLeft
<1>3. \A i \in DOMAIN Tail(rx) : Tail(rx)[i] = rx[i + 1] /\ i + 1 \in DOMAIN rx /\ Len(Tail(rx)) = Len(rx) - 1
  BY <1>1
<1>4. SilenceFits'
  BY DEF SilenceFits, Silences
<1>5. CASE Head(rx) = RtpEnd
  <2>1. stage' \in [buf : Buffers, pending : Seq(Outputs), ended : BOOLEAN, at : {"scan", "select"}]
        /\ stage'.buf = stage.buf /\ stage'.ended = TRUE /\ stage'.at = "scan"
    BY <1>5 DEF Typed
  <2>2. Len(rx) = 1 /\ track # "open"
    BY <1>1, <1>5 DEF EndComesLast
  <2>3. Tail(rx) = <<>>
    BY <1>1, <2>2
  <2>4. Typed'
    BY <1>1, <2>1 DEF Typed
  <2>5. SelectWakes' /\ EndComesLast' /\ NothingIsLeft' /\ Sound(stage.buf, now)'
    BY <1>2, <2>1, <2>2, <2>3 DEF SelectWakes, EndComesLast, NothingIsLeft
  <2>. QED  BY <1>4, <2>4, <2>5
<1>6. CASE Head(rx) # RtpEnd
  <2>. DEFINE pos == Head(rx).pos
              c == Push(stage.buf, pos, now)
  <2>1. pos \in Int /\ now \in Nat
    BY <1>1 DEF Messages, Typed
  <2>. HIDE DEF pos
  <2>2. Sound(c, now) /\ c \in Buffers
    BY <2>1, Pushes DEF Sound
  <2>. HIDE DEF c
  <2>3. stage' \in [buf : Buffers, pending : Seq(Outputs), ended : BOOLEAN, at : {"scan", "select"}]
        /\ stage'.buf = c /\ stage'.ended = stage.ended /\ stage'.at = "scan"
    BY <1>6, <2>2 DEF Typed, c, pos
  <2>4. Typed'
    BY <1>1, <2>3 DEF Typed
  <2>5. EndComesLast'
    BY <1>1, <1>2, <1>3, <2>3 DEF EndComesLast
  <2>6. SelectWakes' /\ NothingIsLeft' /\ Sound(stage.buf, now)'
    BY <1>2, <2>2, <2>3 DEF SelectWakes, NothingIsLeft
  <2>. QED  BY <1>4, <2>4, <2>5, <2>6
<1>. QED  BY <1>5, <1>6

\* The deadline passes.
LEMMA StepDeadlinePasses == ASSUME Inv, DeadlinePasses PROVE Inv'
<1>. USE DEF Inv, DeadlinePasses, network
<1>1. stage' \in [buf : Buffers, pending : Seq(Outputs), ended : BOOLEAN, at : {"scan", "select"}]
      /\ stage'.buf = stage.buf /\ stage'.ended = stage.ended /\ stage'.at = "scan"
      /\ stage'.pending = stage.pending
  BY DEF Typed
<1>2. Typed'
  BY <1>1 DEF Typed
<1>3. SelectWakes' /\ EndComesLast' /\ NothingIsLeft' /\ Sound(stage.buf, now)' /\ SilenceFits'
  BY <1>1 DEF SelectWakes, EndComesLast, NothingIsLeft, SilenceFits, Silences
<1>. QED  BY <1>2, <1>3

\* A frame of silence, or the end of the tail.
LEMMA StepTailFrame == ASSUME Inv, TailFrame PROVE Inv'
<1>. USE DEF Inv, TailFrame, network
<1>1. /\ pump \in [pc : {"read", "tail", "pause", "done"}, awaiting_next_burst : BOOLEAN, tail : 0 .. TailFrames]
      /\ TailFrames \in Nat /\ fed \in Seq(Frames) /\ Len(fed) \in Nat
  BY PathAssumption DEF Typed
<1>2. pump.awaiting_next_burst
  BY DEF SilenceFits
<1>3. Sound(stage.buf, now)' /\ SelectWakes' /\ EndComesLast'
  BY DEF SelectWakes, EndComesLast
<1>4. IsFiniteSet(Silences) /\ Cardinality(Silences) \in Nat
  BY SilencesAreFinite
<1>5. CASE FrameLeft /\ running
  <2>1. fed' = Append(fed, Silence) /\ pump.tail > 0
    BY <1>5 DEF FrameLeft
  <2>2. /\ pump' \in [pc : {"read", "tail", "pause", "done"}, awaiting_next_burst : BOOLEAN, tail : 0 .. TailFrames]
        /\ pump'.pc = "tail" /\ pump'.awaiting_next_burst /\ pump'.tail = pump.tail - 1
    BY <1>1, <1>2, <1>5, <2>1
  <2>3. /\ fed' \in Seq(Frames) /\ Len(fed') = Len(fed) + 1
        /\ \A i \in DOMAIN fed' : fed'[i] = IF i = Len(fed) + 1 THEN Silence ELSE fed[i]
    BY <1>1, <2>1 DEF Frames
  <2>4. Typed'
    BY <1>5, <2>2, <2>3 DEF Typed
  <2>5. NothingIsLeft'
    BY <1>2 DEF NothingIsLeft
  <2>6. Silences' = Silences \union {Len(fed) + 1} /\ Len(fed) + 1 \notin Silences
    BY <1>1, <2>3 DEF Silences
  <2>7. Cardinality(Silences') = Cardinality(Silences) + 1
    BY <1>4, <2>6, FS_AddElement
  <2>8. ASSUME NEW i \in DOMAIN fed', NEW j \in DOMAIN fed', fed'[i] = Silence, i < j
        PROVE  fed'[j] = Silence
    <3>1. i # Len(fed) + 1 /\ i \in DOMAIN fed /\ fed[i] = Silence
      BY <1>1, <2>3, <2>8
    <3>2. CASE j = Len(fed) + 1
      BY <2>3, <3>2
    <3>3. CASE j # Len(fed) + 1
      <4>1. j \in DOMAIN fed
        BY <1>1, <2>3, <3>3
      <4>2. fed[j] = Silence
        BY <2>8, <3>1, <4>1 DEF SilenceFits
      <4>. QED  BY <2>3, <3>3, <4>2
    <3>. QED  BY <3>2, <3>3
  <2>9. Cardinality(Silences)' + (IF pump'.pc = "tail" THEN pump'.tail ELSE 0) <= TailFrames
    <3>1. Cardinality(Silences) + pump.tail <= TailFrames /\ pump.tail \in Nat
      BY <1>1 DEF SilenceFits
    <3>2. Cardinality(Silences) + 1 + (pump.tail - 1) <= TailFrames
      BY <1>1, <1>4, <3>1
    <3>. QED  BY <2>2, <2>7, <3>2
  <2>10. SilenceFits'
    BY <2>2, <2>8, <2>9 DEF SilenceFits
  <2>. QED  BY <1>3, <2>4, <2>5, <2>10
<1>6. CASE ~(FrameLeft /\ running)
  <2>1. fed' = fed
    BY <1>6
  <2>2. /\ pump' \in [pc : {"read", "tail", "pause", "done"}, awaiting_next_burst : BOOLEAN, tail : 0 .. TailFrames]
        /\ pump'.pc = "pause" /\ pump'.awaiting_next_burst
    <3>1. pump' = [pump EXCEPT !.pc = "pause", !.tail = 0]
      BY <1>6
    <3>2. 0 \in 0 .. TailFrames
      BY <1>1
    <3>. HIDE DEF TailFrame
    <3>. QED  BY <1>1, <1>2, <3>1, <3>2
  <2>3. Typed'
    BY <2>1, <2>2 DEF Typed
  <2>4. NothingIsLeft'
    BY <1>2 DEF NothingIsLeft
  <2>5. Silences' = Silences
    BY <2>1 DEF Silences
  <2>6. SilenceFits'
    BY <1>1, <1>4, <2>1, <2>2, <2>5 DEF SilenceFits
  <2>. QED  BY <1>3, <2>3, <2>4, <2>6
<1>. QED  BY <1>5, <1>6

\* Every step preserves the invariant.
LEMMA InvNext == Inv /\ [Next]_vars => Inv'
<1>. SUFFICES ASSUME Inv, [Next]_vars PROVE Inv'
  OBVIOUS
<1>1. CASE UNCHANGED vars
  BY <1>1 DEF vars, network, Inv, Typed, SelectWakes, EndComesLast, NothingIsLeft, SilenceFits, Silences
<1>2. CASE \E pos \in scope.stream : Arrive(pos)
  BY <1>2, StepArrive
<1>3. CASE TrackEnds
  BY <1>3, StepTrackEnds
<1>4. CASE Tick
  BY <1>4, StepTick
<1>5. CASE DeliverSample
  BY <1>5, StepDeliverSample
<1>6. CASE ScanFinds
  BY <1>6, StepScanFinds
<1>7. CASE ScanWaits
  BY <1>7, StepScanWaits
<1>8. CASE ScanFails
  BY <1>8, StepScanFails
<1>9. CASE Receive
  BY <1>9, StepReceive
<1>10. CASE DeadlinePasses
  BY <1>10, StepDeadlinePasses
<1>11. CASE TailFrame
  BY <1>11, StepTailFrame
<1>12. CASE PauseEnds
  BY <1>12, StepPauseEnds
<1>13. CASE Process
  BY <1>13, StepProcess
<1>14. CASE StopRunning \/ Abort
  BY <1>14, StepStops
<1>. QED  BY <1>1, <1>2, <1>3, <1>4, <1>5, <1>6, <1>7, <1>8, <1>9, <1>10, <1>11, <1>12, <1>13, <1>14 DEF Next

\* The inductive invariant holds in every state.
THEOREM InvHolds == Spec => []Inv
BY InvInit, InvNext, PTL DEF Spec

-----------------------------------------------------------------------------
(* What it gives *)

LEMMA InvTyped == Inv => TypeOK
<1>. SUFFICES ASSUME Inv PROVE TypeOK
  OBVIOUS
<1>. DEFINE b == stage.buf
<1>1. Sound(b, now) /\ SelectWakes /\ Typed
  BY DEF Inv
<1>2. /\ b.wait \in Int /\ b.gap_since \in Int /\ MinWait \in Nat \ {0} /\ MaxWait \in Int
      /\ b.gap_since # None => 0 <= b.gap_since
  BY <1>1, ReorderAssumption DEF Sound, Buffers, GapHasHeld
<1>3. b.wait \in MinWait .. MaxWait
  BY <1>1, <1>2 DEF Sound, WithinBounds
<1>4. stage.at = "select" => (HeldNumbers(b) = {} \/ NextDeadline(b) # None)
  <2>. SUFFICES ASSUME stage.at = "select", HeldNumbers(b) # {} PROVE NextDeadline(b) # None
    OBVIOUS
  <2>1. b.gap_since # None
    BY <1>1 DEF SelectWakes
  <2>2. NextDeadline(b) = b.gap_since + b.wait
    BY <2>1 DEF NextDeadline
  <2>3. b.gap_since + b.wait > 0
    BY <1>2, <1>3, <2>1
  <2>. QED  BY <1>2, <2>2, <2>3 DEF None
<1>5. \A ext \in HeldNumbers(b) : b.next <= ext /\ ext <= b.max_ext
  BY <1>1 DEF Sound, HeldIsAhead
<1>6. Len(b.lost_ranges) <= MaxLostRanges /\ Len(b.observations) <= MaxObservations
  BY <1>1 DEF Sound, WithinBounds
<1>7. /\ track \in {"open"} \union TrackErrors
      /\ arrived \in [scope.stream -> 0 .. scope.copies]
      /\ pump.pc \in {"read", "tail", "pause", "done"} /\ pump.tail \in 0 .. TailFrames
      /\ processed \in {None} \union 0 .. Len(fed)
  BY <1>1 DEF Typed
<1>. QED  BY <1>3, <1>4, <1>5, <1>6, <1>7 DEF TypeOK

LEMMA InvSilent == Inv => SilenceIsLast
<1>. SUFFICES ASSUME Inv PROVE SilenceIsLast
  OBVIOUS
<1>1. pump.awaiting_next_burst =>
         rx = <<>> /\ HeldNumbers(stage.buf) = {} /\ stage.buf.ready = <<>> /\ stage.pending = <<>>
  BY DEF Inv, NothingIsLeft, EndComesLast
<1>2. \A i, j \in DOMAIN fed : fed[i] = Silence /\ i < j => fed[j] = Silence
  BY DEF Inv, SilenceFits
<1>3. Cardinality(Silences) <= TailFrames
  <2>1. Cardinality(Silences) \in Nat /\ pump.tail \in Nat /\ TailFrames \in Nat
    BY SilencesAreFinite, PathAssumption DEF Inv, Typed
  <2>. QED  BY <2>1 DEF Inv, SilenceFits
<1>. QED  BY <1>1, <1>2, <1>3 DEF SilenceIsLast, Silences

\* What a step may declare lost.
MayLose ==
    \/ stage.ended
    \/ Justified(stage.buf, stage'.buf, now)
    \/ stage'.buf.resets > stage.buf.resets

\* No step declares lost what it may not.
LEMMA StepMayLose == ASSUME Inv, [Next]_vars PROVE MayLose
<1>1. CASE stage'.buf = stage.buf
  BY <1>1 DEF MayLose, Justified, OldRange
<1>2. stage \in [buf : Buffers, pending : Seq(Outputs), ended : BOOLEAN, at : {"scan", "select"}]
      /\ rx \in Seq(Messages) /\ now \in Nat /\ Sound(stage.buf, now)
  BY DEF Inv, Typed
<1>3. CASE ScanFinds
  <2>1. stage.ended \/ Justified(stage.buf, Found, now)
    BY FoundIs
  <2>2. Drained(Found).lost_ranges = Found.lost_ranges
    BY FoundIs, DrainedIs
  <2>3. stage'.buf = Drained(Found)
    BY <1>2, <1>3 DEF ScanFinds
  <2>. QED  BY <2>1, <2>2, <2>3 DEF MayLose, Justified
<1>4. CASE ScanWaits
  <2>1. stage.ended \/ Justified(stage.buf, Found, now)
    BY FoundIs
  <2>2. stage'.buf = Found
    BY <1>2, <1>4 DEF ScanWaits
  <2>. QED  BY <2>1, <2>2 DEF MayLose
<1>5. CASE ScanFails
  BY <1>5 DEF ScanFails, MayLose
<1>6. CASE Receive
  <2>1. CASE Head(rx) = RtpEnd
    <3>1. stage'.buf = stage.buf
      BY <1>2, <1>6, <2>1 DEF Receive
    <3>. QED  BY <1>1, <3>1
  <2>2. CASE Head(rx) # RtpEnd
    <3>. DEFINE pos == Head(rx).pos
                c == Push(stage.buf, pos, now)
    <3>1. pos \in Int
      <4>1. rx # <<>>
        BY <1>6 DEF Receive
      <4>2. Head(rx) \in Messages
        BY <1>2, <4>1
      <4>. QED  BY <4>2 DEF Messages
    <3>2. stage'.buf = c
      BY <1>2, <1>6, <2>2 DEF Receive
    <3>. HIDE DEF pos
    <3>3. Justified(stage.buf, c, now) \/ c.resets > stage.buf.resets
      BY <1>2, <3>1, Pushes
    <3>. QED  BY <3>2, <3>3 DEF MayLose
  <2>. QED  BY <2>1, <2>2
<1>7. CASE DeliverSample \/ DeadlinePasses
  BY <1>1, <1>2, <1>7 DEF DeliverSample, DeadlinePasses
<1>8. CASE (\E pos \in scope.stream : Arrive(pos)) \/ TrackEnds \/ Tick \/ TailFrame \/ PauseEnds
            \/ Process \/ StopRunning \/ Abort \/ UNCHANGED vars
  BY <1>1, <1>8 DEF Arrive, TrackEnds, Tick, TailFrame, PauseEnds, Process, StopRunning, Abort, vars
<1>. QED  BY <1>3, <1>4, <1>5, <1>6, <1>7, <1>8 DEF Next

\* The same, as LostOnlyAfterWait states it.
LEMMA MayLoseOnlyAfterWait ==
    ASSUME Inv, [Next]_vars
    PROVE  LET old == stage.buf
               new == stage'.buf
               ranges == {new.lost_ranges[i] : i \in DOMAIN new.lost_ranges}
                           \ {old.lost_ranges[i] : i \in DOMAIN old.lost_ranges}
               Patient(r) == \E ext \in HeldNumbers(old) :
                                ext >= r.end /\ now - old.held[ext].arrived >= MinWait
           IN  \A r \in ranges : Patient(r) \/ Cardinality(HeldNumbers(old)) >= MaxHeld
                                 \/ stage.ended \/ new.resets > old.resets
BY StepMayLose DEF MayLose, Justified, OldRange, PatientFor

\* A packet is declared lost only when one sent after it has been held for MIN_WAIT,
\* too much is held, or the stream ended or started over: the gap's own clock, which
\* the buffer keeps while the head of held changes, never runs ahead of what is held
\* (reorder.rs: advance, declare_lost).
THEOREM LossesAreJustified == Spec => LostOnlyAfterWait
<1>1. Inv /\ [Next]_vars =>
        [LET old == stage.buf
             new == stage'.buf
             ranges == {new.lost_ranges[i] : i \in DOMAIN new.lost_ranges}
                         \ {old.lost_ranges[i] : i \in DOMAIN old.lost_ranges}
             Patient(r) == \E ext \in HeldNumbers(old) :
                              ext >= r.end /\ now - old.held[ext].arrived >= MinWait
         IN  \A r \in ranges : Patient(r) \/ Cardinality(HeldNumbers(old)) >= MaxHeld
                               \/ stage.ended \/ new.resets > old.resets]_vars
  BY MayLoseOnlyAfterWait
<1>. QED  BY <1>1, InvHolds, PTL DEF Spec, LostOnlyAfterWait

\* Whatever arrives, held packets are above next, the adaptive wait and the histories
\* stay within their limits, and a stage that waits in select with packets held has a
\* deadline to wake at (reorder.rs: next_deadline; stage.rs: read_sample).
THEOREM InboundTyped == Spec => []TypeOK
BY InvHolds, InvTyped, PTL

\* The tail of silence follows all that arrived, is fed once and no longer than its
\* limit, and nothing is fed after it (inbound_pump.rs: the reader task).
THEOREM SilenceEndsTheStream == Spec => []SilenceIsLast
BY InvHolds, InvSilent, PTL

=============================================================================
