---------------------------- MODULE ZccpMsg_proofs -----------------------------
(***************************************************************************)
(* Proofs about the codec and the applications that use it: types, frames  *)
(* that fit, messages that arrive as they were meant, are passed on, and   *)
(* are refused when they were cut short.                                   *)
(***************************************************************************)
EXTENDS ZccpMsg, FiniteSetTheorems, SequenceTheorems, TLAPS

-----------------------------------------------------------------------------
(* Induction over sets of numbers, and folds as step-by-step computations.  *)

(* Induction, in the form that a set of numbers contains all of them.       *)
LEMMA NatSetInduction ==
    ASSUME NEW T \in SUBSET Nat, 0 \in T, \A n \in T : n + 1 \in T
    PROVE  T = Nat
<1> DEFINE Less == {ss \in Nat \X Nat : ss[1] < ss[2]}
<1> SUFFICES ASSUME Nat \ T # {}  PROVE FALSE
  OBVIOUS
<1>1. IsWellFoundedOn(Less, Nat)
  BY NatLessThanWellFounded DEF OpToRel
<1>2. PICK x \in Nat \ T : \A y \in Nat \ T : <<y, x>> \notin Less
  BY <1>1, WFMin
<1>3. x # 0 /\ x - 1 \in Nat /\ <<x - 1, x>> \in Less
  OBVIOUS
<1>4. x - 1 \in T
  BY <1>2, <1>3
<1>5. (x - 1) + 1 \in T
  BY <1>4
<1> QED  BY <1>5

(* A fold over a set of positions: step[x] adds the item at x, and pick     *)
(* chooses the position that is added last.  Over a finite set there is one. *)
IsFold(h, S, base, step, pick) ==
    \A t \in SUBSET S : h[t] = IF t = {} THEN base ELSE step[pick[t]][h[t \ {pick[t]}]]

(* The choice takes an element of what is left.                             *)
Picks(S, pick) == \A t \in SUBSET S : t # {} => pick[t] \in t

(* Whatever the choice, there is such a fold over a finite set.             *)
LEMMA FoldExists ==
    ASSUME NEW S, IsFiniteSet(S), NEW V, NEW base \in V, NEW step \in [S -> [V -> V]],
           NEW pick, Picks(S, pick)
    PROVE  \E h \in [SUBSET S -> V] : IsFold(h, S, base, step, pick)
<1> USE DEF IsFold, Picks
<1> DEFINE Right(h, t) == h[t] = IF t = {} THEN base ELSE step[pick[t]][h[t \ {pick[t]}]]
           T == {n \in Nat : \E h \in [SUBSET S -> V] :
                                \A t \in SUBSET S : Cardinality(t) <= n => Right(h, t)}
<1>0. \A t \in SUBSET S : /\ Cardinality(t) \in Nat /\ Cardinality(t) <= Cardinality(S)
                          /\ (Cardinality(t) = 0 <=> t = {})
  BY FS_Subset, FS_CardinalityType, FS_EmptySet
<1>1. \A t \in SUBSET S : t # {} =>
         t \ {pick[t]} \in SUBSET S /\ Cardinality(t \ {pick[t]}) = Cardinality(t) - 1
  BY FS_RemoveElement, FS_Subset
<1>2. 0 \in T
  <2> DEFINE h == [t \in SUBSET S |-> base]
  <2>1. h \in [SUBSET S -> V]
    OBVIOUS
  <2>2. \A t \in SUBSET S : Cardinality(t) <= 0 => Right(h, t)
    BY <1>0
  <2> QED  BY <2>1, <2>2
<1>3. ASSUME NEW n \in T  PROVE n + 1 \in T
  <2>1. PICK h \in [SUBSET S -> V] : \A t \in SUBSET S : Cardinality(t) <= n => Right(h, t)
    BY <1>3
  <2> DEFINE g == [t \in SUBSET S |-> IF Cardinality(t) <= n THEN h[t]
                                      ELSE step[pick[t]][h[t \ {pick[t]}]]]
  <2>2. ASSUME NEW t \in SUBSET S  PROVE g[t] \in V
    <3>1. CASE Cardinality(t) <= n
      BY <3>1
    <3>2. CASE ~(Cardinality(t) <= n)
      <4>1. t # {} /\ pick[t] \in S /\ t \ {pick[t]} \in SUBSET S
        BY <1>0, <1>1, <3>2
      <4>2. h[t \ {pick[t]}] \in V
        BY <4>1
      <4> QED  BY <3>2, <4>1, <4>2
    <3> QED  BY <3>1, <3>2
  <2>3. g \in [SUBSET S -> V]
    BY <2>2
  <2>4. ASSUME NEW t \in SUBSET S, Cardinality(t) <= n + 1  PROVE Right(g, t)
    <3>1. CASE t = {}
      <4>1. Cardinality(t) <= n
        BY <1>0, <3>1
      <4> QED  BY <2>1, <3>1, <4>1
    <3>2. CASE t # {}
      <4>1. /\ t \ {pick[t]} \in SUBSET S
            /\ Cardinality(t \ {pick[t]}) <= n
        BY <1>0, <1>1, <2>4, <3>2
      <4>2. g[t \ {pick[t]}] = h[t \ {pick[t]}]
        BY <4>1
      <4>3. g[t] = step[pick[t]][h[t \ {pick[t]}]]
        BY <2>1, <3>2
      <4> QED  BY <3>2, <4>2, <4>3
    <3> QED  BY <3>1, <3>2
  <2> HIDE DEF g, Right
  <2> QED  BY <2>3, <2>4
<1>4. T = Nat
  <2> HIDE DEF T
  <2>1. T \in SUBSET Nat
    BY DEF T
  <2> QED  BY <1>2, <1>3, <2>1, NatSetInduction
<1>5. Cardinality(S) \in T
  BY <1>0, <1>4
<1> QED  BY <1>0, <1>5

(* A set of numbers up to n that is not empty has a greatest.               *)
LEMMA GreatestOf ==
    ASSUME NEW n \in Nat, NEW t \in SUBSET (1..n), t # {}
    PROVE  Max(t) \in t /\ \A i \in t : Max(t) >= i
<1> DEFINE Less == {ss \in Nat \X Nat : ss[1] < ss[2]}
           T == {n - i : i \in t}
<1>1. IsWellFoundedOn(Less, Nat)
  BY NatLessThanWellFounded DEF OpToRel
<1>2. T \subseteq Nat /\ T # {}
  <2>1. \A i \in t : n - i \in Nat
    OBVIOUS
  <2> QED  BY <2>1
<1>3. PICK k \in T : \A j \in T : <<j, k>> \notin Less
  BY <1>1, <1>2, WFMin
<1>4. PICK x \in t : k = n - x
  OBVIOUS
<1>5. ASSUME NEW i \in t  PROVE x >= i
  <2>1. n - i \in T /\ n - i \in Nat /\ k \in Nat
    OBVIOUS
  <2>2. ~(n - i < k)
    BY <1>3, <2>1
  <2> QED  BY <1>4, <2>2
<1>6. \E y \in t : \A i \in t : y >= i
  BY <1>5
<1> QED  BY <1>6, Zenon DEF Max

(* The positions up to i are those up to i - 1 and i, the greatest of them. *)
LEMMA Segments ==
    ASSUME NEW n \in Nat
    PROVE  /\ 1..0 = {}
           /\ \A i \in 0..n : 1..i \in SUBSET (1..n)
           /\ \A i \in 1..n : /\ 1..i # {} /\ Max(1..i) = i
                             /\ (1..i) \ {i} = 1..(i - 1)
<1>1. ASSUME NEW i \in 1..n  PROVE Max(1..i) = i
  <2>1. 1..i \in SUBSET (1..n) /\ i \in 1..i
    OBVIOUS
  <2>2. Max(1..i) \in 1..i /\ Max(1..i) >= i
    BY <2>1, GreatestOf
  <2> QED  BY <2>2
<1>2. \A i \in 1..n : 1..i # {} /\ (1..i) \ {i} = 1..(i - 1)
  OBVIOUS
<1>3. 1..0 = {} /\ \A i \in 0..n : 1..i \in SUBSET (1..n)
  OBVIOUS
<1> QED  BY <1>1, <1>2, <1>3

(* What holds of the first of n + 1 values, and from each to the next, holds *)
(* of all.                                                                  *)
LEMMA Along ==
    ASSUME NEW n \in Nat, NEW V, NEW p, p[0] \in V,
           \A i \in 1..n : p[i - 1] \in V => p[i] \in V
    PROVE  \A i \in 0..n : p[i] \in V
<1> DEFINE T == {i \in Nat : i <= n => p[i] \in V}
<1>1. 0 \in T
  OBVIOUS
<1>2. ASSUME NEW i \in T  PROVE i + 1 \in T
  <2>1. CASE i + 1 <= n
    <3>1. i + 1 \in 1..n /\ p[(i + 1) - 1] \in V
      BY <1>2, <2>1
    <3> QED  BY <3>1
  <2> QED  BY <2>1
<1>3. T = Nat
  <2> HIDE DEF T
  <2>1. T \in SUBSET Nat
    BY DEF T
  <2> QED  BY <1>1, <1>2, <2>1, NatSetInduction
<1> QED  BY <1>3

(* A fold that takes the greatest position last, as FoldLeft and FlattenSeq *)
(* do.                                                                      *)
IsLeftFold(h, D, base, step) ==
    h = [t \in SUBSET D |-> IF t = {} THEN base ELSE step[Max(t)][h[t \ {Max(t)}]]]

(* There is such a fold over the positions of a sequence.                   *)
LEMMA LeftFoldExists ==
    ASSUME NEW n \in Nat, NEW D, D = 1..n, NEW V, NEW base \in V, NEW step \in [D -> [V -> V]]
    PROVE  \E h \in [SUBSET D -> V] : IsLeftFold(h, D, base, step)
<1> DEFINE pick == [t \in SUBSET D |-> Max(t)]
<1>1. Picks(D, pick)
  BY GreatestOf DEF Picks
<1>2. \A t \in SUBSET D : pick[t] = Max(t)
  OBVIOUS
<1>3. IsFiniteSet(D)
  BY FS_Interval
<1> HIDE DEF pick
<1>4. PICK h \in [SUBSET D -> V] : IsFold(h, D, base, step, pick)
  BY <1>1, <1>3, FoldExists
<1>5. ASSUME NEW t \in SUBSET D
      PROVE  h[t] = IF t = {} THEN base ELSE step[Max(t)][h[t \ {Max(t)}]]
  BY <1>2, <1>4 DEF IsFold
<1>6. h = [t \in SUBSET D |-> h[t]]
  OBVIOUS
<1> QED  BY <1>5, <1>6 DEF IsLeftFold

(* FlattenSeq appends one part after the other.                             *)
LEMMA FlattenSteps ==
    ASSUME NEW S, NEW seqs \in Seq(Seq(S))
    PROVE  \E p \in [0..Len(seqs) -> Seq(S)] :
              /\ p[0] = <<>> /\ p[Len(seqs)] = FlattenSeq(seqs)
              /\ \A i \in 1..Len(seqs) : p[i] = p[i - 1] \o seqs[i]
<1> DEFINE n == Len(seqs)
           V == Seq(S)
           step == [i \in 1..n |-> [v \in V |-> v \o seqs[i]]]
           IsFlat(f) == f = [i \in 1..n |-> IF i = 1 THEN seqs[i] ELSE f[i - 1] \o seqs[i]]
           flat == CHOOSE f : IsFlat(f)
           p == [i \in 0..n |-> IF i = 0 THEN <<>> ELSE flat[i]]
<1>0. n \in Nat /\ <<>> \in V /\ \A i \in 1..n : seqs[i] \in V
  BY LenProperties, ElementOfSeq, EmptySeq
<1>1. step \in [1..n -> [V -> V]]
  BY <1>0, ConcatProperties
<1>2. \A i \in 1..n, v \in V : step[i][v] = v \o seqs[i]
  OBVIOUS
<1>3. \E f : IsFlat(f)
  <2> DEFINE D == 1..n
             none == <<>>
  <2> HIDE DEF n, V, step
  <2>a. n \in Nat /\ D = 1..n /\ none \in V /\ step \in [D -> [V -> V]]
    BY <1>0, <1>1 DEF D, none
  <2> HIDE DEF D, none
  <2>c. PICK h \in [SUBSET D -> V] : IsLeftFold(h, D, none, step)
    BY <2>a, LeftFoldExists
  <2>1. h = [t \in SUBSET D |-> IF t = {} THEN none ELSE step[Max(t)][h[t \ {Max(t)}]]]
    BY <2>c DEF IsLeftFold
  <2>b. D = 1..n /\ none = <<>>
    BY DEF D, none
  <2> DEFINE f == [i \in 1..n |-> h[1..i]]
  <2>2. ASSUME NEW i \in 1..n  PROVE f[i] = IF i = 1 THEN seqs[i] ELSE f[i - 1] \o seqs[i]
    <3>1. /\ 1..i \in SUBSET (1..n) /\ 1..i # {} /\ Max(1..i) = i /\ (1..i) \ {i} = 1..(i - 1)
          /\ 1..(i - 1) \in SUBSET (1..n) /\ h[1..(i - 1)] \in V
      <4>1. i - 1 \in 0..n
        BY <1>0
      <4>2. 1..(i - 1) \in SUBSET (1..n)
        BY <1>0, <4>1, Segments
      <4>3. 1..i \in SUBSET (1..n) /\ 1..i # {} /\ Max(1..i) = i /\ (1..i) \ {i} = 1..(i - 1)
        <5>1. 1..i # {} /\ Max(1..i) = i /\ (1..i) \ {i} = 1..(i - 1)
          BY <1>0, Segments
        <5> QED  BY <1>0, <5>1
      <4>4. h[1..(i - 1)] \in V
        BY <2>b, <4>2
      <4> QED  BY <4>2, <4>3, <4>4
    <3>2. h[1..i] = step[i][h[1..(i - 1)]]
      BY <2>1, <2>b, <3>1
    <3>3. f[i] = h[1..(i - 1)] \o seqs[i]
      BY <1>2, <3>1, <3>2
    <3>4. CASE i = 1
      <4>1. h[1..(i - 1)] = <<>>
        BY <2>1, <2>b, <3>1, <3>4, Segments
      <4>2. <<>> \o seqs[i] = seqs[i]
        BY <1>0, ConcatEmptySeq DEF V
      <4> QED  BY <3>3, <3>4, <4>1, <4>2
    <3>5. CASE i # 1
      <4>1. i - 1 \in 1..n
        BY <1>0, <3>5
      <4> QED  BY <3>3, <3>5, <4>1
    <3> QED  BY <3>4, <3>5
  <2>3. f = [i \in 1..n |-> IF i = 1 THEN seqs[i] ELSE f[i - 1] \o seqs[i]]
    <3> HIDE DEF f
    <3>1. f = [i \in 1..n |-> f[i]]
      BY DEF f
    <3> QED  BY <2>2, <3>1
  <2> QED  BY <2>3
<1>4. IsFlat(flat)
  BY <1>3
<1>5. n # 0 => FlattenSeq(seqs) = flat[n]
  BY DEF FlattenSeq
<1>6. n = 0 => FlattenSeq(seqs) = <<>>
  BY EmptySeq DEF FlattenSeq
<1>7. ASSUME NEW i \in 1..n  PROVE flat[i] = IF i = 1 THEN seqs[i] ELSE flat[i - 1] \o seqs[i]
  <2> HIDE DEF flat, n
  <2> QED  BY <1>4
<1> HIDE DEF flat, n, V
<1>8. ASSUME NEW i \in 1..n  PROVE p[i] = p[i - 1] \o seqs[i]
  <2>1. CASE i = 1
    <3>1. <<>> \o seqs[i] = seqs[i]
      BY <1>0, ConcatEmptySeq DEF V
    <3>2. flat[i] = seqs[i]
      BY <1>7, <2>1
    <3>3. p[i] = flat[i] /\ p[i - 1] = <<>>
      BY <1>0, <2>1
    <3> QED  BY <3>1, <3>2, <3>3
  <2>2. CASE i # 1
    <3>2. flat[i] = flat[i - 1] \o seqs[i]
      BY <1>7, <2>2
    <3>3. p[i] = flat[i] /\ p[i - 1] = flat[i - 1]
      BY <1>0, <2>2
    <3> QED  BY <3>2, <3>3
  <2> QED  BY <2>1, <2>2
<1>9. p[0] = <<>> /\ p[n] = FlattenSeq(seqs) /\ p = [i \in 0..n |-> p[i]]
  BY <1>0, <1>5, <1>6
<1> HIDE DEF p
<1>10. \A i \in 0..n : p[i] \in V
  <2>1. \A i \in 1..n : p[i - 1] \in V => p[i] \in V
    BY <1>0, <1>8, ConcatProperties DEF V
  <2> QED  BY <1>0, <1>9, <2>1, Along
<1>11. p \in [0..n -> V]
  BY <1>9, <1>10
<1> QED  BY <1>8, <1>9, <1>11 DEF n, V

-----------------------------------------------------------------------------
(* The folds of zccp_msg_decode.                                            *)

(* The folds by which zccp_msg_decode reads, step by step.                  *)
ReadEntries(base, n) == FoldLeft(LAMBDA r, i : GetEntry(r), base, [i \in 1..n |-> i])
ReadFields(base, seq, content) == FoldLeft(LAMBDA r, f : GetField(r, f, content), base, seq)

(* The runs of readers through n entries, and through the fields of a       *)
(* message, each reader in V.                                               *)
EntriesRun(base, n, V) ==
    \E p \in [0..n -> V] : /\ p[0] = base
                           /\ p[n] = ReadEntries(base, n)
                           /\ \A i \in 1..n : p[i] = GetEntry(p[i - 1])

FieldsRun(base, n, seq, content, V) ==
    \E p \in [0..n -> V] : /\ p[0] = base
                           /\ p[n] = ReadFields(base, seq, content)
                           /\ \A i \in 1..n : p[i] = GetField(p[i - 1], seq[i], content)

(* When one entry leads from V into V, GetEntries reads entry by entry and  *)
(* stays within V.                                                          *)
LEMMA EntryFold ==
    ASSUME NEW V, NEW base \in V, \A v \in V : GetEntry(v) \in V, NEW n \in Nat
    PROVE  EntriesRun(base, n, V) /\ ReadEntries(base, n) \in V
<1> DEFINE D == 1..n
           step == [i \in D |-> [v \in V |-> GetEntry(v)]]
           IsIt(h) == h = [t \in SUBSET D |-> IF t = {} THEN base ELSE GetEntry(h[t \ {Max(t)}])]
           fold == CHOOSE h : IsIt(h)
           p == [i \in 0..n |-> fold[1..i]]
<1>1. \E h : IsIt(h)
  <2>1. step \in [D -> [V -> V]] /\ \A i \in D, v \in V : step[i][v] = GetEntry(v)
    OBVIOUS
  <2>2. \A t \in SUBSET D : t # {} => Max(t) \in D /\ t \ {Max(t)} \in SUBSET D
    BY GreatestOf
  <2> HIDE DEF step
  <2>3. PICK h \in [SUBSET D -> V] : IsLeftFold(h, D, base, step)
    BY <2>1, LeftFoldExists
  <2>4. ASSUME NEW t \in SUBSET D
        PROVE  h[t] = IF t = {} THEN base ELSE GetEntry(h[t \ {Max(t)}])
    <3>1. h[t] = IF t = {} THEN base ELSE step[Max(t)][h[t \ {Max(t)}]]
      BY <2>3 DEF IsLeftFold
    <3>2. t # {} => Max(t) \in D /\ h[t \ {Max(t)}] \in V
      BY <2>2, <2>3
    <3> HIDE DEF D
    <3> QED  BY <2>1, <3>1, <3>2
  <2> HIDE DEF D
  <2>5. h = [t \in SUBSET D |-> h[t]]
    OBVIOUS
  <2> QED  BY <2>4, <2>5
<1>2. IsIt(fold)
  BY <1>1
<1>3. ReadEntries(base, n) = fold[1..n]
  BY DEF ReadEntries, FoldLeft, MapThenFoldSet
<1> HIDE DEF fold
<1>4. fold[1..0] = base
  BY <1>2, Segments
<1>5. ASSUME NEW i \in 1..n  PROVE fold[1..i] = GetEntry(fold[1..(i - 1)])
  <2>1. 1..i \in SUBSET D
    OBVIOUS
  <2>2. 1..i # {} /\ Max(1..i) = i /\ (1..i) \ {i} = 1..(i - 1)
    BY Segments
  <2> QED  BY <1>2, <2>1, <2>2
<1>6. /\ p[0] = base /\ p[n] = fold[1..n]
      /\ \A i \in 1..n : p[i] = GetEntry(p[i - 1])
  BY <1>4, <1>5
<1>7. p = [i \in 0..n |-> p[i]]
  OBVIOUS
<1> HIDE DEF p
<1>8. \A i \in 0..n : p[i] \in V
  <2>1. p[0] \in V /\ \A i \in 1..n : p[i - 1] \in V => p[i] \in V
    BY <1>6
  <2> QED  BY <2>1, Along
<1>9. p \in [0..n -> V] /\ p[n] \in V
  BY <1>7, <1>8
<1> QED  BY <1>3, <1>6, <1>9 DEF EntriesRun

(* When one field leads from V into V, zccp_msg_decode reads field by field *)
(* and stays within V.                                                      *)
LEMMA FieldFold ==
    ASSUME NEW V, NEW base \in V, NEW n \in Nat, NEW seq, DOMAIN seq = 1..n, NEW content,
           \A v \in V : \A i \in 1..n : GetField(v, seq[i], content) \in V
    PROVE  FieldsRun(base, n, seq, content, V) /\ ReadFields(base, seq, content) \in V
<1> DEFINE D == 1..n
           step == [i \in D |-> [v \in V |-> GetField(v, seq[i], content)]]
           IsIt(h) == h = [t \in SUBSET D |-> IF t = {} THEN base
                                             ELSE GetField(h[t \ {Max(t)}], seq[Max(t)], content)]
           fold == CHOOSE h : IsIt(h)
           p == [i \in 0..n |-> fold[1..i]]
<1>1. \E h : IsIt(h)
  <2>1. step \in [D -> [V -> V]]
        /\ \A i \in D, v \in V : step[i][v] = GetField(v, seq[i], content)
    OBVIOUS
  <2>2. \A t \in SUBSET D : t # {} => Max(t) \in D /\ t \ {Max(t)} \in SUBSET D
    BY GreatestOf
  <2> HIDE DEF step
  <2>3. PICK h \in [SUBSET D -> V] : IsLeftFold(h, D, base, step)
    BY <2>1, LeftFoldExists
  <2>4. ASSUME NEW t \in SUBSET D
        PROVE  h[t] = IF t = {} THEN base ELSE GetField(h[t \ {Max(t)}], seq[Max(t)], content)
    <3>1. h[t] = IF t = {} THEN base ELSE step[Max(t)][h[t \ {Max(t)}]]
      BY <2>3 DEF IsLeftFold
    <3>2. t # {} => Max(t) \in D /\ h[t \ {Max(t)}] \in V
      BY <2>2, <2>3
    <3> HIDE DEF D
    <3> QED  BY <2>1, <3>1, <3>2
  <2> HIDE DEF D
  <2>5. h = [t \in SUBSET D |-> h[t]]
    OBVIOUS
  <2> QED  BY <2>4, <2>5
<1>2. IsIt(fold)
  BY <1>1
<1>3. ReadFields(base, seq, content) = fold[1..n]
  BY DEF ReadFields, FoldLeft, MapThenFoldSet
<1> HIDE DEF fold
<1>4. fold[1..0] = base
  BY <1>2, Segments
<1>5. ASSUME NEW i \in 1..n  PROVE fold[1..i] = GetField(fold[1..(i - 1)], seq[i], content)
  <2>1. 1..i \in SUBSET D
    OBVIOUS
  <2>2. 1..i # {} /\ Max(1..i) = i /\ (1..i) \ {i} = 1..(i - 1)
    BY Segments
  <2> QED  BY <1>2, <2>1, <2>2
<1>6. /\ p[0] = base /\ p[n] = fold[1..n]
      /\ \A i \in 1..n : p[i] = GetField(p[i - 1], seq[i], content)
  BY <1>4, <1>5
<1>7. p = [i \in 0..n |-> p[i]]
  OBVIOUS
<1> HIDE DEF p
<1>8. \A i \in 0..n : p[i] \in V
  <2>1. p[0] \in V /\ \A i \in 1..n : p[i - 1] \in V => p[i] \in V
    BY <1>6
  <2> QED  BY <2>1, Along
<1>9. p \in [0..n -> V] /\ p[n] \in V
  BY <1>7, <1>8
<1> QED  BY <1>3, <1>6, <1>9 DEF FieldsRun

-----------------------------------------------------------------------------
(* Types: objects, readers, and what is read.                               *)

(* A set of numbers up to n that is not empty has a least.                  *)
LEMMA LeastOf ==
    ASSUME NEW n \in Nat, NEW t \in SUBSET (1..n), t # {}
    PROVE  Min(t) \in t /\ \A i \in t : Min(t) <= i
<1> DEFINE Less == {ss \in Nat \X Nat : ss[1] < ss[2]}
<1>1. IsWellFoundedOn(Less, Nat)
  BY NatLessThanWellFounded DEF OpToRel
<1>2. t \subseteq Nat
  OBVIOUS
<1>3. PICK x \in t : \A i \in t : <<i, x>> \notin Less
  BY <1>1, <1>2, WFMin
<1>4. \A i \in t : x =< i
  <2> SUFFICES ASSUME NEW i \in t, ~(x =< i)  PROVE FALSE
    OBVIOUS
  <2>1. <<i, x>> \in Less
    BY <1>2
  <2> QED  BY <1>3, <2>1
<1>5. \E y \in t : \A i \in t : y =< i
  BY <1>4
<1> QED  BY <1>5, Zenon DEF Min

(* What objects hold.                                                       *)
Texts == Seq(1..255)
Dicts == {d \in UNION {[K -> Texts] : K \in SUBSET Texts} : IsFiniteSet(DOMAIN d)}
Frames == Seq(Seq(Octet))

Objects ==
    [routing_id : {NULL, RoutingId}, id : MessageIds \cup {0},
     identifier : Texts \cup {NULL}, headers : Dicts \cup {NULL},
     expression : Texts \cup {NULL}, address : Texts \cup {NULL},
     content : Frames \cup {NULL}, sender : Texts \cup {NULL}]

(* A part of a sequence.                                                    *)
LEMMA PartOf ==
    ASSUME NEW S, NEW o \in Seq(S), NEW m \in Nat, m > 0, NEW n \in Nat, n <= Len(o)
    PROVE  /\ SubSeq(o, m, n) \in Seq(S)
           /\ Len(SubSeq(o, m, n)) = IF m <= n THEN n - m + 1 ELSE 0
           /\ \A i \in 1..(n - m + 1) : SubSeq(o, m, n)[i] = o[m + i - 1]
<1>1. \A i \in m..n : o[i] \in S
  BY ElementOfSeq, LenProperties
<1>2. m \in Int /\ n \in Int
  OBVIOUS
<1> QED  BY <1>1, <1>2, SubSeqProperties

(* The octets up to the first zero are a C string.                          *)
LEMMA CStringIsText ==
    ASSUME NEW s \in Seq(Octet)
    PROVE  CString(s) \in Texts
<1> DEFINE zeros == {i \in 1..Len(s) : s[i] = 0}
           end == SelectInSeq(s, LAMBDA b : b = 0)
<1>0. Len(s) \in Nat /\ \A i \in 1..Len(s) : s[i] \in 0..255
  BY LenProperties, ElementOfSeq DEF Octet
<1>1. end = IF zeros # {} THEN Min(zeros) ELSE 0
  BY DEF SelectInSeq
<1>2. CString(s) = IF end = 0 THEN s ELSE SubSeq(s, 1, end - 1)
  BY DEF CString
<1>3. CASE zeros = {}
  <2>1. CString(s) = s
    BY <1>1, <1>2, <1>3
  <2>2. \A i \in 1..Len(s) : s[i] \in 1..255
    <3> SUFFICES ASSUME NEW i \in 1..Len(s)  PROVE s[i] \in 1..255
      OBVIOUS
    <3>1. s[i] # 0
      BY <1>3
    <3> QED  BY <1>0, <3>1
  <2>3. SubSeq(s, 1, Len(s)) \in Seq(1..255)
    <3>1. 1 \in Int /\ Len(s) \in Int
      BY <1>0
    <3> QED  BY <2>2, <3>1, SubSeqProperties
  <2>4. SubSeq(s, 1, Len(s)) = s
    BY SubSeqFull
  <2>5. s \in Seq(1..255)
    BY <2>3, <2>4
  <2> QED  BY <2>1, <2>5 DEF Texts
<1>4. CASE zeros # {}
  <2>1. zeros \in SUBSET (1..Len(s))
    OBVIOUS
  <2> HIDE DEF zeros
  <2>2. end \in zeros /\ \A i \in zeros : end <= i
    BY <1>0, <1>1, <1>4, <2>1, LeastOf
  <2> HIDE DEF end
  <2>3. end \in 1..Len(s)
    BY <2>1, <2>2
  <2>4. CString(s) = SubSeq(s, 1, end - 1)
    BY <1>2, <2>3
  <2>5. \A i \in 1..(end - 1) : s[i] \in 1..255
    <3> SUFFICES ASSUME NEW i \in 1..(end - 1)  PROVE s[i] \in 1..255
      OBVIOUS
    <3>1. i \in 1..Len(s) /\ i \notin zeros
      BY <1>0, <2>2, <2>3
    <3>2. s[i] # 0
      BY <3>1 DEF zeros
    <3> QED  BY <1>0, <3>1, <3>2
  <2>6. 1 \in Int /\ end - 1 \in Int
    BY <1>0, <2>3
  <2>7. SubSeq(s, 1, end - 1) \in Seq(1..255)
    BY <2>5, <2>6, SubSeqProperties
  <2> QED  BY <2>4, <2>7 DEF Texts
<1> QED  BY <1>3, <1>4

(* Readers: what was read, and the octets that are left.                    *)
TextReaders  == [value : Texts, rest : Seq(Octet)]
EntryReaders == [value : Dicts, rest : Seq(Octet)]
FieldReaders == [value : Objects, rest : Seq(Octet)]

(* Numbers that are read.                                                   *)
LEMMA Octets ==
    Octet \subseteq Nat /\ \A x \in Octet : x >= 0 /\ x <= 255
BY DEF Octet

(* Numbers of one and of four octets, and lengths, are natural numbers.     *)
LEMMA NumbersRead ==
    ASSUME NEW o \in Seq(Octet)
    PROVE  /\ Len(o) \in Nat
           /\ Len(o) >= 1 => GET_NUMBER1(o) \in Nat
           /\ Len(o) >= 4 => GET_NUMBER4(o) \in Nat
<1>1. Len(o) \in Nat /\ \A i \in 1..Len(o) : o[i] \in Octet
  BY LenProperties, ElementOfSeq
<1>2. \A i \in 1..Len(o) : o[i] \in Nat
  BY <1>1, Octets
<1>3. ASSUME Len(o) >= 1  PROVE GET_NUMBER1(o) \in Nat
  <2>1. 1 \in 1..Len(o)
    BY <1>1, <1>3
  <2> QED  BY <1>2, <2>1 DEF GET_NUMBER1
<1>4. ASSUME Len(o) >= 4  PROVE GET_NUMBER4(o) \in Nat
  <2> DEFINE p == o[1]  q == o[2]  r == o[3]  s == o[4]
  <2>1. 1 \in 1..Len(o) /\ 2 \in 1..Len(o) /\ 3 \in 1..Len(o) /\ 4 \in 1..Len(o)
    BY <1>1, <1>4
  <2>2. p \in Nat /\ q \in Nat /\ r \in Nat /\ s \in Nat
    BY <1>2, <2>1
  <2>3. GET_NUMBER4(o) = p * 16777216 + q * 65536 + r * 256 + s
    BY SMT DEF GET_NUMBER4
  <2> HIDE DEF p, q, r, s
  <2> QED  BY <2>2, <2>3, SMT
<1> QED  BY <1>1, <1>3, <1>4

(* A string within the rest is read as a C string.                          *)
LEMMA TextType ==
    ASSUME NEW o \in Seq(Octet), NEW k \in Nat, NEW n \in Nat
    PROVE  Text(o, k, n) \in TextReaders \cup {NULL}
<1>1. CASE k + n > Len(o)
  BY <1>1 DEF Text
<1>2. CASE ~(k + n > Len(o))
  <2>0. Len(o) \in Nat /\ k + n <= Len(o)
    BY <1>2, LenProperties
  <2>1. SubSeq(o, k + 1, k + n) \in Seq(Octet)
    <3>1. k + 1 \in Nat /\ k + 1 > 0 /\ k + n \in Nat
      OBVIOUS
    <3> QED  BY <2>0, <3>1, PartOf
  <2>2. SubSeq(o, k + n + 1, Len(o)) \in Seq(Octet)
    <3>1. k + n + 1 \in Nat /\ k + n + 1 > 0 /\ Len(o) <= Len(o)
      BY <2>0
    <3> QED  BY <2>0, <3>1, PartOf
  <2>3. CString(SubSeq(o, k + 1, k + n)) \in Texts
    BY <2>1, CStringIsText
  <2> QED  BY <1>2, <2>2, <2>3 DEF Text, TextReaders
<1> QED  BY <1>1, <1>2

(* A string that is read is a C string, or it is malformed.                 *)
LEMMA StringType ==
    ASSUME NEW o \in Seq(Octet)
    PROVE  GET_STRING(o) \in TextReaders \cup {NULL} /\ GET_LONGSTR(o) \in TextReaders \cup {NULL}
<1>0. Len(o) \in Nat /\ 1 \in Nat /\ 4 \in Nat
  BY NumbersRead
<1>1. CASE Len(o) >= 1
  <2>1. GET_NUMBER1(o) \in Nat
    BY <1>1, NumbersRead
  <2>2. Text(o, 1, GET_NUMBER1(o)) \in TextReaders \cup {NULL}
    BY <1>0, <2>1, TextType
  <2> QED  
    <3>1. GET_STRING(o) \in TextReaders \cup {NULL}
      BY <2>2 DEF GET_STRING
    <3>2. CASE Len(o) >= 4
      <4>1. GET_NUMBER4(o) \in Nat
        BY <3>2, NumbersRead
      <4>2. Text(o, 4, GET_NUMBER4(o)) \in TextReaders \cup {NULL}
        BY <1>0, <4>1, TextType
      <4> QED  BY <3>1, <4>2 DEF GET_LONGSTR
    <3>3. CASE ~(Len(o) >= 4)
      BY <1>0, <3>1, <3>3 DEF GET_LONGSTR
    <3> QED  BY <3>2, <3>3
<1>2. CASE ~(Len(o) >= 1)
  BY <1>0, <1>2 DEF GET_STRING, GET_LONGSTR
<1> QED  BY <1>1, <1>2

(* With one entry more, a dictionary is one.                                *)
LEMMA DictWith ==
    ASSUME NEW d \in Dicts, NEW k \in Texts, NEW v \in Texts
    PROVE  zhash_insert(d, k, v) \in Dicts /\ zhash_update(d, k, v) \in Dicts
<1> DEFINE e == zhash_insert(d, k, v)
           f == zhash_update(d, k, v)
           K == DOMAIN d \cup {k}
<1>1. DOMAIN d \in SUBSET Texts /\ d \in [DOMAIN d -> Texts] /\ IsFiniteSet(DOMAIN d)
  BY DEF Dicts
<1>2. DOMAIN e = K /\ DOMAIN f = K
  BY DEF zhash_insert, zhash_update
<1>3. IsFiniteSet(K) /\ K \in SUBSET Texts
  BY <1>1, FS_AddElement
<1>4. e \in [K -> Texts] /\ f \in [K -> Texts]
  BY <1>1 DEF zhash_insert, zhash_update
<1> HIDE DEF e, f, K
<1> QED  BY <1>2, <1>3, <1>4 DEF Dicts, e, f

(* An entry that is read extends the dictionary, or it is malformed.        *)
LEMMA EntryType ==
    ASSUME NEW r \in EntryReaders \cup {NULL}
    PROVE  GetEntry(r) \in EntryReaders \cup {NULL}
<1> DEFINE key == GET_STRING(r.rest)
           value == GET_LONGSTR(key.rest)
<1>1. CASE r = NULL
  BY <1>1 DEF GetEntry
<1>2. CASE r # NULL
  <2>1. r.value \in Dicts /\ r.rest \in Seq(Octet)
    BY <1>2 DEF EntryReaders
  <2>2. key \in TextReaders \cup {NULL}
    BY <2>1, StringType
  <2>3. key # NULL => key.value \in Texts /\ key.rest \in Seq(Octet)
    BY <2>2 DEF TextReaders
  <2>4. key # NULL => value \in TextReaders \cup {NULL}
    BY <2>3, StringType
  <2>5. key # NULL /\ value # NULL => value.value \in Texts /\ value.rest \in Seq(Octet)
    BY <2>4 DEF TextReaders
  <2>6. GetEntry(r) = IF key = NULL THEN NULL ELSE IF value = NULL THEN NULL
                      ELSE [value |-> zhash_insert(r.value, key.value, value.value), rest |-> value.rest]
    BY <1>2 DEF GetEntry
  <2> HIDE DEF key, value
  <2>7. key # NULL /\ value # NULL => zhash_insert(r.value, key.value, value.value) \in Dicts
    BY <2>1, <2>3, <2>5, DictWith
  <2> QED  BY <2>5, <2>6, <2>7 DEF EntryReaders
<1> QED  BY <1>1, <1>2

(* Entries that are read are a dictionary, or they are malformed.           *)
LEMMA EntriesType ==
    ASSUME NEW o \in Seq(Octet)
    PROVE  GetEntries(o) \in EntryReaders \cup {NULL}
<1> DEFINE n == Min({GET_NUMBER4(o), 1 + Len(o) \div 5})
           base == [value |-> <<>>, rest |-> SubSeq(o, 5, Len(o))]
           V == EntryReaders \cup {NULL}
<1>0. Len(o) \in Nat
  BY NumbersRead
<1>1. CASE 4 > Len(o)
  BY <1>1 DEF GetEntries
<1>2. CASE ~(4 > Len(o))
  <2>1. GET_NUMBER4(o) \in Nat /\ 1 + Len(o) \div 5 \in Nat
    BY <1>0, <1>2, NumbersRead
  <2>2. n \in Nat
    <3>1. \A x, y \in Nat : Min({x, y}) \in Nat
      <4> SUFFICES ASSUME NEW x \in Nat, NEW y \in Nat  PROVE Min({x, y}) \in Nat
        OBVIOUS
      <4>1. \E z \in {x, y} : \A i \in {x, y} : z =< i
        OBVIOUS
      <4>2. Min({x, y}) \in {x, y}
        BY <4>1, Zenon DEF Min
      <4> QED  BY <4>2
    <3> HIDE DEF n
    <3> QED  BY <2>1, <3>1 DEF n
  <2>3. base \in V
    <3>1. SubSeq(o, 5, Len(o)) \in Seq(Octet)
      BY <1>0, PartOf
    <3>2. <<>> \in Dicts
      <4>1. <<>> = [x \in {} |-> x] /\ DOMAIN <<>> = {}
        OBVIOUS
      <4>2. IsFiniteSet({}) /\ {} \in SUBSET Texts /\ <<>> \in [{} -> Texts]
        BY <4>1, FS_EmptySet
      <4> QED  BY <4>1, <4>2 DEF Dicts
    <3> QED  BY <3>1, <3>2 DEF EntryReaders
  <2>4. \A v \in V : GetEntry(v) \in V
    BY EntryType
  <2>5. GetEntries(o) = ReadEntries(base, n)
    BY <1>2 DEF GetEntries, ReadEntries
  <2> HIDE DEF n, base, V
  <2>6. ReadEntries(base, n) \in V
    BY <2>2, <2>3, <2>4, EntryFold
  <2> QED  BY <2>5, <2>6 DEF V
<1> QED  BY <1>1, <1>2

(* All fields a message may have.                                           *)
FieldNames == StringFields \cup {"headers", "content"}

(* Every message has up to four fields.                                     *)
LEMMA LayoutFields ==
    /\ MessageIds = 1..12
    /\ \A id \in MessageIds : Layout[id] \in Seq(FieldNames)
<1>1. MessageIds = 1..12
  BY DEF MessageIds, Layout
<1>2. ASSUME NEW id \in 1..12  PROVE Layout[id] \in Seq(FieldNames)
  <2> DEFINE none == <<>>
             headers == <<"headers">>
             hello == <<"identifier", "headers">>
             subscribe == <<"expression", "headers">>
             publish == <<"address", "headers", "content">>
             deliver == <<"sender", "address", "headers", "content">>
  <2>1. /\ "identifier" \in FieldNames /\ "headers" \in FieldNames /\ "expression" \in FieldNames
        /\ "address" \in FieldNames /\ "sender" \in FieldNames /\ "content" \in FieldNames
    BY DEF FieldNames, StringFields
  <2>2. /\ none \in Seq(FieldNames) /\ headers \in Seq(FieldNames) /\ hello \in Seq(FieldNames)
        /\ subscribe \in Seq(FieldNames) /\ publish \in Seq(FieldNames)
        /\ deliver \in Seq(FieldNames)
    BY <2>1
  <2>3. Layout[id] \in {none, headers, hello, subscribe, publish, deliver}
    <3>1. Layout = <<hello, headers, subscribe, none, publish, publish, deliver, none, headers,
                     none, none, none>>
      BY DEF Layout
    <3> HIDE DEF none, headers, hello, subscribe, publish, deliver
    <3> QED  BY <3>1
  <2> HIDE DEF none, headers, hello, subscribe, publish, deliver
  <2> QED  BY <2>2, <2>3
<1> QED  BY <1>1, <1>2

(* A field that is read is one of an object, or it is malformed.            *)
LEMMA FieldType ==
    ASSUME NEW r \in FieldReaders \cup {NULL}, NEW f \in FieldNames, NEW content \in Frames
    PROVE  GetField(r, f, content) \in FieldReaders \cup {NULL}
<1> DEFINE got == CASE f = "headers" -> GetEntries(r.rest)
                    [] f = "content" -> [value |-> content, rest |-> r.rest]
                    [] OTHER         -> GET_STRING(r.rest)
<1>1. CASE r = NULL
  BY <1>1 DEF GetField
<1>2. CASE r # NULL
  <2>1. r.value \in Objects /\ r.rest \in Seq(Octet)
    BY <1>2 DEF FieldReaders
  <2>2. GetField(r, f, content) = IF got = NULL THEN NULL
            ELSE [value |-> [r.value EXCEPT ![f] = got.value], rest |-> got.rest]
    BY <1>2 DEF GetField
  <2> SUFFICES ASSUME got # NULL
               PROVE  /\ [r.value EXCEPT ![f] = got.value] \in Objects
                      /\ got.rest \in Seq(Octet)
    BY <2>2 DEF FieldReaders
  <2>3. CASE f = "headers"
    <3>1. got = GetEntries(r.rest)
      BY <2>3
    <3> HIDE DEF got
    <3>2. got \in EntryReaders
      BY <2>1, <3>1, EntriesType
    <3>3. got.value \in Dicts /\ got.rest \in Seq(Octet)
      BY <3>2 DEF EntryReaders
    <3> QED  BY <2>1, <2>3, <3>3 DEF Objects
  <2>4. CASE f = "content"
    <3>1. got = [value |-> content, rest |-> r.rest]
      BY <2>4
    <3> HIDE DEF got
    <3>2. got.value \in Frames /\ got.rest \in Seq(Octet)
      BY <2>1, <3>1
    <3> QED  BY <2>1, <2>4, <3>2 DEF Objects
  <2>5. CASE f \in StringFields
    <3>1. got = GET_STRING(r.rest)
      BY <2>5 DEF StringFields
    <3> HIDE DEF got
    <3>2. got \in TextReaders
      BY <2>1, <3>1, StringType
    <3>3. got.value \in Texts /\ got.rest \in Seq(Octet)
      BY <3>2 DEF TextReaders
    <3> QED  BY <2>1, <2>5, <3>3 DEF Objects, StringFields
  <2> QED  BY <2>3, <2>4, <2>5 DEF FieldNames
<1> QED  BY <1>1, <1>2

(* zccp_msg_new yields an object.                                           *)
LEMMA NewType ==
    ASSUME NEW id \in MessageIds \cup {0}
    PROVE  zccp_msg_new(id) \in Objects
BY DEF zccp_msg_new, Objects

(* What zccp_msg_decode accepts is an object.                               *)
LEMMA DecodeType ==
    ASSUME NEW z \in Frames
    PROVE  zccp_msg_decode(z) \in Objects \cup {NULL}
<1> DEFINE o == Head(z)
           id == o[3]
           base == [value |-> zccp_msg_new(id), rest |-> SubSeq(o, 4, Len(o))]
           V == FieldReaders \cup {NULL}
           content == Tail(z)
           seq == Layout[id]
           n == Len(seq)
           read == ReadFields(base, seq, content)
<1>1. zccp_msg_decode(z) = IF \/ z = <<>> \/ Len(o) < 3 \/ SubSeq(o, 1, 2) # Signature
                              \/ id \notin MessageIds \/ read = NULL
                           THEN NULL ELSE read.value
  BY DEF zccp_msg_decode, ReadFields
<1>2. CASE z = <<>> \/ Len(o) < 3 \/ id \notin MessageIds
  <2> HIDE DEF o, id, read
  <2> QED  BY <1>1, <1>2
<1>3. CASE ~(z = <<>> \/ Len(o) < 3 \/ id \notin MessageIds)
  <2>1. z # <<>> /\ ~(Len(o) < 3) /\ id \in MessageIds
    <3> HIDE DEF o, id
    <3> QED  BY <1>3
  <2>2. o \in Seq(Octet) /\ content \in Frames
    BY <2>1, HeadTailProperties DEF Frames
  <2> HIDE DEF o, content
  <2>3. SubSeq(o, 4, Len(o)) \in Seq(Octet)
    <3>1. Len(o) \in Nat /\ Len(o) <= Len(o) /\ 4 \in Nat /\ 4 > 0
      BY <2>2, NumbersRead
    <3> QED  BY <2>2, <3>1, PartOf
  <2> HIDE DEF id
  <2>4. zccp_msg_new(id) \in Objects
    BY <2>1, NewType
  <2>5. base \in V
    BY <2>3, <2>4 DEF FieldReaders
  <2>6. seq \in Seq(FieldNames)
    BY <2>1, LayoutFields
  <2>7. n \in Nat /\ DOMAIN seq = 1..n /\ \A i \in 1..n : seq[i] \in FieldNames
    BY <2>6, LenProperties, ElementOfSeq
  <2>8. ASSUME NEW v \in V, NEW i \in 1..n  PROVE GetField(v, seq[i], content) \in V
    BY <2>2, <2>7, FieldType
  <2> HIDE DEF base, V, seq, n
  <2>9. ReadFields(base, seq, content) \in V
    BY <2>5, <2>7, <2>8, FieldFold
  <2>10. read \in V
    BY <2>9
  <2> HIDE DEF read
  <2> QED  BY <1>1, <2>10 DEF V, FieldReaders
<1> QED  BY <1>2, <1>3

-----------------------------------------------------------------------------
(* Sums over sets, independent of the order in which they are taken.        *)

(* A sum over a set, taken as MapThenSumSet takes it: h[t] is the sum of the *)
(* weights over t.                                                          *)
Picked(t) == CHOOSE x \in t : TRUE

(* h sums up the weights w over every subset of S.                          *)
IsSum(h, S, w) ==
    h = [t \in SUBSET S |-> IF t = {} THEN 0 ELSE w[Picked(t)] + h[t \ {Picked(t)}]]

(* What is picked from a set that is not empty is in it.                    *)
LEMMA PickedIn == \A t : t # {} => Picked(t) \in t
BY DEF Picked

(* Over a finite set there is such a sum.                                   *)
LEMMA SumExists ==
    ASSUME NEW S, IsFiniteSet(S), NEW w \in [S -> Nat]
    PROVE  \E h : IsSum(h, S, w)
<1> DEFINE step == [x \in S |-> [v \in Nat |-> w[x] + v]]
           pick == [t \in SUBSET S |-> Picked(t)]
           base == 0
<1>1. step \in [S -> [Nat -> Nat]] /\ \A x \in S, v \in Nat : step[x][v] = w[x] + v
  OBVIOUS
<1>2. Picks(S, pick) /\ \A t \in SUBSET S : pick[t] = Picked(t)
  BY PickedIn DEF Picks
<1>3. base \in Nat /\ base = 0
  OBVIOUS
<1> HIDE DEF step, pick, base
<1>4. PICK h \in [SUBSET S -> Nat] : IsFold(h, S, base, step, pick)
  BY <1>1, <1>2, <1>3, FoldExists
<1>5. ASSUME NEW t \in SUBSET S
      PROVE  h[t] = IF t = {} THEN 0 ELSE w[Picked(t)] + h[t \ {Picked(t)}]
  <2>1. h[t] = IF t = {} THEN base ELSE step[Picked(t)][h[t \ {Picked(t)}]]
    BY <1>2, <1>4 DEF IsFold
  <2>2. t # {} => Picked(t) \in S /\ h[t \ {Picked(t)}] \in Nat
    BY PickedIn
  <2> QED  BY <1>1, <1>3, <2>1, <2>2
<1>6. h = [t \in SUBSET S |-> h[t]]
  OBVIOUS
<1> QED  BY <1>5, <1>6 DEF IsSum

(* Subsets of a finite set have a cardinality; taking an element out takes  *)
(* one off it.                                                              *)
LEMMA Cardinalities ==
    ASSUME NEW S, IsFiniteSet(S)
    PROVE  \A t \in SUBSET S :
              /\ Cardinality(t) \in Nat
              /\ \A x \in t : t \ {x} \in SUBSET S /\ Cardinality(t \ {x}) + 1 = Cardinality(t)
<1> SUFFICES ASSUME NEW t \in SUBSET S
             PROVE  /\ Cardinality(t) \in Nat
                    /\ \A x \in t : /\ t \ {x} \in SUBSET S
                                    /\ Cardinality(t \ {x}) + 1 = Cardinality(t)
  OBVIOUS
<1>1. IsFiniteSet(t) /\ Cardinality(t) \in Nat
  BY FS_Subset, FS_CardinalityType
<1>2. \A x \in t : Cardinality(t \ {x}) = Cardinality(t) - 1
  BY <1>1, FS_RemoveElement
<1> QED  BY <1>1, <1>2

(* The same, as facts about each subset.                                    *)
Summed(h, S, w) ==
    /\ h = [t \in SUBSET S |-> h[t]]
    /\ h[{}] = 0
    /\ \A t \in SUBSET S : t # {} => h[t] = w[Picked(t)] + h[t \ {Picked(t)}]

(* A sum is taken element by element.                                       *)
LEMMA SumSteps ==
    ASSUME NEW S, NEW w, NEW h, IsSum(h, S, w)
    PROVE  Summed(h, S, w)
<1> DEFINE g == [t \in SUBSET S |-> IF t = {} THEN 0 ELSE w[Picked(t)] + h[t \ {Picked(t)}]]
<1>1. h = g
  BY DEF IsSum
<1>2. g = [t \in SUBSET S |-> g[t]]
      /\ \A t \in SUBSET S : g[t] = IF t = {} THEN 0 ELSE w[Picked(t)] + h[t \ {Picked(t)}]
  OBVIOUS
<1> HIDE DEF g
<1>3. {} \in SUBSET S
  OBVIOUS
<1> QED  BY <1>1, <1>2, <1>3 DEF Summed

(* Sums of natural numbers are natural numbers.                             *)
LEMMA SumType ==
    ASSUME NEW S, IsFiniteSet(S), NEW w \in [S -> Nat], NEW h, IsSum(h, S, w)
    PROVE  h \in [SUBSET S -> Nat]
<1> DEFINE T == {n \in Nat : \A t \in SUBSET S : Cardinality(t) = n => h[t] \in Nat}
<1>1. /\ h = [t \in SUBSET S |-> h[t]]
      /\ h[{}] = 0
      /\ \A t \in SUBSET S : t # {} => h[t] = w[Picked(t)] + h[t \ {Picked(t)}]
  <2>1. Summed(h, S, w)
    BY SumSteps
  <2> QED  BY <2>1 DEF Summed
<1>2. 0 \in T
  <2>1. ASSUME NEW t \in SUBSET S, Cardinality(t) = 0  PROVE h[t] \in Nat
    <3>1. t = {}
      BY <2>1, FS_Subset, FS_EmptySet
    <3>2. h[t] = 0
      BY <1>1, <3>1
    <3> QED  BY <3>2
  <2> QED  BY <2>1
<1>3. ASSUME NEW n \in T  PROVE n + 1 \in T
  <2>1. ASSUME NEW t \in SUBSET S, Cardinality(t) = n + 1  PROVE h[t] \in Nat
    <3>1. CASE t = {}
      <4>1. h[t] = 0
        BY <1>1, <3>1
      <4> QED  BY <4>1
    <3>2. CASE t # {}
      <4>1. Picked(t) \in t /\ t \ {Picked(t)} \in SUBSET S
        BY <3>2, PickedIn
      <4>2. Cardinality(t \ {Picked(t)}) \in Nat /\ Cardinality(t \ {Picked(t)}) + 1 = n + 1
        BY <2>1, <4>1, Cardinalities
      <4>3. Cardinality(t \ {Picked(t)}) = n
        BY <4>2
      <4>4. h[t \ {Picked(t)}] \in Nat /\ w[Picked(t)] \in Nat
        BY <1>3, <4>1, <4>3
      <4>5. h[t] = w[Picked(t)] + h[t \ {Picked(t)}]
        BY <1>1, <3>2
      <4> QED  BY <4>4, <4>5
    <3> QED  BY <3>1, <3>2
  <2> QED  BY <2>1
<1>4. T = Nat
  <2> HIDE DEF T
  <2>1. T \in SUBSET Nat
    BY DEF T
  <2> QED  BY <1>2, <1>3, <2>1, NatSetInduction
<1>5. \A t \in SUBSET S : h[t] \in Nat
  BY <1>4, Cardinalities
<1> QED  BY <1>1, <1>5

(* Whichever element is taken first, the sum is the same.                   *)
AnyFirst(h, S, w) == \A t \in SUBSET S : \A x \in t : h[t] = w[x] + h[t \ {x}]

(* A sum that picks its elements in one order can be split off at any       *)
(* other.                                                                   *)
LEMMA SumWithout ==
    ASSUME NEW S, IsFiniteSet(S), NEW w \in [S -> Nat], NEW h, IsSum(h, S, w)
    PROVE  AnyFirst(h, S, w)
<1> DEFINE Right(t) == \A x \in t : h[t] = w[x] + h[t \ {x}]
           T == {n \in Nat : \A t \in SUBSET S : Cardinality(t) = n => Right(t)}
<1>1. /\ h \in [SUBSET S -> Nat]
      /\ \A t \in SUBSET S : t # {} => h[t] = w[Picked(t)] + h[t \ {Picked(t)}]
  <2>1. h \in [SUBSET S -> Nat] /\ Summed(h, S, w)
    BY SumType, SumSteps
  <2> QED  BY <2>1 DEF Summed
<1>2. 0 \in T
  <2>1. ASSUME NEW t \in SUBSET S, Cardinality(t) = 0  PROVE Right(t)
    <3>1. t = {}
      BY <2>1, FS_Subset, FS_EmptySet
    <3> QED  BY <3>1
  <2> QED  BY <2>1
<1>3. ASSUME NEW n \in T  PROVE n + 1 \in T
  <2>1. ASSUME NEW t \in SUBSET S, Cardinality(t) = n + 1, NEW x \in t
        PROVE  h[t] = w[x] + h[t \ {x}]
    <3> DEFINE y == Picked(t)
    <3>1. y \in t /\ h[t] = w[y] + h[t \ {y}]
      BY <1>1, PickedIn
    <3> HIDE DEF y
    <3>2. CASE x = y
      BY <3>1, <3>2
    <3>3. CASE x # y
      <4> DEFINE u == t \ {y}
                 v == t \ {x}
                 r == u \ {x}
      <4>1. u \in SUBSET S /\ v \in SUBSET S /\ r \in SUBSET S /\ r = v \ {y} /\ x \in u /\ y \in v
        BY <3>1, <3>3
      <4>2. Cardinality(u) = n /\ Cardinality(v) = n
        <5>1. /\ Cardinality(u) \in Nat /\ Cardinality(u) + 1 = n + 1
              /\ Cardinality(v) \in Nat /\ Cardinality(v) + 1 = n + 1
          BY <2>1, <3>1, <4>1, Cardinalities
        <5> QED  BY <5>1
      <4>3. Right(u) /\ Right(v)
        BY <1>3, <4>1, <4>2
      <4> HIDE DEF u, v
      <4>4. h[u] = w[x] + h[r] /\ h[v] = w[y] + h[r]
        BY <4>1, <4>3
      <4>5. h[t] = w[y] + h[u]
        BY <3>1 DEF u
      <4>6. w[x] \in Nat /\ w[y] \in Nat /\ h[r] \in Nat
        BY <1>1, <2>1, <3>1, <4>1
      <4> HIDE DEF r
      <4>7. h[t] = w[x] + h[v]
        BY <4>4, <4>5, <4>6
      <4> QED  BY <4>7 DEF v
    <3> QED  BY <3>2, <3>3
  <2> QED  BY <2>1
<1>4. T = Nat
  <2> HIDE DEF T
  <2>1. T \in SUBSET Nat
    BY DEF T
  <2> QED  BY <1>2, <1>3, <2>1, NatSetInduction
<1> QED  BY <1>4, Cardinalities DEF AnyFirst

(* The sequence order lists S without repetition.                           *)
Lists(order, S) ==
    /\ order \in Seq(S)
    /\ \A i, j \in 1..Len(order) : i # j => order[i] # order[j]
    /\ \A x \in S : \E i \in 1..Len(order) : order[i] = x

(* q adds up the weights along the sequence.                                *)
AddsUp(q, order, w) ==
    q[0] = 0 /\ \A i \in 1..Len(order) : q[i] = q[i - 1] + w[order[i]]

(* Adding up along a sequence that lists the set gives the sum over the     *)
(* set.                                                                     *)
LEMMA SumAlong ==
    ASSUME NEW S, IsFiniteSet(S), NEW w \in [S -> Nat], NEW h, IsSum(h, S, w),
           NEW order, Lists(order, S), NEW q, AddsUp(q, order, w)
    PROVE  q[Len(order)] = h[S]
<1> DEFINE n == Len(order)
           First(i) == {order[j] : j \in 1..i}
           T == {i \in Nat : i <= n => q[i] = h[First(i)]}
<1>0. n \in Nat /\ \A i \in 1..n : order[i] \in S
  BY LenProperties, ElementOfSeq DEF Lists
<1>1. h \in [SUBSET S -> Nat] /\ h[{}] = 0
  <2>1. h \in [SUBSET S -> Nat] /\ Summed(h, S, w)
    BY SumType, SumSteps
  <2> QED  BY <2>1 DEF Summed
<1>a. q[0] = 0 /\ \A i \in 1..Len(order) : q[i] = q[i - 1] + w[order[i]]
  BY DEF AddsUp
<1>b. \A t \in SUBSET S : \A x \in t : h[t] = w[x] + h[t \ {x}]
  <2>1. AnyFirst(h, S, w)
    BY SumWithout
  <2> QED  BY <2>1 DEF AnyFirst
<1>2. 0 \in T
  <2>1. First(0) = {}
    OBVIOUS
  <2> QED  BY <1>1, <1>a, <2>1
<1>3. ASSUME NEW i \in T  PROVE i + 1 \in T
  <2> SUFFICES ASSUME i + 1 <= n  PROVE q[i + 1] = h[First(i + 1)]
    OBVIOUS
  <2>1. q[i] = h[First(i)]
    BY <1>0, <1>3
  <2>2. i + 1 \in 1..n /\ (i + 1) - 1 = i
    BY <1>0
  <2>3. q[i + 1] = q[i] + w[order[i + 1]]
    BY <1>a, <2>2
  <2>4. /\ First(i + 1) \in SUBSET S /\ order[i + 1] \in First(i + 1)
        /\ First(i) = First(i + 1) \ {order[i + 1]}
    <3>1. \A j \in 1..(i + 1) : j \in 1..n
      BY <2>2
    <3>2. First(i + 1) \in SUBSET S /\ order[i + 1] \in First(i + 1)
      BY <1>0, <2>2, <3>1
    <3>3. \A j \in 1..i : j \in 1..n /\ j # i + 1
      BY <2>2
    <3>4. \A j \in 1..i : order[j] # order[i + 1]
      BY <2>2, <3>3 DEF Lists
    <3>5. 1..(i + 1) = (1..i) \cup {i + 1}
      OBVIOUS
    <3> QED  BY <3>2, <3>4, <3>5
  <2> HIDE DEF First
  <2>5. h[First(i + 1)] = w[order[i + 1]] + h[First(i)]
    BY <1>b, <2>4
  <2>6. w[order[i + 1]] \in Nat /\ h[First(i)] \in Nat
    BY <1>0, <1>1, <2>2, <2>4
  <2> QED  BY <2>1, <2>3, <2>5, <2>6
<1>4. T = Nat
  <2> HIDE DEF T
  <2>1. T \in SUBSET Nat
    BY DEF T
  <2> QED  BY <1>2, <1>3, <2>1, NatSetInduction
<1>5. First(n) = S
  <2>1. \A x \in S : \E i \in 1..n : order[i] = x
    BY DEF Lists
  <2> QED  BY <1>0, <2>1
<1>6. n \in T
  <2> HIDE DEF T
  <2> QED  BY <1>0, <1>4
<1> HIDE DEF First
<1>7. q[n] = h[First(n)]
  BY <1>0, <1>6
<1> QED  BY <1>5, <1>7

-----------------------------------------------------------------------------
(* The first pass of zccp_msg_encode counts what the second writes.         *)

(* Numbers and strings that are written.                                    *)
LEMMA NumbersWritten ==
    ASSUME NEW n \in Nat
    PROVE  /\ PUT_NUMBER1(n) \in Seq(Octet) /\ Len(PUT_NUMBER1(n)) = 1
           /\ PUT_NUMBER2(n) \in Seq(Octet) /\ Len(PUT_NUMBER2(n)) = 2
           /\ PUT_NUMBER4(n) \in Seq(Octet) /\ Len(PUT_NUMBER4(n)) = 4
<1> DEFINE a == n % 256
           b == (n \div 256) % 256
           c == (n \div 65536) % 256
           d == (n \div 16777216) % 256
<1>1. a \in Octet /\ b \in Octet /\ c \in Octet /\ d \in Octet
  BY SMT DEF Octet
<1>2. PUT_NUMBER1(n) = <<a>> /\ PUT_NUMBER2(n) = <<b, a>> /\ PUT_NUMBER4(n) = <<d, c, b, a>>
  BY SMT DEF PUT_NUMBER1, PUT_NUMBER2, PUT_NUMBER4
<1> HIDE DEF a, b, c, d
<1>3. /\ <<a>> \in Seq(Octet) /\ <<b, a>> \in Seq(Octet) /\ <<d, c, b, a>> \in Seq(Octet)
      /\ Len(<<a>>) = 1 /\ Len(<<b, a>>) = 2 /\ Len(<<d, c, b, a>>) = 4
  BY <1>1
<1> QED  BY <1>2, <1>3

(* A string takes its octets and those of its length.                       *)
LEMMA StringsWritten ==
    ASSUME NEW s \in Texts
    PROVE  /\ Len(s) \in Nat
           /\ PUT_STRING(s) \in Seq(Octet) /\ Len(PUT_STRING(s)) = 1 + Len(s)
           /\ PUT_LONGSTR(s) \in Seq(Octet) /\ Len(PUT_LONGSTR(s)) = 4 + Len(s)
<1>1. s \in Seq(Octet)
  <2>1. 1..255 \subseteq Octet
    BY DEF Octet
  <2>2. s \in Seq(1..255)
    BY DEF Texts
  <2> DEFINE T == 1..255
  <2>3. T \subseteq Octet /\ s \in Seq(T)
    BY <2>1, <2>2
  <2> HIDE DEF T
  <2> QED  BY <2>3, SeqMonotonic
<1>2. Len(s) \in Nat
  BY <1>1, LenProperties
<1> DEFINE x == PUT_NUMBER1(Len(s))
           y == PUT_NUMBER4(Len(s))
<1>3. x \in Seq(Octet) /\ Len(x) = 1 /\ y \in Seq(Octet) /\ Len(y) = 4
  BY <1>2, NumbersWritten
<1>4. PUT_STRING(s) = x \o s /\ PUT_LONGSTR(s) = y \o s
  BY DEF PUT_STRING, PUT_LONGSTR
<1> HIDE DEF x, y
<1>5. /\ x \o s \in Seq(Octet) /\ Len(x \o s) = Len(x) + Len(s)
      /\ y \o s \in Seq(Octet) /\ Len(y \o s) = Len(y) + Len(s)
  BY <1>1, <1>3, ConcatProperties
<1> QED  BY <1>2, <1>3, <1>4, <1>5

(* An order of a finite set lists it.                                       *)
LEMMA OrderLists ==
    ASSUME NEW S, IsFiniteSet(S), NEW order \in SetToSeqs(S)
    PROVE  Lists(order, S) /\ DOMAIN order = 1..Len(order)
<1> DEFINE n == Cardinality(S)
           D == 1..n
<1>1. n \in Nat
  BY FS_CardinalityType
<1>2. order \in [D -> S] /\ \A i, j \in D : i # j => order[i] # order[j]
  BY DEF SetToSeqs
<1>3. order \in Seq(S) /\ Len(order) = n
  BY <1>1, <1>2
<1>4. IsFiniteSet(D) /\ Cardinality(D) = n
  BY <1>1, FS_Interval
<1> HIDE DEF D
<1>5. order \in Injection(D, S)
  BY <1>2 DEF Injection, IsInjective
<1>6. order \in Surjection(D, S)
  BY <1>4, <1>5, FS_Injection
<1>7. \A x \in S : \E i \in D : order[i] = x
  BY <1>6 DEF Surjection
<1> QED  BY <1>1, <1>2, <1>3, <1>7 DEF Lists, D

(* What is written item by item takes the sum of what the items take.       *)
Writes(seqs, order, w) ==
    /\ Len(seqs) = Len(order)
    /\ \A i \in 1..Len(order) : Len(seqs[i]) = w[order[i]]

(* The length of a flattened sequence is the sum of the weights of its      *)
(* items.                                                                   *)
LEMMA FlattenLength ==
    ASSUME NEW S, IsFiniteSet(S), NEW w \in [S -> Nat], NEW h, IsSum(h, S, w),
           NEW order, Lists(order, S), NEW seqs \in Seq(Seq(Octet)), Writes(seqs, order, w)
    PROVE  FlattenSeq(seqs) \in Seq(Octet) /\ Len(FlattenSeq(seqs)) = h[S]
<1> DEFINE n == Len(order)
           V == Seq(Octet)
<1>1. n \in Nat /\ \A i \in 1..n : seqs[i] \in V
  BY LenProperties, ElementOfSeq DEF Lists, Writes
<1>2. PICK p \in [0..Len(seqs) -> Seq(Octet)] :
              /\ p[0] = <<>> /\ p[Len(seqs)] = FlattenSeq(seqs)
              /\ \A i \in 1..Len(seqs) : p[i] = p[i - 1] \o seqs[i]
  BY FlattenSteps
<1>3. /\ \A i \in 0..n : p[i] \in V
      /\ p[0] = <<>> /\ p[n] = FlattenSeq(seqs)
      /\ \A i \in 1..n : p[i] = p[i - 1] \o seqs[i]
  BY <1>2 DEF Writes
<1> DEFINE q == [i \in 0..n |-> Len(p[i])]
<1>4. q[0] = 0 /\ q[n] = Len(FlattenSeq(seqs)) /\ FlattenSeq(seqs) \in V
  BY <1>1, <1>3
<1>5. ASSUME NEW i \in 1..n  PROVE q[i] = q[i - 1] + w[order[i]]
  <2>1. i - 1 \in 0..n /\ i \in 0..n
    BY <1>1
  <2>2. p[i] = p[i - 1] \o seqs[i] /\ p[i - 1] \in V /\ seqs[i] \in V
    BY <1>1, <1>3, <2>1
  <2> HIDE DEF V
  <2>3. Len(p[i]) = Len(p[i - 1]) + Len(seqs[i])
    BY <2>2, ConcatProperties DEF V
  <2>4. Len(seqs[i]) = w[order[i]]
    BY DEF Writes
  <2> QED  BY <2>1, <2>3, <2>4
<1> HIDE DEF q
<1>6. AddsUp(q, order, w)
  BY <1>4, <1>5 DEF AddsUp
<1>7. q[Len(order)] = h[S]
  BY <1>6, SumAlong
<1> QED  BY <1>4, <1>7

(* headers_bytes is the sum over the entries ...                            *)
EntrySizes(d) == [k \in DOMAIN d |-> 1 + Len(k) + 4 + Len(d[k])]

(* The sizes of the entries are natural numbers; names and values are C     *)
(* strings.                                                                 *)
LEMMA EntrySizesType ==
    ASSUME NEW d \in Dicts
    PROVE  /\ IsFiniteSet(DOMAIN d) /\ EntrySizes(d) \in [DOMAIN d -> Nat]
           /\ \A k \in DOMAIN d : k \in Texts /\ d[k] \in Texts
<1>1. DOMAIN d \in SUBSET Texts /\ d \in [DOMAIN d -> Texts] /\ IsFiniteSet(DOMAIN d)
  BY DEF Dicts
<1>2. \A k \in DOMAIN d : Len(k) \in Nat /\ Len(d[k]) \in Nat
  BY <1>1, StringsWritten
<1> QED  BY <1>1, <1>2 DEF EntrySizes

(* ... namely what one pass of zhash_foreach adds up.                       *)
LEMMA HeadersBytes ==
    ASSUME NEW d \in Dicts
    PROVE  \E h : IsSum(h, DOMAIN d, EntrySizes(d)) /\ headers_bytes(d) = h[DOMAIN d]
<1> DEFINE S == DOMAIN d
           w == EntrySizes(d)
           Size(k) == 1 + Len(k) + 4 + Len(d[k])
           IsIt(h) == h = [t \in SUBSET S |-> IF t = {} THEN 0
                              ELSE Size(CHOOSE x \in t : TRUE) + h[t \ {CHOOSE x \in t : TRUE}]]
           fold == CHOOSE h : IsIt(h)
<1>1. headers_bytes(d) = fold[S]
  BY DEF headers_bytes, MapThenSumSet, MapThenFoldSet
<1>2. \A k \in S : w[k] = Size(k)
  BY DEF EntrySizes
<1>3. ASSUME NEW h  PROVE IsIt(h) <=> IsSum(h, S, w)
  <2> DEFINE f == [t \in SUBSET S |-> IF t = {} THEN 0 ELSE w[Picked(t)] + h[t \ {Picked(t)}]]
             g == [t \in SUBSET S |-> IF t = {} THEN 0
                                      ELSE Size(Picked(t)) + h[t \ {Picked(t)}]]
  <2>1. (IsSum(h, S, w) <=> h = f) /\ (IsIt(h) <=> h = g)
    BY DEF IsSum, Picked
  <2> HIDE DEF Size, IsIt
  <2>2. ASSUME NEW t \in SUBSET S, t # {}  PROVE w[Picked(t)] = Size(Picked(t))
    BY <1>2, <2>2, PickedIn
  <2>3. f = g
    BY <2>2
  <2> QED  BY <2>1, <2>3
<1>4. \E h : IsSum(h, S, w)
  BY EntrySizesType, SumExists
<1> HIDE DEF IsIt
<1>5. IsIt(fold)
  BY <1>3, <1>4
<1> QED  BY <1>1, <1>3, <1>5

(* PutEntries writes four octets and what headers_bytes counts.             *)
LEMMA EntriesWritten ==
    ASSUME NEW d \in Dicts, NEW order \in SetToSeqs(DOMAIN d)
    PROVE  /\ PutEntries(d, order) \in Seq(Octet)
           /\ Len(PutEntries(d, order)) = 4 + headers_bytes(d) /\ headers_bytes(d) \in Nat
<1> DEFINE S == DOMAIN d
           w == EntrySizes(d)
           n == Len(order)
           entry(i) == PUT_STRING(order[i]) \o PUT_LONGSTR(d[order[i]])
           seqs == [i \in DOMAIN order |-> entry(i)]
           count == PUT_NUMBER4(n)
<1>1. IsFiniteSet(S) /\ w \in [S -> Nat] /\ \A k \in S : k \in Texts /\ d[k] \in Texts
  BY EntrySizesType
<1>2. PICK h : IsSum(h, S, w) /\ headers_bytes(d) = h[S]
  BY HeadersBytes
<1>3. Lists(order, S) /\ DOMAIN order = 1..n
  BY <1>1, OrderLists
<1>4. n \in Nat /\ \A i \in 1..n : order[i] \in S
  BY <1>3, LenProperties, ElementOfSeq DEF Lists
<1>5. ASSUME NEW i \in 1..n  PROVE entry(i) \in Seq(Octet) /\ Len(entry(i)) = w[order[i]]
  <2> DEFINE k == order[i]
             x == PUT_STRING(k)
             y == PUT_LONGSTR(d[k])
  <2>1. k \in S /\ k \in Texts /\ d[k] \in Texts
    BY <1>1, <1>4
  <2>2. x \in Seq(Octet) /\ Len(x) = 1 + Len(k) /\ y \in Seq(Octet) /\ Len(y) = 4 + Len(d[k])
    BY <2>1, StringsWritten
  <2>3. Len(k) \in Nat /\ Len(d[k]) \in Nat
    BY <2>1, StringsWritten
  <2>4. w[k] = 1 + Len(k) + 4 + Len(d[k])
    BY <2>1 DEF EntrySizes
  <2>5. entry(i) = x \o y
    OBVIOUS
  <2> HIDE DEF k, x, y, entry, w
  <2>6. x \o y \in Seq(Octet) /\ Len(x \o y) = Len(x) + Len(y)
    BY <2>2, ConcatProperties
  <2>7. entry(i) \in Seq(Octet) /\ Len(entry(i)) = w[k]
    <3> DEFINE a == Len(k)  b == Len(d[k])
    <3>1. a \in Nat /\ b \in Nat /\ Len(x) = 1 + a /\ Len(y) = 4 + b /\ w[k] = 1 + a + 4 + b
      BY <2>2, <2>3, <2>4
    <3> HIDE DEF a, b
    <3>2. w[k] = Len(x) + Len(y)
      BY <3>1
    <3> QED  BY <2>5, <2>6, <3>2
  <2> QED  BY <2>7 DEF k
<1>6. seqs \in Seq(Seq(Octet)) /\ Len(seqs) = n /\ \A i \in 1..n : seqs[i] = entry(i)
  <2> HIDE DEF entry
  <2>1. seqs = [i \in 1..n |-> entry(i)] /\ \A i \in 1..n : entry(i) \in Seq(Octet)
    BY <1>3, <1>5
  <2> HIDE DEF seqs, n
  <2> QED  BY <1>4, <2>1
<1>7. PutEntries(d, order) = count \o FlattenSeq(seqs)
  BY DEF PutEntries
<1>8. count \in Seq(Octet) /\ Len(count) = 4
  BY <1>4, NumbersWritten
<1> HIDE DEF seqs, w, count, entry, S
<1>9. Writes(seqs, order, w)
  BY <1>5, <1>6 DEF Writes
<1>10. FlattenSeq(seqs) \in Seq(Octet) /\ Len(FlattenSeq(seqs)) = h[S]
  BY <1>1, <1>2, <1>3, <1>6, <1>9, FlattenLength
<1>11. h[S] \in Nat
  <2>1. Len(FlattenSeq(seqs)) \in Nat
    BY <1>10, LenProperties
  <2> QED  BY <1>10, <2>1
<1>12. /\ count \o FlattenSeq(seqs) \in Seq(Octet)
       /\ Len(count \o FlattenSeq(seqs)) = Len(count) + Len(FlattenSeq(seqs))
  BY <1>8, <1>10, ConcatProperties
<1> QED  BY <1>2, <1>7, <1>8, <1>10, <1>11, <1>12

(* Each field takes what the first pass counts for it.                      *)
LEMMA FieldWritten ==
    ASSUME NEW m \in Objects, NEW order \in Orders(m), NEW f \in FieldNames
    PROVE  /\ PutField(m, f, order) \in Seq(Octet)
           /\ Len(PutField(m, f, order)) = FieldSize(m, f) /\ FieldSize(m, f) \in Nat
<1>0. 0 \in Nat
  OBVIOUS
<1> DEFINE zero1 == PUT_NUMBER1(0)
           zero4 == PUT_NUMBER4(0)
<1>1. zero1 \in Seq(Octet) /\ Len(zero1) = 1 /\ zero4 \in Seq(Octet) /\ Len(zero4) = 4
  BY <1>0, NumbersWritten
<1>2. CASE f = "headers"
  <2>1. CASE m.headers = NULL
    <3>1. PutField(m, f, order) = zero4 /\ FieldSize(m, f) = 4 + 0
      BY <1>2, <2>1 DEF PutField, FieldSize
    <3> HIDE DEF zero4
    <3> QED  BY <1>1, <3>1
  <2>2. CASE m.headers # NULL
    <3> DEFINE d == m.headers
    <3>1. d \in Dicts /\ order \in SetToSeqs(DOMAIN d)
      BY <2>2 DEF Objects, Orders
    <3>2. PutField(m, f, order) = PutEntries(d, order) /\ FieldSize(m, f) = 4 + headers_bytes(d)
      BY <1>2, <2>2 DEF PutField, FieldSize
    <3> HIDE DEF d
    <3>3. /\ PutEntries(d, order) \in Seq(Octet)
          /\ Len(PutEntries(d, order)) = 4 + headers_bytes(d) /\ headers_bytes(d) \in Nat
      BY <3>1, EntriesWritten
    <3> QED  BY <3>2, <3>3
  <2> QED  BY <2>1, <2>2
<1>3. CASE f = "content"
  <2>1. PutField(m, f, order) = <<>> /\ FieldSize(m, f) = 0
    BY <1>3 DEF PutField, FieldSize
  <2> QED  BY <2>1
<1>4. CASE f \in StringFields
  <2>1. CASE m[f] = NULL
    <3>1. PutField(m, f, order) = zero1 /\ FieldSize(m, f) = 1 + 0
      BY <1>4, <2>1 DEF PutField, FieldSize, StringFields
    <3> HIDE DEF zero1
    <3> QED  BY <1>1, <3>1
  <2>2. CASE m[f] # NULL
    <3> DEFINE s == m[f]
    <3>1. s \in Texts
      BY <1>4, <2>2 DEF Objects, StringFields
    <3>2. PutField(m, f, order) = PUT_STRING(s) /\ FieldSize(m, f) = 1 + Len(s)
      BY <1>4, <2>2 DEF PutField, FieldSize, StringFields
    <3> HIDE DEF s
    <3>3. /\ Len(s) \in Nat /\ PUT_STRING(s) \in Seq(Octet) /\ Len(PUT_STRING(s)) = 1 + Len(s)
      BY <3>1, StringsWritten
    <3> QED  BY <3>2, <3>3
  <2> QED  BY <2>1, <2>2
<1> QED  BY <1>2, <1>3, <1>4 DEF FieldNames

(* No message names a field twice.                                          *)
LEMMA LayoutLists ==
    ASSUME NEW id \in MessageIds
    PROVE  /\ Lists(Layout[id], FieldsOf(id)) /\ DOMAIN Layout[id] = 1..Len(Layout[id])
           /\ IsFiniteSet(FieldsOf(id)) /\ FieldsOf(id) \subseteq FieldNames
<1> DEFINE seq == Layout[id]
           S == FieldsOf(id)
<1>1. seq \in Seq(FieldNames) /\ id \in 1..12
  BY LayoutFields
<1>2. S = {seq[i] : i \in DOMAIN seq}
  BY DEF FieldsOf, ToSet
<1>3. DOMAIN seq = 1..Len(seq) /\ Len(seq) \in Nat /\ \A i \in 1..Len(seq) : seq[i] \in FieldNames
  BY <1>1, LenProperties, ElementOfSeq
<1>4. \A i, j \in 1..Len(seq) : i # j => seq[i] # seq[j]
  <2> DEFINE none == <<>>
             headers == <<"headers">>
             hello == <<"identifier", "headers">>
             subscribe == <<"expression", "headers">>
             publish == <<"address", "headers", "content">>
             deliver == <<"sender", "address", "headers", "content">>
             Distinct(s) == \A i, j \in 1..Len(s) : i # j => s[i] # s[j]
  <2>1. /\ Distinct(none) /\ Distinct(headers) /\ Distinct(hello) /\ Distinct(subscribe)
        /\ Distinct(publish) /\ Distinct(deliver)
    OBVIOUS
  <2>2. Layout[id] \in {none, headers, hello, subscribe, publish, deliver}
    <3>1. Layout = <<hello, headers, subscribe, none, publish, publish, deliver, none, headers,
                     none, none, none>>
      BY DEF Layout
    <3> HIDE DEF none, headers, hello, subscribe, publish, deliver
    <3> QED  BY <1>1, <3>1
  <2> HIDE DEF none, headers, hello, subscribe, publish, deliver
  <2>3. Distinct(seq)
    <3> HIDE DEF Distinct
    <3> QED  BY <2>1, <2>2
  <2> QED  BY <2>3
<1> HIDE DEF seq
<1>5. S \subseteq FieldNames
  BY <1>2, <1>3
<1>6. IsFiniteSet(FieldNames)
  <2> DEFINE A == {} \cup {"headers"}
             B == A \cup {"content"}
             C == B \cup {"identifier"}
             D == C \cup {"expression"}
             E == D \cup {"address"}
             F == E \cup {"sender"}
  <2>1. F = FieldNames
    BY DEF FieldNames, StringFields
  <2>2. IsFiniteSet(A)
    BY FS_EmptySet, FS_AddElement
  <2>3. IsFiniteSet(B)
    BY <2>2, FS_AddElement
  <2>4. IsFiniteSet(C)
    BY <2>3, FS_AddElement
  <2>5. IsFiniteSet(D)
    BY <2>4, FS_AddElement
  <2>6. IsFiniteSet(E)
    BY <2>5, FS_AddElement
  <2>7. IsFiniteSet(F)
    BY <2>6, FS_AddElement
  <2> QED  BY <2>1, <2>7
<1>7. IsFiniteSet(S)
  BY <1>5, <1>6, FS_Subset
<1>8. Lists(seq, S)
  <2>1. \A i \in 1..Len(seq) : seq[i] \in S
    BY <1>2, <1>3
  <2>2. seq \in Seq(S)
    <3>1. seq = [i \in 1..Len(seq) |-> seq[i]]
      BY <1>1, LenProperties
    <3> DEFINE n == Len(seq)
               g == [i \in 1..n |-> seq[i]]
    <3>2. n \in Nat /\ \A i \in 1..n : seq[i] \in S
      BY <1>3, <2>1
    <3> HIDE DEF n, S
    <3>3. g \in Seq(S)
      BY <3>2
    <3> QED  BY <3>1, <3>3 DEF n
  <2> QED  BY <1>2, <1>3, <1>4, <2>2 DEF Lists
<1> QED  BY <1>3, <1>5, <1>7, <1>8 DEF seq

(* What the first pass counts, field by field.                              *)
FieldSizes(m) == [f \in FieldsOf(m.id) |-> FieldSize(m, f)]

(* frame_size is the three octets of signature and id and the sum over the  *)
(* fields.                                                                  *)
LEMMA FrameSize ==
    ASSUME NEW m, IsFiniteSet(FieldsOf(m.id)), \A f \in FieldsOf(m.id) : FieldSize(m, f) \in Nat
    PROVE  /\ FieldSizes(m) \in [FieldsOf(m.id) -> Nat]
           /\ \E h : IsSum(h, FieldsOf(m.id), FieldSizes(m)) /\ frame_size(m) = 2 + 1 + h[FieldsOf(m.id)]
<1> DEFINE S == FieldsOf(m.id)
           w == FieldSizes(m)
           Size(k) == FieldSize(m, k)
           IsIt(h) == h = [t \in SUBSET S |-> IF t = {} THEN 0
                              ELSE Size(CHOOSE x \in t : TRUE) + h[t \ {CHOOSE x \in t : TRUE}]]
           fold == CHOOSE h : IsIt(h)
<1>0. w \in [S -> Nat]
  BY DEF FieldSizes
<1>1. frame_size(m) = 2 + 1 + fold[S]
  BY DEF frame_size, MapThenSumSet, MapThenFoldSet
<1>2. \A k \in S : w[k] = Size(k)
  BY DEF FieldSizes
<1>3. ASSUME NEW h  PROVE IsIt(h) <=> IsSum(h, S, w)
  <2> DEFINE f == [t \in SUBSET S |-> IF t = {} THEN 0 ELSE w[Picked(t)] + h[t \ {Picked(t)}]]
             g == [t \in SUBSET S |-> IF t = {} THEN 0
                                      ELSE Size(Picked(t)) + h[t \ {Picked(t)}]]
  <2>1. (IsSum(h, S, w) <=> h = f) /\ (IsIt(h) <=> h = g)
    BY DEF IsSum, Picked
  <2> HIDE DEF Size, IsIt
  <2>2. ASSUME NEW t \in SUBSET S, t # {}  PROVE w[Picked(t)] = Size(Picked(t))
    BY <1>2, <2>2, PickedIn
  <2>3. f = g
    BY <2>2
  <2> QED  BY <2>1, <2>3
<1>4. \E h : IsSum(h, S, w)
  BY <1>0, SumExists
<1> HIDE DEF IsIt
<1>5. IsIt(fold)
  BY <1>3, <1>4
<1> QED  BY <1>0, <1>1, <1>3, <1>5

(* The second pass writes as many octets as the first counts.               *)
LEMMA FrameWritten ==
    ASSUME NEW m \in Objects, m.id \in MessageIds, NEW order \in Orders(m)
    PROVE  Serialized(m, order) \in Seq(Octet) /\ Len(Serialized(m, order)) = frame_size(m)
<1> DEFINE layout == Layout[m.id]
           S == FieldsOf(m.id)
           n == Len(layout)
           field(i) == PutField(m, layout[i], order)
           seqs == [i \in DOMAIN layout |-> field(i)]
           w == FieldSizes(m)
           start == Signature \o PUT_NUMBER1(m.id)
<1>1. Lists(layout, S) /\ DOMAIN layout = 1..n /\ IsFiniteSet(S) /\ S \subseteq FieldNames
  BY LayoutLists
<1>2. n \in Nat /\ \A i \in 1..n : layout[i] \in S
  BY <1>1, LenProperties, ElementOfSeq DEF Lists
<1>3. \A f \in S : /\ PutField(m, f, order) \in Seq(Octet)
                   /\ Len(PutField(m, f, order)) = FieldSize(m, f) /\ FieldSize(m, f) \in Nat
  BY <1>1, FieldWritten
<1>4. w \in [S -> Nat]
      /\ \E h : IsSum(h, S, w) /\ frame_size(m) = 2 + 1 + h[S]
  BY <1>1, <1>3, FrameSize
<1>5. PICK h : IsSum(h, S, w) /\ frame_size(m) = 2 + 1 + h[S]
  BY <1>4
<1>6. \A i \in 1..n : field(i) \in Seq(Octet) /\ Len(field(i)) = w[layout[i]]
  BY <1>2, <1>3 DEF FieldSizes
<1>7. Serialized(m, order) = start \o FlattenSeq(seqs)
  BY DEF Serialized
<1> HIDE DEF field, w, S, layout
<1>8. seqs \in Seq(Seq(Octet)) /\ Len(seqs) = n /\ \A i \in 1..n : seqs[i] = field(i)
  <2>1. seqs = [i \in 1..n |-> field(i)] /\ \A i \in 1..n : field(i) \in Seq(Octet)
    BY <1>1, <1>6
  <2> HIDE DEF seqs, n
  <2> QED  BY <1>2, <2>1
<1> HIDE DEF seqs
<1>9. Writes(seqs, layout, w)
  BY <1>6, <1>8 DEF Writes
<1>10. FlattenSeq(seqs) \in Seq(Octet) /\ Len(FlattenSeq(seqs)) = h[S]
  BY <1>1, <1>4, <1>5, <1>8, <1>9, FlattenLength
<1>11. start \in Seq(Octet) /\ Len(start) = 2 + 1
  <2> DEFINE x == Signature
             y == PUT_NUMBER1(m.id)
  <2>1. m.id \in Nat /\ 43690 \in Nat
    <3>1. m.id \in 1..12
      BY LayoutFields
    <3> QED  BY <3>1
  <2>2. x \in Seq(Octet) /\ Len(x) = 2 /\ y \in Seq(Octet) /\ Len(y) = 1
    BY <2>1, NumbersWritten DEF Signature
  <2> HIDE DEF x, y
  <2>3. x \o y \in Seq(Octet) /\ Len(x \o y) = Len(x) + Len(y)
    BY <2>2, ConcatProperties
  <2> QED  BY <2>2, <2>3 DEF x, y
<1> HIDE DEF start
<1>12. /\ start \o FlattenSeq(seqs) \in Seq(Octet)
       /\ Len(start \o FlattenSeq(seqs)) = Len(start) + Len(FlattenSeq(seqs))
  BY <1>10, <1>11, ConcatProperties
<1> QED  BY <1>5, <1>7, <1>10, <1>11, <1>12

-----------------------------------------------------------------------------
(* The specification: types, and frames that fit.                           *)

(* What zccp_msg_encode yields is a zmsg_t of octets.                       *)
LEMMA EncodeType ==
    ASSUME NEW m \in Objects, m.id \in MessageIds, NEW order \in Orders(m)
    PROVE  zccp_msg_encode(m, order) \in Frames
<1> DEFINE o == Serialized(m, order)
           c == ContentFrames(m)
           none == <<>>
<1>1. o \in Seq(Octet)
  BY FrameWritten
<1>2. none \in Seq(Octet)
  OBVIOUS
<1>3. m.content \in Frames \cup {NULL}
  BY DEF Objects
<1>4. c = IF "content" \notin FieldsOf(m.id) THEN <<>>
          ELSE IF m.content = NULL THEN <<none>> ELSE m.content
  BY DEF ContentFrames
<1>5. zccp_msg_encode(m, order) = <<o>> \o c
  BY DEF zccp_msg_encode
<1> HIDE DEF o, c, none
<1>6. <<>> \in Frames /\ <<none>> \in Frames /\ <<o>> \in Frames
  BY <1>1, <1>2 DEF Frames
<1>7. c \in Frames
  BY <1>3, <1>4, <1>6
<1>8. <<o>> \o c \in Frames
  BY <1>6, <1>7, ConcatProperties DEF Frames
<1> QED  BY <1>5, <1>8

(* A duplicate is an object with the same id.                               *)
LEMMA DupType ==
    ASSUME NEW m \in Objects
    PROVE  zccp_msg_dup(m) \in Objects /\ zccp_msg_dup(m).id = m.id
BY DEF zccp_msg_dup, Objects

(* Type correctness in the form that is inductive: complete objects, and    *)
(* frames of octets.                                                        *)
MsgInv ==
    /\ object \in [Ends -> Objects \cup {NULL}]
    /\ stream \in [Ends -> Seq(Frames)]

(* What applications and other programs supply is of these types.           *)
LEMMA Inputs ==
    /\ Strings \subseteq Texts /\ Names \subseteq Texts /\ Values \subseteq Texts
    /\ Dictionaries \subseteq Dicts /\ Bodies \subseteq Frames /\ Foreign \subseteq Frames
<1> DEFINE P == 1..255
           Q == P \ {37}
<1>0. Q \subseteq P
  OBVIOUS
<1> HIDE DEF P, Q
<1>a. ASSUME NEW s \in Seq(Q)  PROVE s \in Seq(P)
  <2>1. Len(s) \in Nat /\ s \in [1..Len(s) -> Q]
    BY LenProperties
  <2>2. s \in [1..Len(s) -> P]
    BY <1>0, <2>1
  <2> QED  BY <2>1, <2>2, SeqDef
<1>b. Seq(Q) \subseteq Texts
  <2>1. \A s \in Seq(Q) : s \in Seq(P)
    BY <1>a
  <2> QED  BY <2>1 DEF P, Texts
<1>1. /\ Strings \cup Names \cup Values \subseteq Texts
      /\ \A d \in Dictionaries :
            /\ IsFiniteSet(DOMAIN d) /\ d = [k \in DOMAIN d |-> d[k]]
            /\ \A k \in DOMAIN d : k \in Texts /\ d[k] \in Texts
      /\ Bodies \subseteq Frames
      /\ Foreign \subseteq Frames
  <2>1. Strings \cup Values \subseteq Seq(Q) /\ Names \subseteq Texts
    BY MsgAssumption DEF MsgAssumption, Texts, P, Q
  <2>2. /\ \A d \in Dictionaries :
              /\ IsFiniteSet(DOMAIN d) /\ d = [k \in DOMAIN d |-> d[k]]
              /\ \A k \in DOMAIN d : k \in Texts /\ d[k] \in Texts
        /\ Bodies \subseteq Frames
        /\ Foreign \subseteq Frames
    BY MsgAssumption DEF MsgAssumption, Texts, Frames
  <2> QED  BY <1>b, <2>1, <2>2
<1>2. ASSUME NEW d \in Dictionaries  PROVE d \in Dicts
  <2>1. DOMAIN d \in SUBSET Texts /\ IsFiniteSet(DOMAIN d) /\ d \in [DOMAIN d -> Texts]
    BY <1>1
  <2> QED  BY <2>1 DEF Dicts
<1> QED  BY <1>1, <1>2

(* Replacing the object at hand by an object, or destroying it, keeps the   *)
(* types.                                                                   *)
LEMMA ComposeKeeps ==
    ASSUME MsgInv, NEW e \in Ends, NEW m \in Objects \cup {NULL}, Compose(e, m)
    PROVE  MsgInv'
BY DEF MsgInv, Compose

(* Sending an object of a known id puts frames of octets on the stream.     *)
LEMMA TransmitKeeps ==
    ASSUME MsgInv, NEW e \in Ends, NEW m \in Objects, m.id \in MessageIds, Transmit(e, m)
    PROVE  stream' \in [Ends -> Seq(Frames)]
<1>1. PICK order \in Orders(m) :
         stream' = [stream EXCEPT ![Other(e)] = Append(@, zccp_msg_encode(m, order))]
  BY DEF Transmit
<1>2. zccp_msg_encode(m, order) \in Frames
  BY EncodeType
<1>3. Other(e) \in Ends
  BY DEF Other, Ends
<1>4. stream[Other(e)] \in Seq(Frames)
  BY <1>3 DEF MsgInv
<1>5. Append(stream[Other(e)], zccp_msg_encode(m, order)) \in Seq(Frames)
  BY <1>2, <1>4, AppendProperties
<1> QED  BY <1>1, <1>5 DEF MsgInv

(* A setter that gets a value of its field's type keeps the types.          *)
LEMMA SetFieldKeeps ==
    ASSUME MsgInv, NEW e \in Ends, NEW f, NEW value, SetField(e, f, value),
           \/ f \in StringFields /\ value \in Texts
           \/ f = "headers" /\ value \in Dicts
           \/ f = "content" /\ value \in Frames
    PROVE  MsgInv'
<1>1. object[e] \in Objects /\ Compose(e, [object[e] EXCEPT ![f] = value])
  BY DEF SetField, MsgInv
<1>2. [object[e] EXCEPT ![f] = value] \in Objects
  BY <1>1 DEF Objects, StringFields
<1> QED  BY <1>1, <1>2, ComposeKeeps

(* The hash table that headers_insert creates is an empty dictionary.       *)
LEMMA EmptyDict == <<>> \in Dicts
<1>1. <<>> = [x \in {} |-> x] /\ DOMAIN <<>> = {}
  OBVIOUS
<1>2. IsFiniteSet({}) /\ {} \in SUBSET Texts /\ <<>> \in [{} -> Texts]
  BY <1>1, FS_EmptySet
<1> QED  BY <1>1, <1>2 DEF Dicts

(* Every operation keeps the types.                                         *)
LEMMA MsgStep ==
    ASSUME MsgInv, [Next]_msgVars
    PROVE  MsgInv'
<1> SUFFICES ASSUME Next  PROVE MsgInv'
  BY DEF msgVars, MsgInv
<1> USE Inputs
<1>1. ASSUME NEW e \in Ends, NEW id \in MessageIds \cup {0}, New(e, id)  PROVE MsgInv'
  BY <1>1, NewType, ComposeKeeps DEF New
<1>2. ASSUME NEW e \in Ends, NEW id \in MessageIds \cup {0}, SetId(e, id)  PROVE MsgInv'
  <2>1. object[e] \in Objects /\ Compose(e, [object[e] EXCEPT !.id = id])
    BY <1>2 DEF SetId, MsgInv
  <2>2. [object[e] EXCEPT !.id = id] \in Objects
    BY <2>1 DEF Objects
  <2> QED  BY <2>1, <2>2, ComposeKeeps
<1>3. ASSUME NEW e \in Ends, NEW s \in Strings,
             \/ zccp_msg_set_identifier(e, s) \/ zccp_msg_set_expression(e, s)
             \/ zccp_msg_set_address(e, s) \/ zccp_msg_set_sender(e, s)
      PROVE  MsgInv'
  <2>1. PICK f \in StringFields : SetField(e, f, s)
    BY <1>3 DEF StringFields, zccp_msg_set_identifier, zccp_msg_set_expression,
                zccp_msg_set_address, zccp_msg_set_sender
  <2>2. s \in Texts
    OBVIOUS
  <2> QED  BY <2>1, <2>2, SetFieldKeeps
<1>4. ASSUME NEW e \in Ends, NEW d \in Dictionaries, zccp_msg_set_headers(e, d)  PROVE MsgInv'
  BY <1>4, SetFieldKeeps DEF zccp_msg_set_headers
<1>5. ASSUME NEW e \in Ends, NEW b \in Bodies, zccp_msg_set_content(e, b)  PROVE MsgInv'
  BY <1>5, SetFieldKeeps DEF zccp_msg_set_content
<1>6. ASSUME NEW e \in Ends, NEW k \in Names, NEW v \in Values, zccp_msg_headers_insert(e, k, v)
      PROVE  MsgInv'
  <2> DEFINE d == object[e].headers
             old == IF d = NULL THEN <<>> ELSE d
             new == zhash_update(old, k, v)
  <2>1. SetField(e, "headers", new)
    BY <1>6 DEF zccp_msg_headers_insert
  <2>2. object[e] \in Objects
    BY <2>1 DEF SetField, MsgInv
  <2>3. old \in Dicts
    BY <2>2, EmptyDict DEF Objects
  <2> HIDE DEF old
  <2>4. new \in Dicts
    BY <2>3, DictWith
  <2> HIDE DEF new
  <2> QED  BY <2>1, <2>4, SetFieldKeeps
<1>7. ASSUME NEW e \in Ends, zccp_msg_get_headers(e) \/ zccp_msg_get_content(e)  PROVE MsgInv'
  <2>1. PICK f \in {"headers", "content"} : HandOver(e, f)
    BY <1>7 DEF zccp_msg_get_headers, zccp_msg_get_content
  <2>2. object[e] \in Objects /\ Compose(e, [object[e] EXCEPT ![f] = NULL])
    BY <2>1 DEF HandOver, MsgInv
  <2>3. [object[e] EXCEPT ![f] = NULL] \in Objects
    BY <2>2 DEF Objects
  <2> QED  BY <2>2, <2>3, ComposeKeeps
<1>8. ASSUME NEW e \in Ends, zccp_msg_set_routing_id(e)  PROVE MsgInv'
  <2>1. object[e] \in Objects /\ Compose(e, [object[e] EXCEPT !.routing_id = RoutingId])
    BY <1>8 DEF zccp_msg_set_routing_id, MsgInv
  <2>2. [object[e] EXCEPT !.routing_id = RoutingId] \in Objects
    BY <2>1 DEF Objects
  <2> QED  BY <2>1, <2>2, ComposeKeeps
<1>9. ASSUME NEW e \in Ends, Duplicate(e)  PROVE MsgInv'
  <2>1. object[e] \in Objects /\ Compose(e, zccp_msg_dup(object[e]))
    BY <1>9 DEF Duplicate, MsgInv
  <2> QED  BY <2>1, DupType, ComposeKeeps
<1>10. ASSUME NEW e \in Ends, Destroy(e)  PROVE MsgInv'
  BY <1>10, ComposeKeeps DEF Destroy
<1>11. ASSUME NEW e \in Ends, zccp_msg_send(e)  PROVE MsgInv'
  <2>1. object[e] \in Objects /\ object[e].id \in MessageIds /\ Transmit(e, object[e])
    BY <1>11 DEF zccp_msg_send, Sendable, MsgInv
  <2>2. stream' \in [Ends -> Seq(Frames)]
    BY <2>1, TransmitKeeps
  <2>3. object' \in [Ends -> Objects \cup {NULL}]
    BY <1>11 DEF zccp_msg_send, MsgInv
  <2> QED  BY <2>2, <2>3 DEF MsgInv
<1>12. ASSUME NEW e \in Ends, zccp_msg_send_again(e)  PROVE MsgInv'
  <2> DEFINE m == zccp_msg_dup(object[e])
  <2>1. object[e] \in Objects /\ object[e].id \in MessageIds /\ Transmit(e, m)
    BY <1>12 DEF zccp_msg_send_again, Sendable, MsgInv
  <2>2. m \in Objects /\ m.id \in MessageIds
    BY <2>1, DupType
  <2> HIDE DEF m
  <2>3. stream' \in [Ends -> Seq(Frames)]
    BY <2>1, <2>2, TransmitKeeps
  <2> QED  BY <1>12, <2>3 DEF zccp_msg_send_again, MsgInv
<1>13. ASSUME NEW e \in Ends, zccp_msg_recv(e)  PROVE MsgInv'
  <2> DEFINE m == zccp_msg_decode(Head(stream[e]))
             got == IF m # NULL /\ e = "router" THEN [m EXCEPT !.routing_id = RoutingId] ELSE m
  <2>1. /\ object' = [object EXCEPT ![e] = got] /\ stream[e] # <<>>
        /\ stream' = [stream EXCEPT ![e] = Tail(@)]
    BY <1>13 DEF zccp_msg_recv
  <2>2. stream[e] \in Seq(Frames)
    BY DEF MsgInv
  <2>3. Head(stream[e]) \in Frames /\ Tail(stream[e]) \in Seq(Frames)
    BY <2>1, <2>2, HeadTailProperties
  <2>4. m \in Objects \cup {NULL}
    BY <2>3, DecodeType
  <2> HIDE DEF m
  <2>5. got \in Objects \cup {NULL}
    BY <2>4 DEF Objects
  <2> HIDE DEF got
  <2> QED  BY <2>1, <2>3, <2>5 DEF MsgInv
<1>14. ASSUME NEW e \in Ends, NEW z \in Foreign, ForeignSends(e, z)  PROVE MsgInv'
  <2>1. stream[e] \in Seq(Frames) /\ z \in Frames
    BY DEF MsgInv
  <2>2. Append(stream[e], z) \in Seq(Frames)
    BY <2>1, AppendProperties
  <2> QED  BY <1>14, <2>2 DEF ForeignSends, MsgInv
<1>15. ASSUME NEW id \in MessageIds, NEW s \in Strings, NEW t \in Strings,
              NEW d \in Dictionaries \cup {NULL}, NEW b \in Bodies \cup {NULL},
              SendFields(id, [identifier |-> s, expression |-> s, address |-> s, sender |-> t,
                              headers |-> d, content |-> b])
       PROVE  MsgInv'
  <2> DEFINE args == [identifier |-> s, expression |-> s, address |-> s, sender |-> t,
                      headers |-> d, content |-> b]
             m == EncodeFields(id, args)
  <2>1. /\ Transmit("dealer", m) /\ UNCHANGED object
    BY <1>15 DEF SendFields
  <2>2. m \in Objects /\ m.id = id
    <3>1. /\ s \in Texts /\ t \in Texts /\ d \in Dicts \cup {NULL} /\ b \in Frames \cup {NULL}
          /\ "id" \notin FieldsOf(id) /\ "routing_id" \notin FieldsOf(id)
      BY LayoutLists DEF FieldNames, StringFields
    <3> QED  BY <3>1 DEF EncodeFields, zccp_msg_new, Objects
  <2> HIDE DEF m, args
  <2>3. stream' \in [Ends -> Seq(Frames)]
    BY <2>1, <2>2, TransmitKeeps DEF Ends
  <2> QED  BY <2>1, <2>3 DEF MsgInv
<1> QED
  BY <1>1, <1>2, <1>3, <1>4, <1>5, <1>6, <1>7, <1>8, <1>9, <1>10, <1>11, <1>12, <1>13, <1>14, <1>15
  DEF Next

(* Applications only ever hold complete objects, whose strings are C        *)
(* strings, whatever operations of zccp_msg.c they call and whatever other  *)
(* programs send; what is under way are frames of octets.                   *)
THEOREM MsgTypeCorrect == MsgSpec => [](MsgInv /\ MsgTypeOK)
<1>1. MsgInit => MsgInv
  BY DEF MsgInit, MsgInv
<1>2. MsgInv /\ [Next]_msgVars => MsgInv'
  BY MsgStep
<1>3. MsgInv => MsgTypeOK
  <2> SUFFICES ASSUME MsgInv  PROVE MsgTypeOK
    OBVIOUS
  <2>1. ASSUME NEW e \in Ends, object[e] # NULL
        PROVE  LET m == object[e]
               IN  /\ m.id \in MessageIds \cup {0}
                   /\ m.routing_id \in {NULL, RoutingId}
                   /\ \A f \in StringFields : IsCString(m[f])
                   /\ m.headers # NULL =>
                         \A k \in DOMAIN m.headers : IsCString(k) /\ IsCString(m.headers[k])
                   /\ m.content = NULL \/ m.content \in Seq(Seq(Octet))
    <3> DEFINE m == object[e]
    <3>1. m \in Objects
      BY <2>1 DEF MsgInv
    <3> HIDE DEF m
    <3>2. /\ m.id \in MessageIds \cup {0} /\ m.routing_id \in {NULL, RoutingId}
          /\ m.headers \in Dicts \cup {NULL} /\ m.content \in Frames \cup {NULL}
          /\ \A f \in StringFields : m[f] \in Texts \cup {NULL}
      BY <3>1 DEF Objects, StringFields
    <3>3. m.headers # NULL => \A k \in DOMAIN m.headers : k \in Texts /\ m.headers[k] \in Texts
      BY <3>2, EntrySizesType
    <3> QED  BY <3>2, <3>3 DEF m, IsCString, Texts, Frames
  <2> QED  BY <2>1 DEF MsgTypeOK, MsgInv, Frames
<1> QED  BY <1>1, <1>2, <1>3, PTL DEF MsgSpec

(* The second pass of zccp_msg_encode writes exactly the octets that the    *)
(* first pass has counted and allocated, for every object that applications *)
(* can compose or receive and in every order of its headers.                *)
THEOREM FrameAlwaysFits == MsgSpec => []FrameFits
<1>1. MsgInv => FrameFits
  <2> SUFFICES ASSUME MsgInv, NEW e \in Ends, object[e] # NULL, object[e].id \in MessageIds,
                      NEW order \in Orders(object[e])
               PROVE  Len(Serialized(object[e], order)) = frame_size(object[e])
    BY DEF FrameFits
  <2>1. object[e] \in Objects
    BY DEF MsgInv
  <2> QED  BY <2>1, FrameWritten
<1> QED  BY <1>1, MsgTypeCorrect, PTL

-----------------------------------------------------------------------------
(* Positions in a frame: what was written at one is read from it.           *)

(* The octets after the first pos, and whether a stands there, as far as    *)
(* the frame goes.                                                          *)
From(q, pos) == SubSeq(q, pos + 1, Len(q))
StandsAt(a, q, pos) == \A j \in 1..Len(a) : pos + j <= Len(q) => q[pos + j] = a[j]

(* The octets of the rest are those of the frame, pos further on.           *)
LEMMA FromProperties ==
    ASSUME NEW q \in Seq(Octet), NEW pos \in Nat, pos <= Len(q)
    PROVE  /\ Len(q) \in Nat /\ From(q, pos) \in Seq(Octet) /\ Len(From(q, pos)) = Len(q) - pos
           /\ \A j \in 1..(Len(q) - pos) : From(q, pos)[j] = q[pos + j]
<1>1. Len(q) \in Nat /\ pos + 1 \in Nat /\ pos + 1 > 0 /\ Len(q) <= Len(q)
  BY LenProperties
<1> DEFINE a == pos + 1
           n == Len(q)
<1>2. n \in Nat /\ a \in Nat /\ a > 0 /\ n <= n
  BY <1>1
<1> HIDE DEF a, n
<1>3. /\ SubSeq(q, a, n) \in Seq(Octet) /\ Len(SubSeq(q, a, n)) = IF a <= n THEN n - a + 1 ELSE 0
      /\ \A i \in 1..(n - a + 1) : SubSeq(q, a, n)[i] = q[a + i - 1]
  BY <1>2, PartOf DEF n
<1>4. \A j \in 1..(n - pos) : j \in 1..(n - a + 1) /\ a + j - 1 = pos + j
  BY <1>2 DEF a
<1>5. (IF a <= n THEN n - a + 1 ELSE 0) = n - pos
  BY <1>2 DEF a, n
<1>6. From(q, pos) = SubSeq(q, a, n)
  BY DEF From, a, n
<1> QED  BY <1>2, <1>3, <1>4, <1>5, <1>6 DEF n

(* Reading on from a position within the rest.                              *)
LEMMA FromFrom ==
    ASSUME NEW q \in Seq(Octet), NEW pos \in Nat, NEW k \in Nat, pos + k <= Len(q)
    PROVE  SubSeq(From(q, pos), k + 1, Len(From(q, pos))) = From(q, pos + k)
<1> DEFINE r == From(q, pos)
           s == From(r, k)
           t == From(q, pos + k)
<1>1. Len(q) \in Nat /\ pos <= Len(q) /\ pos + k \in Nat
  BY LenProperties
<1>2. /\ r \in Seq(Octet) /\ Len(r) = Len(q) - pos
      /\ \A j \in 1..(Len(q) - pos) : r[j] = q[pos + j]
  BY <1>1, FromProperties
<1>3. /\ t \in Seq(Octet) /\ Len(t) = Len(q) - (pos + k)
      /\ \A j \in 1..(Len(q) - (pos + k)) : t[j] = q[(pos + k) + j]
  BY <1>1, FromProperties
<1> HIDE DEF r, t
<1>4. k <= Len(r)
  BY <1>1, <1>2
<1>5. /\ s \in Seq(Octet) /\ Len(s) = Len(r) - k
      /\ \A j \in 1..(Len(r) - k) : s[j] = r[k + j]
  BY <1>2, <1>4, FromProperties
<1> HIDE DEF s
<1>6. ASSUME NEW j \in 1..Len(s)  PROVE s[j] = t[j]
  <2>1. j \in 1..(Len(r) - k) /\ k + j \in 1..(Len(q) - pos) /\ j \in 1..(Len(q) - (pos + k))
    BY <1>1, <1>2, <1>5
  <2>2. s[j] = r[k + j] /\ r[k + j] = q[pos + (k + j)] /\ t[j] = q[(pos + k) + j]
    BY <1>2, <1>3, <1>5, <2>1
  <2>3. pos + (k + j) = (pos + k) + j
    BY <2>1
  <2> QED  BY <2>2, <2>3
<1>7. Len(s) = Len(t)
  BY <1>1, <1>2, <1>3, <1>5
<1>8. s = t
  BY <1>3, <1>5, <1>6, <1>7, SeqEqual
<1> QED  BY <1>8 DEF s, r, t, From

(* Of two sequences that stand at pos one after the other, each stands at   *)
(* its own position.                                                        *)
LEMMA StandsApart ==
    ASSUME NEW q \in Seq(Octet), NEW pos \in Nat, NEW a \in Seq(Octet), NEW b \in Seq(Octet),
           StandsAt(a \o b, q, pos)
    PROVE  StandsAt(a, q, pos) /\ StandsAt(b, q, pos + Len(a))
<1>1. Len(a) \in Nat /\ Len(b) \in Nat /\ Len(q) \in Nat
  BY LenProperties
<1>2. /\ Len(a \o b) = Len(a) + Len(b)
      /\ \A j \in 1..(Len(a) + Len(b)) : (a \o b)[j] = IF j <= Len(a) THEN a[j] ELSE b[j - Len(a)]
  BY ConcatProperties
<1>3. \A j \in 1..(Len(a) + Len(b)) : pos + j <= Len(q) => q[pos + j] = (a \o b)[j]
  BY <1>2 DEF StandsAt
<1>4. ASSUME NEW j \in 1..Len(a), pos + j <= Len(q)  PROVE q[pos + j] = a[j]
  <2>1. j \in 1..(Len(a) + Len(b)) /\ j <= Len(a)
    BY <1>1
  <2> QED  BY <1>2, <1>3, <1>4, <2>1
<1>5. ASSUME NEW j \in 1..Len(b), (pos + Len(a)) + j <= Len(q)
      PROVE  q[(pos + Len(a)) + j] = b[j]
  <2> DEFINE i == Len(a) + j
  <2>1. /\ i \in 1..(Len(a) + Len(b)) /\ ~(i <= Len(a)) /\ i - Len(a) = j
        /\ pos + i = (pos + Len(a)) + j
    BY <1>1
  <2> HIDE DEF i
  <2>2. q[pos + i] = (a \o b)[i] /\ (a \o b)[i] = b[i - Len(a)]
    BY <1>2, <1>3, <1>5, <2>1
  <2> QED  BY <2>1, <2>2
<1> QED  BY <1>4, <1>5 DEF StandsAt

(* Numbers read back as they were written.                                  *)
LEMMA Number1At ==
    ASSUME NEW q \in Seq(Octet), NEW pos \in Nat, NEW n \in Octet,
           StandsAt(PUT_NUMBER1(n), q, pos), pos + 1 <= Len(q)
    PROVE  GET_NUMBER1(From(q, pos)) = n
<1>1. Len(q) \in Nat /\ pos <= Len(q) /\ 1 \in 1..(Len(q) - pos)
  BY LenProperties
<1>2. From(q, pos)[1] = q[pos + 1]
  BY <1>1, FromProperties
<1>3. n % 256 = n
  <2>1. \A i \in 0..255 : i % 256 = i
    OBVIOUS
  <2>2. n \in 0..255
    BY DEF Octet
  <2> QED  BY <2>1, <2>2
<1>4. PUT_NUMBER1(n) = <<n>>
  BY <1>3 DEF PUT_NUMBER1
<1>5. q[pos + 1] = n
  <2>1. \A j \in 1..Len(<<n>>) : pos + j <= Len(q) => q[pos + j] = <<n>>[j]
    BY <1>4 DEF StandsAt
  <2> QED  BY <1>1, <2>1
<1> QED  BY <1>2, <1>5 DEF GET_NUMBER1

(* The greatest number that four octets state.                              *)
Max4 == 4294967295

(* The same for four octets.                                                *)
LEMMA Number4At ==
    ASSUME NEW q \in Seq(Octet), NEW pos \in Nat, NEW n \in Nat, n <= Max4,
           StandsAt(PUT_NUMBER4(n), q, pos), pos + 4 <= Len(q)
    PROVE  GET_NUMBER4(From(q, pos)) = n
<1> DEFINE a == (n \div 16777216) % 256
           b == (n \div 65536) % 256
           c == (n \div 256) % 256
           d == n % 256
           z == <<a, b, c, d>>
           r == From(q, pos)
<1>1. a * 16777216 + b * 65536 + c * 256 + d = n
  <2> DEFINE x == n \div 256
             y == x \div 256
             w == y \div 256
  <2>1. x \in Nat /\ y \in Nat /\ w \in Nat
    OBVIOUS
  <2>2. n = 256 * x + (n % 256) /\ x = 256 * y + (x % 256) /\ y = 256 * w + (y % 256)
    OBVIOUS
  <2>3. n \div 65536 = y /\ n \div 16777216 = w
    BY SMT
  <2>4. w <= 255
    BY SMT DEF Max4
  <2>5. w % 256 = w
    <3>1. \A i \in 0..255 : i % 256 = i
      OBVIOUS
    <3> HIDE DEF w
    <3> QED  BY <2>1, <2>4, <3>1
  <2> HIDE DEF x, y, w
  <2>6. a = w /\ b = y % 256 /\ c = x % 256 /\ d = n % 256
    BY <2>3, <2>5, SMT DEF x
  <2> HIDE DEF a, b, c, d
  <2>7. a = w /\ d = n - 256 * x /\ c = x - 256 * y /\ b = y - 256 * w
    BY <2>1, <2>2, <2>6
  <2> QED  BY <2>1, <2>7, SMT
<1>2. PUT_NUMBER4(n) = z
  BY SMT DEF PUT_NUMBER4
<1> HIDE DEF a, b, c, d
<1>3. Len(z) = 4 /\ z[1] = a /\ z[2] = b /\ z[3] = c /\ z[4] = d
  OBVIOUS
<1> HIDE DEF z
<1>4. Len(q) \in Nat /\ pos <= Len(q)
  BY LenProperties
<1>5. \A j \in 1..(Len(q) - pos) : r[j] = q[pos + j]
  BY <1>4, FromProperties
<1> HIDE DEF r
<1>6. \A j \in 1..4 : q[pos + j] = z[j]
  <2>1. \A j \in 1..Len(z) : pos + j <= Len(q) => q[pos + j] = z[j]
    BY <1>2, SMT DEF StandsAt
  <2> QED  BY <1>3, <1>4, <2>1, SMT
<1>7. r[1] = a /\ r[2] = b /\ r[3] = c /\ r[4] = d
  <2>1. 1 \in 1..(Len(q) - pos) /\ 2 \in 1..(Len(q) - pos) /\ 3 \in 1..(Len(q) - pos) /\ 4 \in 1..(Len(q) - pos)
    BY <1>4
  <2> QED  BY <1>3, <1>5, <1>6, <2>1
<1>8. GET_NUMBER4(r) = r[1] * 16777216 + r[2] * 65536 + r[3] * 256 + r[4]
  BY SMT DEF GET_NUMBER4
<1>9. GET_NUMBER4(r) = a * 16777216 + b * 65536 + c * 256 + d
  BY <1>7, <1>8, SMT
<1> QED  BY <1>1, <1>9, SMT DEF r

(* NULL, the absent value, is none of the values that may be there.         *)
NullApart ==
    /\ NULL \notin Texts /\ NULL \notin Dicts /\ NULL \notin Frames
    /\ NULL \notin [value : Texts \cup Dicts \cup Frames \cup Objects, rest : Seq(Octet)]

(* x has been read up to position pos of the frame, or the frame ends before. *)
Got(x, q, pos) == IF pos <= Len(q) THEN [value |-> x, rest |-> From(q, pos)] ELSE NULL

(* Within the frame the reader goes on ...                                  *)
LEMMA GotSome ==
    ASSUME NullApart, NEW q \in Seq(Octet), NEW pos \in Nat, pos <= Len(q),
           NEW x \in Texts \cup Dicts \cup Frames \cup Objects
    PROVE  Got(x, q, pos) # NULL /\ Got(x, q, pos).value = x /\ Got(x, q, pos).rest = From(q, pos)
<1>1. From(q, pos) \in Seq(Octet)
  BY FromProperties
<1>2. Got(x, q, pos) = [value |-> x, rest |-> From(q, pos)]
  BY DEF Got
<1> QED  BY <1>1, <1>2 DEF NullApart

(* ... and after its end it is malformed.                                   *)
LEMMA GotNone ==
    ASSUME NEW q, NEW pos, NEW x, ~(pos <= Len(q))
    PROVE  Got(x, q, pos) = NULL
BY DEF Got

(* A C string has no zero.                                                  *)
LEMMA CStringOfText ==
    ASSUME NEW s \in Texts
    PROVE  CString(s) = s
<1> DEFINE zeros == {i \in 1..Len(s) : s[i] = 0}
           end == SelectInSeq(s, LAMBDA b : b = 0)
<1>1. end = IF zeros # {} THEN Min(zeros) ELSE 0
  BY DEF SelectInSeq
<1>2. zeros = {}
  <2>1. s \in Seq(1..255)
    BY DEF Texts
  <2>2. \A i \in 1..Len(s) : s[i] \in 1..255
    BY <2>1, ElementOfSeq
  <2>3. ASSUME NEW i \in 1..Len(s)  PROVE s[i] # 0
    <3>1. \A x \in 1..255 : x # 0
      OBVIOUS
    <3>2. s[i] \in 1..255
      BY <2>2
    <3> QED  BY <3>1, <3>2
  <2> QED  BY <2>3
<1> HIDE DEF zeros
<1>3. end = 0
  BY <1>1, <1>2
<1> HIDE DEF end
<1> QED  BY <1>3 DEF CString, end

(* C strings are sequences of octets.                                       *)
LEMMA TextsAreOctets == Texts \subseteq Seq(Octet)
<1> SUFFICES ASSUME NEW s \in Texts  PROVE s \in Seq(Octet)
  OBVIOUS
<1> DEFINE T == 1..255
<1>1. T \subseteq Octet /\ s \in Seq(T)
  BY DEF Octet, Texts
<1> HIDE DEF T
<1> QED  BY <1>1, SeqMonotonic

(* A string that stands behind its k octets of length.                      *)
LEMMA TextAt ==
    ASSUME NEW q \in Seq(Octet), NEW pos \in Nat, pos <= Len(q), NEW k \in Nat, NEW s \in Texts,
           StandsAt(s, q, pos + k)
    PROVE  Text(From(q, pos), k, Len(s)) = Got(s, q, pos + k + Len(s))
<1> DEFINE o == From(q, pos)
           n == Len(s)
           e == pos + k + n
<1>0. n \in Nat /\ Len(q) \in Nat /\ s \in Seq(Octet) /\ e \in Nat
  BY TextsAreOctets, LenProperties
<1>1. o \in Seq(Octet) /\ Len(o) = Len(q) - pos /\ \A j \in 1..(Len(q) - pos) : o[j] = q[pos + j]
  BY FromProperties
<1> HIDE DEF n
<1>2. CASE ~(e <= Len(q))
  <2>1. k + n > Len(o)
    BY <1>0, <1>1, <1>2
  <2> QED  BY <1>2, <2>1 DEF Text, Got, n
<1>3. CASE e <= Len(q)
  <2> DEFINE t == SubSeq(o, k + 1, k + n)
  <2>1. ~(k + n > Len(o)) /\ k + n \in Nat /\ k + n <= Len(o) /\ k + 1 \in Nat /\ k + 1 > 0
    BY <1>0, <1>1, <1>3
  <2> HIDE DEF o
  <2>2. /\ t \in Seq(Octet) /\ Len(t) = IF k + 1 <= k + n THEN (k + n) - (k + 1) + 1 ELSE 0
        /\ \A i \in 1..((k + n) - (k + 1) + 1) : t[i] = o[(k + 1) + i - 1]
    <3> DEFINE x == k + 1
               y == k + n
    <3>1. x \in Nat /\ x > 0 /\ y \in Nat /\ y <= Len(o)
      BY <2>1
    <3> HIDE DEF x, y
    <3>2. /\ SubSeq(o, x, y) \in Seq(Octet)
          /\ Len(SubSeq(o, x, y)) = IF x <= y THEN y - x + 1 ELSE 0
          /\ \A i \in 1..(y - x + 1) : SubSeq(o, x, y)[i] = o[x + i - 1]
      BY <1>1, <3>1, PartOf
    <3> QED  BY <3>2 DEF x, y
  <2>3. Len(t) = n
    BY <1>0, <2>2
  <2>4. ASSUME NEW j \in 1..Len(t)  PROVE t[j] = s[j]
    <3>1. j \in 1..n /\ j \in 1..((k + n) - (k + 1) + 1) /\ (k + 1) + j - 1 = k + j
      BY <1>0, <2>3
    <3>2. k + j \in 1..(Len(q) - pos) /\ pos + (k + j) = (pos + k) + j /\ (pos + k) + j <= Len(q)
      BY <1>0, <1>3, <3>1
    <3>3. t[j] = o[k + j]
      BY <2>2, <3>1
    <3>4. o[k + j] = q[pos + (k + j)]
      BY <1>1, <3>2
    <3>5. q[(pos + k) + j] = s[j]
      BY <3>1, <3>2 DEF StandsAt, n
    <3> QED  BY <3>2, <3>3, <3>4, <3>5
  <2> HIDE DEF t
  <2>5. t = s
    BY <1>0, <2>2, <2>3, <2>4, SeqEqual DEF n
  <2>6. SubSeq(o, k + n + 1, Len(o)) = From(q, e)
    <3>1. k + n \in Nat /\ pos + (k + n) <= Len(q) /\ pos + (k + n) = e
      BY <1>0, <1>3
    <3> DEFINE m == k + n
    <3>2. m \in Nat /\ pos + m <= Len(q)
      BY <3>1
    <3> HIDE DEF m
    <3>3. SubSeq(From(q, pos), m + 1, Len(From(q, pos))) = From(q, pos + m)
      BY <3>2, FromFrom
    <3> QED  BY <3>1, <3>3 DEF m, o
  <2>7. Text(o, k, n) = [value |-> CString(t), rest |-> SubSeq(o, k + n + 1, Len(o))]
    BY <2>1 DEF Text, t
  <2>8. Got(s, q, e) = [value |-> s, rest |-> From(q, e)]
    BY <1>3 DEF Got
  <2> HIDE DEF e
  <2>9. Text(o, k, n) = Got(s, q, e)
    BY <2>5, <2>6, <2>7, <2>8, CStringOfText
  <2> QED  BY <2>9 DEF e, n, o
<1> QED  BY <1>2, <1>3

(* Strings that stand in the frame are read, unless it ends before they do. *)
LEMMA StringAt ==
    ASSUME NEW q \in Seq(Octet), NEW pos \in Nat, pos <= Len(q), NEW s \in Texts, Len(s) <= 255,
           StandsAt(PUT_STRING(s), q, pos)
    PROVE  GET_STRING(From(q, pos)) = Got(s, q, pos + Len(PUT_STRING(s)))
<1> DEFINE o == From(q, pos)
           number == PUT_NUMBER1(Len(s))
<1>0. Len(q) \in Nat /\ o \in Seq(Octet) /\ Len(o) = Len(q) - pos
  BY FromProperties
<1>a. Len(s) \in Nat /\ s \in Seq(Octet) /\ Len(PUT_STRING(s)) = 1 + Len(s)
  BY StringsWritten, TextsAreOctets
<1>b. Len(s) \in Octet
  <2> DEFINE n == Len(s)
  <2>1. n \in Nat /\ n <= 255
    BY <1>a
  <2> HIDE DEF n
  <2>2. n \in Octet
    BY <2>1 DEF Octet
  <2> QED  BY <2>2 DEF n
<1>1. Len(s) \in Nat /\ Len(s) \in Octet /\ s \in Seq(Octet) /\ Len(PUT_STRING(s)) = 1 + Len(s)
  BY <1>a, <1>b
<1>2. number \in Seq(Octet) /\ Len(number) = 1
  BY <1>1, NumbersWritten
<1>3. PUT_STRING(s) = number \o s
  BY DEF PUT_STRING
<1> HIDE DEF number
<1>4. StandsAt(number, q, pos) /\ StandsAt(s, q, pos + Len(number))
  BY <1>1, <1>2, <1>3, StandsApart
<1>5. CASE 1 > Len(o)
  <2>1. ~(pos + Len(PUT_STRING(s)) <= Len(q))
    BY <1>0, <1>1, <1>5
  <2>2. Got(s, q, pos + Len(PUT_STRING(s))) = NULL
    BY <2>1, GotNone
  <2> QED  BY <1>5, <2>2 DEF GET_STRING
<1>6. CASE ~(1 > Len(o))
  <2>1. pos + 1 <= Len(q)
    BY <1>0, <1>6
  <2>2. GET_NUMBER1(o) = Len(s)
    BY <1>1, <1>4, <2>1, Number1At DEF number
  <2>3. GET_STRING(o) = Text(o, 1, Len(s))
    BY <1>6, <2>2 DEF GET_STRING
  <2> DEFINE k == 1
  <2>4. k \in Nat /\ StandsAt(s, q, pos + k)
    BY <1>2, <1>4
  <2>5. pos + k + Len(s) = pos + Len(PUT_STRING(s)) /\ GET_STRING(o) = Text(o, k, Len(s))
    BY <1>1, <2>3
  <2> HIDE DEF k
  <2>6. Text(From(q, pos), k, Len(s)) = Got(s, q, pos + k + Len(s))
    BY <2>4, TextAt
  <2> QED  BY <2>5, <2>6
<1> QED  BY <1>5, <1>6

(* The same for long strings.                                               *)
LEMMA LongstrAt ==
    ASSUME NEW q \in Seq(Octet), NEW pos \in Nat, pos <= Len(q), NEW s \in Texts, Len(s) <= Max4,
           StandsAt(PUT_LONGSTR(s), q, pos)
    PROVE  GET_LONGSTR(From(q, pos)) = Got(s, q, pos + Len(PUT_LONGSTR(s)))
<1> DEFINE o == From(q, pos)
           number == PUT_NUMBER4(Len(s))
<1>0. Len(q) \in Nat /\ o \in Seq(Octet) /\ Len(o) = Len(q) - pos
  BY FromProperties
<1>1. Len(s) \in Nat /\ s \in Seq(Octet) /\ Len(PUT_LONGSTR(s)) = 4 + Len(s)
  BY StringsWritten, TextsAreOctets
<1>2. number \in Seq(Octet) /\ Len(number) = 4
  BY <1>1, NumbersWritten
<1>3. PUT_LONGSTR(s) = number \o s
  BY DEF PUT_LONGSTR
<1> HIDE DEF number
<1>4. StandsAt(number, q, pos) /\ StandsAt(s, q, pos + Len(number))
  BY <1>1, <1>2, <1>3, StandsApart
<1>5. CASE 4 > Len(o)
  <2>1. ~(pos + Len(PUT_LONGSTR(s)) <= Len(q))
    BY <1>0, <1>1, <1>5
  <2>2. Got(s, q, pos + Len(PUT_LONGSTR(s))) = NULL
    BY <2>1, GotNone
  <2> QED  BY <1>5, <2>2 DEF GET_LONGSTR
<1>6. CASE ~(4 > Len(o))
  <2>1. pos + 4 <= Len(q)
    BY <1>0, <1>6
  <2>2. GET_NUMBER4(o) = Len(s)
    BY <1>1, <1>4, <2>1, Number4At DEF number
  <2>3. GET_LONGSTR(o) = Text(o, 4, Len(s))
    BY <1>6, <2>2 DEF GET_LONGSTR
  <2> DEFINE k == 4
  <2>4. k \in Nat /\ StandsAt(s, q, pos + k)
    BY <1>2, <1>4
  <2>5. pos + k + Len(s) = pos + Len(PUT_LONGSTR(s)) /\ GET_LONGSTR(o) = Text(o, k, Len(s))
    BY <1>1, <2>3
  <2> HIDE DEF k
  <2>6. Text(From(q, pos), k, Len(s)) = Got(s, q, pos + k + Len(s))
    BY <2>4, TextAt
  <2> QED  BY <2>5, <2>6
<1> QED  BY <1>5, <1>6

(* The octets of an entry.                                                  *)
EntryOctets(k, v) == PUT_STRING(k) \o PUT_LONGSTR(v)

(* An entry takes five octets or more.                                      *)
LEMMA EntryOctetsType ==
    ASSUME NEW k \in Texts, NEW v \in Texts
    PROVE  EntryOctets(k, v) \in Seq(Octet) /\ Len(EntryOctets(k, v)) \in Nat
           /\ Len(EntryOctets(k, v)) = Len(PUT_STRING(k)) + Len(PUT_LONGSTR(v))
           /\ Len(EntryOctets(k, v)) >= 5
<1> DEFINE x == PUT_STRING(k)
           y == PUT_LONGSTR(v)
<1>1. /\ Len(k) \in Nat /\ Len(v) \in Nat
      /\ x \in Seq(Octet) /\ Len(x) = 1 + Len(k) /\ y \in Seq(Octet) /\ Len(y) = 4 + Len(v)
  BY StringsWritten
<1> HIDE DEF x, y
<1>2. x \o y \in Seq(Octet) /\ Len(x \o y) = Len(x) + Len(y)
  BY <1>1, ConcatProperties
<1>3. EntryOctets(k, v) = x \o y
  BY DEF EntryOctets, x, y
<1> QED  BY <1>1, <1>2, <1>3 DEF x, y

(* An entry that stands in the frame is read as one, unless the frame ends  *)
(* before it does.                                                          *)
LEMMA EntryAt ==
    ASSUME NullApart, NEW q \in Seq(Octet), NEW pos \in Nat, NEW d \in Dicts,
           NEW k \in Texts, Len(k) <= 255, NEW v \in Texts, Len(v) <= Max4,
           StandsAt(EntryOctets(k, v), q, pos)
    PROVE  GetEntry(Got(d, q, pos)) = Got(zhash_insert(d, k, v), q, pos + Len(EntryOctets(k, v)))
<1> DEFINE x == PUT_STRING(k)
           y == PUT_LONGSTR(v)
           r == Got(d, q, pos)
           key == GET_STRING(r.rest)
           value == GET_LONGSTR(key.rest)
           mid == pos + Len(x)
           end == pos + Len(EntryOctets(k, v))
           new == zhash_insert(d, k, v)
<1>1. /\ x \in Seq(Octet) /\ Len(x) \in Nat /\ y \in Seq(Octet) /\ Len(y) \in Nat
      /\ Len(q) \in Nat
  BY StringsWritten, LenProperties
<1>2. mid \in Nat /\ end = mid + Len(y) /\ pos <= mid /\ mid <= end /\ end \in Nat
  <2> DEFINE a == Len(x)
             b == Len(y)
             e == Len(EntryOctets(k, v))
  <2>1. e = a + b
    BY EntryOctetsType
  <2>2. a \in Nat /\ b \in Nat
    BY <1>1
  <2> HIDE DEF a, b, e
  <2>3. /\ pos + a \in Nat /\ pos + e = pos + a + b /\ pos <= pos + a
        /\ pos + a <= pos + e /\ pos + e \in Nat
    BY <2>1, <2>2
  <2> QED  BY <2>3 DEF a, b, e
<1>3. StandsAt(x, q, pos) /\ StandsAt(y, q, mid)
  BY <1>1, StandsApart DEF EntryOctets
<1>4. new \in Dicts
  BY DictWith
<1>5. GetEntry(r) = IF r = NULL THEN NULL ELSE IF key = NULL THEN NULL ELSE IF value = NULL THEN NULL
                    ELSE [value |-> zhash_insert(r.value, key.value, value.value), rest |-> value.rest]
  BY DEF GetEntry
<1> HIDE DEF key, value, new, mid, end, x, y
<1>6. CASE ~(pos <= Len(q))
  <2>1. ~(end <= Len(q))
    BY <1>1, <1>2, <1>6
  <2>2. r = NULL /\ Got(new, q, end) = NULL
    BY <1>6, <2>1, GotNone
  <2> QED  BY <1>5, <2>2 DEF end, new
<1>7. CASE pos <= Len(q)
  <2>1. r # NULL /\ r.value = d /\ r.rest = From(q, pos)
    BY <1>7, GotSome
  <2>2. key = Got(k, q, mid)
    BY <1>3, <1>7, <2>1, StringAt DEF key, x, mid
  <2>3. CASE ~(mid <= Len(q))
    <3>1. ~(end <= Len(q))
      BY <1>1, <1>2, <2>3
    <3>2. key = NULL /\ Got(new, q, end) = NULL
      BY <2>2, <2>3, <3>1, GotNone
    <3> QED  BY <1>5, <3>2 DEF end, new
  <2>4. CASE mid <= Len(q)
    <3>1. key # NULL /\ key.value = k /\ key.rest = From(q, mid)
      BY <1>2, <2>2, <2>4, GotSome
    <3>2. value = Got(v, q, end)
      <4>1. GET_LONGSTR(From(q, mid)) = Got(v, q, mid + Len(PUT_LONGSTR(v)))
        BY <1>2, <1>3, <2>4, LongstrAt DEF y
      <4> QED  BY <1>2, <3>1, <4>1 DEF value, y
    <3>3. CASE ~(end <= Len(q))
      <4>1. value = NULL /\ Got(new, q, end) = NULL
        BY <3>2, <3>3, GotNone
      <4> QED  BY <1>5, <4>1 DEF end, new
    <3>4. CASE end <= Len(q)
      <4>1. value # NULL /\ value.value = v /\ value.rest = From(q, end)
        BY <1>2, <3>2, <3>4, GotSome
      <4>2. GetEntry(r) = [value |-> new, rest |-> From(q, end)]
        BY <1>5, <2>1, <3>1, <4>1 DEF new
      <4>3. Got(new, q, end) = [value |-> new, rest |-> From(q, end)]
        BY <3>4 DEF Got
      <4> QED  BY <4>2, <4>3 DEF end, new
    <3> QED  BY <3>3, <3>4
  <2> QED  BY <2>3, <2>4
<1> QED  BY <1>6, <1>7

(* The parts of a flattened sequence stand one after the other.             *)
Laid(seqs, q, pos, off) ==
    /\ off \in [0..Len(seqs) -> Nat] /\ off[0] = 0
    /\ off[Len(seqs)] = Len(FlattenSeq(seqs))
    /\ \A i \in 1..Len(seqs) : /\ off[i] = off[i - 1] + Len(seqs[i])
                               /\ StandsAt(seqs[i], q, pos + off[i - 1])

(* Each part of a flattened sequence stands at the offset that the parts    *)
(* before it take.                                                          *)
LEMMA FlattenStands ==
    ASSUME NEW q \in Seq(Octet), NEW pos \in Nat, NEW seqs \in Seq(Seq(Octet)),
           StandsAt(FlattenSeq(seqs), q, pos)
    PROVE  \E off : Laid(seqs, q, pos, off)
<1> DEFINE n == Len(seqs)
           V == Seq(Octet)
<1>1. n \in Nat /\ \A i \in 1..n : seqs[i] \in V
  BY LenProperties, ElementOfSeq
<1>2. PICK p \in [0..n -> V] : /\ p[0] = <<>> /\ p[n] = FlattenSeq(seqs)
                               /\ \A i \in 1..n : p[i] = p[i - 1] \o seqs[i]
  BY FlattenSteps
<1> DEFINE off == [i \in 0..n |-> Len(p[i])]
           T == {k \in Nat : k <= n => StandsAt(p[n - k], q, pos)}
<1>3. ASSUME NEW i \in 1..n  PROVE /\ i - 1 \in 0..n /\ i \in 0..n
                                   /\ p[i - 1] \in V /\ p[i] = p[i - 1] \o seqs[i]
                                   /\ Len(p[i]) = Len(p[i - 1]) + Len(seqs[i])
  <2>1. i - 1 \in 0..n /\ i \in 0..n
    BY <1>1
  <2>2. p[i - 1] \in V /\ p[i] = p[i - 1] \o seqs[i] /\ seqs[i] \in V
    BY <1>1, <1>2, <2>1
  <2>3. Len(p[i - 1] \o seqs[i]) = Len(p[i - 1]) + Len(seqs[i])
    BY <2>2, ConcatProperties
  <2> QED  BY <2>1, <2>2, <2>3
<1>4. 0 \in T
  <2>1. n - 0 = n
    BY <1>1
  <2> QED  BY <1>2, <2>1
<1>5. ASSUME NEW k \in T  PROVE k + 1 \in T
  <2> SUFFICES ASSUME k + 1 <= n  PROVE StandsAt(p[n - (k + 1)], q, pos)
    OBVIOUS
  <2> DEFINE i == n - k
  <2>1. i \in 1..n /\ n - (k + 1) = i - 1
    BY <1>1
  <2>2. StandsAt(p[i], q, pos)
    BY <1>1, <1>5
  <2> HIDE DEF i
  <2>3. p[i - 1] \in V /\ p[i] = p[i - 1] \o seqs[i] /\ seqs[i] \in V
    BY <1>1, <1>3, <2>1
  <2>4. StandsAt(p[i - 1], q, pos)
    BY <2>2, <2>3, StandsApart
  <2> QED  BY <2>1, <2>4
<1>6. T = Nat
  <2> HIDE DEF T
  <2>1. T \in SUBSET Nat
    BY DEF T
  <2> QED  BY <1>4, <1>5, <2>1, NatSetInduction
<1>7. ASSUME NEW i \in 1..n  PROVE StandsAt(seqs[i], q, pos + Len(p[i - 1]))
  <2> DEFINE k == n - i
  <2>1. k \in Nat /\ k <= n /\ n - k = i
    BY <1>1
  <2>2. k \in T
    <3> HIDE DEF T
    <3> QED  BY <1>6, <2>1
  <2>3. StandsAt(p[i], q, pos)
    BY <2>1, <2>2
  <2>4. p[i - 1] \in V /\ p[i] = p[i - 1] \o seqs[i] /\ seqs[i] \in V
    BY <1>1, <1>3
  <2> QED  BY <2>3, <2>4, StandsApart
<1>8. off \in [0..n -> Nat]
  <2>1. \A i \in 0..n : Len(p[i]) \in Nat
    BY <1>2, LenProperties
  <2> QED  BY <2>1
<1>9. off[0] = 0 /\ off[n] = Len(FlattenSeq(seqs))
  BY <1>1, <1>2
<1>10. \A i \in 1..n : off[i] = off[i - 1] + Len(seqs[i]) /\ StandsAt(seqs[i], q, pos + off[i - 1])
  BY <1>3, <1>7
<1> HIDE DEF off
<1>11. Laid(seqs, q, pos, off)
  BY <1>8, <1>9, <1>10 DEF Laid
<1> QED  BY <1>11

(* The least of two numbers.                                                *)
LEMMA MinOfTwo ==
    ASSUME NEW x \in Nat, NEW y \in Nat
    PROVE  /\ Min({x, y}) \in Nat /\ Min({x, y}) <= x /\ Min({x, y}) <= y
           /\ Min({x, y}) = x \/ Min({x, y}) = y
<1>1. \E z \in {x, y} : \A i \in {x, y} : z =< i
  OBVIOUS
<1>2. Min({x, y}) \in {x, y} /\ \A i \in {x, y} : Min({x, y}) =< i
  BY <1>1, Zenon DEF Min
<1> QED  BY <1>2

(* Dictionaries whose lengths fit the octets that state them.               *)
ShortDict(d) ==
    /\ Cardinality(DOMAIN d) <= Max4
    /\ \A k \in DOMAIN d : Len(k) <= 255 /\ Len(d[k]) <= Max4

(* The dictionary whose entries stand in the frame is read, in whichever    *)
(* order they were written; a frame that ends before them is refused.       *)
LEMMA EntriesAt ==
    ASSUME NullApart, NEW q \in Seq(Octet), NEW pos \in Nat, pos <= Len(q),
           NEW d \in Dicts, ShortDict(d), NEW order \in SetToSeqs(DOMAIN d),
           StandsAt(PutEntries(d, order), q, pos)
    PROVE  GetEntries(From(q, pos)) = Got(d, q, pos + Len(PutEntries(d, order)))
<1> DEFINE S == DOMAIN d
           c == Len(order)
           o == From(q, pos)
           number == PUT_NUMBER4(c)
           seqs == [i \in DOMAIN order |-> PUT_STRING(order[i]) \o PUT_LONGSTR(d[order[i]])]
           flat == FlattenSeq(seqs)
           body == pos + 4
           end == pos + Len(PutEntries(d, order))
           N == Min({c, 1 + Len(o) \div 5})
           Part(i) == [k \in {order[j] : j \in 1..i} |-> d[k]]
           V == EntryReaders \cup {NULL}
<1>1. IsFiniteSet(S) /\ \A k \in S : k \in Texts /\ d[k] \in Texts
  BY EntrySizesType
<1>2. Lists(order, S) /\ DOMAIN order = 1..c
  BY <1>1, OrderLists
<1>3. c \in Nat /\ \A i \in 1..c : order[i] \in S
  BY <1>2, LenProperties, ElementOfSeq DEF Lists
<1>4. c <= Max4
  <2>1. c = Cardinality(S)
    <3>1. order \in [1..Cardinality(S) -> S] /\ Cardinality(S) \in Nat
      BY <1>1, FS_CardinalityType DEF SetToSeqs
    <3> QED  BY <3>1
  <2> QED  BY <2>1 DEF ShortDict
<1>5. seqs \in Seq(Seq(Octet)) /\ Len(seqs) = c
      /\ \A i \in 1..c : seqs[i] = EntryOctets(order[i], d[order[i]])
  <2>1. seqs = [i \in 1..c |-> EntryOctets(order[i], d[order[i]])]
    BY <1>2 DEF EntryOctets
  <2>2. \A i \in 1..c : EntryOctets(order[i], d[order[i]]) \in Seq(Octet)
    BY <1>1, <1>3, EntryOctetsType
  <2> HIDE DEF seqs, c
  <2> QED  BY <1>3, <2>1, <2>2
<1>6. PutEntries(d, order) = number \o flat
  BY DEF PutEntries
<1> HIDE DEF seqs
<1>7. number \in Seq(Octet) /\ Len(number) = 4 /\ flat \in Seq(Octet) /\ Len(flat) \in Nat
  <2>1. flat \in Seq(Octet)
    <3> DEFINE n == Len(seqs)
    <3>1. PICK p \in [0..n -> Seq(Octet)] : p[n] = flat
      BY <1>5, FlattenSteps
    <3>2. n \in Nat /\ n \in 0..n
      BY <1>3, <1>5
    <3> HIDE DEF n
    <3> QED  BY <3>1, <3>2
  <2> QED  BY <1>3, <2>1, NumbersWritten, LenProperties
<1> HIDE DEF number, flat
<1>8. StandsAt(number, q, pos) /\ StandsAt(flat, q, body)
  BY <1>6, <1>7, StandsApart
<1>9. Len(PutEntries(d, order)) = 4 + Len(flat)
  <2>1. Len(number \o flat) = Len(number) + Len(flat)
    BY <1>7, ConcatProperties
  <2> QED  BY <1>6, <1>7, <2>1
<1>10. end = body + Len(flat) /\ body \in Nat /\ Len(q) \in Nat
  BY <1>7, <1>9, LenProperties
<1>11. Len(o) = Len(q) - pos /\ o \in Seq(Octet)
  BY FromProperties
<1> HIDE DEF end
<1>12. CASE ~(body <= Len(q))
  <2>1. 4 > Len(o) /\ ~(end <= Len(q))
    BY <1>7, <1>10, <1>11, <1>12
  <2>2. GetEntries(o) = NULL /\ Got(d, q, end) = NULL
    BY <2>1, GotNone DEF GetEntries
  <2> QED  BY <2>2 DEF end
<1>13. CASE body <= Len(q)
  <2>1. ~(4 > Len(o)) /\ pos + 4 <= Len(q)
    BY <1>10, <1>11, <1>13
  <2>2. GET_NUMBER4(o) = c
    BY <1>3, <1>4, <1>8, <2>1, Number4At DEF number
  <2> DEFINE none == <<>>
             base == Got(none, q, body)
  <2>3. GetEntries(o) = ReadEntries(base, N)
    <3>1. SubSeq(o, 5, Len(o)) = From(q, body)
      <4> DEFINE k == 4
      <4>1. k \in Nat /\ pos + k <= Len(q)
        BY <2>1
      <4> HIDE DEF k
      <4>2. SubSeq(From(q, pos), k + 1, Len(From(q, pos))) = From(q, pos + k)
        BY <4>1, FromFrom
      <4>3. k + 1 = 5 /\ pos + k = body
        BY DEF k
      <4> QED  BY <4>2, <4>3
    <3>2. base = [value |-> <<>>, rest |-> From(q, body)]
      BY <1>13 DEF Got
    <3> HIDE DEF base, body
    <3>3. GetEntries(o) = ReadEntries([value |-> <<>>, rest |-> SubSeq(o, 5, Len(o))],
                                      Min({GET_NUMBER4(o), 1 + Len(o) \div 5}))
      BY <2>1 DEF GetEntries, ReadEntries
    <3> QED  BY <2>2, <3>1, <3>2, <3>3
  <2>4. base \in V /\ \A v \in V : GetEntry(v) \in V
    <3>1. From(q, body) \in Seq(Octet)
      BY <1>10, <1>13, FromProperties
    <3>2. none \in Dicts
      BY EmptyDict
    <3> HIDE DEF none
    <3>3. base \in V
      BY <1>13, <3>1, <3>2 DEF Got, EntryReaders
    <3> QED  BY <3>3, EntryType
  <2>5. N \in Nat /\ N <= c /\ (N = c \/ N = 1 + Len(o) \div 5)
    <3> DEFINE x == 1 + Len(o) \div 5
    <3>1. x \in Nat
      BY <1>10, <1>11, <2>1
    <3> HIDE DEF x
    <3>2. Min({c, x}) \in Nat /\ Min({c, x}) <= c /\ (Min({c, x}) = c \/ Min({c, x}) = x)
      BY <1>3, <3>1, MinOfTwo
    <3> QED  BY <3>2 DEF x
  <2> HIDE DEF N, V, base, c
  <2>6. EntriesRun(base, N, V)
    BY <2>4, <2>5, EntryFold
  <2>7. PICK p : /\ p[0] = base /\ p[N] = ReadEntries(base, N)
                 /\ \A i \in 1..N : p[i] = GetEntry(p[i - 1])
    BY <2>6 DEF EntriesRun
  <2>8. PICK off : Laid(seqs, q, body, off)
    BY <1>5, <1>8, <1>10, FlattenStands DEF flat
  <2>9. /\ off \in [0..c -> Nat] /\ off[0] = 0 /\ off[c] = Len(flat)
        /\ \A i \in 1..c : /\ off[i] = off[i - 1] + Len(seqs[i])
                           /\ StandsAt(seqs[i], q, body + off[i - 1])
    BY <1>5, <2>8 DEF Laid, flat
  <2>10. ASSUME NEW i \in 0..c  PROVE Part(i) \in Dicts /\ DOMAIN Part(i) = {order[j] : j \in 1..i}
    <3> DEFINE K == {order[j] : j \in 1..i}
    <3>1. K \in SUBSET S
      BY <1>3
    <3>2. IsFiniteSet(K)
      BY <1>1, <3>1, FS_Subset
    <3>3. Part(i) \in [K -> Texts] /\ K \in SUBSET Texts
      BY <1>1, <3>1
    <3> QED  BY <3>2, <3>3 DEF Dicts
  <2>11. Part(0) = none
    <3>1. {order[j] : j \in 1..0} = {}
      OBVIOUS
    <3>2. none = [x \in {} |-> d[x]]
      OBVIOUS
    <3> QED  BY <3>1, <3>2
  <2>12. ASSUME NEW i \in 1..c
         PROVE  /\ Part(i) = zhash_insert(Part(i - 1), order[i], d[order[i]])
                /\ GetEntry(Got(Part(i - 1), q, body + off[i - 1])) = Got(Part(i), q, body + off[i])
    <3> DEFINE k == order[i]
               v == d[k]
               prev == Part(i - 1)
    <3>1. i - 1 \in 0..c /\ k \in S /\ k \in Texts /\ v \in Texts /\ 1..i = (1..(i - 1)) \cup {i}
      BY <1>1, <1>3
    <3>2. prev \in Dicts /\ DOMAIN prev = {order[j] : j \in 1..(i - 1)}
      BY <2>10, <3>1
    <3>3. k \notin DOMAIN prev
      <4>1. \A j \in 1..(i - 1) : j \in 1..c /\ j # i
        BY <1>3
      <4>2. \A j \in 1..(i - 1) : order[j] # order[i]
        <5>1. \A a, b \in 1..c : a # b => order[a] # order[b]
          BY <1>2 DEF Lists, c
        <5> QED  BY <4>1, <5>1
      <4> QED  BY <3>2, <4>2
    <3>4. {order[j] : j \in 1..i} = DOMAIN prev \cup {k}
      BY <3>1, <3>2
    <3>5. Part(i) = zhash_insert(prev, k, v)
      BY <3>2, <3>3, <3>4 DEF zhash_insert
    <3>6. Len(k) <= 255 /\ Len(v) <= Max4
      BY <3>1 DEF ShortDict
    <3>7. /\ StandsAt(EntryOctets(k, v), q, body + off[i - 1]) /\ off[i - 1] \in Nat
          /\ off[i] = off[i - 1] + Len(EntryOctets(k, v))
      BY <1>5, <2>9, <3>1
    <3> DEFINE at == body + off[i - 1]
    <3>8. at \in Nat
      BY <1>10, <3>7
    <3> HIDE DEF prev, k, v, at
    <3>9. StandsAt(EntryOctets(k, v), q, at)
      BY <3>7 DEF at
    <3>10. GetEntry(Got(prev, q, at)) = Got(zhash_insert(prev, k, v), q, at + Len(EntryOctets(k, v)))
      BY <3>1, <3>2, <3>6, <3>8, <3>9, EntryAt
    <3>11. at + Len(EntryOctets(k, v)) = body + off[i]
      <4>1. Len(EntryOctets(k, v)) \in Nat
        BY <3>1, EntryOctetsType
      <4> QED  BY <1>10, <3>7, <4>1 DEF at
    <3>12. GetEntry(Got(prev, q, at)) = Got(Part(i), q, body + off[i])
      BY <3>5, <3>10, <3>11
    <3> QED  BY <3>5, <3>12 DEF prev, k, v, at
  <2> DEFINE T == {i \in Nat : i <= N => p[i] = Got(Part(i), q, body + off[i])}
             U == {i \in Nat : i <= c => off[i] >= 5 * i}
  <2>13. T = Nat
    <3>1. 0 \in T
      <4>1. body + off[0] = body
        BY <1>10, <2>9
      <4> QED  BY <2>7, <2>11, <4>1 DEF base
    <3>2. ASSUME NEW i \in T  PROVE i + 1 \in T
      <4> SUFFICES ASSUME i + 1 <= N  PROVE p[i + 1] = Got(Part(i + 1), q, body + off[i + 1])
        OBVIOUS
      <4>1. i + 1 \in 1..N /\ i + 1 \in 1..c /\ (i + 1) - 1 = i /\ i <= N
        BY <1>3, <2>5
      <4>2. p[i] = Got(Part(i), q, body + off[i])
        BY <3>2, <4>1
      <4>3. p[i + 1] = GetEntry(p[i])
        BY <2>7, <4>1
      <4> HIDE DEF Part, T
      <4> DEFINE j == i + 1
      <4>4. j \in 1..c /\ j - 1 = i
        BY <4>1
      <4> HIDE DEF j
      <4>5. GetEntry(Got(Part(i), q, body + off[i])) = Got(Part(j), q, body + off[j])
        BY <2>12, <4>4
      <4> QED  BY <4>2, <4>3, <4>5 DEF j
    <3> HIDE DEF T
    <3>3. T \in SUBSET Nat
      BY DEF T
    <3> QED  BY <3>1, <3>2, <3>3, NatSetInduction
  <2>14. U = Nat
    <3>1. 0 \in U
      BY <2>9
    <3>2. ASSUME NEW i \in U  PROVE i + 1 \in U
      <4> SUFFICES ASSUME i + 1 <= c  PROVE off[i + 1] >= 5 * (i + 1)
        OBVIOUS
      <4>1. i + 1 \in 1..c /\ (i + 1) - 1 = i /\ i <= c /\ i \in 0..c
        BY <1>3
      <4>2. off[i] >= 5 * i /\ off[i] \in Nat
        BY <2>9, <3>2, <4>1
      <4>3. off[i + 1] = off[i] + Len(seqs[i + 1])
        BY <2>9, <4>1
      <4>4. Len(seqs[i + 1]) >= 5 /\ Len(seqs[i + 1]) \in Nat
        <5>1. seqs[i + 1] = EntryOctets(order[i + 1], d[order[i + 1]]) /\ order[i + 1] \in S
          BY <1>3, <1>5, <4>1
        <5>2. order[i + 1] \in Texts /\ d[order[i + 1]] \in Texts
          BY <1>1, <5>1
        <5> QED  BY <5>1, <5>2, EntryOctetsType
      <4> QED  BY <4>2, <4>3, <4>4
    <3> HIDE DEF U
    <3>3. U \in SUBSET Nat
      BY DEF U
    <3> QED  BY <3>1, <3>2, <3>3, NatSetInduction
  <2>15. p[N] = Got(Part(N), q, body + off[N]) /\ off[N] >= 5 * N /\ off[c] >= 5 * c
         /\ off[N] \in Nat /\ off[c] \in Nat
    <3>1. N \in T /\ N \in U /\ c \in U
      <4> HIDE DEF T, U
      <4> QED  BY <1>3, <2>5, <2>13, <2>14
    <3>2. N \in 0..c /\ c \in 0..c
      BY <1>3, <2>5
    <3> HIDE DEF Part
    <3> QED  BY <1>3, <2>5, <2>9, <3>1, <3>2
  <2>16. CASE N = c
    <3>1. Part(c) = d
      <4>1. {order[j] : j \in 1..c} = S
        <5>1. \A x \in S : \E i \in 1..c : order[i] = x
          BY <1>2 DEF Lists, c
        <5> QED  BY <1>3, <5>1
      <4>2. d = [k \in S |-> d[k]]
        BY DEF Dicts
      <4> QED  BY <4>1, <4>2
    <3> HIDE DEF Part
    <3>2. p[N] = Got(d, q, end)
      BY <1>10, <2>9, <2>15, <2>16, <3>1
    <3> QED  BY <2>3, <2>7, <3>2 DEF end
  <2>17. CASE N # c
    <3>1. N = 1 + Len(o) \div 5 /\ N <= c
      BY <2>5, <2>17
    <3>2. 5 * N > Len(o)
      <4> DEFINE x == Len(o)
      <4>1. x \in Nat /\ N = 1 + x \div 5
        BY <1>10, <1>11, <2>1, <3>1
      <4> HIDE DEF x
      <4>2. 5 * N > x
        BY <4>1
      <4> QED  BY <4>2 DEF x
    <3>3. ~(body + off[N] <= Len(q)) /\ ~(end <= Len(q))
      <4>1. body > pos
        OBVIOUS
      <4>2. 5 * c >= 5 * N
        BY <1>3, <2>5
      <4>3. end = body + off[c]
        BY <1>10, <2>9
      <4> HIDE DEF body, o
      <4> DEFINE x == off[N]
                 y == off[c]
                 n == 5 * N
                 l == Len(q)
      <4>4. x \in Nat /\ y \in Nat /\ x >= n /\ n \in Nat /\ l \in Nat
        BY <1>10, <2>5, <2>15
      <4>5. y >= n
        BY <1>3, <2>5, <2>15, <4>2
      <4>6. n > l - pos
        BY <1>11, <3>2
      <4>7. ~(end <= l) <=> ~(body + y <= l)
        BY <4>3
      <4> HIDE DEF x, y, n, l
      <4>8. ~(body + x <= l) /\ ~(body + y <= l)
        BY <1>10, <4>1, <4>4, <4>5, <4>6
      <4> QED  BY <4>7, <4>8 DEF x, l
    <3>4. p[N] = NULL /\ Got(d, q, end) = NULL
      <4> HIDE DEF Part
      <4> QED  BY <2>15, <3>3, GotNone
    <3> QED  BY <2>3, <2>7, <3>4 DEF end
  <2> QED  BY <2>16, <2>17
<1> QED  BY <1>12, <1>13

(* Objects whose strings and headers fit the octets that state their sizes. *)
ShortObject(m) ==
    /\ \A f \in StringFields : m[f] # NULL => Len(m[f]) <= 255
    /\ m.headers # NULL => ShortDict(m.headers)

(* What is read for field f of m, content being the frames that follow.     *)
Sent(m, f, content) ==
    IF f = "content" THEN content ELSE IF m[f] = NULL THEN <<>> ELSE m[f]

(* What is read is of the field's type.                                     *)
LEMMA SentType ==
    ASSUME NEW m \in Objects, NEW f \in FieldNames, NEW content \in Frames
    PROVE  /\ f = "headers" => Sent(m, f, content) \in Dicts
           /\ f = "content" => Sent(m, f, content) \in Frames
           /\ f \in StringFields => Sent(m, f, content) \in Texts
<1>1. <<>> \in Texts
  BY DEF Texts
<1> QED  BY <1>1, EmptyDict DEF Sent, Objects, StringFields

(* Absent headers and strings are written as empty ones.                    *)
LEMMA EmptyWritten ==
    /\ PUT_NUMBER4(0) = PutEntries(<<>>, <<>>) /\ <<>> \in SetToSeqs({}) /\ ShortDict(<<>>)
    /\ PUT_NUMBER1(0) = PUT_STRING(<<>>)
<1> DEFINE none == <<>>
<1>1. Len(none) = 0 /\ DOMAIN none = {} /\ none \in Seq(Octet)
  OBVIOUS
<1>2. FlattenSeq([i \in DOMAIN none |-> PUT_STRING(none[i]) \o PUT_LONGSTR(none[none[i]])]) = none
  <2> DEFINE seqs == [i \in DOMAIN none |-> PUT_STRING(none[i]) \o PUT_LONGSTR(none[none[i]])]
  <2>1. seqs = <<>>
    OBVIOUS
  <2> HIDE DEF seqs
  <2>2. Len(seqs) = 0
    BY <2>1
  <2>3. FlattenSeq(seqs) = <<>>
    BY <2>1, <2>2 DEF FlattenSeq
  <2> QED  BY <2>3 DEF seqs
<1> DEFINE zero4 == PUT_NUMBER4(0)
           zero1 == PUT_NUMBER1(0)
<1>3. zero4 \in Seq(Octet) /\ zero1 \in Seq(Octet)
  <2>1. 0 \in Nat
    OBVIOUS
  <2> QED  BY <2>1, NumbersWritten
<1>4. PutEntries(none, none) = zero4 \o none /\ PUT_STRING(none) = zero1 \o none
  BY <1>1, <1>2 DEF PutEntries, PUT_STRING
<1> HIDE DEF zero4, zero1
<1>5. zero4 \o none = zero4 /\ zero1 \o none = zero1
  BY <1>3, ConcatEmptySeq
<1>6. none \in SetToSeqs({})
  <2>1. Cardinality({}) = 0
    BY FS_EmptySet
  <2>2. 1..0 = {} /\ none \in [{} -> {}]
    OBVIOUS
  <2> QED  BY <2>1, <2>2 DEF SetToSeqs
<1>7. ShortDict(none)
  <2>1. Cardinality({}) = 0
    BY FS_EmptySet
  <2> QED  BY <1>1, <2>1 DEF ShortDict, Max4
<1> QED  BY <1>4, <1>5, <1>6, <1>7 DEF zero4, zero1

(* A field that stands in the frame is read as what was sent, unless the    *)
(* frame ends before it does.                                               *)
LEMMA FieldAt ==
    ASSUME NullApart, NEW q \in Seq(Octet), NEW pos \in Nat,
           NEW m \in Objects, ShortObject(m), NEW order \in Orders(m),
           NEW f \in FieldNames, NEW content \in Frames, NEW old \in Objects,
           StandsAt(PutField(m, f, order), q, pos)
    PROVE  GetField(Got(old, q, pos), f, content)
              = Got([old EXCEPT ![f] = Sent(m, f, content)], q, pos + Len(PutField(m, f, order)))
<1> DEFINE r == Got(old, q, pos)
           x == Sent(m, f, content)
           new == [old EXCEPT ![f] = x]
           end == pos + Len(PutField(m, f, order))
           got == CASE f = "headers" -> GetEntries(r.rest)
                    [] f = "content" -> [value |-> content, rest |-> r.rest]
                    [] OTHER         -> GET_STRING(r.rest)
<1>1. GetField(r, f, content) = IF r = NULL THEN NULL ELSE IF got = NULL THEN NULL
         ELSE [value |-> [r.value EXCEPT ![f] = got.value], rest |-> got.rest]
  BY DEF GetField
<1>2. Len(q) \in Nat /\ end \in Nat /\ pos <= end
  <2> DEFINE a == PutField(m, f, order)
  <2>1. Len(a) \in Nat
    BY FieldWritten, LenProperties
  <2> HIDE DEF a
  <2> QED  BY <2>1, LenProperties DEF a
<1>3. x \in Texts \cup Dicts \cup Frames \cup Objects
  BY SentType DEF FieldNames
<1> HIDE DEF x, end
<1>4. CASE ~(pos <= Len(q))
  <2>1. ~(end <= Len(q))
    BY <1>2, <1>4
  <2>2. r = NULL /\ Got(new, q, end) = NULL
    BY <1>4, <2>1, GotNone
  <2> HIDE DEF got, r
  <2> QED  BY <1>1, <2>2 DEF end, x, r
<1>5. CASE pos <= Len(q)
  <2>1. r # NULL /\ r.value = old /\ r.rest = From(q, pos)
    BY <1>5, GotSome
  <2>2. got = Got(x, q, end)
    <3>1. CASE f = "headers"
      <4>1. got = GetEntries(From(q, pos))
        BY <2>1, <3>1
      <4>2. CASE m.headers = NULL
        <5> DEFINE none == <<>>
        <5>1. PutField(m, f, order) = PutEntries(none, none) /\ x = none
          BY <3>1, <4>2, EmptyWritten DEF PutField, x, Sent
        <5>2. none \in Dicts /\ DOMAIN none = {} /\ none \in SetToSeqs({}) /\ ShortDict(none)
          BY EmptyDict, EmptyWritten
        <5> HIDE DEF none, got, r
        <5>3. StandsAt(PutEntries(none, none), q, pos) /\ none \in SetToSeqs(DOMAIN none)
          BY <5>1, <5>2
        <5>4. GetEntries(From(q, pos)) = Got(none, q, pos + Len(PutEntries(none, none)))
          BY <1>5, <5>2, <5>3, EntriesAt
        <5> QED  BY <4>1, <5>1, <5>4 DEF end
      <4>3. CASE m.headers # NULL
        <5> DEFINE d == m.headers
        <5>1. PutField(m, f, order) = PutEntries(d, order) /\ x = d
          BY <3>1, <4>3 DEF PutField, x, Sent
        <5>2. d \in Dicts /\ order \in SetToSeqs(DOMAIN d) /\ ShortDict(d)
          BY <4>3 DEF Objects, Orders, ShortObject
        <5> HIDE DEF d, got, r
        <5>3. StandsAt(PutEntries(d, order), q, pos)
          BY <5>1
        <5>4. GetEntries(From(q, pos)) = Got(d, q, pos + Len(PutEntries(d, order)))
          BY <1>5, <5>2, <5>3, EntriesAt
        <5> QED  BY <4>1, <5>1, <5>4 DEF end
      <4> QED  BY <4>2, <4>3
    <3>2. CASE f = "content"
      <4>1. got = [value |-> content, rest |-> From(q, pos)] /\ x = content
        BY <2>1, <3>2 DEF x, Sent
      <4>2. end = pos
        <5>1. PutField(m, f, order) = <<>>
          BY <3>2 DEF PutField
        <5> QED  BY <5>1 DEF end
      <4> QED  BY <1>5, <4>1, <4>2 DEF Got
    <3>3. CASE f \in StringFields
      <4>1. got = GET_STRING(From(q, pos))
        BY <2>1, <3>3 DEF StringFields
      <4>2. x \in Texts /\ PutField(m, f, order) = PUT_STRING(x)
        <5>1. x \in Texts
          BY <3>3, SentType DEF x
        <5>2. CASE m[f] = NULL
          BY <3>3, <5>1, <5>2, EmptyWritten DEF x, Sent, PutField, StringFields
        <5>3. CASE m[f] # NULL
          BY <3>3, <5>1, <5>3 DEF x, Sent, PutField, StringFields
        <5> QED  BY <5>1, <5>2, <5>3
      <4>3. Len(x) <= 255
        <5>1. CASE m[f] = NULL
          <6>1. x = <<>>
            BY <3>3, <5>1 DEF x, Sent, StringFields
          <6> QED  BY <6>1
        <5>2. CASE m[f] # NULL
          BY <3>3, <5>2 DEF x, Sent, StringFields, ShortObject
        <5> QED  BY <5>1, <5>2
      <4> HIDE DEF got, r
      <4>4. GET_STRING(From(q, pos)) = Got(x, q, pos + Len(PUT_STRING(x)))
        BY <1>5, <4>2, <4>3, StringAt
      <4> QED  BY <4>1, <4>2, <4>4 DEF end
    <3> QED  BY <3>1, <3>2, <3>3 DEF FieldNames
  <2> HIDE DEF got
  <2>3. CASE ~(end <= Len(q))
    <3>1. got = NULL /\ Got(new, q, end) = NULL
      BY <2>2, <2>3, GotNone
    <3> QED  BY <1>1, <3>1 DEF end, x
  <2>4. CASE end <= Len(q)
    <3>1. got # NULL /\ got.value = x /\ got.rest = From(q, end)
      BY <1>2, <1>3, <2>2, <2>4, GotSome
    <3>2. GetField(r, f, content) = [value |-> new, rest |-> From(q, end)]
      BY <1>1, <2>1, <3>1
    <3>3. Got(new, q, end) = [value |-> new, rest |-> From(q, end)]
      BY <2>4 DEF Got
    <3> QED  BY <3>2, <3>3 DEF end, x
  <2> QED  BY <2>3, <2>4
<1> QED  BY <1>4, <1>5

(* The object that is read for m, content being the frames that follow.     *)
ReadUpTo(m, names, content) ==
    [f \in DOMAIN m |-> IF f = "id" THEN m.id ELSE IF f \in names THEN Sent(m, f, content) ELSE NULL]

(* ... with all fields of its id.                                           *)
Received(m, content) == ReadUpTo(m, FieldsOf(m.id), content)

(* It is an object at every stage.                                          *)
LEMMA ReadUpToType ==
    ASSUME NEW m \in Objects, NEW names \in SUBSET FieldNames, NEW content \in Frames
    PROVE  /\ ReadUpTo(m, names, content) \in Objects
           /\ ReadUpTo(m, {}, content) = zccp_msg_new(m.id)
<1>1. /\ Sent(m, "headers", content) \in Dicts /\ Sent(m, "content", content) \in Frames
      /\ \A f \in StringFields : Sent(m, f, content) \in Texts
  BY SentType DEF FieldNames
<1>2. "id" \notin FieldNames /\ "routing_id" \notin FieldNames
  BY DEF FieldNames, StringFields
<1>3. DOMAIN m = {"routing_id", "id", "identifier", "headers", "expression", "address", "content",
                  "sender"} /\ m.id \in MessageIds \cup {0}
  BY DEF Objects
<1>4. ReadUpTo(m, names, content) \in Objects
  BY <1>1, <1>2, <1>3 DEF ReadUpTo, Objects, StringFields
<1>5. ReadUpTo(m, {}, content) = zccp_msg_new(m.id)
  BY <1>3 DEF ReadUpTo, zccp_msg_new
<1> QED  BY <1>4, <1>5

(* A frame that agrees with the encoding of m as far as it goes is decoded  *)
(* as m if it is as long, and refused if it is shorter.                     *)
LEMMA DecodeAt ==
    ASSUME NullApart, NEW m \in Objects, m.id \in MessageIds, ShortObject(m), NEW order \in Orders(m),
           NEW z \in Frames, z # <<>>, StandsAt(Serialized(m, order), Head(z), 0)
    PROVE  zccp_msg_decode(z) = IF Len(Serialized(m, order)) <= Len(Head(z))
                                THEN Received(m, Tail(z)) ELSE NULL
<1> DEFINE q == Head(z)
           content == Tail(z)
           id == m.id
           layout == Layout[id]
           S == FieldsOf(id)
           n == Len(layout)
           seqs == [i \in DOMAIN layout |-> PutField(m, layout[i], order)]
           flat == FlattenSeq(seqs)
           number == PUT_NUMBER1(id)
           start == Signature \o number
           NamesUpTo(i) == {layout[j] : j \in 1..i}
           V == FieldReaders \cup {NULL}
           total == Len(Serialized(m, order))
<1>0. q \in Seq(Octet) /\ content \in Frames
  BY HeadTailProperties DEF Frames
<1> HIDE DEF q, content
<1>1. /\ Lists(layout, S) /\ DOMAIN layout = 1..n /\ IsFiniteSet(S) /\ S \subseteq FieldNames
      /\ id \in 1..12
  BY LayoutLists, LayoutFields
<1>2. n \in Nat /\ \A i \in 1..n : layout[i] \in S /\ layout[i] \in FieldNames
  BY <1>1, LenProperties, ElementOfSeq DEF Lists
<1>3. seqs \in Seq(Seq(Octet)) /\ Len(seqs) = n
      /\ \A i \in 1..n : seqs[i] = PutField(m, layout[i], order)
  <2>1. \A i \in 1..n : PutField(m, layout[i], order) \in Seq(Octet)
    BY <1>2, FieldWritten
  <2>2. seqs = [i \in 1..n |-> PutField(m, layout[i], order)]
    BY <1>1
  <2> HIDE DEF seqs, n, layout
  <2> QED  BY <1>2, <2>1, <2>2
<1>4. Serialized(m, order) = start \o flat
  BY DEF Serialized
<1> HIDE DEF seqs
<1>5. flat \in Seq(Octet) /\ Len(flat) \in Nat
  <2>1. flat \in Seq(Octet)
    <3> DEFINE c == Len(seqs)
    <3>1. PICK p \in [0..c -> Seq(Octet)] : p[c] = flat
      BY <1>3, FlattenSteps
    <3>2. c \in Nat /\ c \in 0..c
      BY <1>2, <1>3
    <3> HIDE DEF c
    <3> QED  BY <3>1, <3>2
  <2> QED  BY <2>1, LenProperties
<1>6. Signature \in Seq(Octet) /\ Len(Signature) = 2 /\ number \in Seq(Octet) /\ number = <<id>>
      /\ Len(number) = 1
  <2>1. id \in Nat /\ 43690 \in Nat /\ id % 256 = id
    <3>1. \A i \in 1..12 : i \in Nat /\ i % 256 = i
      OBVIOUS
    <3> QED  BY <1>1, <3>1
  <2> QED  BY <2>1, NumbersWritten DEF Signature, PUT_NUMBER1
<1> HIDE DEF flat, number
<1>7. start \in Seq(Octet) /\ Len(start) = 3 /\ total = 3 + Len(flat)
  <2>1. start \in Seq(Octet) /\ Len(start) = Len(Signature) + Len(number)
    BY <1>6, ConcatProperties
  <2> HIDE DEF start
  <2>2. Len(start \o flat) = Len(start) + Len(flat)
    BY <1>5, <2>1, ConcatProperties
  <2> QED  BY <1>4, <1>6, <2>1, <2>2
<1>8. StandsAt(Signature, q, 0) /\ StandsAt(number, q, 2) /\ StandsAt(flat, q, 3)
  <2> DEFINE zero == 0
             two == zero + Len(Signature)
             three == zero + Len(start)
  <2>1. zero \in Nat /\ StandsAt(start \o flat, q, zero)
    BY <1>4 DEF q
  <2> HIDE DEF zero
  <2>2. StandsAt(Signature \o number, q, zero) /\ StandsAt(flat, q, three)
    BY <1>0, <1>5, <1>7, <2>1, StandsApart
  <2>3. StandsAt(Signature, q, zero) /\ StandsAt(number, q, two)
    BY <1>0, <1>6, <2>1, <2>2, StandsApart
  <2>4. two = 2 /\ three = 3 /\ zero = 0
    BY <1>6, <1>7 DEF zero
  <2> QED  BY <2>2, <2>3, <2>4
<1>9. Len(q) \in Nat
  BY <1>0, LenProperties
<1> DEFINE key == q[3]
           base == [value |-> zccp_msg_new(key), rest |-> SubSeq(q, 4, Len(q))]
           read == ReadFields(base, Layout[key], content)
<1>10. zccp_msg_decode(z) = IF \/ z = <<>> \/ Len(q) < 3 \/ SubSeq(q, 1, 2) # Signature
                               \/ key \notin MessageIds \/ read = NULL
                            THEN NULL ELSE read.value
  BY DEF zccp_msg_decode, ReadFields, q, content
<1>11. CASE Len(q) < 3
  <2>1. ~(total <= Len(q))
    BY <1>5, <1>7, <1>9, <1>11
  <2> HIDE DEF total, key, read
  <2>2. zccp_msg_decode(z) = NULL
    BY <1>10, <1>11
  <2> QED  BY <2>1, <2>2 DEF total, q
<1>12. CASE ~(Len(q) < 3)
  <2>0. 3 <= Len(q) /\ 2 <= Len(q)
    BY <1>9, <1>12
  <2>1. key = id
    <3>1. \A j \in 1..Len(number) : 2 + j <= Len(q) => q[2 + j] = number[j]
      BY <1>8 DEF StandsAt
    <3>2. 1 \in 1..Len(number) /\ 2 + 1 <= Len(q) /\ number[1] = id
      BY <1>6, <2>0
    <3> QED  BY <3>1, <3>2
  <2>2. SubSeq(q, 1, 2) = Signature
    <3> DEFINE s == SubSeq(q, 1, 2)
    <3>1. \A j \in 1..Len(Signature) : 0 + j <= Len(q) => q[0 + j] = Signature[j]
      BY <1>8 DEF StandsAt
    <3>2. s \in Seq(Octet) /\ Len(s) = 2 /\ \A i \in 1..2 : s[i] = q[i]
      <4> DEFINE a == 1
                 b == 2
      <4>1. a \in Nat /\ a > 0 /\ b \in Nat /\ b <= Len(q)
        BY <2>0
      <4> HIDE DEF a, b
      <4>2. /\ SubSeq(q, a, b) \in Seq(Octet)
            /\ Len(SubSeq(q, a, b)) = IF a <= b THEN b - a + 1 ELSE 0
            /\ \A i \in 1..(b - a + 1) : SubSeq(q, a, b)[i] = q[a + i - 1]
        BY <1>0, <4>1, PartOf
      <4> HIDE DEF s
      <4>3. s = SubSeq(q, a, b) /\ a = 1 /\ b = 2
        BY DEF s, a, b
      <4>4. \A i \in 1..2 : i \in 1..(b - a + 1) /\ a + i - 1 = i
        BY <4>3
      <4> QED  BY <4>2, <4>3, <4>4
    <3> HIDE DEF s
    <3>3. \A i \in 1..Len(s) : s[i] = Signature[i]
      <4>1. ASSUME NEW i \in 1..2  PROVE s[i] = Signature[i]
        <5>1. i \in 1..Len(Signature) /\ 0 + i <= Len(q) /\ 0 + i = i
          BY <1>6, <1>9, <2>0
        <5> QED  BY <3>1, <3>2, <5>1
      <4> QED  BY <3>2, <4>1
    <3>4. s = Signature
      BY <1>6, <3>2, <3>3, SeqEqual
    <3> QED  BY <3>4 DEF s
  <2> DEFINE first == ReadUpTo(m, {}, content)
             got == Got(first, q, 3)
  <2>3. base = got /\ first \in Objects
    <3>1. base = [value |-> zccp_msg_new(id), rest |-> From(q, 3)]
      BY <2>1 DEF From
    <3>2. first = zccp_msg_new(id) /\ first \in Objects
      <4>1. {} \in SUBSET FieldNames
        OBVIOUS
      <4> QED  BY <1>0, <4>1, ReadUpToType
    <3> HIDE DEF base, first
    <3> QED  BY <2>0, <3>1, <3>2 DEF Got
  <2>4. zccp_msg_decode(z) = LET r == ReadFields(got, layout, content)
                             IN  IF r = NULL THEN NULL ELSE r.value
    <3>1. read = ReadFields(got, layout, content)
      BY <2>1, <2>3
    <3> HIDE DEF read, key, got, layout
    <3> QED  BY <1>10, <1>12, <2>1, <2>2, <3>1
  <2>5. got \in V
    <3>1. From(q, 3) \in Seq(Octet)
      <4> DEFINE three == 3
      <4>1. three \in Nat /\ three <= Len(q)
        BY <2>0
      <4> HIDE DEF three
      <4>2. From(q, three) \in Seq(Octet)
        BY <1>0, <4>1, FromProperties
      <4> QED  BY <4>2 DEF three
    <3> HIDE DEF first
    <3> QED  BY <2>0, <2>3, <3>1 DEF Got, FieldReaders
  <2>6. \A v \in V : \A i \in 1..n : GetField(v, layout[i], content) \in V
    BY <1>0, <1>2, FieldType
  <2> HIDE DEF V, n, got, layout
  <2>7. FieldsRun(got, n, layout, content, V)
    BY <1>1, <1>2, <2>5, <2>6, FieldFold
  <2>8. PICK p : /\ p[0] = got /\ p[n] = ReadFields(got, layout, content)
                 /\ \A i \in 1..n : p[i] = GetField(p[i - 1], layout[i], content)
    BY <2>7 DEF FieldsRun
  <2> DEFINE body == 3
  <2>9. body \in Nat /\ StandsAt(flat, q, body)
    BY <1>8
  <2> HIDE DEF body
  <2>10. PICK off : Laid(seqs, q, body, off)
    BY <1>0, <1>3, <2>9, FlattenStands DEF flat
  <2>11. /\ off \in [0..n -> Nat] /\ off[0] = 0 /\ off[n] = Len(flat)
         /\ \A i \in 1..n : /\ off[i] = off[i - 1] + Len(seqs[i])
                            /\ StandsAt(seqs[i], q, body + off[i - 1])
    BY <1>3, <2>10 DEF Laid, flat
  <2> DEFINE At(i) == Got(ReadUpTo(m, NamesUpTo(i), content), q, body + off[i])
             T == {i \in Nat : i <= n => p[i] = At(i)}
  <2>12. ASSUME NEW i \in 0..n  PROVE NamesUpTo(i) \in SUBSET FieldNames
    BY <1>2
  <2>13. ASSUME NEW i \in 1..n  PROVE GetField(At(i - 1), layout[i], content) = At(i)
    <3> DEFINE f == layout[i]
               old == ReadUpTo(m, NamesUpTo(i - 1), content)
               at == body + off[i - 1]
               a == PutField(m, f, order)
    <3>1. i - 1 \in 0..n /\ f \in FieldNames /\ 1..i = (1..(i - 1)) \cup {i}
      BY <1>2
    <3>2. NamesUpTo(i - 1) \in SUBSET FieldNames /\ NamesUpTo(i) = NamesUpTo(i - 1) \cup {f}
      BY <2>12, <3>1
    <3>3. /\ off[i - 1] \in Nat /\ off[i] = off[i - 1] + Len(a) /\ StandsAt(a, q, at)
      BY <1>3, <2>11, <3>1
    <3>4. at \in Nat /\ Len(a) \in Nat
      <4>1. a \in Seq(Octet)
        BY <3>1, FieldWritten
      <4> HIDE DEF a
      <4> QED  BY <2>9, <3>3, <4>1, LenProperties
    <3>5. at + Len(a) = body + off[i]
      <4> HIDE DEF a
      <4> QED  BY <2>9, <3>3, <3>4
    <3> DEFINE before == NamesUpTo(i - 1)
               after == NamesUpTo(i)
    <3>a. f \in FieldNames /\ before \in SUBSET FieldNames /\ after = before \cup {f}
      BY <3>1, <3>2
    <3>b. at \in Nat /\ StandsAt(a, q, at)
      BY <3>3, <3>4
    <3> HIDE DEF NamesUpTo, f, at, body, At, before, after
    <3>6. ReadUpTo(m, before, content) \in Objects
      BY <1>0, <3>a, ReadUpToType
    <3>d. [ReadUpTo(m, before, content) EXCEPT ![f] = Sent(m, f, content)]
             = ReadUpTo(m, before \cup {f}, content)
      <4>1. f # "id" /\ f \in DOMAIN m
        BY <3>a DEF FieldNames, StringFields, Objects
      <4> QED  BY <4>1 DEF ReadUpTo
    <3>c. old = ReadUpTo(m, before, content)
      BY DEF before
    <3> HIDE DEF old
    <3>7. GetField(Got(old, q, at), f, content)
             = Got([old EXCEPT ![f] = Sent(m, f, content)], q, at + Len(PutField(m, f, order)))
      BY <1>0, <3>a, <3>b, <3>6, <3>c, FieldAt
    <3>8. At(i - 1) = Got(old, q, at) /\ At(i) = Got(ReadUpTo(m, NamesUpTo(i), content), q, body + off[i])
      BY DEF At, old, at
    <3> QED  BY <3>5, <3>7, <3>8, <3>a, <3>c, <3>d DEF f, after
  <2>14. T = Nat
    <3>1. 0 \in T
      <4>1. NamesUpTo(0) = {}
        OBVIOUS
      <4>2. body + off[0] = 3
        BY <2>11 DEF body
      <4>3. p[0] = At(0)
        BY <2>8, <4>1, <4>2 DEF got
      <4> HIDE DEF At
      <4> QED  BY <4>3
    <3> HIDE DEF At
    <3>2. ASSUME NEW i \in T  PROVE i + 1 \in T
      <4> SUFFICES ASSUME i + 1 <= n  PROVE p[i + 1] = At(i + 1)
        OBVIOUS
      <4> DEFINE j == i + 1
      <4>1. j \in 1..n /\ j - 1 = i /\ p[i] = At(i)
        BY <1>2, <3>2
      <4> HIDE DEF j
      <4>2. p[j] = GetField(p[j - 1], layout[j], content)
        BY <2>8, <4>1
      <4>3. GetField(At(j - 1), layout[j], content) = At(j)
        BY <2>13, <4>1
      <4> QED  BY <4>1, <4>2, <4>3 DEF j
    <3> HIDE DEF T
    <3>3. T \in SUBSET Nat
      BY DEF T
    <3> QED  BY <3>1, <3>2, <3>3, NatSetInduction
  <2>15. ReadFields(got, layout, content) = At(n)
    <3>1. n \in T
      <4> HIDE DEF T
      <4> QED  BY <1>2, <2>14
    <3> HIDE DEF At
    <3> QED  BY <1>2, <2>8, <3>1
  <2>16. NamesUpTo(n) = S
    <3>1. \A x \in S : \E i \in 1..n : layout[i] = x
      BY <1>1 DEF Lists, n
    <3> QED  BY <1>2, <3>1
  <2>17. body + off[n] = total
    BY <1>7, <2>11 DEF body
  <2> DEFINE all == Received(m, content)
  <2>18. ReadFields(got, layout, content) = Got(all, q, total)
    BY <2>15, <2>16, <2>17 DEF Received
  <2>19. all \in Objects /\ total \in Nat
    <3>1. total \in Nat
      BY <1>5, <1>7
    <3> QED  BY <1>0, <1>1, <3>1, ReadUpToType DEF Received
  <2> HIDE DEF all, total
  <2>20. CASE total <= Len(q)
    <3>1. Got(all, q, total) # NULL /\ Got(all, q, total).value = all
      BY <1>0, <2>19, <2>20, GotSome
    <3> QED  BY <2>4, <2>18, <2>20, <3>1 DEF total, all, q, content
  <2>21. CASE ~(total <= Len(q))
    <3>1. Got(all, q, total) = NULL
      BY <2>21, GotNone
    <3> QED  BY <2>4, <2>18, <2>21, <3>1 DEF total, q
  <2> QED  BY <2>20, <2>21
<1> QED  BY <1>11, <1>12

-----------------------------------------------------------------------------
(* Encoded and decoded again; cut short.                                    *)

(* The first n octets agree with the frame they are cut from.               *)
LEMMA StandsAtStart ==
    ASSUME NEW o \in Seq(Octet), NEW n \in Nat, n <= Len(o)
    PROVE  /\ SubSeq(o, 1, n) \in Seq(Octet) /\ Len(SubSeq(o, 1, n)) = n
           /\ StandsAt(o, SubSeq(o, 1, n), 0)
<1> DEFINE a == 1
           s == SubSeq(o, a, n)
<1>1. a \in Nat /\ a > 0 /\ Len(o) \in Nat
  BY LenProperties
<1> HIDE DEF a
<1>2. /\ s \in Seq(Octet) /\ Len(s) = IF a <= n THEN n - a + 1 ELSE 0
      /\ \A i \in 1..(n - a + 1) : s[i] = o[a + i - 1]
  BY <1>1, PartOf
<1> HIDE DEF s
<1>3. Len(s) = n /\ \A i \in 1..n : s[i] = o[i]
  <2>1. a = 1
    BY DEF a
  <2>2. \A i \in 1..n : i \in 1..(n - a + 1) /\ a + i - 1 = i
    BY <2>1
  <2>3. Len(s) = n
    BY <1>2, <2>1
  <2>4. \A i \in 1..n : s[i] = o[i]
    BY <1>2, <2>2
  <2> QED  BY <2>3, <2>4
<1>4. StandsAt(o, s, 0)
  <2>1. \A j \in 1..Len(o) : 0 + j <= Len(s) => 0 + j \in 1..n /\ 0 + j = j
    BY <1>1, <1>3
  <2> QED  BY <1>3, <2>1 DEF StandsAt
<1> QED  BY <1>2, <1>3, <1>4 DEF s, a

(* A message that is encoded and decoded again is what it was meant to be.  *)
LEMMA RoundTrip ==
    ASSUME NullApart, NEW m \in Objects, m.id \in MessageIds, ShortObject(m), NEW order \in Orders(m)
    PROVE  zccp_msg_decode(zccp_msg_encode(m, order)) = Meant(m)
<1> DEFINE o == Serialized(m, order)
           c == ContentFrames(m)
           z == zccp_msg_encode(m, order)
           S == FieldsOf(m.id)
<1>1. o \in Seq(Octet) /\ z \in Frames
  BY FrameWritten, EncodeType
<1>2. z = <<o>> \o c
  BY DEF zccp_msg_encode
<1>3. c = IF "content" \notin S THEN <<>> ELSE IF m.content = NULL THEN << <<>> >> ELSE m.content
  BY DEF ContentFrames
<1>4. c \in Frames
  <2> DEFINE none == <<>>
  <2>1. none \in Seq(Octet)
    OBVIOUS
  <2> HIDE DEF none
  <2>2. <<>> \in Frames /\ <<none>> \in Frames
    BY <2>1 DEF Frames
  <2>3. m.content \in Frames \cup {NULL}
    BY DEF Objects
  <2> HIDE DEF c
  <2> QED  BY <1>3, <2>2, <2>3 DEF none
<1> HIDE DEF o, c, z
<1>5. z # <<>> /\ Head(z) = o /\ Tail(z) = c
  <2>1. <<o>> \in Frames /\ Len(<<o>>) = 1
    BY <1>1 DEF Frames
  <2> QED  BY <1>1, <1>2, <1>4 DEF Frames
<1>6. StandsAt(o, o, 0) /\ Len(o) <= Len(o)
  <2> DEFINE n == Len(o)
  <2>1. n \in Nat /\ n <= Len(o)
    BY <1>1, LenProperties
  <2>2. SubSeq(o, 1, n) = o
    BY <1>1, SubSeqFull
  <2> HIDE DEF n
  <2>3. StandsAt(o, SubSeq(o, 1, n), 0)
    BY <1>1, <2>1, StandsAtStart
  <2> QED  BY <2>1, <2>2, <2>3 DEF n
<1>7. zccp_msg_decode(z) = Received(m, c)
  <2>1. StandsAt(Serialized(m, order), Head(z), 0)
    BY <1>5, <1>6 DEF o
  <2>2. zccp_msg_decode(z) = IF Len(Serialized(m, order)) <= Len(Head(z))
                             THEN Received(m, Tail(z)) ELSE NULL
    BY <1>1, <1>5, <2>1, DecodeAt
  <2> QED  BY <1>5, <1>6, <2>2 DEF o
<1>8. Received(m, c) = Meant(m)
  BY <1>3 DEF Received, ReadUpTo, Sent, Meant
<1> QED  BY <1>7, <1>8 DEF z

(* A frame that was cut is refused.                                         *)
LEMMA CutRefused ==
    ASSUME NullApart, NEW m \in Objects, m.id \in MessageIds, ShortObject(m), NEW order \in Orders(m),
           NEW n \in 0..(Len(Serialized(m, order)) - 1)
    PROVE  zccp_msg_decode(<<SubSeq(Serialized(m, order), 1, n)>>) = NULL
<1> DEFINE o == Serialized(m, order)
           s == SubSeq(o, 1, n)
           z == <<s>>
<1>1. o \in Seq(Octet) /\ Len(o) \in Nat
  BY FrameWritten, LenProperties
<1>2. n \in Nat /\ n <= Len(o) /\ ~(Len(o) <= n)
  BY <1>1
<1> HIDE DEF o
<1>3. s \in Seq(Octet) /\ Len(s) = n /\ StandsAt(o, s, 0)
  BY <1>1, <1>2, StandsAtStart
<1> HIDE DEF s
<1>4. z \in Frames /\ z # <<>> /\ Head(z) = s
  BY <1>3 DEF Frames
<1> HIDE DEF z
<1>5. StandsAt(Serialized(m, order), Head(z), 0) /\ ~(Len(Serialized(m, order)) <= Len(Head(z)))
  BY <1>2, <1>3, <1>4 DEF o
<1>6. zccp_msg_decode(z) = IF Len(Serialized(m, order)) <= Len(Head(z))
                           THEN Received(m, Tail(z)) ELSE NULL
  BY <1>4, <1>5, DecodeAt
<1> QED  BY <1>5, <1>6 DEF z, s, o

(* Numbers of four octets are not greater.                                  *)
LEMMA Number4Within ==
    ASSUME NEW o \in Seq(Octet), Len(o) >= 4
    PROVE  GET_NUMBER4(o) \in Nat /\ GET_NUMBER4(o) <= Max4
<1> DEFINE p == o[1]  q == o[2]  r == o[3]  s == o[4]
           n == GET_NUMBER4(o)
<1>1. 1 \in 1..Len(o) /\ 2 \in 1..Len(o) /\ 3 \in 1..Len(o) /\ 4 \in 1..Len(o)
  BY LenProperties
<1>2. p \in Octet /\ q \in Octet /\ r \in Octet /\ s \in Octet
  BY <1>1, ElementOfSeq
<1>3. n = p * 16777216 + q * 65536 + r * 256 + s
  BY SMT DEF GET_NUMBER4
<1> HIDE DEF p, q, r, s, n
<1>4. /\ p \in Nat /\ p <= 255 /\ q \in Nat /\ q <= 255
      /\ r \in Nat /\ r <= 255 /\ s \in Nat /\ s <= 255
  BY <1>2, Octets
<1>5. n \in Nat /\ n <= Max4
  BY <1>3, <1>4, SMT DEF Max4
<1> QED  BY <1>5 DEF n

(* What is read fits the octets that stated its length.                     *)
LEMMA ReadWithin ==
    ASSUME NEW o \in Seq(Octet)
    PROVE  /\ GET_STRING(o) # NULL => Len(GET_STRING(o).value) <= 255
           /\ GET_LONGSTR(o) # NULL => Len(GET_LONGSTR(o).value) <= Max4
<1>1. ASSUME NEW s \in Seq(Octet)  PROVE Len(CString(s)) <= Len(s)
  <2> DEFINE zeros == {i \in 1..Len(s) : s[i] = 0}
             end == SelectInSeq(s, LAMBDA b : b = 0)
  <2>0. Len(s) \in Nat
    BY LenProperties
  <2>1. end = IF zeros # {} THEN Min(zeros) ELSE 0
    BY DEF SelectInSeq
  <2>2. CString(s) = IF end = 0 THEN s ELSE SubSeq(s, 1, end - 1)
    BY DEF CString
  <2>3. CASE zeros = {}
    <3>1. CString(s) = s
      BY <2>1, <2>2, <2>3
    <3> QED  BY <2>0, <3>1
  <2>4. CASE zeros # {}
    <3>1. zeros \in SUBSET (1..Len(s))
      OBVIOUS
    <3> HIDE DEF zeros
    <3>2. end \in zeros
      BY <2>0, <2>1, <2>4, <3>1, LeastOf
    <3> HIDE DEF end
    <3>3. end \in 1..Len(s)
      BY <3>1, <3>2
    <3>4. CString(s) = SubSeq(s, 1, end - 1)
      BY <2>2, <3>3
    <3>5. end - 1 \in Nat /\ end - 1 <= Len(s)
      BY <2>0, <3>3
    <3>6. Len(SubSeq(s, 1, end - 1)) = end - 1
      BY <3>5, StandsAtStart
    <3> QED  BY <3>4, <3>5, <3>6
  <2> QED  BY <2>3, <2>4
<1>2. ASSUME NEW k \in Nat, NEW n \in Nat, Text(o, k, n) # NULL  PROVE Len(Text(o, k, n).value) <= n
  <2> DEFINE t == SubSeq(o, k + 1, k + n)
  <2>1. ~(k + n > Len(o)) /\ Len(o) \in Nat
    BY <1>2, LenProperties DEF Text
  <2>2. Text(o, k, n).value = CString(t)
    BY <2>1 DEF Text
  <2>3. t \in Seq(Octet) /\ Len(t) = n
    <3> DEFINE a == k + 1
               b == k + n
    <3>1. a \in Nat /\ a > 0 /\ b \in Nat /\ b <= Len(o)
      BY <2>1
    <3> HIDE DEF a, b
    <3>2. SubSeq(o, a, b) \in Seq(Octet) /\ Len(SubSeq(o, a, b)) = IF a <= b THEN b - a + 1 ELSE 0
      BY <3>1, PartOf
    <3>3. (IF a <= b THEN b - a + 1 ELSE 0) = n
      BY DEF a, b
    <3> QED  BY <3>2, <3>3 DEF a, b
  <2> HIDE DEF t
  <2>4. Len(CString(t)) <= n
    BY <1>1, <2>3
  <2> QED  BY <2>2, <2>4
<1>3. Len(o) \in Nat /\ \A i \in 1..Len(o) : o[i] \in Octet
  BY LenProperties, ElementOfSeq
<1>4. ASSUME GET_STRING(o) # NULL  PROVE Len(GET_STRING(o).value) <= 255
  <2> DEFINE n == GET_NUMBER1(o)
             one == 1
  <2>1. Len(o) >= 1 /\ GET_STRING(o) = Text(o, 1, n)
    BY <1>3, <1>4 DEF GET_STRING
  <2>2. n \in Nat /\ n <= 255
    <3>1. 1 \in 1..Len(o) /\ n = o[1]
      BY <1>3, <2>1 DEF GET_NUMBER1
    <3> HIDE DEF n
    <3>2. n \in Octet
      BY <1>3, <3>1
    <3> QED  BY <3>2 DEF Octet
  <2>3. one \in Nat /\ GET_STRING(o) = Text(o, one, n)
    BY <2>1
  <2> HIDE DEF n, one
  <2>4. Len(Text(o, one, n).value) <= n
    BY <1>2, <1>4, <2>2, <2>3
  <2>5. Len(Text(o, one, n).value) \in Nat
    <3>1. GET_STRING(o).value \in Texts
      BY <1>4, StringType DEF TextReaders
    <3> QED  BY <2>3, <3>1, StringsWritten
  <2> QED  BY <2>2, <2>3, <2>4, <2>5
<1>5. ASSUME GET_LONGSTR(o) # NULL  PROVE Len(GET_LONGSTR(o).value) <= Max4
  <2> DEFINE n == GET_NUMBER4(o)
             four == 4
  <2>1. Len(o) >= 4 /\ GET_LONGSTR(o) = Text(o, 4, n)
    BY <1>3, <1>5 DEF GET_LONGSTR
  <2>2. n \in Nat /\ n <= Max4
    BY <2>1, Number4Within
  <2>3. four \in Nat /\ GET_LONGSTR(o) = Text(o, four, n)
    BY <2>1
  <2> HIDE DEF n, four
  <2>4. Len(Text(o, four, n).value) <= n
    BY <1>2, <1>5, <2>2, <2>3
  <2>5. Len(Text(o, four, n).value) \in Nat
    <3>1. GET_LONGSTR(o).value \in Texts
      BY <1>5, StringType DEF TextReaders
    <3> QED  BY <2>3, <3>1, StringsWritten
  <2>6. Max4 \in Nat
    BY SMT DEF Max4
  <2> QED  BY <2>2, <2>3, <2>4, <2>5, <2>6
<1> QED  BY <1>4, <1>5

-----------------------------------------------------------------------------
(* What is accepted from any program.                                       *)

(* Dictionaries of any size whose names and values fit.                     *)
LimitedDict(d) == \A k \in DOMAIN d : Len(k) <= 255 /\ Len(d[k]) <= Max4

(* Entries that are read fit, and there are no more of them than their      *)
(* count says.                                                              *)
LEMMA EntriesWithin ==
    ASSUME NEW o \in Seq(Octet), GetEntries(o) # NULL
    PROVE  ShortDict(GetEntries(o).value)
<1> DEFINE V == {r \in EntryReaders : LimitedDict(r.value)} \cup {NULL}
           n == Min({GET_NUMBER4(o), 1 + Len(o) \div 5})
           none == <<>>
           base == [value |-> none, rest |-> SubSeq(o, 5, Len(o))]
<1>1. ASSUME NEW r \in V  PROVE GetEntry(r) \in V
  <2> DEFINE key == GET_STRING(r.rest)
             value == GET_LONGSTR(key.rest)
  <2>1. GetEntry(r) \in EntryReaders \cup {NULL}
    BY EntryType
  <2>2. CASE GetEntry(r) = NULL
    BY <2>2
  <2>3. CASE GetEntry(r) # NULL
    <3>1. GetEntry(r) = IF r = NULL THEN NULL ELSE IF key = NULL THEN NULL ELSE IF value = NULL THEN NULL
                ELSE [value |-> zhash_insert(r.value, key.value, value.value), rest |-> value.rest]
      BY DEF GetEntry
    <3> HIDE DEF key, value
    <3>2. /\ r # NULL /\ key # NULL /\ value # NULL
          /\ GetEntry(r).value = zhash_insert(r.value, key.value, value.value)
      BY <2>3, <3>1
    <3>3. r.value \in Dicts /\ r.rest \in Seq(Octet) /\ LimitedDict(r.value)
      BY <3>2 DEF EntryReaders
    <3>4. Len(key.value) <= 255 /\ key.rest \in Seq(Octet)
      BY <3>2, <3>3, ReadWithin, StringType DEF key, TextReaders
    <3>5. Len(value.value) <= Max4
      BY <3>2, <3>4, ReadWithin DEF value
    <3> DEFINE k == key.value  v == value.value  d == r.value
    <3>6. LimitedDict(zhash_insert(d, k, v))
      <4>1. LimitedDict(d) /\ Len(k) <= 255 /\ Len(v) <= Max4
        BY <3>3, <3>4, <3>5
      <4> HIDE DEF d, k, v
      <4> QED  BY <4>1 DEF LimitedDict, zhash_insert
    <3> QED  BY <2>1, <2>3, <3>2, <3>6
  <2> QED  BY <2>2, <2>3
<1>2. ~(4 > Len(o)) /\ Len(o) \in Nat /\ GetEntries(o) = ReadEntries(base, n)
  <2>1. ~(4 > Len(o))
    BY DEF GetEntries
  <2> QED  BY <2>1, NumbersRead DEF GetEntries, ReadEntries
<1>3. base \in V
  <2>1. SubSeq(o, 5, Len(o)) \in Seq(Octet)
    BY <1>2, PartOf
  <2>2. none \in Dicts /\ LimitedDict(none)
    BY EmptyDict DEF LimitedDict
  <2> HIDE DEF none
  <2> QED  BY <2>1, <2>2 DEF EntryReaders
<1>4. n \in Nat
  <2> DEFINE x == GET_NUMBER4(o)
             y == 1 + Len(o) \div 5
  <2>1. x \in Nat /\ y \in Nat
    BY <1>2, NumbersRead
  <2> HIDE DEF x, y
  <2>2. Min({x, y}) \in Nat
    BY <2>1, MinOfTwo
  <2> QED  BY <2>2 DEF x, y
<1> HIDE DEF n, base, V
<1>5. ReadEntries(base, n) \in V /\ EntriesRun(base, n, V)
  BY <1>1, <1>3, <1>4, EntryFold
<1>6. PICK p \in [0..n -> V] : /\ p[0] = base /\ p[n] = ReadEntries(base, n)
                              /\ \A i \in 1..n : p[i] = GetEntry(p[i - 1])
  BY <1>5 DEF EntriesRun
<1> DEFINE Size(r) == Cardinality(DOMAIN r.value)
           T == {i \in Nat : i <= n => (p[i] # NULL => Size(p[i]) <= i)}
<1>7. 0 \in T
  <2>1. DOMAIN base.value = {}
    BY DEF base
  <2>2. Size(base) = 0
    BY <2>1, FS_EmptySet
  <2> HIDE DEF Size
  <2> QED  BY <1>6, <2>2
<1>8. ASSUME NEW i \in T  PROVE i + 1 \in T
  <2> DEFINE j == i + 1
             r == p[i]
  <2> SUFFICES ASSUME j <= n, p[j] # NULL  PROVE Size(p[j]) <= j
    BY DEF T
  <2>1. j \in 1..n /\ j - 1 = i /\ i \in 0..n /\ i \in Nat /\ i <= n
    BY <1>4
  <2>2. p[j] = GetEntry(r) /\ r \in V
    BY <1>6, <2>1
  <2>a. i <= n => (p[i] # NULL => Size(p[i]) <= i)
    BY <1>8
  <2> HIDE DEF Size, j, r
  <2>3. GetEntry(r) # NULL
    BY <2>2
  <2>4. r # NULL /\ \E k : DOMAIN GetEntry(r).value = DOMAIN r.value \cup {k}
    BY <2>3 DEF GetEntry, zhash_insert
  <2> DEFINE K == DOMAIN r.value
  <2>5. IsFiniteSet(K)
    BY <2>2, <2>4 DEF V, EntryReaders, Dicts
  <2>6. PICK k : DOMAIN GetEntry(r).value = K \cup {k}
    BY <2>4
  <2> HIDE DEF K
  <2>7. Cardinality(K \cup {k}) = IF k \in K THEN Cardinality(K) ELSE Cardinality(K) + 1
    BY <2>5, FS_AddElement
  <2>8. Cardinality(K) \in Nat
    BY <2>5, FS_CardinalityType
  <2>9. Size(p[j]) = Cardinality(K \cup {k}) /\ Size(r) = Cardinality(K)
    BY <2>2, <2>6 DEF Size, K
  <2>10. Size(r) <= i
    BY <2>1, <2>4, <2>a DEF r
  <2> QED  BY <2>1, <2>7, <2>8, <2>9, <2>10 DEF j
<1>9. T = Nat
  <2> HIDE DEF T
  <2>1. T \in SUBSET Nat
    BY DEF T
  <2> QED  BY <1>7, <1>8, <2>1, NatSetInduction
<1> DEFINE d == GetEntries(o).value
<1>10. LimitedDict(d)
  BY <1>2, <1>5 DEF V
<1>11. Cardinality(DOMAIN d) <= n /\ Cardinality(DOMAIN d) \in Nat
  <2>1. n \in T
    <3> HIDE DEF T
    <3> QED  BY <1>4, <1>9
  <2>2. p[n] = GetEntries(o)
    BY <1>2, <1>6
  <2>3. Size(GetEntries(o)) <= n
    <3> HIDE DEF Size
    <3> QED  BY <1>4, <2>1, <2>2
  <2>4. d \in Dicts
    BY <1>2, <1>5 DEF V, EntryReaders
  <2>5. IsFiniteSet(DOMAIN d)
    BY <2>4 DEF Dicts
  <2> QED  BY <2>3, <2>5, FS_CardinalityType
<1>12. n <= Max4 /\ Max4 \in Nat
  <2> DEFINE x == GET_NUMBER4(o)
             y == 1 + Len(o) \div 5
  <2>1. x \in Nat /\ x <= Max4
    BY <1>2, Number4Within
  <2>2. y \in Nat
    BY <1>2
  <2>3. n = Min({x, y})
    BY DEF n
  <2>4. Max4 \in Nat
    BY SMT DEF Max4
  <2> HIDE DEF x, y
  <2>5. n <= x
    BY <2>1, <2>2, <2>3, MinOfTwo
  <2> QED  BY <1>4, <2>1, <2>4, <2>5
<1> HIDE DEF d
<1>13. Cardinality(DOMAIN d) <= Max4
  BY <1>4, <1>11, <1>12
<1> QED  BY <1>10, <1>13 DEF LimitedDict, ShortDict, d

(* One field that is read: x is old with a value for f.                     *)
FieldHolds(f, v) ==
    /\ f \in StringFields => v \in Texts /\ Len(v) <= 255
    /\ f = "headers" => v \in Dicts /\ ShortDict(v)
    /\ f = "content" => v \in Frames

FieldRead(f, old, x) == \E v : FieldHolds(f, v) /\ x = [old EXCEPT ![f] = v]

(* A field that is read is all that changes in the message at hand, and it  *)
(* has a value that the field can have.                                     *)
LEMMA FieldStep ==
    ASSUME NEW r \in FieldReaders \cup {NULL}, NEW f \in FieldNames, NEW content \in Frames,
           GetField(r, f, content) # NULL
    PROVE  r # NULL /\ FieldRead(f, r.value, GetField(r, f, content).value)
<1> DEFINE got == CASE f = "headers" -> GetEntries(r.rest)
                    [] f = "content" -> [value |-> content, rest |-> r.rest]
                    [] OTHER         -> GET_STRING(r.rest)
           v == got.value
<1>1. GetField(r, f, content) = IF r = NULL THEN NULL ELSE IF got = NULL THEN NULL
         ELSE [value |-> [r.value EXCEPT ![f] = got.value], rest |-> got.rest]
  BY DEF GetField
<1>2. r # NULL /\ got # NULL /\ GetField(r, f, content).value = [r.value EXCEPT ![f] = v]
  <2> HIDE DEF got
  <2> QED  BY <1>1
<1>3. r.rest \in Seq(Octet)
  BY <1>2 DEF FieldReaders
<1>4. f = "headers" => v \in Dicts /\ ShortDict(v)
  <2> SUFFICES ASSUME f = "headers"  PROVE v \in Dicts /\ ShortDict(v)
    OBVIOUS
  <2>1. got = GetEntries(r.rest)
    OBVIOUS
  <2> HIDE DEF got
  <2> QED  BY <1>2, <1>3, <2>1, EntriesType, EntriesWithin DEF EntryReaders
<1>5. f = "content" => v \in Frames
  BY <1>2
<1>6. f \in StringFields => v \in Texts /\ Len(v) <= 255
  <2> SUFFICES ASSUME f \in StringFields  PROVE v \in Texts /\ Len(v) <= 255
    OBVIOUS
  <2>1. got = GET_STRING(r.rest)
    BY DEF StringFields
  <2> HIDE DEF got
  <2> QED  BY <1>2, <1>3, <2>1, StringType, ReadWithin DEF TextReaders
<1> HIDE DEF got, v
<1>7. FieldHolds(f, v)
  BY <1>4, <1>5, <1>6 DEF FieldHolds
<1>8. FieldRead(f, r.value, GetField(r, f, content).value)
  BY <1>2, <1>7, Zenon DEF FieldRead
<1> QED  BY <1>2, <1>8

(* What is accepted has the fields of its id, and no others.                *)
LEMMA Accepted ==
    ASSUME NullApart, NEW z \in Frames, zccp_msg_decode(z) # NULL
    PROVE  /\ zccp_msg_decode(z) \in Objects /\ zccp_msg_decode(z).id \in MessageIds
           /\ ShortObject(zccp_msg_decode(z))
           /\ Meant(zccp_msg_decode(z)) = zccp_msg_decode(z)
<1> DEFINE m == zccp_msg_decode(z)
           o == Head(z)
           id == o[3]
           base == [value |-> zccp_msg_new(id), rest |-> SubSeq(o, 4, Len(o))]
           V == FieldReaders \cup {NULL}
           content == Tail(z)
           layout == Layout[id]
           n == Len(layout)
           read == ReadFields(base, layout, content)
           NamesUpTo(i) == {layout[j] : j \in 1..i}
           Good(i, x) == /\ x \in Objects /\ x.id = id /\ x.routing_id = NULL /\ ShortObject(x)
                         /\ \A f \in FieldNames : x[f] # NULL <=> f \in NamesUpTo(i)
<1>0. m # NULL
  OBVIOUS
<1>1. m = IF \/ z = <<>> \/ Len(o) < 3 \/ SubSeq(o, 1, 2) # Signature
             \/ id \notin MessageIds \/ read = NULL
          THEN NULL ELSE read.value
  BY DEF zccp_msg_decode, ReadFields
<1>2. /\ z # <<>> /\ ~(Len(o) < 3) /\ id \in MessageIds /\ read # NULL /\ m = read.value
  <2> HIDE DEF m, o, id, read
  <2> QED  BY <1>0, <1>1
<1>3. o \in Seq(Octet) /\ content \in Frames
  BY <1>2, HeadTailProperties DEF Frames
<1> HIDE DEF o, content
<1>4. SubSeq(o, 4, Len(o)) \in Seq(Octet)
  <2>1. Len(o) \in Nat /\ Len(o) <= Len(o) /\ 4 \in Nat /\ 4 > 0
    BY <1>3, NumbersRead
  <2> QED  BY <1>3, <2>1, PartOf
<1> HIDE DEF id, m
<1>5. zccp_msg_new(id) \in Objects /\ Good(0, zccp_msg_new(id))
  <2>1. zccp_msg_new(id) \in Objects
    BY <1>2, NewType
  <2> DEFINE x == zccp_msg_new(id)
  <2>2. /\ x.id = id /\ x.routing_id = NULL /\ x.headers = NULL
        /\ \A f \in FieldNames : x[f] = NULL
    BY DEF zccp_msg_new, FieldNames, StringFields
  <2>3. ShortObject(x)
    BY <2>2 DEF ShortObject, FieldNames
  <2>4. NamesUpTo(0) = {}
    OBVIOUS
  <2> HIDE DEF x, NamesUpTo
  <2> QED  BY <2>1, <2>2, <2>3, <2>4 DEF x
<1>6. base \in V
  BY <1>4, <1>5 DEF FieldReaders
<1>7. /\ Lists(layout, FieldsOf(id)) /\ DOMAIN layout = 1..n /\ FieldsOf(id) \subseteq FieldNames
  BY <1>2, LayoutLists
<1>8. n \in Nat /\ \A i \in 1..n : layout[i] \in FieldsOf(id) /\ layout[i] \in FieldNames
  BY <1>7, LenProperties, ElementOfSeq DEF Lists
<1>9. \A x \in V : \A i \in 1..n : GetField(x, layout[i], content) \in V
  BY <1>3, <1>8, FieldType
<1> HIDE DEF base, V, n, layout
<1>10. FieldsRun(base, n, layout, content, V)
  BY <1>6, <1>7, <1>8, <1>9, FieldFold
<1>11. PICK p \in [0..n -> V] : /\ p[0] = base /\ p[n] = read
                               /\ \A i \in 1..n : p[i] = GetField(p[i - 1], layout[i], content)
  BY <1>10 DEF FieldsRun
<1> DEFINE T == {i \in Nat : i <= n => (p[i] # NULL => Good(i, p[i].value))}
<1>12. 0 \in T
  <2>1. p[0] = base /\ base.value = zccp_msg_new(id)
    BY <1>11 DEF base
  <2> HIDE DEF Good
  <2> QED  BY <1>5, <2>1
<1>13. ASSUME NEW i \in T  PROVE i + 1 \in T
  <2> DEFINE j == i + 1
             r == p[i]
             f == layout[j]
  <2> SUFFICES ASSUME j <= n, p[j] # NULL  PROVE Good(j, p[j].value)
    BY DEF T
  <2>1. j \in 1..n /\ j - 1 = i /\ i \in 0..n /\ 1..j = (1..i) \cup {j}
    BY <1>8
  <2>2. p[j] = GetField(r, f, content) /\ r \in V /\ f \in FieldNames
    BY <1>8, <1>11, <2>1
  <2>a. i <= n => (p[i] # NULL => Good(i, p[i].value))
    BY <1>13
  <2>b. NamesUpTo(j) = NamesUpTo(i) \cup {f}
    BY <2>1
  <2> HIDE DEF f, NamesUpTo, Good
  <2>3. r \in FieldReaders \cup {NULL} /\ GetField(r, f, content) # NULL
    BY <2>2 DEF V
  <2>c. i <= n => (r # NULL => Good(i, r.value))
    BY <2>a
  <2>d. i <= n
    BY <1>8, <2>1
  <2> HIDE DEF r
  <2>4. r # NULL /\ FieldRead(f, r.value, GetField(r, f, content).value)
    BY <1>3, <2>2, <2>3, FieldStep
  <2> DEFINE old == r.value
             x == p[j].value
  <2>e. FieldRead(f, old, x)
    BY <2>2, <2>4
  <2>7. Good(i, old)
    BY <2>4, <2>c, <2>d
  <2> HIDE DEF x, old
  <2>5. PICK v : FieldHolds(f, v) /\ x = [old EXCEPT ![f] = v]
    BY <2>e, Zenon DEF FieldRead
  <2>6. /\ x = [old EXCEPT ![f] = v]
        /\ f \in StringFields => v \in Texts /\ Len(v) <= 255
        /\ f = "headers" => v \in Dicts /\ ShortDict(v)
        /\ f = "content" => v \in Frames
    BY <2>5 DEF FieldHolds
  <2> USE DEF Good
  <2>8. v # NULL
    BY <2>2, <2>6 DEF NullApart, FieldNames
  <2>9. x \in Objects /\ x.id = id /\ x.routing_id = NULL
    <3>1. x \in Objects
      BY <2>2, <2>6, <2>7 DEF Objects, FieldNames, StringFields
    <3>2. x.id = old.id /\ x.routing_id = old.routing_id
      BY <2>2, <2>6, <2>7 DEF Objects, FieldNames, StringFields
    <3> QED  BY <2>7, <3>1, <3>2
  <2>10. \A g \in FieldNames : x[g] = IF g = f THEN v ELSE old[g]
    BY <2>2, <2>6, <2>7 DEF Objects, FieldNames, StringFields
  <2>11. ShortObject(x)
    <3>1. \A g \in StringFields : x[g] # NULL => Len(x[g]) <= 255
      BY <2>6, <2>7, <2>10 DEF ShortObject, FieldNames
    <3>2. x.headers # NULL => ShortDict(x.headers)
      <4>1. x.headers = IF f = "headers" THEN v ELSE old.headers
        BY <2>10 DEF FieldNames
      <4> QED  BY <2>6, <2>7, <4>1 DEF ShortObject
    <3> QED  BY <3>1, <3>2 DEF ShortObject
  <2>12. \A g \in FieldNames : x[g] # NULL <=> g \in NamesUpTo(j)
    BY <2>7, <2>8, <2>10, <2>b
  <2> QED  BY <2>9, <2>11, <2>12 DEF x
<1>14. T = Nat
  <2> HIDE DEF T
  <2>1. T \in SUBSET Nat
    BY DEF T
  <2> QED  BY <1>12, <1>13, <2>1, NatSetInduction
<1>15. Good(n, m)
  <2>1. n \in T
    <3> HIDE DEF T
    <3> QED  BY <1>8, <1>14
  <2> HIDE DEF Good, read
  <2>2. Good(n, p[n].value)
    BY <1>2, <1>8, <1>11, <2>1
  <2> QED  BY <1>2, <1>11, <2>2
<1>16. NamesUpTo(n) = FieldsOf(id)
  <2>1. \A x \in FieldsOf(id) : \E i \in 1..n : layout[i] = x
    BY <1>7 DEF Lists, n
  <2> QED  BY <1>8, <2>1
<1> HIDE DEF NamesUpTo
<1>17. /\ m \in Objects /\ m.id = id /\ m.routing_id = NULL /\ ShortObject(m)
       /\ \A f \in FieldNames : m[f] # NULL <=> f \in FieldsOf(id)
  BY <1>15, <1>16
<1>18. Meant(m) = m
  <2>1. m = [f \in DOMAIN m |-> m[f]]
    BY <1>17 DEF Objects
  <2>2. DOMAIN m = {"id", "routing_id"} \cup FieldNames
    BY <1>17 DEF Objects, FieldNames, StringFields
  <2>3. "routing_id" \notin FieldsOf(m.id)
    BY <1>7, <1>17 DEF FieldNames, StringFields
  <2>4. ASSUME NEW f \in DOMAIN m  PROVE Meant(m)[f] = m[f]
    <3>1. CASE f = "id"
      BY <3>1 DEF Meant
    <3>2. CASE f = "routing_id"
      BY <1>17, <2>3, <3>2 DEF Meant
    <3>3. CASE f \in FieldNames
      <4>1. f # "id"
        BY <3>3 DEF FieldNames, StringFields
      <4>2. m[f] # NULL <=> f \in FieldsOf(m.id)
        BY <1>17, <3>3
      <4> QED  BY <4>1, <4>2 DEF Meant
    <3> QED  BY <2>2, <3>1, <3>2, <3>3
  <2>5. Meant(m) = [f \in DOMAIN m |-> Meant(m)[f]]
    BY DEF Meant
  <2> QED  BY <2>1, <2>4, <2>5
<1> QED  BY <1>2, <1>17, <1>18 DEF m

-----------------------------------------------------------------------------
(* Objects and inputs that fit the octets that state their sizes.           *)

(* A value that field f can hold: what it holds fits the octets that state  *)
(* its size, and the names of its entries are among Known.                  *)
Fitting(f, v, Known) ==
    \/ v = NULL
    \/ f \in StringFields /\ v \in Texts /\ Len(v) <= 255
    \/ f = "headers" /\ v \in Dicts /\ LimitedDict(v) /\ DOMAIN v \subseteq Known
    \/ f = "content" /\ v \in Frames

(* Objects all of whose fields do.                                          *)
Limited(Known) == {m \in Objects : \A f \in FieldNames : Fitting(f, m[f], Known)}

(* What is decoded as such an object, or refused.                           *)
Readable(Known) == {z \in Frames : zccp_msg_decode(z) \in Limited(Known) \cup {NULL}}

(* What applications supply fits the octets that state its size, and there  *)
(* are no more names of entries than four octets can count, the ones that   *)
(* other programs send included.                                            *)
ShortInputs(Known) ==
    /\ IsFiniteSet(Known) /\ Cardinality(Known) <= Max4
    /\ Names \subseteq Known
    /\ \A s \in Strings \cup Names : Len(s) <= 255
    /\ \A s \in Values : Len(s) <= Max4
    /\ \A d \in Dictionaries :
          DOMAIN d \subseteq Known /\ \A k \in DOMAIN d : Len(k) <= 255 /\ Len(d[k]) <= Max4
    /\ \A z \in Foreign :
          LET m == zccp_msg_decode(z)
          IN  m # NULL => (m.headers # NULL => DOMAIN m.headers \subseteq Known)

(* Then what setters and zccp_msg_headers_insert store fits.                *)
LEMMA FieldsFit ==
    ASSUME NEW Known, ShortInputs(Known)
    PROVE  /\ \A f \in StringFields, s \in Strings : Fitting(f, s, Known)
           /\ \A d \in Dictionaries : Fitting("headers", d, Known)
           /\ \A b \in Bodies : Fitting("content", b, Known)
           /\ \A k \in Names, v \in Values, d \in Dicts :
                 Fitting("headers", d, Known)
                    => \/ d = NULL
                       \/ Fitting("headers", zhash_update(d, k, v), Known)
<1>1. \A f \in StringFields, s \in Strings : Fitting(f, s, Known)
  BY Inputs DEF ShortInputs, Fitting
<1>2. \A d \in Dictionaries : Fitting("headers", d, Known)
  BY Inputs DEF ShortInputs, Fitting, LimitedDict
<1>3. \A b \in Bodies : Fitting("content", b, Known)
  BY Inputs DEF Fitting
<1>4. ASSUME NEW k \in Names, NEW v \in Values, NEW d \in Dicts, Fitting("headers", d, Known), d # NULL
      PROVE  Fitting("headers", zhash_update(d, k, v), Known)
  <2> DEFINE x == zhash_update(d, k, v)
  <2>1. k \in Texts /\ v \in Texts /\ k \in Known
    BY Inputs DEF ShortInputs
  <2>2. x \in Dicts
    BY <2>1, DictWith
  <2>3. LimitedDict(d) /\ DOMAIN d \subseteq Known
    BY <1>4 DEF Fitting, StringFields
  <2>4. Len(k) <= 255 /\ Len(v) <= Max4
    BY DEF ShortInputs
  <2>5. LimitedDict(x)
    BY <2>3, <2>4 DEF LimitedDict, zhash_update
  <2>6. DOMAIN x \subseteq Known
    BY <2>1, <2>3 DEF zhash_update
  <2> HIDE DEF x
  <2>7. Fitting("headers", x, Known)
    BY <2>2, <2>5, <2>6 DEF Fitting
  <2> QED  BY <2>7 DEF x
<1> QED  BY <1>1, <1>2, <1>3, <1>4

(* Absent and empty fields fit.                                             *)
LEMMA NothingFits ==
    ASSUME NEW Known
    PROVE  /\ \A f : Fitting(f, NULL, Known)
           /\ \A f \in StringFields \cup {"headers"} : Fitting(f, <<>>, Known)
           /\ Fitting("content", << <<>> >>, Known)
<1>1. \A f : Fitting(f, NULL, Known)
  BY DEF Fitting
<1>2. Fitting("headers", <<>>, Known)
  <2>1. DOMAIN <<>> = {}
    OBVIOUS
  <2>2. LimitedDict(<<>>)
    BY <2>1 DEF LimitedDict
  <2> QED  BY <2>1, <2>2, EmptyDict DEF Fitting
<1>3. \A f \in StringFields : Fitting(f, <<>>, Known)
  <2>1. <<>> \in Texts /\ Len(<<>>) <= 255
    BY DEF Texts
  <2> QED  BY <2>1 DEF Fitting
<1>4. Fitting("content", << <<>> >>, Known)
  <2> DEFINE none == <<>>
  <2>1. none \in Seq(Octet)
    OBVIOUS
  <2> HIDE DEF none
  <2>2. <<none>> \in Frames
    BY <2>1 DEF Frames
  <2>3. Fitting("content", <<none>>, Known)
    BY <2>2 DEF Fitting
  <2> QED  BY <2>3 DEF none
<1> QED  BY <1>1, <1>2, <1>3, <1>4

(* Limited objects can be encoded without loss.                             *)
LEMMA LimitedIsShort ==
    ASSUME NEW Known, ShortInputs(Known), NEW m \in Limited(Known)
    PROVE  m \in Objects /\ ShortObject(m)
<1>1. m \in Objects /\ \A f \in FieldNames : Fitting(f, m[f], Known)
  BY DEF Limited
<1>2. \A f \in StringFields : m[f] # NULL => Len(m[f]) <= 255
  <2> SUFFICES ASSUME NEW f \in StringFields, m[f] # NULL  PROVE Len(m[f]) <= 255
    OBVIOUS
  <2>1. Fitting(f, m[f], Known) /\ f # "headers" /\ f # "content"
    BY <1>1 DEF FieldNames, StringFields
  <2> QED  BY <2>1 DEF Fitting
<1>3. m.headers # NULL => ShortDict(m.headers)
  <2> SUFFICES ASSUME m.headers # NULL  PROVE ShortDict(m.headers)
    OBVIOUS
  <2> DEFINE d == m.headers
  <2>1. Fitting("headers", d, Known)
    BY <1>1 DEF FieldNames
  <2> HIDE DEF d
  <2>2. LimitedDict(d) /\ DOMAIN d \subseteq Known
    BY <2>1 DEF Fitting, StringFields, d
  <2> DEFINE K == DOMAIN d
  <2>3. IsFiniteSet(K) /\ Cardinality(K) <= Cardinality(Known)
    BY <2>2, FS_Subset DEF ShortInputs
  <2>4. Cardinality(K) \in Nat /\ Cardinality(Known) \in Nat
    BY <2>3, FS_CardinalityType DEF ShortInputs
  <2>5. Cardinality(K) <= Max4
    <3>1. Cardinality(Known) <= Max4 /\ Max4 \in Nat
      BY SMT DEF ShortInputs, Max4
    <3> QED  BY <2>3, <2>4, <3>1
  <2> QED  BY <2>2, <2>5 DEF ShortDict, LimitedDict, d
<1> QED  BY <1>1, <1>2, <1>3 DEF ShortObject

(* What a limited message is meant to be is limited.                        *)
LEMMA MeantIsLimited ==
    ASSUME NEW Known, NEW m \in Limited(Known), m.id \in MessageIds
    PROVE  Meant(m) \in Limited(Known)
<1> DEFINE x == Meant(m)
<1>1. m \in Objects /\ \A f \in FieldNames : Fitting(f, m[f], Known)
  BY DEF Limited
<1>2. DOMAIN m = {"id", "routing_id"} \cup FieldNames
  BY <1>1 DEF Objects, FieldNames, StringFields
<1>3. FieldsOf(m.id) \subseteq FieldNames
  BY LayoutLists
<1>4. x.id = m.id /\ x.routing_id = NULL
  BY <1>2, <1>3 DEF Meant, FieldNames, StringFields
<1>5. ASSUME NEW f \in FieldNames  PROVE Fitting(f, x[f], Known)
  <2>1. x[f] = IF f \notin FieldsOf(m.id) THEN NULL ELSE IF m[f] # NULL THEN m[f]
               ELSE IF f = "content" THEN << <<>> >> ELSE <<>>
    BY <1>2 DEF Meant, FieldNames, StringFields
  <2>2. Fitting(f, m[f], Known) /\ Fitting(f, NULL, Known)
    BY <1>1, NothingFits
  <2>3. f # "content" => Fitting(f, <<>>, Known)
    BY NothingFits DEF FieldNames
  <2>4. Fitting("content", << <<>> >>, Known)
    BY NothingFits
  <2> HIDE DEF x
  <2> QED  BY <2>1, <2>2, <2>3, <2>4
<1>6. x \in Objects
  <2>1. \A f \in StringFields : x[f] \in Texts \cup {NULL}
    BY <1>5 DEF Fitting, FieldNames, StringFields
  <2>2. x.headers \in Dicts \cup {NULL} /\ x.content \in Frames \cup {NULL}
    BY <1>5 DEF Fitting, FieldNames, StringFields
  <2>3. x = [f \in {"id", "routing_id"} \cup FieldNames |-> x[f]]
    BY <1>2 DEF Meant
  <2> HIDE DEF x
  <2> QED  BY <1>1, <1>4, <2>1, <2>2, <2>3 DEF Objects, FieldNames, StringFields
<1> QED  BY <1>5, <1>6 DEF Limited

(* What is encoded from a limited object is decoded as one.                 *)
LEMMA EncodeReadable ==
    ASSUME NullApart, NEW Known, ShortInputs(Known), NEW m \in Limited(Known), m.id \in MessageIds,
           NEW order \in Orders(m)
    PROVE  zccp_msg_encode(m, order) \in Readable(Known)
<1>1. m \in Objects /\ ShortObject(m)
  BY LimitedIsShort
<1>2. zccp_msg_encode(m, order) \in Frames
  BY <1>1, EncodeType
<1>3. zccp_msg_decode(zccp_msg_encode(m, order)) = Meant(m)
  BY <1>1, RoundTrip
<1> QED  BY <1>2, <1>3, MeantIsLimited DEF Readable

(* So is what other programs send, or it is refused.                        *)
LEMMA ForeignReadable ==
    ASSUME NullApart, NEW Known, ShortInputs(Known), NEW z \in Foreign
    PROVE  z \in Readable(Known)
<1> DEFINE m == zccp_msg_decode(z)
<1>1. z \in Frames
  BY Inputs
<1>2. CASE m = NULL
  BY <1>1, <1>2 DEF Readable
<1>3. CASE m # NULL
  <2>1. m \in Objects /\ ShortObject(m)
    BY <1>1, <1>3, Accepted
  <2>2. m.headers # NULL => DOMAIN m.headers \subseteq Known
    BY <1>3 DEF ShortInputs
  <2> HIDE DEF m
  <2>3. ASSUME NEW f \in FieldNames  PROVE Fitting(f, m[f], Known)
    <3>1. CASE f \in StringFields
      <4>1. m[f] \in Texts \cup {NULL}
        BY <2>1, <3>1 DEF Objects, StringFields
      <4> QED  BY <2>1, <3>1, <4>1 DEF ShortObject, ShortDict, LimitedDict, Fitting
    <3>2. CASE f = "headers"
      <4>1. m.headers \in Dicts \cup {NULL}
        BY <2>1 DEF Objects
      <4> QED  BY <2>1, <2>2, <3>2, <4>1 DEF ShortObject, ShortDict, LimitedDict, Fitting
    <3>3. CASE f = "content"
      <4>1. m.content \in Frames \cup {NULL}
        BY <2>1 DEF Objects
      <4> QED  BY <3>3, <4>1 DEF Fitting
    <3> QED  BY <3>1, <3>2, <3>3 DEF FieldNames
  <2>4. m \in Limited(Known)
    BY <2>1, <2>3 DEF Limited
  <2> QED  BY <1>1, <2>4 DEF Readable, m
<1> QED  BY <1>2, <1>3

(* Changes of a limited object that leave it limited.                       *)
LEMMA WithField ==
    ASSUME NEW Known, NEW m \in Limited(Known), NEW f \in FieldNames, NEW v, Fitting(f, v, Known)
    PROVE  [m EXCEPT ![f] = v] \in Limited(Known)
<1> DEFINE x == [m EXCEPT ![f] = v]
<1>1. m \in Objects /\ \A g \in FieldNames : Fitting(g, m[g], Known)
  BY DEF Limited
<1>2. \A g \in FieldNames : x[g] = IF g = f THEN v ELSE m[g]
  BY <1>1 DEF Objects, FieldNames, StringFields
<1>3. x \in Objects
  <2>1. \/ f \in StringFields /\ v \in Texts \cup {NULL}
        \/ f = "headers" /\ v \in Dicts \cup {NULL}
        \/ f = "content" /\ v \in Frames \cup {NULL}
    BY DEF Fitting, FieldNames
  <2> QED  BY <1>1, <2>1 DEF Objects, StringFields
<1> HIDE DEF x
<1>4. \A g \in FieldNames : Fitting(g, x[g], Known)
  BY <1>1, <1>2
<1> QED  BY <1>3, <1>4 DEF Limited, x

(* Neither id, routing id nor a copy changes the fields' contents.          *)
LEMMA WithOther ==
    ASSUME NEW Known, NEW m \in Limited(Known)
    PROVE  /\ \A id \in MessageIds \cup {0} : [m EXCEPT !.id = id] \in Limited(Known)
           /\ [m EXCEPT !.routing_id = RoutingId] \in Limited(Known)
           /\ zccp_msg_dup(m) \in Limited(Known)
<1>1. m \in Objects /\ \A g \in FieldNames : Fitting(g, m[g], Known)
  BY DEF Limited
<1>2. ASSUME NEW id \in MessageIds \cup {0}  PROVE [m EXCEPT !.id = id] \in Limited(Known)
  <2> DEFINE x == [m EXCEPT !.id = id]
  <2>1. x \in Objects /\ \A g \in FieldNames : x[g] = m[g]
    BY <1>1 DEF Objects, FieldNames, StringFields
  <2> HIDE DEF x
  <2>2. x \in Limited(Known)
    BY <1>1, <2>1 DEF Limited
  <2> QED  BY <2>2 DEF x
<1>3. [m EXCEPT !.routing_id = RoutingId] \in Limited(Known)
  <2> DEFINE x == [m EXCEPT !.routing_id = RoutingId]
  <2>1. x \in Objects /\ \A g \in FieldNames : x[g] = m[g]
    BY <1>1 DEF Objects, FieldNames, StringFields
  <2> HIDE DEF x
  <2>2. x \in Limited(Known)
    BY <1>1, <2>1 DEF Limited
  <2> QED  BY <2>2 DEF x
<1>4. zccp_msg_dup(m) \in Limited(Known)
  <2> DEFINE x == zccp_msg_dup(m)
  <2>1. x \in Objects
    BY <1>1, DupType
  <2>2. \A g \in FieldNames : x[g] = m[g] \/ x[g] = NULL
    BY <1>1 DEF zccp_msg_dup, Objects, FieldNames, StringFields
  <2> HIDE DEF x
  <2>3. \A g \in FieldNames : Fitting(g, x[g], Known)
    BY <1>1, <2>2, NothingFits
  <2>4. x \in Limited(Known)
    BY <2>1, <2>3 DEF Limited
  <2> QED  BY <2>4 DEF x
<1> QED  BY <1>2, <1>3, <1>4

(* A new object is limited.                                                 *)
LEMMA NewLimited ==
    ASSUME NEW Known, NEW id \in MessageIds \cup {0}
    PROVE  zccp_msg_new(id) \in Limited(Known)
<1> DEFINE x == zccp_msg_new(id)
<1>1. x \in Objects
  BY NewType
<1>2. \A g \in FieldNames : x[g] = NULL
  BY DEF zccp_msg_new, FieldNames, StringFields
<1> HIDE DEF x
<1>3. \A g \in FieldNames : Fitting(g, x[g], Known)
  BY <1>2, NothingFits
<1>4. x \in Limited(Known)
  BY <1>1, <1>3 DEF Limited
<1> QED  BY <1>4 DEF x

(* So is the one that zccp_msg_encode_hello etc. make from their arguments. *)
LEMMA FieldsLimited ==
    ASSUME NEW Known, NEW id \in MessageIds, NEW args,
           \A f \in FieldNames : Fitting(f, args[f], Known)
    PROVE  EncodeFields(id, args) \in Limited(Known) /\ EncodeFields(id, args).id = id
<1> DEFINE x == EncodeFields(id, args)
           new == zccp_msg_new(id)
<1>1. /\ DOMAIN new = {"id", "routing_id"} \cup FieldNames
      /\ new.id = id /\ new.routing_id = NULL /\ \A f \in FieldNames : new[f] = NULL
  BY DEF zccp_msg_new, FieldNames, StringFields
<1>2. "id" \notin FieldsOf(id) /\ "routing_id" \notin FieldsOf(id)
  BY LayoutLists DEF FieldNames, StringFields
<1> HIDE DEF new
<1>3. x = [f \in DOMAIN new |-> IF f \in FieldsOf(id) THEN args[f] ELSE new[f]]
  BY DEF EncodeFields, new
<1>4. /\ x = [f \in {"id", "routing_id"} \cup FieldNames |-> x[f]]
      /\ x.id = id /\ x.routing_id = NULL
      /\ \A f \in FieldNames : x[f] = args[f] \/ x[f] = NULL
  BY <1>1, <1>2, <1>3
<1> HIDE DEF x
<1>5. \A f \in FieldNames : Fitting(f, x[f], Known)
  BY <1>4, NothingFits
<1>6. x \in Objects
  <2>1. \A f \in StringFields : x[f] \in Texts \cup {NULL}
    BY <1>5 DEF Fitting, FieldNames, StringFields
  <2>2. x.headers \in Dicts \cup {NULL} /\ x.content \in Frames \cup {NULL}
    BY <1>5 DEF Fitting, FieldNames, StringFields
  <2> QED  BY <1>4, <2>1, <2>2 DEF Objects, FieldNames, StringFields
<1>7. x \in Limited(Known)
  BY <1>5, <1>6 DEF Limited
<1> QED  BY <1>4, <1>7 DEF x

-----------------------------------------------------------------------------
(* The specification: messages arrive, are passed on, and are refused when  *)
(* cut.                                                                     *)

(* The objects at hand are limited, and what is under way is readable.      *)
ShortInv(Known) ==
    /\ object \in [Ends -> Limited(Known) \cup {NULL}]
    /\ stream \in [Ends -> Seq(Readable(Known))]

(* Replacing the object at hand by a limited one, or destroying it, keeps   *)
(* the invariant.                                                           *)
LEMMA ComposeShort ==
    ASSUME NEW Known, ShortInv(Known), NEW e \in Ends, NEW m \in Limited(Known) \cup {NULL},
           Compose(e, m)
    PROVE  ShortInv(Known)'
BY DEF ShortInv, Compose

(* Sending a limited object puts what is readable on the stream.            *)
LEMMA TransmitShort ==
    ASSUME NullApart, NEW Known, ShortInputs(Known), ShortInv(Known),
           NEW e \in Ends, NEW m \in Limited(Known), m.id \in MessageIds, Transmit(e, m)
    PROVE  stream' \in [Ends -> Seq(Readable(Known))]
<1>1. PICK order \in Orders(m) :
         stream' = [stream EXCEPT ![Other(e)] = Append(@, zccp_msg_encode(m, order))]
  BY DEF Transmit
<1>2. zccp_msg_encode(m, order) \in Readable(Known)
  BY EncodeReadable
<1>3. Other(e) \in Ends
  BY DEF Other, Ends
<1>4. stream[Other(e)] \in Seq(Readable(Known))
  BY <1>3 DEF ShortInv
<1>5. Append(stream[Other(e)], zccp_msg_encode(m, order)) \in Seq(Readable(Known))
  BY <1>2, <1>4, AppendProperties
<1> QED  BY <1>1, <1>5 DEF ShortInv

(* A setter that gets a value that fits keeps the invariant.                *)
LEMMA SetFieldShort ==
    ASSUME NEW Known, ShortInv(Known), NEW e \in Ends, NEW f \in FieldNames, NEW value,
           Fitting(f, value, Known), SetField(e, f, value)
    PROVE  ShortInv(Known)'
<1>1. object[e] \in Limited(Known) /\ Compose(e, [object[e] EXCEPT ![f] = value])
  BY DEF SetField, ShortInv
<1>2. [object[e] EXCEPT ![f] = value] \in Limited(Known)
  BY <1>1, WithField
<1> QED  BY <1>1, <1>2, ComposeShort

(* Every operation keeps the invariant.                                     *)
LEMMA ShortStep ==
    ASSUME NullApart, NEW Known, ShortInputs(Known), ShortInv(Known), [Next]_msgVars
    PROVE  ShortInv(Known)'
<1> SUFFICES ASSUME Next  PROVE ShortInv(Known)'
  BY DEF msgVars, ShortInv
<1>1. ASSUME NEW e \in Ends, NEW id \in MessageIds \cup {0}, New(e, id)  PROVE ShortInv(Known)'
  BY <1>1, NewLimited, ComposeShort DEF New
<1>2. ASSUME NEW e \in Ends, NEW id \in MessageIds \cup {0}, SetId(e, id)  PROVE ShortInv(Known)'
  <2>1. object[e] \in Limited(Known) /\ Compose(e, [object[e] EXCEPT !.id = id])
    BY <1>2 DEF SetId, ShortInv
  <2>2. [object[e] EXCEPT !.id = id] \in Limited(Known)
    BY <2>1, WithOther
  <2> QED  BY <2>1, <2>2, ComposeShort
<1>3. ASSUME NEW e \in Ends, NEW s \in Strings,
             \/ zccp_msg_set_identifier(e, s) \/ zccp_msg_set_expression(e, s)
             \/ zccp_msg_set_address(e, s) \/ zccp_msg_set_sender(e, s)
      PROVE  ShortInv(Known)'
  <2>1. PICK f \in StringFields : SetField(e, f, s)
    BY <1>3 DEF StringFields, zccp_msg_set_identifier, zccp_msg_set_expression,
                zccp_msg_set_address, zccp_msg_set_sender
  <2>2. Fitting(f, s, Known) /\ f \in FieldNames
    BY FieldsFit DEF FieldNames
  <2> QED  BY <2>1, <2>2, SetFieldShort
<1>4. ASSUME NEW e \in Ends, NEW d \in Dictionaries, zccp_msg_set_headers(e, d)
      PROVE  ShortInv(Known)'
  <2>1. "headers" \in FieldNames /\ Fitting("headers", d, Known) /\ SetField(e, "headers", d)
    BY <1>4, FieldsFit DEF zccp_msg_set_headers, FieldNames
  <2> QED  BY <2>1, SetFieldShort
<1>5. ASSUME NEW e \in Ends, NEW b \in Bodies, zccp_msg_set_content(e, b)
      PROVE  ShortInv(Known)'
  <2>1. "content" \in FieldNames /\ Fitting("content", b, Known) /\ SetField(e, "content", b)
    BY <1>5, FieldsFit DEF zccp_msg_set_content, FieldNames
  <2> QED  BY <2>1, SetFieldShort
<1>6. ASSUME NEW e \in Ends, NEW k \in Names, NEW v \in Values, zccp_msg_headers_insert(e, k, v)
      PROVE  ShortInv(Known)'
  <2> DEFINE d == object[e].headers
             old == IF d = NULL THEN <<>> ELSE d
             new == zhash_update(old, k, v)
  <2>1. SetField(e, "headers", new)
    BY <1>6 DEF zccp_msg_headers_insert
  <2>2. object[e] \in Limited(Known)
    BY <2>1 DEF SetField, ShortInv
  <2>3. d \in Dicts \cup {NULL} /\ Fitting("headers", d, Known)
    BY <2>2 DEF Limited, Objects, FieldNames
  <2> HIDE DEF d
  <2>4. old \in Dicts /\ Fitting("headers", old, Known)
    BY <2>3, EmptyDict, NothingFits
  <2> HIDE DEF old
  <2>5. old # NULL
    BY <2>4 DEF NullApart
  <2>6. Fitting("headers", new, Known)
    BY <2>4, <2>5, FieldsFit
  <2> HIDE DEF new
  <2>7. "headers" \in FieldNames
    BY DEF FieldNames
  <2> QED  BY <2>1, <2>6, <2>7, SetFieldShort
<1>7. ASSUME NEW e \in Ends, zccp_msg_get_headers(e) \/ zccp_msg_get_content(e)
      PROVE  ShortInv(Known)'
  <2>1. PICK f \in {"headers", "content"} : HandOver(e, f)
    BY <1>7 DEF zccp_msg_get_headers, zccp_msg_get_content
  <2>2. object[e] \in Limited(Known) /\ Compose(e, [object[e] EXCEPT ![f] = NULL])
    BY <2>1 DEF HandOver, ShortInv
  <2>3. f \in FieldNames /\ Fitting(f, NULL, Known)
    BY NothingFits DEF FieldNames
  <2>4. [object[e] EXCEPT ![f] = NULL] \in Limited(Known)
    BY <2>2, <2>3, WithField
  <2> QED  BY <2>2, <2>4, ComposeShort
<1>8. ASSUME NEW e \in Ends, zccp_msg_set_routing_id(e)  PROVE ShortInv(Known)'
  <2>1. object[e] \in Limited(Known) /\ Compose(e, [object[e] EXCEPT !.routing_id = RoutingId])
    BY <1>8 DEF zccp_msg_set_routing_id, ShortInv
  <2>2. [object[e] EXCEPT !.routing_id = RoutingId] \in Limited(Known)
    BY <2>1, WithOther
  <2> QED  BY <2>1, <2>2, ComposeShort
<1>9. ASSUME NEW e \in Ends, Duplicate(e)  PROVE ShortInv(Known)'
  <2>1. object[e] \in Limited(Known) /\ Compose(e, zccp_msg_dup(object[e]))
    BY <1>9 DEF Duplicate, ShortInv
  <2> QED  BY <2>1, WithOther, ComposeShort
<1>10. ASSUME NEW e \in Ends, Destroy(e)  PROVE ShortInv(Known)'
  BY <1>10, ComposeShort DEF Destroy
<1>11. ASSUME NEW e \in Ends, zccp_msg_send(e)  PROVE ShortInv(Known)'
  <2>1. /\ object[e] \in Limited(Known) /\ object[e].id \in MessageIds
        /\ Transmit(e, object[e])
    BY <1>11 DEF zccp_msg_send, Sendable, ShortInv
  <2>2. stream' \in [Ends -> Seq(Readable(Known))]
    BY <2>1, TransmitShort
  <2>3. object' \in [Ends -> Limited(Known) \cup {NULL}]
    BY <1>11 DEF zccp_msg_send, ShortInv
  <2> QED  BY <2>2, <2>3 DEF ShortInv
<1>12. ASSUME NEW e \in Ends, zccp_msg_send_again(e)  PROVE ShortInv(Known)'
  <2> DEFINE m == zccp_msg_dup(object[e])
  <2>1. object[e] \in Limited(Known) /\ object[e].id \in MessageIds /\ Transmit(e, m)
    BY <1>12 DEF zccp_msg_send_again, Sendable, ShortInv
  <2>2. m \in Limited(Known) /\ m.id \in MessageIds
    BY <2>1, WithOther, DupType DEF Limited
  <2> HIDE DEF m
  <2>3. stream' \in [Ends -> Seq(Readable(Known))]
    BY <2>1, <2>2, TransmitShort
  <2> QED  BY <1>12, <2>3 DEF zccp_msg_send_again, ShortInv
<1>13. ASSUME NEW e \in Ends, zccp_msg_recv(e)  PROVE ShortInv(Known)'
  <2> DEFINE m == zccp_msg_decode(Head(stream[e]))
             got == IF m # NULL /\ e = "router" THEN [m EXCEPT !.routing_id = RoutingId] ELSE m
  <2>1. /\ object' = [object EXCEPT ![e] = got] /\ stream[e] # <<>>
        /\ stream' = [stream EXCEPT ![e] = Tail(@)]
    BY <1>13 DEF zccp_msg_recv
  <2>2. stream[e] \in Seq(Readable(Known))
    BY DEF ShortInv
  <2>3. Head(stream[e]) \in Readable(Known) /\ Tail(stream[e]) \in Seq(Readable(Known))
    BY <2>1, <2>2, HeadTailProperties
  <2>4. m \in Limited(Known) \cup {NULL}
    BY <2>3 DEF Readable
  <2> HIDE DEF m
  <2>5. got \in Limited(Known) \cup {NULL}
    BY <2>4, WithOther
  <2> HIDE DEF got
  <2> QED  BY <2>1, <2>3, <2>5 DEF ShortInv
<1>14. ASSUME NEW e \in Ends, NEW z \in Foreign, ForeignSends(e, z)  PROVE ShortInv(Known)'
  <2>1. stream[e] \in Seq(Readable(Known)) /\ z \in Readable(Known)
    BY ForeignReadable DEF ShortInv
  <2>2. Append(stream[e], z) \in Seq(Readable(Known))
    BY <2>1, AppendProperties
  <2> QED  BY <1>14, <2>2 DEF ForeignSends, ShortInv
<1>15. ASSUME NEW id \in MessageIds, NEW s \in Strings, NEW t \in Strings,
              NEW d \in Dictionaries \cup {NULL}, NEW b \in Bodies \cup {NULL},
              SendFields(id, [identifier |-> s, expression |-> s, address |-> s, sender |-> t,
                              headers |-> d, content |-> b])
       PROVE  ShortInv(Known)'
  <2> DEFINE args == [identifier |-> s, expression |-> s, address |-> s, sender |-> t,
                      headers |-> d, content |-> b]
             m == EncodeFields(id, args)
  <2>1. /\ Transmit("dealer", m) /\ UNCHANGED object
    BY <1>15 DEF SendFields
  <2>2. /\ \A f \in StringFields : Fitting(f, s, Known) /\ Fitting(f, t, Known)
        /\ Fitting("headers", d, Known) /\ Fitting("content", b, Known)
    BY FieldsFit, NothingFits
  <2>3. \A f \in FieldNames : Fitting(f, args[f], Known)
    BY <2>2 DEF FieldNames, StringFields
  <2> HIDE DEF args
  <2>4. m \in Limited(Known) /\ m.id = id
    BY <2>3, FieldsLimited
  <2> HIDE DEF m
  <2>5. stream' \in [Ends -> Seq(Readable(Known))]
    BY <2>1, <2>4, TransmitShort DEF Ends
  <2> QED  BY <2>1, <2>5 DEF ShortInv
<1> QED
  BY <1>1, <1>2, <1>3, <1>4, <1>5, <1>6, <1>7, <1>8, <1>9, <1>10, <1>11, <1>12, <1>13, <1>14, <1>15
  DEF Next

(* So it always holds, when the inputs are short.                           *)
LEMMA AlwaysShort ==
    ASSUME NullApart, NEW Known, ShortInputs(Known)
    PROVE  MsgSpec => []ShortInv(Known)
<1>1. MsgInit => ShortInv(Known)
  BY DEF MsgInit, ShortInv
<1>2. ShortInv(Known) /\ [Next]_msgVars => ShortInv(Known)'
  BY ShortStep
<1> QED  BY <1>1, <1>2, PTL DEF MsgSpec

(* What zccp_msg_decode accepts, from this program or another, can be       *)
(* passed on: encoded again, with its headers in any order, it decodes to   *)
(* itself.                                                                  *)
THEOREM AcceptedIsPassedOn ==
    ASSUME NullApart
    PROVE  MsgSpec => []PassedOnUnchanged
<1>1. MsgInv => PassedOnUnchanged
  <2> SUFFICES ASSUME MsgInv, NEW e \in Ends, NEW i \in DOMAIN stream[e],
                      zccp_msg_decode(stream[e][i]) # NULL,
                      NEW order \in Orders(zccp_msg_decode(stream[e][i]))
               PROVE  zccp_msg_decode(zccp_msg_encode(zccp_msg_decode(stream[e][i]), order))
                         = zccp_msg_decode(stream[e][i])
    BY DEF PassedOnUnchanged
  <2> DEFINE z == stream[e][i]
             m == zccp_msg_decode(z)
  <2>1. z \in Frames
    BY ElementOfSeq DEF MsgInv
  <2>2. m # NULL
    OBVIOUS
  <2>3. m.id \in MessageIds /\ Meant(m) = m
    BY <2>1, <2>2, Accepted
  <2>4. m \in Objects /\ ShortObject(m)
    BY <2>1, <2>2, Accepted
  <2> HIDE DEF m, z
  <2>5. order \in Orders(m)
    BY DEF m, z
  <2>6. zccp_msg_decode(zccp_msg_encode(m, order)) = m
    BY <2>3, <2>4, <2>5, RoundTrip
  <2> QED  BY <2>6 DEF m, z
<1> QED  BY <1>1, MsgTypeCorrect, PTL

(* zccp_msg_decode refuses every frame that zccp_msg_encode wrote and that  *)
(* was cut short anywhere.                                                  *)
THEOREM CutIsRefused ==
    ASSUME NullApart, NEW Known, ShortInputs(Known)
    PROVE  MsgSpec => []CutFrameRefused
<1>1. ShortInv(Known) => CutFrameRefused
  <2> SUFFICES ASSUME ShortInv(Known), NEW e \in Ends, object[e] # NULL,
                      object[e].id \in MessageIds, NEW order \in Orders(object[e])
               PROVE  \A n \in 0..(Len(Serialized(object[e], order)) - 1) :
                         zccp_msg_decode(<<SubSeq(Serialized(object[e], order), 1, n)>>) = NULL
    BY DEF CutFrameRefused
  <2>1. object[e] \in Limited(Known)
    BY DEF ShortInv
  <2>2. object[e] \in Objects /\ ShortObject(object[e])
    BY <2>1, LimitedIsShort
  <2> QED  BY <2>2, CutRefused
<1> QED  BY <1>1, AlwaysShort, PTL

(* A message that is put on a stream arrives as it was meant.               *)
LEMMA TransmitArrives ==
    ASSUME NullApart, NEW Known, ShortInputs(Known), ShortInv(Known),
           NEW e \in Ends, NEW m \in Limited(Known), m.id \in MessageIds, Transmit(e, m),
           NEW f \in Ends, Len(stream'[Other(f)]) > Len(stream[Other(f)])
    PROVE  f = e /\ zccp_msg_decode(Last(stream'[Other(f)])) = Meant(m)
<1>1. PICK order \in Orders(m) :
         stream' = [stream EXCEPT ![Other(e)] = Append(@, zccp_msg_encode(m, order))]
  BY DEF Transmit
<1> DEFINE z == zccp_msg_encode(m, order)
           s == stream[Other(e)]
<1>2. s \in Seq(Readable(Known)) /\ stream \in [Ends -> Seq(Readable(Known))]
      /\ Other(e) \in Ends /\ Other(f) \in Ends
  BY DEF ShortInv, Other, Ends
<1>3. z \in Readable(Known)
  BY EncodeReadable
<1>4. zccp_msg_decode(z) = Meant(m)
  BY LimitedIsShort, RoundTrip
<1> HIDE DEF z
<1>5. CASE Other(f) # Other(e)
  <2>1. stream'[Other(f)] = stream[Other(f)]
    BY <1>1, <1>2, <1>5
  <2>2. Len(stream[Other(f)]) \in Nat
    BY <1>2, LenProperties
  <2> QED  BY <2>1, <2>2
<1>6. CASE Other(f) = Other(e)
  <2>1. f = e
    BY <1>6 DEF Other, Ends
  <2>2. stream'[Other(f)] = Append(s, z)
    BY <1>1, <1>2, <1>6 DEF z
  <2>3. Last(Append(s, z)) = z
    BY <1>2, <1>3, AppendProperties DEF Last
  <2> QED  BY <1>4, <2>1, <2>2, <2>3
<1> QED  BY <1>5, <1>6

(* A duplicate is meant to be what the original is.                         *)
LEMMA DupMeant ==
    ASSUME NEW m \in Objects, m.id \in MessageIds
    PROVE  Meant(zccp_msg_dup(m)) = Meant(m)
<1> DEFINE d == zccp_msg_dup(m)
<1>1. /\ DOMAIN d = DOMAIN m /\ d.id = m.id
      /\ \A f \in DOMAIN m : f \in FieldsOf(m.id) => d[f] = m[f]
  BY DEF zccp_msg_dup, Objects
<1> HIDE DEF d
<1>2. Meant(d) = Meant(m)
  BY <1>1 DEF Meant
<1> QED  BY <1>2 DEF d

(* Of all operations only the sends lengthen a stream while their end has   *)
(* an object at hand, and what they append is decoded as what the object    *)
(* was meant to be.                                                         *)
LEMMA ArrivesStep ==
    ASSUME NullApart, NEW Known, ShortInputs(Known), ShortInv(Known), Next,
           NEW f \in Ends, object[f] # NULL, Len(stream'[Other(f)]) > Len(stream[Other(f)])
    PROVE  zccp_msg_decode(Last(stream'[Other(f)])) = Meant(object[f])
<1> DEFINE Goal == zccp_msg_decode(Last(stream'[Other(f)])) = Meant(object[f])
<1>1. \A g \in Ends : Len(stream[g]) \in Nat /\ stream[g] \in Seq(Readable(Known))
  BY LenProperties DEF ShortInv
<1>2. Other(f) \in Ends /\ stream # stream'
  <2>1. Other(f) \in Ends
    BY DEF Other, Ends
  <2> QED  BY <1>1, <2>1
<1>3. ASSUME NEW e \in Ends, zccp_msg_send(e)  PROVE Goal
  <2>1. /\ object[e] \in Limited(Known) /\ object[e].id \in MessageIds
        /\ Transmit(e, object[e])
    BY <1>3 DEF zccp_msg_send, Sendable, ShortInv
  <2> QED  BY <2>1, TransmitArrives
<1>4. ASSUME NEW e \in Ends, zccp_msg_send_again(e)  PROVE Goal
  <2> DEFINE m == zccp_msg_dup(object[e])
  <2>1. object[e] \in Limited(Known) /\ object[e].id \in MessageIds /\ Transmit(e, m)
    BY <1>4 DEF zccp_msg_send_again, Sendable, ShortInv
  <2>2. m \in Limited(Known) /\ m.id \in MessageIds /\ Meant(m) = Meant(object[e])
    BY <2>1, WithOther, DupType, DupMeant DEF Limited
  <2> HIDE DEF m
  <2>3. f = e /\ zccp_msg_decode(Last(stream'[Other(f)])) = Meant(m)
    BY <2>1, <2>2, TransmitArrives
  <2> QED  BY <2>2, <2>3
<1>5. ASSUME NEW e \in Ends, zccp_msg_recv(e)  PROVE Goal
  <2>1. stream' = [stream EXCEPT ![e] = Tail(@)] /\ stream[e] # <<>>
    BY <1>5 DEF zccp_msg_recv
  <2>2. Len(Tail(stream[e])) = Len(stream[e]) - 1
    BY <1>1, <2>1, HeadTailProperties
  <2>3. stream'[Other(f)] = IF Other(f) = e THEN Tail(stream[e]) ELSE stream[Other(f)]
    BY <1>2, <2>1 DEF ShortInv
  <2>4. ~(Len(stream'[Other(f)]) > Len(stream[Other(f)]))
    BY <1>1, <1>2, <2>2, <2>3
  <2> QED  BY <2>4
<1>6. ASSUME NEW e \in Ends, Alone(e), object[e] = NULL  PROVE Goal
  BY <1>6 DEF Alone, Other, Ends
<1>7. ASSUME NEW e, NEW m, Compose(e, m)  PROVE Goal
  BY <1>2, <1>7 DEF Compose
<1>8. ASSUME NEW e, NEW g, NEW v, SetField(e, g, v)  PROVE Goal
  BY <1>7, <1>8 DEF SetField
<1>9. ASSUME NEW e \in Ends, NEW z \in Foreign, ForeignSends(e, z)  PROVE Goal
  BY <1>6, <1>9 DEF ForeignSends
<1>10. ASSUME NEW id, NEW args, SendFields(id, args)  PROVE Goal
  BY <1>6, <1>10 DEF SendFields, Ends
<1> HIDE DEF Goal
<1>11. ASSUME NEW e \in Ends, NEW id \in MessageIds \cup {0}, New(e, id) \/ SetId(e, id)  PROVE Goal
  BY <1>7, <1>11 DEF New, SetId
<1>12. ASSUME NEW e \in Ends, NEW s \in Strings,
              \/ zccp_msg_set_identifier(e, s) \/ zccp_msg_set_expression(e, s)
              \/ zccp_msg_set_address(e, s) \/ zccp_msg_set_sender(e, s)
       PROVE  Goal
  BY <1>8, <1>12 DEF zccp_msg_set_identifier, zccp_msg_set_expression, zccp_msg_set_address,
                     zccp_msg_set_sender
<1>13. ASSUME NEW e \in Ends, NEW d \in Dictionaries, zccp_msg_set_headers(e, d)  PROVE Goal
  BY <1>8, <1>13 DEF zccp_msg_set_headers
<1>14. ASSUME NEW e \in Ends, NEW b \in Bodies, zccp_msg_set_content(e, b)  PROVE Goal
  BY <1>8, <1>14 DEF zccp_msg_set_content
<1>15. ASSUME NEW e \in Ends, NEW k \in Names, NEW v \in Values, zccp_msg_headers_insert(e, k, v)
       PROVE  Goal
  BY <1>8, <1>15 DEF zccp_msg_headers_insert
<1>16. ASSUME NEW e \in Ends,
              \/ zccp_msg_get_headers(e) \/ zccp_msg_get_content(e)
              \/ zccp_msg_set_routing_id(e) \/ Duplicate(e) \/ Destroy(e)
       PROVE  Goal
  BY <1>7, <1>16 DEF zccp_msg_get_headers, zccp_msg_get_content, HandOver,
                     zccp_msg_set_routing_id, Duplicate, Destroy
<1>17. Goal
  BY <1>3, <1>4, <1>5, <1>9, <1>10, <1>11, <1>12, <1>13, <1>14, <1>15, <1>16 DEF Next
<1> QED  BY <1>17 DEF Goal

(* A message arrives as it was meant: with the fields of its id as the      *)
(* application set them, and without what the object held from earlier uses *)
(* under another id.                                                        *)
THEOREM MeantArrives ==
    ASSUME NullApart, NEW Known, ShortInputs(Known)
    PROVE  MsgSpec => ArrivesAsMeant
<1> DEFINE Arrives ==
             \A e \in Ends :
                (object[e] # NULL /\ Len(stream'[Other(e)]) > Len(stream[Other(e)]))
                   => zccp_msg_decode(Last(stream'[Other(e)])) = Meant(object[e])
<1>1. ShortInv(Known) /\ [Next]_msgVars => [Arrives]_msgVars
  BY ArrivesStep
<1>2. MsgSpec => [][Arrives]_msgVars
  <2> HIDE DEF Arrives
  <2> QED  BY <1>1, AlwaysShort, PTL DEF MsgSpec
<1> QED  BY <1>2 DEF ArrivesAsMeant

(* What callers pass to zccp_msg_send_hello etc.                            *)
Arguments == [identifier : Strings, expression : Strings, address : Strings, sender : Strings,
              headers : Dictionaries \cup {NULL}, content : Bodies \cup {NULL}]

(* What a DEALER sends from arguments is decoded as them.                   *)
LEMMA SentFieldsStep ==
    ASSUME NullApart, NEW Known, ShortInputs(Known), ShortInv(Known),
           NEW id \in MessageIds, NEW args \in Arguments, SendFields(id, args)
    PROVE  zccp_msg_decode(Last(stream'["router"])) = Meant(EncodeFields(id, args))
<1> DEFINE m == EncodeFields(id, args)
<1>1. \A f \in FieldNames : Fitting(f, args[f], Known)
  <2>1. /\ \A f \in StringFields : args[f] \in Strings
        /\ args.headers \in Dictionaries \cup {NULL} /\ args.content \in Bodies \cup {NULL}
    BY DEF Arguments, StringFields
  <2>2. \A f \in StringFields : Fitting(f, args[f], Known)
    BY <2>1, FieldsFit
  <2>3. Fitting("headers", args.headers, Known) /\ Fitting("content", args.content, Known)
    BY <2>1, FieldsFit, NothingFits
  <2> QED  BY <2>2, <2>3 DEF FieldNames
<1>2. m \in Limited(Known) /\ m.id \in MessageIds
  BY <1>1, FieldsLimited
<1>3. Transmit("dealer", m)
  BY DEF SendFields
<1> HIDE DEF m
<1>4. "dealer" \in Ends /\ Other("dealer") = "router"
  BY DEF Ends, Other
<1>5. Len(stream'["router"]) > Len(stream["router"])
  <2>1. PICK order \in Orders(m) :
           stream' = [stream EXCEPT !["router"] = Append(@, zccp_msg_encode(m, order))]
    BY <1>3, <1>4 DEF Transmit
  <2> DEFINE z == zccp_msg_encode(m, order)
             q == stream["router"]
  <2>2. z \in Readable(Known)
    BY <1>2, EncodeReadable
  <2> HIDE DEF z
  <2>3. q \in Seq(Readable(Known)) /\ stream'["router"] = Append(q, z)
    BY <2>1 DEF ShortInv, Ends, z
  <2> HIDE DEF q
  <2>4. Len(Append(q, z)) = Len(q) + 1 /\ Len(q) \in Nat
    BY <2>2, <2>3, AppendProperties, LenProperties
  <2> QED  BY <2>3, <2>4 DEF q
<1>6. zccp_msg_decode(Last(stream'[Other("dealer")])) = Meant(m)
  BY <1>2, <1>3, <1>4, <1>5, TransmitArrives
<1> QED  BY <1>4, <1>6 DEF m

(* zccp_msg_send_hello etc. have no object at hand, so ArrivesAsMeant says  *)
(* nothing of them: what they send arrives as their arguments.              *)
THEOREM SentFieldsArrive ==
    ASSUME NullApart, NEW Known, ShortInputs(Known)
    PROVE  MsgSpec => [][\A id \in MessageIds, args \in Arguments : SendFields(id, args) =>
                            zccp_msg_decode(Last(stream'["router"]))
                               = Meant(EncodeFields(id, args))]_msgVars
<1> DEFINE Arrives == \A id \in MessageIds, args \in Arguments : SendFields(id, args) =>
                            zccp_msg_decode(Last(stream'["router"]))
                               = Meant(EncodeFields(id, args))
<1>1. ShortInv(Known) => Arrives
  BY SentFieldsStep
<1> HIDE DEF Arrives
<1>2. MsgSpec => [][Arrives]_msgVars
  BY <1>1, AlwaysShort, PTL
<1> QED  BY <1>2 DEF Arrives
=============================================================================
