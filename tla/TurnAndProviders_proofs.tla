----------------------- MODULE TurnAndProviders_proofs -----------------------
(***************************************************************************)
(* What holds of Orchestrator, the turn of the LLM, for any provider, any  *)
(* number of calls, rounds and pieces, and of ProviderRuntime, where the   *)
(* voices and ears of a turn are loaded, for any number of tasks: their    *)
(* types, that a turn keeps to ToolProtocol, that calls and speech come    *)
(* whole, and that a cold load is paid once.                               *)
(***************************************************************************)
EXTENDS Orchestrator, ProviderRuntime, SequenceTheorems, FiniteSetTheorems,
        WellFoundedInduction, TLAPS

-----------------------------------------------------------------------------
(* Sets of naturals.                                                       *)

\* A set of naturals has a least element; induction over texts and sets is by it.
LEMMA LeastNatural ==
    ASSUME NEW S, S \subseteq Nat, S # {}
    PROVE  \E x \in S : \A y \in S : x <= y
  <1>1. PICK x \in S : \A y \in S : ~ (<<y, x>> \in OpToRel(<, Nat))
    BY NatLessThanWellFounded, WFMin
  <1>2. \A y \in S : ~ (y < x)
    BY <1>1 DEF OpToRel
  <1> QED BY <1>2

\* A bounded one has a greatest.
LEMMA GreatestNatural ==
    ASSUME NEW n \in Nat, NEW S, S \subseteq 0 .. n, S # {}
    PROVE  \E x \in S : \A y \in S : x >= y
  <1> DEFINE T == {k \in Nat : n - k \in S}
  <1>1. T # {}
    <2>1. PICK x \in S : TRUE
      OBVIOUS
    <2>2. n - x \in Nat /\ n - (n - x) = x
      BY <2>1
    <2> QED BY <2>1, <2>2
  <1>2. PICK k \in T : \A m \in T : k <= m
    <2> HIDE DEF T
    <2>1. T \subseteq Nat
      BY DEF T
    <2> QED BY <1>1, <2>1, LeastNatural
  <1>3. ASSUME NEW y \in S PROVE n - k >= y
    <2>1. y \in 0 .. n /\ n - y \in Nat /\ n - (n - y) = y
      OBVIOUS
    <2>2. n - y \in T
      BY <2>1
    <2>3. k <= n - y
      BY <1>2, <2>2
    <2> QED BY <1>2, <2>1, <2>3
  <1> QED BY <1>2, <1>3

\* Max is what it is called.
LEMMA Maximum ==
    ASSUME NEW n \in Nat, NEW S, S \subseteq 0 .. n, S # {}
    PROVE  Max(S) \in S /\ \A y \in S : Max(S) >= y
  BY GreatestNatural DEF Max

\* So is Min.
LEMMA Minimum ==
    ASSUME NEW S, S \subseteq Nat, S # {}
    PROVE  Min(S) \in S /\ \A y \in S : Min(S) <= y
  BY LeastNatural DEF Min

\* Nth numbers a set from below.
Rank(S, p) == Cardinality({q \in S : q <= p})

\* The ranks of a bounded set are different numbers up to its size.
LEMMA RankGrows ==
    ASSUME NEW n \in Nat, NEW S, S \subseteq 0 .. n
    PROVE  /\ IsFiniteSet(S) /\ Cardinality(S) \in Nat
           /\ \A p \in S : Rank(S, p) \in 1 .. Cardinality(S)
           /\ \A p, q \in S : p < q => Rank(S, p) < Rank(S, q)
  <1>1. IsFiniteSet(S) /\ Cardinality(S) \in Nat
    <2>1. S \in SUBSET Nat /\ \A s \in S : s <= n
      OBVIOUS
    <2> QED BY <2>1, FS_BoundedSetOfNaturals, FS_CardinalityType
  <1>2. ASSUME NEW p \in S PROVE Rank(S, p) \in 1 .. Cardinality(S)
    <2> DEFINE below == {q \in S : q <= p}
    <2>1. below \in SUBSET S /\ p \in below
      OBVIOUS
    <2> HIDE DEF below
    <2>2. IsFiniteSet(below) /\ Cardinality(below) <= Cardinality(S) /\ Cardinality(below) \in Nat
      BY <1>1, <2>1, FS_Subset, FS_CardinalityType
    <2>3. Cardinality(below) # 0
      BY <2>1, <2>2, FS_EmptySet
    <2>4. Rank(S, p) = Cardinality(below)
      BY DEF Rank, below
    <2> QED BY <1>1, <2>2, <2>3, <2>4
  <1>3. ASSUME NEW p \in S, NEW q \in S, p < q PROVE Rank(S, p) < Rank(S, q)
    <2> DEFINE small == {r \in S : r <= p}
               large == {r \in S : r <= q}
    <2>5. S \subseteq Nat /\ p \in Nat /\ q \in Nat /\ ~(q <= p)
      BY <1>3
    <2>6. \A r \in S : r <= p => r <= q
      BY <1>3, <2>5
    <2>7. q \in large /\ q \notin small
      BY <2>5
    <2>8. small \subseteq large /\ large \subseteq S
      BY <2>6
    <2>1. small \in SUBSET large /\ q \in large /\ q \notin small /\ large \in SUBSET S
      <3> HIDE DEF small, large
      <3> QED BY <2>7, <2>8
    <2> HIDE DEF small, large
    <2>2. IsFiniteSet(large) /\ Cardinality(large) \in Nat
      BY <1>1, <2>1, FS_Subset, FS_CardinalityType
    <2>3. /\ IsFiniteSet(small) /\ Cardinality(small) \in Nat
          /\ Cardinality(small) <= Cardinality(large)
          /\ Cardinality(large) = Cardinality(small) => large = small
      BY <2>1, <2>2, FS_Subset, FS_CardinalityType
    <2>4. Cardinality(small) < Cardinality(large)
      BY <2>1, <2>2, <2>3
    <2> QED BY <2>4 DEF Rank, small, large
  <1> QED BY <1>1, <1>2, <1>3

\* Nth goes through a set in order and leaves nothing out.
LEMMA NthCounts ==
    ASSUME NEW n \in Nat, NEW S, S \subseteq 0 .. n
    PROVE  /\ \A k \in 1 .. Cardinality(S) : Nth(S, k) \in S /\ Rank(S, Nth(S, k)) = k
           /\ \A p \in S : Nth(S, Rank(S, p)) = p
           /\ \A k, m \in 1 .. Cardinality(S) : k < m => Nth(S, k) < Nth(S, m)
  <1> DEFINE c == Cardinality(S)
             rank == [p \in S |-> Rank(S, p)]
  <1>1. /\ IsFiniteSet(S) /\ c \in Nat
        /\ \A p \in S : Rank(S, p) \in 1 .. c
        /\ \A p, q \in S : p < q => Rank(S, p) < Rank(S, q)
    BY RankGrows
  <1>2. \A p, q \in S : Rank(S, p) = Rank(S, q) => p = q
    <2> SUFFICES ASSUME NEW p \in S, NEW q \in S, Rank(S, p) = Rank(S, q), p # q PROVE FALSE
      OBVIOUS
    <2>1. p < q \/ q < p
      OBVIOUS
    <2> QED BY <1>1, <2>1
  <1>3. rank \in Injection(S, 1 .. c)
    <2>1. rank \in [S -> 1 .. c]
      BY <1>1
    <2>2. \A p, q \in S : rank[p] = rank[q] => p = q
      BY <1>2
    <2> QED BY <2>1, <2>2 DEF Injection, IsInjective
  <1>4. IsFiniteSet(1 .. c) /\ Cardinality(1 .. c) = c
    BY <1>1, FS_Interval
  <1>5. rank \in Surjection(S, 1 .. c)
    <2> HIDE DEF rank
    <2> QED BY <1>1, <1>3, <1>4, FS_Injection
  <1>6. ASSUME NEW k \in 1 .. c PROVE \E p \in S : Rank(S, p) = k
    BY <1>5 DEF Surjection
  <1>7. \A k : Nth(S, k) = CHOOSE p \in S : Rank(S, p) = k
    BY DEF Nth, Rank
  <1>8. ASSUME NEW k \in 1 .. c PROVE Nth(S, k) \in S /\ Rank(S, Nth(S, k)) = k
    BY <1>6, <1>7
  <1>9. ASSUME NEW p \in S PROVE Nth(S, Rank(S, p)) = p
    BY <1>1, <1>2, <1>8
  <1>10. ASSUME NEW k \in 1 .. c, NEW m \in 1 .. c, k < m PROVE Nth(S, k) < Nth(S, m)
    <2> DEFINE p == Nth(S, k)
               q == Nth(S, m)
    <2>1. p \in S /\ q \in S /\ Rank(S, p) = k /\ Rank(S, q) = m
      BY <1>8
    <2> HIDE DEF p, q
    <2>2. p \in Nat /\ q \in Nat
      BY <2>1
    <2>3. ~(q < p) /\ q # p
      BY <1>1, <1>10, <2>1
    <2>4. p < q
      BY <2>2, <2>3
    <2> QED BY <2>4 DEF p, q
  <1> QED BY <1>8, <1>9, <1>10

-----------------------------------------------------------------------------
(* The splitter.                                                           *)

\* A cut is behind where the search began, and not at a letter.
LEMMA CutIsAhead ==
    ASSUME NEW txt \in Seq(Chars), NEW from \in 0 .. Len(txt), FirstCut(txt, from) # 0
    PROVE  FirstCut(txt, from) \in from + 1 .. Len(txt) /\ txt[FirstCut(txt, from)] # "letter"
  <1> DEFINE n == Len(txt)
             starts == {i \in from + 1 .. n : txt[i] \in {"mark", "newline"}}
             s == Min(starts)
             ends == {end \in s .. n : IsMatch(txt, s, end)}
  <1>1. n \in Nat
    OBVIOUS
  <1>2. starts # {} /\ FirstCut(txt, from) = Max(ends)
    BY DEF FirstCut
  <1>3. starts \subseteq Nat
    OBVIOUS
  <1>4. s \in starts
    <2> HIDE DEF starts
    <2> QED BY <1>2, <1>3, Minimum
  <1> HIDE DEF s
  <1>5. s \in from + 1 .. n /\ txt[s] \in {"mark", "newline"} /\ s \in s .. n
    BY <1>4
  <1>6. IsMatch(txt, s, s)
    <2>1. CASE txt[s] = "mark"
      <3>1. AllOf(txt, s, s, {"mark"}) /\ AllOf(txt, s + 1, s, White \cup {"quote"})
        BY <1>5, <2>1 DEF AllOf
      <3> QED BY <1>5, <3>1 DEF IsMatch
    <2>2. CASE txt[s] = "newline"
      BY <1>5, <2>2 DEF IsMatch, AllOf
    <2> QED BY <1>5, <2>1, <2>2
  <1>7. ends # {} /\ ends \subseteq 0 .. n
    BY <1>1, <1>5, <1>6
  <1>8. Max(ends) \in ends
    <2> HIDE DEF ends, n
    <2> QED BY <1>1, <1>7, Maximum
  <1> DEFINE e == Max(ends)
  <1>9. e \in s .. n /\ IsMatch(txt, s, e)
    BY <1>8
  <1> HIDE DEF e, ends, n
  <1>10. txt[e] # "letter"
    <2>1. CASE AllOf(txt, s, e, {"newline"})
      BY <1>5, <1>9, <2>1 DEF AllOf
    <2>2. ASSUME NEW marks \in s .. e, AllOf(txt, s, marks, {"mark"}),
                 AllOf(txt, marks + 1, e, White \cup {"quote"})
          PROVE  txt[e] # "letter"
      <3>1. CASE e = marks
        BY <1>5, <1>9, <2>2, <3>1 DEF AllOf
      <3>2. CASE e # marks
        <4>1. e \in marks + 1 .. e
          BY <1>5, <1>9, <3>2
        <4> QED BY <2>2, <4>1 DEF AllOf, White
      <3> QED BY <3>1, <3>2
    <2> QED BY <1>9, <2>1, <2>2 DEF IsMatch
  <1>11. e \in from + 1 .. n
    BY <1>5, <1>9
  <1> QED BY <1>2, <1>10, <1>11 DEF e, n

\* The cuts that the loop makes exist: the function that collects them is well defined.
LEMMA CutsAreCollected ==
    ASSUME NEW txt \in Seq(Chars), NEW from \in 0 .. Len(txt)
    PROVE  \E f : /\ f = [p \in 0 .. Len(txt) |->
                             IF FirstCut(txt, p) = 0 THEN {}
                             ELSE {FirstCut(txt, p)} \cup f[FirstCut(txt, p)]]
                  /\ Cuts(txt, from) = f[from]
  <1> DEFINE n == Len(txt)
             F(p) == FirstCut(txt, p)
             Body(f) == [p \in 0 .. n |-> IF F(p) = 0 THEN {} ELSE {F(p)} \cup f[F(p)]]
             Follows(S, p) == F(p) # 0 => F(p) \in S
             Closed(p) == {S \in SUBSET (1 .. n) : Follows(S, p) /\ \A s \in S : Follows(S, s)}
             After(p) == {c \in 1 .. n : \A S \in Closed(p) : c \in S}
             g == [p \in 0 .. n |-> After(p)]
  <1>1. n \in Nat
    OBVIOUS
  <1>2. \A p \in 0 .. n : F(p) # 0 => F(p) \in 1 .. n /\ F(p) \in 0 .. n
    <2> TAKE p \in 0 .. n
    <2> HAVE F(p) # 0
    <2>1. F(p) \in p + 1 .. n
      BY CutIsAhead
    <2> QED BY <1>1, <2>1
  <1> HIDE DEF F, n
  <1>3. ASSUME NEW p \in 0 .. n PROVE After(p) \in Closed(p)
    <2>1. Follows(After(p), p)
      BY <1>2
    <2>2. ASSUME NEW s \in After(p) PROVE Follows(After(p), s)
      <3>1. s \in 0 .. n
        BY <1>1
      <3>2. \A S \in Closed(p) : Follows(S, s)
        BY <2>2
      <3> QED BY <1>2, <3>1, <3>2
    <2> QED BY <2>1, <2>2
  <1>4. ASSUME NEW p \in 0 .. n
        PROVE  After(p) = IF F(p) = 0 THEN {} ELSE {F(p)} \cup After(F(p))
    <2>1. CASE F(p) = 0
      <3>1. {} \in Closed(p)
        BY <2>1
      <3> QED BY <2>1, <3>1
    <2>2. CASE F(p) # 0
      <3> DEFINE c == F(p)
                 T == {c} \cup After(c)
      <3>1. c \in 1 .. n /\ c \in 0 .. n
        BY <1>2, <2>2
      <3>2. After(c) \in Closed(c)
        BY <1>3, <3>1
      <3>3. T \in Closed(p)
        <4>1. T \in SUBSET (1 .. n)
          BY <3>1
        <4>2. Follows(T, p)
          OBVIOUS
        <4>3. \A s \in T : Follows(T, s)
          BY <3>2
        <4> QED BY <4>1, <4>2, <4>3
      <3>4. After(p) \subseteq T
        BY <3>3
      <3>5. ASSUME NEW S \in Closed(p) PROVE S \in Closed(c) /\ c \in S
        BY <2>2
      <3>6. T \subseteq After(p)
        BY <3>1, <3>5
      <3> QED BY <2>2, <3>4, <3>6
    <2> QED BY <2>1, <2>2
  <1>5. g = Body(g)
    <2>1. ASSUME NEW p \in 0 .. n
          PROVE  After(p) = IF F(p) = 0 THEN {} ELSE {F(p)} \cup g[F(p)]
      <3> HIDE DEF After
      <3> QED BY <1>2, <1>4
    <2> HIDE DEF After
    <2> QED BY <2>1
  <1> HIDE DEF g
  <1> DEFINE h == CHOOSE f : f = Body(f)
  <1>6. h = Body(h)
    <2> HIDE DEF Body
    <2> QED BY <1>5
  <1>7. Cuts(txt, from) = h[from]
    BY DEF Cuts, F, n
  <1> QED BY <1>6, <1>7 DEF F, n

\* The cuts lie behind where the loop began, and none is at a letter.
LEMMA CutsAreEnds ==
    ASSUME NEW txt \in Seq(Chars), NEW from \in 0 .. Len(txt)
    PROVE  \A c \in Cuts(txt, from) : c \in from + 1 .. Len(txt) /\ txt[c] # "letter"
  <1> DEFINE n == Len(txt)
             F(p) == FirstCut(txt, p)
  <1>1. n \in Nat
    OBVIOUS
  <1>2. PICK f : /\ f = [p \in 0 .. n |-> IF F(p) = 0 THEN {} ELSE {F(p)} \cup f[F(p)]]
                 /\ Cuts(txt, from) = f[from]
    BY CutsAreCollected
  <1>3. \A p \in 0 .. n : F(p) # 0 => F(p) \in p + 1 .. n /\ txt[F(p)] # "letter"
    BY CutIsAhead
  <1>4. \A p \in 0 .. n : f[p] = IF F(p) = 0 THEN {} ELSE {F(p)} \cup f[F(p)]
    BY <1>2
  <1> DEFINE Good(p) == \A c \in f[p] : c \in p + 1 .. n /\ txt[c] # "letter"
             Bad == {p \in 0 .. n : ~Good(p)}
  <1>5. Bad = {}
    <2> SUFFICES ASSUME Bad # {} PROVE FALSE
      OBVIOUS
    <2>1. PICK p \in Bad : \A q \in Bad : p >= q
      <3>1. Bad \subseteq 0 .. n
        OBVIOUS
      <3> HIDE DEF Bad, n
      <3> QED BY <1>1, <3>1, GreatestNatural
    <2>2. p \in 0 .. n
      BY <2>1
    <2> HIDE DEF F, n
    <2>3. CASE F(p) = 0
      BY <1>4, <2>1, <2>2, <2>3
    <2>4. CASE F(p) # 0
      <3>1. F(p) \in p + 1 .. n /\ txt[F(p)] # "letter" /\ F(p) \in 0 .. n
        BY <1>1, <1>3, <2>2, <2>4
      <3>2. F(p) \notin Bad
        BY <1>1, <2>1, <2>2, <3>1
      <3>3. Good(F(p))
        BY <3>1, <3>2
      <3>4. f[p] = {F(p)} \cup f[F(p)]
        BY <1>4, <2>2, <2>4
      <3>5. ASSUME NEW c \in f[p] PROVE c \in p + 1 .. n /\ txt[c] # "letter"
        <4>1. CASE c = F(p)
          BY <3>1, <4>1
        <4>2. CASE c \in f[F(p)]
          <5>1. c \in F(p) + 1 .. n /\ txt[c] # "letter"
            BY <3>3, <4>2
          <5> QED BY <1>1, <2>2, <3>1, <5>1
        <4> QED BY <3>4, <4>1, <4>2
      <3> QED BY <2>1, <3>5
    <2> QED BY <2>3, <2>4
  <1>6. Good(from)
    BY <1>5
  <1> QED BY <1>2, <1>6 DEF n

\* A stretch stripped of the white space at its ends holds all its letters, or, when it
\* is not long enough, no two characters that are not white.
LEMMA Stripped ==
    ASSUME NEW txt \in Seq(Chars), NEW from \in 0 .. Len(txt), NEW end \in from .. Len(txt),
           NEW s, s = Strip(txt, from, end)
    PROVE  /\ s = <<s[1], s[2]>>
           /\ LongEnough(s) =>
                 /\ s[1] \in from + 1 .. end /\ s[2] \in s[1] .. end
                 /\ \A p \in from + 1 .. end : txt[p] = "letter" => p \in s[1] .. s[2]
           /\ ~LongEnough(s) =>
                 \A p, q \in from + 1 .. end : txt[p] = "letter" /\ txt[q] = "letter" => p = q
  <1> DEFINE n == Len(txt)
             solid == {i \in from + 1 .. end : txt[i] \notin White}
  <1>1. n \in Nat /\ from \in Nat /\ end \in Nat /\ from <= end /\ end <= n
    OBVIOUS
  <1>2. \A p \in from + 1 .. end : txt[p] = "letter" => p \in solid
    BY DEF White
  <1>3. CASE solid = {}
    <2>1. s = <<end + 1, end>>
      BY <1>3 DEF Strip
    <2>2. ~LongEnough(s)
      BY <1>1, <2>1 DEF LongEnough
    <2>3. s = <<s[1], s[2]>>
      BY <2>1
    <2>4. \A p \in from + 1 .. end : txt[p] # "letter"
      BY <1>2, <1>3
    <2> QED BY <2>2, <2>3, <2>4
  <1>4. CASE solid # {}
    <2> DEFINE a == Min(solid)
               b == Max(solid)
    <2>1. s = <<a, b>>
      BY <1>4 DEF Strip
    <2>2. a \in solid /\ b \in solid /\ \A p \in solid : a <= p /\ p <= b
      <3>1. solid \subseteq 0 .. n /\ solid \subseteq Nat
        BY <1>1
      <3> HIDE DEF solid, n
      <3>2. Min(solid) \in solid /\ \A p \in solid : Min(solid) <= p
        BY <1>4, <3>1, Minimum
      <3>3. Max(solid) \in solid /\ \A p \in solid : Max(solid) >= p
        BY <1>1, <1>4, <3>1, Maximum
      <3> QED BY <1>1, <3>1, <3>2, <3>3
    <2> HIDE DEF a, b
    <2>3. a \in from + 1 .. end /\ b \in from + 1 .. end /\ a <= b
      BY <2>2
    <2>4. LongEnough(s) <=> b > a
      BY <2>1 DEF LongEnough
    <2>5. \A p \in from + 1 .. end : txt[p] = "letter" => p \in a .. b
      BY <1>1, <1>2, <2>2, <2>3
    <2>6. ASSUME ~(b > a) PROVE a = b
      BY <1>1, <2>3, <2>6
    <2> HIDE DEF solid, n
    <2>7. s[1] = a /\ s[2] = b
      BY <2>1
    <2>8. b > a => a \in from + 1 .. end /\ b \in a .. end
      BY <1>1, <2>3
    <2>9. ASSUME ~(b > a), NEW p \in from + 1 .. end, NEW q \in from + 1 .. end,
                 txt[p] = "letter", txt[q] = "letter"
          PROVE  p = q
      <3>1. p \in a .. a /\ q \in a .. a
        BY <2>5, <2>6, <2>9
      <3> QED BY <1>1, <2>3, <3>1
    <2>10. s = <<s[1], s[2]>>
      BY <2>1, <2>7
    <2>11. CASE b > a
      BY <2>4, <2>5, <2>7, <2>8, <2>10, <2>11
    <2>12. CASE ~(b > a)
      BY <2>4, <2>9, <2>10, <2>12
    <2> QED BY <2>11, <2>12
  <1> QED BY <1>3, <1>4

\* A letter at p with none beside it.
Alone(txt, p) == \A q \in {p - 1, p + 1} \cap DOMAIN txt : txt[q] # "letter"
\* p is in one of these stretches.
Covered(stretches, p) == \E k \in DOMAIN stretches : p \in stretches[k][1] .. stretches[k][2]
\* Nothing begins or goes on at p: the text begins behind it, or it is no letter.
Clear(txt, p) == p = 0 \/ txt[p] # "letter"

\* A stretch between two clear places is spoken, or its only letter is alone.
LEMMA LetterOfStretch ==
    ASSUME NEW txt \in Seq(Chars), NEW from \in 0 .. Len(txt), NEW end \in from .. Len(txt),
           Clear(txt, from), end = Len(txt) \/ Clear(txt, end),
           NEW p \in from + 1 .. end, txt[p] = "letter"
    PROVE  LET s == Strip(txt, from, end) IN
           IF LongEnough(s) THEN p \in s[1] .. s[2] ELSE Alone(txt, p)
  <1> DEFINE s == Strip(txt, from, end)
  <1>1. CASE LongEnough(s)
    BY <1>1, Stripped
  <1>2. CASE ~LongEnough(s)
    <2>1. \A q \in from + 1 .. end : txt[q] = "letter" => q = p
      BY <1>2, Stripped
    <2> HIDE DEF s
    <2>2. ASSUME NEW q \in {p - 1, p + 1} \cap DOMAIN txt, txt[q] = "letter" PROVE FALSE
      <3>1. q \in 1 .. Len(txt) /\ p \in from + 1 .. end /\ q # p /\ Len(txt) \in Nat
            /\ from \in Nat /\ end \in Nat
        BY <2>2
      <3>2. q \notin from + 1 .. end
        BY <2>1, <2>2, <3>1
      <3>3. CASE q = p - 1
        <4>1. q = from
          BY <3>1, <3>2, <3>3
        <4> QED BY <2>2, <3>1, <4>1 DEF Clear
      <3>4. CASE q = p + 1
        <4>1. p = end
          BY <3>1, <3>2, <3>4
        <4>2. end # Len(txt)
          BY <3>1, <3>4, <4>1
        <4> QED BY <3>1, <4>1, <4>2 DEF Clear
      <3> QED BY <2>2, <3>3, <3>4
    <2> QED BY <1>2, <2>2 DEF Alone, s
  <1> QED BY <1>1, <1>2

Stretches == Seq(Nat \X Nat)
\* The stretches lie between two places, one behind the other.
Within(stretches, from, end) ==
    \A k \in DOMAIN stretches :
        /\ from < stretches[k][1] /\ stretches[k][1] <= stretches[k][2] /\ stretches[k][2] <= end
Rising(stretches) ==
    \A k, m \in DOMAIN stretches : k < m => stretches[k][2] < stretches[m][1]

\* flush
LEMMA RestIsRight ==
    ASSUME NEW txt \in Seq(Chars), NEW from \in 0 .. Len(txt), Clear(txt, from),
           NEW rest, rest = Rest(txt, from)
    PROVE  /\ rest \in Stretches /\ Within(rest, from, Len(txt)) /\ Rising(rest)
           /\ \A p \in from + 1 .. Len(txt) :
                 txt[p] = "letter" => Covered(rest, p) \/ Alone(txt, p)
  <1> DEFINE n == Len(txt)
             s == Strip(txt, from, n)
  <1>1. n \in Nat /\ from \in Nat /\ n \in from .. n
    OBVIOUS
  <1>2. \A p \in from + 1 .. n :
           txt[p] = "letter" => IF LongEnough(s) THEN p \in s[1] .. s[2] ELSE Alone(txt, p)
    BY <1>1, LetterOfStretch
  <1>3. /\ s = <<s[1], s[2]>>
        /\ LongEnough(s) => s[1] \in from + 1 .. n /\ s[2] \in s[1] .. n
    BY <1>1, Stripped
  <1>4. rest = IF LongEnough(s) THEN <<s>> ELSE <<>>
    BY DEF Rest
  <1> HIDE DEF s, n
  <1>5. CASE LongEnough(s)
    <2>1. s \in Nat \X Nat /\ from < s[1] /\ s[1] <= s[2] /\ s[2] <= n
      BY <1>1, <1>3, <1>5
    <2>2. rest = <<s>> /\ rest \in Stretches /\ DOMAIN rest = {1} /\ rest[1] = s
      BY <1>4, <1>5, <2>1 DEF Stretches
    <2>3. Within(rest, from, n) /\ Rising(rest)
      BY <2>1, <2>2 DEF Within, Rising
    <2>4. \A p \in from + 1 .. n : txt[p] = "letter" => Covered(rest, p)
      BY <1>2, <1>5, <2>2 DEF Covered
    <2> QED BY <2>2, <2>3, <2>4 DEF n
  <1>6. CASE ~LongEnough(s)
    <2>1. rest = <<>> /\ rest \in Stretches /\ DOMAIN rest = {}
      BY <1>4, <1>6 DEF Stretches
    <2>2. Within(rest, from, n) /\ Rising(rest)
      BY <2>1 DEF Within, Rising
    <2>3. \A p \in from + 1 .. n : txt[p] = "letter" => Alone(txt, p)
      BY <1>2, <1>6
    <2> QED BY <2>1, <2>2, <2>3 DEF n
  <1> QED BY <1>5, <1>6

\* feed
LEMMA SentencesAreRight ==
    ASSUME NEW txt \in Seq(Chars), NEW from \in 0 .. Len(txt), Clear(txt, from),
           NEW heard, heard = Sentences(txt, from), NEW last, last = LastCut(txt, from)
    PROVE  /\ last \in from .. Len(txt) /\ Clear(txt, last)
           /\ heard \in Stretches /\ Within(heard, from, last) /\ Rising(heard)
           /\ \A p \in from + 1 .. last :
                 txt[p] = "letter" => Covered(heard, p) \/ Alone(txt, p)
  <1> DEFINE n == Len(txt)
             cuts == Cuts(txt, from)
             before(end) == Max({from} \cup {c \in cuts : c < end})
             piece(end) == Strip(txt, before(end), end)
             ends == {c \in cuts : LongEnough(piece(c))}
  <1>1. n \in Nat /\ from \in Nat /\ from <= n
    OBVIOUS
  <1>2. \A c \in cuts : c \in from + 1 .. n /\ txt[c] # "letter"
    BY CutsAreEnds
  <1>3. heard = [k \in 1 .. Cardinality(ends) |-> piece(Nth(ends, k))]
    BY DEF Sentences
  <1>4. last = Max({from} \cup cuts)
    BY DEF LastCut
  <1> HIDE DEF n, cuts
  <1>5. last \in {from} \cup cuts /\ \A c \in {from} \cup cuts : last >= c
    <2>1. {from} \cup cuts \subseteq 0 .. n
      BY <1>1, <1>2
    <2> DEFINE S == {from} \cup cuts
    <2>2. S # {}
      OBVIOUS
    <2> HIDE DEF S
    <2>3. S \subseteq 0 .. n
      BY <2>1 DEF S
    <2>4. Max(S) \in S /\ \A c \in S : Max(S) >= c
      BY <1>1, <2>2, <2>3, Maximum
    <2> QED BY <1>4, <2>4 DEF S
  <1>6. last \in from .. n /\ Clear(txt, last)
    BY <1>1, <1>2, <1>5 DEF Clear
  \* The place before an end is a clear one, and no cut lies between.
  <1>7. ASSUME NEW e \in cuts
        PROVE  /\ before(e) \in from .. e - 1 /\ Clear(txt, before(e))
               /\ \A c \in cuts : c < e => c <= before(e)
    <2> DEFINE S == {from} \cup {c \in cuts : c < e}
    <2>1. S \subseteq 0 .. n /\ S # {} /\ e \in from + 1 .. n
      BY <1>1, <1>2
    <2>2. Max(S) \in S /\ \A c \in S : Max(S) >= c
      <3> HIDE DEF S
      <3> QED BY <1>1, <2>1, Maximum
    <2>3. before(e) = Max(S)
      OBVIOUS
    <2> HIDE DEF before
    <2>4. before(e) \in from .. e - 1
      BY <1>1, <1>2, <2>1, <2>2, <2>3
    <2>5. Clear(txt, before(e))
      BY <1>2, <2>2, <2>3 DEF Clear
    <2>6. \A c \in cuts : c < e => c <= before(e)
      BY <1>1, <1>2, <2>2, <2>3, <2>4
    <2> QED BY <2>4, <2>5, <2>6
  <1> HIDE DEF before
  <1>8. ASSUME NEW e \in ends
        PROVE  /\ piece(e) \in Nat \X Nat
               /\ before(e) < piece(e)[1] /\ piece(e)[1] <= piece(e)[2] /\ piece(e)[2] <= e
    <2>1. e \in cuts /\ LongEnough(piece(e)) /\ e \in from + 1 .. n
      BY <1>2
    <2>2. before(e) \in 0 .. Len(txt) /\ e \in before(e) .. Len(txt)
      BY <1>1, <1>7, <2>1 DEF n
    <2>3. /\ piece(e) = <<piece(e)[1], piece(e)[2]>>
          /\ piece(e)[1] \in before(e) + 1 .. e /\ piece(e)[2] \in piece(e)[1] .. e
      BY <2>1, <2>2, Stripped
    <2> HIDE DEF piece
    <2> QED BY <2>1, <2>2, <2>3
  <1>9. ASSUME NEW p \in from + 1 .. last, txt[p] = "letter"
        PROVE  (\E e \in ends : p \in piece(e)[1] .. piece(e)[2]) \/ Alone(txt, p)
    <2> DEFINE S == {c \in cuts : p <= c}
    <2>1. last \in cuts /\ last \in S
      BY <1>1, <1>5, <1>6
    <2>2. PICK e \in S : \A c \in S : e <= c
      <3>1. S \subseteq Nat
        BY <1>1, <1>2
      <3> HIDE DEF S
      <3> QED BY <2>1, <3>1, LeastNatural
    <2>3. e \in cuts /\ p <= e /\ e \in from + 1 .. n /\ txt[e] # "letter"
      BY <1>2, <2>2
    <2>4. before(e) < p
      <3>1. {from} \cup {c \in cuts : c < e} \subseteq 0 .. n
        BY <1>1, <1>2
      <3> DEFINE T == {from} \cup {c \in cuts : c < e}
      <3>2. T \subseteq 0 .. n /\ T # {}
        BY <3>1
      <3>3. before(e) = Max(T)
        BY DEF before
      <3>4. before(e) \in T
        <4> HIDE DEF T
        <4> QED BY <1>1, <3>2, <3>3, Maximum
      <3>5. \A c \in T : c < p
        BY <1>1, <1>2, <2>2, <2>3
      <3> QED BY <3>4, <3>5
    <2>5. before(e) \in 0 .. Len(txt) /\ e \in before(e) .. Len(txt) /\ p \in before(e) + 1 .. e
      BY <1>1, <1>7, <2>3, <2>4 DEF n
    <2>6. Clear(txt, before(e)) /\ Clear(txt, e)
      BY <1>7, <2>3 DEF Clear
    <2>7. IF LongEnough(piece(e)) THEN p \in piece(e)[1] .. piece(e)[2] ELSE Alone(txt, p)
      BY <1>9, <2>5, <2>6, LetterOfStretch
    <2> HIDE DEF piece
    <2> QED BY <2>3, <2>7
  <1>10. /\ Cardinality(ends) \in Nat
         /\ \A k \in 1 .. Cardinality(ends) : Nth(ends, k) \in ends
         /\ \A e \in ends : \E k \in 1 .. Cardinality(ends) : Nth(ends, k) = e
         /\ \A k, m \in 1 .. Cardinality(ends) : k < m => Nth(ends, k) < Nth(ends, m)
    <2>1. ends \subseteq 0 .. n
      BY <1>1, <1>2
    <2> HIDE DEF ends
    <2> QED BY <1>1, <2>1, NthCounts, RankGrows
  <1>11. \A e \in ends : e \in cuts /\ e \in Nat /\ e <= last
    BY <1>1, <1>2, <1>5
  <1> HIDE DEF piece, ends
  <1>12. DOMAIN heard = 1 .. Cardinality(ends)
         /\ \A k \in DOMAIN heard : heard[k] = piece(Nth(ends, k)) /\ Nth(ends, k) \in ends
    BY <1>3, <1>10
  <1>13. heard \in Stretches
    <2>1. \A k \in 1 .. Cardinality(ends) : piece(Nth(ends, k)) \in Nat \X Nat
      BY <1>8, <1>10
    <2>2. heard \in [1 .. Cardinality(ends) -> Nat \X Nat]
      BY <1>3, <2>1
    <2> QED BY <1>10, <2>2 DEF Stretches
  <1>14. ASSUME NEW k \in DOMAIN heard
         PROVE  from < heard[k][1] /\ heard[k][1] <= heard[k][2] /\ heard[k][2] <= last
    <2>1. PICK e \in ends : heard[k] = piece(e)
      BY <1>12
    <2>2. e \in cuts /\ e \in Nat /\ e <= last /\ before(e) \in Nat /\ from <= before(e)
      BY <1>1, <1>7, <1>11
    <2>3. piece(e)[1] \in Nat /\ piece(e)[2] \in Nat
      BY <1>8
    <2> QED BY <1>1, <1>6, <1>8, <2>1, <2>2, <2>3
  <1>15. ASSUME NEW k \in DOMAIN heard, NEW m \in DOMAIN heard, k < m
         PROVE  heard[k][2] < heard[m][1]
    <2> DEFINE d == Nth(ends, k)
               e == Nth(ends, m)
    <2>1. d \in ends /\ e \in ends /\ d < e /\ heard[k] = piece(d) /\ heard[m] = piece(e)
      BY <1>10, <1>12, <1>15
    <2> HIDE DEF d, e
    <2>2. d \in cuts /\ e \in cuts /\ d \in Nat /\ e \in Nat
      BY <1>11, <2>1
    <2>3. before(e) \in Nat /\ d <= before(e)
      BY <1>1, <1>7, <2>1, <2>2
    <2>4. piece(d)[2] \in Nat /\ piece(e)[1] \in Nat /\ piece(d)[2] <= d /\ before(e) < piece(e)[1]
      BY <1>8, <2>1
    <2> QED BY <2>1, <2>2, <2>3, <2>4
  <1>16. ASSUME NEW p \in from + 1 .. last, txt[p] = "letter"
         PROVE  Covered(heard, p) \/ Alone(txt, p)
    <2>1. ASSUME NEW e \in ends, p \in piece(e)[1] .. piece(e)[2] PROVE Covered(heard, p)
      <3>1. PICK k \in 1 .. Cardinality(ends) : Nth(ends, k) = e
        BY <1>10
      <3>2. k \in DOMAIN heard /\ heard[k] = piece(e)
        BY <1>12, <3>1
      <3> QED BY <2>1, <3>2 DEF Covered
    <2> QED BY <1>9, <1>16, <2>1
  <1> QED BY <1>6, <1>13, <1>14, <1>15, <1>16 DEF Within, Rising, n

-----------------------------------------------------------------------------
(* What is spoken.                                                         *)

\* Before the reply, the letters up to the cut are spoken or alone.
Midway == Open \cup {"speaking"}
Heard(end) == \A p \in 1 .. end : text[p] = "letter" => Covered(spoken, p) \/ Alone(text, p)

SpeechInv ==
    /\ text \in Seq(Chars) /\ cut \in 0 .. Len(text)
    /\ spoken \in Stretches /\ Rising(spoken)
    /\ at \in Midway => Within(spoken, 0, cut) /\ Clear(text, cut) /\ Heard(cut)
    /\ at \in {"replied", "saved"} /\ ~told =>
          (notice \/ text # <<>> => spoken # <<>>) /\ Heard(Len(text))

\* Stretches that are put behind others.
LEMMA Joined ==
    ASSUME NEW s \in Stretches, NEW t \in Stretches, NEW mid \in Nat, NEW end \in Nat,
           mid <= end, Rising(s), Rising(t), Within(s, 0, mid), Within(t, mid, end)
    PROVE  /\ s \o t \in Stretches /\ Rising(s \o t) /\ Within(s \o t, 0, end)
           /\ \A p \in Nat : Covered(s, p) \/ Covered(t, p) => Covered(s \o t, p)
  <1> DEFINE u == s \o t
  <1>1. /\ Len(s) \in Nat /\ Len(t) \in Nat /\ DOMAIN s = 1 .. Len(s) /\ DOMAIN t = 1 .. Len(t)
        /\ \A k \in DOMAIN s : s[k] \in Nat \X Nat
        /\ \A k \in DOMAIN t : t[k] \in Nat \X Nat
    BY DEF Stretches
  <1>2. /\ u \in Stretches /\ DOMAIN u = 1 .. Len(s) + Len(t)
        /\ \A k \in 1 .. Len(s) + Len(t) : u[k] = IF k <= Len(s) THEN s[k] ELSE t[k - Len(s)]
    BY DEF Stretches
  <1> HIDE DEF u
  <1>3. ASSUME NEW k \in DOMAIN u
        PROVE  \/ k \in DOMAIN s /\ u[k] = s[k]
               \/ k - Len(s) \in DOMAIN t /\ u[k] = t[k - Len(s)] /\ k > Len(s)
    BY <1>1, <1>2
  <1>4. Within(u, 0, end)
    <2> SUFFICES ASSUME NEW k \in DOMAIN u
                 PROVE  0 < u[k][1] /\ u[k][1] <= u[k][2] /\ u[k][2] <= end
      BY DEF Within
    <2>1. CASE k \in DOMAIN s /\ u[k] = s[k]
      <3>1. 0 < s[k][1] /\ s[k][1] <= s[k][2] /\ s[k][2] <= mid /\ s[k] \in Nat \X Nat
        BY <1>1, <2>1 DEF Within
      <3> QED BY <2>1, <3>1
    <2>2. CASE k - Len(s) \in DOMAIN t /\ u[k] = t[k - Len(s)]
      <3> DEFINE m == k - Len(s)
      <3>1. mid < t[m][1] /\ t[m][1] <= t[m][2] /\ t[m][2] <= end /\ t[m] \in Nat \X Nat
        BY <1>1, <2>2 DEF Within
      <3> QED BY <2>2, <3>1
    <2> QED BY <1>3, <2>1, <2>2
  <1>5. Rising(u)
    <2> SUFFICES ASSUME NEW k \in DOMAIN u, NEW m \in DOMAIN u, k < m
                 PROVE  u[k][2] < u[m][1]
      BY DEF Rising
    <2>1. CASE m \in DOMAIN s /\ u[m] = s[m]
      <3>1. k \in DOMAIN s /\ u[k] = s[k]
        BY <1>1, <1>2, <2>1
      <3> QED BY <2>1, <3>1 DEF Rising
    <2>2. CASE m - Len(s) \in DOMAIN t /\ u[m] = t[m - Len(s)] /\ k > Len(s)
      <3>1. k - Len(s) \in DOMAIN t /\ u[k] = t[k - Len(s)] /\ k - Len(s) < m - Len(s)
        BY <1>1, <1>2, <2>2
      <3> QED BY <2>2, <3>1 DEF Rising
    <2>3. CASE m - Len(s) \in DOMAIN t /\ u[m] = t[m - Len(s)] /\ ~(k > Len(s))
      <3> DEFINE j == m - Len(s)
      <3>1. k \in DOMAIN s /\ u[k] = s[k]
        BY <1>1, <1>2, <2>3
      <3>2. s[k][2] <= mid /\ s[k] \in Nat \X Nat
        BY <1>1, <3>1 DEF Within
      <3>3. mid < t[j][1] /\ t[j] \in Nat \X Nat
        BY <1>1, <2>3 DEF Within
      <3> QED BY <2>3, <3>1, <3>2, <3>3
    <2> QED BY <1>3, <2>1, <2>2, <2>3
  <1>6. ASSUME NEW p \in Nat, Covered(s, p) PROVE Covered(u, p)
    <2>1. PICK k \in DOMAIN s : p \in s[k][1] .. s[k][2]
      BY <1>6 DEF Covered
    <2>2. k \in DOMAIN u /\ u[k] = s[k]
      BY <1>1, <1>2
    <2> QED BY <2>1, <2>2 DEF Covered
  <1>7. ASSUME NEW p \in Nat, Covered(t, p) PROVE Covered(u, p)
    <2>1. PICK k \in DOMAIN t : p \in t[k][1] .. t[k][2]
      BY <1>7 DEF Covered
    <2>2. k + Len(s) \in DOMAIN u /\ u[k + Len(s)] = t[k]
      BY <1>1, <1>2
    <2> QED BY <2>1, <2>2 DEF Covered
  <1> QED BY <1>2, <1>4, <1>5, <1>6, <1>7 DEF u

\* A piece of text is cut and spoken, or the turn is left.
LEMMA PieceIsSpoken ==
    ASSUME SpeechInv, NEW piece \in Pieces, TextDelta(piece)
    PROVE  SpeechInv'
  <1>1. CASE told
    BY <1>1 DEF TextDelta, Leaves, SpeechInv, textVars, Midway, Open, Streaming
  <1>2. CASE ~told
    <2> DEFINE new == text \o piece
               heard == Sentences(new, cut)
               last == LastCut(new, cut)
    <2>1. /\ at \in Midway /\ at' = "stream" /\ text' = new /\ spoken' = spoken \o heard /\ cut' = last
      BY <1>2 DEF TextDelta, Hears, Midway, Open
    <2>2. /\ text \in Seq(Chars) /\ piece \in Seq(Chars) /\ cut \in 0 .. Len(text) /\ Len(text) \in Nat
          /\ spoken \in Stretches /\ Rising(spoken) /\ Within(spoken, 0, cut)
          /\ Clear(text, cut) /\ Heard(cut)
      BY <2>1, OrchestratorConstants DEF SpeechInv
    <2>3. /\ new \in Seq(Chars) /\ Len(new) \in Nat /\ Len(new) >= Len(text)
          /\ DOMAIN new = 1 .. Len(new) /\ DOMAIN text = 1 .. Len(text)
          /\ \A p \in 1 .. Len(text) : new[p] = text[p]
      BY <2>2
    <2> HIDE DEF new
    <2>4. cut \in 0 .. Len(new) /\ Clear(new, cut)
      BY <2>2, <2>3 DEF Clear
    <2>5. /\ last \in cut .. Len(new) /\ Clear(new, last)
          /\ heard \in Stretches /\ Within(heard, cut, last) /\ Rising(heard)
          /\ \A p \in cut + 1 .. last : new[p] = "letter" => Covered(heard, p) \/ Alone(new, p)
      BY <2>3, <2>4, SentencesAreRight
    <2> HIDE DEF heard, last
    <2>6. /\ spoken' \in Stretches /\ Rising(spoken') /\ Within(spoken', 0, last)
          /\ \A p \in Nat : Covered(spoken, p) \/ Covered(heard, p) => Covered(spoken', p)
      <3>1. cut \in Nat /\ last \in Nat /\ cut <= last
        BY <2>4, <2>5
      <3> QED BY <2>1, <2>2, <2>5, <3>1, Joined
    <2>7. ASSUME NEW p \in 1 .. last, new[p] = "letter"
          PROVE  Covered(spoken', p) \/ Alone(new, p)
      <3>1. CASE p > cut
        <4>1. p \in cut + 1 .. last /\ p \in Nat
          BY <2>2, <2>5, <3>1
        <4> QED BY <2>5, <2>6, <2>7, <4>1
      <3>2. CASE ~(p > cut)
        <4>1. p \in 1 .. cut /\ p \in Nat /\ p \in 1 .. Len(text) /\ text[p] = "letter"
          BY <2>2, <2>3, <2>7, <3>2
        <4>2. CASE Covered(spoken, p)
          BY <2>6, <4>1, <4>2
        <4>3. CASE Alone(text, p)
          <5>1. p # cut
            BY <2>2, <4>1 DEF Clear
          <5>2. \A q \in {p - 1, p + 1} \cap DOMAIN new : q \in {p - 1, p + 1} \cap DOMAIN text
            BY <2>2, <2>3, <4>1, <5>1
          <5> QED BY <2>3, <4>3, <5>2 DEF Alone
        <4> QED BY <2>2, <4>1, <4>2, <4>3 DEF Heard
      <3> QED BY <3>1, <3>2
    <2>8. Heard(cut)'
      BY <2>1, <2>7 DEF Heard
    <2>9. cut' \in 0 .. Len(text') /\ Clear(text', cut')
      BY <2>1, <2>4, <2>5
    <2> QED BY <2>1, <2>3, <2>6, <2>8, <2>9 DEF SpeechInv
  <1> QED BY <1>1, <1>2

\* At the end the rest is spoken, or the whole.
LEMMA RestIsSpoken ==
    ASSUME SpeechInv, Reply
    PROVE  SpeechInv'
  <1> DEFINE n == Len(text)
             rest == Rest(text, cut)
             heard == spoken \o rest
  <1>1. /\ at = "speaking" /\ at' = "replied" /\ cut' = n /\ text' = text /\ told' = told
        /\ notice' = notice
        /\ spoken' = IF told THEN spoken ELSE IF heard = <<>> THEN Whole ELSE heard
    BY DEF Reply, cancelVars
  <1>2. /\ text \in Seq(Chars) /\ n \in Nat /\ cut \in 0 .. n /\ n \in 0 .. n
        /\ spoken \in Stretches /\ Rising(spoken) /\ Within(spoken, 0, cut)
        /\ Clear(text, cut) /\ Heard(cut)
    BY <1>1 DEF SpeechInv, Midway
  <1>3. /\ rest \in Stretches /\ Within(rest, cut, n) /\ Rising(rest)
        /\ \A p \in cut + 1 .. n : text[p] = "letter" => Covered(rest, p) \/ Alone(text, p)
    BY <1>2, RestIsRight
  <1> HIDE DEF n, rest
  <1>4. /\ heard \in Stretches /\ Rising(heard)
        /\ \A p \in Nat : Covered(spoken, p) \/ Covered(rest, p) => Covered(heard, p)
    BY <1>2, <1>3, Joined
  <1>5. \A p \in 1 .. n : text[p] = "letter" => Covered(heard, p) \/ Alone(text, p)
    <2> TAKE p \in 1 .. n
    <2> HAVE text[p] = "letter"
    <2>1. p \in 1 .. cut \/ p \in cut + 1 .. n
      BY <1>2
    <2> QED BY <1>2, <1>3, <1>4, <2>1 DEF Heard
  <1> HIDE DEF heard
  <1>6. CASE told
    BY <1>1, <1>2, <1>6 DEF SpeechInv, Midway, Open, Streaming, n
  <1>7. CASE ~told /\ heard # <<>>
    <2>1. spoken' = heard
      BY <1>1, <1>7
    <2>2. Heard(Len(text))'
      BY <1>1, <1>5, <2>1 DEF Heard, n
    <2> QED BY <1>1, <1>2, <1>4, <1>7, <2>1, <2>2 DEF SpeechInv, Midway, Open, Streaming, n
  <1>8. CASE ~told /\ heard = <<>>
    <2>1. spoken' = Whole
      BY <1>1, <1>8
    <2>2. \A p \in 1 .. n : text[p] = "letter" => Alone(text, p)
      BY <1>5, <1>8 DEF Covered
    <2>3. Whole \in Stretches /\ Rising(Whole) /\ (notice \/ text # <<>> => Whole # <<>>)
      <3>1. Len(text) \in Nat
        BY <1>2 DEF n
      <3>2. CASE notice
        <4>1. Whole = <<<<0, 0>>>>
          BY <3>2 DEF Whole
        <4> QED BY <4>1 DEF Stretches, Rising
      <3>3. CASE ~notice /\ text = <<>>
        <4>1. Whole = <<>>
          BY <3>3 DEF Whole
        <4> QED BY <3>3, <4>1 DEF Stretches, Rising
      <3>4. CASE ~notice /\ text # <<>>
        <4>1. Whole = <<<<1, Len(text)>>>>
          BY <3>4 DEF Whole
        <4> QED BY <3>1, <4>1 DEF Stretches, Rising
      <3> QED BY <3>2, <3>3, <3>4
    <2>4. Heard(Len(text))'
      BY <1>1, <2>2 DEF Heard, n
    <2> QED BY <1>1, <1>2, <2>1, <2>3, <2>4 DEF SpeechInv, Midway, Open, Streaming, n
  <1> QED BY <1>6, <1>7, <1>8

\* The other steps speak nothing.
LEMMA OthersAreSilent ==
    ASSUME [Next]_vars, \A piece \in Pieces : ~TextDelta(piece), ~Reply
    PROVE  /\ UNCHANGED textVars
           /\ at' \in Midway => at \in Midway
           /\ at' \in {"replied", "saved"} => at \in {"replied", "saved"} /\ notice' = notice
           /\ told' # told => told'
  <1> USE DEF textVars, cancelVars, Midway, Open, Streaming, Over, Hears, Leaves
  <1>1. CASE UNCHANGED vars
    BY <1>1 DEF vars
  <1>2. CASE Request \/ StreamRaises \/ ToolStarts \/ ToolReturns \/ Save
    BY <1>2 DEF Request, StreamRaises, ToolStarts, ToolReturns, Save
  <1>3. CASE ToolAnswered
    BY <1>3 DEF ToolAnswered
  <1>4. CASE Released \/ FirstTokenTimeout \/ StreamCancelled \/ BargeIn \/ BreaksOff
    BY <1>4 DEF Released, FirstTokenTimeout, StreamCancelled, BargeIn, BreaksOff
  <1>5. CASE Model
    BY <1>5 DEF Model, BlockStart, JsonDelta, ChunkCall, Thinks, Finish
  <1> QED BY <1>1, <1>2, <1>3, <1>4, <1>5 DEF Next, Progress

\* The invariant of what is spoken.
LEMMA SpeechHolds ==
    /\ Init => SpeechInv
    /\ SpeechInv /\ [Next]_vars => SpeechInv'
  <1>1. ASSUME Init PROVE SpeechInv
    BY <1>1 DEF Init, SpeechInv, Stretches, Rising, Within, Clear, Heard
  <1>2. ASSUME SpeechInv, [Next]_vars PROVE SpeechInv'
    <2>1. CASE \E piece \in Pieces : TextDelta(piece)
      BY <1>2, <2>1, PieceIsSpoken
    <2>2. CASE Reply
      BY <1>2, <2>2, RestIsSpoken
    <2>3. CASE ~Reply /\ \A piece \in Pieces : ~TextDelta(piece)
      <3>1. /\ text' = text /\ cut' = cut /\ spoken' = spoken
            /\ at' \in Midway => at \in Midway
            /\ at' \in {"replied", "saved"} => at \in {"replied", "saved"} /\ notice' = notice
            /\ told' # told => told'
        BY <1>2, <2>3, OthersAreSilent DEF textVars
      <3>2. Heard(cut)' = Heard(cut) /\ Heard(Len(text))' = Heard(Len(text))
        BY <3>1 DEF Heard
      <3> QED BY <1>2, <3>1, <3>2 DEF SpeechInv
    <2> QED BY <2>1, <2>2, <2>3
  <1> QED BY <1>1, <1>2

(* Whatever the pieces the model's text comes in, the sentences that the   *)
(* splitter makes of it go to the synthesizer in the order of the text,    *)
(* none twice, and every letter with them but one that stands alone; an    *)
(* answer with any text is heard.                                          *)
THEOREM SpeechIsWhole == Spec => []SpokenAsWritten
  <1>1. SpeechInv => SpokenAsWritten
    <2> SUFFICES ASSUME SpeechInv PROVE SpokenAsWritten
      OBVIOUS
    <2>1. DOMAIN text = 1 .. Len(text)
      BY DEF SpeechInv
    <2>2. \A m, n \in DOMAIN spoken : m < n => spoken[m][2] < spoken[n][1]
      BY DEF SpeechInv, Rising
    <2>3. ASSUME at \in {"replied", "saved"} /\ ~told
          PROVE  /\ notice \/ text # <<>> => spoken # <<>>
                 /\ \A p \in DOMAIN text :
                      text[p] # "letter" \/ Covered(spoken, p) \/ Alone(text, p)
      BY <2>1, <2>3 DEF SpeechInv, Heard
    <2> QED BY <2>2, <2>3 DEF SpokenAsWritten, Covered, Alone
  <1> QED BY <1>1, SpeechHolds, PTL DEF Spec

-----------------------------------------------------------------------------
(* Calls and messages.                                                     *)

Calling == {"tool", "running", "answered"}
Entries == [kind : {"calls", "result", "answer"}, ids : Seq(Ids)]
Arguments == Seq(ArgPieces)

TypedInv ==
    /\ at \in Places /\ dialect \in Dialects /\ iteration \in 1 .. MaxIterations
    /\ log \in Seq(Entries)
    /\ badArgs \in BOOLEAN /\ notice \in BOOLEAN
    /\ told \in BOOLEAN /\ table \in BOOLEAN /\ event \in BOOLEAN
    /\ event => told
    /\ at # "saved" => saved = <<>>

\* The records of the calls, the model's and the orchestrator's; they are the same as long
\* as no piece came to a wrong index, which no block of anthropic's does.
StreamInv ==
    /\ blocks \in Seq({"text", "tool", "other"}) /\ Len(blocks) <= MaxIndex + 1
    /\ \A k \in 1 .. Len(blocks) : blocks[k] = "tool" => k - 1 \in DOMAIN asked
    /\ DOMAIN asked \subseteq Indices /\ DOMAIN acc \subseteq Indices
    /\ strayed \in BOOLEAN /\ (dialect = "anthropic" => ~strayed)
    /\ \A i \in DOMAIN asked :
          /\ asked[i] \in CallRecords /\ Len(asked[i].args) <= MaxArgs
          /\ asked[i].id \in {NoId, Id("model", iteration, i)}
    /\ \A i \in DOMAIN acc : acc[i] \in CallRecords
    /\ ~strayed => acc = asked

\* The calls without a result are the last of those that were assembled.
CallsInv ==
    /\ at \in Calling =>
          /\ calls \in Seq(CallRecords) /\ Len(calls) \in 1 .. Cardinality(DOMAIN acc)
          /\ \A k \in 1 .. Len(calls) :
                calls[k] = Assembled[Cardinality(DOMAIN acc) - Len(calls) + k]
    /\ at \notin Calling => calls = <<>>

TurnInv == TypedInv /\ StreamInv /\ CallsInv

\* Arguments that come in pieces are arguments.
LEMMA ArgumentsGrow ==
    /\ <<>> \in Arguments /\ Len(<<>>) = 0
    /\ \A piece \in ArgPieces : <<piece>> \in Arguments /\ Len(<<piece>>) = 1
    /\ \A a, b \in Arguments : /\ a \o b \in Arguments /\ Len(a \o b) = Len(a) + Len(b)
                               /\ Len(a) \in Nat
  BY DEF Arguments

\* Ids of the model and of the server say which call they are of.
LEMMA CallFields ==
    /\ CallRecords = [id : Ids \cup {NoId}, args : Arguments]
    /\ \A turn \in 1 .. MaxIterations, i \in Indices : Id("model", turn, i) \in Ids
    /\ \A i \in Indices : Id("server", 0, i) \in Ids
    /\ NoId \notin Ids
    /\ \A x, y, turn, k, i, j : Id(x, turn, i) = Id(y, k, j) => i = j
  <1>1. CallRecords = [id : Ids \cup {NoId}, args : Arguments]
    BY DEF CallRecords, Arguments
  <1>2. \A turn \in 1 .. MaxIterations, i \in Indices : Id("model", turn, i) \in Ids
    BY DEF Ids
  <1>3. \A i \in Indices : Id("server", 0, i) \in Ids
    BY DEF Ids
  <1>4. \A x, turn, i : Id(x, turn, i).by = x /\ Id(x, turn, i).index = i
    BY DEF Id
  <1>5. \A id \in Ids : id.by \in {"model", "server"}
    BY <1>4 DEF Ids
  <1>6. NoId \notin Ids
    BY <1>4, <1>5 DEF NoId
  <1>7. \A x, y, turn, k, i, j : Id(x, turn, i) = Id(y, k, j) => i = j
    BY <1>4
  <1> QED BY <1>1, <1>2, <1>3, <1>6, <1>7

\* Of records one is opened or known.
LEMMA CallOpened ==
    ASSUME NEW f, \A j \in DOMAIN f : f[j] \in CallRecords, NEW i
    PROVE  /\ DOMAIN Opened(f, i) = DOMAIN f \cup {i}
           /\ \A j \in DOMAIN Opened(f, i) : Opened(f, i)[j] \in CallRecords
           /\ \A j \in DOMAIN f : Opened(f, i)[j] = f[j]
           /\ i \notin DOMAIN f => Opened(f, i)[i] = [id |-> NoId, args |-> <<>>]
  <1>1. [id |-> NoId, args |-> <<>>] \in CallRecords
    BY CallFields, ArgumentsGrow
  <1> QED BY <1>1 DEF Opened

\* A piece is put with the others, in the orchestrator's record as in the model's.
LEMMA PieceIsPut ==
    ASSUME TypedInv, StreamInv, NEW i \in Indices, NEW index \in Indices,
           NEW id \in {NoId, Id("model", iteration, i)}, NEW args \in Arguments,
           Len(Opened(asked, i)[i].args) + Len(args) <= MaxArgs,
           dialect = "anthropic" => index = i,
           CallPiece(i, index, id, args)
    PROVE  /\ DOMAIN asked' = DOMAIN asked \cup {i} /\ DOMAIN acc' \subseteq Indices
           /\ \A j \in DOMAIN asked' :
                 /\ asked'[j] \in CallRecords /\ Len(asked'[j].args) <= MaxArgs
                 /\ asked'[j].id \in {NoId, Id("model", iteration, j)}
           /\ \A j \in DOMAIN acc' : acc'[j] \in CallRecords
           /\ ~strayed' => acc' = asked'
           /\ strayed' \in BOOLEAN /\ (dialect = "anthropic" => ~strayed')
  <1> DEFINE mine == Opened(asked, i)
             put(r) == [id |-> IF id = NoId THEN r.id ELSE id, args |-> r.args \o args]
  <1>1. asked' = [mine EXCEPT ![i] = put(@)] /\ acc' = [Opened(acc, index) EXCEPT ![index] = put(@)]
    BY DEF CallPiece, Extended
  <1>2. strayed' = (strayed \/ index # i) /\ strayed \in BOOLEAN
    BY DEF CallPiece, StreamInv
  <1>3. /\ DOMAIN mine = DOMAIN asked \cup {i}
        /\ \A j \in DOMAIN mine : mine[j] \in CallRecords
        /\ \A j \in DOMAIN asked : mine[j] = asked[j]
        /\ i \notin DOMAIN asked => mine[i] = [id |-> NoId, args |-> <<>>]
    BY CallOpened DEF StreamInv
  <1>4. /\ DOMAIN Opened(acc, index) = DOMAIN acc \cup {index}
        /\ \A j \in DOMAIN Opened(acc, index) : Opened(acc, index)[j] \in CallRecords
    BY CallOpened DEF StreamInv
  <1>5. ASSUME NEW r \in CallRecords
        PROVE  put(r) \in CallRecords /\ Len(put(r).args) = Len(r.args) + Len(args)
    <2>1. id \in Ids \cup {NoId}
      BY CallFields DEF TypedInv
    <2>2. r.id \in Ids \cup {NoId} /\ r.args \in Arguments
      BY CallFields
    <2>3. r.args \o args \in Arguments /\ Len(r.args \o args) = Len(r.args) + Len(args)
      BY <2>2, ArgumentsGrow
    <2> QED BY <2>1, <2>2, <2>3, CallFields
  <1>6. \A j \in DOMAIN mine : mine[j].id \in {NoId, Id("model", iteration, j)}
    BY <1>3 DEF StreamInv
  <1>7. \A j \in DOMAIN asked : Len(mine[j].args) <= MaxArgs
    BY <1>3 DEF StreamInv
  <1>8. Len(mine[i].args) + Len(args) <= MaxArgs
    OBVIOUS
  <1>9. ~strayed => acc = asked
    BY DEF StreamInv
  <1>10. dialect = "anthropic" => ~strayed
    BY DEF StreamInv
  <1>11. put(mine[i]).id \in {NoId, Id("model", iteration, i)}
    BY <1>3, <1>6
  <1> HIDE DEF mine, put
  <1>12. DOMAIN asked' = DOMAIN asked \cup {i} /\ DOMAIN acc' = DOMAIN acc \cup {index}
    BY <1>1, <1>3, <1>4
  <1>13. ASSUME NEW j \in DOMAIN asked'
         PROVE  /\ asked'[j] \in CallRecords /\ Len(asked'[j].args) <= MaxArgs
                /\ asked'[j].id \in {NoId, Id("model", iteration, j)}
    <2>1. CASE j = i
      <3>1. asked'[j] = put(mine[i]) /\ mine[i] \in CallRecords
        BY <1>1, <1>3, <2>1
      <3> QED BY <1>5, <1>8, <1>11, <2>1, <3>1
    <2>2. CASE j # i
      <3>1. j \in DOMAIN asked /\ asked'[j] = mine[j] /\ j \in DOMAIN mine
        BY <1>1, <1>3, <1>12, <2>2
      <3> QED BY <1>3, <1>6, <1>7, <3>1
    <2> QED BY <2>1, <2>2
  <1>14. \A j \in DOMAIN acc' : acc'[j] \in CallRecords
    <2> TAKE j \in DOMAIN acc'
    <2>1. CASE j = index
      <3>1. acc'[j] = put(Opened(acc, index)[index]) /\ Opened(acc, index)[index] \in CallRecords
        BY <1>1, <1>4, <2>1
      <3> QED BY <1>5, <3>1
    <2>2. CASE j # index
      BY <1>1, <1>4, <1>12, <2>2
    <2> QED BY <2>1, <2>2
  <1>15. ~strayed' => acc' = asked'
    BY <1>1, <1>2, <1>9 DEF mine
  <1>16. DOMAIN acc' \subseteq Indices
    BY <1>12 DEF StreamInv
  <1> QED BY <1>2, <1>10, <1>12, <1>13, <1>14, <1>15, <1>16

\* The calls that are assembled have ids, and when no piece has strayed, each its own and
\* the arguments the model sent.
LEMMA AssembledCalls ==
    ASSUME TypedInv, StreamInv
    PROVE  LET c == Cardinality(DOMAIN acc) IN
           /\ IsFiniteSet(DOMAIN acc) /\ c \in Nat /\ (c = 0 <=> DOMAIN acc = {})
           /\ Assembled \in Seq(CallRecords) /\ Len(Assembled) = c
           /\ \A k \in 1 .. c : Assembled[k].id \in Ids
           /\ ~strayed =>
                 /\ acc = asked
                 /\ \A k \in 1 .. c :
                       LET i == Nth(DOMAIN acc, k) IN
                       /\ Assembled[k].args = asked[i].args
                       /\ asked[i].id # NoId => Assembled[k].id = asked[i].id
                 /\ \A k, m \in 1 .. c : Assembled[k].id = Assembled[m].id => k = m
  <1> DEFINE S == DOMAIN acc
             c == Cardinality(S)
             named(i) == [acc[i] EXCEPT !.id = IF @ = NoId THEN Id("server", 0, i) ELSE @]
  <1>1. S \subseteq 0 .. MaxIndex /\ MaxIndex \in Nat
    BY OrchestratorConstants DEF StreamInv, Indices
  <1>2. IsFiniteSet(S) /\ c \in Nat /\ (c = 0 <=> S = {})
    <2> HIDE DEF S
    <2> QED BY <1>1, RankGrows, FS_EmptySet
  <1>3. /\ \A k \in 1 .. c : Nth(S, k) \in S
        /\ \A k, m \in 1 .. c : k < m => Nth(S, k) < Nth(S, m)
    <2> HIDE DEF S
    <2> QED BY <1>1, NthCounts
  <1>4. \A k \in 1 .. c : Assembled[k] = named(Nth(S, k))
    BY DEF Assembled, InOrder
  <1>5. DOMAIN Assembled = 1 .. c
    BY DEF Assembled
  <1>6. ASSUME NEW i \in S
        PROVE  /\ named(i) \in CallRecords /\ named(i).id \in Ids
               /\ named(i).args = acc[i].args
               /\ acc[i].id # NoId => named(i).id = acc[i].id
               /\ named(i).id \in {acc[i].id, Id("server", 0, i)} \ {NoId}
    <2>1. /\ acc[i] \in [id : Ids \cup {NoId}, args : Arguments]
          /\ Id("server", 0, i) \in Ids
      BY <1>1, CallFields DEF StreamInv
    <2>2. /\ named(i).id = IF acc[i].id = NoId THEN Id("server", 0, i) ELSE acc[i].id
          /\ named(i).args = acc[i].args
          /\ named(i) = [id |-> named(i).id, args |-> named(i).args]
      BY <2>1
    <2> HIDE DEF named
    <2>3. named(i).id \in Ids /\ named(i).args \in Arguments
      BY <2>1, <2>2
    <2>4. named(i) \in CallRecords
      BY <2>2, <2>3, CallFields
    <2> QED BY <2>1, <2>2, <2>3, <2>4, CallFields
  <1> HIDE DEF named, S
  <1>7. \A k \in 1 .. c : Assembled[k] \in CallRecords
    BY <1>3, <1>4, <1>6
  <1>8. Assembled \in Seq(CallRecords) /\ Len(Assembled) = c
    <2>1. Assembled = [k \in 1 .. c |-> Assembled[k]]
      BY <1>5 DEF Assembled, S
    <2>2. Assembled \in [1 .. c -> CallRecords]
      BY <1>7, <2>1
    <2> QED BY <1>2, <2>2
  <1>9. ASSUME ~strayed, NEW k \in 1 .. c, NEW m \in 1 .. c, Assembled[k].id = Assembled[m].id
        PROVE  k = m
    <2> DEFINE i == Nth(S, k)
               j == Nth(S, m)
    <2>1. i \in S /\ j \in S /\ named(i).id = named(j).id
      BY <1>3, <1>4, <1>9
    <2>2. /\ acc[i].id \in {NoId, Id("model", iteration, i)}
          /\ acc[j].id \in {NoId, Id("model", iteration, j)}
      BY <1>9, <2>1 DEF StreamInv, S
    <2>3. /\ named(i).id \in {Id("model", iteration, i), Id("server", 0, i)}
          /\ named(j).id \in {Id("model", iteration, j), Id("server", 0, j)}
      BY <1>6, <2>1, <2>2
    <2>4. i = j
      BY <2>1, <2>3, CallFields
    <2>5. ~(k < m) /\ ~(m < k)
      <3>1. i \in 0 .. MaxIndex /\ MaxIndex \in Nat
        BY <1>1, <2>1
      <3> HIDE DEF i, j
      <3>2. ~(i < j) /\ ~(j < i)
        BY <2>4, <3>1
      <3> QED BY <1>3, <3>2 DEF i, j
    <2> QED BY <1>2, <2>5
  <1>10. \A k \in 1 .. c : Assembled[k].id \in Ids
    BY <1>3, <1>4, <1>6
  <1>11. ASSUME ~strayed
         PROVE  /\ acc = asked
                /\ \A k \in 1 .. c :
                      LET i == Nth(S, k) IN
                      /\ Assembled[k].args = asked[i].args
                      /\ asked[i].id # NoId => Assembled[k].id = asked[i].id
    BY <1>3, <1>4, <1>6, <1>11 DEF StreamInv
  <1> QED BY <1>2, <1>8, <1>9, <1>10, <1>11 DEF S

\* Every step keeps what the stream has brought whole.
LEMMA StreamStep ==
    ASSUME TypedInv, StreamInv, [Next]_vars
    PROVE  StreamInv'
  \* Most steps leave what the stream has brought alone, or let go of it.
  <1>1. ASSUME UNCHANGED <<streamVars, iteration, dialect>> PROVE StreamInv'
    BY <1>1 DEF StreamInv, streamVars
  <1>2. ASSUME StreamEnds PROVE StreamInv'
    <2>1. /\ blocks' = <<>> /\ asked' = NoCalls /\ acc' = NoCalls /\ DOMAIN NoCalls = {}
          /\ strayed' = FALSE
      BY <1>2 DEF StreamEnds, NoCalls
    <2>2. <<>> \in Seq({"text", "tool", "other"}) /\ Len(<<>>) = 0 /\ 0 <= MaxIndex + 1
      BY OrchestratorConstants
    <2> HIDE DEF NoCalls
    <2>3. strayed' \in BOOLEAN /\ (dialect' = "anthropic" => ~strayed') /\ acc' = asked'
      BY <2>1
    <2>4. DOMAIN asked' = {} /\ DOMAIN acc' = {} /\ blocks' = <<>>
      BY <2>1
    <2> QED BY <2>2, <2>3, <2>4 DEF StreamInv
  <1>3. CASE UNCHANGED vars
    BY <1>1, <1>3 DEF vars
  <1>4. CASE Request
    BY <1>1, <1>2, <1>4 DEF Request, Leaves, Forgets
  <1>5. CASE StreamRaises \/ StreamCancelled \/ BreaksOff
    BY <1>2, <1>5 DEF StreamRaises, StreamCancelled, BreaksOff, Leaves, Forgets
  <1>6. CASE ToolStarts \/ Reply \/ Save \/ Released \/ BargeIn \/ Thinks
    BY <1>1, <1>6 DEF ToolStarts, Reply, Save, Released, BargeIn, Thinks
  <1>7. CASE ToolReturns
    BY <1>1, <1>2, <1>7 DEF ToolReturns, Leaves, Forgets
  <1>8. CASE FirstTokenTimeout
    BY <1>2, <1>8 DEF FirstTokenTimeout, Leaves, Forgets
  <1>9. CASE ToolAnswered
    <2>1. CASE StreamEnds
      BY <1>2, <2>1
    <2>2. CASE ~StreamEnds
      <3>1. UNCHANGED <<streamVars, iteration, dialect>>
        BY <1>9, <2>2 DEF ToolAnswered, Leaves, Forgets
      <3> QED BY <1>1, <3>1
    <2> QED BY <2>1, <2>2
  <1>10. ASSUME NEW reason, Finish(reason) PROVE StreamInv'
    BY <1>1, <1>2, <1>10 DEF Finish, Leaves, Forgets
  <1>11. ASSUME NEW piece, TextDelta(piece) PROVE StreamInv'
    BY <1>1, <1>2, <1>11 DEF TextDelta, Leaves, Forgets
  <1>12. ASSUME NEW kind \in {"text", "tool", "other"}, BlockStart(kind) PROVE StreamInv'
    <2> DEFINE i == Len(blocks)
    <2>1. /\ blocks' = Append(blocks, kind) /\ i <= MaxIndex /\ iteration' = iteration
          /\ dialect' = dialect
          /\ blocks \in Seq({"text", "tool", "other"}) /\ i \in Nat
      BY <1>12 DEF BlockStart, StreamInv
    <2>2. /\ blocks' \in Seq({"text", "tool", "other"}) /\ Len(blocks') = i + 1
          /\ \A k \in 1 .. i + 1 : blocks'[k] = IF k = i + 1 THEN kind ELSE blocks[k]
      BY <2>1
    <2>3. i + 1 <= MaxIndex + 1 /\ i \in Indices
      BY <2>1, OrchestratorConstants DEF Indices
    <2>4. CASE kind # "tool"
      <3>1. asked' = asked /\ acc' = acc /\ strayed' = strayed
        BY <1>12, <2>4 DEF BlockStart
      <3>2. \A k \in 1 .. i + 1 : blocks'[k] = "tool" => k \in 1 .. i /\ blocks[k] = "tool"
        BY <2>1, <2>2, <2>4
      <3> HIDE DEF i
      <3> QED BY <2>1, <2>2, <2>3, <3>1, <3>2 DEF StreamInv, i
    <2>5. CASE kind = "tool"
      <3> DEFINE id == Id("model", iteration, i)
      <3>1. CallPiece(i, i, id, <<>>)
        BY <1>12, <2>5 DEF BlockStart
      <3>2. Len(Opened(asked, i)[i].args) + Len(<<>>) <= MaxArgs
        <4>1. /\ \A k \in DOMAIN asked : asked[k].args \in Arguments /\ Len(asked[k].args) <= MaxArgs
              /\ \A k \in DOMAIN asked : asked[k] \in CallRecords
          BY CallFields DEF StreamInv
        <4> HIDE DEF i
        <4>2. i \in DOMAIN asked => Opened(asked, i)[i] = asked[i]
          BY <4>1, CallOpened
        <4>3. i \notin DOMAIN asked => Opened(asked, i)[i].args = <<>>
          <5>1. i \notin DOMAIN asked => Opened(asked, i)[i] = [id |-> NoId, args |-> <<>>]
            BY <4>1, CallOpened
          <5> QED BY <5>1
        <4> QED BY <4>1, <4>2, <4>3, ArgumentsGrow, OrchestratorConstants
      <3> HIDE DEF i
      <3>3. /\ DOMAIN asked' = DOMAIN asked \cup {i} /\ DOMAIN acc' \subseteq Indices
            /\ \A j \in DOMAIN asked' :
                  /\ asked'[j] \in CallRecords /\ Len(asked'[j].args) <= MaxArgs
                  /\ asked'[j].id \in {NoId, Id("model", iteration, j)}
            /\ \A j \in DOMAIN acc' : acc'[j] \in CallRecords
            /\ ~strayed' => acc' = asked'
            /\ strayed' \in BOOLEAN /\ (dialect = "anthropic" => ~strayed')
        BY <2>3, <3>1, <3>2, ArgumentsGrow, PieceIsPut
      <3>4. \A k \in 1 .. i + 1 : blocks'[k] = "tool" => k - 1 \in DOMAIN asked'
        <4> TAKE k \in 1 .. i + 1
        <4> HAVE blocks'[k] = "tool"
        <4>1. CASE k = i + 1
          <5>1. k - 1 = i
            BY <2>1, <4>1
          <5> QED BY <3>3, <5>1
        <4>2. CASE k # i + 1
          <5>1. k \in 1 .. i /\ blocks[k] = "tool"
            BY <2>1, <2>2, <4>2
          <5>2. k - 1 \in DOMAIN asked
            BY <5>1 DEF StreamInv, i
          <5> QED BY <3>3, <5>2
        <4> QED BY <4>1, <4>2
      <3>5. DOMAIN asked' \subseteq Indices
        BY <2>3, <3>3 DEF StreamInv
      <3> QED BY <2>1, <2>2, <2>3, <3>3, <3>4, <3>5 DEF StreamInv
    <2> QED BY <2>4, <2>5
  <1>13. ASSUME NEW i \in Indices, NEW index \in Indices, NEW id \in {NoId, Id("model", iteration, i)},
                NEW args \in Arguments,
                Len(Opened(asked, i)[i].args) + Len(args) <= MaxArgs,
                dialect = "anthropic" => index = i,
                CallPiece(i, index, id, args), UNCHANGED <<blocks, iteration, dialect>>
         PROVE  StreamInv'
    <2>1. /\ DOMAIN asked' = DOMAIN asked \cup {i} /\ DOMAIN acc' \subseteq Indices
          /\ \A j \in DOMAIN asked' :
                /\ asked'[j] \in CallRecords /\ Len(asked'[j].args) <= MaxArgs
                /\ asked'[j].id \in {NoId, Id("model", iteration, j)}
          /\ \A j \in DOMAIN acc' : acc'[j] \in CallRecords
          /\ ~strayed' => acc' = asked'
          /\ strayed' \in BOOLEAN /\ (dialect = "anthropic" => ~strayed')
      BY <1>13, PieceIsPut
    <2> QED BY <1>13, <2>1 DEF StreamInv
  <1>15. ASSUME NEW args \in ArgPieces, JsonDelta(args) PROVE StreamInv'
    <2> DEFINE i == Len(blocks) - 1
    <2>1. /\ UNCHANGED <<blocks, iteration, dialect>> /\ CallPiece(i, i, NoId, <<args>>)
          /\ Len(asked[i].args) < MaxArgs /\ blocks[Len(blocks)] = "tool"
          /\ Len(blocks) \in 1 .. Len(blocks)
      BY <1>15 DEF JsonDelta, StreamInv
    <2>2. i \in DOMAIN asked /\ i \in Indices
      BY <2>1 DEF StreamInv
    <2> HIDE DEF i
    <2>3. asked[i].args \in Arguments /\ Opened(asked, i)[i] = asked[i]
      <3>1. asked[i].args \in Arguments
        BY <2>2, CallFields DEF StreamInv
      <3>2. \A j \in DOMAIN asked : asked[j] \in CallRecords
        BY DEF StreamInv
      <3> QED BY <2>2, <3>1, <3>2, CallOpened
    <2>4. <<args>> \in Arguments /\ Len(Opened(asked, i)[i].args) + Len(<<args>>) <= MaxArgs
      BY <2>1, <2>3, ArgumentsGrow, OrchestratorConstants
    <2> QED BY <1>13, <2>1, <2>2, <2>4
  <1>16. ASSUME NEW args \in {<<>>, <<"json">>}, NEW i \in Indices, NEW numbered \in BOOLEAN,
                NEW id \in {NoId, Id("model", iteration, i)}, ChunkCall(i, numbered, id, args)
         PROVE  StreamInv'
    <2>1. /\ UNCHANGED <<blocks, iteration, dialect>> /\ dialect # "anthropic"
          /\ CallPiece(i, IndexOf(i, numbered), id, args)
          /\ Len(Opened(asked, i)[i].args) + Len(args) <= MaxArgs
      BY <1>16 DEF ChunkCall
    <2>2. IndexOf(i, numbered) \in Indices
      BY OrchestratorConstants DEF IndexOf, Indices
    <2>3. args \in Arguments
      BY ArgumentsGrow DEF ArgPieces
    <2> QED BY <1>13, <2>1, <2>2, <2>3
  <1> QED
    BY <1>3, <1>4, <1>5, <1>6, <1>7, <1>8, <1>9, <1>10, <1>11, <1>12, <1>15, <1>16
       DEF Next, Progress, Model

\* Of the calls without a result, the first.
LEMMA FirstCall ==
    ASSUME TurnInv, at \in Calling
    PROVE  /\ calls \in Seq(CallRecords) /\ Len(calls) \in Nat \ {0} /\ calls[1].id \in Ids
           /\ Tail(calls) \in Seq(CallRecords) /\ Len(Tail(calls)) = Len(calls) - 1
           /\ \A k \in 1 .. Len(calls) - 1 : Tail(calls)[k] = calls[k + 1]
           /\ Tail(calls) = <<>> <=> Len(calls) = 1
  <1> DEFINE c == Cardinality(DOMAIN acc)
  <1>1. /\ calls \in Seq(CallRecords) /\ Len(calls) \in 1 .. c
        /\ \A k \in 1 .. Len(calls) : calls[k] = Assembled[c - Len(calls) + k]
    BY DEF TurnInv, CallsInv
  <1>2. c \in Nat /\ \A k \in 1 .. c : Assembled[k].id \in Ids
    BY AssembledCalls DEF TurnInv
  <1> HIDE DEF c
  <1>3. c - Len(calls) + 1 \in 1 .. c /\ 1 \in 1 .. Len(calls)
    BY <1>1, <1>2
  <1>4. calls[1].id \in Ids
    BY <1>1, <1>2, <1>3
  <1>5. /\ Tail(calls) \in Seq(CallRecords) /\ Len(Tail(calls)) = Len(calls) - 1
        /\ \A k \in 1 .. Len(calls) - 1 : Tail(calls)[k] = calls[k + 1]
    BY <1>1
  <1>6. Tail(calls) = <<>> <=> Len(calls) = 1
    <2> DEFINE left == Tail(calls)
    <2>1. left \in Seq(CallRecords) /\ Len(left) = Len(calls) - 1
      BY <1>5
    <2> HIDE DEF left
    <2>2. left = <<>> <=> Len(left) = 0
      BY <2>1, EmptySeq
    <2>3. left = <<>> <=> Len(calls) = 1
      BY <1>1, <2>1, <2>2
    <2> QED BY <2>3 DEF left
  <1> QED BY <1>1, <1>2, <1>4, <1>5, <1>6

\* Every step keeps the calls without a result the last of those assembled.
LEMMA CallsStep ==
    ASSUME TurnInv, [Next]_vars
    PROVE  CallsInv'
  <1> USE DEF Calling
  <1>1. ASSUME calls' = <<>>, at' \notin Calling PROVE CallsInv'
    BY <1>1 DEF CallsInv
  <1>2. ASSUME at \in Calling, at' \in Calling, UNCHANGED <<calls, acc>> PROVE CallsInv'
    <2>1. Assembled' = Assembled
      BY <1>2 DEF Assembled, InOrder
    <2> QED BY <1>2, <2>1 DEF TurnInv, CallsInv
  <1>3. ASSUME at \notin Calling, at' \notin Calling, calls' = calls PROVE CallsInv'
    BY <1>3 DEF TurnInv, CallsInv
  <1>4. CASE UNCHANGED vars
    BY <1>2, <1>3, <1>4 DEF vars, streamVars
  <1>5. CASE Request
    BY <1>1, <1>3, <1>5 DEF Request, Leaves, Forgets
  <1>6. CASE StreamRaises \/ StreamCancelled \/ BreaksOff
    BY <1>1, <1>6 DEF StreamRaises, StreamCancelled, BreaksOff, Leaves, Forgets
  <1>7. CASE ToolStarts
    BY <1>2, <1>7 DEF ToolStarts, streamVars
  <1>8. CASE Reply \/ Save \/ Thinks
    BY <1>3, <1>8 DEF Reply, Save, Thinks
  <1>9. CASE Released \/ BargeIn
    BY <1>2, <1>3, <1>9 DEF Released, BargeIn, streamVars
  <1>10. CASE ToolReturns
    BY <1>1, <1>2, <1>10 DEF ToolReturns, Leaves, Forgets, streamVars
  <1>11. CASE FirstTokenTimeout
    BY <1>1, <1>11 DEF FirstTokenTimeout, Leaves, Forgets
  <1>12. CASE ToolAnswered
    <2> DEFINE left == Tail(calls)
               c == Cardinality(DOMAIN acc)
    <2>1. /\ calls \in Seq(CallRecords) /\ Len(calls) \in Nat \ {0} /\ left \in Seq(CallRecords)
          /\ Len(left) = Len(calls) - 1
          /\ \A k \in 1 .. Len(calls) - 1 : left[k] = calls[k + 1]
      BY <1>12, FirstCall DEF ToolAnswered
    <2>2. CASE at' = "tool"
      <3>1. left # <<>> /\ calls' = left /\ acc' = acc
        BY <1>12, <2>2 DEF ToolAnswered, CallsLeft, Leaves, streamVars
      <3>2. Assembled' = Assembled
        BY <3>1 DEF Assembled, InOrder
      <3>3. /\ c \in Nat /\ Len(calls) \in 1 .. c
            /\ \A k \in 1 .. Len(calls) : calls[k] = Assembled[c - Len(calls) + k]
        BY <1>12, AssembledCalls DEF TurnInv, CallsInv, ToolAnswered
      <3> HIDE DEF left, c
      <3>4. Len(left) \in 1 .. c
        BY <2>1, <3>1, <3>3
      <3>5. ASSUME NEW k \in 1 .. Len(left) PROVE left[k] = Assembled[c - Len(left) + k]
        <4>1. k + 1 \in 1 .. Len(calls) /\ k \in 1 .. Len(calls) - 1
              /\ c - Len(calls) + (k + 1) = c - Len(left) + k
          BY <2>1, <3>3
        <4> QED BY <2>1, <3>3, <4>1
      <3>6. Cardinality(DOMAIN acc') = c
        BY <3>1 DEF c
      <3> QED BY <2>1, <2>2, <3>1, <3>2, <3>4, <3>5, <3>6 DEF CallsInv
    <2>3. CASE at' # "tool"
      <3>1. calls' = <<>> /\ at' \notin Calling
        BY <1>12, <2>3 DEF ToolAnswered, CallsLeft, Leaves, Forgets
      <3> QED BY <1>1, <3>1
    <2> QED BY <2>2, <2>3
  <1>13. ASSUME NEW reason, Finish(reason) PROVE CallsInv'
    <2>1. CASE at' = "tool"
      <3>1. /\ calls' = Assembled /\ DOMAIN acc # {} /\ acc' = acc
        BY <1>13, <2>1 DEF Finish, Leaves, streamVars
      <3>2. Assembled' = Assembled
        BY <3>1 DEF Assembled, InOrder
      <3> DEFINE c == Cardinality(DOMAIN acc)
      <3>3. c \in Nat /\ c # 0 /\ Assembled \in Seq(CallRecords) /\ Len(Assembled) = c
        BY <3>1, AssembledCalls DEF TurnInv
      <3>4. Cardinality(DOMAIN acc') = c
        BY <3>1
      <3> HIDE DEF c
      <3>5. \A k \in 1 .. c : c - c + k = k
        BY <3>3
      <3> QED BY <2>1, <3>1, <3>2, <3>3, <3>4, <3>5 DEF CallsInv
    <2>2. CASE at' # "tool"
      <3>1. at \notin Calling /\ at' \notin Calling /\ calls' \in {calls, <<>>}
        BY <1>13, <2>2 DEF Finish, Leaves, Forgets, Hears, Streaming
      <3> QED BY <1>1, <1>3, <3>1
    <2> QED BY <2>1, <2>2
  <1>14. ASSUME NEW piece, TextDelta(piece) PROVE CallsInv'
    BY <1>1, <1>3, <1>14 DEF TextDelta, Leaves, Forgets, Hears, Streaming
  <1>15. ASSUME NEW kind, BlockStart(kind) PROVE CallsInv'
    BY <1>3, <1>15 DEF BlockStart, Hears, Streaming
  <1>16. ASSUME NEW args, JsonDelta(args) PROVE CallsInv'
    BY <1>3, <1>16 DEF JsonDelta, Hears, Streaming
  <1>17. ASSUME NEW i, NEW n, NEW id, NEW args, ChunkCall(i, n, id, args) PROVE CallsInv'
    BY <1>3, <1>17 DEF ChunkCall, Hears, Streaming
  <1> HIDE DEF Calling
  <1> QED
    BY <1>4, <1>5, <1>6, <1>7, <1>8, <1>9, <1>10, <1>11, <1>12, <1>13, <1>14, <1>15, <1>16, <1>17
       DEF Next, Progress, Model

\* What is put behind the messages.
LEMMA EntriesOf ==
    /\ \A ids \in Seq(Ids) : Protocol!Calls(ids) \in Entries
    /\ \A id \in Ids : Protocol!Result(id) \in Entries
    /\ Protocol!Answer \in Entries
    /\ \A entry \in Entries : \A messages \in Seq(Entries) :
          /\ Append(messages, entry) \in Seq(Entries)
          /\ Append(messages, entry) # <<>>
  <1>1. \A ids \in Seq(Ids) : Protocol!Calls(ids) \in Entries
    BY DEF Protocol!Calls, Entries
  <1>2. \A id \in Ids : <<id>> \in Seq(Ids)
    OBVIOUS
  <1>3. \A id \in Ids : Protocol!Result(id) \in Entries
    BY <1>2 DEF Protocol!Result, Entries
  <1>4. <<>> \in Seq(Ids)
    OBVIOUS
  <1>5. Protocol!Answer \in Entries
    BY <1>4 DEF Protocol!Answer, Entries
  <1> HIDE DEF Entries
  <1>6. \A entry \in Entries : \A messages \in Seq(Entries) :
          Append(messages, entry) \in Seq(Entries) /\ Append(messages, entry) # <<>>
    BY AppendProperties
  <1> QED BY <1>1, <1>3, <1>5, <1>6

\* The ids of the calls, and what becomes of them when the first has its result.
LEMMA IdsOfCalls ==
    ASSUME TypedInv, StreamInv
    PROVE  /\ IdsOf(Assembled) \in Seq(Ids) /\ Len(IdsOf(Assembled)) = Cardinality(DOMAIN acc)
           /\ IdsOf(<<>>) = <<>>
  <1>1. /\ Assembled \in Seq(CallRecords) /\ Len(Assembled) = Cardinality(DOMAIN acc)
        /\ Cardinality(DOMAIN acc) \in Nat
        /\ \A k \in 1 .. Cardinality(DOMAIN acc) : Assembled[k].id \in Ids
    BY AssembledCalls
  <1>2. DOMAIN Assembled = 1 .. Cardinality(DOMAIN acc)
    BY <1>1
  <1>3. IdsOf(Assembled) \in [1 .. Cardinality(DOMAIN acc) -> Ids]
    BY <1>1, <1>2 DEF IdsOf
  <1>4. IdsOf(Assembled) \in Seq(Ids) /\ Len(IdsOf(Assembled)) = Cardinality(DOMAIN acc)
    BY <1>1, <1>3
  <1> QED BY <1>4 DEF IdsOf

\* Every step keeps places, messages and flags.
LEMMA TypedStep ==
    ASSUME TurnInv, [Next]_vars
    PROVE  TypedInv'
  <1> DEFINE Mess == log' \in Seq(Entries) /\ badArgs' \in BOOLEAN /\ notice' \in BOOLEAN
             Place == at' \in Places /\ dialect' \in Dialects /\ iteration' \in 1 .. MaxIterations
             Flags == told' \in BOOLEAN /\ table' \in BOOLEAN /\ event' \in BOOLEAN /\ (event' => told')
             Kept == at' # "saved" => saved' = <<>>
  <1>0. TypedInv /\ OutOfTable \in BOOLEAN /\ <<>> \in Seq(Entries)
    BY DEF TurnInv, OutOfTable
  <1> USE <1>0 DEF Places, Open, Streaming, Over, TypedInv
  <1>1. ASSUME NEW to \in Over, Leaves(to), at # "saved" PROVE Mess /\ Place /\ Kept
    BY <1>1 DEF Leaves, Forgets
  <1>2. CASE UNCHANGED vars
    BY <1>2 DEF vars, textVars, cancelVars
  <1>3. CASE Request
    <2>1. Flags
      BY <1>3 DEF Request, cancelVars
    <2>2. Mess /\ Place /\ Kept
      BY <1>1, <1>3 DEF Request
    <2> QED BY <2>1, <2>2
  <1>4. CASE StreamRaises \/ StreamCancelled \/ BreaksOff
    <2>1. Flags
      BY <1>4 DEF StreamRaises, StreamCancelled, BreaksOff
    <2>2. Mess /\ Place /\ Kept
      BY <1>1, <1>4 DEF StreamRaises, StreamCancelled, BreaksOff
    <2> QED BY <2>1, <2>2
  <1>5. CASE ToolStarts \/ Reply \/ Save \/ Thinks
    BY <1>5 DEF ToolStarts, Reply, Save, Thinks, cancelVars
  <1>6. CASE Released \/ BargeIn
    <2>1. at' = at /\ at # "saved" => Mess /\ Place /\ Kept
      BY <1>6 DEF Released, BargeIn
    <2>2. at' = at /\ at # "saved"
      BY <1>6 DEF Released, BargeIn
    <2>3. CASE Released
      BY <2>3 DEF Released, OutOfTable
    <2>4. CASE BargeIn
      <3>1. told' = TRUE /\ event' = table /\ table' = table
        BY <2>4 DEF BargeIn
      <3>2. Flags
        BY <3>1
      <3> QED BY <2>1, <2>2, <3>2
    <2> QED BY <1>6, <2>3, <2>4
  <1>7. CASE ToolReturns
    <2>1. Flags
      BY <1>7 DEF ToolReturns, cancelVars
    <2>2. Mess /\ Place /\ Kept
      BY <1>1, <1>7 DEF ToolReturns
    <2> QED BY <2>1, <2>2
  <1>8. CASE FirstTokenTimeout
    <2>1. Flags
      BY <1>8 DEF FirstTokenTimeout
    <2>2. Mess /\ Place /\ Kept
      BY <1>1, <1>8 DEF FirstTokenTimeout, Forgets
    <2> QED BY <2>1, <2>2
  <1>9. CASE ToolAnswered
    <2> DEFINE result == Append(log, Protocol!Result(calls[1].id))
    <2>1. Flags
      BY <1>9 DEF ToolAnswered, cancelVars
    <2>2. calls[1].id \in Ids
      BY <1>9, FirstCall DEF ToolAnswered, Calling
    <2>3. result \in Seq(Entries) /\ Append(result, Protocol!Answer) \in Seq(Entries)
      BY <2>2, EntriesOf
    <2> HIDE DEF result
    <2>4. \/ Leaves("stopped")
          \/ /\ log' \in {result, Append(result, Protocol!Answer)}
             /\ notice' \in BOOLEAN /\ at' \in {"tool", "speaking", "request"}
             /\ iteration' = iteration \/ (iteration' = iteration + 1 /\ iteration # MaxIterations)
             /\ UNCHANGED <<dialect, badArgs, saved>>
      BY <1>9 DEF ToolAnswered, result
    <2>5. at = "answered"
      BY <1>9 DEF ToolAnswered
    <2>6. CASE Leaves("stopped")
      BY <1>1, <2>1, <2>5, <2>6
    <2>7. CASE ~Leaves("stopped")
      <3>1. Mess /\ Kept
        BY <2>3, <2>4, <2>5, <2>7
      <3>2. iteration' \in 1 .. MaxIterations
        BY <2>4, <2>7, OrchestratorConstants
      <3>3. Place
        BY <2>4, <2>7, <3>2
      <3> QED BY <2>1, <3>1, <3>3
    <2> QED BY <2>6, <2>7
  <1>10. ASSUME NEW reason, Finish(reason) PROVE TypedInv'
    <2>1. Flags /\ at # "saved"
      BY <1>10 DEF Finish, Hears
    <2>2. CASE Leaves("stopped")
      BY <1>1, <2>1, <2>2
    <2>3. CASE ~Leaves("stopped")
      <3>1. IdsOf(Assembled) \in Seq(Ids)
        BY IdsOfCalls DEF TurnInv
      <3>2. log' \in Seq(Entries)
        BY <1>10, <2>3, <3>1, EntriesOf DEF Finish
      <3>3. badArgs' \in BOOLEAN
        BY <1>10, <2>3 DEF Finish, Unreadable
      <3>4. Place /\ Kept /\ notice' \in BOOLEAN
        BY <1>10, <2>1, <2>3 DEF Finish
      <3> QED BY <2>1, <3>2, <3>3, <3>4
    <2> QED BY <2>2, <2>3
  <1>11. ASSUME NEW piece, TextDelta(piece) PROVE TypedInv'
    <2>1. Flags /\ at # "saved"
      BY <1>11 DEF TextDelta, Hears, cancelVars
    <2>2. Mess /\ Place /\ Kept
      BY <1>1, <1>11, <2>1 DEF TextDelta
    <2> QED BY <2>1, <2>2
  <1>12. ASSUME NEW kind, BlockStart(kind) PROVE TypedInv'
    BY <1>12 DEF BlockStart, Hears, cancelVars
  <1>13. ASSUME NEW args, JsonDelta(args) PROVE TypedInv'
    BY <1>13 DEF JsonDelta, Hears, cancelVars
  <1>14. ASSUME NEW i, NEW n, NEW id, NEW args, ChunkCall(i, n, id, args) PROVE TypedInv'
    BY <1>14 DEF ChunkCall, Hears, cancelVars
  <1> HIDE <1>0
  <1> HIDE DEF Places, Open, Streaming, Over, TypedInv
  <1> QED
    BY <1>2, <1>3, <1>4, <1>5, <1>6, <1>7, <1>8, <1>9, <1>10, <1>11, <1>12, <1>13, <1>14
       DEF Next, Progress, Model

\* The invariant of the calls and messages.
LEMMA TurnHolds ==
    /\ Init => TurnInv
    /\ TurnInv /\ [Next]_vars => TurnInv'
  <1>1. ASSUME Init PROVE TurnInv
    <2>1. TypedInv
      <3>1. at \in Places /\ dialect \in Dialects /\ iteration \in 1 .. MaxIterations
        BY <1>1, OrchestratorConstants DEF Init, Places, Open
      <3>2. log \in Seq(Entries) /\ saved = <<>>
        BY <1>1 DEF Init
      <3>3. /\ badArgs \in BOOLEAN /\ notice \in BOOLEAN
            /\ told \in BOOLEAN /\ table \in BOOLEAN /\ event \in BOOLEAN /\ (event => told)
        BY <1>1 DEF Init
      <3> QED BY <3>1, <3>2, <3>3 DEF TypedInv
    <2>2. DOMAIN NoCalls = {} /\ <<>> \in Seq({"text", "tool", "other"}) /\ Len(<<>>) = 0
      BY DEF NoCalls
    <2>3. StreamInv
      <3> HIDE DEF NoCalls
      <3>1. strayed \in BOOLEAN /\ (dialect = "anthropic" => ~strayed) /\ acc = asked
        BY <1>1 DEF Init
      <3>2. DOMAIN asked = {} /\ DOMAIN acc = {} /\ blocks = <<>>
        BY <1>1, <2>2 DEF Init
      <3> QED BY <2>2, <3>1, <3>2, OrchestratorConstants DEF StreamInv
    <2>4. CallsInv
      BY <1>1 DEF Init, CallsInv, Calling
    <2> QED BY <2>1, <2>3, <2>4 DEF TurnInv
  <1>2. ASSUME TurnInv, [Next]_vars PROVE TurnInv'
    BY <1>2, TypedStep, StreamStep, CallsStep DEF TurnInv
  <1> QED BY <1>1, <1>2

(* Type correctness of a turn; in particular, the position of the splitter *)
(* is within the text, and no call is waited for that the stream under way *)
(* has not brought.                                                        *)
THEOREM TypeCorrect == Spec => []TypeOK
  <1>1. TurnInv /\ SpeechInv => TypeOK
    <2> SUFFICES ASSUME TurnInv, SpeechInv PROVE TypeOK
      OBVIOUS
    <2>1. /\ calls \in Seq(CallRecords) /\ Len(calls) <= Cardinality(DOMAIN acc)
      <3>1. Cardinality(DOMAIN acc) \in Nat
        BY AssembledCalls DEF TurnInv
      <3>2. CASE at \in Calling
        BY <3>1, <3>2 DEF TurnInv, CallsInv
      <3>3. CASE at \notin Calling
        <4>1. calls = <<>> /\ Len(<<>>) = 0 /\ <<>> \in Seq(CallRecords)
          BY <3>3 DEF TurnInv, CallsInv
        <4> QED BY <3>1, <4>1
      <3> QED BY <3>2, <3>3
    <2>2. log \in Seq([kind : {"calls", "result", "answer"}, ids : Seq(Ids)])
      BY DEF TurnInv, TypedInv, Entries
    <2>3. /\ at \in Places /\ dialect \in Dialects /\ iteration \in 1 .. MaxIterations
          /\ {strayed, badArgs, notice, told, table, event} \subseteq BOOLEAN /\ (event => told)
      BY DEF TurnInv, TypedInv, StreamInv
    <2>4. /\ blocks \in Seq({"text", "tool", "other"}) /\ Len(blocks) <= MaxIndex + 1
          /\ DOMAIN asked \cup DOMAIN acc \subseteq Indices
          /\ \A i \in DOMAIN asked : asked[i] \in CallRecords /\ Len(asked[i].args) <= MaxArgs
          /\ \A i \in DOMAIN acc : acc[i] \in CallRecords
      BY DEF TurnInv, StreamInv
    <2>5. text \in Seq(Chars) /\ cut \in 0 .. Len(text)
      BY DEF SpeechInv
    <2> QED BY <2>1, <2>2, <2>3, <2>4, <2>5 DEF TypeOK
  <1> QED BY <1>1, TurnHolds, SpeechHolds, PTL DEF Spec

(* However the pieces of several calls are mixed in the stream, run_turn   *)
(* executes each as the model made it, in the order of the indices, and    *)
(* names those without an id apart: with anthropic in every turn, with the *)
(* others unless the server left out the index of a call behind the first. *)
THEOREM CallsComeWhole == Spec => []CallsAreWhole
  <1>1. TurnInv => CallsAreWhole
    <2> DEFINE c == Cardinality(DOMAIN acc)
               done == Cardinality(DOMAIN asked) - Len(calls)
               made(k) == asked[Nth(DOMAIN asked, done + k)]
    <2> SUFFICES ASSUME TurnInv, ~strayed, at \in Calling
                 PROVE  /\ done >= 0
                        /\ \A k \in DOMAIN calls :
                              /\ calls[k].args = made(k).args
                              /\ made(k).id # NoId => calls[k].id = made(k).id
                              /\ \A j \in DOMAIN calls : calls[j].id = calls[k].id => j = k
      BY DEF CallsAreWhole, AsTheModelMadeThem, Calling, TurnInv, StreamInv
    <2>1. /\ calls \in Seq(CallRecords) /\ Len(calls) \in 1 .. c /\ acc = asked
          /\ \A j \in 1 .. Len(calls) : calls[j] = Assembled[c - Len(calls) + j]
      BY DEF TurnInv, CallsInv, StreamInv
    <2>2. DOMAIN calls = 1 .. Len(calls)
      BY <2>1
    <2>3. /\ c \in Nat
          /\ \A j \in 1 .. c :
                /\ Assembled[j].args = asked[Nth(DOMAIN acc, j)].args
                /\ asked[Nth(DOMAIN acc, j)].id # NoId =>
                      Assembled[j].id = asked[Nth(DOMAIN acc, j)].id
          /\ \A j, m \in 1 .. c : Assembled[j].id = Assembled[m].id => j = m
      BY AssembledCalls DEF TurnInv
    <2>4. done = c - Len(calls)
      BY <2>1
    <2> HIDE DEF c, done
    <2>5. done >= 0 /\ \A j \in 1 .. Len(calls) : done + j \in 1 .. c
      BY <2>1, <2>3, <2>4
    <2>6. \A k \in DOMAIN calls :
             calls[k].args = made(k).args /\ (made(k).id # NoId => calls[k].id = made(k).id)
      BY <2>1, <2>2, <2>3, <2>4, <2>5
    <2>7. ASSUME NEW k \in DOMAIN calls, NEW j \in DOMAIN calls, calls[j].id = calls[k].id
          PROVE  j = k
      <3>1. done + j = done + k
        BY <2>1, <2>2, <2>3, <2>4, <2>5, <2>7
      <3> QED BY <2>1, <2>2, <2>3, <2>4, <3>1
    <2> QED BY <2>5, <2>6, <2>7
  <1> QED BY <1>1, TurnHolds, PTL DEF Spec

-----------------------------------------------------------------------------
(* The protocol.                                                           *)

Outcome == IF at \in Open THEN "open" ELSE IF log # <<>> THEN "concluded" ELSE "abandoned"

\* What a step is to the protocol, in the terms of the turn.
LEMMA ProtocolIs ==
    /\ UNCHANGED <<log, IdsOf(calls), Outcome, saved>> => UNCHANGED Protocol!protocolVars
    /\ /\ Outcome = "open" /\ IdsOf(calls) = <<>> /\ IdsOf(calls)' \in Seq(Ids) \ {<<>>}
       /\ log' = Append(log, Protocol!Calls(IdsOf(calls)')) /\ Outcome' = Outcome /\ saved' = saved
       => Protocol!MakeCalls
    /\ /\ Outcome = "open" /\ IdsOf(calls) # <<>> /\ IdsOf(calls)' = Tail(IdsOf(calls))
       /\ \/ log' = Append(log, Protocol!Result(Head(IdsOf(calls)))) /\ Outcome' = Outcome
          \/ /\ IdsOf(calls)' = <<>> /\ Outcome' = "concluded"
             /\ log' = log \o <<Protocol!Result(Head(IdsOf(calls))), Protocol!Answer>>
       /\ saved' = saved
       => Protocol!GiveResult
    /\ /\ Outcome = "open" /\ IdsOf(calls) = <<>> /\ IdsOf(calls)' = IdsOf(calls)
       /\ log' = Append(log, Protocol!Answer) /\ Outcome' = "concluded" /\ saved' = saved
       => Protocol!Conclude
    /\ /\ Outcome # "abandoned" /\ saved = <<>> /\ Outcome' = "abandoned"
       /\ log' = <<>> /\ IdsOf(calls)' = <<>> /\ saved' = saved
       => Protocol!Abandon
    /\ /\ Outcome = "concluded" /\ saved = <<>> /\ saved' = log
       /\ log' = log /\ IdsOf(calls)' = IdsOf(calls) /\ Outcome' = Outcome
       => Protocol!Keep
  BY DEF Protocol!protocolVars, Protocol!MakeCalls, Protocol!GiveResult, Protocol!Conclude,
         Protocol!Abandon, Protocol!Keep, Outcome, IdsOf

ProtocolStep == [Protocol!ProtocolNext]_(Protocol!protocolVars)

\* A turn that is left is given up, unless nothing of it was there any more.
LEMMA LeavingAbandons ==
    ASSUME TurnInv, NEW to \in Over \ {"saved"}, Leaves(to), at # "saved"
    PROVE  ProtocolStep
  <1>1. saved = <<>> /\ saved' = saved /\ log' = <<>> /\ calls' = <<>> /\ at' \in Over \ {"saved"}
    BY DEF TurnInv, TypedInv, Leaves, Forgets
  <1>2. Outcome' = "abandoned" /\ IdsOf(calls)' = <<>>
    <2>1. at' \notin Open
      BY <1>1 DEF Over, Open, Streaming
    <2>2. IdsOf(calls') = <<>>
      BY <1>1 DEF IdsOf
    <2>3. IdsOf(calls)' = IdsOf(calls')
      BY DEF IdsOf
    <2> QED BY <1>1, <2>1, <2>2, <2>3 DEF Outcome
  <1>3. CASE Outcome # "abandoned"
    BY <1>1, <1>2, <1>3, ProtocolIs DEF ProtocolStep, Protocol!ProtocolNext
  <1>4. CASE Outcome = "abandoned"
    <2>1. at \notin Open /\ log = <<>>
      BY <1>4 DEF Outcome
    <2>2. calls = <<>>
      BY <2>1 DEF TurnInv, CallsInv, Calling, Open
    <2>3. IdsOf(calls) = <<>>
      BY <2>2 DEF IdsOf
    <2> QED BY <1>1, <1>2, <1>4, <2>1, <2>3, ProtocolIs DEF ProtocolStep
  <1> QED BY <1>3, <1>4

\* A step that does nothing to the messages.
LEMMA SameMessages ==
    ASSUME UNCHANGED <<log, calls, saved>>, at \in Open <=> at' \in Open
    PROVE  ProtocolStep
  <1>1. IdsOf(calls)' = IdsOf(calls) /\ Outcome' = Outcome
    BY DEF IdsOf, Outcome
  <1> QED BY <1>1, ProtocolIs DEF ProtocolStep

\* The end of a stream makes calls, or concludes the turn.
LEMMA FinishFollows ==
    ASSUME TurnInv, NEW reason, Finish(reason)
    PROVE  ProtocolStep
  <1>1. at \in Streaming /\ at # "saved" /\ log \in Seq(Entries)
    BY DEF Finish, Hears, Streaming, TurnInv, TypedInv
  <1>2. calls = <<>> /\ IdsOf(calls) = <<>> /\ Outcome = "open"
    <2>1. at \in Open /\ at \notin Calling
      BY <1>1 DEF Open, Streaming, Calling
    <2>2. calls = <<>>
      BY <2>1 DEF TurnInv, CallsInv
    <2> QED BY <2>1, <2>2 DEF IdsOf, Outcome
  <1>3. CASE Leaves("stopped")
    BY <1>1, <1>3, LeavingAbandons DEF Over
  <1>4. CASE ~Leaves("stopped") /\ at' = "tool"
    <2>1. /\ DOMAIN acc # {} /\ calls' = Assembled /\ saved' = saved
          /\ log' = Append(log, Protocol!Calls(IdsOf(calls')))
      BY <1>4 DEF Finish
    <2>2. IdsOf(calls)' = IdsOf(calls')
      BY DEF IdsOf
    <2>3. IdsOf(calls') \in Seq(Ids) \ {<<>>}
      <3> DEFINE ids == IdsOf(Assembled)
      <3>1. ids \in Seq(Ids) /\ Len(ids) # 0
        BY <2>1, IdsOfCalls, AssembledCalls DEF TurnInv
      <3> HIDE DEF ids
      <3>2. ids # <<>>
        BY <3>1
      <3> QED BY <2>1, <3>1, <3>2 DEF ids
    <2>4. Outcome' = "open"
      BY <1>4 DEF Outcome, Open
    <2> QED BY <1>2, <2>1, <2>2, <2>3, <2>4, ProtocolIs DEF ProtocolStep, Protocol!ProtocolNext
  <1>5. CASE ~Leaves("stopped") /\ at' # "tool"
    <2>1. /\ at' = "speaking" /\ calls' = calls /\ saved' = saved
          /\ log' = Append(log, Protocol!Answer)
      BY <1>5 DEF Finish
    <2>2. IdsOf(calls)' = IdsOf(calls)
      BY <2>1 DEF IdsOf
    <2>3. log' # <<>>
      BY <1>1, <2>1, EntriesOf
    <2>4. Outcome' = "concluded"
      BY <2>1, <2>3 DEF Outcome, Open, Streaming
    <2> QED BY <1>2, <2>1, <2>2, <2>4, ProtocolIs DEF ProtocolStep, Protocol!ProtocolNext
  <1> QED BY <1>3, <1>4, <1>5

\* An answer of a tool gives the result of the first call that waits.
LEMMA ResultFollows ==
    ASSUME TurnInv, ToolAnswered
    PROVE  ProtocolStep
  <1> DEFINE left == Tail(calls)
             result == Protocol!Result(calls[1].id)
             exceeds == left = <<>> /\ iteration = MaxIterations
  <1>1. /\ at = "answered" /\ at \in Calling /\ at \in Open /\ log \in Seq(Entries)
        /\ Outcome = "open"
    BY DEF ToolAnswered, Calling, Open, TurnInv, TypedInv, Outcome
  <1>2. /\ calls \in Seq(CallRecords) /\ Len(calls) \in Nat \ {0} /\ calls[1].id \in Ids
        /\ left \in Seq(CallRecords) /\ Len(left) = Len(calls) - 1
        /\ \A k \in 1 .. Len(calls) - 1 : left[k] = calls[k + 1]
    BY <1>1, FirstCall
  <1>3. CASE Leaves("stopped")
    BY <1>1, <1>3, LeavingAbandons DEF Over
  <1>4. CASE ~Leaves("stopped")
    <2>1. /\ calls' = left /\ saved' = saved
          /\ exceeds => log' = Append(Append(log, result), Protocol!Answer) /\ at' = "speaking"
          /\ ~exceeds => log' = Append(log, result) /\ at' \in {"tool", "request"}
          /\ exceeds => left = <<>>
      BY <1>4 DEF ToolAnswered, CallsLeft
    <2> DEFINE ids == IdsOf(calls)
    <2>2. /\ ids \in Seq({calls[k].id : k \in DOMAIN calls}) /\ Len(ids) = Len(calls)
          /\ \A k \in 1 .. Len(calls) : ids[k] = calls[k].id
      BY <1>2 DEF IdsOf
    <2>3. IdsOf(calls)' = IdsOf(calls')
      BY DEF IdsOf
    <2>4. IdsOf(left) = [k \in 1 .. Len(calls) - 1 |-> calls[k + 1].id]
      <3> HIDE DEF left
      <3>1. DOMAIN left = 1 .. Len(calls) - 1
        BY <1>2
      <3> QED BY <1>2, <3>1 DEF IdsOf
    <2> HIDE DEF ids, left, result
    <2>5. Tail(ids) = [k \in 1 .. Len(calls) - 1 |-> ids[k + 1]]
      <3>1. ASSUME NEW T, NEW q \in Seq(T), q # <<>>
            PROVE  Tail(q) = [k \in 1 .. Len(q) - 1 |-> q[k + 1]]
        <4> DEFINE t == Tail(q)
        <4>1. t \in Seq(T) /\ Len(t) = Len(q) - 1 /\ \A k \in 1 .. Len(t) : t[k] = q[k + 1]
          BY <3>1, HeadTailProperties
        <4> HIDE DEF t
        <4>2. t = [k \in 1 .. Len(t) |-> t[k]]
          BY <4>1
        <4>3. t = [k \in 1 .. Len(q) - 1 |-> q[k + 1]]
          BY <4>1, <4>2
        <4> QED BY <4>3 DEF t
      <3>2. ids # <<>>
        BY <1>2, <2>2
      <3> QED BY <2>2, <3>1, <3>2
    <2>6. Tail(ids) = IdsOf(left)
      <3>1. \A k \in 1 .. Len(calls) - 1 : ids[k + 1] = calls[k + 1].id
        BY <1>2, <2>2
      <3> QED BY <2>4, <2>5, <3>1
    <2>7. ids # <<>> /\ Head(ids) = calls[1].id
      BY <1>2, <2>2
    <2>8. IdsOf(calls)' = Tail(IdsOf(calls)) /\ IdsOf(calls) # <<>>
          /\ result = Protocol!Result(Head(IdsOf(calls)))
      BY <2>1, <2>3, <2>6, <2>7 DEF ids, result
    <2>9. CASE exceeds
      <3>1. result \in Entries /\ Protocol!Answer \in Entries
        BY <1>2, EntriesOf DEF result
      <3>2. log' = log \o <<result, Protocol!Answer>>
        <4> DEFINE a == Protocol!Answer
        <4>1. a \in Entries
          BY <3>1
        <4> HIDE DEF a
        <4>2. Append(Append(log, result), a) = log \o <<result, a>>
          BY <1>1, <3>1, <4>1
        <4> QED BY <2>1, <2>9, <4>2 DEF a
      <3>3. log' # <<>>
        BY <1>1, <2>1, <2>9, <3>1, EntriesOf
      <3>4. Outcome' = "concluded"
        BY <2>1, <2>9, <3>3 DEF Outcome, Open, Streaming
      <3>5. IdsOf(calls)' = <<>>
        BY <2>1, <2>3, <2>9 DEF IdsOf
      <3> QED BY <1>1, <2>1, <2>8, <3>2, <3>4, <3>5, ProtocolIs DEF ProtocolStep, Protocol!ProtocolNext
    <2>10. CASE ~exceeds
      <3>1. Outcome' = "open"
        BY <2>1, <2>10 DEF Outcome, Open
      <3> QED BY <1>1, <2>1, <2>8, <2>10, <3>1, ProtocolIs DEF ProtocolStep, Protocol!ProtocolNext
    <2> QED BY <2>9, <2>10
  <1> QED BY <1>3, <1>4

\* Every step of a turn is a step of the protocol or none.
LEMMA StepsFollow ==
    ASSUME TurnInv, [Next]_vars
    PROVE  ProtocolStep
  <1> USE DEF Open, Streaming, Over
  <1>1. CASE UNCHANGED vars
    BY <1>1, SameMessages DEF vars
  <1>2. CASE Request
    BY <1>2, SameMessages, LeavingAbandons DEF Request
  <1>3. CASE StreamRaises \/ StreamCancelled \/ BreaksOff
    BY <1>3, LeavingAbandons DEF StreamRaises, StreamCancelled, BreaksOff
  <1>4. CASE ToolStarts \/ Reply \/ Thinks \/ Released \/ BargeIn
    BY <1>4, SameMessages DEF ToolStarts, Reply, Thinks, Released, BargeIn
  <1>5. CASE ToolReturns
    BY <1>5, SameMessages, LeavingAbandons DEF ToolReturns
  <1>6. CASE FirstTokenTimeout
    <2>1. CASE Leaves("stopped")
      BY <1>6, <2>1, LeavingAbandons DEF FirstTokenTimeout
    <2>2. CASE ~Leaves("stopped")
      <3>1. /\ at = "first" /\ at' = "speaking" /\ log' = <<>> /\ calls' = <<>> /\ saved' = saved
            /\ saved = <<>>
        BY <1>6, <2>2 DEF FirstTokenTimeout, Forgets, TurnInv, TypedInv
      <3>2. Outcome = "open" /\ Outcome' = "abandoned" /\ IdsOf(calls') = <<>>
        BY <3>1 DEF Outcome, IdsOf
      <3>3. IdsOf(calls)' = IdsOf(calls')
        BY DEF IdsOf
      <3> QED BY <3>1, <3>2, <3>3, ProtocolIs DEF ProtocolStep, Protocol!ProtocolNext
    <2> QED BY <2>1, <2>2
  <1>7. CASE ToolAnswered
    BY <1>7, ResultFollows
  <1>8. ASSUME NEW reason, Finish(reason) PROVE ProtocolStep
    BY <1>8, FinishFollows
  <1>9. ASSUME NEW piece, TextDelta(piece) PROVE ProtocolStep
    BY <1>9, SameMessages, LeavingAbandons DEF TextDelta, Hears
  <1>10. ASSUME NEW kind, BlockStart(kind) PROVE ProtocolStep
    BY <1>10, SameMessages DEF BlockStart, Hears
  <1>11. ASSUME NEW args, JsonDelta(args) PROVE ProtocolStep
    BY <1>11, SameMessages DEF JsonDelta, Hears
  <1>12. ASSUME NEW i, NEW n, NEW id, NEW args, ChunkCall(i, n, id, args) PROVE ProtocolStep
    BY <1>12, SameMessages DEF ChunkCall, Hears
  <1>13. CASE Save
    <2>1. /\ at = "replied" /\ at' = "saved" /\ saved' = log /\ saved = <<>>
          /\ UNCHANGED <<log, calls>>
      BY <1>13 DEF Save, TurnInv, TypedInv
    <2>2. IdsOf(calls)' = IdsOf(calls) /\ Outcome' = Outcome
      BY <2>1 DEF IdsOf, Outcome
    <2>3. CASE log # <<>>
      <3>1. Outcome = "concluded"
        BY <2>1, <2>3 DEF Outcome
      <3> QED BY <2>1, <2>2, <3>1, ProtocolIs DEF ProtocolStep, Protocol!ProtocolNext
    <2>4. CASE log = <<>>
      BY <2>1, <2>2, <2>4, ProtocolIs DEF ProtocolStep
    <2> QED BY <2>3, <2>4
  <1> QED
    BY <1>1, <1>2, <1>3, <1>4, <1>5, <1>6, <1>7, <1>8, <1>9, <1>10, <1>11, <1>12, <1>13
       DEF Next, Progress, Model

(* Each call of the model has its result before the model is asked again   *)
(* or the turn ends, and the history gets the turn whole or not at all:    *)
(* every step of a turn is one of ToolProtocol, or leaves it unchanged.    *)
THEOREM ProtocolImplemented == Spec => FollowsProtocol
  <1>1. Init => Protocol!ProtocolInit
    <2>1. calls = <<>> => [k \in DOMAIN calls |-> calls[k].id] = <<>>
      OBVIOUS
    <2> QED BY <2>1 DEF Init, Protocol!ProtocolInit, Open
  <1>2. TurnInv /\ [Next]_vars => [Protocol!ProtocolNext]_(Protocol!protocolVars)
    BY StepsFollow DEF ProtocolStep
  <1> QED BY <1>1, <1>2, TurnHolds, PTL DEF Spec, FollowsProtocol, Protocol!ProtocolSpec

-----------------------------------------------------------------------------
(* What is kept of a turn.                                                 *)

\* The messages l are whole but for the results of the calls w, which are still to come:
\* they are the last calls of the message at c.
WholeBut(l, w) ==
    /\ \A i \in DOMAIN l : \A k \in DOMAIN l[i].ids :
          l[i].kind = "calls" /\ i + k <= Len(l) => l[i + k] = Protocol!Result(l[i].ids[k])
    /\ \A i \in DOMAIN l : l[i].kind = "result" =>
          \E j \in 1 .. (i - 1) : l[j].kind = "calls" /\ i - j <= Len(l[j].ids)
    /\ \E c \in 0 .. Len(l) :
          /\ \A i \in DOMAIN l : l[i].kind = "calls" /\ i # c => i + Len(l[i].ids) <= Len(l)
          /\ w = <<>> => c = 0
          /\ w # <<>> =>
                /\ c # 0 /\ l[c].kind = "calls" /\ Len(l) - c + Len(w) = Len(l[c].ids)
                /\ \A k \in 1 .. Len(w) : w[k] = l[c].ids[Len(l) - c + k]

\* The identifiers in a list of messages.
LEMMA IdsTyped ==
    ASSUME NEW l \in Seq(Entries)
    PROVE  \A i \in 1 .. Len(l) : /\ l[i].ids \in Seq(Ids) /\ Len(l[i].ids) \in Nat
                                  /\ DOMAIN l[i].ids = 1 .. Len(l[i].ids)
  <1> SUFFICES ASSUME NEW i \in 1 .. Len(l)
               PROVE  /\ l[i].ids \in Seq(Ids) /\ Len(l[i].ids) \in Nat
                      /\ DOMAIN l[i].ids = 1 .. Len(l[i].ids)
    OBVIOUS
  <1>1. l[i] \in Entries
    OBVIOUS
  <1>2. l[i].ids \in Seq(Ids)
    BY <1>1 DEF Entries
  <1> QED BY <1>2

\* Calls are made when none is to come.
LEMMA CallsMade ==
    ASSUME NEW l \in Seq(Entries), NEW w \in Seq(Ids), w # <<>>, WholeBut(l, <<>>)
    PROVE  WholeBut(Append(l, Protocol!Calls(w)), w)
  <1> DEFINE e == Protocol!Calls(w)
             n == Len(l)
             m == Append(l, e)
  <1>1. e \in Entries /\ e.kind = "calls" /\ e.ids = w
    BY DEF Protocol!Calls, Entries
  <1>2. /\ n \in Nat /\ DOMAIN l = 1 .. n /\ Len(m) = n + 1 /\ DOMAIN m = 1 .. n + 1
        /\ m[n + 1] = e /\ \A i \in 1 .. n : m[i] = l[i]
    BY <1>1
  <1>3. \A i \in 1 .. n : Len(l[i].ids) \in Nat /\ DOMAIN l[i].ids = 1 .. Len(l[i].ids)
    BY IdsTyped
  <1>4. Len(w) \in Nat \ {0} /\ DOMAIN w = 1 .. Len(w)
    OBVIOUS
  <1> HIDE DEF e, n, m
  <1>5. \A i \in 1 .. n : l[i].kind = "calls" => i + Len(l[i].ids) <= n
    BY <1>2 DEF WholeBut, n
  <1>6. ASSUME NEW i \in DOMAIN m, NEW k \in DOMAIN m[i].ids, m[i].kind = "calls", i + k <= Len(m)
        PROVE  m[i + k] = Protocol!Result(m[i].ids[k])
    <2>1. CASE i \in 1 .. n
      <3>1. k \in DOMAIN l[i].ids /\ i + k <= n /\ i + k \in 1 .. n /\ l[i].kind = "calls"
        BY <1>2, <1>3, <1>5, <1>6, <2>1
      <3>2. l[i + k] = Protocol!Result(l[i].ids[k])
        BY <1>2, <2>1, <3>1 DEF WholeBut, n
      <3> QED BY <1>2, <2>1, <3>1, <3>2
    <2>2. CASE i = n + 1
      BY <1>1, <1>2, <1>4, <1>6, <2>2
    <2> QED BY <1>2, <2>1, <2>2
  <1>7. ASSUME NEW i \in DOMAIN m, m[i].kind = "result"
        PROVE  \E j \in 1 .. (i - 1) : m[j].kind = "calls" /\ i - j <= Len(m[j].ids)
    <2>1. i \in 1 .. n
      BY <1>1, <1>2, <1>7
    <2>2. PICK j \in 1 .. (i - 1) : l[j].kind = "calls" /\ i - j <= Len(l[j].ids)
      BY <1>2, <1>7, <2>1 DEF WholeBut
    <2>3. m[j] = l[j]
      BY <1>2, <2>1, <2>2
    <2> QED BY <2>2, <2>3
  <1>8. /\ n + 1 \in 0 .. Len(m)
        /\ \A i \in DOMAIN m : m[i].kind = "calls" /\ i # n + 1 => i + Len(m[i].ids) <= Len(m)
        /\ m[n + 1].kind = "calls" /\ Len(m) - (n + 1) + Len(w) = Len(m[n + 1].ids)
        /\ \A k \in 1 .. Len(w) : w[k] = m[n + 1].ids[Len(m) - (n + 1) + k]
    BY <1>1, <1>2, <1>3, <1>4, <1>5
  <1>9. n + 1 # 0
    BY <1>2
  <1>10. WholeBut(m, w)
    BY <1>6, <1>7, <1>8, <1>9 DEF WholeBut
  <1> QED BY <1>10 DEF m, e

\* The result of the first call to come.
LEMMA ResultGiven ==
    ASSUME NEW l \in Seq(Entries), NEW w \in Seq(Ids), w # <<>>, WholeBut(l, w)
    PROVE  WholeBut(Append(l, Protocol!Result(Head(w))), Tail(w))
  <1> DEFINE e == Protocol!Result(Head(w))
             n == Len(l)
             m == Append(l, e)
             t == Tail(w)
  <1>1. Head(w) \in Ids /\ Head(w) = w[1]
    OBVIOUS
  <1>2. e \in Entries /\ e.kind = "result" /\ e = Protocol!Result(w[1])
    BY <1>1 DEF Protocol!Result, Entries
  <1>3. /\ n \in Nat /\ DOMAIN l = 1 .. n /\ Len(m) = n + 1 /\ DOMAIN m = 1 .. n + 1
        /\ m[n + 1] = e /\ \A i \in 1 .. n : m[i] = l[i]
    BY <1>2
  <1>4. \A i \in 1 .. n : Len(l[i].ids) \in Nat /\ DOMAIN l[i].ids = 1 .. Len(l[i].ids)
    BY IdsTyped
  <1>5. /\ Len(w) \in Nat \ {0} /\ t \in Seq(Ids) /\ Len(t) = Len(w) - 1
        /\ \A k \in 1 .. Len(t) : t[k] = w[k + 1]
        /\ (t = <<>> <=> Len(t) = 0)
    <2>1. Len(w) \in Nat \ {0}
      OBVIOUS
    <2>2. t \in Seq(Ids) /\ Len(t) = Len(w) - 1 /\ \A k \in 1 .. Len(t) : t[k] = w[k + 1]
      BY <2>1, HeadTailProperties
    <2> HIDE DEF t
    <2>3. t = <<>> <=> Len(t) = 0
      BY <2>2
    <2> QED BY <2>1, <2>2, <2>3
  <1> HIDE DEF e, n, m, t
  <1>6. PICK c \in 1 .. n :
            /\ \A i \in 1 .. n : l[i].kind = "calls" /\ i # c => i + Len(l[i].ids) <= n
            /\ l[c].kind = "calls" /\ n - c + Len(w) = Len(l[c].ids)
            /\ \A k \in 1 .. Len(w) : w[k] = l[c].ids[n - c + k]
    <2>1. PICK c \in 0 .. n :
              /\ \A i \in DOMAIN l : l[i].kind = "calls" /\ i # c => i + Len(l[i].ids) <= n
              /\ c # 0 /\ l[c].kind = "calls" /\ n - c + Len(w) = Len(l[c].ids)
              /\ \A k \in 1 .. Len(w) : w[k] = l[c].ids[n - c + k]
      BY DEF WholeBut, n
    <2>2. c \in 1 .. n
      BY <1>3, <2>1
    <2> QED BY <1>3, <2>1, <2>2
  <1>7. ASSUME NEW i \in DOMAIN m, NEW k \in DOMAIN m[i].ids, m[i].kind = "calls", i + k <= Len(m)
        PROVE  m[i + k] = Protocol!Result(m[i].ids[k])
    <2>1. i \in 1 .. n /\ m[i] = l[i] /\ k \in 1 .. Len(l[i].ids)
      <3>1. i \in 1 .. n /\ m[i] = l[i]
        BY <1>2, <1>3, <1>7
      <3>2. k \in DOMAIN l[i].ids
        BY <3>1
      <3> QED BY <1>4, <3>1, <3>2
    <2>2. CASE i + k <= n
      <3>1. l[i + k] = Protocol!Result(l[i].ids[k])
        BY <1>3, <1>4, <1>7, <2>1, <2>2 DEF WholeBut, n
      <3> QED BY <1>3, <2>1, <2>2, <3>1
    <2>3. CASE i + k = n + 1
      <3>1. i = c
        <4>1. SUFFICES ASSUME i # c PROVE FALSE
          OBVIOUS
        <4>2. l[i].kind = "calls"
          BY <1>7, <2>1
        <4>3. i + Len(l[i].ids) <= n
          BY <1>6, <2>1, <4>1, <4>2
        <4>4. k <= Len(l[i].ids) /\ Len(l[i].ids) \in Nat /\ k \in Nat /\ i \in Nat
          BY <1>4, <2>1
        <4> QED BY <1>3, <2>3, <4>3, <4>4
      <3>2. k = n - c + 1 /\ w[1] = l[c].ids[n - c + 1]
        BY <1>3, <1>5, <1>6, <2>1, <2>3, <3>1
      <3> QED BY <1>2, <1>3, <2>1, <2>3, <3>1, <3>2
    <2> QED BY <1>3, <1>7, <2>1, <2>2, <2>3
  <1>8. ASSUME NEW i \in DOMAIN m, m[i].kind = "result"
        PROVE  \E j \in 1 .. (i - 1) : m[j].kind = "calls" /\ i - j <= Len(m[j].ids)
    <2>1. CASE i \in 1 .. n
      <3>1. PICK j \in 1 .. (i - 1) : l[j].kind = "calls" /\ i - j <= Len(l[j].ids)
        BY <1>3, <1>8, <2>1 DEF WholeBut
      <3>2. m[j] = l[j]
        BY <1>3, <2>1, <3>1
      <3> QED BY <3>1, <3>2
    <2>2. CASE i = n + 1
      <3>1. c \in 1 .. (i - 1) /\ m[c] = l[c] /\ i - c <= Len(l[c].ids)
        BY <1>3, <1>5, <1>6, <2>2
      <3> QED BY <1>6, <3>1
    <2> QED BY <1>3, <2>1, <2>2
  <1>9. ASSUME NEW i \in DOMAIN m, m[i].kind = "calls", i # c \/ t = <<>>
        PROVE  i + Len(m[i].ids) <= Len(m)
    <2>1. i \in 1 .. n /\ m[i] = l[i]
      BY <1>2, <1>3, <1>9
    <2>2. CASE i # c
      BY <1>3, <1>4, <1>6, <1>9, <2>1, <2>2
    <2>3. CASE i = c /\ t = <<>>
      <3>1. Len(w) = 1
        BY <1>5, <2>3
      <3>2. Len(m[i].ids) = n - c + 1
        BY <1>6, <2>1, <2>3, <3>1
      <3> QED BY <1>3, <2>3, <3>2
    <2> QED BY <1>9, <2>2, <2>3
  <1>10. CASE t = <<>>
    <2>1. 0 \in 0 .. Len(m)
      BY <1>3
    <2> QED BY <1>7, <1>8, <1>9, <1>10, <2>1 DEF WholeBut, m, t, e
  <1>11. CASE t # <<>>
    <2>1. /\ c \in 0 .. Len(m) /\ c # 0 /\ m[c] = l[c]
          /\ Len(m) - c + Len(t) = Len(m[c].ids)
      <3>1. c \in 0 .. n + 1 /\ c # 0 /\ m[c] = l[c]
        BY <1>3, <1>6
      <3>2. Len(m[c].ids) = n - c + Len(w)
        BY <1>6, <3>1
      <3>3. Len(m) - c + Len(t) = n - c + Len(w)
        BY <1>3, <1>5, <1>6
      <3> QED BY <1>3, <3>1, <3>2, <3>3
    <2>2. ASSUME NEW k \in 1 .. Len(t) PROVE t[k] = m[c].ids[Len(m) - c + k]
      <3>1. k + 1 \in 1 .. Len(w) /\ n - c + (k + 1) = Len(m) - c + k
        BY <1>3, <1>5, <2>2
      <3>2. w[k + 1] = l[c].ids[n - c + (k + 1)]
        BY <1>6, <3>1
      <3> QED BY <1>5, <2>1, <3>1, <3>2
    <2>3. m[c].kind = "calls"
      BY <1>6, <2>1
    <2>4. WholeBut(m, t)
      BY <1>7, <1>8, <1>9, <1>11, <2>1, <2>2, <2>3 DEF WholeBut
    <2> QED BY <2>4 DEF m, t, e
  <1> QED BY <1>10, <1>11

\* An answer, when no result is to come.
LEMMA AnswerGiven ==
    ASSUME NEW l \in Seq(Entries), WholeBut(l, <<>>)
    PROVE  WholeBut(Append(l, Protocol!Answer), <<>>)
  <1> DEFINE e == Protocol!Answer
             n == Len(l)
             m == Append(l, e)
  <1>1. e \in Entries /\ e.kind = "answer"
    BY DEF Protocol!Answer, Entries
  <1>2. /\ n \in Nat /\ DOMAIN l = 1 .. n /\ Len(m) = n + 1 /\ DOMAIN m = 1 .. n + 1
        /\ m[n + 1] = e /\ \A i \in 1 .. n : m[i] = l[i]
    BY <1>1
  <1>3. \A i \in 1 .. n : Len(l[i].ids) \in Nat /\ DOMAIN l[i].ids = 1 .. Len(l[i].ids)
    BY IdsTyped
  <1> HIDE DEF e, n, m
  <1>4. \A i \in 1 .. n : l[i].kind = "calls" => i + Len(l[i].ids) <= n
    BY <1>2 DEF WholeBut, n
  <1>5. ASSUME NEW i \in DOMAIN m, m[i].kind # "answer"
        PROVE  i \in 1 .. n /\ m[i] = l[i]
    BY <1>1, <1>2, <1>5
  <1>6. ASSUME NEW i \in DOMAIN m, NEW k \in DOMAIN m[i].ids, m[i].kind = "calls", i + k <= Len(m)
        PROVE  m[i + k] = Protocol!Result(m[i].ids[k])
    <2>1. i \in 1 .. n /\ m[i] = l[i]
      BY <1>5, <1>6
    <2>2. i + k \in 1 .. n
      <3>1. k \in DOMAIN l[i].ids /\ l[i].kind = "calls"
        BY <1>6, <2>1
      <3> QED BY <1>2, <1>3, <1>4, <2>1, <3>1
    <2>3. l[i + k] = Protocol!Result(l[i].ids[k])
      BY <1>2, <1>6, <2>1, <2>2 DEF WholeBut, n
    <2> QED BY <1>2, <2>1, <2>2, <2>3
  <1>7. ASSUME NEW i \in DOMAIN m, m[i].kind = "result"
        PROVE  \E j \in 1 .. (i - 1) : m[j].kind = "calls" /\ i - j <= Len(m[j].ids)
    <2>1. i \in 1 .. n /\ m[i] = l[i]
      BY <1>5, <1>7
    <2>2. PICK j \in 1 .. (i - 1) : l[j].kind = "calls" /\ i - j <= Len(l[j].ids)
      BY <1>2, <1>7, <2>1 DEF WholeBut
    <2>3. m[j] = l[j]
      BY <1>2, <2>1, <2>2
    <2> QED BY <2>2, <2>3
  <1>8. /\ 0 \in 0 .. Len(m)
        /\ \A i \in DOMAIN m : m[i].kind = "calls" /\ i # 0 => i + Len(m[i].ids) <= Len(m)
    BY <1>2, <1>3, <1>4, <1>5
  <1> QED BY <1>6, <1>7, <1>8 DEF WholeBut, m, e

\* Messages are whole so far, those of a concluded turn for good, and those that are kept.
Concluded(l) == WholeBut(l, <<>>) /\ l[Len(l)] = Protocol!Answer

KeptInv ==
    /\ WholeBut(log, IdsOf(calls))
    /\ Outcome = "concluded" => Concluded(log)
    /\ saved \in Seq(Entries)
    /\ saved # <<>> => Concluded(saved)

\* A step of the protocol, in the terms of the turn.
LEMMA ProtocolMeans ==
    ASSUME ProtocolStep
    PROVE  \/ UNCHANGED <<log, IdsOf(calls), Outcome, saved>>
           \/ /\ Outcome' = "open" /\ saved' = saved
              /\ IdsOf(calls) = <<>> /\ IdsOf(calls)' \in Seq(Ids) \ {<<>>}
              /\ log' = Append(log, Protocol!Calls(IdsOf(calls)'))
           \/ /\ Outcome' = "open" /\ saved' = saved
              /\ IdsOf(calls) # <<>> /\ IdsOf(calls)' = Tail(IdsOf(calls))
              /\ log' = Append(log, Protocol!Result(Head(IdsOf(calls))))
           \/ /\ saved' = saved
              /\ IdsOf(calls) # <<>> /\ IdsOf(calls)' = Tail(IdsOf(calls)) /\ IdsOf(calls)' = <<>>
              /\ log' = log \o <<Protocol!Result(Head(IdsOf(calls))), Protocol!Answer>>
           \/ /\ saved' = saved /\ IdsOf(calls) = <<>> /\ IdsOf(calls)' = <<>>
              /\ log' = Append(log, Protocol!Answer)
           \/ /\ Outcome' = "abandoned" /\ saved' = saved
              /\ log' = <<>> /\ IdsOf(calls)' = <<>>
           \/ /\ Outcome = "concluded" /\ saved' = log
              /\ UNCHANGED <<log, IdsOf(calls), Outcome>>
  BY DEF ProtocolStep, Protocol!ProtocolNext, Protocol!protocolVars, Protocol!MakeCalls,
         Protocol!GiveResult, Protocol!Conclude, Protocol!Abandon, Protocol!Keep, Outcome, IdsOf

LEMMA NothingIsWhole == WholeBut(<<>>, <<>>)
  <1>1. 0 \in 0 .. Len(<<>>) /\ DOMAIN <<>> = {}
    OBVIOUS
  <1> QED BY <1>1 DEF WholeBut

\* The last message, and what is put behind it.
LEMMA AnswerIsLast ==
    ASSUME NEW l \in Seq(Entries)
    PROVE  LET m == Append(l, Protocol!Answer) IN m # <<>> /\ m[Len(m)] = Protocol!Answer
  <1> DEFINE e == Protocol!Answer
  <1>1. e \in Entries
    BY DEF Protocol!Answer, Entries
  <1> HIDE DEF e
  <1>2. Append(l, e) # <<>> /\ Append(l, e)[Len(Append(l, e))] = e
    BY <1>1
  <1> QED BY <1>2 DEF e

\* A call that waits for its result has an id.
LEMMA CallsHaveIds == TurnInv => IdsOf(calls) \in Seq(Ids)
  <1> SUFFICES ASSUME TurnInv PROVE IdsOf(calls) \in Seq(Ids)
    OBVIOUS
  <1>1. CASE at \in Calling
    <2> DEFINE c == Cardinality(DOMAIN acc)
    <2>1. /\ calls \in Seq(CallRecords) /\ Len(calls) \in 1 .. c
          /\ \A k \in 1 .. Len(calls) : calls[k] = Assembled[c - Len(calls) + k]
      BY <1>1 DEF TurnInv, CallsInv
    <2>2. c \in Nat /\ \A k \in 1 .. c : Assembled[k].id \in Ids
      BY AssembledCalls DEF TurnInv
    <2> HIDE DEF c
    <2>3. ASSUME NEW k \in 1 .. Len(calls) PROVE calls[k].id \in Ids
      <3>1. c - Len(calls) + k \in 1 .. c
        BY <2>1, <2>2
      <3> QED BY <2>1, <2>2, <3>1
    <2> QED BY <2>1, <2>3 DEF IdsOf
  <1>2. CASE at \notin Calling
    <2>1. calls = <<>>
      BY <1>2 DEF TurnInv, CallsInv
    <2>2. IdsOf(calls) = <<>>
      BY <2>1 DEF IdsOf
    <2> QED BY <2>2
  <1> QED BY <1>1, <1>2

LEMMA KeptStep ==
    ASSUME TurnInv, TurnInv', KeptInv, ProtocolStep
    PROVE  KeptInv'
  <1> DEFINE w == IdsOf(calls)
  <1>1. log \in Seq(Entries) /\ log' \in Seq(Entries)
    BY DEF TurnInv, TypedInv
  <1>2. w \in Seq(Ids)
    BY CallsHaveIds
  <1>3. WholeBut(log, w) /\ (Outcome = "concluded" => Concluded(log))
    BY DEF KeptInv
  <1>4. /\ Outcome \in {"open", "concluded", "abandoned"}
        /\ Outcome' \in {"open", "concluded", "abandoned"}
        /\ Outcome' = "concluded" => log' # <<>>
    BY DEF Outcome
  <1>5. ASSUME saved' = saved, WholeBut(log', w'), Outcome' = "concluded" => Concluded(log')
        PROVE  KeptInv'
    BY <1>5 DEF KeptInv, Concluded
  <1> HIDE DEF w
  <1>6. CASE UNCHANGED <<log, w, Outcome, saved>>
    BY <1>3, <1>5, <1>6 DEF Concluded
  <1>7. CASE /\ Outcome' = "open" /\ saved' = saved /\ w = <<>> /\ w' \in Seq(Ids) \ {<<>>}
             /\ log' = Append(log, Protocol!Calls(w'))
    <2>1. WholeBut(log', w')
      BY <1>1, <1>3, <1>7, CallsMade
    <2> QED BY <1>5, <1>7, <2>1
  <1>8. CASE /\ Outcome' = "open" /\ saved' = saved /\ w # <<>> /\ w' = Tail(w)
             /\ log' = Append(log, Protocol!Result(Head(w)))
    <2>1. WholeBut(log', w')
      BY <1>1, <1>2, <1>3, <1>8, ResultGiven
    <2> QED BY <1>5, <1>8, <2>1
  <1>9. CASE /\ saved' = saved /\ w # <<>> /\ w' = Tail(w) /\ w' = <<>>
             /\ log' = log \o <<Protocol!Result(Head(w)), Protocol!Answer>>
    <2> DEFINE r == Protocol!Result(Head(w))
               a == Protocol!Answer
               m == Append(log, r)
    <2>1. Head(w) \in Ids
      BY <1>2, <1>9
    <2>2. r \in Entries /\ a \in Entries
      BY <2>1 DEF Entries, Protocol!Result, Protocol!Answer
    <2>3. WholeBut(m, <<>>)
      BY <1>1, <1>2, <1>3, <1>9, ResultGiven
    <2>4. m \in Seq(Entries) /\ log' = Append(m, a)
      <3> HIDE DEF r, a
      <3> QED BY <1>1, <1>9, <2>2 DEF r, a
    <2>5. WholeBut(log', w') /\ log'[Len(log')] = a
      <3> HIDE DEF m
      <3> QED BY <1>9, <2>3, <2>4, AnswerGiven, AnswerIsLast
    <2>6. Concluded(log')
      BY <1>9, <2>5 DEF Concluded
    <2> QED BY <1>5, <1>9, <2>5, <2>6
  <1>10. CASE saved' = saved /\ w = <<>> /\ w' = <<>> /\ log' = Append(log, Protocol!Answer)
    <2>1. WholeBut(log', w') /\ log'[Len(log')] = Protocol!Answer
      BY <1>1, <1>3, <1>10, AnswerGiven, AnswerIsLast
    <2>2. Concluded(log')
      BY <1>10, <2>1 DEF Concluded
    <2> QED BY <1>5, <1>10, <2>1, <2>2
  <1>11. CASE Outcome' = "abandoned" /\ saved' = saved /\ log' = <<>> /\ w' = <<>>
    BY <1>5, <1>11, NothingIsWhole
  <1>12. CASE Outcome = "concluded" /\ saved' = log /\ UNCHANGED <<log, w, Outcome>>
    BY <1>1, <1>3, <1>12 DEF KeptInv, Concluded, w
  <1> QED
    BY <1>6, <1>7, <1>8, <1>9, <1>10, <1>11, <1>12, ProtocolMeans DEF w

\* Messages without calls to come are what SavedIsWhole says.
LEMMA ConcludedIsWhole ==
    ASSUME NEW l \in Seq(Entries), WholeBut(l, <<>>)
    PROVE  /\ ResultsFollowCalls([i \in DOMAIN l |-> MessageOf(l[i])])
           /\ \A i \in DOMAIN l : l[i].kind = "calls" =>
                 \A k \in DOMAIN l[i].ids : l[i + k] = Protocol!Result(l[i].ids[k])
  <1> DEFINE n == Len(l)
             m == [i \in DOMAIN l |-> MessageOf(l[i])]
  <1>1. /\ n \in Nat /\ DOMAIN l = 1 .. n /\ DOMAIN m = 1 .. n /\ Len(m) = n
        /\ \A i \in 1 .. n : m[i] = MessageOf(l[i])
    OBVIOUS
  <1>2. \A i \in 1 .. n : Len(l[i].ids) \in Nat /\ DOMAIN l[i].ids = 1 .. Len(l[i].ids)
    BY IdsTyped
  <1>3. \A i \in 1 .. n : l[i].kind \in {"calls", "result", "answer"}
    <2> SUFFICES ASSUME NEW i \in 1 .. n PROVE l[i].kind \in {"calls", "result", "answer"}
      OBVIOUS
    <2>1. l[i] \in Entries
      OBVIOUS
    <2> QED BY <2>1 DEF Entries
  <1> HIDE DEF n, m
  <1>4. ASSUME NEW i \in 1 .. n
        PROVE  /\ l[i].kind = "calls" => m[i].calls = Len(l[i].ids)
               /\ l[i].kind # "calls" => m[i].calls = 0
               /\ m[i].role = "tool" <=> l[i].kind = "result"
    BY <1>1, <1>3, <1>4 DEF MessageOf, Assistant, Tool
  <1>5. \A i \in 1 .. n : l[i].kind = "calls" => i + Len(l[i].ids) <= n
    BY <1>1 DEF WholeBut, n
  <1>6. ASSUME NEW i \in 1 .. n, l[i].kind = "calls", NEW k \in 1 .. Len(l[i].ids)
        PROVE  i + k \in 1 .. n /\ l[i + k] = Protocol!Result(l[i].ids[k])
    <2>1. i + k \in 1 .. n
      BY <1>1, <1>2, <1>5, <1>6
    <2>2. i \in DOMAIN l /\ k \in DOMAIN l[i].ids /\ i + k <= Len(l)
      BY <1>1, <1>2, <1>6, <2>1 DEF n
    <2>3. l[i + k] = Protocol!Result(l[i].ids[k])
      BY <1>6, <2>2 DEF WholeBut
    <2> QED BY <2>1, <2>3
  <1>7. ASSUME NEW i \in 1 .. n, NEW k \in 1 .. m[i].calls
        PROVE  i + k <= n /\ m[i + k].role = "tool"
    <2>1. l[i].kind = "calls" /\ k \in 1 .. Len(l[i].ids)
      BY <1>4, <1>7
    <2>2. i + k \in 1 .. n /\ l[i + k] = Protocol!Result(l[i].ids[k])
      BY <1>6, <1>7, <2>1
    <2>3. l[i + k].kind = "result"
      BY <2>2 DEF Protocol!Result
    <2> QED BY <1>1, <1>4, <2>2, <2>3
  <1>8. ASSUME NEW i \in 1 .. n, m[i].role = "tool"
        PROVE  \E j \in 1 .. (i - 1) : i - j <= m[j].calls
    <2>1. PICK j \in 1 .. (i - 1) : l[j].kind = "calls" /\ i - j <= Len(l[j].ids)
      BY <1>1, <1>4, <1>8 DEF WholeBut
    <2>2. m[j].calls = Len(l[j].ids)
      BY <1>1, <1>4, <2>1
    <2> QED BY <2>1, <2>2
  <1>9. ResultsFollowCalls(m)
    BY <1>1, <1>7, <1>8 DEF ResultsFollowCalls
  <1> QED BY <1>1, <1>2, <1>6, <1>9 DEF m

(* However a turn goes, the history gets calls with all of their results,  *)
(* in order, and an answer behind them, or nothing: the whole answers that *)
(* ChatHistory builds its sessions of.                                     *)
THEOREM KeptTurnsAreWhole == Spec => []SavedIsWhole
  <1>1. Init => KeptInv
    <2> SUFFICES ASSUME Init PROVE KeptInv
      OBVIOUS
    <2>1. log = <<>> /\ saved = <<>> /\ IdsOf(calls) = <<>> /\ Outcome = "open"
      BY DEF Init, IdsOf, Outcome, Open
    <2> QED BY <2>1, NothingIsWhole DEF KeptInv
  <1>2. TurnInv /\ TurnInv' /\ KeptInv /\ [Next]_vars => KeptInv'
    BY StepsFollow, KeptStep
  <1>3. KeptInv => SavedIsWhole
    <2>1. CASE saved = <<>>
      BY <2>1 DEF SavedIsWhole, ResultsFollowCalls
    <2>2. CASE saved # <<>>
      BY <2>2, ConcludedIsWhole DEF KeptInv, Concluded, SavedIsWhole
    <2> QED BY <2>1, <2>2
  <1> QED BY <1>1, <1>2, <1>3, TurnHolds, PTL DEF Spec

-----------------------------------------------------------------------------
(* ProviderRuntime.                                                        *)

\* The part of the specification that is not about fairness.
RuntimeSafety == RuntimeInit /\ [][RuntimeNext]_runtimeVars

-----------------------------------------------------------------------------
(* Queues.                                                                 *)

\* What is left when the i-th of a queue leaves it.
LEMMA Removal ==
    ASSUME NEW S, NEW q \in Seq(S), NEW i \in DOMAIN q
    PROVE  /\ RemoveAt(q, i) \in Seq(S)
           /\ DOMAIN RemoveAt(q, i) = 1 .. Len(q) - 1
           /\ \A j \in 1 .. Len(q) - 1 :
                 RemoveAt(q, i)[j] = IF j < i THEN q[j] ELSE q[j + 1]
  <1> DEFINE front == SubSeq(q, 1, i - 1)
             back == SubSeq(q, i + 1, Len(q))
  <1>1. i \in 1 .. Len(q) /\ Len(q) \in Nat
    OBVIOUS
  <1>2. /\ front \in Seq(S) /\ Len(front) = i - 1
        /\ \A j \in 1 .. i - 1 : front[j] = q[j]
    BY <1>1
  <1>3. /\ back \in Seq(S) /\ Len(back) = Len(q) - i
        /\ \A j \in 1 .. Len(q) - i : back[j] = q[i + j]
    BY <1>1
  <1>4. RemoveAt(q, i) = front \o back
    BY DEF RemoveAt
  <1> HIDE DEF front, back
  <1>5. /\ front \o back \in Seq(S)
        /\ Len(front \o back) = Len(q) - 1
    BY <1>1, <1>2, <1>3, ConcatProperties
  <1>6. ASSUME NEW j \in 1 .. Len(q) - 1
        PROVE  (front \o back)[j] = IF j < i THEN q[j] ELSE q[j + 1]
    <2>1. (front \o back)[j] = IF j <= Len(front) THEN front[j] ELSE back[j - Len(front)]
      BY <1>1, <1>2, <1>3, ConcatProperties
    <2>2. CASE j < i
      <3>1. j \in 1 .. i - 1 /\ j <= Len(front)
        BY <1>1, <1>2, <2>2
      <3> QED BY <1>2, <2>1, <2>2, <3>1
    <2>3. CASE ~(j < i)
      <3>1. j - Len(front) \in 1 .. Len(q) - i /\ i + (j - Len(front)) = j + 1
        BY <1>1, <1>2, <2>3
      <3>2. back[j - Len(front)] = q[i + (j - Len(front))]
        BY <1>3, <3>1
      <3>3. ~(j <= Len(front))
        BY <1>1, <1>2, <2>3
      <3> QED BY <2>1, <2>3, <3>1, <3>2, <3>3
    <2> QED BY <2>2, <2>3
  <1> DEFINE both == front \o back
  <1>7. both \in Seq(S) /\ Len(both) = Len(q) - 1 /\ RemoveAt(q, i) = both
    BY <1>4, <1>5
  <1>8. \A j \in 1 .. Len(q) - 1 : both[j] = IF j < i THEN q[j] ELSE q[j + 1]
    BY <1>6
  <1> HIDE DEF both
  <1>9. DOMAIN both = 1 .. Len(q) - 1
    BY <1>7
  <1> QED BY <1>7, <1>8, <1>9

\* No two of those who are left are the same, and the one that left is not among them.
LEMMA RemovalKeepsDistinct ==
    ASSUME NEW S, NEW q \in Seq(S), NEW i \in DOMAIN q,
           \A j, m \in DOMAIN q : q[j] = q[m] => j = m,
           NEW p, p = RemoveAt(q, i)
    PROVE  /\ p \in Seq(S)
           /\ \A j \in DOMAIN p : \E m \in DOMAIN q : m # i /\ p[j] = q[m]
           /\ \A j, m \in DOMAIN p : p[j] = p[m] => j = m
  <1>1. /\ p \in Seq(S) /\ DOMAIN p = 1 .. Len(q) - 1
        /\ \A j \in 1 .. Len(q) - 1 : p[j] = IF j < i THEN q[j] ELSE q[j + 1]
    BY Removal
  <1>2. i \in Nat /\ Len(q) \in Nat /\ DOMAIN q = 1 .. Len(q)
    OBVIOUS
  <1> DEFINE from(j) == IF j < i THEN j ELSE j + 1
  <1>3. \A j \in DOMAIN p : from(j) \in DOMAIN q /\ from(j) # i /\ p[j] = q[from(j)]
    BY <1>1, <1>2
  <1>4. \A j, m \in DOMAIN p : from(j) = from(m) => j = m
    BY <1>1, <1>2
  <1> HIDE DEF from
  <1> QED BY <1>1, <1>3, <1>4

\* Whoever waits has called, once; whoever has the lock has called for a provider that is
\* missing, and does not wait.
LockInv ==
    /\ \A i \in DOMAIN queue : wants[queue[i]] \in Kinds
    /\ \A i, j \in DOMAIN queue : queue[i] = queue[j] => i = j
    /\ holder # Nobody =>
          /\ wants[holder] \in Kinds \ resident
          /\ \A i \in DOMAIN queue : queue[i] # holder

RuntimeInv == RuntimeTypeOK /\ LockInv

-----------------------------------------------------------------------------
(* One load at a time, of what is missing.                                 *)

\* At first the lock is free and nobody waits.
LEMMA RuntimeStarts == RuntimeInit => RuntimeInv
  <1> SUFFICES ASSUME RuntimeInit PROVE RuntimeInv
    OBVIOUS
  <1>1. RuntimeTypeOK
    BY DEF RuntimeInit, RuntimeTypeOK
  <1>2. LockInv
    BY DEF RuntimeInit, LockInv
  <1> QED BY <1>1, <1>2 DEF RuntimeInv

\* Every step of a task or a loader thread keeps the invariant.
LEMMA RuntimeSteps == RuntimeInv /\ [RuntimeNext]_runtimeVars => RuntimeInv'
  <1> SUFFICES ASSUME RuntimeInv, [RuntimeNext]_runtimeVars PROVE RuntimeInv'
    OBVIOUS
  <1> USE RuntimeConstants DEF RuntimeInv, RuntimeTypeOK, LockInv
  <1>1. ASSUME NEW c \in Callers, NEW k \in Kinds, CallAtOnce(c, k)
        PROVE  RuntimeInv'
    BY <1>1 DEF CallAtOnce, Inside, Missing
  <1>2. ASSUME NEW c \in Callers, NEW k \in Kinds, CallWaits(c, k)
        PROVE  RuntimeInv'
    <2>1. \A i \in DOMAIN queue : queue[i] # c
      BY <1>2 DEF CallWaits
    <2>2. /\ queue' \in Seq(Callers) /\ DOMAIN queue' = 1 .. Len(queue) + 1
          /\ \A i \in DOMAIN queue : queue'[i] = queue[i]
          /\ queue'[Len(queue) + 1] = c
      BY <1>2 DEF CallWaits
    <2>3. holder # Nobody => holder # c
      BY <1>2 DEF CallWaits
    <2> QED BY <1>2, <2>1, <2>2, <2>3 DEF CallWaits
  <1>3. ASSUME NEW c \in Callers, Enter(c)
        PROVE  RuntimeInv'
    <2>1. /\ queue' \in Seq(Callers) /\ DOMAIN queue' = 1 .. Len(queue) - 1
          /\ \A i \in DOMAIN queue' : queue'[i] = queue[i + 1] /\ i + 1 \in DOMAIN queue
          /\ c = queue[1] /\ 1 \in DOMAIN queue
      BY <1>3 DEF Enter
    <2>2. \A i \in DOMAIN queue' : queue'[i] # c
      BY <2>1
    <2>3. CASE Missing(wants[c])
      BY <1>3, <2>1, <2>2, <2>3 DEF Enter, Inside, Missing
    <2>4. CASE ~Missing(wants[c])
      BY <1>3, <2>1, <2>2, <2>4 DEF Enter, Inside, Missing
    <2> QED BY <2>3, <2>4
  <1>4. ASSUME NEW c \in Callers, Loaded(c)
        PROVE  RuntimeInv'
    BY <1>4 DEF Loaded
  <1>5. ASSUME NEW c \in Callers, LoadFails(c)
        PROVE  RuntimeInv'
    BY <1>5 DEF LoadFails, Unlocked
  <1>6. ASSUME NEW c \in Callers, CancelLoad(c)
        PROVE  RuntimeInv'
    BY <1>6 DEF CancelLoad, Unlocked
  <1>7. ASSUME NEW c \in Callers, CancelWait(c)
        PROVE  RuntimeInv'
    <2>1. PICK i \in DOMAIN queue : queue[i] = c /\ queue' = RemoveAt(queue, i)
      BY <1>7 DEF CancelWait
    <2>2. queue \in Seq(Callers) /\ \A j, m \in DOMAIN queue : queue[j] = queue[m] => j = m
      OBVIOUS
    <2>3. /\ queue' \in Seq(Callers)
          /\ \A j \in DOMAIN queue' : \E m \in DOMAIN queue : m # i /\ queue'[j] = queue[m]
          /\ \A j, m \in DOMAIN queue' : queue'[j] = queue'[m] => j = m
      <3> HIDE DEF RuntimeInv, RuntimeTypeOK, LockInv
      <3> QED BY <2>1, <2>2, RemovalKeepsDistinct
    <2>4. /\ wants' = [wants EXCEPT ![c] = NoKind]
          /\ UNCHANGED <<resident, holder, stray>>
      BY <1>7 DEF CancelWait
    <2>5. LockInv'
      BY <2>1, <2>2, <2>3, <2>4
    <2>6. RuntimeTypeOK'
      BY <2>3, <2>4
    <2> QED BY <2>5, <2>6
  <1>8. ASSUME NEW k \in Kinds, StrayEnds(k)
        PROVE  RuntimeInv'
    BY <1>8 DEF StrayEnds
  <1>9. CASE UNCHANGED runtimeVars
    BY <1>9 DEF runtimeVars
  <1> QED
    BY <1>1, <1>2, <1>3, <1>4, <1>5, <1>6, <1>7, <1>8, <1>9 DEF RuntimeNext, Caller

\* Type correctness of the lock, its queue and the providers.
THEOREM RuntimeTypes == RuntimeSpec => []RuntimeTypeOK
  <1>1. RuntimeInv => RuntimeTypeOK
    BY DEF RuntimeInv
  <1>2. RuntimeSpec => RuntimeSafety
    BY DEF RuntimeSpec, RuntimeSafety
  <1> QED BY <1>1, <1>2, RuntimeStarts, RuntimeSteps, PTL DEF RuntimeSafety

\* Whoever loads a provider loads one that is missing: whatever loads fail or are
\* cancelled, and however many called while it was missing, a kept one is not loaded again.
THEOREM LoadedOnce == RuntimeSpec => []ColdLoadOnce
  <1>1. RuntimeInv => ColdLoadOnce
    BY DEF RuntimeInv, LockInv, ColdLoadOnce
  <1>2. RuntimeSpec => RuntimeSafety
    BY DEF RuntimeSpec, RuntimeSafety
  <1> QED BY <1>1, <1>2, RuntimeStarts, RuntimeSteps, PTL DEF RuntimeSafety
=============================================================================
