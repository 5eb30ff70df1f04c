------------------------------ MODULE ScanProofs ------------------------------
(***************************************************************************)
(* Proofs about Scan, for every set of keys and patterns: matchGlob finds  *)
(* what a pattern means, a paged scan returns each key once, and the pages *)
(* of the contract fake are those of the store.                            *)
(***************************************************************************)
EXTENDS ApiProofs, WellFoundedInduction

\* The client has been sent every steady key up to its cursor, which is the last key it
\* was sent.
ScanInv ==
  /\ scan \in [pc : {"paging", "done"}, pattern : Pattern, count : Count,
               cursor : Key \cup {<<>>}, got : Seq(Key)]
  /\ steady \subseteq Key
  /\ Ascending(scan.got)
  /\ \A i \in DOMAIN scan.got : Matches(scan.pattern, scan.got[i])
  /\ scan.pc = "paging" =>
       /\ steady \subseteq LiveKeys(data, now)
       /\ IF scan.got = <<>> THEN scan.cursor = <<>> ELSE scan.cursor = scan.got[Len(scan.got)]
       /\ \A k \in steady : ~After(scan.cursor, k) /\ Matches(scan.pattern, k) => k \in Range(scan.got)
  /\ scan.pc = "done" =>
       \A k \in steady : Matches(scan.pattern, k) => k \in Range(scan.got)

\* Of the numbers at which a claim fails there is a least one.
LEMMA LeastFailure ==
  ASSUME NEW S, S \subseteq Nat, S # {}
  PROVE  \E x \in S : \A y \in S : x <= y
<1> DEFINE R == {ss \in Nat \X Nat : ss[1] < ss[2]}
<1>1. IsWellFoundedOn(R, Nat)
  BY Zenon, NatLessThanWellFounded DEF OpToRel
<1>2. PICK x \in S : \A y \in S : ~(<<y, x>> \in R)
  <2> HIDE DEF R
  <2> QED BY Zenon, <1>1, WFMin
<1>3. \A y \in S : ~(y < x)
  BY Zenon, <1>2
<1>4. \A y \in S : x <= y
  BY <1>3
<1> QED
  BY Zenon, <1>4

\* What holds at 0 and is passed on from each number to the next holds up to n.
LEMMA StepByStep ==
  ASSUME NEW n \in Nat, NEW T, 0 \in T, \A i \in 1..n : i - 1 \in T => i \in T
  PROVE  0..n \subseteq T
<1> SUFFICES ASSUME ~(0..n \subseteq T) PROVE FALSE
  OBVIOUS
<1> DEFINE Bad == {i \in 0..n : i \notin T}
<1>1. Bad \subseteq Nat /\ Bad # {}
  OBVIOUS
<1>2. PICK i \in Bad : \A j \in Bad : i <= j
  <2> HIDE DEF Bad
  <2> QED
    BY Zenon, <1>1, LeastFailure
<1>3. i \in 1..n /\ i - 1 \in 0..n /\ ~(i <= i - 1) /\ i \notin T
  BY <1>2
<1>4. i - 1 \notin Bad
  BY Zenon, <1>2, <1>3
<1> QED
  BY Zenon, <1>3, <1>4


(***************************************************************************)
(* Patterns                                                                *)
(***************************************************************************)

Laid(pattern, text, start, i) ==
  IF pattern[i] = Star THEN start[i] <= start[i + 1]
  ELSE start[i + 1] = start[i] + 1 /\ text[start[i]] = pattern[i]

\* What Matches says of the rest of the pattern from p on and the rest of the text from s on.
MatchFrom(pattern, text, p, s) ==
  \E start \in [p..(Len(pattern) + 1) -> 1..(Len(text) + 1)] :
    /\ start[p] = s /\ start[Len(pattern) + 1] = Len(text) + 1
    /\ \A i \in p..Len(pattern) : Laid(pattern, text, start, i)

\* A character that is not a star lies over its equal.
LEMMA MatchLiteral ==
  ASSUME NEW pattern, NEW text, Len(pattern) \in Nat, Len(text) \in Nat,
         NEW p \in 1..Len(pattern), NEW s \in 1..(Len(text) + 1), pattern[p] # Star
  PROVE  MatchFrom(pattern, text, p, s) <=>
           s <= Len(text) /\ text[s] = pattern[p] /\ MatchFrom(pattern, text, p + 1, s + 1)
<1> DEFINE L == Len(pattern)
           T == Len(text)
<1>0. L \in Nat /\ T \in Nat /\ p \in 1..L /\ s \in 1..(T + 1) /\ p + 1 # p
  OBVIOUS
<1> HIDE DEF L, T
<1>1. ASSUME MatchFrom(pattern, text, p, s)
      PROVE  s <= T /\ text[s] = pattern[p] /\ MatchFrom(pattern, text, p + 1, s + 1)
  <2>1. PICK start \in [p..(L + 1) -> 1..(T + 1)] :
          /\ start[p] = s /\ start[L + 1] = T + 1
          /\ \A i \in p..L : Laid(pattern, text, start, i)
    BY Zenon, <1>1 DEF MatchFrom, L, T
  <2>2. p \in p..L /\ p + 1 \in p..(L + 1)
    BY <1>0
  <2>3. Laid(pattern, text, start, p)
    BY Zenon, <2>1, <2>2
  <2>4. start[p + 1] = s + 1 /\ text[s] = pattern[p]
    BY Zenon, <2>1, <2>3 DEF Laid
  <2>5. s <= T
    BY <1>0, <2>1, <2>2, <2>4
  <2> DEFINE rest == [i \in (p + 1)..(L + 1) |-> start[i]]
  <2>6. rest \in [(p + 1)..(L + 1) -> 1..(T + 1)]
    BY <1>0, <2>1
  <2>7. p + 1 \in (p + 1)..(L + 1) /\ L + 1 \in (p + 1)..(L + 1)
    BY <1>0
  <2>8. rest[p + 1] = s + 1 /\ rest[L + 1] = T + 1
    BY Zenon, <2>1, <2>4, <2>7
  <2>9. ASSUME NEW i \in (p + 1)..L PROVE Laid(pattern, text, rest, i)
    <3>1. i \in p..L /\ i \in (p + 1)..(L + 1) /\ i + 1 \in (p + 1)..(L + 1)
      BY <1>0
    <3>2. rest[i] = start[i] /\ rest[i + 1] = start[i + 1]
      BY Zenon, <3>1
    <3>3. Laid(pattern, text, start, i)
      BY Zenon, <2>1, <3>1
    <3> QED
      BY Zenon, <3>2, <3>3 DEF Laid
  <2> HIDE DEF rest
  <2>10. MatchFrom(pattern, text, p + 1, s + 1)
    BY Zenon, <2>6, <2>8, <2>9 DEF MatchFrom, L, T
  <2> QED
    BY Zenon, <2>4, <2>5, <2>10
<1>2. ASSUME s <= T, text[s] = pattern[p], MatchFrom(pattern, text, p + 1, s + 1)
      PROVE  MatchFrom(pattern, text, p, s)
  <2>1. PICK rest \in [(p + 1)..(L + 1) -> 1..(T + 1)] :
          /\ rest[p + 1] = s + 1 /\ rest[L + 1] = T + 1
          /\ \A i \in (p + 1)..L : Laid(pattern, text, rest, i)
    BY Zenon, <1>2 DEF MatchFrom, L, T
  <2> DEFINE start == [i \in p..(L + 1) |-> IF i = p THEN s ELSE rest[i]]
  <2>2. start \in [p..(L + 1) -> 1..(T + 1)]
    BY <1>0, <2>1
  <2>3. p \in p..(L + 1) /\ L + 1 \in p..(L + 1) /\ L + 1 # p /\ p + 1 \in p..(L + 1)
    BY <1>0
  <2>4. start[p] = s /\ start[L + 1] = T + 1 /\ start[p + 1] = s + 1
    BY Zenon, <1>0, <2>1, <2>3
  <2>5. ASSUME NEW i \in p..L PROVE Laid(pattern, text, start, i)
    <3>1. CASE i = p
      BY Zenon, <1>2, <2>4, <3>1 DEF Laid
    <3>2. CASE i # p
      <4>1. i \in (p + 1)..L /\ i \in p..(L + 1) /\ i + 1 \in p..(L + 1) /\ i + 1 # p
        BY <1>0, <3>2
      <4>2. start[i] = rest[i] /\ start[i + 1] = rest[i + 1]
        BY Zenon, <3>2, <4>1
      <4>3. Laid(pattern, text, rest, i)
        BY Zenon, <2>1, <4>1
      <4> QED
        BY Zenon, <4>2, <4>3 DEF Laid
    <3> QED
      BY Zenon, <3>1, <3>2
  <2> HIDE DEF start
  <2> QED
    BY Zenon, <2>2, <2>4, <2>5 DEF MatchFrom, L, T
<1> QED
  BY Zenon, <1>1, <1>2 DEF L, T

\* A star lies over any stretch of the text.
LEMMA MatchStar ==
  ASSUME NEW pattern, NEW text, Len(pattern) \in Nat, Len(text) \in Nat,
         NEW p \in 1..Len(pattern), NEW s \in 1..(Len(text) + 1), pattern[p] = Star
  PROVE  MatchFrom(pattern, text, p, s) <=>
           \E x \in s..(Len(text) + 1) : MatchFrom(pattern, text, p + 1, x)
<1> DEFINE L == Len(pattern)
           T == Len(text)
<1>0. L \in Nat /\ T \in Nat /\ p \in 1..L /\ s \in 1..(T + 1) /\ p + 1 # p
  OBVIOUS
<1> HIDE DEF L, T
<1>1. ASSUME MatchFrom(pattern, text, p, s)
      PROVE  \E x \in s..(T + 1) : MatchFrom(pattern, text, p + 1, x)
  <2>1. PICK start \in [p..(L + 1) -> 1..(T + 1)] :
          /\ start[p] = s /\ start[L + 1] = T + 1
          /\ \A i \in p..L : Laid(pattern, text, start, i)
    BY Zenon, <1>1 DEF MatchFrom, L, T
  <2>2. p \in p..L /\ p + 1 \in p..(L + 1)
    BY <1>0
  <2>3. Laid(pattern, text, start, p)
    BY Zenon, <2>1, <2>2
  <2>4. s <= start[p + 1]
    BY Zenon, <2>1, <2>3 DEF Laid
  <2>5. start[p + 1] \in 1..(T + 1)
    BY Zenon, <2>1, <2>2
  <2>6. start[p + 1] \in s..(T + 1)
    BY <1>0, <2>4, <2>5
  <2> DEFINE rest == [i \in (p + 1)..(L + 1) |-> start[i]]
  <2>7. rest \in [(p + 1)..(L + 1) -> 1..(T + 1)]
    BY <1>0, <2>1
  <2>8. p + 1 \in (p + 1)..(L + 1) /\ L + 1 \in (p + 1)..(L + 1)
    BY <1>0
  <2>9. rest[p + 1] = start[p + 1] /\ rest[L + 1] = T + 1
    BY Zenon, <2>1, <2>8
  <2>10. ASSUME NEW i \in (p + 1)..L PROVE Laid(pattern, text, rest, i)
    <3>1. i \in p..L /\ i \in (p + 1)..(L + 1) /\ i + 1 \in (p + 1)..(L + 1)
      BY <1>0
    <3>2. rest[i] = start[i] /\ rest[i + 1] = start[i + 1]
      BY Zenon, <3>1
    <3>3. Laid(pattern, text, start, i)
      BY Zenon, <2>1, <3>1
    <3> QED
      BY Zenon, <3>2, <3>3 DEF Laid
  <2> HIDE DEF rest
  <2>11. MatchFrom(pattern, text, p + 1, start[p + 1])
    BY Zenon, <2>7, <2>9, <2>10 DEF MatchFrom, L, T
  <2> QED
    BY Zenon, <2>6, <2>11
<1>2. ASSUME NEW x \in s..(T + 1), MatchFrom(pattern, text, p + 1, x)
      PROVE  MatchFrom(pattern, text, p, s)
  <2>1. PICK rest \in [(p + 1)..(L + 1) -> 1..(T + 1)] :
          /\ rest[p + 1] = x /\ rest[L + 1] = T + 1
          /\ \A i \in (p + 1)..L : Laid(pattern, text, rest, i)
    BY Zenon, <1>2 DEF MatchFrom, L, T
  <2> DEFINE start == [i \in p..(L + 1) |-> IF i = p THEN s ELSE rest[i]]
  <2>2. start \in [p..(L + 1) -> 1..(T + 1)]
    BY SMTT(40), <1>0, <2>1
  <2>3. p \in p..(L + 1) /\ L + 1 \in p..(L + 1) /\ L + 1 # p /\ p + 1 \in p..(L + 1) /\ s <= x
    BY <1>0
  <2>4. start[p] = s /\ start[L + 1] = T + 1 /\ start[p + 1] = x
    BY Zenon, <1>0, <2>1, <2>3
  <2>5. ASSUME NEW i \in p..L PROVE Laid(pattern, text, start, i)
    <3>1. CASE i = p
      BY Zenon, <2>3, <2>4, <3>1 DEF Laid
    <3>2. CASE i # p
      <4>1. i \in (p + 1)..L /\ i \in p..(L + 1) /\ i + 1 \in p..(L + 1) /\ i + 1 # p
        BY <1>0, <3>2
      <4>2. start[i] = rest[i] /\ start[i + 1] = rest[i + 1]
        BY Zenon, <3>2, <4>1
      <4>3. Laid(pattern, text, rest, i)
        BY Zenon, <2>1, <4>1
      <4> QED
        BY Zenon, <4>2, <4>3 DEF Laid
    <3> QED
      BY Zenon, <3>1, <3>2
  <2> HIDE DEF start
  <2> QED
    BY Zenon, <2>2, <2>4, <2>5 DEF MatchFrom, L, T
<1> QED
  BY Zenon, <1>1, <1>2 DEF L, T

\* The end of the pattern lies over the end of the text.
LEMMA MatchEnd ==
  ASSUME NEW pattern, NEW text, Len(pattern) \in Nat, Len(text) \in Nat, NEW s \in 1..(Len(text) + 1)
  PROVE  MatchFrom(pattern, text, Len(pattern) + 1, s) <=> s = Len(text) + 1
<1> DEFINE L == Len(pattern)
           T == Len(text)
<1>0. L \in Nat /\ T \in Nat /\ s \in 1..(T + 1) /\ L + 1 \in (L + 1)..(L + 1) /\ (L + 1)..L = {}
  OBVIOUS
<1> HIDE DEF L, T
<1>1. ASSUME MatchFrom(pattern, text, L + 1, s) PROVE s = T + 1
  BY Zenon, <1>1 DEF MatchFrom, L, T
<1>2. ASSUME s = T + 1 PROVE MatchFrom(pattern, text, L + 1, s)
  <2> DEFINE start == [i \in (L + 1)..(L + 1) |-> T + 1]
  <2>1. start \in [(L + 1)..(L + 1) -> 1..(T + 1)] /\ start[L + 1] = T + 1
    BY <1>0, <1>2
  <2> HIDE DEF start
  <2> QED
    BY Zenon, <1>0, <1>2, <2>1 DEF MatchFrom, L, T
<1> QED
  BY Zenon, <1>1, <1>2 DEF L, T

\* How far the loop has come: mark never falls back, and p only when mark rises.
Turns(pattern, q) == q.mark * (Len(pattern) + 2) + q.p

\* A product grows with its factor.
LEMMA Products ==
  ASSUME NEW x \in Nat, NEW y \in Nat, NEW k \in Nat, x <= y
  PROVE  x * k <= y * k /\ x * k \in Nat /\ y * k \in Nat
<1>1. PICK d \in Nat : y = x + d
  <2>1. y - x \in Nat /\ y = x + (y - x)
    OBVIOUS
  <2> QED
    BY Zenon, <2>1
<1>2. y * k = x * k + d * k
  BY <1>1
<1>3. x * k \in Nat /\ d * k \in Nat
  BY <1>1
<1> QED
  BY <1>2, <1>3

\* A turn of the loop stays within the pattern and the text, and takes it further.
LEMMA GlobProgress ==
  ASSUME NEW pattern, NEW text, Len(pattern) \in Nat, Len(text) \in Nat,
         NEW q \in GlobPosition(pattern, text), q.s <= Len(text), ~GlobStuck(pattern, text, q)
  PROVE  /\ GlobNext(pattern, text, q) \in GlobPosition(pattern, text)
         /\ Turns(pattern, q) < Turns(pattern, GlobNext(pattern, text, q))
<1> DEFINE L == Len(pattern)
           T == Len(text)
           n == GlobNext(pattern, text, q)
<1>0. /\ L \in Nat /\ T \in Nat /\ q.p \in 1..(L + 1) /\ q.s \in 1..T /\ q.star \in 0..L
      /\ q.mark \in 0..(T + 1) /\ q.mark <= q.s
      /\ q = [p |-> q.p, s |-> q.s, star |-> q.star, mark |-> q.mark]
  BY DEF GlobPosition
<1>1. CASE Literal(pattern, text, q)
  <2>1. n.p = q.p + 1 /\ n.mark = q.mark /\ n.s = q.s + 1 /\ n.star = q.star
        /\ n = [p |-> q.p + 1, s |-> q.s + 1, star |-> q.star, mark |-> q.mark]
    BY Zenon, <1>0, <1>1 DEF GlobNext
  <2>2. q.p <= L
    BY Zenon, <1>1 DEF Literal
  <2>3. n \in GlobPosition(pattern, text)
    BY <1>0, <2>1, <2>2 DEF GlobPosition
  <2> DEFINE a == q.mark * (L + 2)
  <2>4. q.mark \in Nat /\ L + 2 \in Nat /\ q.mark <= q.mark
    BY <1>0
  <2>5. a \in Nat
    BY Zenon, <2>4, Products
  <2> HIDE DEF a
  <2>6. a + q.p < a + n.p
    BY SMTT(40), <1>0, <2>1, <2>5
  <2> QED
    BY Zenon, <2>1, <2>3, <2>6 DEF Turns, a
<1>2. CASE ~Literal(pattern, text, q) /\ AtStar(pattern, q)
  <2>1. n.p = q.p + 1 /\ n.mark = q.s /\ n.s = q.s /\ n.star = q.p
        /\ n = [p |-> q.p + 1, s |-> q.s, star |-> q.p, mark |-> q.s]
    BY Zenon, <1>0, <1>2 DEF GlobNext
  <2>2. q.p <= L
    BY Zenon, <1>2 DEF AtStar
  <2>3. n \in GlobPosition(pattern, text)
    BY <1>0, <2>1, <2>2 DEF GlobPosition
  <2> DEFINE a == q.mark * (L + 2)
             b == q.s * (L + 2)
  <2>4. q.mark \in Nat /\ q.s \in Nat /\ L + 2 \in Nat
    BY <1>0
  <2>5. a <= b /\ a \in Nat /\ b \in Nat
    BY Zenon, <1>0, <2>4, Products
  <2> HIDE DEF a, b
  <2>6. a + q.p < b + n.p
    BY <1>0, <2>1, <2>5
  <2> QED
    BY Zenon, <2>1, <2>3, <2>6 DEF Turns, a, b
<1>3. CASE ~Literal(pattern, text, q) /\ ~AtStar(pattern, q)
  <2>1. n.p = q.star + 1 /\ n.mark = q.mark + 1 /\ n.s = q.mark + 1 /\ n.star = q.star
        /\ n = [p |-> q.star + 1, s |-> q.mark + 1, star |-> q.star, mark |-> q.mark + 1]
    BY Zenon, <1>0, <1>3 DEF GlobNext
  <2>3. n \in GlobPosition(pattern, text)
    BY SMTT(40), <1>0, <2>1 DEF GlobPosition
  <2> DEFINE a == q.mark * (L + 2)
             b == (q.mark + 1) * (L + 2)
  <2>4. a \in Nat
    <3>1. q.mark \in Nat /\ L + 2 \in Nat /\ q.mark <= q.mark
      BY <1>0
    <3> QED
      BY Zenon, <3>1, Products
  <2>5. b = a + (L + 2)
    BY <1>0
  <2> HIDE DEF a, b
  <2>6. a + q.p < b + n.p
    BY SMTT(40), <1>0, <2>1, <2>4, <2>5
  <2> QED
    BY Zenon, <2>1, <2>3, <2>6 DEF Turns, a, b
<1> QED
  BY Zenon, <1>1, <1>2, <1>3

\* No position is more turns away than this.
MaxTurns(pattern, text) == (Len(text) + 1) * (Len(pattern) + 2) + Len(pattern) + 1

\* The turns of a position are bounded.
LEMMA TurnsBounded ==
  ASSUME NEW pattern, NEW text, Len(pattern) \in Nat, Len(text) \in Nat,
         NEW q \in GlobPosition(pattern, text)
  PROVE  Turns(pattern, q) \in 0..MaxTurns(pattern, text) /\ MaxTurns(pattern, text) \in Nat
<1> DEFINE L == Len(pattern)
           T == Len(text)
<1>0. L \in Nat /\ T \in Nat /\ q.p \in 1..(L + 1) /\ q.mark \in 0..(T + 1)
  BY DEF GlobPosition
<1> DEFINE a == q.mark * (L + 2)
           b == (T + 1) * (L + 2)
<1>1. q.mark \in Nat /\ T + 1 \in Nat /\ L + 2 \in Nat /\ q.mark <= T + 1
  BY <1>0
<1>2. a <= b /\ a \in Nat /\ b \in Nat
  BY Zenon, <1>1, Products
<1> HIDE DEF a, b
<1>3. a + q.p \in 0..(b + L + 1) /\ b + L + 1 \in Nat
  BY SMTT(40), <1>0, <1>2
<1> QED
  BY Zenon, <1>3 DEF Turns, MaxTurns, a, b

GlobTurn(pattern, text, f, q) ==
  IF q.s > Len(text) THEN \A i \in q.p..Len(pattern) : pattern[i] = Star
  ELSE ~GlobStuck(pattern, text, q) /\ f[GlobNext(pattern, text, q)]

IsGlob(f, pattern, text) ==
  f = [q \in GlobPosition(pattern, text) |-> GlobTurn(pattern, text, f, q)]

\* A turn only depends on where the next one begins.
LEMMA TurnsAgree ==
  ASSUME NEW pattern, NEW text, NEW f, NEW g, NEW q,
         ~(q.s > Len(text)) /\ ~GlobStuck(pattern, text, q)
           => f[GlobNext(pattern, text, q)] = g[GlobNext(pattern, text, q)]
  PROVE  GlobTurn(pattern, text, f, q) = GlobTurn(pattern, text, g, q)
<1>1. CASE q.s > Len(text)
  BY Zenon, <1>1 DEF GlobTurn
<1>2. CASE ~(q.s > Len(text)) /\ GlobStuck(pattern, text, q)
  BY Zenon, <1>2 DEF GlobTurn
<1>3. CASE ~(q.s > Len(text)) /\ ~GlobStuck(pattern, text, q)
  BY Zenon, <1>3 DEF GlobTurn
<1> QED
  BY Zenon, <1>1, <1>2, <1>3

\* The loop comes to an end from every position.
LEMMA GlobExists ==
  ASSUME NEW pattern, NEW text, Len(pattern) \in Nat, Len(text) \in Nat
  PROVE  \E f : IsGlob(f, pattern, text)
<1> DEFINE G == GlobPosition(pattern, text)
           M == MaxTurns(pattern, text)
           Left(q) == M - Turns(pattern, q)
           Turn(f, q) == GlobTurn(pattern, text, f, q)
           Part(f, m) == \A q \in G : Left(q) < m => f[q] = Turn(f, q)
           S == {m \in Nat : \E f : Part(f, m)}
<1>0. \A q \in G : Turns(pattern, q) \in 0..M /\ M \in Nat
  BY Zenon, TurnsBounded
<1>1. \A q \in G : Left(q) \in 0..M /\ M \in Nat
  BY <1>0
<1>2. \A q \in G : ~(q.s > Len(text)) /\ ~GlobStuck(pattern, text, q) =>
        GlobNext(pattern, text, q) \in G /\ Left(GlobNext(pattern, text, q)) < Left(q)
  <2> SUFFICES ASSUME NEW q \in G, ~(q.s > Len(text)), ~GlobStuck(pattern, text, q)
               PROVE  GlobNext(pattern, text, q) \in G /\ Left(GlobNext(pattern, text, q)) < Left(q)
    BY Zenon
  <2>1. q.s <= Len(text)
    BY DEF GlobPosition
  <2> DEFINE n == GlobNext(pattern, text, q)
  <2>2. n \in G /\ Turns(pattern, q) < Turns(pattern, n)
    BY Zenon, <2>1, GlobProgress
  <2>3. Turns(pattern, q) \in 0..M /\ Turns(pattern, n) \in 0..M /\ M \in Nat
    BY Zenon, <1>0, <2>2
  <2> HIDE DEF n, M
  <2>4. Left(n) < Left(q)
    BY <2>2, <2>3
  <2> QED
    BY Zenon, <2>2, <2>4 DEF n, M
<1> HIDE DEF G, M, Left
<1>3. 0 \in S
  <2>1. \A q \in G : ~(Left(q) < 0)
    BY <1>1
  <2>2. Part({}, 0)
    BY Zenon, <2>1
  <2>3. \E f : Part(f, 0)
    BY Zenon, <2>2
  <2> QED
    BY Zenon, <2>3
<1>4. ASSUME NEW m \in Nat, m \in S PROVE m + 1 \in S
  <2>1. PICK f : Part(f, m)
    BY Zenon, <1>4
  <2> DEFINE g == [q \in G |-> IF Left(q) < m THEN f[q] ELSE Turn(f, q)]
  <2>2. ASSUME NEW q \in G PROVE g[q] = Turn(f, q) \/ ~(Left(q) < m + 1)
    BY Zenon, <2>1
  <2>3. ASSUME NEW q \in G, Left(q) < m + 1 PROVE g[q] = Turn(g, q)
    <3>1. ASSUME ~(q.s > Len(text)), ~GlobStuck(pattern, text, q)
          PROVE  f[GlobNext(pattern, text, q)] = g[GlobNext(pattern, text, q)]
      <4> DEFINE n == GlobNext(pattern, text, q)
      <4>1. n \in G /\ Left(n) < Left(q)
        BY Zenon, <1>2, <3>1
      <4>2. Left(n) \in Int /\ Left(q) \in Int
        <5>1. Left(n) \in 0..M /\ Left(q) \in 0..M
          BY Zenon, <1>1, <4>1
        <5> QED
          BY <5>1, <1>1
      <4> HIDE DEF n
      <4>3. Left(n) < m
        BY <2>3, <4>1, <4>2
      <4> QED
        BY Zenon, <4>1, <4>3 DEF n
    <3>2. Turn(f, q) = Turn(g, q)
      <4> HIDE DEF g
      <4> QED
        BY Zenon, <3>1, TurnsAgree
    <3> QED
      BY Zenon, <2>2, <2>3, <3>2
  <2> HIDE DEF g
  <2>4. Part(g, m + 1)
    BY Zenon, <2>3
  <2>5. m + 1 \in Nat
    OBVIOUS
  <2> QED
    BY Zenon, <2>4, <2>5
<1> HIDE DEF S
<1>5. CASE G = {}
  <2>1. IsGlob([q \in {} |-> {}], pattern, text)
    BY Zenon, <1>5 DEF IsGlob, G
  <2> QED
    BY Zenon, <2>1
<1>6. CASE G # {}
  <2>1. M \in Nat
    BY Zenon, <1>1, <1>6
  <2>2. \A i \in 1..(M + 1) : i - 1 \in S => i \in S
    <3> SUFFICES ASSUME NEW i \in 1..(M + 1), i - 1 \in S PROVE i \in S
      BY Zenon
    <3>1. i - 1 \in Nat /\ (i - 1) + 1 = i
      BY <2>1
    <3>2. (i - 1) + 1 \in S
      BY Zenon, <1>4, <3>1
    <3> QED
      BY Zenon, <3>1, <3>2
  <2>3. M + 1 \in Nat /\ M + 1 \in 0..(M + 1)
    BY <2>1
  <2>4. 0..(M + 1) \subseteq S
    BY Zenon, <1>3, <2>2, <2>3, StepByStep
  <2>5. M + 1 \in S
    BY Zenon, <2>3, <2>4
  <2>6. PICK f : Part(f, M + 1)
    BY Zenon, <2>5 DEF S
  <2>7. \A q \in G : Left(q) < M + 1
    BY <1>1
  <2> DEFINE g == [q \in G |-> f[q]]
  <2>8. ASSUME NEW q \in G PROVE g[q] = Turn(g, q)
    <3>1. f[q] = Turn(f, q)
      BY Zenon, <2>6, <2>7
    <3>2. ~(q.s > Len(text)) /\ ~GlobStuck(pattern, text, q)
            => f[GlobNext(pattern, text, q)] = g[GlobNext(pattern, text, q)]
      BY Zenon, <1>2
    <3>3. Turn(f, q) = Turn(g, q)
      <4> HIDE DEF g
      <4> QED
        BY Zenon, <3>2, TurnsAgree
    <3> QED
      BY Zenon, <3>1, <3>3
  <2>9. g = [q \in G |-> g[q]]
    BY Zenon
  <2> HIDE DEF g
  <2>10. g = [q \in G |-> Turn(g, q)]
    BY Zenon, <2>8, <2>9
  <2> QED
    BY Zenon, <2>10 DEF IsGlob, G
<1> QED
  BY Zenon, <1>5, <1>6

\* The characters since the last star lie over those since mark, and would lie over any
\* others that the rest of the pattern after that star can be laid over.
GlobInv(pattern, text, q) ==
  q.star # 0 =>
    /\ q.star < q.p /\ q.s = q.mark + (q.p - q.star - 1)
    /\ \A m \in 1..(Len(text) + 1) : MatchFrom(pattern, text, q.star + 1, m) =>
         /\ m + (q.p - q.star - 1) \in 1..(Len(text) + 1)
         /\ MatchFrom(pattern, text, q.p, m + (q.p - q.star - 1))

\* The text can be matched from this position, or from one that the last star allows.
Meant(pattern, text, q) ==
  \/ MatchFrom(pattern, text, q.p, q.s)
  \/ /\ q.star # 0
     /\ \E m \in (q.mark + 1)..(Len(text) + 1) : MatchFrom(pattern, text, q.star + 1, m)

\* The fields of a position.
LEMMA Positions ==
  ASSUME NEW pattern, NEW text, NEW q \in GlobPosition(pattern, text)
  PROVE  /\ q.p \in 1..(Len(pattern) + 1) /\ q.s \in 1..(Len(text) + 1)
         /\ q.star \in 0..Len(pattern) /\ q.mark \in 0..(Len(text) + 1) /\ q.mark <= q.s
         /\ q = [p |-> q.p, s |-> q.s, star |-> q.star, mark |-> q.mark]
  BY DEF GlobPosition

\* Where the characters differ and there is no star, nothing can be matched from here.
LEMMA NoMatchHere ==
  ASSUME NEW pattern, NEW text, Len(pattern) \in Nat, Len(text) \in Nat,
         NEW q \in GlobPosition(pattern, text), q.s <= Len(text),
         ~Literal(pattern, text, q), ~AtStar(pattern, q)
  PROVE  ~MatchFrom(pattern, text, q.p, q.s)
<1>0. q.p \in 1..(Len(pattern) + 1) /\ q.s \in 1..(Len(text) + 1) /\ q.s # Len(text) + 1
  BY Positions
<1>1. CASE q.p = Len(pattern) + 1
  <2>1. MatchFrom(pattern, text, Len(pattern) + 1, q.s) <=> q.s = Len(text) + 1
    BY Zenon, <1>0, MatchEnd
  <2> QED
    BY Zenon, <1>0, <1>1, <2>1
<1>2. CASE q.p # Len(pattern) + 1
  <2>1. q.p \in 1..Len(pattern) /\ q.p <= Len(pattern)
    BY <1>0, <1>2
  <2>2. pattern[q.p] # Star /\ pattern[q.p] # text[q.s]
    BY Zenon, <2>1 DEF Literal, AtStar
  <2>3. \A y \in 1..(Len(text) + 1) :
          MatchFrom(pattern, text, q.p, y) <=>
            y <= Len(text) /\ text[y] = pattern[q.p] /\ MatchFrom(pattern, text, q.p + 1, y + 1)
    BY Zenon, <2>1, <2>2, MatchLiteral
  <2> QED
    BY Zenon, <1>0, <2>2, <2>3
<1> QED
  BY Zenon, <1>1, <1>2

\* Equal characters: the position moves on in both.
LEMMA LiteralKeeps ==
  ASSUME NEW pattern, NEW text, Len(pattern) \in Nat, Len(text) \in Nat,
         NEW q \in GlobPosition(pattern, text), q.s <= Len(text), text[q.s] # Star,
         GlobInv(pattern, text, q), Literal(pattern, text, q)
  PROVE  /\ GlobInv(pattern, text, GlobNext(pattern, text, q))
         /\ Meant(pattern, text, GlobNext(pattern, text, q)) <=> Meant(pattern, text, q)
<1> DEFINE n == GlobNext(pattern, text, q)
           L == Len(pattern)
           T == Len(text)
           P(x, y) == MatchFrom(pattern, text, x, y)
<1>0. /\ L \in Nat /\ T \in Nat /\ q.p \in 1..(L + 1) /\ q.s \in 1..(T + 1)
      /\ q.star \in 0..L /\ q.mark \in 0..(T + 1)
      /\ q = [p |-> q.p, s |-> q.s, star |-> q.star, mark |-> q.mark]
  BY Zenon, Positions
<1>1. n.p = q.p + 1 /\ n.s = q.s + 1 /\ n.star = q.star /\ n.mark = q.mark
  BY <1>0 DEF GlobNext
<1>2. q.p <= L /\ pattern[q.p] = text[q.s] /\ pattern[q.p] # Star
  BY Zenon DEF Literal
<1>3. q.p \in 1..L
  BY <1>0, <1>2
<1>4. \A y \in 1..(T + 1) : P(q.p, y) <=> y <= T /\ text[y] = pattern[q.p] /\ P(q.p + 1, y + 1)
  BY Zenon, <1>2, <1>3, MatchLiteral
<1>5. P(n.p, n.s) <=> P(q.p, q.s)
  BY Zenon, <1>0, <1>1, <1>2, <1>4
<1>6. Meant(pattern, text, n) <=> Meant(pattern, text, q)
  BY Zenon, <1>1, <1>5 DEF Meant
<1>7. ASSUME q.star # 0 PROVE GlobInv(pattern, text, n)
  <2> DEFINE d == q.p - q.star - 1
  <2>1. /\ q.star < q.p /\ q.s = q.mark + d
        /\ \A m \in 1..(T + 1) : P(q.star + 1, m) => m + d \in 1..(T + 1) /\ P(q.p, m + d)
    BY Zenon, <1>7 DEF GlobInv
  <2>2. n.p - n.star - 1 = d + 1 /\ n.star < n.p /\ d \in Nat
    BY SMTT(40), <1>0, <1>1, <2>1
  <2> HIDE DEF d, n, L, T, P
  <2>3. n.s = n.mark + (d + 1)
    BY <1>0, <1>1, <2>1, <2>2
  <2>4. ASSUME NEW m \in 1..(T + 1), P(q.star + 1, m)
        PROVE  m + (d + 1) \in 1..(T + 1) /\ P(n.p, m + (d + 1))
    <3>1. m + d \in 1..(T + 1) /\ P(q.p, m + d)
      BY Zenon, <2>1, <2>4
    <3>2. m + d <= T /\ P(q.p + 1, (m + d) + 1)
      BY Zenon, <1>4, <3>1
    <3>3. T \in Nat /\ d \in Nat /\ m + d <= T
      BY Zenon, <1>0, <2>2, <3>2
    <3>4. (m + d) + 1 = m + (d + 1) /\ m + (d + 1) \in 1..(T + 1)
      BY <3>3
    <3> QED
      BY Zenon, <1>1, <3>2, <3>4
  <2> QED
    BY Zenon, <1>1, <2>2, <2>3, <2>4 DEF GlobInv, T, P
<1>8. CASE q.star = 0
  BY Zenon, <1>1, <1>6, <1>8 DEF GlobInv
<1> QED
  BY Zenon, <1>6, <1>7, <1>8

\* A star is met: it can be laid over whatever an earlier star could have led to.
LEMMA StarKeeps ==
  ASSUME NEW pattern, NEW text, Len(pattern) \in Nat, Len(text) \in Nat,
         NEW q \in GlobPosition(pattern, text), q.s <= Len(text),
         GlobInv(pattern, text, q), ~Literal(pattern, text, q), AtStar(pattern, q)
  PROVE  /\ GlobInv(pattern, text, GlobNext(pattern, text, q))
         /\ Meant(pattern, text, GlobNext(pattern, text, q)) <=> Meant(pattern, text, q)
<1> DEFINE n == GlobNext(pattern, text, q)
           L == Len(pattern)
           T == Len(text)
           P(x, y) == MatchFrom(pattern, text, x, y)
<1>0. /\ L \in Nat /\ T \in Nat /\ q.p \in 1..(L + 1) /\ q.s \in 1..(T + 1)
      /\ q.star \in 0..L /\ q.mark \in 0..(T + 1)
      /\ q = [p |-> q.p, s |-> q.s, star |-> q.star, mark |-> q.mark]
  BY Zenon, Positions
<1>1. n.p = q.p + 1 /\ n.s = q.s /\ n.star = q.p /\ n.mark = q.s
  BY <1>0 DEF GlobNext
<1>2. q.p <= L /\ pattern[q.p] = Star
  BY Zenon DEF AtStar
<1>3. q.p \in 1..L /\ q.p # 0
  BY <1>0, <1>2
<1>4. \A y \in 1..(T + 1) : P(q.p, y) <=> \E x \in y..(T + 1) : P(q.p + 1, x)
  BY Zenon, <1>2, <1>3, MatchStar
<1> HIDE DEF n, L, T, P
<1>5. GlobInv(pattern, text, n)
  <2>1. n.p - n.star - 1 = 0 /\ n.star < n.p /\ n.s = n.mark + 0 /\ n.star + 1 = n.p
    BY SMTT(40), <1>0, <1>1
  <2>2. \A m \in 1..(T + 1) : m + 0 = m
    BY <1>0
  <2>3. \A m \in 1..(T + 1) : P(n.star + 1, m) => m + 0 \in 1..(T + 1) /\ P(n.p, m + 0)
    BY Zenon, <2>1, <2>2
  <2> QED
    BY Zenon, <2>1, <2>3 DEF GlobInv, T, P
<1>6. Meant(pattern, text, n) <=> P(q.p, q.s)
  <2>1. Meant(pattern, text, n) <=>
          P(q.p + 1, q.s) \/ \E m \in (q.s + 1)..(T + 1) : P(q.p + 1, m)
    BY Zenon, <1>1, <1>3 DEF Meant, T, P
  <2>2. \A m : m \in q.s..(T + 1) <=> (m = q.s \/ m \in (q.s + 1)..(T + 1))
    BY SMTT(40), <1>0
  <2> QED
    BY Zenon, <1>0, <1>4, <2>1, <2>2
<1>7. ASSUME q.star # 0, NEW m \in (q.mark + 1)..(T + 1), P(q.star + 1, m) PROVE P(q.p, q.s)
  <2> DEFINE d == q.p - q.star - 1
  <2>1. /\ q.star < q.p /\ q.s = q.mark + d
        /\ \A y \in 1..(T + 1) : P(q.star + 1, y) => y + d \in 1..(T + 1) /\ P(q.p, y + d)
    BY Zenon, <1>7 DEF GlobInv, T, P
  <2>2. d \in Nat /\ m \in 1..(T + 1) /\ q.mark + 1 <= m
    BY SMTT(40), <1>0, <2>1
  <2>3. m + d \in 1..(T + 1) /\ P(q.p, m + d)
    BY Zenon, <1>7, <2>1, <2>2
  <2>4. PICK x \in (m + d)..(T + 1) : P(q.p + 1, x)
    BY Zenon, <1>4, <2>3
  <2> HIDE DEF d
  <2>5. x \in q.s..(T + 1)
    BY SMTT(40), <1>0, <2>1, <2>2, <2>3
  <2> QED
    BY Zenon, <1>0, <1>4, <2>4, <2>5
<1>8. Meant(pattern, text, q) <=> P(q.p, q.s)
  BY Zenon, <1>7 DEF Meant, T, P
<1> QED
  BY Zenon, <1>5, <1>6, <1>8 DEF n

\* The last star takes one character more.
LEMMA RetryKeeps ==
  ASSUME NEW pattern, NEW text, Len(pattern) \in Nat, Len(text) \in Nat,
         NEW q \in GlobPosition(pattern, text), q.s <= Len(text), q.star # 0,
         GlobInv(pattern, text, q), ~Literal(pattern, text, q), ~AtStar(pattern, q)
  PROVE  /\ GlobInv(pattern, text, GlobNext(pattern, text, q))
         /\ Meant(pattern, text, GlobNext(pattern, text, q)) <=> Meant(pattern, text, q)
<1> DEFINE n == GlobNext(pattern, text, q)
           T == Len(text)
           P(x, y) == MatchFrom(pattern, text, x, y)
<1>0. /\ T \in Nat /\ q.p \in 1..(Len(pattern) + 1) /\ q.s \in 1..(T + 1)
      /\ q.star \in 0..Len(pattern) /\ q.mark \in 0..(T + 1) /\ q.mark <= q.s /\ q.s <= T
      /\ q = [p |-> q.p, s |-> q.s, star |-> q.star, mark |-> q.mark]
  BY Zenon, Positions
<1>1. n.p = q.star + 1 /\ n.s = q.mark + 1 /\ n.star = q.star /\ n.mark = q.mark + 1
  BY <1>0 DEF GlobNext
<1>2. ~P(q.p, q.s)
  BY Zenon, NoMatchHere
<1> HIDE DEF n, T, P
<1>3. GlobInv(pattern, text, n)
  <2>1. n.p - n.star - 1 = 0 /\ n.star < n.p /\ n.s = n.mark + 0 /\ n.star + 1 = n.p
    BY <1>0, <1>1
  <2>2. \A m \in 1..(T + 1) : m + 0 = m
    BY <1>0
  <2>3. \A m \in 1..(T + 1) : P(n.star + 1, m) => m + 0 \in 1..(T + 1) /\ P(n.p, m + 0)
    BY Zenon, <2>1, <2>2
  <2> QED
    BY Zenon, <2>1, <2>3 DEF GlobInv, T, P
<1>4. Meant(pattern, text, q) <=> \E m \in (q.mark + 1)..(T + 1) : P(q.star + 1, m)
  BY Zenon, <1>2 DEF Meant, T, P
<1>5. Meant(pattern, text, n) <=>
        P(q.star + 1, q.mark + 1) \/ \E m \in (q.mark + 1 + 1)..(T + 1) : P(q.star + 1, m)
  BY Zenon, <1>1 DEF Meant, T, P
<1>6. \A m : m \in (q.mark + 1)..(T + 1) <=> (m = q.mark + 1 \/ m \in (q.mark + 1 + 1)..(T + 1))
  BY SMTT(40), <1>0
<1> QED
  BY Zenon, <1>3, <1>4, <1>5, <1>6 DEF n

\* At the end of the text the rest of the pattern must be stars.
LEMMA StarsAtEnd ==
  ASSUME NEW pattern, NEW text, Len(pattern) \in Nat, Len(text) \in Nat, NEW p \in 1..(Len(pattern) + 1)
  PROVE  MatchFrom(pattern, text, p, Len(text) + 1) <=> \A i \in p..Len(pattern) : pattern[i] = Star
<1> DEFINE L == Len(pattern)
           e == Len(text) + 1
           P(x) == MatchFrom(pattern, text, x, e)
           Stars(x) == \A i \in x..L : pattern[i] = Star
           S == {k \in 0..L : P(L + 1 - k) <=> Stars(L + 1 - k)}
<1>0. L \in Nat /\ e \in 1..(Len(text) + 1) /\ ~(e <= Len(text)) /\ e..(Len(text) + 1) = {e}
      /\ (L + 1)..L = {} /\ L + 1 - 0 = L + 1 /\ 0 \in 0..L
  OBVIOUS
<1>1. 0 \in S
  <2>1. P(L + 1) <=> e = e
    BY Zenon, <1>0, MatchEnd
  <2>2. Stars(L + 1)
    BY Zenon, <1>0
  <2> QED
    BY Zenon, <1>0, <2>1, <2>2
<1>2. ASSUME NEW k \in 1..L, k - 1 \in S PROVE k \in S
  <2> DEFINE x == L + 1 - k
  <2>1. x \in 1..L /\ x + 1 = L + 1 - (k - 1) /\ k \in 0..L /\ x \in x..L
        /\ \A i : i \in x..L <=> (i = x \/ i \in (x + 1)..L)
    BY SMTT(40), <1>0
  <2>2. P(x + 1) <=> Stars(x + 1)
    BY Zenon, <1>2, <2>1
  <2> HIDE DEF x
  <2>3. CASE pattern[x] = Star
    <3>1. P(x) <=> \E y \in e..(Len(text) + 1) : MatchFrom(pattern, text, x + 1, y)
      BY Zenon, <1>0, <2>1, <2>3, MatchStar
    <3>2. P(x) <=> P(x + 1)
      BY Zenon, <1>0, <3>1
    <3>3. Stars(x) <=> Stars(x + 1)
      BY Zenon, <2>1, <2>3
    <3> QED
      BY Zenon, <2>1, <2>2, <3>2, <3>3 DEF x
  <2>4. CASE pattern[x] # Star
    <3>1. ~P(x)
      BY Zenon, <1>0, <2>1, <2>4, MatchLiteral
    <3>2. ~Stars(x)
      BY Zenon, <2>1, <2>4
    <3> QED
      BY Zenon, <2>1, <3>1, <3>2 DEF x
  <2> QED
    BY Zenon, <2>3, <2>4
<1>3. 0..L \subseteq S
  <2> HIDE DEF S, L
  <2> QED
    BY Zenon, <1>0, <1>1, <1>2, StepByStep
<1>4. L + 1 - p \in 0..L /\ L + 1 - (L + 1 - p) = p
  OBVIOUS
<1>5. L + 1 - p \in S
  BY Zenon, <1>3, <1>4
<1> QED
  BY Zenon, <1>4, <1>5

\* At the end of the text the loop answers what is meant.
LEMMA EndMeant ==
  ASSUME NEW pattern, NEW text, Len(pattern) \in Nat, Len(text) \in Nat,
         NEW q \in GlobPosition(pattern, text), q.s > Len(text), GlobInv(pattern, text, q)
  PROVE  Meant(pattern, text, q) <=> \A i \in q.p..Len(pattern) : pattern[i] = Star
<1> DEFINE T == Len(text)
           P(x, y) == MatchFrom(pattern, text, x, y)
<1>0. /\ T \in Nat /\ q.p \in 1..(Len(pattern) + 1) /\ q.s \in 1..(T + 1) /\ q.s = T + 1
      /\ q.star \in 0..Len(pattern) /\ q.mark \in 0..(T + 1)
  BY Positions
<1>1. P(q.p, q.s) <=> \A i \in q.p..Len(pattern) : pattern[i] = Star
  BY Zenon, <1>0, StarsAtEnd
<1> HIDE DEF T, P
<1>2. ASSUME q.star # 0, NEW m \in (q.mark + 1)..(T + 1), P(q.star + 1, m) PROVE FALSE
  <2> DEFINE d == q.p - q.star - 1
  <2>1. /\ q.star < q.p /\ q.s = q.mark + d
        /\ \A y \in 1..(T + 1) : P(q.star + 1, y) => y + d \in 1..(T + 1) /\ P(q.p, y + d)
    BY Zenon, <1>2 DEF GlobInv, T, P
  <2>2. d \in Nat /\ m \in 1..(T + 1) /\ q.mark + 1 <= m
    BY SMTT(40), <1>0, <2>1
  <2>3. m + d \in 1..(T + 1)
    BY Zenon, <1>2, <2>1, <2>2
  <2> HIDE DEF d
  <2> QED
    BY SMTT(40), <1>0, <2>1, <2>2, <2>3
<1>3. Meant(pattern, text, q) <=> P(q.p, q.s)
  BY Zenon, <1>2 DEF Meant, T, P
<1> QED
  BY Zenon, <1>1, <1>3

\* The loop answers what is meant, from every position that it can come to.
LEMMA GlobAnswers ==
  ASSUME NEW pattern, NEW text \in Seq(Nat), Len(pattern) \in Nat,
         NEW f, IsGlob(f, pattern, text),
         NEW z \in GlobPosition(pattern, text), GlobInv(pattern, text, z)
  PROVE  f[z] <=> Meant(pattern, text, z)
<1> DEFINE G == GlobPosition(pattern, text)
           M == MaxTurns(pattern, text)
           Left(q) == M - Turns(pattern, q)
           Right(q) == f[q] <=> Meant(pattern, text, q)
           S == {m \in Nat : \A q \in G : GlobInv(pattern, text, q) /\ Left(q) < m => Right(q)}
<1>0. Len(text) \in Nat /\ \A i \in 1..Len(text) : text[i] # Star
  BY SMTT(40), ScanAssumption
<1>1. \A q \in G : Turns(pattern, q) \in 0..M /\ M \in Nat
  BY Zenon, <1>0, TurnsBounded
<1>2. \A q \in G : Left(q) \in 0..M /\ M \in Nat
  BY <1>1
<1>3. 0 \in S
  <2>1. \A q \in G : ~(Left(q) < 0)
    BY <1>2
  <2> QED
    BY Zenon, <2>1
<1>4. ASSUME NEW m \in Nat, m \in S PROVE m + 1 \in S
  <2>1. ASSUME NEW q \in G, GlobInv(pattern, text, q), Left(q) < m + 1 PROVE Right(q)
    <3>1. f[q] = GlobTurn(pattern, text, f, q)
      BY Zenon DEF IsGlob
    <3>2. q.s \in 1..(Len(text) + 1)
      BY Zenon, Positions
    <3>3. CASE q.s > Len(text)
      <4>1. GlobTurn(pattern, text, f, q) <=> \A i \in q.p..Len(pattern) : pattern[i] = Star
        BY Zenon, <3>3 DEF GlobTurn
      <4>2. Meant(pattern, text, q) <=> \A i \in q.p..Len(pattern) : pattern[i] = Star
        BY Zenon, <1>0, <2>1, <3>3, EndMeant
      <4> QED
        BY Zenon, <3>1, <4>1, <4>2
    <3>4. CASE ~(q.s > Len(text)) /\ GlobStuck(pattern, text, q)
      <4>1. ~GlobTurn(pattern, text, f, q)
        BY Zenon, <3>4 DEF GlobTurn
      <4>2. q.s <= Len(text) /\ q.star = 0 /\ ~Literal(pattern, text, q) /\ ~AtStar(pattern, q)
        BY <1>0, <3>2, <3>4 DEF GlobStuck
      <4>3. ~MatchFrom(pattern, text, q.p, q.s)
        BY Zenon, <1>0, <4>2, NoMatchHere
      <4>4. ~Meant(pattern, text, q)
        BY Zenon, <4>2, <4>3 DEF Meant
      <4> QED
        BY Zenon, <3>1, <4>1, <4>4
    <3>5. CASE ~(q.s > Len(text)) /\ ~GlobStuck(pattern, text, q)
      <4> DEFINE n == GlobNext(pattern, text, q)
      <4>1. GlobTurn(pattern, text, f, q) <=> f[n]
        BY Zenon, <3>5 DEF GlobTurn
      <4>2. q.s <= Len(text) /\ q.s \in 1..Len(text)
        BY <1>0, <3>2, <3>5
      <4>3. n \in G /\ Turns(pattern, q) < Turns(pattern, n)
        BY Zenon, <1>0, <3>5, <4>2, GlobProgress
      <4>4. Left(n) < m
        <5>1. Turns(pattern, q) \in 0..M /\ Turns(pattern, n) \in 0..M /\ M \in Nat
          BY Zenon, <1>1, <4>3
        <5> HIDE DEF n, M
        <5> QED
          BY SMTT(40), <2>1, <4>3, <5>1
      <4>5. text[q.s] # Star
        BY Zenon, <1>0, <4>2
      <4>6. GlobInv(pattern, text, n) /\ (Meant(pattern, text, n) <=> Meant(pattern, text, q))
        <5>1. CASE Literal(pattern, text, q)
          BY Zenon, <1>0, <2>1, <4>2, <4>5, <5>1, LiteralKeeps
        <5>2. CASE ~Literal(pattern, text, q) /\ AtStar(pattern, q)
          BY Zenon, <1>0, <2>1, <4>2, <5>2, StarKeeps
        <5>3. CASE ~Literal(pattern, text, q) /\ ~AtStar(pattern, q)
          <6>1. q.star # 0
            BY Zenon, <3>5, <5>3 DEF GlobStuck
          <6> QED
            BY Zenon, <1>0, <2>1, <4>2, <5>3, <6>1, RetryKeeps
        <5> QED
          BY Zenon, <5>1, <5>2, <5>3
      <4>7. Right(n)
        <5> HIDE DEF n, Left, Right, G
        <5> QED
          BY Zenon, <1>4, <4>3, <4>4, <4>6
      <4> QED
        BY Zenon, <3>1, <4>1, <4>6, <4>7
    <3> QED
      BY Zenon, <3>3, <3>4, <3>5
  <2>2. m + 1 \in Nat
    OBVIOUS
  <2> HIDE DEF Left, Right, G
  <2> QED
    BY Zenon, <2>1, <2>2
<1> HIDE DEF S
<1>5. M \in Nat /\ Left(z) < M + 1
  <2>1. Left(z) \in 0..M /\ M \in Nat
    BY Zenon, <1>2
  <2> HIDE DEF Left, M
  <2> QED
    BY <2>1
<1>6. M + 1 \in S
  <2> HIDE DEF M
  <2>1. \A i \in 1..(M + 1) : i - 1 \in S => i \in S
    <3> SUFFICES ASSUME NEW i \in 1..(M + 1), i - 1 \in S PROVE i \in S
      BY Zenon
    <3>1. i - 1 \in Nat /\ (i - 1) + 1 = i
      BY <1>5
    <3>2. (i - 1) + 1 \in S
      BY Zenon, <1>4, <3>1
    <3> QED
      BY Zenon, <3>1, <3>2
  <2>2. M + 1 \in Nat /\ M + 1 \in 0..(M + 1)
    BY <1>5
  <2>3. 0..(M + 1) \subseteq S
    BY Zenon, <1>3, <2>1, <2>2, StepByStep
  <2> QED
    BY Zenon, <2>2, <2>3
<1> QED
  BY Zenon, <1>5, <1>6 DEF S

\* matchGlob finds what a pattern means, for every pattern and every text without a star:
\* to retry the last star alone is enough.
THEOREM GlobIsExact ==
  ASSUME NEW pattern \in Seq(Nat \cup {Star}), NEW text \in Seq(Nat)
  PROVE  MatchGlob(pattern, text) <=> Matches(pattern, text)
<1>0. Len(pattern) \in Nat /\ Len(text) \in Nat
  OBVIOUS
<1> DEFINE f == CHOOSE g : IsGlob(g, pattern, text)
<1>1. IsGlob(f, pattern, text)
  BY Zenon, <1>0, GlobExists
<1>2. MatchGlob(pattern, text) <=> pattern = <<>> \/ f[GlobStart]
  BY Zenon DEF MatchGlob, IsGlob, GlobTurn
<1> HIDE DEF f
<1>3. GlobStart \in GlobPosition(pattern, text)
  BY <1>0 DEF GlobStart, GlobPosition
<1>4. GlobStart.p = 1 /\ GlobStart.s = 1 /\ GlobStart.star = 0
  BY DEF GlobStart
<1>5. GlobInv(pattern, text, GlobStart)
  BY Zenon, <1>4 DEF GlobInv
<1>6. f[GlobStart] <=> Meant(pattern, text, GlobStart)
  BY Zenon, <1>0, <1>1, <1>3, <1>5, GlobAnswers
<1>7. Meant(pattern, text, GlobStart) <=> MatchFrom(pattern, text, 1, 1)
  BY Zenon, <1>4 DEF Meant
<1>8. Matches(pattern, text) <=> pattern = <<>> \/ MatchFrom(pattern, text, 1, 1)
  BY Zenon DEF Matches, MatchFrom, Laid
<1> QED
  BY Zenon, <1>2, <1>6, <1>7, <1>8

(***************************************************************************)
(* The order of keys                                                       *)
(***************************************************************************)

\* The order is transitive.
LEMMA KeyLessTransitive ==
  ASSUME NEW a \in Seq(Nat), NEW b \in Seq(Nat), NEW c \in Seq(Nat), KeyLess(a, b), KeyLess(b, c)
  PROVE  KeyLess(a, c)
<1>0. /\ Len(a) \in Nat /\ Len(b) \in Nat /\ Len(c) \in Nat
      /\ \A i \in 1..Len(a) : a[i] \in Nat
      /\ \A i \in 1..Len(b) : b[i] \in Nat
      /\ \A i \in 1..Len(c) : c[i] \in Nat
  BY SMTT(40)
<1>1. CASE /\ Len(a) < Len(b) /\ \A j \in 1..Len(a) : a[j] = b[j]
           /\ Len(b) < Len(c) /\ \A j \in 1..Len(b) : b[j] = c[j]
  <2>1. Len(a) < Len(c) /\ \A j \in 1..Len(a) : a[j] = c[j]
    BY <1>0, <1>1
  <2> QED
    BY Zenon, <2>1 DEF KeyLess
<1>2. ASSUME Len(a) < Len(b), \A j \in 1..Len(a) : a[j] = b[j],
             NEW i \in 1..Len(b), i <= Len(c), b[i] < c[i], \A j \in 1..(i - 1) : b[j] = c[j]
      PROVE  KeyLess(a, c)
  <2>1. CASE i <= Len(a)
    <3>1. i \in 1..Len(a) /\ i <= Len(c) /\ a[i] < c[i] /\ \A j \in 1..(i - 1) : a[j] = c[j]
      BY SMTT(40), <1>0, <1>2, <2>1
    <3> QED
      BY Zenon, <3>1 DEF KeyLess
  <2>2. CASE ~(i <= Len(a))
    <3>1. Len(a) < Len(c) /\ \A j \in 1..Len(a) : a[j] = c[j]
      BY SMTT(40), <1>0, <1>2, <2>2
    <3> QED
      BY Zenon, <3>1 DEF KeyLess
  <2> QED
    BY Zenon, <2>1, <2>2
<1>3. ASSUME Len(b) < Len(c), \A j \in 1..Len(b) : b[j] = c[j],
             NEW i \in 1..Len(a), i <= Len(b), a[i] < b[i], \A j \in 1..(i - 1) : a[j] = b[j]
      PROVE  KeyLess(a, c)
  <2>1. i <= Len(c) /\ a[i] < c[i] /\ \A j \in 1..(i - 1) : a[j] = c[j]
    BY SMTT(40), <1>0, <1>3
  <2> QED
    BY Zenon, <2>1 DEF KeyLess
<1>4. ASSUME NEW i \in 1..Len(a), i <= Len(b), a[i] < b[i], \A j \in 1..(i - 1) : a[j] = b[j],
             NEW k \in 1..Len(b), k <= Len(c), b[k] < c[k], \A j \in 1..(k - 1) : b[j] = c[j]
      PROVE  KeyLess(a, c)
  <2>0. Len(a) \in Nat /\ Len(b) \in Nat /\ Len(c) \in Nat /\ i <= Len(b) /\ k <= Len(c)
    BY Zenon, <1>0, <1>4
  <2>1. CASE i < k
    <3>1. i \in 1..(k - 1) /\ i <= Len(c) /\ \A j \in 1..(i - 1) : j \in 1..(k - 1)
      BY SMTT(40), <2>0, <2>1
    <3>2. a[i] < c[i] /\ \A j \in 1..(i - 1) : a[j] = c[j]
      BY Zenon, <1>4, <3>1
    <3> QED
      BY Zenon, <1>4, <3>1, <3>2 DEF KeyLess
  <2>2. CASE k < i
    <3>1. k \in 1..(i - 1) /\ k \in 1..Len(a) /\ \A j \in 1..(k - 1) : j \in 1..(i - 1)
      BY SMTT(40), <2>0, <2>2
    <3>2. a[k] < c[k] /\ \A j \in 1..(k - 1) : a[j] = c[j]
      BY Zenon, <1>4, <3>1
    <3> QED
      BY Zenon, <1>4, <3>1, <3>2 DEF KeyLess
  <2>3. CASE i = k
    <3>1. a[i] \in Nat /\ b[i] \in Nat /\ c[i] \in Nat
      BY SMTT(40), <1>0, <1>4, <2>3
    <3>2. a[i] < b[i] /\ b[i] < c[i]
      BY Zenon, <1>4, <2>3
    <3>3. a[i] < c[i]
      BY SMTT(40), <3>1, <3>2
    <3>4. i <= Len(c) /\ \A j \in 1..(i - 1) : a[j] = c[j]
      BY Zenon, <1>4, <2>3
    <3> QED
      BY Zenon, <3>3, <3>4 DEF KeyLess
  <2>4. i < k \/ k < i \/ i = k
    BY <1>0
  <2> QED
    BY Zenon, <2>1, <2>2, <2>3, <2>4
<1> QED
  BY Zenon, <1>1, <1>2, <1>3, <1>4 DEF KeyLess

\* Of two keys one is less.
LEMMA KeyLessTotal ==
  ASSUME NEW a \in Seq(Nat), NEW b \in Seq(Nat), a # b
  PROVE  KeyLess(a, b) \/ KeyLess(b, a)
<1> DEFINE D == {i \in Nat : i > 0 /\ i <= Len(a) /\ i <= Len(b) /\ a[i] # b[i]}
<1>0. /\ Len(a) \in Nat /\ Len(b) \in Nat
      /\ \A i \in 1..Len(a) : a[i] \in Nat
      /\ \A i \in 1..Len(b) : b[i] \in Nat
  OBVIOUS
<1>1. CASE D = {}
  <2>0. \A j \in Nat : j > 0 /\ j <= Len(a) /\ j <= Len(b) => a[j] = b[j]
    BY Zenon, <1>1
  <2>1. CASE Len(a) < Len(b)
    <3>1. \A j \in 1..Len(a) : a[j] = b[j]
      BY SMTT(40), <1>0, <2>0, <2>1
    <3> QED
      BY Zenon, <2>1, <3>1 DEF KeyLess
  <2>2. CASE Len(b) < Len(a)
    <3>1. \A j \in 1..Len(b) : b[j] = a[j]
      BY SMTT(40), <1>0, <2>0, <2>2
    <3> QED
      BY Zenon, <2>2, <3>1 DEF KeyLess
  <2>3. CASE Len(a) = Len(b)
    <3>1. \A j \in 1..Len(b) : b[j] = a[j]
      BY SMTT(40), <1>0, <2>0, <2>3
    <3>2. a = b
      BY SMTT(40), <2>3, <3>1
    <3> QED
      BY Zenon, <3>2
  <2> QED
    BY SMTT(40), <1>0, <2>1, <2>2, <2>3
<1>2. CASE D # {}
  <2>1. D \subseteq Nat
    OBVIOUS
  <2>2. PICK i \in D : \A j \in D : i <= j
    <3> HIDE DEF D
    <3> QED
      BY Zenon, <1>2, <2>1, LeastFailure
  <2>3. i \in 1..Len(a) /\ i \in 1..Len(b) /\ i <= Len(a) /\ i <= Len(b) /\ a[i] # b[i]
    BY <1>0, <2>2
  <2>4. \A j \in 1..(i - 1) : a[j] = b[j] /\ b[j] = a[j]
    <3> SUFFICES ASSUME NEW j \in 1..(i - 1), a[j] # b[j] PROVE FALSE
      BY Zenon
    <3>1. j \in D /\ ~(i <= j)
      BY SMTT(40), <1>0, <2>3
    <3> QED
      BY Zenon, <2>2, <3>1
  <2>5. a[i] < b[i] \/ b[i] < a[i]
    BY SMTT(40), <1>0, <2>3
  <2> QED
    BY Zenon, <2>3, <2>4, <2>5 DEF KeyLess
<1> QED
  BY Zenon, <1>1, <1>2

Ordering(S) == {keys \in [1..Cardinality(S) -> S] : Range(keys) = S /\ Ascending(keys)}

\* A key beyond all others can be put behind them.
LEMMA OrderingGrows ==
  ASSUME NEW S, IsFiniteSet(S), NEW x, x \notin S, \A y \in S : KeyLess(y, x), Ordering(S) # {}
  PROVE  Ordering(S \cup {x}) # {}
<1>1. PICK keys \in [1..Cardinality(S) -> S] : Range(keys) = S /\ Ascending(keys)
  BY Zenon DEF Ordering
<1> DEFINE n == Cardinality(S)
           U == S \cup {x}
           more == [i \in 1..(n + 1) |-> IF i = n + 1 THEN x ELSE keys[i]]
<1>2. n \in Nat /\ Cardinality(U) = n + 1
  BY Zenon, FS_CardinalityType, FS_AddElement
<1> HIDE DEF n
<1>3. \A i \in 1..n : keys[i] \in S
  BY Zenon, <1>1 DEF n
<1>4. DOMAIN keys = 1..n
  BY Zenon, <1>1 DEF n
<1>5. more \in [1..(n + 1) -> U]
  BY SMTT(40), <1>2, <1>3
<1>6. n + 1 \in 1..(n + 1) /\ \A i \in 1..n : i \in 1..(n + 1) /\ i # n + 1
  BY <1>2
<1>7. more[n + 1] = x /\ \A i \in 1..n : more[i] = keys[i]
  BY Zenon, <1>6
<1>8. DOMAIN more = 1..(n + 1)
  BY Zenon
<1> HIDE DEF more
<1>9. Range(more) = U
  <2>1. Range(more) \subseteq U
    BY Zenon, <1>5, <1>8 DEF Range
  <2>2. ASSUME NEW y \in S PROVE y \in Range(more)
    <3>1. PICK i \in 1..n : keys[i] = y
      BY Zenon, <1>1, <1>4 DEF Range
    <3> QED
      BY Zenon, <1>6, <1>7, <1>8, <3>1 DEF Range
  <2>3. x \in Range(more)
    BY Zenon, <1>6, <1>7, <1>8 DEF Range
  <2> QED
    BY Zenon, <2>1, <2>2, <2>3
<1>10. Ascending(more)
  <2> SUFFICES ASSUME NEW i \in 1..(n + 1), NEW j \in 1..(n + 1), i < j
               PROVE  KeyLess(more[i], more[j])
    BY Zenon, <1>8 DEF Ascending
  <2>1. i \in 1..n
    BY <1>2
  <2>2. CASE j = n + 1
    BY Zenon, <1>3, <1>7, <2>1, <2>2
  <2>3. CASE j # n + 1
    <3>1. j \in 1..n
      BY <1>2, <2>3
    <3>2. KeyLess(keys[i], keys[j])
      BY Zenon, <1>1, <1>4, <2>1, <3>1 DEF Ascending
    <3> QED
      BY Zenon, <1>7, <2>1, <3>1, <3>2
  <2> QED
    BY Zenon, <2>2, <2>3
<1>11. more \in Ordering(U)
  BY Zenon, <1>2, <1>5, <1>9, <1>10 DEF Ordering
<1> QED
  BY Zenon, <1>11

\* Finitely many keys can be put in order.
LEMMA OrderingExists ==
  ASSUME NEW S, S \subseteq Seq(Nat), IsFiniteSet(S)
  PROVE  Ordering(S) # {}
<1> DEFINE Size(Q, m) == Q \subseteq Seq(Nat) /\ IsFiniteSet(Q) /\ Cardinality(Q) = m
           N == {m \in Nat : \A Q : Size(Q, m) => Ordering(Q) # {}}
<1>1. 0 \in N
  <2>1. ASSUME NEW Q, Size(Q, 0) PROVE Ordering(Q) # {}
    <3>1. Q = {} /\ Cardinality(Q) = 0
      BY Zenon, <2>1, FS_EmptySet
    <3>2. 1..0 = {}
      OBVIOUS
    <3> DEFINE keys == [i \in {} |-> i]
    <3>3. keys \in [1..0 -> Q]
      BY Zenon, <3>2
    <3>4. DOMAIN keys = {}
      BY Zenon
    <3> HIDE DEF keys
    <3>5. Range(keys) = {} /\ Ascending(keys)
      BY Zenon, <3>4 DEF Range, Ascending
    <3>6. keys \in Ordering(Q)
      BY Zenon, <3>1, <3>3, <3>5 DEF Ordering
    <3> QED
      BY Zenon, <3>6
  <2> QED
    BY Zenon, <2>1
<1>2. ASSUME NEW m \in Nat, m \in N PROVE m + 1 \in N
  <2>1. ASSUME NEW Q, Size(Q, m + 1) PROVE Ordering(Q) # {}
    <3>1. Q # {} /\ m + 1 # 0 /\ (m + 1) - 1 = m
      <4>1. m + 1 # 0 /\ (m + 1) - 1 = m
        OBVIOUS
      <4> QED
        BY Zenon, <2>1, <4>1, FS_EmptySet
    <3>2. \A y \in Q : Size(Q \ {y}, m)
      <4> SUFFICES ASSUME NEW y \in Q PROVE Size(Q \ {y}, m)
        BY Zenon
      <4>1. IsFiniteSet(Q \ {y}) /\ Cardinality(Q \ {y}) = Cardinality(Q) - 1
        BY Zenon, <2>1, FS_RemoveElement
      <4> QED
        BY Zenon, <2>1, <3>1, <4>1
    <3>3. \A y \in Q : Ordering(Q \ {y}) # {}
      BY Zenon, <1>2, <3>2
    <3>4. \E z \in Q : \A u \in Q \ {z} : KeyLess(u, z)
      <4>1. PICK y \in Q : TRUE
        BY Zenon, <3>1
      <4>2. CASE m = 0
        <5>1. Q \ {y} = {}
          BY Zenon, <3>2, <4>2, FS_EmptySet
        <5> QED
          BY Zenon, <5>1
      <4>3. CASE m # 0
        <5> DEFINE R == Q \ {y}
        <5>1. PICK keys \in [1..m -> R] : Range(keys) = R /\ Ascending(keys)
          <6>1. Cardinality(R) = m /\ Ordering(R) # {}
            BY Zenon, <3>2, <3>3
          <6> HIDE DEF R
          <6> QED
            BY Zenon, <6>1 DEF Ordering
        <5>2. m \in 1..m
          BY <4>3
        <5> DEFINE z == keys[m]
        <5>3. z \in R /\ DOMAIN keys = 1..m
          BY Zenon, <5>1, <5>2
        <5>4. ASSUME NEW u \in R, u # z PROVE KeyLess(u, z)
          <6>1. PICK i \in 1..m : keys[i] = u
            BY Zenon, <5>1, <5>3 DEF Range
          <6>2. i # m
            BY Zenon, <5>4, <6>1
          <6>3. i < m
            BY <6>2
          <6> QED
            BY Zenon, <5>1, <5>2, <5>3, <6>1, <6>3 DEF Ascending
        <5> HIDE DEF z
        <5>5. y # z /\ y \in Seq(Nat) /\ z \in Seq(Nat) /\ z \in Q
          BY Zenon, <2>1, <5>3
        <5>6. CASE KeyLess(y, z)
          BY Zenon, <5>4, <5>5, <5>6
        <5>7. CASE KeyLess(z, y)
          <6>1. ASSUME NEW u \in Q \ {y} PROVE KeyLess(u, y)
            <7>1. CASE u = z
              BY Zenon, <5>7, <7>1
            <7>2. CASE u # z
              <8>1. KeyLess(u, z) /\ u \in Seq(Nat)
                BY Zenon, <2>1, <5>4, <7>2
              <8> QED
                BY Zenon, <5>5, <5>7, <8>1, KeyLessTransitive
            <7> QED
              BY Zenon, <7>1, <7>2
          <6> QED
            BY Zenon, <6>1
        <5> QED
          BY Zenon, <5>5, <5>6, <5>7, KeyLessTotal
      <4> QED
        BY Zenon, <4>2, <4>3
    <3>5. PICK z \in Q : \A u \in Q \ {z} : KeyLess(u, z)
      BY Zenon, <3>4
    <3> DEFINE R == Q \ {z}
    <3>6. IsFiniteSet(R) /\ z \notin R /\ Ordering(R) # {} /\ Q = R \cup {z}
      BY Zenon, <3>2, <3>3
    <3>7. \A u \in R : KeyLess(u, z)
      BY Zenon, <3>5
    <3> HIDE DEF R
    <3>8. Ordering(R \cup {z}) # {}
      BY Zenon, <3>6, <3>7, OrderingGrows
    <3> QED
      BY Zenon, <3>6, <3>8
  <2>2. m + 1 \in Nat
    OBVIOUS
  <2> QED
    BY Zenon, <2>1, <2>2
<1> DEFINE k == Cardinality(S)
<1>3. k \in Nat
  BY Zenon, FS_CardinalityType
<1>4. Size(S, k)
  BY Zenon
<1> HIDE DEF N, k, Size
<1>5. \A i \in 1..k : i - 1 \in N => i \in N
  <2> SUFFICES ASSUME NEW i \in 1..k, i - 1 \in N PROVE i \in N
    BY Zenon
  <2>1. i - 1 \in Nat /\ (i - 1) + 1 = i
    BY <1>3
  <2>2. (i - 1) + 1 \in N
    BY Zenon, <1>2, <2>1
  <2> QED
    BY Zenon, <2>1, <2>2
<1>6. 0..k \subseteq N /\ k \in 0..k
  <2>1. 0..k \subseteq N
    BY Zenon, <1>1, <1>3, <1>5, StepByStep
  <2>2. k \in 0..k
    BY <1>3
  <2> QED
    BY Zenon, <2>1, <2>2
<1>7. k \in N
  BY Zenon, <1>6
<1> QED
  BY Zenon, <1>4, <1>7 DEF N

\* sort.Slice puts the keys in order: each of them once, ascending.
LEMMA SortedFacts ==
  ASSUME NEW S, S \subseteq Seq(Nat), IsFiniteSet(S)
  PROVE  /\ Cardinality(S) \in Nat /\ Sorted(S) \in [1..Cardinality(S) -> S]
         /\ Range(Sorted(S)) = S /\ Ascending(Sorted(S))
<1>1. Ordering(S) # {}
  BY Zenon, OrderingExists
<1>2. \E keys \in [1..Cardinality(S) -> S] : Range(keys) = S /\ Ascending(keys)
  BY Zenon, <1>1 DEF Ordering
<1>3. /\ Sorted(S) \in [1..Cardinality(S) -> S]
      /\ Range(Sorted(S)) = S /\ Ascending(Sorted(S))
  BY Zenon, <1>2 DEF Sorted
<1>4. Cardinality(S) \in Nat
  BY Zenon, FS_CardinalityType
<1> QED
  BY Zenon, <1>3, <1>4

(***************************************************************************)
(* Pages                                                                   *)
(***************************************************************************)

\* A page is the beginning of the candidates in order: all of them when they are fewer
\* than count, and the others come after its last key.
LEMMA CutFacts ==
  ASSUME NEW S, S \subseteq Seq(Nat), IsFiniteSet(S), NEW count \in Nat \ {0},
         NEW keys, keys = Cut(Sorted(S), count)
  PROVE  /\ keys \in Seq(S) /\ Len(keys) \in Nat /\ Ascending(keys)
         /\ \A x \in S : x \in Range(keys) \/ (Len(keys) = count /\ KeyLess(keys[count], x))
<1> DEFINE all == Sorted(S)
           m == Cardinality(S)
           n == IF m > count THEN count ELSE m
<1>1. m \in Nat /\ all \in [1..m -> S]
  BY Zenon, SortedFacts
<1>2. Range(all) = S /\ Ascending(all)
  BY Zenon, SortedFacts
<1> HIDE DEF all, m
<1>3. all \in Seq(S) /\ Len(all) = m
  BY <1>1
<1>4. n \in Nat /\ n <= m /\ n <= count
  BY <1>1
<1>5. keys = SubSeq(all, 1, n)
  BY Zenon, <1>3 DEF Cut, all
<1>6. n < m => n = count
  BY <1>1
<1> HIDE DEF n
<1>7. /\ SubSeq(all, 1, n) \in Seq(S) /\ Len(SubSeq(all, 1, n)) = n
      /\ \A i \in 1..n : SubSeq(all, 1, n)[i] = all[i]
  BY <1>3, <1>4
<1>8. keys \in Seq(S) /\ Len(keys) = n /\ \A i \in 1..n : keys[i] = all[i]
  BY Zenon, <1>5, <1>7
<1>9. DOMAIN keys = 1..n /\ DOMAIN all = 1..m /\ 1..n \subseteq 1..m
  BY SMTT(40), <1>1, <1>3, <1>4, <1>8
<1>10. Ascending(keys)
  <2> SUFFICES ASSUME NEW i \in 1..n, NEW j \in 1..n, i < j PROVE KeyLess(keys[i], keys[j])
    BY Zenon, <1>9 DEF Ascending
  <2>1. KeyLess(all[i], all[j])
    BY Zenon, <1>2, <1>9 DEF Ascending
  <2> QED
    BY Zenon, <1>8, <2>1
<1>11. ASSUME NEW x \in S PROVE x \in Range(keys) \/ (Len(keys) = count /\ KeyLess(keys[count], x))
  <2>1. PICK j \in 1..m : all[j] = x
    BY Zenon, <1>2, <1>9 DEF Range
  <2>2. CASE j <= n
    <3>1. j \in 1..n
      BY SMTT(40), <1>1, <1>4, <2>2
    <3> QED
      BY Zenon, <1>8, <1>9, <2>1, <3>1 DEF Range
  <2>3. CASE ~(j <= n)
    <3>1. n < m /\ n < j /\ n \in 1..n /\ n = count
      BY SMTT(40), <1>1, <1>4, <1>6, <2>3
    <3>2. n \in 1..m
      BY Zenon, <1>9, <3>1
    <3>3. KeyLess(all[n], all[j])
      BY Zenon, <1>2, <1>9, <3>1, <3>2 DEF Ascending
    <3>4. keys[n] = all[n]
      BY Zenon, <1>8, <3>1
    <3>5. KeyLess(keys[count], x) /\ Len(keys) = count
      BY Zenon, <1>8, <2>1, <3>1, <3>3, <3>4
    <3> QED
      BY Zenon, <3>5
  <2> QED
    BY Zenon, <2>2, <2>3
<1> QED
  BY Zenon, <1>4, <1>8, <1>10, <1>11

\* The keys that a page is taken from.
Candidates(d, cursor, pattern, t) ==
  {k \in Key : Live(d, k, t) /\ After(cursor, k) /\ MatchGlob(pattern, k)}

\* They are finitely many, and the ones that the pattern means.
LEMMA CandidateFacts ==
  ASSUME NEW d \in Data, IsFiniteSet(Present(d)), NEW cursor, NEW pattern \in Pattern, NEW t
  PROVE  /\ Candidates(d, cursor, pattern, t) \subseteq Seq(Nat)
         /\ Candidates(d, cursor, pattern, t) \subseteq Key
         /\ IsFiniteSet(Candidates(d, cursor, pattern, t))
         /\ \A k \in Key : k \in Candidates(d, cursor, pattern, t)
                             <=> Live(d, k, t) /\ After(cursor, k) /\ Matches(pattern, k)
<1> DEFINE S == Candidates(d, cursor, pattern, t)
<1>1. pattern \in Seq(Nat \cup {Star}) /\ \A k \in Key : k \in Seq(Nat)
  BY Zenon, ScanAssumption
<1>2. \A k \in Key : MatchGlob(pattern, k) <=> Matches(pattern, k)
  BY Zenon, <1>1, GlobIsExact
<1>3. \A k \in Key : k \in S <=> Live(d, k, t) /\ After(cursor, k) /\ Matches(pattern, k)
  BY Zenon, <1>2 DEF Candidates
<1>4. S \subseteq Key /\ S \subseteq Present(d)
  BY Zenon DEF Candidates, Present, Live
<1>5. IsFiniteSet(S)
  BY Zenon, <1>4, FS_Subset
<1>6. S \subseteq Seq(Nat)
  BY Zenon, <1>1, <1>4
<1> QED
  BY Zenon, <1>3, <1>4, <1>5, <1>6

(***************************************************************************)
(* The paging client                                                       *)
(***************************************************************************)

\* The client of a scan that makes no step only loses sight of keys that were not there
\* all the time.
LEMMA ScanWaits ==
  ASSUME ScanInv, scan' = scan, Watch
  PROVE  ScanInv'
<1>1. steady' \subseteq steady /\ (scan.pc = "paging" => steady' \subseteq LiveKeys(data', now'))
  BY Zenon DEF Watch
<1>2. /\ scan \in [pc : {"paging", "done"}, pattern : Pattern, count : Count,
                   cursor : Key \cup {<<>>}, got : Seq(Key)]
      /\ steady \subseteq Key /\ Ascending(scan.got)
      /\ \A i \in DOMAIN scan.got : Matches(scan.pattern, scan.got[i])
  BY Zenon DEF ScanInv
<1>3. scan.pc = "paging" =>
        /\ (IF scan.got = <<>> THEN scan.cursor = <<>> ELSE scan.cursor = scan.got[Len(scan.got)])
        /\ \A k \in steady : ~After(scan.cursor, k) /\ Matches(scan.pattern, k) => k \in Range(scan.got)
  BY Zenon DEF ScanInv
<1>4. scan.pc = "done" => \A k \in steady : Matches(scan.pattern, k) => k \in Range(scan.got)
  BY Zenon DEF ScanInv
<1>5. scan.pc = "paging" =>
        \A k \in steady' : ~After(scan.cursor, k) /\ Matches(scan.pattern, k) => k \in Range(scan.got)
  BY Zenon, <1>1, <1>3
<1>6. scan.pc = "done" => \A k \in steady' : Matches(scan.pattern, k) => k \in Range(scan.got)
  BY Zenon, <1>1, <1>4
<1>7. steady' \subseteq Key
  BY Zenon, <1>1, <1>2
<1>8. (LiveKeys(data, now))' = LiveKeys(data', now')
  BY Zenon DEF LiveKeys, Live
<1> QED
  BY Zenon, <1>1, <1>2, <1>3, <1>5, <1>6, <1>7, <1>8 DEF ScanInv

\* The next page continues the ascending list of what the client was sent.
LEMMA PageExtends ==
  ASSUME NEW got \in Seq(Key), NEW keys \in Seq(Key), Ascending(got), Ascending(keys),
         NEW cursor, got = <<>> \/ cursor = got[Len(got)], \A i \in DOMAIN keys : After(cursor, keys[i])
  PROVE  Ascending(got \o keys)
<1> DEFINE m == Len(got)
           n == Len(keys)
           all == got \o keys
<1>0. m \in Nat /\ n \in Nat /\ DOMAIN got = 1..m /\ DOMAIN keys = 1..n
  OBVIOUS
<1>1. DOMAIN all = 1..(m + n)
  OBVIOUS
<1>2. \A i \in 1..m : all[i] = got[i] /\ got[i] \in Key
  OBVIOUS
<1>3. \A i \in 1..n : all[m + i] = keys[i] /\ keys[i] \in Key
  OBVIOUS
<1> HIDE DEF all, m, n
<1>4. \A k \in Key : k \in Seq(Nat) /\ k # <<>>
  BY Zenon, ScanAssumption
<1> SUFFICES ASSUME NEW i \in 1..(m + n), NEW j \in 1..(m + n), i < j
             PROVE  KeyLess(all[i], all[j])
  BY Zenon, <1>1 DEF Ascending, all
<1>5. CASE j <= m
  <2>1. i \in 1..m /\ j \in 1..m
    BY <1>0, <1>5
  <2>2. KeyLess(got[i], got[j])
    BY Zenon, <1>0, <2>1 DEF Ascending
  <2> QED
    BY Zenon, <1>2, <2>1, <2>2
<1>6. CASE i > m
  <2> DEFINE a == i - m
             b == j - m
  <2>1. a \in 1..n /\ b \in 1..n /\ a < b /\ i = m + a /\ j = m + b
    BY <1>0, <1>6
  <2> HIDE DEF a, b
  <2>2. KeyLess(keys[a], keys[b])
    BY Zenon, <1>0, <2>1 DEF Ascending
  <2>3. all[i] = keys[a] /\ all[j] = keys[b]
    BY Zenon, <1>3, <2>1
  <2> QED
    BY Zenon, <2>2, <2>3
<1>7. CASE i <= m /\ j > m
  <2> DEFINE b == j - m
  <2>1. b \in 1..n /\ j = m + b /\ i \in 1..m /\ m \in 1..m
    BY <1>0, <1>7
  <2> HIDE DEF b
  <2>2. all[j] = keys[b] /\ keys[b] \in Key /\ all[i] = got[i] /\ got[i] \in Key /\ got[m] \in Key
    BY Zenon, <1>2, <1>3, <2>1
  <2>3. got # <<>>
    BY SMTT(40), <1>0, <2>1
  <2>4. cursor = got[m] /\ cursor # <<>>
    BY Zenon, <1>4, <2>2, <2>3 DEF m
  <2>5. KeyLess(got[m], keys[b])
    BY Zenon, <1>0, <2>1, <2>4 DEF After
  <2>6. CASE i = m
    BY Zenon, <2>2, <2>5, <2>6
  <2>7. CASE i # m
    <3>1. i < m
      BY SMTT(40), <1>0, <2>1, <2>7
    <3>2. KeyLess(got[i], got[m])
      BY Zenon, <1>0, <2>1, <3>1 DEF Ascending
    <3>3. got[i] \in Seq(Nat) /\ got[m] \in Seq(Nat) /\ keys[b] \in Seq(Nat)
      BY Zenon, <1>4, <2>2
    <3>4. KeyLess(got[i], keys[b])
      BY Zenon, <2>5, <3>2, <3>3, KeyLessTransitive
    <3> QED
      BY Zenon, <2>2, <3>4
  <2> QED
    BY Zenon, <2>6, <2>7
<1> QED
  BY SMTT(40), <1>0, <1>5, <1>6, <1>7

\* What two sequences hold, laid end to end.
LEMMA Joined ==
  ASSUME NEW a \in Seq(Key), NEW b \in Seq(Key)
  PROVE  /\ a \o b \in Seq(Key)
         /\ \A i \in DOMAIN (a \o b) : (a \o b)[i] \in Range(a) \cup Range(b)
         /\ Range(a) \subseteq Range(a \o b) /\ Range(b) \subseteq Range(a \o b)
<1> DEFINE m == Len(a)
           n == Len(b)
           all == a \o b
<1>0. m \in Nat /\ n \in Nat /\ DOMAIN a = 1..m /\ DOMAIN b = 1..n
  OBVIOUS
<1>1. all \in Seq(Key) /\ DOMAIN all = 1..(m + n)
  OBVIOUS
<1>2. \A i \in 1..m : all[i] = a[i]
  OBVIOUS
<1>3. \A i \in 1..n : all[m + i] = b[i]
  OBVIOUS
<1> HIDE DEF all, m, n
<1>4. \A i \in 1..m : i \in 1..(m + n)
  BY <1>0
<1>5. \A i \in 1..n : m + i \in 1..(m + n)
  BY <1>0
<1>6. \A i \in 1..(m + n) : i \in 1..m \/ (i - m \in 1..n /\ i = m + (i - m))
  BY <1>0
<1>7. Range(a) \subseteq Range(all) /\ Range(b) \subseteq Range(all)
  BY Zenon, <1>0, <1>1, <1>2, <1>3, <1>4, <1>5 DEF Range
<1>8. ASSUME NEW i \in DOMAIN all PROVE all[i] \in Range(a) \cup Range(b)
  <2>1. CASE i \in 1..m
    <3>1. all[i] = a[i] /\ i \in DOMAIN a
      BY Zenon, <1>0, <1>2, <2>1
    <3> QED
      BY Zenon, <3>1 DEF Range
  <2>2. CASE i - m \in 1..n /\ i = m + (i - m)
    <3> DEFINE j == i - m
    <3>1. j \in 1..n /\ i = m + j
      BY Zenon, <2>2
    <3> HIDE DEF j
    <3>2. all[i] = b[j] /\ j \in DOMAIN b
      BY Zenon, <1>0, <1>3, <3>1
    <3> QED
      BY Zenon, <3>2 DEF Range
  <2> QED
    BY Zenon, <1>1, <1>6, <2>1, <2>2
<1> QED
  BY Zenon, <1>1, <1>7, <1>8 DEF all

\* What the client has and does after a page.
LEMMA PageStep ==
  ASSUME ScanInv, data \in Data, IsFiniteSet(Present(data)), ScanPage, Watch
  PROVE  ScanInv'
<1> DEFINE got == scan.got
           cursor == scan.cursor
           count == scan.count
           pattern == scan.pattern
           S == Candidates(data, cursor, pattern, now)
           keys == Cut(Sorted(S), count)
           next == NextCursor(keys, count)
           pc == IF next = <<>> THEN "done" ELSE "paging"
<1>0. scan \in [pc : {"paging", "done"}, pattern : Pattern, count : Count,
                cursor : Key \cup {<<>>}, got : Seq(Key)]
  BY Zenon DEF ScanInv
<1>1. /\ scan.pc = "paging" /\ pattern \in Pattern /\ count \in Count /\ got \in Seq(Key)
      /\ scan = [pc |-> scan.pc, pattern |-> pattern, count |-> count, cursor |-> cursor, got |-> got]
  BY <1>0 DEF ScanPage
<1>2. count \in Nat \ {0}
  BY Zenon, <1>1, EnginesAssumption
<1>3. S \subseteq Seq(Nat) /\ S \subseteq Key /\ IsFiniteSet(S)
  BY Zenon, <1>1, CandidateFacts
<1>4. \A k \in Key : k \in S <=> Live(data, k, now) /\ After(cursor, k) /\ Matches(pattern, k)
  BY Zenon, <1>1, CandidateFacts
<1>5. keys \in Seq(S) /\ Len(keys) \in Nat /\ Ascending(keys)
  <2> HIDE DEF S, count
  <2> QED
    BY Zenon, <1>2, <1>3, CutFacts
<1>6. \A x \in S : x \in Range(keys) \/ (Len(keys) = count /\ KeyLess(keys[count], x))
  <2> HIDE DEF S, count
  <2> QED
    BY Zenon, <1>2, <1>3, CutFacts
<1>7. scan' = [scan EXCEPT !.got = got \o keys, !.cursor = next, !.pc = pc]
  <2> DEFINE items == [i \in DOMAIN keys |-> [key |-> keys[i], value |-> data[keys[i]].Value]]
             page == Page(data, cursor, count, pattern, now)
  <2>1. PageKeys(data, cursor, count, pattern, now) = keys
    BY Zenon DEF PageKeys, Candidates
  <2>2. page = [items |-> items, next |-> next]
    BY Zenon, <2>1 DEF Page
  <2>3. page.items = items /\ page.next = next
    <3> HIDE DEF items, next, page
    <3> QED
      BY <2>2
  <2>4. KeysOf(items) = keys
    <3> HIDE DEF keys
    <3>1. \A i \in DOMAIN keys : items[i].key = keys[i]
      OBVIOUS
    <3>2. DOMAIN items = DOMAIN keys
      BY Zenon
    <3>3. KeysOf(items) = [i \in DOMAIN keys |-> keys[i]]
      BY Zenon, <3>1, <3>2 DEF KeysOf
    <3>4. keys = [i \in DOMAIN keys |-> keys[i]]
      BY <1>5
    <3> QED
      BY Zenon, <3>3, <3>4
  <2>5. scan' = [scan EXCEPT !.got = got \o KeysOf(page.items), !.cursor = page.next,
                             !.pc = IF page.next = <<>> THEN "done" ELSE "paging"]
    <3> HIDE DEF page
    <3> QED
      BY DEF ScanPage, page
  <2> HIDE DEF items, next, page, keys
  <2> QED
    BY Zenon, <2>3, <2>4, <2>5
<1>8. steady' \subseteq steady /\ steady' \subseteq LiveKeys(data', now') /\ steady \subseteq LiveKeys(data, now)
  BY Zenon, <1>1 DEF Watch, ScanInv
<1>9. /\ IF got = <<>> THEN cursor = <<>> ELSE cursor = got[Len(got)]
      /\ Ascending(got) /\ steady \subseteq Key
      /\ \A i \in DOMAIN got : Matches(pattern, got[i])
      /\ \A k \in steady : ~After(cursor, k) /\ Matches(pattern, k) => k \in Range(got)
  BY Zenon, <1>1 DEF ScanInv
<1>10. next = IF Len(keys) = count THEN keys[Len(keys)] ELSE <<>>
  BY Zenon DEF NextCursor
<1>11. /\ scan'.pc = pc /\ scan'.pattern = pattern /\ scan'.count = count
       /\ scan'.cursor = next /\ scan'.got = got \o keys
       /\ scan' = [pc |-> pc, pattern |-> pattern, count |-> count, cursor |-> next, got |-> got \o keys]
  <2> DEFINE all == got \o keys
             p == scan.pc
             r == [pc |-> p, pattern |-> pattern, count |-> count, cursor |-> cursor, got |-> all]
             q == [pc |-> p, pattern |-> pattern, count |-> count, cursor |-> next, got |-> all]
  <2>1. scan' = [[[scan EXCEPT !.got = all] EXCEPT !.cursor = next] EXCEPT !.pc = pc]
    BY Zenon, <1>7
  <2> HIDE DEF all, next, pc, got, cursor, count, pattern, p
  <2>2. [scan EXCEPT !.got = all] = r
    BY <1>1 DEF p
  <2>3. [r EXCEPT !.cursor = next] = q
    OBVIOUS
  <2>4. [q EXCEPT !.pc = pc] = [pc |-> pc, pattern |-> pattern, count |-> count, cursor |-> next, got |-> all]
    OBVIOUS
  <2> HIDE DEF r, q
  <2>5. scan' = [pc |-> pc, pattern |-> pattern, count |-> count, cursor |-> next, got |-> all]
    BY Zenon, <2>1, <2>2, <2>3, <2>4
  <2> QED
    BY <2>5 DEF all
<1> HIDE DEF next, keys, S, got, cursor, count, pattern, pc
<1>12. keys \in Seq(Key) /\ \A i \in DOMAIN keys : keys[i] \in S /\ keys[i] \in Key
  BY <1>3, <1>5
<1>13. \A k \in Key : k # <<>>
  BY Zenon, ScanAssumption
<1>14. Ascending(got \o keys)
  <2>1. \A i \in DOMAIN keys : After(cursor, keys[i])
    BY Zenon, <1>4, <1>12
  <2>2. got = <<>> \/ cursor = got[Len(got)]
    BY Zenon, <1>9
  <2> QED
    BY Zenon, <1>1, <1>5, <1>9, <1>12, <2>1, <2>2, PageExtends DEF got
<1>15. /\ got \o keys \in Seq(Key)
       /\ \A i \in DOMAIN (got \o keys) : (got \o keys)[i] \in Range(got) \cup Range(keys)
       /\ Range(got) \subseteq Range(got \o keys) /\ Range(keys) \subseteq Range(got \o keys)
  <2>1. got \in Seq(Key)
    BY Zenon, <1>1 DEF got
  <2> QED
    BY SMTT(40), <1>12, <2>1, Joined
<1>16. \A i \in DOMAIN (got \o keys) : Matches(pattern, (got \o keys)[i])
  <2>1. \A x \in Range(got) \cup Range(keys) : Matches(pattern, x)
    BY Zenon, <1>4, <1>9, <1>12 DEF Range
  <2> QED
    BY Zenon, <1>15, <2>1
<1>17. \A k \in steady' : k \in Key /\ k \in steady /\ Live(data, k, now)
  BY Zenon, <1>8, <1>9 DEF LiveKeys
<1>18. \A k \in steady' : Matches(pattern, k) =>
         \/ k \in Range(got \o keys)
         \/ Len(keys) = count /\ KeyLess(keys[count], k)
  <2> SUFFICES ASSUME NEW k \in steady', Matches(pattern, k)
               PROVE  \/ k \in Range(got \o keys)
                      \/ Len(keys) = count /\ KeyLess(keys[count], k)
    BY Zenon
  <2>1. CASE ~After(cursor, k)
    BY Zenon, <1>9, <1>15, <1>17, <2>1
  <2>2. CASE After(cursor, k)
    <3>1. k \in S
      BY Zenon, <1>4, <1>17, <2>2
    <3> QED
      BY Zenon, <1>6, <1>15, <3>1
  <2> QED
    BY Zenon, <2>1, <2>2
<1>19. (LiveKeys(data, now))' = LiveKeys(data', now')
  BY Zenon DEF LiveKeys, Live
<1>20. steady' \subseteq Key
  BY Zenon, <1>17
<1>21. CASE Len(keys) = count
  <2>1. count \in DOMAIN keys
    BY SMTT(40), <1>2, <1>5, <1>21 DEF count
  <2>2. next = keys[count] /\ keys[count] \in Key /\ next # <<>>
    BY Zenon, <1>10, <1>12, <1>13, <1>21, <2>1
  <2>3. pc = "paging"
    BY Zenon, <2>2 DEF pc
  <2>4. (got \o keys) # <<>> /\ (got \o keys)[Len(got \o keys)] = keys[count]
    <3>1. got \in Seq(Key) /\ count \in Nat \ {0}
      BY Zenon, <1>1, <1>2 DEF got, count
    <3> QED
      BY SMTT(40), <1>12, <1>21, <3>1
  <2>5. \A k \in steady' : ~After(next, k) /\ Matches(pattern, k) => k \in Range(got \o keys)
    BY Zenon, <1>18, <2>2 DEF After
  <2>6. scan' \in [pc : {"paging", "done"}, pattern : Pattern, count : Count,
                   cursor : Key \cup {<<>>}, got : Seq(Key)]
    <3>1. pattern \in Pattern /\ count \in Count
      BY Zenon, <1>1 DEF pattern, count
    <3> QED
      BY Zenon, <1>11, <1>15, <2>2, <2>3, <3>1
  <2>7. scan'.pc = "paging" /\ scan'.pc # "done"
    BY Zenon, <1>11, <2>3
  <2>8. IF scan'.got = <<>> THEN scan'.cursor = <<>> ELSE scan'.cursor = scan'.got[Len(scan'.got)]
    BY Zenon, <1>11, <2>2, <2>4
  <2>9. \A k \in steady' : ~After(scan'.cursor, k) /\ Matches(scan'.pattern, k) => k \in Range(scan'.got)
    BY Zenon, <1>11, <2>5
  <2>10. Ascending(scan'.got) /\ \A i \in DOMAIN scan'.got : Matches(scan'.pattern, scan'.got[i])
    BY Zenon, <1>11, <1>14, <1>16
  <2> QED
    BY Zenon, <1>8, <1>19, <1>20, <2>6, <2>7, <2>8, <2>9, <2>10 DEF ScanInv
<1>22. CASE Len(keys) # count
  <2>1. next = <<>>
    BY Zenon, <1>10, <1>22
  <2>2. pc = "done"
    BY Zenon, <2>1 DEF pc
  <2>3. \A k \in steady' : Matches(pattern, k) => k \in Range(got \o keys)
    BY Zenon, <1>18, <1>22
  <2>4. scan' \in [pc : {"paging", "done"}, pattern : Pattern, count : Count,
                   cursor : Key \cup {<<>>}, got : Seq(Key)]
    <3>1. pattern \in Pattern /\ count \in Count
      BY Zenon, <1>1 DEF pattern, count
    <3> QED
      BY Zenon, <1>11, <1>15, <2>1, <2>2, <3>1
  <2>5. scan'.pc = "done" /\ scan'.pc # "paging"
    BY <1>11, <2>2
  <2>6. \A k \in steady' : Matches(scan'.pattern, k) => k \in Range(scan'.got)
    BY Zenon, <1>11, <2>3
  <2>7. Ascending(scan'.got) /\ \A i \in DOMAIN scan'.got : Matches(scan'.pattern, scan'.got[i])
    BY Zenon, <1>11, <1>14, <1>16
  <2> QED
    BY Zenon, <1>20, <2>4, <2>5, <2>6, <2>7 DEF ScanInv
<1> QED
  BY Zenon, <1>21, <1>22

\* Any other step leaves the scan as it is.
LEMMA ScanStep ==
  ASSUME ScanInv, StoreShape, EngineEffect, Watch
  PROVE  ScanInv'
<1>1. CASE ScanPage
  BY Zenon, <1>1, PageStep DEF StoreShape
<1>2. ASSUME UNCHANGED engines \/ Sweep \/ Tick PROVE scan' = scan
  BY Zenon, <1>2 DEF engines, Sweep, Tick
<1>3. ASSUME NEW cmd \in Mutation, Do(cmd) PROVE scan' = scan
  BY Zenon, <1>3 DEF Do
<1>4. ASSUME NEW c \in Client, GetDropsDead(c) PROVE scan' = scan
  BY Zenon, <1>4 DEF GetDropsDead
<1>5. ASSUME NEW c \in Client, NEW k \in Key, GetSeesDead(c, k) PROVE scan' = scan
  BY Zenon, <1>5 DEF GetSeesDead
<1> QED
  BY Zenon, <1>1, <1>2, <1>3, <1>4, <1>5, ScanWaits DEF EngineEffect

\* The paging client's invariant holds throughout.
LEMMA ScanKept == Spec => []ScanInv
<1>1. Init => ScanInv
  <2> SUFFICES ASSUME Init PROVE ScanInv
    OBVIOUS
  <2>1. PICK d \in Initial : EnginesInit(d)
    BY Zenon DEF Init
  <2>2. PICK p \in Pattern, n \in Count : scan = Scanning(p, n)
    BY Zenon, <2>1 DEF EnginesInit
  <2>3. data = d /\ now = 1 /\ steady = LiveKeys(d, 1)
    BY Zenon, <2>1 DEF EnginesInit
  <2>4. /\ scan.pc = "paging" /\ scan.pc # "done" /\ scan.cursor = <<>> /\ scan.got = <<>>
        /\ scan \in [pc : {"paging", "done"}, pattern : Pattern, count : Count,
                     cursor : Key \cup {<<>>}, got : Seq(Key)]
    BY <2>2 DEF Scanning
  <2>5. steady \subseteq Key /\ steady \subseteq LiveKeys(data, now)
    BY Zenon, <2>3 DEF LiveKeys
  <2>6. \A i \in DOMAIN scan.got : FALSE
    BY <2>4
  <2>7. \A k \in steady : After(scan.cursor, k)
    BY Zenon, <2>4 DEF After
  <2>8. Ascending(scan.got)
    BY Zenon, <2>6 DEF Ascending
  <2> QED
    BY Zenon, <2>4, <2>5, <2>6, <2>7, <2>8 DEF ScanInv
<1>2. Shapes /\ ScanInv /\ [Next]_vars => ScanInv'
  <2> SUFFICES ASSUME Shapes, ScanInv, [Next]_vars PROVE ScanInv'
    OBVIOUS
  <2>0. CallInv /\ StoreShape
    BY Zenon DEF Shapes
  <2>1. CASE Next
    <3>1. EngineEffect /\ Watch
      BY Zenon, <2>0, <2>1, StepEffect DEF Next
    <3> QED
      BY Zenon, <2>0, <3>1, ScanStep
  <2>2. CASE UNCHANGED vars
    <3>1. scan' = scan /\ steady' = steady /\ data' = data /\ now' = now
      BY Zenon, <2>2 DEF vars, engineVars, engines, engine
    <3>2. (LiveKeys(data, now))' = LiveKeys(data, now)
      BY Zenon, <3>1 DEF LiveKeys, Live
    <3> QED
      BY Zenon, <3>1, <3>2 DEF ScanInv
  <2> QED
    BY Zenon, <2>1, <2>2
<1> QED
  BY <1>1, <1>2, ShapesKept, PTL DEF Spec

\* However writers, expiry and the sweep interleave with the pages of a scan, the pages
\* ascend without a repetition, hold only keys that the pattern means, and in the end
\* every such key that was live all the time.
THEOREM ScansMissNothing == Spec => []ScanReturnsEachOnce
<1>1. ScanInv => ScanReturnsEachOnce
  BY Zenon DEF ScanInv, ScanReturnsEachOnce
<1> QED
  BY <1>1, ScanKept, PTL

\* Engines that are alike return the same page.
LEMMA SamePage ==
  ASSUME StoreShape, MirrorInv, kept = {}, NEW cursor, NEW count \in Nat \ {0}, NEW pattern \in Pattern
  PROVE  FakePage(fake, cursor, count, pattern, now) = Page(data, cursor, count, pattern, now)
<1> DEFINE S == Candidates(data, cursor, pattern, now)
           F == {k \in Key : /\ fake.data[k] # Absent /\ ~ExpiredLocked(fake, k, now)
                             /\ After(cursor, k) /\ MatchGlob(pattern, k)}
           keys == Cut(Sorted(S), count)
<1>0. data \in Data /\ IsFiniteSet(Present(data)) /\ now \in Nat /\ fake \in Fake
  BY Zenon DEF StoreShape, MirrorInv
<1>1. ASSUME NEW k \in Key
      PROVE  /\ Live(data, k, now) <=> fake.data[k] # Absent /\ ~ExpiredLocked(fake, k, now)
             /\ Live(data, k, now) => fake.data[k] = data[k].Value
  <2>1. k \in Key \ kept
    BY Zenon
  <2>2. FakeGet(fake, k, now) = IF Live(data, k, now) THEN data[k].Value ELSE Absent
    BY Zenon, <1>0, <2>1, AlikeGet
  <2>3. Live(data, k, now) => data[k].Value # Absent
    BY Zenon, <1>0, <2>1, AlikeGet
  <2>4. FakeGet(fake, k, now) = IF ExpiredLocked(fake, k, now) THEN Absent ELSE fake.data[k]
    BY Zenon, <1>0, FakeDropForm
  <2> QED
    BY Zenon, <2>2, <2>3, <2>4
<1>2. F = S
  BY Zenon, <1>1 DEF Candidates
<1>3. S \subseteq Seq(Nat) /\ IsFiniteSet(S)
  BY Zenon, <1>0, CandidateFacts
<1>4. keys \in Seq(S)
  <2> HIDE DEF S
  <2> QED
    BY Zenon, <1>3, CutFacts
<1>5. \A i \in DOMAIN keys : fake.data[keys[i]] = data[keys[i]].Value
  <2> HIDE DEF keys
  <2>1. \A i \in DOMAIN keys : keys[i] \in S
    BY <1>4
  <2> QED
    BY Zenon, <1>1, <2>1 DEF Candidates
<1>6. FakePage(fake, cursor, count, pattern, now)
        = [items |-> [i \in DOMAIN keys |-> [key |-> keys[i], value |-> fake.data[keys[i]]]],
           next  |-> NextCursor(keys, count)]
  <2>1. FakePage(fake, cursor, count, pattern, now)
          = [items |-> [i \in DOMAIN Cut(Sorted(F), count) |->
                          [key |-> Cut(Sorted(F), count)[i], value |-> fake.data[Cut(Sorted(F), count)[i]]]],
             next  |-> NextCursor(Cut(Sorted(F), count), count)]
    BY Zenon DEF FakePage
  <2>2. Cut(Sorted(F), count) = keys
    BY Zenon, <1>2
  <2> HIDE DEF F, keys
  <2> QED
    BY Zenon, <2>1, <2>2
<1>7. Page(data, cursor, count, pattern, now)
        = [items |-> [i \in DOMAIN keys |-> [key |-> keys[i], value |-> data[keys[i]].Value]],
           next  |-> NextCursor(keys, count)]
  BY Zenon DEF Page, PageKeys, Candidates
<1> HIDE DEF keys, S, F
<1>8. [i \in DOMAIN keys |-> [key |-> keys[i], value |-> fake.data[keys[i]]]]
        = [i \in DOMAIN keys |-> [key |-> keys[i], value |-> data[keys[i]].Value]]
  BY Zenon, <1>5
<1> QED
  BY Zenon, <1>6, <1>7, <1>8

\* The fake answers its callers as the store does, read for read, mutation for mutation and
\* page for page, except for keys whose deadline its Incr kept.
THEOREM FakeMirrors == Spec => []FakeMirrorsMemStore
<1>1. Init => MirrorInv
  <2> SUFFICES ASSUME Init PROVE MirrorInv
    OBVIOUS
  <2>1. PICK d \in Initial : EnginesInit(d)
    BY Zenon DEF Init
  <2>2. data = d /\ now = 1 /\ fake = Mirror(d) /\ kept = {}
    BY Zenon, <2>1 DEF EnginesInit
  <2>3. d \in Data
    BY Zenon, ApiAssumption
  <2> DEFINE D == [k \in Key |-> IF d[k] = Absent THEN Absent ELSE d[k].Value]
             X == [k \in Key |-> IF d[k] = Absent \/ d[k].Exp = 0 THEN Absent ELSE d[k].Exp]
  <2>4. fake.data = D /\ fake.expires = X /\ fake = [data |-> D, expires |-> X]
    <3>1. fake = [data |-> D, expires |-> X]
      BY Zenon, <2>2 DEF Mirror
    <3> HIDE DEF D, X
    <3> QED
      BY <3>1
  <2>5. \A k \in Key : d[k] # Absent => d[k].Value \in Text /\ d[k].Exp \in Nat
    BY Zenon, <2>3, PresentEntry
  <2>6. D \in [Key -> Text \cup {Absent}] /\ X \in [Key -> Nat \cup {Absent}]
    BY Zenon, <2>5
  <2>7. \A k \in Key : /\ D[k] = (IF d[k] = Absent THEN Absent ELSE d[k].Value)
                       /\ X[k] = (IF d[k] = Absent \/ d[k].Exp = 0 THEN Absent ELSE d[k].Exp)
    BY Zenon
  <2> HIDE DEF D, X
  <2>8. fake \in Fake
    BY <2>4, <2>6 DEF Fake
  <2>9. ASSUME NEW k \in Key PROVE fake.data[k] = Absent => fake.expires[k] = Absent
    <3>1. d[k] # Absent => d[k].Value # Absent
      BY Zenon, <2>5, AbsentAssumption
    <3>2. D[k] = Absent => d[k] = Absent
      BY Zenon, <2>7, <3>1
    <3>3. d[k] = Absent => X[k] = Absent
      BY Zenon, <2>7
    <3> QED
      BY Zenon, <2>4, <3>2, <3>3
  <2>10. ASSUME NEW k \in Key PROVE Alike(k)
    <3>1. CASE Live(data, k, now)
      <4>1. d[k] # Absent
        BY Zenon, <2>2, <3>1 DEF Live
      <4>2. D[k] = d[k].Value /\ X[k] = IF d[k].Exp = 0 THEN Absent ELSE d[k].Exp
        BY Zenon, <2>7, <4>1
      <4> QED
        BY Zenon, <2>2, <2>4, <3>1, <4>2 DEF Alike
    <3>2. CASE ~Live(data, k, now)
      <4>1. CASE d[k] = Absent
        <5>1. fake.data[k] = Absent
          BY Zenon, <2>4, <2>7, <4>1
        <5> QED
          BY Zenon, <3>2, <5>1 DEF Alike
      <4>2. CASE d[k] # Absent
        <5>1. d[k].Exp # 0 /\ now >= d[k].Exp
          BY Zenon, <2>2, <3>2, <4>2 DEF Live, EntryExpired
        <5>2. X[k] = d[k].Exp /\ d[k].Exp \in Nat
          BY Zenon, <2>5, <2>7, <4>2, <5>1
        <5>3. ExpiredLocked(fake, k, now)
          BY Zenon, <2>4, <5>1, <5>2, NoDeadlineAssumption DEF ExpiredLocked
        <5> QED
          BY Zenon, <3>2, <5>3 DEF Alike
      <4> QED
        BY Zenon, <4>1, <4>2
    <3> QED
      BY Zenon, <3>1, <3>2
  <2>11. kept \subseteq Key
    BY Zenon, <2>2
  <2> QED
    BY Zenon, <2>8, <2>9, <2>10, <2>11 DEF MirrorInv
<1>2. Shapes /\ MirrorInv /\ [Next]_vars => MirrorInv'
  <2> SUFFICES ASSUME Shapes, MirrorInv, [Next]_vars PROVE MirrorInv'
    OBVIOUS
  <2>0. CallInv /\ StoreShape
    BY Zenon DEF Shapes
  <2>1. CASE Next
    <3>1. EngineEffect
      BY Zenon, <2>0, <2>1, StepEffect DEF Next
    <3> QED
      BY Zenon, <2>0, <3>1, MirrorStep
  <2>2. CASE UNCHANGED vars
    <3>1. UNCHANGED engines
      BY Zenon, <2>2 DEF vars, engineVars
    <3>2. EngineEffect
      BY Zenon, <3>1 DEF EngineEffect
    <3> QED
      BY Zenon, <2>0, <3>2, MirrorStep
  <2> QED
    BY Zenon, <2>1, <2>2
<1>3. Shapes /\ ScanInv /\ MirrorInv => FakeMirrorsMemStore
  <2> SUFFICES ASSUME Shapes, ScanInv, MirrorInv PROVE FakeMirrorsMemStore
    OBVIOUS
  <2>0. StoreShape /\ data \in Data /\ now \in Nat
    BY Zenon DEF Shapes, StoreShape
  <2>1. \A k \in Key \ kept :
          FakeGet(fake, k, now) = (IF Live(data, k, now) THEN data[k].Value ELSE Absent)
    BY Zenon, <2>0, AlikeGet
  <2>2. \A c \in Command :
          c[1] # "clear" /\ c[2] \notin kept => FakeOutcome(fake, c, now) = Outcome(data, c, now)
    <3>1. \A c \in Command : c \in Mutation
      BY Zenon, EnginesAssumption
    <3> QED
      BY Zenon, <2>0, <3>1, SameOutcome
  <2>3. kept = {} => FakePage(fake, scan.cursor, scan.count, scan.pattern, now)
                       = Page(data, scan.cursor, scan.count, scan.pattern, now)
    <3>1. scan.count \in Count /\ scan.pattern \in Pattern
      BY DEF ScanInv
    <3>2. scan.count \in Nat \ {0}
      BY Zenon, <3>1, EnginesAssumption
    <3> QED
      BY Zenon, <2>0, <3>1, <3>2, SamePage
  <2> QED
    BY Zenon, <2>1, <2>2, <2>3 DEF FakeMirrorsMemStore
<1> QED
  BY <1>1, <1>2, <1>3, ShapesKept, ScanKept, PTL DEF Spec
=============================================================================
