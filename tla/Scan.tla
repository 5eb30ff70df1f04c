-------------------------------- MODULE Scan --------------------------------
(***************************************************************************)
(* Paging over the keys of a store: the order of keys, the '*' patterns of *)
(* matchGlob (pkg/storage/fake.go) and one page of MemStore.Scan           *)
(* (pkg/storage/memstore.go).  A key is the sequence of its characters,    *)
(* which are numbers; a pattern may also contain Star.                     *)
(***************************************************************************)
EXTENDS MemStore, FiniteSets, Functions

CONSTANTS
  Star,      \* the character '*' of a pattern
  Pattern    \* the patterns that callers scan for

\* validateKey admits no star in a key.
ASSUME ScanAssumption ==
  /\ Key \subseteq Seq(Nat) \ {<<>>} /\ Star \notin Nat
  /\ <<>> \in Pattern /\ Pattern \subseteq Seq(Nat \cup {Star})

\* The order of Go's string comparison.
KeyLess(a, b) ==
  \/ Len(a) < Len(b) /\ \A j \in 1..Len(a) : a[j] = b[j]
  \/ \E i \in 1..Len(a) :
       i <= Len(b) /\ a[i] < b[i] /\ \A j \in 1..(i - 1) : a[j] = b[j]

(***************************************************************************)
(* matchGlob: p and s are the positions in the pattern and in the text,    *)
(* star the last star met (0 before any) and mark the position in the text *)
(* from which it is to be tried again.                                     *)
(***************************************************************************)
GlobPosition(pattern, text) ==
  {q \in [p : 1..(Len(pattern) + 1), s : 1..(Len(text) + 1),
          star : 0..Len(pattern), mark : 0..(Len(text) + 1)] : q.mark <= q.s}

GlobStart == [p |-> 1, s |-> 1, star |-> 0, mark |-> 0]

Literal(pattern, text, q) == q.p <= Len(pattern) /\ pattern[q.p] = text[q.s]

AtStar(pattern, q) == q.p <= Len(pattern) /\ pattern[q.p] = Star

\* One turn of the loop: the characters are equal, a star is met, or the last star
\* takes one character more.
GlobNext(pattern, text, q) ==
  IF Literal(pattern, text, q) THEN [q EXCEPT !.p = @ + 1, !.s = @ + 1]
  ELSE IF AtStar(pattern, q) THEN [q EXCEPT !.p = @ + 1, !.star = q.p, !.mark = q.s]
  ELSE [q EXCEPT !.p = q.star + 1, !.s = q.mark + 1, !.mark = @ + 1]

\* The text does not match, and no star can be tried again.
GlobStuck(pattern, text, q) ==
  ~Literal(pattern, text, q) /\ ~AtStar(pattern, q) /\ q.star = 0

MatchGlob(pattern, text) ==
  LET glob[q \in GlobPosition(pattern, text)] ==
        IF q.s > Len(text) THEN \A i \in q.p..Len(pattern) : pattern[i] = Star
        ELSE ~GlobStuck(pattern, text, q) /\ glob[GlobNext(pattern, text, q)]
  IN  pattern = <<>> \/ glob[GlobStart]

\* What a pattern means: its characters are laid over the text in order, a
\* star over any stretch, every other character over its equal.
Matches(pattern, text) ==
  \/ pattern = <<>>
  \/ \E start \in [1..(Len(pattern) + 1) -> 1..(Len(text) + 1)] :
       /\ start[1] = 1 /\ start[Len(pattern) + 1] = Len(text) + 1
       /\ \A i \in 1..Len(pattern) :
            IF pattern[i] = Star THEN start[i] <= start[i + 1]
            ELSE start[i + 1] = start[i] + 1 /\ text[start[i]] = pattern[i]

(***************************************************************************)
(* One page: up to count live keys after the cursor, in order.  The empty  *)
(* cursor starts a scan, and as the next cursor it says the scan is over.  *)
(***************************************************************************)
After(cursor, k) == cursor = <<>> \/ KeyLess(cursor, k)

Ascending(keys) == \A i, j \in DOMAIN keys : i < j => KeyLess(keys[i], keys[j])

\* sort.Slice.
Sorted(S) == CHOOSE keys \in [1..Cardinality(S) -> S] : Range(keys) = S /\ Ascending(keys)

Cut(keys, count) == SubSeq(keys, 1, IF Len(keys) > count THEN count ELSE Len(keys))

\* Variant: the test that belongs before the cut is made after it.
NextCursorAfterCut(keys, count) == IF Len(keys) > count THEN keys[Len(keys)] ELSE <<>>

NextCursor(keys, count) == IF Len(keys) = count THEN keys[Len(keys)] ELSE <<>>

PageKeys(d, cursor, count, pattern, t) ==
  Cut(Sorted({k \in Key : Live(d, k, t) /\ After(cursor, k) /\ MatchGlob(pattern, k)}), count)

Page(d, cursor, count, pattern, t) ==
  LET keys == PageKeys(d, cursor, count, pattern, t)
  IN  [items |-> [i \in DOMAIN keys |-> [key |-> keys[i], value |-> d[keys[i]].Value]],
       next  |-> NextCursor(keys, count)]
=============================================================================
