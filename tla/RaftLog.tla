------------------------------- MODULE RaftLog -------------------------------
(***************************************************************************)
(* The replicated log of one raft node (pkg/raft/types.go, follower.go,    *)
(* snapshot.go) as a value.  A log is the compaction base                  *)
(* (lastIncludedIndex, lastIncludedTerm) and the entries retained after    *)
(* it; the entry at position k of "entries" has raft index base + k.       *)
(* An entry carries the term it was proposed in and its command, which     *)
(* stays uninterpreted here.                                               *)
(***************************************************************************)
EXTENDS Integers, Sequences

CONSTANT Command        \* the commands a log entry may carry

Entry == [term: Nat, cmd: Command]
Log == [base: Nat, baseTerm: Nat, entries: Seq(Entry)]

\* The largest and the smallest of a set of numbers.
Max(S) == CHOOSE x \in S : \A y \in S : x >= y
Min(S) == CHOOSE x \in S : \A y \in S : x <= y

EmptyLog == [base |-> 0, baseTerm |-> 0, entries |-> <<>>]

(***************************************************************************)
(* Reading a log.                                                          *)
(***************************************************************************)
LastLogIndex(l) == l.base + Len(l.entries)

FirstIndex(l) == l.base + 1

\* logOffset(idx) >= 0: the entry is neither compacted away nor beyond the end.
HasEntry(l, idx) == idx > l.base /\ idx <= LastLogIndex(l)

EntryAt(l, idx) == l.entries[idx - l.base]

\* -1 stands for "no such entry": compacted away or beyond the end.
LogTermAt(l, idx) ==
  CASE idx = 0                                      -> 0
    [] idx # 0 /\ idx = l.base                      -> l.baseTerm
    [] idx # 0 /\ idx # l.base /\ HasEntry(l, idx)  -> EntryAt(l, idx).term
    [] OTHER                                        -> -1

\* Variant: the term is read one entry past the end.
LastLogTermPastEnd(l) == LogTermAt(l, LastLogIndex(l) + 1)

LastLogTerm(l) ==
  IF l.entries = <<>> THEN l.baseTerm ELSE l.entries[Len(l.entries)].term

\* Variant: the request leaves out the entry at idx.
EntriesAfter(l, idx) == SubSeq(l.entries, idx - l.base + 1, Len(l.entries))

\* The retained entries from raft index idx on (idx at or after firstIndex).
EntriesFrom(l, idx) == SubSeq(l.entries, idx - l.base, Len(l.entries))

\* The vote rule: a log ending in (idx, t) is at least as fresh as l.
AtLeastAsFresh(t, idx, l) ==
  \/ t > LastLogTerm(l)
  \/ t = LastLogTerm(l) /\ idx >= LastLogIndex(l)

(***************************************************************************)
(* Changing a log.                                                         *)
(***************************************************************************)
AppendEntry(l, e) == [l EXCEPT !.entries = Append(@, e)]

\* n.log = n.log[:idx - base], or empty when idx is below the base.
TruncateAfter(l, idx) ==
  [l EXCEPT !.entries = SubSeq(@, 1, idx - l.base)]

CheckPrevLog(l, prev, prevTerm) ==
  /\ prev <= LastLogIndex(l)
  /\ prev > 0 => LogTermAt(l, prev) = prevTerm

\* mergeEntries first drops whatever lies beyond the end of the request.
DropBeyond(l, end) == IF end < LastLogIndex(l) THEN TruncateAfter(l, end) ELSE l

\* Positions of the request whose entry is not already in the log: not covered
\* by the compaction base, and beyond the end or of a different term.
Missing(l, prev, es) ==
  {k \in 1..Len(es) : /\ prev + k > l.base
                      /\ \/ prev + k > LastLogIndex(l)
                         \/ LogTermAt(l, prev + k) # es[k].term}

\* The first n elements of s, then es from position f on.
Splice(s, n, es, f) == SubSeq(s, 1, n) \o SubSeq(es, f, Len(es))

\* From the first missing position on, the log is what the request carries.
Graft(l, prev, es) ==
  LET miss == Missing(l, prev, es)
      first == Min(miss)
  IN  IF miss = {} THEN l
      ELSE [l EXCEPT !.entries = Splice(@, prev + first - l.base - 1, es, first)]

MergeEntries(l, prev, es) == Graft(DropBeyond(l, prev + Len(es)), prev, es)

\* What mergeEntries returns: whether the caller has something to persist.
MergeChanges(l, prev, es) ==
  \/ prev + Len(es) < LastLogIndex(l)
  \/ Missing(DropBeyond(l, prev + Len(es)), prev, es) # {}

(***************************************************************************)
(* Terms along a log never decrease, the base included.                    *)
(***************************************************************************)
TermsAscend(l) ==
  /\ \A k \in 1..Len(l.entries) : l.baseTerm <= l.entries[k].term
  /\ \A j, k \in 1..Len(l.entries) :
       j <= k => l.entries[j].term <= l.entries[k].term

\* The same for the part of a log that an AppendEntries request carries: it goes
\* on from prevTerm and stays within the term t of the sender.
RequestAscends(prevTerm, es, t) ==
  /\ \A k \in 1..Len(es) : prevTerm <= es[k].term /\ es[k].term <= t
  /\ \A j, k \in 1..Len(es) : j <= k => es[j].term <= es[k].term

(***************************************************************************)
(* Two copies of a log, or of parts of it, match when an index at which    *)
(* they have entries of the same term is one up to which they agree: on    *)
(* the entries both have and on the terms both know, the base's included.  *)
(***************************************************************************)
SameAt(a, b, m) ==
  /\ m >= a.base /\ m >= b.base => LogTermAt(a, m) = LogTermAt(b, m)
  /\ m > a.base /\ m > b.base => EntryAt(a, m) = EntryAt(b, m)

LogsMatch(a, b) ==
  \A k \in 1..LastLogIndex(a) :
    (HasEntry(a, k) /\ HasEntry(b, k) /\ EntryAt(a, k).term = EntryAt(b, k).term)
      => \A m \in 0..k : SameAt(a, b, m)
=============================================================================
