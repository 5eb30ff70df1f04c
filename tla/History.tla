------------------------------ MODULE History ------------------------------
(***************************************************************************)
(* The single-key history checker of pkg/linearizability/checker.go.  An   *)
(* operation is a record [kind, seq, reader, start, end]; the checker goes *)
(* through the reads in the order they were recorded and returns the       *)
(* positions of those it objects to.                                       *)
(***************************************************************************)
EXTENDS Integers, Sequences, FiniteSets

\* writes[seq]: the last write of the version that was recorded.
WritesOf(ops, seq) == {i \in DOMAIN ops : ops[i].kind = "write" /\ ops[i].seq = seq}

LastWrite(ops, seq) == ops[CHOOSE i \in WritesOf(ops, seq) : \A j \in WritesOf(ops, seq) : j <= i]

\* A read that ended before the write of what it returned began.
TooEarly(ops, o) ==
  /\ WritesOf(ops, o.seq) # {}
  /\ LET w == LastWrite(ops, o.seq) IN w.start > 0 /\ o.end > 0 /\ o.end <= w.start

\* Reads of the empty value are passed over.
IsRead(o) == o.kind = "read" /\ o.seq # 0

\* maxSeen[r], or 0.
MaxSeen(seen, r) == IF r \in DOMAIN seen THEN seen[r] ELSE 0

\* One turn of the loop over the operations: acc is [seen, errs].
CheckNext(ops, acc, i) ==
  LET o == ops[i]
  IN  IF ~IsRead(o) THEN acc
      ELSE [seen |-> IF o.seq > MaxSeen(acc.seen, o.reader)
                     THEN [r \in DOMAIN acc.seen \cup {o.reader} |->
                             IF r = o.reader THEN o.seq ELSE acc.seen[r]]
                     ELSE acc.seen,
            errs |-> IF TooEarly(ops, o) \/ o.seq < MaxSeen(acc.seen, o.reader)
                     THEN acc.errs \cup {i} ELSE acc.errs]

Check(ops) ==
  LET after[i \in 0..Len(ops)] ==
        IF i = 0 THEN [seen |-> <<>>, errs |-> {}] ELSE CheckNext(ops, after[i - 1], i)
  IN  after[Len(ops)].errs

\* What the checker's comment promises: no reader is served a version older than one
\* it was served before, and no version before its write began.
Objectionable(ops) ==
  {i \in DOMAIN ops :
     /\ IsRead(ops[i])
     /\ \/ TooEarly(ops, ops[i])
        \/ \E j \in 1..(i - 1) : /\ IsRead(ops[j]) /\ ops[j].reader = ops[i].reader
                                 /\ ops[j].seq > ops[i].seq}
=============================================================================
