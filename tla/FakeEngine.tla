----------------------------- MODULE FakeEngine -----------------------------
(***************************************************************************)
(* The contract fake of pkg/storage/fake.go, on which the API layer is     *)
(* tested: f.data holds the values, f.expires the deadlines of the keys    *)
(* that have one.                                                          *)
(***************************************************************************)
EXTENDS Scan

Fake == [data : [Key -> Text \cup {Absent}], expires : [Key -> Nat \cup {Absent}]]

\* A key without a deadline is told apart from every deadline.
ASSUME NoDeadlineAssumption == Absent \notin Nat

NewFakeEngine == [data |-> [k \in Key |-> Absent], expires |-> [k \in Key |-> Absent]]

ExpiredLocked(f, k, t) == f.expires[k] # Absent /\ t >= f.expires[k]

FakeStore(f, k, v, at) ==
  [data |-> [f.data EXCEPT ![k] = v], expires |-> [f.expires EXCEPT ![k] = at]]

\* What Get, Incr, CAS and Expire do first.
FakeDropDead(f, k, t) == IF ExpiredLocked(f, k, t) THEN FakeStore(f, k, Absent, Absent) ELSE f

FakeGet(f, k, t) == FakeDropDead(f, k, t).data[k]

FakeIncr(f, k, t) ==
  LET g == FakeDropDead(f, k, t)
  IN  IF g.data[k] = Absent THEN [g EXCEPT !.data[k] = FormatInt(1)]
      ELSE IF ~IsNumeric(g.data[k]) \/ ParseInt(g.data[k]) = MaxInt64 THEN g
      ELSE [g EXCEPT !.data[k] = FormatInt(ParseInt(g.data[k]) + 1)]

FakeCAS(f, k, old, new, t) ==
  LET g == FakeDropDead(f, k, t)
  IN  IF g.data[k] = old THEN FakeStore(g, k, new, Absent) ELSE g

FakeExpire(f, k, at, t) ==
  LET g == FakeDropDead(f, k, t)
  IN  IF g.data[k] = Absent THEN g ELSE [g EXCEPT !.expires[k] = at]

FakeApply(f, c, t) ==
  CASE c[1] = "put"    -> FakeStore(f, c[2], c[3], Absent)
    [] c[1] = "delete" -> FakeStore(f, c[2], Absent, Absent)
    [] c[1] = "clear"  -> NewFakeEngine
    [] c[1] = "incr"   -> FakeIncr(f, c[2], t)
    [] c[1] = "cas"    -> FakeCAS(f, c[2], c[3], c[4], t)
    [] c[1] = "expire" -> FakeExpire(f, c[2], c[3], t)

\* What the caller of a command is answered.
FakeOutcome(f, c, t) ==
  CASE c[1] = "incr" ->
         LET cur == FakeGet(f, c[2], t)
         IN  IF cur # Absent /\ (~IsNumeric(cur) \/ ParseInt(cur) = MaxInt64) THEN <<"error">>
             ELSE <<"number", FakeIncr(f, c[2], t).data[c[2]]>>
    [] c[1] = "cas" ->
         LET cur == FakeGet(f, c[2], t)
         IN  IF cur = Absent THEN <<"not found">>
             ELSE IF cur # c[3] THEN <<"mismatch">> ELSE <<"swapped">>
    [] c[1] = "expire" -> IF FakeGet(f, c[2], t) = Absent THEN <<"not found">> ELSE <<"ok">>
    [] OTHER -> <<"ok">>

FakePage(f, cursor, count, pattern, t) ==
  LET keys == Cut(Sorted({k \in Key : /\ f.data[k] # Absent /\ ~ExpiredLocked(f, k, t)
                                      /\ After(cursor, k) /\ MatchGlob(pattern, k)}),
                  count)
  IN  [items |-> [i \in DOMAIN keys |-> [key |-> keys[i], value |-> f.data[keys[i]]]],
       next  |-> NextCursor(keys, count)]
=============================================================================
