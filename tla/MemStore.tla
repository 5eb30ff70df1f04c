------------------------------ MODULE MemStore ------------------------------
(***************************************************************************)
(* The in-memory key-value map of pkg/storage/memstore.go as operators on  *)
(* its contents: d is the map m.data, t the clock reading m.now() that the *)
(* call takes under m.mu.                                                  *)
(*                                                                         *)
(* A value is a text.  What the store tells apart is whether               *)
(* strconv.ParseInt reads a number in it, and whether two texts are equal, *)
(* so a text is a pair: <<"canonical", n>> is what FormatInt writes for n, *)
(* <<"padded", n>> another spelling of the same number ("+7", "007"), and  *)
(* <<"word", n>> one of the texts that are not a number.                   *)
(***************************************************************************)
EXTENDS Integers, Sequences

CONSTANTS
  Key,        \* the keys
  Absent,     \* what the map holds for a key it does not have
  MaxInt64    \* math.MaxInt64, scaled down

ASSUME MaxInt64Assumption == MaxInt64 \in Nat \ {0}

Text == {"canonical", "padded", "word"} \X (0..MaxInt64)

\* One stored value with its optional deadline; 0 means no expiry.
Entry == [Value : Text, Exp : Nat]

Data == [Key -> Entry \cup {Absent}]

\* A key that is missing is told apart from every value.
ASSUME AbsentAssumption == Absent \notin Entry \cup Text

NewMemStore == [k \in Key |-> Absent]

(***************************************************************************)
(* Expiry                                                                  *)
(***************************************************************************)
EntryExpired(e, t) == e.Exp # 0 /\ t >= e.Exp

\* Get finds the key: it is present and its deadline has not passed.
Live(d, k, t) == d[k] # Absent /\ ~EntryExpired(d[k], t)

\* What every method does first with an expired entry it meets.
DropDead(d, k, t) ==
  IF d[k] # Absent /\ EntryExpired(d[k], t) THEN [d EXCEPT ![k] = Absent] ELSE d

SweepExpired(d, t) ==
  [k \in Key |-> IF d[k] # Absent /\ EntryExpired(d[k], t) THEN Absent ELSE d[k]]

(***************************************************************************)
(* strconv.ParseInt and strconv.FormatInt                                  *)
(***************************************************************************)
IsNumeric(text) == text[1] # "word"

ParseInt(text) == text[2]

FormatInt(n) == <<"canonical", n>>

(***************************************************************************)
(* The mutations                                                           *)
(***************************************************************************)
MemPut(d, k, v) == [d EXCEPT ![k] = [Value |-> v, Exp |-> 0]]

MemDelete(d, k) == [d EXCEPT ![k] = Absent]

\* Variant: the number MaxInt64 is incremented like any other.
CanIncrUnchecked(d, k, t) == Live(d, k, t) => IsNumeric(d[k].Value)

\* A live value that is not a number, or is MaxInt64, stays as it is.
CanIncr(d, k, t) ==
  Live(d, k, t) => IsNumeric(d[k].Value) /\ ParseInt(d[k].Value) # MaxInt64

MemIncr(d, k, t) ==
  IF ~Live(d, k, t) THEN MemPut(d, k, FormatInt(1))
  ELSE IF CanIncr(d, k, t) THEN MemPut(d, k, FormatInt(ParseInt(d[k].Value) + 1))
  ELSE d

MemCAS(d, k, old, new, t) ==
  IF Live(d, k, t) /\ d[k].Value = old THEN MemPut(d, k, new) ELSE DropDead(d, k, t)

\* Variant: an entry whose deadline has passed gets the new deadline all the same.
MemExpireDead(d, k, at, t) == IF d[k] # Absent THEN [d EXCEPT ![k].Exp = at] ELSE d

MemExpire(d, k, at, t) ==
  IF Live(d, k, t) THEN [d EXCEPT ![k].Exp = at] ELSE DropDead(d, k, t)

(***************************************************************************)
(* Commands: <<"put", k, v>>, <<"delete", k>>, <<"clear">>, <<"incr", k>>, *)
(* <<"cas", k, old, new>>, <<"expire", k, at>>.                            *)
(***************************************************************************)
ApplyRecord(d, c, t) ==
  CASE c[1] = "put"    -> MemPut(d, c[2], c[3])
    [] c[1] = "delete" -> MemDelete(d, c[2])
    [] c[1] = "clear"  -> NewMemStore
    [] c[1] = "incr"   -> MemIncr(d, c[2], t)
    [] c[1] = "cas"    -> MemCAS(d, c[2], c[3], c[4], t)
    [] c[1] = "expire" -> MemExpire(d, c[2], c[3], t)

ApplyAll(d, cmds, t) ==
  LET after[n \in 0..Len(cmds)] == IF n = 0 THEN d ELSE ApplyRecord(after[n - 1], cmds[n], t)
  IN  after[Len(cmds)]

\* What the caller of a command is answered, when the write itself succeeds.
Outcome(d, c, t) ==
  CASE c[1] = "incr" ->
         IF CanIncr(d, c[2], t) THEN <<"number", MemIncr(d, c[2], t)[c[2]].Value>>
         ELSE <<"error">>
    [] c[1] = "cas" ->
         IF ~Live(d, c[2], t) THEN <<"not found">>
         ELSE IF d[c[2]].Value = c[3] THEN <<"swapped">> ELSE <<"mismatch">>
    [] c[1] = "expire" -> IF Live(d, c[2], t) THEN <<"ok">> ELSE <<"not found">>
    [] OTHER -> <<"ok">>
=============================================================================
