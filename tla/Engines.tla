------------------------------ MODULE Engines ------------------------------
(***************************************************************************)
(* One memory store in use: mutations, callers whose Get drops an expired  *)
(* key in a second critical section, the sweep of expireLoop, and a client *)
(* that pages through the keys with GET /kv, sending back the cursor of    *)
(* every answer.  Beside it the contract fake is given the same mutations. *)
(***************************************************************************)
EXTENDS FakeEngine

CONSTANTS
  Command,   \* the mutations the two engines are compared on
  Client,    \* the callers, each with a handler of its own on the server
  Count,     \* the page sizes that clients ask for
  MaxNow     \* bound on the clock

\* What an engine can be asked to change: keys, values and deadlines are checked before.
Mutation ==
  {<<"clear">>} \cup ({"delete", "incr"} \X Key) \cup ({"put"} \X Key \X Text)
    \cup ({"cas"} \X Key \X Text \X Text) \cup ({"expire"} \X Key \X (Nat \ {0}))

ASSUME EnginesAssumption ==
  Command \subseteq Mutation /\ Count \subseteq Nat \ {0} /\ MaxNow \in Nat

VARIABLES
  data,      \* m.data
  expired,   \* m.expired
  now,       \* the clock
  dying,     \* the key that a caller's Get saw expired, between its two sections
  fake,      \* the contract fake
  kept,      \* the keys whose deadline the fake kept where the store cleared it
  deadlines, \* how many deadlines were set
  scan,      \* the paging client
  steady     \* the keys that were live all the time since the scan began

engine == <<data, expired, fake, kept, deadlines>>

engines == <<engine, now, dying, scan>>

engineVars == <<engines, steady>>

LiveKeys(d, t) == {k \in Key : Live(d, k, t)}

\* A scan before its first page.
Scanning(pattern, count) ==
  [pc |-> "paging", pattern |-> pattern, count |-> count, cursor |-> <<>>, got |-> <<>>]

\* The fake with the contents of a store.
Mirror(d) ==
  [data    |-> [k \in Key |-> IF d[k] = Absent THEN Absent ELSE d[k].Value],
   expires |-> [k \in Key |-> IF d[k] = Absent \/ d[k].Exp = 0 THEN Absent ELSE d[k].Exp]]

\* The store has been filled with initial by earlier writes.
EnginesInit(initial) ==
  /\ data = initial /\ fake = Mirror(initial) /\ kept = {}
  /\ deadlines = Cardinality({k \in Key : initial[k] # Absent /\ initial[k].Exp # 0})
  /\ expired = 0
  /\ now = 1
  /\ dying = [c \in Client |-> Absent]
  /\ \E p \in Pattern, n \in Count : scan = Scanning(p, n)
  /\ steady = LiveKeys(initial, 1)

(***************************************************************************)
(* Mutations                                                               *)
(***************************************************************************)

Dead(k) == data[k] # Absent /\ EntryExpired(data[k], now)

\* A method that looks at the key's entry meets it dead and counts it.
MeetsDead(c) ==
  /\ c[1] \in {"incr", "cas", "expire"}
  /\ Dead(c[2])

\* Incr gives the store's entry no deadline and leaves the fake's in place.
KeepsDeadline(c) ==
  c[1] = "incr" /\ Live(data, c[2], now) /\ CanIncr(data, c[2], now) /\ data[c[2]].Exp # 0

\* The mutation leaves the key alike in both.
Levels(c) ==
  IF c[1] = "clear" THEN Key
  ELSE IF \/ c[1] \in {"put", "delete"}
          \/ c[1] = "cas" /\ Outcome(data, c, now) = <<"swapped">>
                          /\ FakeOutcome(fake, c, now) = <<"swapped">>
  THEN {c[2]} ELSE {}

Do(c) ==
  /\ data' = ApplyRecord(data, c, now)
  /\ expired' = IF MeetsDead(c) THEN expired + 1 ELSE expired
  /\ deadlines' = IF c[1] = "expire" /\ Outcome(data, c, now) = <<"ok">>
                  THEN deadlines + 1 ELSE deadlines
  /\ fake' = FakeApply(fake, c, now)
  /\ kept' = (kept \ Levels(c)) \cup (IF KeepsDeadline(c) THEN {c[2]} ELSE {})
  /\ UNCHANGED <<now, dying, scan>>

(***************************************************************************)
(* Get and SweepExpired                                                    *)
(***************************************************************************)

\* Under the read lock the key is found expired.
GetSeesDead(c, k) ==
  /\ Dead(k)
  /\ dying' = [dying EXCEPT ![c] = k]
  /\ UNCHANGED <<engine, now, scan>>

\* Variant: the entry is dropped without another look.
GetDropsUnchecked(c) ==
  /\ dying[c] # Absent
  /\ data' = [data EXCEPT ![dying[c]] = Absent]
  /\ expired' = IF Dead(dying[c]) THEN expired + 1 ELSE expired
  /\ dying' = [dying EXCEPT ![c] = Absent]
  /\ UNCHANGED <<now, fake, kept, deadlines, scan>>

\* Variant: the key is counted whether or not it is still there.
GetCountsUnchecked(c) ==
  /\ dying[c] # Absent
  /\ data' = DropDead(data, dying[c], now) /\ expired' = expired + 1
  /\ dying' = [dying EXCEPT ![c] = Absent]
  /\ UNCHANGED <<now, fake, kept, deadlines, scan>>

\* Under the write lock the entry is looked up again and dropped when it is dead.
GetDropsDead(c) ==
  /\ dying[c] # Absent
  /\ data' = DropDead(data, dying[c], now)
  /\ expired' = IF data' # data THEN expired + 1 ELSE expired
  /\ dying' = [dying EXCEPT ![c] = Absent]
  /\ UNCHANGED <<now, fake, kept, deadlines, scan>>

Sweep ==
  /\ data' = SweepExpired(data, now) /\ data' # data
  /\ expired' = expired + Cardinality({k \in Key : data'[k] # data[k]})
  /\ UNCHANGED <<now, dying, fake, kept, deadlines, scan>>

Tick ==
  /\ now < MaxNow /\ now' = now + 1
  /\ UNCHANGED <<engine, dying, scan>>

(***************************************************************************)
(* The paging client (handleScan is one call of Scan)                      *)
(***************************************************************************)
\* The client keeps the keys it is sent.
KeysOf(items) == [i \in DOMAIN items |-> items[i].key]

ScanPage ==
  /\ scan.pc = "paging"
  /\ LET page == Page(data, scan.cursor, scan.count, scan.pattern, now)
     IN  scan' = [scan EXCEPT !.got = @ \o KeysOf(page.items), !.cursor = page.next,
                              !.pc = IF page.next = <<>> THEN "done" ELSE "paging"]
  /\ UNCHANGED <<engine, now, dying>>

\* What is watched while a scan runs.
Watch ==
  steady' = IF scan.pc = "paging" THEN steady \cap LiveKeys(data', now') ELSE steady

\* The steps that no call of a client takes part in.
EnginesStep == Sweep \/ Tick \/ ScanPage

(***************************************************************************)
(* Properties                                                              *)
(***************************************************************************)

\* The pages of a scan, laid end to end, ascend without a repetition and hold only
\* keys that the pattern means.  Once it is finished they hold every such key that
\* was live from the first request to the last answer, however writers, expiry and
\* the sweep interleaved with the pages (Scan, handleScan).
ScanReturnsEachOnce ==
  /\ Ascending(scan.got)
  /\ \A i \in DOMAIN scan.got : Matches(scan.pattern, scan.got[i])
  /\ scan.pc = "done" => \A k \in steady : Matches(scan.pattern, k) => k \in Range(scan.got)

\* Calls of Get, mutations and the sweep that meet the same dead key count it once:
\* ExpiredCount is never more than the deadlines that were set.
ExpiredCountedOnce == expired <= deadlines

\* To its callers the fake is the store, "mirroring MemStore's semantics": the
\* same reads, answers and pages, except for keys whose deadline its Incr kept.
FakeMirrorsMemStore ==
  /\ \A k \in Key \ kept :
       FakeGet(fake, k, now) = (IF Live(data, k, now) THEN data[k].Value ELSE Absent)
  /\ \A c \in Command :
       c[1] # "clear" /\ c[2] \notin kept => FakeOutcome(fake, c, now) = Outcome(data, c, now)
  /\ kept = {} => FakePage(fake, scan.cursor, scan.count, scan.pattern, now)
                    = Page(data, scan.cursor, scan.count, scan.pattern, now)

\* Without the exception: what fake.go:73 says of Incr, "mirroring MemStore's semantics
\* exactly".
FakeIsMemStore ==
  \A k \in Key :
    FakeGet(fake, k, now) = (IF Live(data, k, now) THEN data[k].Value ELSE Absent)
=============================================================================
