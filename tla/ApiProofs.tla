------------------------------ MODULE ApiProofs -------------------------------
(***************************************************************************)
(* Proofs about the calls of the API and one mutation of its engines, for  *)
(* every set of keys, requests and servers: a mutation is appended at most *)
(* once however often it is redirected, an expired key is counted once, and*)
(* what the contract fake answers and keeps is what the store does.  Module*)
(* ScanProofs goes on with the scans.                                      *)
(***************************************************************************)
EXTENDS Api, FiniteSetTheorems, TLAPS

(***************************************************************************)
(* The invariants                                                          *)
(***************************************************************************)

NoCommand == <<"none">>

CallRecord ==
  [pc : {"idle", "arrived", "drop", "write", "wait", "answered"}, n : Nat,
   request : Request \cup {NoCommand}, cmd : Mutation \cup {NoCommand},
   at : Server \cup {None}, hops : Nat, status : Nat, appends : Nat]

\* The answers of a server that has appended nothing.
Refusal == {307, 400, 503}

\* A call has appended nothing before its proposal, and its entry once while it waits.
CallGood(r) ==
  /\ r.pc \in {"arrived", "drop", "write", "wait"} => r.request \in Request
  /\ r.pc = "drop" => LooksUp(r.request)
  /\ r.pc \in {"write", "wait"} => r.cmd \in Mutation
  /\ r.pc \in {"idle", "arrived", "drop", "write"} => r.appends = 0 /\ r.status = 0
  /\ r.pc = "wait" => r.appends = 1 /\ r.status = 0
  /\ r.appends <= 1
  /\ r.status \in Refusal => r.appends = 0

CallInv == call \in [Client -> CallRecord] /\ \A c \in Client : CallGood(call[c])

LogEntry == [client : Client, n : Nat, cmd : Mutation]

Present(d) == {k \in Key : d[k] # Absent}

StoreShape ==
  /\ data \in Data /\ IsFiniteSet(Present(data))
  /\ now \in Nat \ {0} /\ dying \in [Client -> Key \cup {Absent}]
  /\ undecided \subseteq LogEntry /\ queue \in Seq(LogEntry)

Timed(d) == {k \in Key : d[k] # Absent /\ d[k].Exp # 0}

\* Every deadline that was set is counted, still in the store, or gone uncounted.
CountInv == {expired, deadlines} \subseteq Nat /\ expired + Cardinality(Timed(data)) <= deadlines

\* The fake holds the entry that the store serves, or what it holds is dead.
Alike(k) ==
  IF Live(data, k, now)
  THEN /\ fake.data[k] = data[k].Value
       /\ fake.expires[k] = (IF data[k].Exp = 0 THEN Absent ELSE data[k].Exp)
  ELSE fake.data[k] = Absent \/ ExpiredLocked(fake, k, now)

MirrorInv ==
  /\ fake \in Fake /\ kept \subseteq Key
  /\ \A k \in Key : fake.data[k] = Absent => fake.expires[k] = Absent
  /\ \A k \in Key \ kept : Alike(k)

(***************************************************************************)
(* One mutation of the store                                               *)
(***************************************************************************)

\* The fields of each kind of mutation.
LEMMA MutationKinds ==
  ASSUME NEW c \in Mutation
  PROVE  \/ c[1] = "clear"
         \/ c[1] = "delete" /\ c[2] \in Key
         \/ c[1] = "incr" /\ c[2] \in Key
         \/ c[1] = "put" /\ c[2] \in Key /\ c[3] \in Text
         \/ c[1] = "cas" /\ c[2] \in Key /\ c[3] \in Text /\ c[4] \in Text
         \/ c[1] = "expire" /\ c[2] \in Key /\ c[3] \in Nat \ {0}
<1>1. CASE c = <<"clear">>
  BY <1>1
<1>2. CASE c \in {"delete", "incr"} \X Key
  BY <1>2
<1>3. CASE c \in {"put"} \X Key \X Text
  BY <1>3
<1>4. CASE c \in {"cas"} \X Key \X Text \X Text
  BY <1>4
<1>5. CASE c \in {"expire"} \X Key \X (Nat \ {0})
  BY <1>5
<1> QED
  BY Zenon, <1>1, <1>2, <1>3, <1>4, <1>5 DEF Mutation

\* The entry of a key that the store has.
LEMMA PresentEntry ==
  ASSUME NEW d \in Data, NEW k \in Key, d[k] # Absent
  PROVE  /\ d[k] \in Entry /\ d[k].Value \in Text /\ d[k].Exp \in Nat
         /\ d[k] = [Value |-> d[k].Value, Exp |-> d[k].Exp]
<1>1. d[k] \in Entry
  BY Zenon DEF Data
<1> QED
  BY <1>1 DEF Entry

\* A number below MaxInt64 is counted up to one that is not above it.
LEMMA CountedText ==
  ASSUME NEW v \in Text, v[2] # MaxInt64
  PROVE  FormatInt(v[2] + 1) \in Text
<1>1. v[2] \in 0..MaxInt64
  BY DEF Text
<1>2. v[2] + 1 \in 0..MaxInt64
  BY <1>1, MaxInt64Assumption
<1> QED
  BY <1>2 DEF FormatInt, Text

Fresh(v) == [Value |-> v, Exp |-> 0]

DropEntry(d, k, t) == IF d[k] # Absent /\ EntryExpired(d[k], t) THEN Absent ELSE d[k]

\* What a mutation leaves of its key.
EntryAfter(d, c, t) ==
  LET k == c[2]
  IN  CASE c[1] = "put"    -> Fresh(c[3])
        [] c[1] = "delete" -> Absent
        [] c[1] = "incr"   -> IF ~Live(d, k, t) THEN Fresh(FormatInt(1))
                              ELSE IF CanIncr(d, k, t) THEN Fresh(FormatInt(ParseInt(d[k].Value) + 1))
                              ELSE d[k]
        [] c[1] = "cas"    -> IF Live(d, k, t) /\ d[k].Value = c[3] THEN Fresh(c[4])
                              ELSE DropEntry(d, k, t)
        [] c[1] = "expire" -> IF Live(d, k, t) THEN [Value |-> d[k].Value, Exp |-> c[3]]
                              ELSE DropEntry(d, k, t)

\* The entry that a mutation leaves has the shape of one.
LEMMA EntryAfterShape ==
  ASSUME NEW d \in Data, NEW c \in Mutation, c[1] # "clear", NEW t
  PROVE  c[2] \in Key /\ EntryAfter(d, c, t) \in Entry \cup {Absent}
<1>1. \A v \in Text : Fresh(v) \in Entry
  BY DEF Fresh, Entry
<1>2. \A k \in Key : d[k] \in Entry \cup {Absent} /\ DropEntry(d, k, t) \in Entry \cup {Absent}
  BY Zenon DEF Data, DropEntry
<1>3. CASE c[1] = "delete" /\ c[2] \in Key
  BY <1>3 DEF EntryAfter
<1>4. CASE c[1] = "put" /\ c[2] \in Key /\ c[3] \in Text
  <2>1. EntryAfter(d, c, t) = Fresh(c[3])
    BY <1>4 DEF EntryAfter
  <2> QED
    BY Zenon, <1>1, <1>4, <2>1
<1>5. CASE c[1] = "incr" /\ c[2] \in Key
  <2>1. EntryAfter(d, c, t) = IF ~Live(d, c[2], t) THEN Fresh(FormatInt(1))
                              ELSE IF CanIncr(d, c[2], t) THEN Fresh(FormatInt(ParseInt(d[c[2]].Value) + 1))
                              ELSE d[c[2]]
    BY <1>5 DEF EntryAfter
  <2>2. FormatInt(1) \in Text
    BY MaxInt64Assumption DEF FormatInt, Text
  <2>3. ASSUME Live(d, c[2], t), CanIncr(d, c[2], t)
        PROVE  FormatInt(ParseInt(d[c[2]].Value) + 1) \in Text
    <3>1. d[c[2]].Value \in Text
      BY Zenon, <1>5, <2>3, PresentEntry DEF Live
    <3> QED
      BY Zenon, <2>3, <3>1, CountedText DEF CanIncr, ParseInt
  <2> QED
    BY Zenon, <1>1, <1>2, <1>5, <2>1, <2>2, <2>3
<1>6. CASE c[1] = "cas" /\ c[2] \in Key /\ c[3] \in Text /\ c[4] \in Text
  <2>1. EntryAfter(d, c, t) = IF Live(d, c[2], t) /\ d[c[2]].Value = c[3] THEN Fresh(c[4])
                              ELSE DropEntry(d, c[2], t)
    BY <1>6 DEF EntryAfter
  <2> QED
    BY Zenon, <1>1, <1>2, <1>6, <2>1
<1>7. CASE c[1] = "expire" /\ c[2] \in Key /\ c[3] \in Nat \ {0}
  <2>1. EntryAfter(d, c, t) = IF Live(d, c[2], t) THEN [Value |-> d[c[2]].Value, Exp |-> c[3]]
                              ELSE DropEntry(d, c[2], t)
    BY <1>7 DEF EntryAfter
  <2>2. ASSUME Live(d, c[2], t) PROVE [Value |-> d[c[2]].Value, Exp |-> c[3]] \in Entry
    <3>1. d[c[2]].Value \in Text
      BY Zenon, <1>7, <2>2, PresentEntry DEF Live
    <3> QED
      BY <1>7, <3>1 DEF Entry
  <2> QED
    BY Zenon, <1>2, <1>7, <2>1, <2>2
<1> QED
  BY Zenon, <1>3, <1>4, <1>5, <1>6, <1>7, MutationKinds

\* A mutation changes the entry of its key and no other.
LEMMA RecordAt ==
  ASSUME NEW d \in Data, NEW c \in Mutation, c[1] # "clear", NEW t
  PROVE  ApplyRecord(d, c, t) = [d EXCEPT ![c[2]] = EntryAfter(d, c, t)]
<1> DEFINE k == c[2]
<1>0. k \in Key /\ d = [d EXCEPT ![k] = d[k]]
  <2>1. k \in Key
    BY Zenon, MutationKinds
  <2> HIDE DEF k
  <2> QED
    BY <2>1 DEF Data
<1>1. DropDead(d, k, t) = [d EXCEPT ![k] = DropEntry(d, k, t)]
  <2> HIDE DEF k
  <2> QED
    BY Zenon, <1>0 DEF DropDead, DropEntry
<1>2. CASE c[1] = "delete"
  BY <1>2 DEF ApplyRecord, MemDelete, EntryAfter
<1>3. CASE c[1] = "put"
  BY <1>3 DEF ApplyRecord, MemPut, EntryAfter, Fresh
<1>4. CASE c[1] = "incr"
  <2>1. ApplyRecord(d, c, t) = MemIncr(d, k, t)
    BY <1>4 DEF ApplyRecord
  <2>2. EntryAfter(d, c, t) = IF ~Live(d, k, t) THEN Fresh(FormatInt(1))
                              ELSE IF CanIncr(d, k, t) THEN Fresh(FormatInt(ParseInt(d[k].Value) + 1))
                              ELSE d[k]
    BY <1>4 DEF EntryAfter
  <2> HIDE DEF k
  <2>3. MemIncr(d, k, t) = [d EXCEPT ![k] = EntryAfter(d, c, t)]
    BY Zenon, <1>0, <2>2 DEF MemIncr, MemPut, Fresh
  <2> QED
    BY Zenon, <2>1, <2>3 DEF k
<1>5. CASE c[1] = "cas"
  <2>1. ApplyRecord(d, c, t) = MemCAS(d, k, c[3], c[4], t)
    BY <1>5 DEF ApplyRecord
  <2>2. EntryAfter(d, c, t) = IF Live(d, k, t) /\ d[k].Value = c[3] THEN Fresh(c[4]) ELSE DropEntry(d, k, t)
    BY <1>5 DEF EntryAfter
  <2> HIDE DEF k
  <2>3. MemCAS(d, k, c[3], c[4], t) = [d EXCEPT ![k] = EntryAfter(d, c, t)]
    BY Zenon, <1>1, <2>2 DEF MemCAS, MemPut, Fresh
  <2> QED
    BY Zenon, <2>1, <2>3 DEF k
<1>6. CASE c[1] = "expire"
  <2>1. ApplyRecord(d, c, t) = MemExpire(d, k, c[3], t)
    BY <1>6 DEF ApplyRecord
  <2>2. EntryAfter(d, c, t) = IF Live(d, k, t) THEN [Value |-> d[k].Value, Exp |-> c[3]] ELSE DropEntry(d, k, t)
    BY <1>6 DEF EntryAfter
  <2> HIDE DEF k
  <2>3. ASSUME Live(d, k, t)
        PROVE  [d EXCEPT ![k].Exp = c[3]] = [d EXCEPT ![k] = [Value |-> d[k].Value, Exp |-> c[3]]]
    <3>1. d[k] = [Value |-> d[k].Value, Exp |-> d[k].Exp]
      BY Zenon, <1>0, <2>3, PresentEntry DEF Live
    <3>2. [d[k] EXCEPT !.Exp = c[3]] = [Value |-> d[k].Value, Exp |-> c[3]]
      BY <3>1
    <3> QED
      BY Zenon, <3>2
  <2>4. MemExpire(d, k, c[3], t) = [d EXCEPT ![k] = EntryAfter(d, c, t)]
    BY Zenon, <1>1, <2>2, <2>3 DEF MemExpire
  <2> QED
    BY Zenon, <2>1, <2>4 DEF k
<1> QED
  BY Zenon, <1>2, <1>3, <1>4, <1>5, <1>6, MutationKinds

\* The same, key by key.
LEMMA RecordKeys ==
  ASSUME NEW d \in Data, NEW c \in Mutation, c[1] # "clear", NEW t
  PROVE  /\ c[2] \in Key /\ ApplyRecord(d, c, t) \in Data
         /\ ApplyRecord(d, c, t)[c[2]] = EntryAfter(d, c, t)
         /\ \A k \in Key : k # c[2] => ApplyRecord(d, c, t)[k] = d[k]
<1> DEFINE e == EntryAfter(d, c, t)
           x == c[2]
<1>1. x \in Key /\ e \in Entry \cup {Absent}
  BY Zenon, EntryAfterShape
<1>2. ApplyRecord(d, c, t) = [d EXCEPT ![x] = e]
  BY Zenon, RecordAt
<1> HIDE DEF e, x
<1>3. /\ [d EXCEPT ![x] = e] \in Data /\ [d EXCEPT ![x] = e][x] = e
      /\ \A k \in Key : k # x => [d EXCEPT ![x] = e][k] = d[k]
  BY Zenon, <1>1 DEF Data
<1> QED
  BY Zenon, <1>1, <1>2, <1>3 DEF e, x

\* Clear leaves nothing.
LEMMA RecordCleared ==
  ASSUME NEW d, NEW c, c[1] = "clear", NEW t
  PROVE  ApplyRecord(d, c, t) = NewMemStore
  BY DEF ApplyRecord

\* A mutation keeps the shape of the store, which it leaves with finitely many keys.
LEMMA RecordShape ==
  ASSUME NEW d \in Data, IsFiniteSet(Present(d)), NEW c \in Mutation, NEW t
  PROVE  ApplyRecord(d, c, t) \in Data /\ IsFiniteSet(Present(ApplyRecord(d, c, t)))
<1>1. CASE c[1] = "clear"
  <2>1. NewMemStore \in Data /\ Present(NewMemStore) = {}
    BY Zenon DEF NewMemStore, Data, Present
  <2> QED
    BY Zenon, <1>1, <2>1, RecordCleared, FS_EmptySet
<1>2. CASE c[1] # "clear"
  <2> DEFINE e == ApplyRecord(d, c, t)
  <2>1. e \in Data
    BY Zenon, <1>2, RecordKeys
  <2>0. \A k \in Key : k # c[2] => e[k] = d[k]
    BY SMTT(30), <1>2, RecordKeys
  <2> HIDE DEF e
  <2>2. Present(e) \subseteq Present(d) \cup {c[2]}
    BY Zenon, <2>0 DEF Present
  <2>3. IsFiniteSet(Present(d) \cup {c[2]})
    BY Zenon, FS_AddElement
  <2> QED
    BY Zenon, <2>1, <2>2, <2>3, FS_Subset DEF e
<1> QED
  BY Zenon, <1>1, <1>2

(***************************************************************************)
(* Calls                                                                   *)
(***************************************************************************)

\* An answered call has the shape of one.
LEMMA AnsweredGood ==
  ASSUME NEW r \in CallRecord, NEW status \in Nat, r.appends <= 1,
         status \in Refusal => r.appends = 0
  PROVE  Answered(r, status) \in CallRecord /\ CallGood(Answered(r, status))
<1> DEFINE a == Answered(r, status)
<1>1. r.n \in Nat /\ r.appends \in Nat
  BY DEF CallRecord
<1>2. NoCall \in CallRecord
  BY DEF NoCall, CallRecord, NoCommand
<1>3. a \in CallRecord
  BY <1>1, <1>2 DEF CallRecord, Answered
<1>4. a.pc = "answered" /\ a.status = status /\ a.appends = r.appends
  BY <1>2 DEF CallRecord, Answered
<1> HIDE DEF a
<1>5. CallGood(a)
  BY <1>4 DEF CallGood
<1> QED
  BY Zenon, <1>3, <1>5 DEF a

\* A step of one call leaves the others as they are.
LEMMA OneCall ==
  ASSUME CallInv, NEW c \in Client, NEW r \in CallRecord, CallGood(r), call' = [call EXCEPT ![c] = r]
  PROVE  CallInv'
<1>1. call \in [Client -> CallRecord] /\ \A x \in Client : CallGood(call[x])
  BY Zenon DEF CallInv
<1>2. call' \in [Client -> CallRecord]
  BY Zenon, <1>1
<1>3. \A x \in Client : call'[x] = IF x = c THEN r ELSE call[x]
  BY Zenon, <1>1
<1>4. \A x \in Client : CallGood(call'[x])
  BY Zenon, <1>1, <1>3
<1> QED
  BY Zenon, <1>2, <1>4 DEF CallInv, CallGood, LooksUp

\* What is known of the call of a client.
LEMMA TheCall ==
  ASSUME CallInv, NEW c \in Client
  PROVE  /\ call[c] \in CallRecord /\ CallGood(call[c]) /\ call[c].appends <= 1
         /\ call[c].pc \in {"idle", "arrived", "drop", "write"} => call[c].appends = 0
         /\ call[c].pc = "wait" => call[c].appends = 1
  BY Zenon DEF CallInv, CallGood

\* What a request asks the engine for.
LEMMA RequestCommand ==
  ASSUME now \in Nat \ {0}, NEW r \in Request, r[1] # "get", ~BadRequest(r) \/ LooksUp(r)
  PROVE  CommandOf(r) \in Mutation
<1>1. CASE r[1] = "expire"
  <2>1. r[2] \in Key /\ r[3] \in Int
    <3>1. CASE r \in {"get"} \X Key
      BY <1>1, <3>1
    <3>2. CASE r \in {"expire"} \X Key \X Int
      BY <3>2
    <3>3. CASE r \in Mutation
      <4>1. r[2] \in Key /\ r[3] \in Nat \ {0}
        BY Zenon, <1>1, <3>3, MutationKinds
      <4> QED
        BY <4>1
    <3> QED
      BY Zenon, <3>1, <3>2, <3>3, ApiAssumption
  <2>2. ~(r[3] <= 0)
    BY <1>1 DEF BadRequest, LooksUp
  <2>3. now + r[3] \in Nat \ {0}
    BY <2>1, <2>2
  <2>4. CommandOf(r) = <<"expire", r[2], now + r[3]>>
    BY Zenon, <1>1 DEF CommandOf
  <2>5. <<"expire", r[2], now + r[3]>> \in {"expire"} \X Key \X (Nat \ {0})
    BY <2>1, <2>3
  <2> QED
    BY Zenon, <2>4, <2>5 DEF Mutation
<1>2. CASE r[1] # "expire"
  <2>1. r \in Mutation
    <3>1. CASE r \in {"get"} \X Key
      BY <3>1
    <3>2. CASE r \in {"expire"} \X Key \X Int
      BY <1>2, <3>2
    <3>3. CASE r \in Mutation
      BY <3>3
    <3> QED
      BY Zenon, <3>1, <3>2, <3>3, ApiAssumption
  <2> QED
    BY Zenon, <1>2, <2>1 DEF CommandOf
<1> QED
  BY Zenon, <1>1, <1>2

\* The look-up is over: the call is answered or goes on to its write.
LEMMA LookedUpGood ==
  ASSUME CallInv, now \in Nat \ {0}, NEW c \in Client, NEW found, LookedUp(c, found),
         call[c].pc \in {"arrived", "drop"},
         ~BadRequest(call[c].request) \/ LooksUp(call[c].request)
  PROVE  CallInv'
<1> DEFINE r == call[c]
           st == IF found THEN 200 ELSE 404
           a == Answered(r, st)
           w == [r EXCEPT !.pc = "write", !.cmd = CommandOf(r.request)]
<1>1. r \in CallRecord /\ CallGood(r) /\ r.appends = 0 /\ r.appends <= 1
  BY Zenon, TheCall
<1>2. call' = [call EXCEPT ![c] = IF r.request[1] = "get" THEN a ELSE w]
  BY Zenon DEF LookedUp
<1>3. r.request \in Request /\ r.status = 0 /\ 0 \notin Refusal
  BY <1>1 DEF CallGood, Refusal
<1>4. CASE r.request[1] = "get"
  <2>1. st \in Nat /\ st \notin Refusal
    BY DEF Refusal
  <2> HIDE DEF st
  <2>2. a \in CallRecord /\ CallGood(a)
    BY Zenon, <1>1, <2>1, AnsweredGood
  <2>3. call' = [call EXCEPT ![c] = a]
    BY Zenon, <1>2, <1>4
  <2> QED
    BY Zenon, <2>2, <2>3, OneCall
<1>5. CASE r.request[1] # "get"
  <2>1. CommandOf(r.request) \in Mutation
    BY Zenon, <1>3, <1>5, RequestCommand
  <2> DEFINE m == CommandOf(r.request)
  <2> HIDE DEF m, r
  <2>2. w \in CallRecord
    BY ZenonT(40), <1>1, <2>1 DEF CallRecord, m
  <2>3. w.pc = "write" /\ w.cmd = m /\ w.request = r.request /\ w.appends = r.appends /\ w.status = r.status
    BY <1>1 DEF CallRecord, m
  <2>4. CallGood(w)
    <3> HIDE DEF w
    <3> QED
      BY <1>1, <1>3, <2>1, <2>3 DEF CallGood, m
  <2>5. call' = [call EXCEPT ![c] = w]
    BY Zenon, <1>2, <1>5
  <2> HIDE DEF w
  <2> QED
    BY Zenon, <2>2, <2>4, <2>5, OneCall
<1> QED
  BY Zenon, <1>4, <1>5

\* The steps of a client's call and of the cluster keep the shape of the calls.
LEMMA CallStep ==
  ASSUME CallInv, StoreShape, Step
  PROVE  CallInv'
<1>0. now \in Nat \ {0} /\ queue \in Seq(LogEntry)
  BY Zenon DEF StoreShape
<1>1. ASSUME NEW c \in Client, NEW s \in Server, NEW r \in Request, Call(c, s, r) PROVE CallInv'
  <2> DEFINE a == [NoCall EXCEPT !.pc = "arrived", !.n = call[c].n + 1, !.request = r, !.at = s]
  <2>1. call' = [call EXCEPT ![c] = a]
    BY Zenon, <1>1 DEF Call
  <2>2. call[c].n \in Nat
    <3>1. call[c] \in CallRecord
      BY Zenon, TheCall
    <3> QED
      BY <3>1 DEF CallRecord
  <2>3. NoCall \in CallRecord /\ NoCall.appends = 0 /\ NoCall.status = 0
    BY DEF NoCall, CallRecord, NoCommand
  <2>4. a \in CallRecord
    <3>1. r \in Request \cup {NoCommand} /\ s \in Server \cup {None} /\ call[c].n + 1 \in Nat
      BY <2>2
    <3> QED
      BY <2>3, <3>1 DEF CallRecord
  <2>5. a.pc = "arrived" /\ a.request = r /\ a.appends = 0 /\ a.status = 0
    BY <2>3 DEF CallRecord
  <2> HIDE DEF a
  <2>6. CallGood(a)
    BY <2>5 DEF CallGood, Refusal
  <2> QED
    BY Zenon, <2>1, <2>4, <2>6, OneCall
<1>2. ASSUME NEW c \in Client, NEW status \in Nat, call' = [call EXCEPT ![c] = Answered(call[c], status)],
             status \in Refusal => call[c].pc \in {"arrived", "write"}
      PROVE  CallInv'
  <2>1. call[c] \in CallRecord /\ call[c].appends <= 1
        /\ (call[c].pc \in {"arrived", "write"} => call[c].appends = 0)
    BY Zenon, TheCall
  <2>2. Answered(call[c], status) \in CallRecord /\ CallGood(Answered(call[c], status))
    BY Zenon, <1>2, <2>1, AnsweredGood
  <2> QED
    BY Zenon, <1>2, <2>2, OneCall
<1>3. ASSUME NEW c \in Client, Reject(c) PROVE CallInv'
  <2> DEFINE st == 400
  <2>1. call' = [call EXCEPT ![c] = Answered(call[c], st)] /\ call[c].pc = "arrived"
    BY Zenon, <1>3 DEF Reject
  <2>2. st \in Nat
    OBVIOUS
  <2> HIDE DEF st
  <2> QED
    BY Zenon, <1>2, <2>1, <2>2
<1>4. ASSUME NEW c \in Client, Start(c) PROVE CallInv'
  <2>1. /\ call[c].pc = "arrived" /\ ~BadRequest(call[c].request)
        /\ LookedUp(c, Live(data, call[c].request[2], now))
    BY Zenon, <1>4 DEF Start
  <2> QED
    BY Zenon, <1>0, <2>1, LookedUpGood
<1>5. ASSUME NEW c \in Client, StartSeesDead(c) PROVE CallInv'
  <2> DEFINE r == call[c]
             a == [r EXCEPT !.pc = "drop"]
  <2>1. r.pc = "arrived" /\ LooksUp(r.request) /\ call' = [call EXCEPT ![c].pc = "drop"]
    BY Zenon, <1>5 DEF StartSeesDead
  <2>2. r \in CallRecord /\ CallGood(r)
    BY Zenon, TheCall
  <2>3. call' = [call EXCEPT ![c] = a]
    BY Zenon, <2>1
  <2> HIDE DEF r
  <2>4. a \in CallRecord
    BY <2>2 DEF CallRecord
  <2>5. a.pc = "drop" /\ a.request = r.request /\ a.appends = r.appends /\ a.status = r.status
    BY <2>2 DEF CallRecord
  <2> HIDE DEF a
  <2>6. CallGood(a)
    BY <2>1, <2>2, <2>5 DEF CallGood, Refusal
  <2> QED
    BY Zenon, <2>3, <2>4, <2>6, OneCall
<1>6. ASSUME NEW c \in Client, StartDropsDead(c) PROVE CallInv'
  <2>1. call[c].pc = "drop" /\ LookedUp(c, FALSE)
    BY Zenon, <1>6 DEF StartDropsDead
  <2>2. LooksUp(call[c].request)
    BY Zenon, <2>1 DEF CallInv, CallGood
  <2> QED
    BY Zenon, <1>0, <2>1, <2>2, LookedUpGood
<1>7. ASSUME NEW c \in Client, Redirect(c) PROVE CallInv'
  <2>1. PICK leader \in Server \ {call[c].at} :
          call' = [call EXCEPT ![c] =
                     IF call[c].hops < MaxHops
                     THEN [call[c] EXCEPT !.pc = "arrived", !.at = leader, !.cmd = NoCall.cmd,
                                         !.hops = call[c].hops + 1]
                     ELSE Answered(call[c], 307)]
    BY Zenon, <1>7 DEF Redirect
  <2>2. call[c].pc = "write"
    BY Zenon, <1>7 DEF Redirect
  <2>3. CASE ~(call[c].hops < MaxHops)
    <3> DEFINE st == 307
    <3>1. call' = [call EXCEPT ![c] = Answered(call[c], st)]
      BY Zenon, <2>1, <2>3
    <3>2. st \in Nat
      OBVIOUS
    <3> HIDE DEF st
    <3> QED
      BY Zenon, <1>2, <2>2, <3>1, <3>2
  <2>4. CASE call[c].hops < MaxHops
    <3> DEFINE r == call[c]
               a == [r EXCEPT !.pc = "arrived", !.at = leader, !.cmd = NoCall.cmd, !.hops = r.hops + 1]
    <3>1. call' = [call EXCEPT ![c] = a]
      BY Zenon, <2>1, <2>4
    <3>2. r \in CallRecord /\ CallGood(r) /\ r.pc = "write"
      BY Zenon, <2>2, TheCall
    <3> HIDE DEF r
    <3>3. NoCall.cmd = NoCommand
      BY DEF NoCall, NoCommand
    <3>4. a \in CallRecord
      <4>1. leader \in Server \cup {None} /\ NoCall.cmd \in Mutation \cup {NoCommand}
        BY Zenon, <3>3
      <4>2. r.hops + 1 \in Nat
        BY <3>2 DEF CallRecord
      <4> DEFINE b == [r EXCEPT !.pc = "arrived", !.at = leader]
                 x == NoCall.cmd
                 y == r.hops + 1
      <4>3. b \in CallRecord
        BY <3>2, <4>1 DEF CallRecord
      <4>4. a = [b EXCEPT !.cmd = x, !.hops = y]
        BY Zenon
      <4>5. x \in Mutation \cup {NoCommand} /\ y \in Nat
        BY Zenon, <4>1, <4>2
      <4> HIDE DEF a, b, x, y
      <4>6. [b EXCEPT !.cmd = x, !.hops = y] \in CallRecord
        BY <4>3, <4>5 DEF CallRecord
      <4> QED
        BY Zenon, <4>4, <4>6
    <3>5. a.pc = "arrived" /\ a.request = r.request /\ a.appends = r.appends /\ a.status = r.status
      BY <3>2 DEF CallRecord
    <3> HIDE DEF a
    <3>6. CallGood(a)
      BY <3>2, <3>5 DEF CallGood, Refusal
    <3> QED
      BY Zenon, <3>1, <3>4, <3>6, OneCall
  <2> QED
    BY Zenon, <2>3, <2>4
<1>8. ASSUME NEW c \in Client, NoLeader(c) PROVE CallInv'
  <2> DEFINE st == 503
  <2>1. call' = [call EXCEPT ![c] = Answered(call[c], st)] /\ call[c].pc = "write"
    BY Zenon, <1>8 DEF NoLeader
  <2>2. st \in Nat
    OBVIOUS
  <2> HIDE DEF st
  <2> QED
    BY Zenon, <1>2, <2>1, <2>2
<1>9. ASSUME NEW c \in Client, call[c].pc = "write", NEW status \in Nat, status \notin Refusal
      PROVE  /\ Appended(call[c]) \in CallRecord /\ Appended(call[c]).appends = 1
             /\ Appended(call[c]).status = 0 /\ Appended(call[c]).request \in Request
             /\ Appended(call[c]).cmd \in Mutation
             /\ Answered(Appended(call[c]), status) \in CallRecord
             /\ CallGood(Answered(Appended(call[c]), status))
  <2> DEFINE q == call[c]
             r == Appended(q)
  <2>1. q \in CallRecord /\ CallGood(q) /\ q.appends = 0 /\ q.pc = "write"
    BY Zenon, <1>9, TheCall
  <2> HIDE DEF q
  <2>2. r \in CallRecord /\ r.appends = 1
    BY <2>1 DEF CallRecord, Appended
  <2>3. r.status = q.status /\ r.request = q.request /\ r.cmd = q.cmd
    BY <2>1 DEF CallRecord, Appended
  <2>4. r.status = 0 /\ r.request \in Request /\ r.cmd \in Mutation
    BY <2>1, <2>3 DEF CallGood, Refusal
  <2> HIDE DEF r
  <2>5. r.appends <= 1
    BY <2>2
  <2>6. Answered(r, status) \in CallRecord /\ CallGood(Answered(r, status))
    BY Zenon, <1>9, <2>2, <2>5, AnsweredGood
  <2> QED
    BY Zenon, <2>2, <2>4, <2>6 DEF r, q
<1>10. ASSUME NEW c \in Client, Propose(c) PROVE CallInv'
  <2> DEFINE r == Appended(call[c])
             w == [r EXCEPT !.pc = "wait"]
             st == 200
  <2>1. call[c].pc = "write" /\ call' = [call EXCEPT ![c] = IF Waits(call[c].cmd) THEN w ELSE Answered(r, st)]
    BY Zenon, <1>10 DEF Propose
  <2>2. st \in Nat /\ st \notin Refusal
    BY DEF Refusal
  <2> HIDE DEF st
  <2>3. /\ r \in CallRecord /\ r.appends = 1 /\ r.status = 0 /\ r.request \in Request /\ r.cmd \in Mutation
        /\ Answered(r, st) \in CallRecord /\ CallGood(Answered(r, st))
    BY Zenon, <1>9, <2>1, <2>2
  <2> HIDE DEF r
  <2>4. w \in CallRecord /\ w.pc = "wait"
    BY <2>3 DEF CallRecord
  <2>5. w.appends = r.appends /\ w.status = r.status /\ w.request = r.request /\ w.cmd = r.cmd
    BY <2>3 DEF CallRecord
  <2> HIDE DEF w
  <2>6. CallGood(w)
    BY <2>3, <2>4, <2>5 DEF CallGood, Refusal
  <2>7. CASE Waits(call[c].cmd)
    <3>1. call' = [call EXCEPT ![c] = w]
      BY Zenon, <2>1, <2>7
    <3> QED
      BY Zenon, <2>4, <2>6, <3>1, OneCall
  <2>8. CASE ~Waits(call[c].cmd)
    <3>1. call' = [call EXCEPT ![c] = Answered(r, st)]
      BY Zenon, <2>1, <2>8
    <3> QED
      BY Zenon, <2>3, <3>1, OneCall
  <2> QED
    BY Zenon, <2>7, <2>8
<1>11. ASSUME NEW c \in Client, ProposeUnsaved(c) PROVE CallInv'
  <2> DEFINE r == Appended(call[c])
             st == 500
  <2>1. call[c].pc = "write" /\ call' = [call EXCEPT ![c] = Answered(r, st)]
    BY Zenon, <1>11 DEF ProposeUnsaved
  <2>2. st \in Nat /\ st \notin Refusal
    BY DEF Refusal
  <2> HIDE DEF st
  <2>3. Answered(r, st) \in CallRecord /\ CallGood(Answered(r, st))
    BY Zenon, <1>9, <2>1, <2>2
  <2> HIDE DEF r
  <2> QED
    BY Zenon, <2>1, <2>3, OneCall
<1>12. ASSUME NEW c \in Client, GiveUp(c) PROVE CallInv'
  <2> DEFINE st == 500
  <2>1. call' = [call EXCEPT ![c] = Answered(call[c], st)]
    BY Zenon, <1>12 DEF GiveUp
  <2>2. st \in Nat /\ st \notin Refusal
    BY DEF Refusal
  <2> HIDE DEF st
  <2> QED
    BY Zenon, <1>2, <2>1, <2>2
<1>13. ASSUME NEW c \in Client, OtherEntryApplied(c) PROVE CallInv'
  <2>1. PICK status \in Nat : status \notin Refusal /\ call' = [call EXCEPT ![c] = Answered(call[c], status)]
    <3>1. PICK status \in {200, 404, 409, 422, 500} : call' = [call EXCEPT ![c] = Answered(call[c], status)]
      BY Zenon, <1>13 DEF OtherEntryApplied
    <3>2. status \in Nat /\ status \notin Refusal
      BY DEF Refusal
    <3> QED
      BY ZenonT(40), <3>1, <3>2
  <2> QED
    BY Zenon, <1>2, <2>1
<1>14. ASSUME Apply PROVE CallInv'
  <2> DEFINE e == Head(queue)
             status == StatusOf(Outcome(data, e.cmd, now))
  <2>1. queue # <<>>
    BY Zenon, <1>14 DEF Apply
  <2>2. e \in LogEntry
    BY <1>0, <2>1
  <2>3. e.client \in Client
    BY <2>2 DEF LogEntry
  <2>4. \/ call' = [call EXCEPT ![e.client] = Answered(call[e.client], status)]
        \/ call' = call
    BY Zenon, <1>14 DEF Apply
  <2>5. status \in Nat /\ status \notin Refusal
    BY DEF StatusOf, Refusal
  <2> HIDE DEF e, status
  <2>6. CASE call' = call
    BY Zenon, <2>6 DEF CallInv, CallGood, LooksUp
  <2> QED
    BY Zenon, <1>2, <2>3, <2>4, <2>5, <2>6
<1>15. ASSUME call' = call PROVE CallInv'
  BY Zenon, <1>15 DEF CallInv, CallGood, LooksUp
<1>16. ASSUME NEW e \in undecided, Commit(e) \/ Lose(e) PROVE CallInv'
  BY Zenon, <1>15, <1>16 DEF Commit, Lose
<1>17. ASSUME UNCHANGED apiVars PROVE CallInv'
  BY Zenon, <1>15, <1>17 DEF apiVars
<1> QED
  BY Zenon, <1>1, <1>3, <1>4, <1>5, <1>6, <1>7, <1>8, <1>10, <1>11, <1>12, <1>13, <1>14, <1>16, <1>17
  DEF Step

(***************************************************************************)
(* The store                                                               *)
(***************************************************************************)

\* What a step does to the store, its clock and the scan.
EngineEffect ==
  \/ UNCHANGED engines
  \/ \E cmd \in Mutation : Do(cmd)
  \/ \E c \in Client, k \in Key : GetSeesDead(c, k)
  \/ \E c \in Client : GetDropsDead(c)
  \/ Sweep \/ Tick \/ ScanPage

\* A handler looks up a key.
LEMMA LookedUpKey ==
  ASSUME NEW r \in Request, LooksUp(r)
  PROVE  r[2] \in Key
<1>1. CASE r \in {"get"} \X Key
  BY <1>1
<1>2. CASE r \in {"expire"} \X Key \X Int
  BY <1>2
<1>3. CASE r \in Mutation
  <2>1. r[1] # "clear"
    BY DEF LooksUp
  <2> QED
    BY Zenon, <1>3, <2>1, MutationKinds
<1> QED
  BY Zenon, <1>1, <1>2, <1>3, ApiAssumption

\* Every step is one of these on the store.
LEMMA StepEffect ==
  ASSUME CallInv, StoreShape, Step
  PROVE  EngineEffect
<1>1. ASSUME NEW c \in Client, NEW s \in Server, NEW r \in Request, Call(c, s, r) PROVE EngineEffect
  BY Zenon, <1>1 DEF Call, EngineEffect
<1>2. ASSUME NEW c \in Client, Reject(c) \/ Start(c) PROVE EngineEffect
  BY Zenon, <1>2 DEF Reject, Start, EngineEffect
<1>3. ASSUME NEW c \in Client, Redirect(c) \/ NoLeader(c) PROVE EngineEffect
  BY Zenon, <1>3 DEF Redirect, NoLeader, EngineEffect
<1>4. ASSUME NEW c \in Client, Propose(c) \/ ProposeUnsaved(c) PROVE EngineEffect
  BY Zenon, <1>4 DEF Propose, ProposeUnsaved, EngineEffect
<1>5. ASSUME NEW c \in Client, GiveUp(c) \/ OtherEntryApplied(c) PROVE EngineEffect
  BY ZenonT(40), <1>5 DEF GiveUp, OtherEntryApplied, EngineEffect
<1>6. ASSUME NEW c \in Client, StartSeesDead(c) PROVE EngineEffect
  <2> DEFINE r == call[c].request
  <2>1. call[c].pc = "arrived" /\ LooksUp(r) /\ GetSeesDead(c, r[2])
    BY Zenon, <1>6 DEF StartSeesDead
  <2>2. r \in Request
    BY Zenon, <2>1 DEF CallInv, CallGood
  <2>3. r[2] \in Key
    BY Zenon, <2>1, <2>2, LookedUpKey
  <2> HIDE DEF r
  <2> QED
    BY Zenon, <2>1, <2>3 DEF EngineEffect
<1>7. ASSUME NEW c \in Client, StartDropsDead(c) PROVE EngineEffect
  BY Zenon, <1>7 DEF StartDropsDead, EngineEffect
<1>8. ASSUME Apply PROVE EngineEffect
  <2> DEFINE e == Head(queue)
  <2>1. queue # <<>> /\ Do(e.cmd)
    BY Zenon, <1>8 DEF Apply
  <2>2. queue \in Seq(LogEntry)
    BY Zenon DEF StoreShape
  <2>3. e \in LogEntry
    BY <2>1, <2>2
  <2> HIDE DEF e
  <2>4. e.cmd \in Mutation
    BY <2>3 DEF LogEntry
  <2> QED
    BY Zenon, <2>1, <2>4 DEF EngineEffect
<1>9. ASSUME NEW e \in undecided, Commit(e) \/ Lose(e) PROVE EngineEffect
  BY Zenon, <1>9 DEF Commit, Lose, EngineEffect
<1>10. ASSUME EnginesStep PROVE EngineEffect
  BY Zenon, <1>10 DEF EnginesStep, EngineEffect
<1> QED
  BY Zenon, <1>1, <1>2, <1>3, <1>4, <1>5, <1>6, <1>7, <1>8, <1>9, <1>10 DEF Step

\* Dropping a dead entry keeps the shape of the store.
LEMMA DropShape ==
  ASSUME NEW d \in Data, NEW k \in Key, NEW t
  PROVE  /\ DropDead(d, k, t) \in Data
         /\ \A x \in Key : DropDead(d, k, t)[x] = IF x = k THEN DropEntry(d, k, t) ELSE d[x]
<1>1. CASE d[k] # Absent /\ EntryExpired(d[k], t)
  <2>1. DropDead(d, k, t) = [d EXCEPT ![k] = Absent] /\ DropEntry(d, k, t) = Absent
    BY Zenon, <1>1 DEF DropDead, DropEntry
  <2>2. [d EXCEPT ![k] = Absent] \in Data
    BY Zenon DEF Data
  <2>3. \A x \in Key : [d EXCEPT ![k] = Absent][x] = IF x = k THEN Absent ELSE d[x]
    BY Zenon DEF Data
  <2> QED
    BY Zenon, <2>1, <2>2, <2>3
<1>2. CASE ~(d[k] # Absent /\ EntryExpired(d[k], t))
  <2>1. DropDead(d, k, t) = d /\ DropEntry(d, k, t) = d[k]
    BY Zenon, <1>2 DEF DropDead, DropEntry
  <2> QED
    BY Zenon, <2>1
<1> QED
  BY Zenon, <1>1, <1>2

\* The sweep drops every dead entry.
LEMMA SweepShape ==
  ASSUME NEW d \in Data, NEW t
  PROVE  /\ SweepExpired(d, t) \in Data
         /\ \A x \in Key : SweepExpired(d, t)[x] = DropEntry(d, x, t)
<1>1. SweepExpired(d, t) = [k \in Key |-> DropEntry(d, k, t)]
  BY Zenon DEF SweepExpired, DropEntry
<1>2. \A k \in Key : DropEntry(d, k, t) \in Entry \cup {Absent}
  BY Zenon DEF DropEntry, Data
<1>3. [k \in Key |-> DropEntry(d, k, t)] \in Data
  BY Zenon, <1>2 DEF Data
<1> QED
  BY Zenon, <1>1, <1>3

\* The store keeps its shape in every step.
LEMMA DataStep ==
  ASSUME data \in Data, IsFiniteSet(Present(data)), now \in Nat \ {0},
         dying \in [Client -> Key \cup {Absent}], EngineEffect
  PROVE  /\ data' \in Data /\ IsFiniteSet(Present(data')) /\ now' \in Nat \ {0}
         /\ dying' \in [Client -> Key \cup {Absent}]
<1>1. CASE data' = data /\ now' \in Nat \ {0} /\ dying' \in [Client -> Key \cup {Absent}]
  BY Zenon, <1>1
<1>2. CASE UNCHANGED engines
  <2>1. data' = data /\ now' = now /\ dying' = dying
    BY Zenon, <1>2 DEF engines, engine
  <2> QED
    BY Zenon, <2>1
<1>3. ASSUME NEW cmd \in Mutation, Do(cmd)
      PROVE  /\ data' \in Data /\ IsFiniteSet(Present(data')) /\ now' \in Nat \ {0}
             /\ dying' \in [Client -> Key \cup {Absent}]
  <2>1. data' = ApplyRecord(data, cmd, now) /\ now' = now /\ dying' = dying
    BY Zenon, <1>3 DEF Do
  <2> QED
    BY Zenon, <2>1, RecordShape
<1>4. ASSUME NEW c \in Client, NEW k \in Key, GetSeesDead(c, k)
      PROVE  data' = data /\ now' \in Nat \ {0} /\ dying' \in [Client -> Key \cup {Absent}]
  <2>1. data' = data /\ now' = now /\ dying' = [dying EXCEPT ![c] = k]
    BY Zenon, <1>4 DEF GetSeesDead, engine
  <2> QED
    BY Zenon, <2>1
<1>5. ASSUME data' \in Data, \A x \in Key : data'[x] = data[x] \/ data'[x] = Absent
      PROVE  IsFiniteSet(Present(data'))
  <2>1. Present(data') \subseteq Present(data)
    BY Zenon, <1>5 DEF Present
  <2> QED
    BY Zenon, <2>1, FS_Subset
<1>6. ASSUME NEW c \in Client, GetDropsDead(c)
      PROVE  /\ data' \in Data /\ IsFiniteSet(Present(data')) /\ now' \in Nat \ {0}
             /\ dying' \in [Client -> Key \cup {Absent}]
  <2> DEFINE k == dying[c]
  <2>1. k \in Key /\ data' = DropDead(data, k, now) /\ now' = now /\ dying' = [dying EXCEPT ![c] = Absent]
    BY Zenon, <1>6 DEF GetDropsDead
  <2>2. dying' \in [Client -> Key \cup {Absent}]
    BY Zenon, <2>1
  <2> HIDE DEF k
  <2>3. data' \in Data
    BY Zenon, <2>1, DropShape
  <2>4. \A x \in Key : data'[x] = IF x = k THEN DropEntry(data, k, now) ELSE data[x]
    BY SMTT(30), <2>1, DropShape
  <2>5. \A x \in Key : data'[x] = data[x] \/ data'[x] = Absent
    BY Zenon, <2>4 DEF DropEntry
  <2> QED
    BY Zenon, <1>5, <2>1, <2>2, <2>3, <2>5
<1>7. CASE Sweep
  <2>1. data' = SweepExpired(data, now) /\ now' = now /\ dying' = dying
    BY Zenon, <1>7 DEF Sweep
  <2>2. data' \in Data /\ \A x \in Key : data'[x] = DropEntry(data, x, now)
    BY Zenon, <2>1, SweepShape
  <2>3. \A x \in Key : data'[x] = data[x] \/ data'[x] = Absent
    BY Zenon, <2>2 DEF DropEntry
  <2> QED
    BY Zenon, <1>5, <2>1, <2>2, <2>3
<1>8. CASE Tick
  <2>1. data' = data /\ now' = now + 1 /\ dying' = dying
    BY Zenon, <1>8 DEF Tick, engine
  <2>2. now' \in Nat \ {0}
    BY <2>1
  <2> QED
    BY Zenon, <2>1, <2>2
<1>9. CASE ScanPage
  <2>1. data' = data /\ now' = now /\ dying' = dying
    BY Zenon, <1>9 DEF ScanPage, engine
  <2> QED
    BY Zenon, <2>1
<1> QED
  BY Zenon, <1>1, <1>2, <1>3, <1>4, <1>6, <1>7, <1>8, <1>9 DEF EngineEffect

\* The entries in the logs keep their shape.
LEMMA LogStep ==
  ASSUME CallInv, StoreShape, Step
  PROVE  undecided' \subseteq LogEntry /\ queue' \in Seq(LogEntry)
<1>0. undecided \subseteq LogEntry /\ queue \in Seq(LogEntry)
  BY Zenon DEF StoreShape
<1>1. CASE undecided' = undecided /\ queue' = queue
  BY Zenon, <1>0, <1>1
<1>2. ASSUME NEW c \in Client, call[c].pc = "write" PROVE EntryOf(c) \in LogEntry
  <2>1. call[c].cmd \in Mutation /\ call[c] \in CallRecord
    BY Zenon, <1>2 DEF CallInv, CallGood
  <2>2. call[c].n \in Nat
    BY <2>1 DEF CallRecord
  <2> QED
    BY <2>1, <2>2 DEF EntryOf, LogEntry
<1>3. ASSUME NEW c \in Client, Propose(c) \/ ProposeUnsaved(c)
      PROVE  undecided' \subseteq LogEntry /\ queue' \in Seq(LogEntry)
  <2>1. call[c].pc = "write" /\ undecided' = undecided \cup {EntryOf(c)} /\ queue' = queue
    BY Zenon, <1>3 DEF Propose, ProposeUnsaved
  <2>2. EntryOf(c) \in LogEntry
    BY Zenon, <1>2, <2>1
  <2> QED
    BY Zenon, <1>0, <2>1, <2>2
<1>4. ASSUME NEW c \in Client,
             \/ \E s \in Server, r \in Request : Call(c, s, r)
             \/ Reject(c) \/ Start(c) \/ StartSeesDead(c) \/ StartDropsDead(c)
             \/ Redirect(c) \/ NoLeader(c) \/ GiveUp(c) \/ OtherEntryApplied(c)
      PROVE  undecided' = undecided /\ queue' = queue
  BY ZenonT(40), <1>4 DEF Call, Reject, Start, StartSeesDead, StartDropsDead, LookedUp, Redirect, NoLeader,
     GiveUp, OtherEntryApplied
<1>5. CASE Apply
  <2>1. queue # <<>> /\ queue' = Tail(queue) /\ undecided' = undecided
    BY Zenon, <1>5 DEF Apply
  <2>2. Tail(queue) \in Seq(LogEntry)
    BY <1>0, <2>1
  <2> QED
    BY Zenon, <1>0, <2>1, <2>2
<1>6. ASSUME NEW e \in undecided, Commit(e) \/ Lose(e)
      PROVE  undecided' \subseteq LogEntry /\ queue' \in Seq(LogEntry)
  <2>1. undecided' = undecided \ {e} /\ (queue' = Append(queue, e) \/ queue' = queue)
    BY Zenon, <1>6 DEF Commit, Lose
  <2>2. e \in LogEntry
    BY Zenon, <1>0
  <2>3. Append(queue, e) \in Seq(LogEntry)
    BY <1>0, <2>2
  <2> QED
    BY Zenon, <1>0, <2>1, <2>3
<1>7. CASE UNCHANGED apiVars
  BY Zenon, <1>1, <1>7 DEF apiVars
<1> QED
  BY Zenon, <1>1, <1>3, <1>4, <1>5, <1>6, <1>7 DEF Step

Shapes == CallInv /\ StoreShape

\* Calls, logs and the store keep their shapes.
LEMMA ShapesKept == Spec => []Shapes
<1>1. Init => Shapes
  <2> SUFFICES ASSUME Init PROVE Shapes
    OBVIOUS
  <2>1. PICK d \in Initial : EnginesInit(d)
    BY Zenon DEF Init
  <2>2. data = d /\ now = 1 /\ dying = [c \in Client |-> Absent]
    BY Zenon, <2>1 DEF EnginesInit
  <2>3. d \in Data /\ IsFiniteSet(Present(d))
    BY Zenon, ApiAssumption DEF Present
  <2>4. dying \in [Client -> Key \cup {Absent}]
    BY Zenon, <2>2
  <2>5. now \in Nat \ {0} /\ <<>> \in Seq(LogEntry)
    BY <2>2
  <2>6. call = [c \in Client |-> NoCall] /\ undecided = {} /\ queue = <<>>
    BY Zenon DEF Init, ApiInit
  <2>7. NoCall \in CallRecord
    BY DEF NoCall, CallRecord, NoCommand
  <2>8. NoCall.pc = "idle" /\ NoCall.status = 0 /\ NoCall.appends = 0
    BY DEF NoCall
  <2>9. CallGood(NoCall)
    BY <2>8 DEF CallGood, Refusal
  <2>10. CallInv
    BY Zenon, <2>6, <2>7, <2>9 DEF CallInv
  <2>11. StoreShape
    BY Zenon, <2>2, <2>3, <2>4, <2>5, <2>6 DEF StoreShape
  <2> QED
    BY Zenon, <2>10, <2>11 DEF Shapes
<1>2. Shapes /\ [Next]_vars => Shapes'
  <2> SUFFICES ASSUME Shapes, [Next]_vars PROVE Shapes'
    OBVIOUS
  <2>0. CallInv /\ StoreShape
    BY Zenon DEF Shapes
  <2>1. CASE Next
    <3>1. Step
      BY Zenon, <2>1 DEF Next
    <3>2. CallInv'
      BY Zenon, <2>0, <3>1, CallStep
    <3>3. EngineEffect
      BY Zenon, <2>0, <3>1, StepEffect
    <3>4. /\ data' \in Data /\ IsFiniteSet(Present(data')) /\ now' \in Nat \ {0}
          /\ dying' \in [Client -> Key \cup {Absent}]
      BY Zenon, <2>0, <3>3, DataStep DEF StoreShape
    <3>5. undecided' \subseteq LogEntry /\ queue' \in Seq(LogEntry)
      BY Zenon, <2>0, <3>1, LogStep
    <3>6. StoreShape'
      BY Zenon, <3>4, <3>5 DEF StoreShape, Present, LogEntry
    <3> QED
      BY Zenon, <3>2, <3>6 DEF Shapes
  <2>2. CASE UNCHANGED vars
    <3>1. data' = data /\ now' = now /\ dying' = dying /\ undecided' = undecided /\ queue' = queue /\ call' = call
      BY Zenon, <2>2 DEF vars, engineVars, engines, engine, apiVars
    <3>2. CallInv'
      BY Zenon, <2>0, <3>1 DEF CallInv, CallGood, LooksUp
    <3>3. StoreShape'
      BY Zenon, <2>0, <3>1 DEF StoreShape, Present, LogEntry
    <3> QED
      BY Zenon, <3>2, <3>3 DEF Shapes
  <2> QED
    BY Zenon, <2>1, <2>2
<1> QED
  BY <1>1, <1>2, PTL DEF Spec

\* However a call is redirected and wherever leadership moves, its mutation enters one log
\* at most, and none when the answer is 307, 400 or 503.
THEOREM MutationsEnterOneLog == Spec => []AppendedAtMostOnce
<1>1. Shapes => AppendedAtMostOnce
  <2> SUFFICES ASSUME Shapes, NEW c \in Client
               PROVE  /\ call[c].appends <= 1
                      /\ call[c].status \in {307, 400, 503} => call[c].appends = 0
    BY Zenon DEF AppendedAtMostOnce
  <2>1. CallGood(call[c])
    BY Zenon DEF Shapes, CallInv
  <2> QED
    BY Zenon, <2>1 DEF CallGood, Refusal
<1> QED
  BY <1>1, ShapesKept, PTL

(***************************************************************************)
(* The count of expired keys                                               *)
(***************************************************************************)

\* Deadlines that leave the store are counted once at most.
LEMMA CountedGone ==
  ASSUME CountInv, IsFiniteSet(Timed(data)), NEW gone, gone \subseteq Timed(data),
         Timed(data') \subseteq Timed(data) \ gone,
         expired' = expired + Cardinality(gone), deadlines' = deadlines
  PROVE  CountInv'
<1> DEFINE T == Timed(data)
           U == Timed(data')
<1>1. IsFiniteSet(gone) /\ IsFiniteSet(T \ gone) /\ IsFiniteSet(U)
  BY Zenon, FS_Subset
<1>2. Cardinality(U) <= Cardinality(T \ gone)
  BY Zenon, <1>1, FS_Subset
<1>3. Cardinality(T \ gone) = Cardinality(T) - Cardinality(T \cap gone)
  BY Zenon, FS_Difference
<1>4. T \cap gone = gone
  BY Zenon
<1>5. /\ Cardinality(T) \in Nat /\ Cardinality(U) \in Nat
      /\ Cardinality(gone) \in Nat /\ Cardinality(T \ gone) \in Nat
  BY Zenon, <1>1, FS_CardinalityType
<1>6. {expired, deadlines} \subseteq Nat /\ expired + Cardinality(T) <= deadlines
  BY Zenon DEF CountInv
<1> DEFINE u == Cardinality(U)
           w == Cardinality(T)
           g == Cardinality(gone)
<1>7. u <= w - g /\ expired' = expired + g
  BY Zenon, <1>2, <1>3, <1>4
<1>8. u \in Nat /\ w \in Nat /\ g \in Nat /\ expired + w <= deadlines
  BY Zenon, <1>5, <1>6
<1> HIDE DEF T, U, u, w, g
<1>9. expired' \in Nat /\ deadlines' \in Nat /\ expired' + u <= deadlines'
  BY <1>6, <1>7, <1>8
<1> QED
  BY Zenon, <1>9 DEF CountInv, Timed, U, u

\* The same for one dead key.
LEMMA CountedOne ==
  ASSUME CountInv, IsFiniteSet(Timed(data)), NEW k \in Timed(data),
         Timed(data') \subseteq Timed(data) \ {k},
         expired' = expired + 1, deadlines' = deadlines
  PROVE  CountInv'
<1>1. Cardinality({k}) = 1
  BY Zenon, FS_Singleton
<1>2. {k} \subseteq Timed(data)
  BY Zenon
<1>3. expired' = expired + Cardinality({k})
  BY Zenon, <1>1
<1> QED
  BY Zenon, <1>2, <1>3, CountedGone

\* The same when no dead key is met.
LEMMA CountedNone ==
  ASSUME CountInv, IsFiniteSet(Timed(data)), Timed(data') \subseteq Timed(data),
         expired' = expired, deadlines' = deadlines
  PROVE  CountInv'
<1> DEFINE gone == {}
<1>1. Cardinality(gone) = 0
  BY Zenon, FS_EmptySet
<1>2. expired \in Nat
  BY Zenon DEF CountInv
<1>3. expired' = expired + Cardinality(gone)
  BY <1>1, <1>2
<1>4. Timed(data') \subseteq Timed(data) \ gone /\ gone \subseteq Timed(data)
  BY Zenon
<1> HIDE DEF gone
<1> QED
  BY Zenon, <1>3, <1>4, CountedGone

\* One deadline is set.
LEMMA CountedNew ==
  ASSUME CountInv, IsFiniteSet(Timed(data)), NEW k, Timed(data') \subseteq Timed(data) \cup {k},
         expired' = expired, deadlines' = deadlines + 1
  PROVE  CountInv'
<1> DEFINE T == Timed(data)
           U == Timed(data')
           u == Cardinality(U)
           v == Cardinality(T \cup {k})
           w == Cardinality(T)
<1>1. IsFiniteSet(T \cup {k}) /\ (v = w \/ v = w + 1)
  BY Zenon, FS_AddElement
<1>2. IsFiniteSet(U) /\ u <= v
  BY Zenon, <1>1, FS_Subset
<1>3. u \in Nat /\ v \in Nat /\ w \in Nat
  BY Zenon, <1>1, <1>2, FS_CardinalityType
<1>4. expired \in Nat /\ deadlines \in Nat /\ expired + w <= deadlines
  BY Zenon DEF CountInv
<1> HIDE DEF T, U, u, v, w
<1>5. expired' \in Nat /\ deadlines' \in Nat /\ expired' + u <= deadlines'
  BY <1>1, <1>2, <1>3, <1>4
<1> QED
  BY Zenon, <1>5 DEF CountInv, Timed, U, u

\* What a mutation does with the deadline of its key: a dead one is dropped, and only
\* an Expire of a live key sets one.
LEMMA DeadlineAfter ==
  ASSUME data \in Data, NEW c \in Mutation, c[1] # "clear"
  PROVE  LET k == c[2]
             e == EntryAfter(data, c, now)
         IN  /\ MeetsDead(c) => e = Absent \/ e.Exp = 0
             /\ \/ e = Absent \/ e.Exp = 0 \/ e = data[k]
                \/ c[1] = "expire" /\ Live(data, k, now)
<1> DEFINE k == c[2]
           e == EntryAfter(data, c, now)
<1>0. \A v : Fresh(v).Exp = 0
  BY DEF Fresh
<1>1. ASSUME MeetsDead(c) PROVE ~Live(data, k, now) /\ DropEntry(data, k, now) = Absent
  BY Zenon, <1>1 DEF MeetsDead, Dead, Live, DropEntry
<1>2. DropEntry(data, k, now) \in {Absent, data[k]}
  BY Zenon DEF DropEntry
<1>3. CASE c[1] = "put"
  <2>1. e = Fresh(c[3]) /\ ~MeetsDead(c)
    BY <1>3 DEF EntryAfter, MeetsDead
  <2> QED
    BY Zenon, <1>0, <2>1
<1>4. CASE c[1] = "delete"
  <2>1. e = Absent
    BY <1>4 DEF EntryAfter
  <2> QED
    BY Zenon, <2>1
<1>5. CASE c[1] = "incr"
  <2>1. e = IF ~Live(data, k, now) THEN Fresh(FormatInt(1))
            ELSE IF CanIncr(data, k, now) THEN Fresh(FormatInt(ParseInt(data[k].Value) + 1))
            ELSE data[k]
    BY <1>5 DEF EntryAfter
  <2> HIDE DEF e, k
  <2>2. (MeetsDead(c) => e = Absent \/ e.Exp = 0) /\ (e = Absent \/ e.Exp = 0 \/ e = data[k])
    BY Zenon, <1>0, <1>1, <2>1
  <2> QED
    BY Zenon, <2>2 DEF e, k
<1>6. CASE c[1] = "cas"
  <2>1. e = IF Live(data, k, now) /\ data[k].Value = c[3] THEN Fresh(c[4]) ELSE DropEntry(data, k, now)
    BY <1>6 DEF EntryAfter
  <2> HIDE DEF e, k
  <2>2. (MeetsDead(c) => e = Absent \/ e.Exp = 0) /\ (e = Absent \/ e.Exp = 0 \/ e = data[k])
    BY Zenon, <1>0, <1>1, <1>2, <2>1
  <2> QED
    BY Zenon, <2>2 DEF e, k
<1>7. CASE c[1] = "expire"
  <2>1. e = IF Live(data, k, now) THEN [Value |-> data[k].Value, Exp |-> c[3]] ELSE DropEntry(data, k, now)
    BY <1>7 DEF EntryAfter
  <2> HIDE DEF e, k
  <2>2. /\ MeetsDead(c) => e = Absent \/ e.Exp = 0
        /\ e = Absent \/ e.Exp = 0 \/ e = data[k] \/ Live(data, k, now)
    BY Zenon, <1>0, <1>1, <1>2, <2>1
  <2> QED
    BY Zenon, <1>7, <2>2 DEF e, k
<1> QED
  BY Zenon, <1>3, <1>4, <1>5, <1>6, <1>7, MutationKinds

\* The count is kept by a mutation.
LEMMA CountDo ==
  ASSUME CountInv, data \in Data, IsFiniteSet(Timed(data)), NEW c \in Mutation, Do(c)
  PROVE  CountInv'
<1> DEFINE k == c[2]
           e == EntryAfter(data, c, now)
           ok == c[1] = "expire" /\ Outcome(data, c, now) = <<"ok">>
<1>1. /\ data' = ApplyRecord(data, c, now)
      /\ expired' = (IF MeetsDead(c) THEN expired + 1 ELSE expired)
      /\ deadlines' = (IF ok THEN deadlines + 1 ELSE deadlines)
  BY Zenon DEF Do
<1>2. CASE c[1] = "clear"
  <2>1. data' = NewMemStore
    BY Zenon, <1>1, <1>2, RecordCleared
  <2>2. Timed(data') = {}
    BY Zenon, <2>1 DEF Timed, NewMemStore
  <2>3. ~MeetsDead(c) /\ ~ok
    BY <1>2 DEF MeetsDead
  <2>4. expired' = expired /\ deadlines' = deadlines
    BY Zenon, <1>1, <2>3
  <2> HIDE DEF ok
  <2>5. Timed(data') \subseteq Timed(data)
    BY Zenon, <2>2
  <2> QED
    BY Zenon, <2>4, <2>5, CountedNone
<1>3. CASE c[1] # "clear"
  <2> DEFINE d == ApplyRecord(data, c, now)
  <2>0. k \in Key /\ d \in Data /\ d[k] = e /\ \A x \in Key : x # k => d[x] = data[x]
    BY SMTT(30), <1>3, RecordKeys
  <2> HIDE DEF d, e, k
  <2>1. k \in Key /\ data' \in Data /\ data'[k] = e /\ \A x \in Key : x # k => data'[x] = data[x]
    BY Zenon, <1>1, <2>0 DEF d
  <2> USE DEF e, k
  <2>2. /\ MeetsDead(c) => e = Absent \/ e.Exp = 0
        /\ e = Absent \/ e.Exp = 0 \/ e = data[k] \/ (c[1] = "expire" /\ Live(data, k, now))
    BY Zenon, <1>3, DeadlineAfter
  <2>3. ok <=> c[1] = "expire" /\ Live(data, k, now)
    BY DEF Outcome
  <2>4. MeetsDead(c) => Dead(k)
    BY Zenon DEF MeetsDead
  <2> HIDE DEF ok, k, e
  <2>5. Timed(data') \subseteq Timed(data) \cup {k}
    BY Zenon, <2>1 DEF Timed
  <2>6. CASE MeetsDead(c)
    <3>1. k \in Timed(data) /\ ~Live(data, k, now)
      BY Zenon, <2>1, <2>4, <2>6 DEF Dead, Timed, EntryExpired, Live
    <3>2. k \notin Timed(data')
      BY Zenon, <2>1, <2>2, <2>6 DEF Timed
    <3>3. expired' = expired + 1 /\ deadlines' = deadlines
      BY Zenon, <1>1, <2>3, <2>6, <3>1
    <3>4. Timed(data') \subseteq Timed(data) \ {k}
      BY Zenon, <2>5, <3>2
    <3> QED
      BY Zenon, <3>1, <3>3, <3>4, CountedOne
  <2>7. CASE ~MeetsDead(c) /\ ok
    BY Zenon, <1>1, <2>5, <2>7, CountedNew
  <2>8. CASE ~MeetsDead(c) /\ ~ok
    <3>1. e = Absent \/ e.Exp = 0 \/ e = data[k]
      BY Zenon, <2>2, <2>3, <2>8
    <3>2. Timed(data') \subseteq Timed(data)
      BY Zenon, <2>1, <2>5, <3>1 DEF Timed
    <3>3. expired' = expired /\ deadlines' = deadlines
      BY Zenon, <1>1, <2>8
    <3> QED
      BY Zenon, <3>2, <3>3, CountedNone
  <2> QED
    BY Zenon, <2>6, <2>7, <2>8
<1> QED
  BY Zenon, <1>2, <1>3

\* The count is kept by every step.
LEMMA CountStep ==
  ASSUME CountInv, StoreShape, EngineEffect
  PROVE  CountInv'
<1>0. data \in Data /\ IsFiniteSet(Timed(data)) /\ dying \in [Client -> Key \cup {Absent}]
  <2>1. Timed(data) \subseteq Present(data)
    BY Zenon DEF Timed, Present
  <2> QED
    BY Zenon, <2>1, FS_Subset DEF StoreShape
<1>1. CASE data' = data /\ expired' = expired /\ deadlines' = deadlines
  <2>1. Timed(data') \subseteq Timed(data)
    BY Zenon, <1>1
  <2> QED
    BY Zenon, <1>0, <1>1, <2>1, CountedNone
<1>2. CASE UNCHANGED engine
  BY Zenon, <1>1, <1>2 DEF engine
<1>3. ASSUME NEW cmd \in Mutation, Do(cmd) PROVE CountInv'
  BY Zenon, <1>0, <1>3, CountDo
<1>4. ASSUME NEW c \in Client, GetDropsDead(c) PROVE CountInv'
  <2> DEFINE k == dying[c]
  <2>1. /\ k # Absent /\ k \in Key \cup {Absent} /\ data' = DropDead(data, k, now) /\ deadlines' = deadlines
        /\ expired' = IF data' # data THEN expired + 1 ELSE expired
    BY Zenon, <1>0, <1>4 DEF GetDropsDead
  <2> HIDE DEF k
  <2>2. k \in Key
    BY Zenon, <2>1
  <2>3. CASE Dead(k)
    <3>1. data' = [data EXCEPT ![k] = Absent] /\ data[k] # Absent
      BY Zenon, <2>1, <2>3 DEF DropDead, Dead
    <3>2. data'[k] = Absent /\ \A x \in Key : x # k => data'[x] = data[x]
      BY Zenon, <1>0, <2>2, <3>1 DEF Data
    <3>3. k \in Timed(data) /\ Timed(data') \subseteq Timed(data) \ {k}
      BY Zenon, <2>2, <2>3, <3>2 DEF Timed, Dead, EntryExpired
    <3>4. expired' = expired + 1
      BY Zenon, <2>1, <3>1, <3>2
    <3> QED
      BY Zenon, <1>0, <2>1, <3>3, <3>4, CountedOne
  <2>4. CASE ~Dead(k)
    <3>1. data' = data
      BY Zenon, <2>1, <2>4 DEF DropDead, Dead
    <3>2. expired' = expired
      BY Zenon, <2>1, <3>1
    <3> QED
      BY Zenon, <1>1, <2>1, <3>1, <3>2
  <2> QED
    BY Zenon, <2>3, <2>4
<1>5. CASE Sweep
  <2> DEFINE gone == {k \in Key : data'[k] # data[k]}
  <2>1. /\ data' = SweepExpired(data, now) /\ deadlines' = deadlines
        /\ expired' = expired + Cardinality(gone)
    BY Zenon, <1>5 DEF Sweep
  <2>2. \A x \in Key : data'[x] = DropEntry(data, x, now)
    BY Zenon, <1>0, <2>1, SweepShape
  <2>3. \A x \in gone : x \in Key /\ data[x] # Absent /\ EntryExpired(data[x], now) /\ data'[x] = Absent
    BY Zenon, <2>2 DEF DropEntry
  <2>4. \A x \in Key : x \notin gone => data'[x] = data[x]
    BY Zenon
  <2> HIDE DEF gone
  <2>5. gone \subseteq Timed(data) /\ Timed(data') \subseteq Timed(data) \ gone
    BY Zenon, <2>3, <2>4 DEF Timed, EntryExpired
  <2> QED
    BY Zenon, <1>0, <2>1, <2>5, CountedGone
<1>6. ASSUME NEW c \in Client, NEW k \in Key, GetSeesDead(c, k) PROVE UNCHANGED engine
  BY Zenon, <1>6 DEF GetSeesDead
<1>7. ASSUME Tick \/ ScanPage \/ UNCHANGED engines PROVE UNCHANGED engine
  BY Zenon, <1>7 DEF Tick, ScanPage, engines
<1> QED
  BY Zenon, <1>2, <1>3, <1>4, <1>5, <1>6, <1>7 DEF EngineEffect

\* However calls of Get, mutations and the sweep meet a dead key, it is counted once:
\* ExpiredCount is never more than the deadlines that were set.
THEOREM DeadlinesCountedOnce == Spec => []ExpiredCountedOnce
<1>1. Init => CountInv
  <2> SUFFICES ASSUME Init PROVE CountInv
    OBVIOUS
  <2>1. PICK d \in Initial : EnginesInit(d)
    BY Zenon DEF Init
  <2>2. expired = 0 /\ data = d /\ deadlines = Cardinality(Timed(d))
    BY Zenon, <2>1 DEF EnginesInit, Timed
  <2>3. IsFiniteSet(Present(d)) /\ Timed(d) \subseteq Present(d)
    BY Zenon, ApiAssumption DEF Present, Timed
  <2>4. deadlines \in Nat
    BY Zenon, <2>2, <2>3, FS_Subset, FS_CardinalityType
  <2>5. expired + deadlines <= deadlines /\ expired \in Nat
    BY <2>2, <2>4
  <2> QED
    BY Zenon, <2>2, <2>4, <2>5 DEF CountInv
<1>2. Shapes /\ CountInv /\ [Next]_vars => CountInv'
  <2> SUFFICES ASSUME Shapes, CountInv, [Next]_vars PROVE CountInv'
    OBVIOUS
  <2>0. CallInv /\ StoreShape
    BY Zenon DEF Shapes
  <2>1. CASE Next
    <3>1. EngineEffect
      BY Zenon, <2>0, <2>1, StepEffect DEF Next
    <3> QED
      BY Zenon, <2>0, <3>1, CountStep
  <2>2. CASE UNCHANGED vars
    <3>1. UNCHANGED engines
      BY Zenon, <2>2 DEF vars, engineVars
    <3>2. EngineEffect
      BY Zenon, <3>1 DEF EngineEffect
    <3> QED
      BY Zenon, <2>0, <3>2, CountStep
  <2> QED
    BY Zenon, <2>1, <2>2
<1>3. Shapes /\ CountInv => ExpiredCountedOnce
  <2> SUFFICES ASSUME Shapes, CountInv PROVE ExpiredCountedOnce
    OBVIOUS
  <2>1. IsFiniteSet(Present(data)) /\ Timed(data) \subseteq Present(data)
    BY Zenon DEF Shapes, StoreShape, Present, Timed
  <2> DEFINE w == Cardinality(Timed(data))
  <2>2. w \in Nat
    BY Zenon, <2>1, FS_Subset, FS_CardinalityType
  <2>3. expired \in Nat /\ deadlines \in Nat /\ expired + w <= deadlines
    BY Zenon DEF CountInv
  <2> HIDE DEF w
  <2> QED
    BY <2>2, <2>3 DEF ExpiredCountedOnce
<1> QED
  BY <1>1, <1>2, <1>3, ShapesKept, PTL DEF Spec

(***************************************************************************)
(* The contract fake                                                       *)
(***************************************************************************)

\* FakeStore writes one key.
LEMMA FakeStoreFacts ==
  ASSUME NEW f \in Fake, NEW k \in Key, NEW v \in Text \cup {Absent}, NEW at \in Nat \cup {Absent}
  PROVE  /\ FakeStore(f, k, v, at) \in Fake
         /\ FakeStore(f, k, v, at).data[k] = v /\ FakeStore(f, k, v, at).expires[k] = at
         /\ \A x \in Key : x # k => /\ FakeStore(f, k, v, at).data[x] = f.data[x]
                                    /\ FakeStore(f, k, v, at).expires[x] = f.expires[x]
<1> DEFINE g == [data |-> [f.data EXCEPT ![k] = v], expires |-> [f.expires EXCEPT ![k] = at]]
<1>1. /\ f = [data |-> f.data, expires |-> f.expires]
      /\ f.data \in [Key -> Text \cup {Absent}] /\ f.expires \in [Key -> Nat \cup {Absent}]
  BY DEF Fake
<1>2. FakeStore(f, k, v, at) = g
  BY Zenon DEF FakeStore
<1>3. g.data = [f.data EXCEPT ![k] = v] /\ g.expires = [f.expires EXCEPT ![k] = at]
  OBVIOUS
<1>4. /\ [f.data EXCEPT ![k] = v] \in [Key -> Text \cup {Absent}]
      /\ [f.expires EXCEPT ![k] = at] \in [Key -> Nat \cup {Absent}]
  BY Zenon, <1>1
<1>5. g \in Fake
  BY <1>4 DEF Fake
<1> HIDE DEF g
<1>6. g.data[k] = v /\ g.expires[k] = at
  BY Zenon, <1>1, <1>3
<1>7. \A x \in Key : x # k => g.data[x] = f.data[x] /\ g.expires[x] = f.expires[x]
  BY Zenon, <1>1, <1>3
<1> QED
  BY Zenon, <1>2, <1>5, <1>6, <1>7

\* Writing the value or the deadline of a key alone, or the same key twice.
LEMMA FakeStoreForms ==
  ASSUME NEW f \in Fake, NEW k \in Key
  PROVE  /\ f = FakeStore(f, k, f.data[k], f.expires[k])
         /\ \A v : [f EXCEPT !.data[k] = v] = FakeStore(f, k, v, f.expires[k])
         /\ \A at : [f EXCEPT !.expires[k] = at] = FakeStore(f, k, f.data[k], at)
         /\ \A v, at, w, bt : FakeStore(FakeStore(f, k, v, at), k, w, bt) = FakeStore(f, k, w, bt)
<1>1. /\ f = [data |-> f.data, expires |-> f.expires]
      /\ f.data \in [Key -> Text \cup {Absent}] /\ f.expires \in [Key -> Nat \cup {Absent}]
  BY DEF Fake
<1>2. \A v, at : FakeStore(f, k, v, at)
                   = [data |-> [f.data EXCEPT ![k] = v], expires |-> [f.expires EXCEPT ![k] = at]]
  BY Zenon DEF FakeStore
<1>3. [f.data EXCEPT ![k] = f.data[k]] = f.data /\ [f.expires EXCEPT ![k] = f.expires[k]] = f.expires
  BY <1>1
<1>4. \A v : [f EXCEPT !.data[k] = v] = [data |-> [f.data EXCEPT ![k] = v], expires |-> f.expires]
  BY <1>1
<1>5. \A at : [f EXCEPT !.expires[k] = at] = [data |-> f.data, expires |-> [f.expires EXCEPT ![k] = at]]
  BY <1>1
<1>6. \A v, at, w, bt : FakeStore(FakeStore(f, k, v, at), k, w, bt) = FakeStore(f, k, w, bt)
  <2> TAKE v, at, w, bt
  <2> DEFINE D == [f.data EXCEPT ![k] = v]
             X == [f.expires EXCEPT ![k] = at]
  <2>1. FakeStore([data |-> D, expires |-> X], k, w, bt)
          = [data |-> [D EXCEPT ![k] = w], expires |-> [X EXCEPT ![k] = bt]]
    <3> HIDE DEF D, X
    <3> QED
      BY DEF FakeStore
  <2>2. [D EXCEPT ![k] = w] = [f.data EXCEPT ![k] = w]
    BY <1>1
  <2>3. [X EXCEPT ![k] = bt] = [f.expires EXCEPT ![k] = bt]
    BY <1>1
  <2> QED
    BY ZenonT(40), <1>2, <2>1, <2>2, <2>3
<1>7. f = FakeStore(f, k, f.data[k], f.expires[k])
  BY SMTT(30), <1>1, <1>2, <1>3
<1>8. \A v : [f EXCEPT !.data[k] = v] = FakeStore(f, k, v, f.expires[k])
  BY SMTT(30), <1>2, <1>3, <1>4
<1>9. \A at : [f EXCEPT !.expires[k] = at] = FakeStore(f, k, f.data[k], at)
  BY SMTT(30), <1>2, <1>3, <1>5
<1> QED
  BY Zenon, <1>6, <1>7, <1>8, <1>9

\* The deadline that the fake sees once the dead key is dropped.
FakeDeadline(f, k, t) == IF ExpiredLocked(f, k, t) THEN Absent ELSE f.expires[k]

\* What the fake serves of a key, and what is left of it when it is dropped.
LEMMA FakeDropForm ==
  ASSUME NEW f \in Fake, NEW k \in Key, NEW t
  PROVE  /\ FakeDropDead(f, k, t) = FakeStore(f, k, FakeGet(f, k, t), FakeDeadline(f, k, t))
         /\ FakeGet(f, k, t) = (IF ExpiredLocked(f, k, t) THEN Absent ELSE f.data[k])
         /\ FakeGet(f, k, t) \in Text \cup {Absent}
         /\ FakeDeadline(f, k, t) \in Nat \cup {Absent}
<1>0. /\ f.data \in [Key -> Text \cup {Absent}] /\ f.expires \in [Key -> Nat \cup {Absent}]
  BY DEF Fake
<1>1. f.data[k] \in Text \cup {Absent} /\ f.expires[k] \in Nat \cup {Absent}
  BY Zenon, <1>0
<1>2. Absent \in Text \cup {Absent} /\ Absent \in Nat \cup {Absent}
  BY Zenon
<1>3. CASE ExpiredLocked(f, k, t)
  <2>1. FakeDropDead(f, k, t) = FakeStore(f, k, Absent, Absent) /\ FakeDeadline(f, k, t) = Absent
    BY Zenon, <1>3 DEF FakeDropDead, FakeDeadline
  <2>2. FakeStore(f, k, Absent, Absent).data[k] = Absent
    BY SMTT(30), <1>2, FakeStoreFacts
  <2>3. FakeGet(f, k, t) = Absent
    BY Zenon, <2>1, <2>2 DEF FakeGet
  <2> QED
    BY Zenon, <1>2, <1>3, <2>1, <2>3
<1>4. CASE ~ExpiredLocked(f, k, t)
  <2>1. FakeDropDead(f, k, t) = f /\ FakeDeadline(f, k, t) = f.expires[k]
    BY Zenon, <1>4 DEF FakeDropDead, FakeDeadline
  <2>2. FakeGet(f, k, t) = f.data[k]
    BY Zenon, <2>1 DEF FakeGet
  <2>3. f = FakeStore(f, k, f.data[k], f.expires[k])
    BY Zenon, FakeStoreForms
  <2> QED
    BY Zenon, <1>1, <1>4, <2>1, <2>2, <2>3
<1> QED
  BY Zenon, <1>3, <1>4

\* A number in the fake that Incr refuses.
FakeStuck(cur) == ~IsNumeric(cur) \/ ParseInt(cur) = MaxInt64

\* The value and the deadline that a mutation leaves in the fake.
FakeValueAfter(f, c, t) ==
  LET cur == FakeGet(f, c[2], t)
  IN  CASE c[1] = "put"    -> c[3]
        [] c[1] = "delete" -> Absent
        [] c[1] = "incr"   -> IF cur = Absent THEN FormatInt(1)
                              ELSE IF FakeStuck(cur) THEN cur ELSE FormatInt(ParseInt(cur) + 1)
        [] c[1] = "cas"    -> IF cur = c[3] THEN c[4] ELSE cur
        [] c[1] = "expire" -> cur

FakeDeadlineAfter(f, c, t) ==
  LET cur  == FakeGet(f, c[2], t)
      left == FakeDeadline(f, c[2], t)
  IN  CASE c[1] = "put"    -> Absent
        [] c[1] = "delete" -> Absent
        [] c[1] = "incr"   -> left
        [] c[1] = "cas"    -> IF cur = c[3] THEN Absent ELSE left
        [] c[1] = "expire" -> IF cur = Absent THEN left ELSE c[3]

\* A mutation writes them.
LEMMA FakeAt ==
  ASSUME NEW f \in Fake, NEW c \in Mutation, c[1] # "clear", NEW t
  PROVE  FakeApply(f, c, t) = FakeStore(f, c[2], FakeValueAfter(f, c, t), FakeDeadlineAfter(f, c, t))
<1> DEFINE k == c[2]
           cur == FakeGet(f, k, t)
           left == FakeDeadline(f, k, t)
           g == FakeDropDead(f, k, t)
<1>0. k \in Key
  BY Zenon, MutationKinds
<1>1. g = FakeStore(f, k, cur, left) /\ cur \in Text \cup {Absent} /\ left \in Nat \cup {Absent}
  BY Zenon, <1>0, FakeDropForm
<1>2. g.data[k] = cur
  BY Zenon DEF FakeGet
<1>3. g \in Fake /\ g.expires[k] = left
  <2> HIDE DEF k, cur, left, g
  <2> QED
    BY SMTT(30), <1>0, <1>1, FakeStoreFacts
<1>4. \A v : [g EXCEPT !.data[k] = v] = FakeStore(f, k, v, left)
  <2> HIDE DEF k, cur, left, g
  <2>1. \A v : [g EXCEPT !.data[k] = v] = FakeStore(g, k, v, g.expires[k])
    BY Zenon, <1>0, <1>3, FakeStoreForms
  <2>2. \A v, at, w, bt : FakeStore(FakeStore(f, k, v, at), k, w, bt) = FakeStore(f, k, w, bt)
    BY Zenon, <1>0, FakeStoreForms
  <2>3. \A w, bt : FakeStore(g, k, w, bt) = FakeStore(f, k, w, bt)
    BY SMTT(30), <1>1, <2>2
  <2> QED
    BY Zenon, <1>3, <2>1, <2>3
<1>5. \A at : [g EXCEPT !.expires[k] = at] = FakeStore(f, k, cur, at)
  <2> HIDE DEF k, cur, left, g
  <2>1. \A at : [g EXCEPT !.expires[k] = at] = FakeStore(g, k, g.data[k], at)
    BY Zenon, <1>0, <1>3, FakeStoreForms
  <2>2. \A v, at, w, bt : FakeStore(FakeStore(f, k, v, at), k, w, bt) = FakeStore(f, k, w, bt)
    BY Zenon, <1>0, FakeStoreForms
  <2>3. \A w, bt : FakeStore(g, k, w, bt) = FakeStore(f, k, w, bt)
    BY SMTT(30), <1>1, <2>2
  <2> QED
    BY Zenon, <1>2, <2>1, <2>3
<1>6. \A v, at : FakeStore(g, k, v, at) = FakeStore(f, k, v, at)
  <2> HIDE DEF k, cur, left, g
  <2>2. \A v, at, w, bt : FakeStore(FakeStore(f, k, v, at), k, w, bt) = FakeStore(f, k, w, bt)
    BY Zenon, <1>0, FakeStoreForms
  <2> QED
    BY SMTT(30), <1>1, <2>2
<1>7. CASE c[1] = "put"
  BY <1>7 DEF FakeApply, FakeValueAfter, FakeDeadlineAfter
<1>8. CASE c[1] = "delete"
  BY <1>8 DEF FakeApply, FakeValueAfter, FakeDeadlineAfter
<1>9. CASE c[1] = "incr"
  <2>1. FakeApply(f, c, t) = FakeIncr(f, k, t)
    BY <1>9 DEF FakeApply
  <2>2. FakeDeadlineAfter(f, c, t) = left
    BY <1>9 DEF FakeDeadlineAfter
  <2>3. FakeValueAfter(f, c, t) = IF cur = Absent THEN FormatInt(1)
                                  ELSE IF FakeStuck(cur) THEN cur ELSE FormatInt(ParseInt(cur) + 1)
    BY <1>9 DEF FakeValueAfter
  <2>4. FakeIncr(f, k, t) = IF g.data[k] = Absent THEN [g EXCEPT !.data[k] = FormatInt(1)]
                            ELSE IF FakeStuck(g.data[k]) THEN g
                            ELSE [g EXCEPT !.data[k] = FormatInt(ParseInt(g.data[k]) + 1)]
    BY Zenon DEF FakeIncr, FakeStuck
  <2> HIDE DEF k, cur, left, g
  <2>5. FakeIncr(f, k, t) = IF cur = Absent THEN FakeStore(f, k, FormatInt(1), left)
                            ELSE IF FakeStuck(cur) THEN FakeStore(f, k, cur, left)
                            ELSE FakeStore(f, k, FormatInt(ParseInt(cur) + 1), left)
    BY Zenon, <1>1, <1>2, <1>4, <2>4
  <2>6. FakeIncr(f, k, t) = FakeStore(f, k, FakeValueAfter(f, c, t), left)
    BY Zenon, <2>3, <2>5
  <2> QED
    BY Zenon, <2>1, <2>2, <2>6 DEF k
<1>10. CASE c[1] = "cas"
  <2>1. FakeApply(f, c, t) = FakeCAS(f, k, c[3], c[4], t)
    BY <1>10 DEF FakeApply
  <2>2. FakeDeadlineAfter(f, c, t) = IF cur = c[3] THEN Absent ELSE left
    BY <1>10 DEF FakeDeadlineAfter
  <2>3. FakeValueAfter(f, c, t) = IF cur = c[3] THEN c[4] ELSE cur
    BY <1>10 DEF FakeValueAfter
  <2>4. FakeCAS(f, k, c[3], c[4], t) = IF g.data[k] = c[3] THEN FakeStore(g, k, c[4], Absent) ELSE g
    BY Zenon DEF FakeCAS
  <2> HIDE DEF k, cur, left, g
  <2>5. FakeCAS(f, k, c[3], c[4], t) = FakeStore(f, k, FakeValueAfter(f, c, t), FakeDeadlineAfter(f, c, t))
    BY Zenon, <1>1, <1>2, <1>6, <2>2, <2>3, <2>4
  <2> QED
    BY Zenon, <2>1, <2>5 DEF k
<1>11. CASE c[1] = "expire"
  <2>1. FakeApply(f, c, t) = FakeExpire(f, k, c[3], t)
    BY <1>11 DEF FakeApply
  <2>2. FakeDeadlineAfter(f, c, t) = IF cur = Absent THEN left ELSE c[3]
    BY <1>11 DEF FakeDeadlineAfter
  <2>3. FakeValueAfter(f, c, t) = cur
    BY <1>11 DEF FakeValueAfter
  <2>4. FakeExpire(f, k, c[3], t) = IF g.data[k] = Absent THEN g ELSE [g EXCEPT !.expires[k] = c[3]]
    BY Zenon DEF FakeExpire
  <2> HIDE DEF k, cur, left, g
  <2>5. FakeExpire(f, k, c[3], t) = FakeStore(f, k, cur, FakeDeadlineAfter(f, c, t))
    BY Zenon, <1>1, <1>2, <1>5, <2>2, <2>4
  <2> QED
    BY Zenon, <2>1, <2>3, <2>5 DEF k
<1> QED
  BY Zenon, <1>7, <1>8, <1>9, <1>10, <1>11, MutationKinds

\* They have their shapes, and a value that is missing has no deadline.
LEMMA FakeAfterShape ==
  ASSUME NEW f \in Fake, \A k \in Key : f.data[k] = Absent => f.expires[k] = Absent,
         NEW c \in Mutation, c[1] # "clear", NEW t
  PROVE  /\ FakeValueAfter(f, c, t) \in Text \cup {Absent}
         /\ FakeDeadlineAfter(f, c, t) \in Nat \cup {Absent}
         /\ FakeValueAfter(f, c, t) = Absent => FakeDeadlineAfter(f, c, t) = Absent
<1> DEFINE k == c[2]
           cur == FakeGet(f, k, t)
           left == FakeDeadline(f, k, t)
           v == FakeValueAfter(f, c, t)
           x == FakeDeadlineAfter(f, c, t)
<1>0. k \in Key
  BY Zenon, MutationKinds
<1>1. cur \in Text \cup {Absent} /\ left \in Nat \cup {Absent}
  BY Zenon, <1>0, FakeDropForm
<1>2. cur = Absent => left = Absent
  BY Zenon, <1>0, FakeDropForm DEF FakeDeadline
<1>3. Absent \notin Text
  BY Zenon, AbsentAssumption
<1>4. CASE c[1] = "put" /\ c[3] \in Text
  <2>1. v = c[3] /\ x = Absent
    BY <1>4 DEF FakeValueAfter, FakeDeadlineAfter
  <2> QED
    BY Zenon, <1>4, <2>1
<1>5. CASE c[1] = "delete"
  <2>1. v = Absent /\ x = Absent
    BY <1>5 DEF FakeValueAfter, FakeDeadlineAfter
  <2> QED
    BY Zenon, <2>1
<1>6. CASE c[1] = "incr"
  <2>1. /\ v = (IF cur = Absent THEN FormatInt(1)
                ELSE IF FakeStuck(cur) THEN cur ELSE FormatInt(ParseInt(cur) + 1))
        /\ x = left
    BY <1>6 DEF FakeValueAfter, FakeDeadlineAfter
  <2>2. FormatInt(1) \in Text
    BY MaxInt64Assumption DEF FormatInt, Text
  <2>3. ASSUME cur # Absent, ~FakeStuck(cur) PROVE FormatInt(ParseInt(cur) + 1) \in Text
    BY Zenon, <1>1, <2>3, CountedText DEF FakeStuck, ParseInt
  <2> HIDE DEF v, x, cur, left, k
  <2>4. v \in Text /\ x \in Nat \cup {Absent}
    BY Zenon, <1>1, <2>1, <2>2, <2>3
  <2> QED
    BY Zenon, <1>3, <2>4 DEF v, x
<1>7. CASE c[1] = "cas" /\ c[4] \in Text
  <2>1. v = (IF cur = c[3] THEN c[4] ELSE cur) /\ x = (IF cur = c[3] THEN Absent ELSE left)
    BY <1>7 DEF FakeValueAfter, FakeDeadlineAfter
  <2> HIDE DEF v, x, cur, left, k
  <2>2. v \in Text \cup {Absent} /\ x \in Nat \cup {Absent} /\ (v = Absent => x = Absent)
    BY Zenon, <1>1, <1>2, <1>7, <2>1
  <2> QED
    BY Zenon, <2>2 DEF v, x
<1>8. CASE c[1] = "expire" /\ c[3] \in Nat \ {0}
  <2>1. v = cur /\ x = IF cur = Absent THEN left ELSE c[3]
    BY <1>8 DEF FakeValueAfter, FakeDeadlineAfter
  <2> HIDE DEF v, x, cur, left, k
  <2>2. v \in Text \cup {Absent} /\ x \in Nat \cup {Absent} /\ (v = Absent => x = Absent)
    BY Zenon, <1>1, <1>2, <1>8, <2>1
  <2> QED
    BY Zenon, <2>2 DEF v, x
<1> QED
  BY Zenon, <1>4, <1>5, <1>6, <1>7, <1>8, MutationKinds

\* A value and a deadline of the fake are those of an entry of the store at time t.
SameCell(e, v, x, t) ==
  IF e # Absent /\ ~EntryExpired(e, t)
  THEN v = e.Value /\ x = (IF e.Exp = 0 THEN Absent ELSE e.Exp)
  ELSE v = Absent \/ (x # Absent /\ t >= x)

\* What the fake serves of a key that is alike is what the store serves.
LEMMA AlikeGet ==
  ASSUME data \in Data, now \in Nat, MirrorInv, NEW k \in Key \ kept
  PROVE  /\ FakeGet(fake, k, now) = (IF Live(data, k, now) THEN data[k].Value ELSE Absent)
         /\ Live(data, k, now) => /\ data[k].Value \in Text /\ data[k].Value # Absent
                                  /\ FakeDeadline(fake, k, now) = (IF data[k].Exp = 0 THEN Absent ELSE data[k].Exp)
         /\ ~Live(data, k, now) => FakeDeadline(fake, k, now) = Absent
<1>0. fake \in Fake /\ Alike(k) /\ (fake.data[k] = Absent => fake.expires[k] = Absent) /\ k \in Key
  BY Zenon DEF MirrorInv
<1>1. FakeGet(fake, k, now) = IF ExpiredLocked(fake, k, now) THEN Absent ELSE fake.data[k]
  BY Zenon, <1>0, FakeDropForm
<1>2. CASE Live(data, k, now)
  <2>1. data[k].Value \in Text /\ data[k].Exp \in Nat
    BY Zenon, <1>0, <1>2, PresentEntry DEF Live
  <2>2. data[k].Value # Absent
    BY Zenon, <2>1, AbsentAssumption
  <2>3. /\ fake.data[k] = data[k].Value
        /\ fake.expires[k] = IF data[k].Exp = 0 THEN Absent ELSE data[k].Exp
    BY Zenon, <1>0, <1>2 DEF Alike
  <2>4. data[k].Exp = 0 \/ ~(now >= data[k].Exp)
    BY Zenon, <1>2 DEF Live, EntryExpired
  <2>5. ~ExpiredLocked(fake, k, now)
    BY Zenon, <2>3, <2>4 DEF ExpiredLocked
  <2>6. FakeDeadline(fake, k, now) = fake.expires[k]
    BY Zenon, <2>5 DEF FakeDeadline
  <2> QED
    BY Zenon, <1>1, <1>2, <2>1, <2>2, <2>3, <2>5, <2>6
<1>3. CASE ~Live(data, k, now)
  <2>1. fake.data[k] = Absent \/ ExpiredLocked(fake, k, now)
    BY Zenon, <1>0, <1>3 DEF Alike
  <2>2. FakeGet(fake, k, now) = Absent
    BY Zenon, <1>1, <2>1
  <2>3. FakeDeadline(fake, k, now) = Absent
    BY Zenon, <1>0, <2>1 DEF FakeDeadline
  <2> QED
    BY Zenon, <1>3, <2>2, <2>3
<1> QED
  BY Zenon, <1>2, <1>3

\* A mutation leaves its key alike in both, unless it is one whose deadline the fake keeps.
LEMMA SameAfter ==
  ASSUME data \in Data, now \in Nat \ {0}, MirrorInv, NEW c \in Mutation, c[1] # "clear",
         ~KeepsDeadline(c), c[2] \notin kept \/ c[2] \in Levels(c)
  PROVE  SameCell(EntryAfter(data, c, now), FakeValueAfter(fake, c, now),
                  FakeDeadlineAfter(fake, c, now), now)
<1> DEFINE k == c[2]
           cur == FakeGet(fake, k, now)
           left == FakeDeadline(fake, k, now)
           e == EntryAfter(data, c, now)
           v == FakeValueAfter(fake, c, now)
           x == FakeDeadlineAfter(fake, c, now)
<1>0. k \in Key /\ now \in Nat
  BY Zenon, MutationKinds
<1>1. \A u : Fresh(u).Value = u /\ Fresh(u).Exp = 0 /\ (u \in Text => Fresh(u) \in Entry)
  BY DEF Fresh, Entry
<1>2. \A u \in Text : Fresh(u) # Absent
  BY Zenon, <1>1, AbsentAssumption
<1>3. ASSUME NEW u \in Text, e = Fresh(u), v = u, x = Absent
      PROVE  SameCell(e, v, x, now)
  <2> HIDE DEF e, v, x, k
  <2> QED
    BY Zenon, <1>1, <1>2, <1>3 DEF SameCell, EntryExpired
<1>4. ASSUME k \notin kept
      PROVE  /\ cur = (IF Live(data, k, now) THEN data[k].Value ELSE Absent)
             /\ Live(data, k, now) => data[k].Value \in Text /\ data[k].Value # Absent
             /\ Live(data, k, now) => left = (IF data[k].Exp = 0 THEN Absent ELSE data[k].Exp)
             /\ ~Live(data, k, now) => left = Absent
  <2>1. k \in Key \ kept
    BY Zenon, <1>0, <1>4
  <2>2. cur = IF Live(data, k, now) THEN data[k].Value ELSE Absent
    BY Zenon, <1>0, <2>1, AlikeGet
  <2>3. Live(data, k, now) => data[k].Value \in Text /\ data[k].Value # Absent
    BY Zenon, <1>0, <2>1, AlikeGet
  <2>4. Live(data, k, now) => left = IF data[k].Exp = 0 THEN Absent ELSE data[k].Exp
    BY Zenon, <1>0, <2>1, AlikeGet
  <2>5. ~Live(data, k, now) => left = Absent
    BY Zenon, <1>0, <2>1, AlikeGet
  <2> QED
    BY Zenon, <2>2, <2>3, <2>4, <2>5
\* Nothing is written: the key is served as before, or dropped.
<1>5. ASSUME k \notin kept, e = DropEntry(data, k, now), v = cur, x = left
      PROVE  SameCell(e, v, x, now)
  <2> HIDE DEF e, v, x, cur, left, k
  <2>1. CASE Live(data, k, now)
    <3>1. e = data[k] /\ e # Absent /\ ~EntryExpired(e, now)
      BY Zenon, <1>5, <2>1 DEF Live, DropEntry
    <3>2. v = e.Value /\ x = IF e.Exp = 0 THEN Absent ELSE e.Exp
      BY Zenon, <1>4, <1>5, <2>1, <3>1
    <3> QED
      BY Zenon, <3>1, <3>2 DEF SameCell
  <2>2. CASE ~Live(data, k, now)
    <3>1. e = Absent
      BY Zenon, <1>5, <2>2 DEF Live, DropEntry
    <3>2. v = Absent
      BY Zenon, <1>4, <1>5, <2>2
    <3> QED
      BY Zenon, <3>1, <3>2 DEF SameCell
  <2> QED
    BY Zenon, <2>1, <2>2
<1>6. CASE c[1] = "put" /\ c[3] \in Text
  <2>1. e = Fresh(c[3]) /\ v = c[3] /\ x = Absent
    BY <1>6 DEF EntryAfter, FakeValueAfter, FakeDeadlineAfter
  <2> QED
    BY Zenon, <1>3, <1>6, <2>1
<1>7. CASE c[1] = "delete"
  <2>1. e = Absent /\ v = Absent
    BY <1>7 DEF EntryAfter, FakeValueAfter
  <2> QED
    BY Zenon, <2>1 DEF SameCell
<1>8. CASE c[1] = "incr"
  <2>1. /\ v = (IF cur = Absent THEN FormatInt(1)
                ELSE IF FakeStuck(cur) THEN cur ELSE FormatInt(ParseInt(cur) + 1))
        /\ x = left
    BY <1>8 DEF FakeValueAfter, FakeDeadlineAfter
  <2>2. e = IF ~Live(data, k, now) THEN Fresh(FormatInt(1))
            ELSE IF CanIncr(data, k, now) THEN Fresh(FormatInt(ParseInt(data[k].Value) + 1))
            ELSE data[k]
    BY <1>8 DEF EntryAfter
  <2>3. k \notin kept
    BY <1>8 DEF Levels
  <2>4. Live(data, k, now) /\ CanIncr(data, k, now) => data[k].Exp = 0
    BY Zenon, <1>8 DEF KeepsDeadline
  <2>5. FormatInt(1) \in Text
    BY MaxInt64Assumption DEF FormatInt, Text
  <2> HIDE DEF e, v, x, cur, left, k
  <2>6. CASE ~Live(data, k, now)
    <3>1. cur = Absent /\ left = Absent
      BY Zenon, <1>4, <2>3, <2>6
    <3>2. e = Fresh(FormatInt(1)) /\ v = FormatInt(1) /\ x = Absent
      BY Zenon, <2>1, <2>2, <2>6, <3>1
    <3> QED
      BY Zenon, <1>3, <2>5, <3>2 DEF e, v, x, k
  <2>7. CASE Live(data, k, now) /\ CanIncr(data, k, now)
    <3> DEFINE u == FormatInt(ParseInt(data[k].Value) + 1)
    <3>1. cur = data[k].Value /\ cur # Absent /\ cur \in Text /\ left = Absent
      BY Zenon, <1>4, <2>3, <2>4, <2>7
    <3>2. ~FakeStuck(cur)
      BY Zenon, <2>7, <3>1 DEF CanIncr, FakeStuck
    <3>3. FormatInt(ParseInt(cur) + 1) \in Text
      BY Zenon, <3>1, <3>2, CountedText DEF FakeStuck, ParseInt
    <3>4. u \in Text
      BY Zenon, <3>1, <3>3
    <3>5. e = Fresh(u)
      BY Zenon, <2>2, <2>7
    <3>6. v = FormatInt(ParseInt(cur) + 1) /\ x = Absent
      BY Zenon, <2>1, <3>1, <3>2
    <3>7. v = u
      BY Zenon, <3>1, <3>6
    <3> HIDE DEF u
    <3> QED
      BY Zenon, <1>3, <3>4, <3>5, <3>6, <3>7 DEF e, v, x, k
  <2>8. CASE Live(data, k, now) /\ ~CanIncr(data, k, now)
    <3>1. cur = data[k].Value /\ cur # Absent
      BY Zenon, <1>4, <2>3, <2>8
    <3>2. FakeStuck(cur)
      BY Zenon, <2>8, <3>1 DEF CanIncr, FakeStuck
    <3>3. v = cur /\ x = left
      BY Zenon, <2>1, <3>1, <3>2
    <3>4. e = data[k]
      BY Zenon, <2>2, <2>8
    <3>5. e = DropEntry(data, k, now)
      BY Zenon, <2>8, <3>4 DEF DropEntry, Live
    <3> QED
      BY Zenon, <1>5, <2>3, <3>3, <3>5 DEF e, v, x, k
  <2> QED
    BY Zenon, <2>6, <2>7, <2>8 DEF e, v, x, k
<1>9. CASE c[1] = "cas" /\ c[3] \in Text /\ c[4] \in Text
  <2>1. v = (IF cur = c[3] THEN c[4] ELSE cur) /\ x = (IF cur = c[3] THEN Absent ELSE left)
    BY <1>9 DEF FakeValueAfter, FakeDeadlineAfter
  <2>2. e = IF Live(data, k, now) /\ data[k].Value = c[3] THEN Fresh(c[4]) ELSE DropEntry(data, k, now)
    BY <1>9 DEF EntryAfter
  <2>3. k \notin kept \/ (Outcome(data, c, now) = <<"swapped">> /\ FakeOutcome(fake, c, now) = <<"swapped">>)
    BY <1>9 DEF Levels
  <2>4. Outcome(data, c, now) = <<"swapped">> => Live(data, k, now) /\ data[k].Value = c[3]
    BY <1>9 DEF Outcome
  <2>5. FakeOutcome(fake, c, now) = <<"swapped">> => cur = c[3]
    <3>1. FakeOutcome(fake, c, now) = IF cur = Absent THEN <<"not found">>
                                      ELSE IF cur # c[3] THEN <<"mismatch">> ELSE <<"swapped">>
      BY <1>9 DEF FakeOutcome
    <3>2. <<"not found">> # <<"swapped">> /\ <<"mismatch">> # <<"swapped">>
      OBVIOUS
    <3> HIDE DEF cur
    <3> QED
      BY Zenon, <3>1, <3>2
  <2>6. c[3] # Absent
    BY Zenon, <1>9, AbsentAssumption
  <2> HIDE DEF e, v, x, cur, left, k
  <2>7. CASE Live(data, k, now) /\ data[k].Value = c[3] /\ cur = c[3]
    <3>1. e = Fresh(c[4]) /\ v = c[4] /\ x = Absent
      BY Zenon, <2>1, <2>2, <2>7
    <3> QED
      BY Zenon, <1>3, <1>9, <3>1 DEF e, v, x, k
  <2>8. CASE k \notin kept /\ ~(Live(data, k, now) /\ data[k].Value = c[3])
    <3>1. cur # c[3]
      BY Zenon, <1>4, <2>6, <2>8
    <3>2. e = DropEntry(data, k, now) /\ v = cur /\ x = left
      BY Zenon, <2>1, <2>2, <2>8, <3>1
    <3> QED
      BY Zenon, <1>5, <2>8, <3>2 DEF e, v, x, k
  <2>9. CASE k \notin kept /\ Live(data, k, now) /\ data[k].Value = c[3]
    <3>1. cur = c[3]
      BY Zenon, <1>4, <2>9
    <3> QED
      BY Zenon, <2>7, <2>9, <3>1
  <2> QED
    BY Zenon, <2>3, <2>4, <2>5, <2>7, <2>8, <2>9 DEF e, v, x, k
<1>10. CASE c[1] = "expire" /\ c[3] \in Nat \ {0}
  <2>1. v = cur /\ x = IF cur = Absent THEN left ELSE c[3]
    BY <1>10 DEF FakeValueAfter, FakeDeadlineAfter
  <2>2. e = IF Live(data, k, now) THEN [Value |-> data[k].Value, Exp |-> c[3]] ELSE DropEntry(data, k, now)
    BY <1>10 DEF EntryAfter
  <2>3. k \notin kept
    BY <1>10 DEF Levels
  <2>4. c[3] # Absent /\ c[3] # 0
    BY Zenon, <1>10, NoDeadlineAssumption
  <2> HIDE DEF e, v, x, cur, left, k
  <2>5. CASE Live(data, k, now)
    <3>1. cur = data[k].Value /\ cur # Absent /\ cur \in Text
      BY Zenon, <1>4, <2>3, <2>5
    <3>2. v = cur /\ x = c[3]
      BY Zenon, <2>1, <3>1
    <3>3. e.Value = data[k].Value /\ e.Exp = c[3]
      BY <2>2, <2>5
    <3>4. CASE EntryExpired(e, now)
      <4>1. x # Absent /\ now >= x
        BY Zenon, <2>4, <3>2, <3>3, <3>4 DEF EntryExpired
      <4>2. SameCell(e, v, x, now)
        BY Zenon, <3>4, <4>1 DEF SameCell
      <4> QED
        BY Zenon, <4>2 DEF e, v, x, k
    <3>5. CASE ~EntryExpired(e, now)
      <4>1. v = e.Value /\ x = IF e.Exp = 0 THEN Absent ELSE e.Exp
        BY Zenon, <2>4, <3>1, <3>2, <3>3
      <4>2. [Value |-> data[k].Value, Exp |-> c[3]] \in Entry
        BY <1>10, <3>1 DEF Entry
      <4>3. e # Absent
        BY Zenon, <2>2, <2>5, <4>2, AbsentAssumption
      <4>4. SameCell(e, v, x, now)
        BY Zenon, <3>5, <4>1, <4>3 DEF SameCell
      <4> QED
        BY Zenon, <4>4 DEF e, v, x, k
    <3> QED
      BY Zenon, <3>4, <3>5
  <2>6. CASE ~Live(data, k, now)
    <3>1. cur = Absent
      BY Zenon, <1>4, <2>3, <2>6
    <3>2. e = DropEntry(data, k, now) /\ v = cur /\ x = left
      BY Zenon, <2>1, <2>2, <2>6, <3>1
    <3> QED
      BY Zenon, <1>5, <2>3, <3>2 DEF e, v, x, k
  <2> QED
    BY Zenon, <2>5, <2>6 DEF e, v, x, k
<1> QED
  BY Zenon, <1>6, <1>7, <1>8, <1>9, <1>10, MutationKinds

\* Both engines stay alike in a mutation.
LEMMA MirrorDo ==
  ASSUME data \in Data, now \in Nat \ {0}, MirrorInv, NEW c \in Mutation, Do(c)
  PROVE  MirrorInv'
<1>0. /\ fake \in Fake /\ kept \subseteq Key
      /\ \A k \in Key : fake.data[k] = Absent => fake.expires[k] = Absent
      /\ \A k \in Key \ kept : Alike(k)
  BY Zenon DEF MirrorInv
<1>1. /\ data' = ApplyRecord(data, c, now) /\ fake' = FakeApply(fake, c, now) /\ now' = now
      /\ kept' = (kept \ Levels(c)) \cup (IF KeepsDeadline(c) THEN {c[2]} ELSE {})
  BY Zenon DEF Do
<1>2. ASSUME NEW x \in Key, SameCell(data'[x], fake'.data[x], fake'.expires[x], now)
      PROVE  Alike(x)'
  BY Zenon, <1>1, <1>2 DEF SameCell, Alike, Live, ExpiredLocked
<1>3. CASE c[1] = "clear"
  <2>1. data' = NewMemStore
    BY Zenon, <1>1, <1>3, RecordCleared
  <2>2. fake' = NewFakeEngine
    BY <1>1, <1>3 DEF FakeApply
  <2>3. ~KeepsDeadline(c)
    BY <1>3 DEF KeepsDeadline
  <2>4. kept' \subseteq Key
    BY Zenon, <1>0, <1>1, <2>3
  <2>5. /\ NewFakeEngine \in Fake
        /\ \A x \in Key : NewFakeEngine.data[x] = Absent /\ NewFakeEngine.expires[x] = Absent
    BY DEF NewFakeEngine, Fake
  <2>6. \A x \in Key : fake'.data[x] = Absent /\ fake'.expires[x] = Absent
    BY Zenon, <2>2, <2>5
  <2>7. \A x \in Key : data'[x] = Absent
    BY Zenon, <2>1 DEF NewMemStore
  <2>8. \A x \in Key : SameCell(data'[x], fake'.data[x], fake'.expires[x], now)
    BY Zenon, <2>6, <2>7 DEF SameCell
  <2>9. fake' \in Fake
    BY Zenon, <2>2, <2>5
  <2>10. \A x \in Key : Alike(x)'
    BY Zenon, <1>2, <2>8
  <2> QED
    BY Zenon, <2>4, <2>6, <2>9, <2>10 DEF MirrorInv, Fake
<1>4. CASE c[1] # "clear"
  <2> DEFINE k == c[2]
             e == EntryAfter(data, c, now)
             v == FakeValueAfter(fake, c, now)
             w == FakeDeadlineAfter(fake, c, now)
             d == ApplyRecord(data, c, now)
  <2>1. k \in Key /\ d[k] = e /\ \A x \in Key : x # k => d[x] = data[x]
    BY SMTT(30), <1>4, RecordKeys
  <2>2. v \in Text \cup {Absent} /\ w \in Nat \cup {Absent} /\ (v = Absent => w = Absent)
    BY Zenon, <1>0, <1>4, FakeAfterShape
  <2>3. fake' = FakeStore(fake, k, v, w)
    BY Zenon, <1>0, <1>1, <1>4, FakeAt
  <2>4. ~KeepsDeadline(c) /\ (k \notin kept \/ k \in Levels(c)) => SameCell(e, v, w, now)
    BY Zenon, <1>4, SameAfter
  <2>5. Levels(c) \subseteq {k}
    BY Zenon, <1>4 DEF Levels
  <2> HIDE DEF k, e, v, w, d
  <2>6. k \in Key /\ data'[k] = e /\ \A x \in Key : x # k => data'[x] = data[x]
    BY Zenon, <1>1, <2>1 DEF d
  <2>7. /\ fake' \in Fake /\ fake'.data[k] = v /\ fake'.expires[k] = w
        /\ \A x \in Key : x # k => fake'.data[x] = fake.data[x] /\ fake'.expires[x] = fake.expires[x]
    BY SMTT(30), <1>0, <2>1, <2>2, <2>3, FakeStoreFacts
  <2>8. kept' \subseteq Key
    BY Zenon, <1>0, <1>1, <2>1 DEF k
  <2>9. \A x \in Key : fake'.data[x] = Absent => fake'.expires[x] = Absent
    BY Zenon, <1>0, <2>2, <2>7
  <2>10. ASSUME NEW x \in Key \ kept' PROVE Alike(x)'
    <3>1. CASE x = k
      <4>1. ~KeepsDeadline(c) /\ (k \notin kept \/ k \in Levels(c))
        BY Zenon, <1>1, <2>10, <3>1 DEF k
      <4>2. SameCell(data'[x], fake'.data[x], fake'.expires[x], now)
        BY Zenon, <2>4, <2>6, <2>7, <3>1, <4>1
      <4> QED
        BY Zenon, <1>2, <4>2
    <3>2. CASE x # k
      <4>1. x \notin kept
        BY Zenon, <1>1, <2>5, <3>2
      <4>2. Alike(x)
        BY Zenon, <1>0, <4>1
      <4>3. SameCell(data[x], fake.data[x], fake.expires[x], now)
        BY Zenon, <4>2 DEF SameCell, Alike, Live, ExpiredLocked
      <4>4. SameCell(data'[x], fake'.data[x], fake'.expires[x], now)
        BY Zenon, <2>6, <2>7, <3>2, <4>3
      <4> QED
        BY Zenon, <1>2, <4>4
    <3> QED
      BY Zenon, <3>1, <3>2
  <2> QED
    BY Zenon, <2>7, <2>8, <2>9, <2>10 DEF MirrorInv, Fake
<1> QED
  BY Zenon, <1>3, <1>4

\* Both engines stay alike in every step.
LEMMA MirrorStep ==
  ASSUME MirrorInv, StoreShape, EngineEffect
  PROVE  MirrorInv'
<1>0. data \in Data /\ now \in Nat \ {0} /\ dying \in [Client -> Key \cup {Absent}]
  BY Zenon DEF StoreShape
<1>00. /\ fake \in Fake /\ kept \subseteq Key
       /\ \A k \in Key : fake.data[k] = Absent => fake.expires[k] = Absent
       /\ \A k \in Key \ kept : Alike(k)
  BY Zenon DEF MirrorInv
\* The store drops dead entries while the clock stands.
<1>1. ASSUME fake' = fake, kept' = kept, now' = now,
             \A x \in Key : data'[x] = data[x] \/ data'[x] = DropEntry(data, x, now)
      PROVE  MirrorInv'
  <2>1. ASSUME NEW x \in Key \ kept PROVE Alike(x)'
    <3>1. SameCell(data[x], fake.data[x], fake.expires[x], now)
      BY Zenon, <1>00 DEF SameCell, Alike, Live, ExpiredLocked
    <3>2. data'[x] = data[x] \/ (data'[x] = Absent /\ EntryExpired(data[x], now))
      BY Zenon, <1>1 DEF DropEntry
    <3>3. SameCell(data'[x], fake.data[x], fake.expires[x], now)
      BY Zenon, <3>1, <3>2 DEF SameCell
    <3> QED
      BY Zenon, <1>1, <3>3 DEF SameCell, Alike, Live, ExpiredLocked
  <2> QED
    BY Zenon, <1>00, <1>1, <2>1 DEF MirrorInv, Fake
<1>2. ASSUME UNCHANGED <<engine, now>> PROVE MirrorInv'
  BY Zenon, <1>1, <1>2 DEF engine
<1>3. ASSUME NEW cmd \in Mutation, Do(cmd) PROVE MirrorInv'
  BY Zenon, <1>0, <1>3, MirrorDo
<1>4. ASSUME NEW c \in Client, GetDropsDead(c) PROVE MirrorInv'
  <2> DEFINE k == dying[c]
  <2>1. /\ k # Absent /\ k \in Key \cup {Absent} /\ data' = DropDead(data, k, now)
        /\ fake' = fake /\ kept' = kept /\ now' = now
    BY Zenon, <1>0, <1>4 DEF GetDropsDead
  <2> HIDE DEF k
  <2>2. k \in Key
    BY Zenon, <2>1
  <2>3. \A x \in Key : data'[x] = data[x] \/ data'[x] = DropEntry(data, x, now)
    BY SMTT(40), <1>0, <2>1, <2>2, DropShape
  <2> QED
    BY Zenon, <1>1, <2>1, <2>3
<1>5. CASE Sweep
  <2>1. data' = SweepExpired(data, now) /\ fake' = fake /\ kept' = kept /\ now' = now
    BY Zenon, <1>5 DEF Sweep
  <2>2. \A x \in Key : data'[x] = DropEntry(data, x, now)
    BY Zenon, <1>0, <2>1, SweepShape
  <2> QED
    BY Zenon, <1>1, <2>1, <2>2
<1>6. ASSUME NEW c \in Client, NEW k \in Key, GetSeesDead(c, k) PROVE UNCHANGED <<engine, now>>
  BY Zenon, <1>6 DEF GetSeesDead
<1>7. ASSUME ScanPage \/ UNCHANGED engines PROVE UNCHANGED <<engine, now>>
  BY Zenon, <1>7 DEF ScanPage, engines
<1>8. CASE Tick
  <2>1. data' = data /\ fake' = fake /\ kept' = kept /\ now' = now + 1
    BY Zenon, <1>8 DEF Tick, engine
  <2>2. ASSUME NEW x \in Key \ kept PROVE Alike(x)'
    <3> DEFINE u == fake.expires[x]
    <3>0. u \in Nat \cup {Absent}
      BY DEF Fake, MirrorInv
    <3>1. SameCell(data[x], fake.data[x], u, now)
      BY Zenon, <1>00 DEF SameCell, Alike, Live, ExpiredLocked
    <3>2. data[x] # Absent => data[x].Exp \in Nat
      BY Zenon, <1>0, PresentEntry
    <3> HIDE DEF u
    <3>3. u # Absent /\ now >= u => now' >= u
      BY <1>0, <2>1, <3>0
    <3>4. CASE data[x] # Absent /\ ~EntryExpired(data[x], now) /\ EntryExpired(data[x], now')
      <4>1. data[x].Exp # 0 /\ now' >= data[x].Exp
        BY Zenon, <3>4 DEF EntryExpired
      <4>2. u = data[x].Exp
        BY Zenon, <3>1, <3>4, <4>1 DEF SameCell
      <4>3. u # Absent /\ now' >= u
        BY Zenon, <3>2, <3>4, <4>1, <4>2, NoDeadlineAssumption
      <4> QED
        BY Zenon, <2>1, <3>4, <4>3 DEF Alike, Live, ExpiredLocked, u
    <3>5. CASE data[x] # Absent /\ ~EntryExpired(data[x], now) /\ ~EntryExpired(data[x], now')
      <4>1. SameCell(data[x], fake.data[x], u, now')
        BY Zenon, <3>1, <3>5 DEF SameCell
      <4> QED
        BY Zenon, <2>1, <4>1 DEF SameCell, Alike, Live, ExpiredLocked, u
    <3>6. CASE ~(data[x] # Absent /\ ~EntryExpired(data[x], now))
      <4>1. data[x] = Absent \/ EntryExpired(data[x], now')
        <5>1. CASE data[x] # Absent
          <6>1. data[x].Exp # 0 /\ now >= data[x].Exp
            BY Zenon, <3>6, <5>1 DEF EntryExpired
          <6>2. now' >= data[x].Exp
            BY SMTT(40), <1>0, <2>1, <3>2, <5>1, <6>1
          <6> QED
            BY Zenon, <6>1, <6>2 DEF EntryExpired
        <5> QED
          BY Zenon, <5>1
      <4>2. fake.data[x] = Absent \/ (u # Absent /\ now' >= u)
        BY Zenon, <3>1, <3>3, <3>6 DEF SameCell
      <4> QED
        BY Zenon, <2>1, <4>1, <4>2 DEF Alike, Live, ExpiredLocked, u
    <3> QED
      BY Zenon, <3>4, <3>5, <3>6
  <2> QED
    BY Zenon, <1>00, <2>1, <2>2 DEF MirrorInv, Fake
<1> QED
  BY Zenon, <1>2, <1>3, <1>4, <1>5, <1>6, <1>7, <1>8 DEF EngineEffect

\* Engines that are alike give the same answer to a mutation.
LEMMA SameOutcome ==
  ASSUME data \in Data, now \in Nat, MirrorInv, NEW c \in Mutation, c[1] # "clear", c[2] \notin kept
  PROVE  FakeOutcome(fake, c, now) = Outcome(data, c, now)
<1> DEFINE k == c[2]
           cur == FakeGet(fake, k, now)
<1>0. k \in Key \ kept /\ fake \in Fake
  BY Zenon, MutationKinds DEF MirrorInv
<1>1. cur = IF Live(data, k, now) THEN data[k].Value ELSE Absent
  BY Zenon, <1>0, AlikeGet
<1>2. Live(data, k, now) => data[k].Value # Absent
  BY Zenon, <1>0, AlikeGet
<1>3. CASE c[1] = "put" \/ c[1] = "delete"
  BY <1>3 DEF FakeOutcome, Outcome
<1>4. CASE c[1] = "expire"
  <2>1. FakeOutcome(fake, c, now) = IF cur = Absent THEN <<"not found">> ELSE <<"ok">>
    BY <1>4 DEF FakeOutcome
  <2>2. Outcome(data, c, now) = IF Live(data, k, now) THEN <<"ok">> ELSE <<"not found">>
    BY <1>4 DEF Outcome
  <2> HIDE DEF cur, k
  <2>3. CASE Live(data, k, now)
    <3>1. cur = data[k].Value /\ cur # Absent
      BY Zenon, <1>1, <1>2, <2>3
    <3> QED
      BY Zenon, <2>1, <2>2, <2>3, <3>1
  <2>4. CASE ~Live(data, k, now)
    <3>1. cur = Absent
      BY Zenon, <1>1, <2>4
    <3> QED
      BY Zenon, <2>1, <2>2, <2>4, <3>1
  <2> QED
    BY Zenon, <2>3, <2>4
<1>5. CASE c[1] = "cas" /\ c[3] \in Text
  <2>1. FakeOutcome(fake, c, now) = IF cur = Absent THEN <<"not found">>
                                    ELSE IF cur # c[3] THEN <<"mismatch">> ELSE <<"swapped">>
    BY <1>5 DEF FakeOutcome
  <2>2. Outcome(data, c, now) = IF ~Live(data, k, now) THEN <<"not found">>
                                ELSE IF data[k].Value = c[3] THEN <<"swapped">> ELSE <<"mismatch">>
    BY <1>5 DEF Outcome
  <2> HIDE DEF cur, k
  <2>3. CASE Live(data, k, now)
    <3>1. cur = data[k].Value /\ cur # Absent
      BY Zenon, <1>1, <1>2, <2>3
    <3>2. CASE cur = c[3]
      <4>1. FakeOutcome(fake, c, now) = <<"swapped">>
        BY Zenon, <2>1, <3>1, <3>2
      <4>2. Outcome(data, c, now) = <<"swapped">>
        BY Zenon, <2>2, <2>3, <3>1, <3>2
      <4> QED
        BY Zenon, <4>1, <4>2
    <3>3. CASE cur # c[3]
      <4>1. FakeOutcome(fake, c, now) = <<"mismatch">>
        BY Zenon, <2>1, <3>1, <3>3
      <4>2. Outcome(data, c, now) = <<"mismatch">>
        BY Zenon, <2>2, <2>3, <3>1, <3>3
      <4> QED
        BY Zenon, <4>1, <4>2
    <3> QED
      BY Zenon, <3>2, <3>3
  <2>4. CASE ~Live(data, k, now)
    <3>1. cur = Absent
      BY Zenon, <1>1, <2>4
    <3> QED
      BY Zenon, <2>1, <2>2, <2>4, <3>1
  <2> QED
    BY Zenon, <2>3, <2>4
<1>6. CASE c[1] = "incr"
  <2> DEFINE v == FakeIncr(fake, k, now).data[k]
             u == MemIncr(data, k, now)[k].Value
             e == EntryAfter(data, c, now)
  <2>1. FakeOutcome(fake, c, now) = IF cur # Absent /\ FakeStuck(cur) THEN <<"error">> ELSE <<"number", v>>
    BY <1>6 DEF FakeOutcome, FakeStuck
  <2>2. Outcome(data, c, now) = IF CanIncr(data, k, now) THEN <<"number", u>> ELSE <<"error">>
    BY <1>6 DEF Outcome
  <2>3. FakeApply(fake, c, now) = FakeIncr(fake, k, now) /\ ApplyRecord(data, c, now) = MemIncr(data, k, now)
    BY <1>6 DEF FakeApply, ApplyRecord
  <2>4. u = e.Value
    <3>1. ApplyRecord(data, c, now)[k] = e
      BY SMTT(40), <1>6, RecordKeys
    <3> QED
      BY Zenon, <2>3, <3>1
  <2>5. v = FakeValueAfter(fake, c, now)
    <3>1. \A x \in Key : fake.data[x] = Absent => fake.expires[x] = Absent
      BY Zenon DEF MirrorInv
    <3> DEFINE a == FakeValueAfter(fake, c, now)
               b == FakeDeadlineAfter(fake, c, now)
    <3>2. a \in Text \cup {Absent} /\ b \in Nat \cup {Absent}
      BY Zenon, <1>0, <1>6, <3>1, FakeAfterShape
    <3>3. FakeIncr(fake, k, now) = FakeStore(fake, k, a, b)
      BY ZenonT(40), <1>0, <1>6, <2>3, FakeAt
    <3> HIDE DEF a, b, k
    <3>4. FakeStore(fake, k, a, b).data[k] = a
      BY SMTT(40), <1>0, <3>2, FakeStoreFacts
    <3> QED
      BY Zenon, <3>3, <3>4 DEF a
  <2>6. e = IF ~Live(data, k, now) THEN Fresh(FormatInt(1))
            ELSE IF CanIncr(data, k, now) THEN Fresh(FormatInt(ParseInt(data[k].Value) + 1))
            ELSE data[k]
    BY <1>6 DEF EntryAfter
  <2>7. FakeValueAfter(fake, c, now) = IF cur = Absent THEN FormatInt(1)
                                       ELSE IF FakeStuck(cur) THEN cur ELSE FormatInt(ParseInt(cur) + 1)
    BY <1>6 DEF FakeValueAfter
  <2>8. \A x : Fresh(x).Value = x
    BY DEF Fresh
  <2> HIDE DEF cur, k, v, u, e
  <2>9. CASE ~Live(data, k, now)
    <3>1. cur = Absent /\ CanIncr(data, k, now)
      BY Zenon, <1>1, <2>9 DEF CanIncr
    <3>2. e = Fresh(FormatInt(1)) /\ v = FormatInt(1)
      BY Zenon, <2>5, <2>6, <2>7, <2>9, <3>1
    <3>3. u = v
      BY Zenon, <2>4, <2>8, <3>2
    <3> QED
      BY Zenon, <2>1, <2>2, <3>1, <3>3
  <2>10. CASE Live(data, k, now)
    <3>1. cur = data[k].Value /\ cur # Absent
      BY Zenon, <1>1, <1>2, <2>10
    <3>2. CanIncr(data, k, now) <=> ~FakeStuck(cur)
      BY Zenon, <2>10, <3>1 DEF CanIncr, FakeStuck
    <3>3. CASE CanIncr(data, k, now)
      <4>1. v = FormatInt(ParseInt(cur) + 1)
        BY Zenon, <2>5, <2>7, <3>1, <3>2, <3>3
      <4>2. e = Fresh(FormatInt(ParseInt(cur) + 1))
        BY Zenon, <2>6, <2>10, <3>1, <3>3
      <4>3. u = v
        BY Zenon, <2>4, <2>8, <4>1, <4>2
      <4> QED
        BY Zenon, <2>1, <2>2, <3>2, <3>3, <4>3
    <3>4. CASE ~CanIncr(data, k, now)
      BY Zenon, <2>1, <2>2, <3>1, <3>2, <3>4
    <3> QED
      BY Zenon, <3>3, <3>4
  <2> QED
    BY Zenon, <2>9, <2>10
<1> QED
  BY Zenon, <1>3, <1>4, <1>5, <1>6, MutationKinds
=============================================================================
