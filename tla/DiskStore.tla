----------------------------- MODULE DiskStore -----------------------------
(***************************************************************************)
(* The durable store of pkg/storage: mutations are batched, appended to    *)
(* wal.log, fsynced, applied to memory and only then answered; compaction  *)
(* writes snapshot.dat and empties the log; opening the store loads the    *)
(* snapshot and replays the log.                                           *)
(*                                                                         *)
(* Every write section (writeBatch, writeSingle, compactLocked,            *)
(* RestoreSnapshot) runs under snapMu, so at most one is in progress: job. *)
(* A section is split where the process can stop between two effects on    *)
(* the files.  How callers reach the writer goroutine, and how Close stops *)
(* it, is the Batcher module.                                              *)
(***************************************************************************)
EXTENDS MemStore, FiniteSets

CONSTANTS
  Command,         \* the mutations that callers submit
  Installable,     \* the states a raft leader may ship (RestoreSnapshot)
  Encrypted,       \* whether the log is sealed at rest
  MaxBatch,        \* maxBatchSize, scaled down
  MaxNow,          \* bound on the clock
  MaxOps,          \* bound on submitted mutations
  MaxFaults,       \* bound on failing file operations
  MaxCrashes,      \* bound on crashes
  MaxCompactions,  \* bound on compactions
  MaxInstalls      \* bound on restored snapshots

ASSUME DiskStoreAssumption ==
  /\ Encrypted \in BOOLEAN
  /\ Installable \subseteq Data
  /\ MaxBatch \in Nat \ {0}
  /\ {MaxNow, MaxOps, MaxFaults, MaxCrashes, MaxCompactions, MaxInstalls} \subseteq Nat

\* What a caller can submit: the key and value checks are made before.
ASSUME CommandAssumption ==
  \A c \in Command :
    \/ c = <<"clear">>
    \/ c \in {"delete", "incr"} \X Key
    \/ c \in {"put"} \X Key \X Text
    \/ c \in {"cas"} \X Key \X Text \X Text
    \/ c \in {"expire"} \X Key \X Nat

VARIABLES
  mem,        \* s.mem.data
  wal,        \* the records in wal.log, as this process or its successor reads it
  stable,     \* the records of wal.log known to survive a power loss
  snapshot,   \* the state in snapshot.dat (the empty one when there is no file)
  batch,      \* the batch that batchLoop has collected
  job,        \* the write section in progress
  now,        \* the clock
  refused,    \* openDiskStore returned an error
  possible,   \* the states that agree with every write acknowledged so far
  ops, faults, crashes, compactions, installs   \* how often each happened

store  == <<mem, wal, stable, snapshot, batch, job>>
counts == <<ops, faults, crashes, compactions, installs>>
vars   == <<store, now, refused, possible, counts>>

(***************************************************************************)
(* The log file.  Besides whole records it can hold what an interrupted    *)
(* append leaves: Torn, a record whose last bytes are missing; Header, the *)
(* length of a sealed record without its body; Unstamped, the place of the *)
(* magic byte that Truncate did not write back.                            *)
(***************************************************************************)
Torn      == <<"torn">>
Header    == <<"header">>
Unstamped == <<"unstamped">>

Debris == {Torn} \cup (IF Encrypted THEN {Header} ELSE {})

IsRecord(r) == r \notin {Torn, Header, Unstamped}

\* Variant: a record cut short at the end is skipped and left in the file.
ReplayableTornTail(f) == \A n \in 1..Len(f) : IsRecord(f[n]) \/ n = Len(f)

\* Replay (replayPlain, replayEncrypted) comes to the end without an error.
Replayable(f) ==
  \A n \in 1..Len(f) : IsRecord(f[n]) \/ (f[n] # Torn /\ n = Len(f))

\* The records that Replay applies: a tail that is not one is skipped.
Records(f) == IF \A n \in 1..Len(f) : IsRecord(f[n]) THEN f ELSE SubSeq(f, 1, Len(f) - 1)

\* The state that openDiskStore builds from the two files.
Recover(snap, f, t) == ApplyAll(snap, Records(f), t)

\* The file begins with what was synced (not so after an unsynced truncation).
SyncedFirst == Len(stable) <= Len(wal) /\ stable = SubSeq(wal, 1, Len(stable))

\* The contents of wal.log that a crash can leave: the process's writes survive
\* it in the page cache; a power loss may cost what was not synced (a truncation
\* that was not synced included) and tear the record at the cut.
Survivors ==
  LET whole == {SubSeq(wal, 1, n) :
                  n \in (IF SyncedFirst THEN Len(stable) ELSE 0)..Len(wal)}
      cut   == {f \in whole : f # wal \/ job.phase = "append"}
  IN  whole \cup {stable} \cup {Append(f, r) : f \in cut, r \in Debris}

(***************************************************************************)
(* Initial state: openDiskStore in an empty directory                      *)
(***************************************************************************)
Idle == [phase |-> "idle", cmds |-> <<>>, n |-> 0]

Job == [phase : {"idle", "append", "apply", "truncate", "save", "discard"},
        cmds : Seq(Command), n : Nat]

Init ==
  /\ mem = NewMemStore /\ wal = <<>> /\ stable = <<>> /\ snapshot = NewMemStore
  /\ batch = <<>> /\ job = Idle
  /\ now = 1 /\ refused = FALSE /\ possible = {NewMemStore}
  /\ ops = 0 /\ faults = 0 /\ crashes = 0 /\ compactions = 0 /\ installs = 0

(***************************************************************************)
(* batchLoop                                                               *)
(***************************************************************************)
Working == ~refused

Begin(phase, cmds) == job' = [phase |-> phase, cmds |-> cmds, n |-> 0]

\* Put, Delete and Clear do not look at the state; Incr, CAS and Expire do and
\* are written singly (req.op >= opIncr).
Blind(c) == c[1] \in {"put", "delete", "clear"}

\* A blind mutation joins the batch.
Collect(c) ==
  /\ Working /\ job = Idle /\ Blind(c)
  /\ Len(batch) < MaxBatch
  /\ ops < MaxOps /\ ops' = ops + 1
  /\ batch' = Append(batch, c)
  /\ UNCHANGED <<mem, wal, stable, snapshot, job, now, refused, possible,
                 faults, crashes, compactions, installs>>

\* writeBatch: the batch is full, its timer fired, or a single write comes next.
WriteBatch ==
  /\ Working /\ job = Idle /\ batch # <<>>
  /\ Begin("append", batch) /\ batch' = <<>>
  /\ UNCHANGED <<mem, wal, stable, snapshot, now, refused, possible, counts>>

\* writeSingle: CAS and Expire read the key first and are answered at once when
\* it is absent or holds another value; otherwise the write is logged.
WriteSingle(c) ==
  /\ Working /\ job = Idle /\ batch = <<>> /\ ~Blind(c)
  /\ ops < MaxOps /\ ops' = ops + 1
  /\ IF c[1] = "incr" \/ Outcome(mem, c, now) \in {<<"swapped">>, <<"ok">>}
     THEN Begin("append", <<c>>) /\ UNCHANGED mem
     ELSE mem' = DropDead(mem, c[2], now) /\ UNCHANGED job
  /\ UNCHANGED <<wal, stable, snapshot, batch, now, refused, possible,
                 faults, crashes, compactions, installs>>

\* WAL.append of the next record.
AppendRecord ==
  /\ Working /\ job.phase = "append" /\ job.n < Len(job.cmds)
  /\ wal' = Append(wal, job.cmds[job.n + 1])
  /\ job' = [job EXCEPT !.n = @ + 1]
  /\ UNCHANGED <<mem, stable, snapshot, batch, now, refused, possible, counts>>

\* Variant: the write is acknowledged without a sync.
SkipSync ==
  /\ Working /\ job.phase = "append" /\ job.n = Len(job.cmds)
  /\ job' = [job EXCEPT !.phase = "apply"]
  /\ UNCHANGED <<mem, wal, stable, snapshot, batch, now, refused, possible, counts>>

\* WAL.Sync makes the whole file durable.
Sync ==
  /\ Working /\ job.phase = "append" /\ job.n = Len(job.cmds)
  /\ stable' = wal
  /\ job' = [job EXCEPT !.phase = "apply"]
  /\ UNCHANGED <<mem, wal, snapshot, batch, now, refused, possible, counts>>

\* A first append or the sync fails: the section ends, memory is untouched, every
\* caller is answered with the error, and what was written stays in the file.
PartlyWritten(s) == {ApplyAll(s, SubSeq(job.cmds, 1, n), now) : n \in 0..job.n}

WriteFails ==
  /\ Working /\ job.phase = "append"
  /\ faults < MaxFaults /\ faults' = faults + 1
  /\ \/ wal' = wal
     \/ job.n < Len(job.cmds) /\ \E r \in Debris : wal' = Append(wal, r)
  /\ job' = Idle
  /\ possible' = UNION {PartlyWritten(s) : s \in possible}
  /\ UNCHANGED <<mem, stable, snapshot, batch, now, refused,
                 ops, crashes, compactions, installs>>

\* The effect on memory of what was logged: CAS has compared already and puts.
ApplyInMemory(cmds) ==
  LET c == cmds[1]
  IN  IF c[1] = "cas" THEN MemPut(mem, c[2], c[4]) ELSE ApplyAll(mem, cmds, now)

\* The states that agree with the answer to a logged write c, after it.
Answered(c) ==
  CASE c[1] = "cas" ->
         {MemPut(s, c[2], c[4]) :
            s \in {x \in possible : x[c[2]] # Absent /\ x[c[2]].Value = c[3]}}
    [] Blind(c) -> {ApplyRecord(s, c, now) : s \in possible}
    [] OTHER    -> {ApplyRecord(s, c, now) :
                      s \in {x \in possible : Outcome(x, c, now) = Outcome(mem, c, now)}}

\* The synced records are applied in order and the callers answered.
ApplyToMemory ==
  /\ Working /\ job.phase = "apply"
  /\ mem' = ApplyInMemory(job.cmds)
  /\ possible' = IF Len(job.cmds) = 1 THEN Answered(job.cmds[1])
                 ELSE {ApplyAll(s, job.cmds, now) : s \in possible}
  /\ job' = Idle
  /\ UNCHANGED <<wal, stable, snapshot, batch, now, refused, counts>>

(***************************************************************************)
(* Compaction and restored snapshots                                       *)
(***************************************************************************)

\* Variant: the log is emptied before the snapshot is saved.
TruncateFirst ==
  /\ Working /\ job = Idle
  /\ compactions < MaxCompactions /\ compactions' = compactions + 1
  /\ wal' = <<>> /\ stable' = <<>>
  /\ Begin("truncate", <<>>)
  /\ UNCHANGED <<mem, snapshot, batch, now, refused, possible,
                 ops, faults, crashes, installs>>

\* compactLocked, called by compactIfNeeded, Compact and Close: saveSnapshot
\* replaces snapshot.dat by a rename.
SaveSnapshot ==
  /\ Working /\ job = Idle
  /\ compactions < MaxCompactions /\ compactions' = compactions + 1
  /\ snapshot' = mem
  /\ Begin("truncate", <<>>)
  /\ UNCHANGED <<mem, wal, stable, batch, now, refused, possible,
                 ops, faults, crashes, installs>>

\* saveSnapshot fails, before or after the rename: the log is kept.
SaveSnapshotFails ==
  /\ Working /\ job = Idle
  /\ compactions < MaxCompactions /\ compactions' = compactions + 1
  /\ faults < MaxFaults /\ faults' = faults + 1
  /\ snapshot' \in {snapshot, mem}
  /\ UNCHANGED <<mem, wal, stable, batch, job, now, refused, possible,
                 ops, crashes, installs>>

\* WAL.Truncate: a sealed log is stamped again and synced, a plain one is not.
Truncate ==
  /\ Working /\ job.phase \in {"truncate", "discard"}
  /\ wal' = <<>>
  /\ stable' = IF Encrypted THEN <<>> ELSE stable
  /\ possible' = IF job.phase = "discard" THEN {mem} ELSE possible
  /\ job' = Idle
  /\ UNCHANGED <<mem, snapshot, batch, now, refused, counts>>

\* Emptying the file, or stamping or syncing a sealed log, fails.
TruncateFails ==
  /\ Working /\ job.phase \in {"truncate", "discard"}
  /\ faults < MaxFaults /\ faults' = faults + 1
  /\ \/ wal' = wal
     \/ Encrypted /\ wal' \in {<<Unstamped>>, <<>>}
  /\ job' = Idle
  /\ UNCHANGED <<mem, stable, snapshot, batch, now, refused, possible,
                 ops, crashes, compactions, installs>>

\* RestoreSnapshot: memory is replaced by the shipped state, ...
RestoreSnapshot(d) ==
  /\ Working /\ job = Idle
  /\ installs < MaxInstalls /\ installs' = installs + 1
  /\ mem' = d
  /\ possible' = possible \cup {d}
  /\ Begin("save", <<>>)
  /\ UNCHANGED <<wal, stable, snapshot, batch, now, refused,
                 ops, faults, crashes, compactions>>

\* Variant: the log is kept when a shipped state has been saved.
SaveRestoredOnly ==
  /\ Working /\ job.phase = "save"
  /\ snapshot' = mem /\ job' = Idle
  /\ UNCHANGED <<mem, wal, stable, batch, now, refused, possible, counts>>

\* ... which is saved before the log is emptied.
SaveRestored ==
  /\ Working /\ job.phase = "save"
  /\ snapshot' = mem
  /\ Begin("discard", <<>>)
  /\ UNCHANGED <<mem, wal, stable, batch, now, refused, possible, counts>>

SaveRestoredFails ==
  /\ Working /\ job.phase = "save"
  /\ faults < MaxFaults /\ faults' = faults + 1
  /\ snapshot' \in {snapshot, mem}
  /\ job' = Idle
  /\ UNCHANGED <<mem, wal, stable, batch, now, refused, possible,
                 ops, crashes, compactions, installs>>

(***************************************************************************)
(* Time and expiry: Get and expireLoop take only the lock of the map       *)
(***************************************************************************)
Tick ==
  /\ Working /\ now < MaxNow /\ now' = now + 1
  /\ UNCHANGED <<store, refused, possible, counts>>

\* Get meets an expired key and drops it.
Get(k) ==
  /\ Working /\ mem' = DropDead(mem, k, now) /\ mem' # mem
  /\ UNCHANGED <<wal, stable, snapshot, batch, job, now, refused, possible, counts>>

ExpireLoop ==
  /\ Working /\ mem' = SweepExpired(mem, now) /\ mem' # mem
  /\ UNCHANGED <<wal, stable, snapshot, batch, job, now, refused, possible, counts>>

(***************************************************************************)
(* Crash, and openDiskStore on what the crash left                         *)
(***************************************************************************)

\* OpenWALEncrypted stamps an empty file.
Stamped(f) == IF f = <<Unstamped>> THEN <<>> ELSE f

CrashAndOpen ==
  /\ Working /\ crashes < MaxCrashes /\ crashes' = crashes + 1
  /\ \E f \in Survivors :
       /\ wal' = Stamped(f) /\ stable' = Stamped(f)
       /\ IF Replayable(f)
          THEN /\ mem' = Recover(snapshot, f, now)
               /\ possible' = {mem'}
               /\ UNCHANGED refused
          ELSE refused' = TRUE /\ UNCHANGED <<mem, possible>>
  /\ batch' = <<>> /\ job' = Idle
  /\ UNCHANGED <<snapshot, now, ops, faults, compactions, installs>>

Next ==
  \/ \E c \in Command : Collect(c) \/ WriteSingle(c)
  \/ WriteBatch \/ AppendRecord \/ Sync \/ WriteFails \/ ApplyToMemory
  \/ SaveSnapshot \/ SaveSnapshotFails \/ Truncate \/ TruncateFails
  \/ \E d \in Installable : RestoreSnapshot(d)
  \/ SaveRestored \/ SaveRestoredFails
  \/ Tick \/ ExpireLoop \/ \E k \in Key : Get(k)
  \/ CrashAndOpen

Spec == Init /\ [][Next]_vars

(***************************************************************************)
(* Properties                                                              *)
(***************************************************************************)

\* Every variable keeps its shape through each write section, compaction,
\* restore, crash and open; the batch never grows past maxBatchSize.
TypeOK ==
  /\ {mem, snapshot} \cup possible \subseteq Data
  /\ {wal, stable} \subseteq Seq(Command \cup Debris \cup {Unstamped})
  /\ batch \in Seq(Command) /\ Len(batch) <= MaxBatch
  /\ job \in Job /\ job.n <= Len(job.cmds)
  /\ now \in Nat /\ refused \in BOOLEAN

\* Whenever the process dies, the state that openDiskStore rebuilds from
\* snapshot.dat and wal.log is one that the answers already given allow: every
\* acknowledged write is in it, in order, a write that was answered with an
\* error or not answered yet may or may not be, and nothing else is (submit
\* answers only after writeBatch or writeSingle has synced the record).
RecoveredIsAdmissible ==
  Working =>
    \A f \in Survivors : Replayable(f) =>
      Recover(snapshot, f, now) \in UNION {PartlyWritten(s) : s \in possible}

\* With every file operation succeeding, a key that was deleted, cleared or that
\* expired does not come back when the store is opened again, whatever the clock
\* did since its records were written and wherever compaction was interrupted
\* (entryExpired decides during replay as it does during service).  This holds
\* for Put, Delete, CAS and Expire.  It fails with Incr: writeSingle logs an
\* increment before it evaluates it, and one that failed as non-numeric creates
\* the key when it is replayed after the deadline.
NoResurrection ==
  Working /\ job.phase \in {"idle", "truncate"} /\ faults = 0 =>
    \A f \in Survivors : Replayable(f) =>
      \A k \in Key : Live(Recover(snapshot, f, now), k, now) => Live(mem, k, now)

\* With every file operation succeeding, the log of a store that is open can be
\* replayed the next time it is opened, also after earlier crashes (the records
\* that Replay stops at are never followed by others).
LogStaysReadable == Working /\ faults = 0 => Replayable(wal)

\* A crash never leaves a log that openDiskStore refuses: a record that was cut
\* short at the end of the file is skipped (replayEncrypted, replayPlain).
CrashedStoreOpens == Working => \A f \in Survivors : Replayable(f)

\* Replaying the log over the snapshot just written from the same state gives
\* that state again (compactLocked between saveSnapshot and Truncate).
RecoveryIsIdempotent ==
  job.phase = "truncate" => Recover(snapshot, wal, now) = mem

\* With every file operation succeeding, opening the store gives back what a
\* reader saw before the crash, values and expiry included (Replay re-evaluates
\* Incr, CAS and Expire).  A write that failed may stay in the log, so it is no
\* part of this.
RecoversWhatWasServed ==
  Working /\ job = Idle /\ faults = 0 /\ Replayable(wal) =>
    LET r == Recover(snapshot, wal, now)
    IN  \A k \in Key : /\ Live(r, k, now) <=> Live(mem, k, now)
                       /\ Live(mem, k, now) => r[k].Value = mem[k].Value

\* Once RestoreSnapshot has written snapshot.dat, a crash leaves the state that
\* the leader shipped.
InstalledStateSurvives ==
  job.phase = "discard" => Recover(snapshot, wal, now) = mem
=============================================================================
