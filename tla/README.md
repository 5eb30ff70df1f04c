# A verification of the key-value store

TLA+ models of the replicated, durable key-value store in `src/`, the TLC runs
that check them on small instances, and TLAPS proofs of the results that do not
depend on the size of the instance. `PROJECT.json` lists the runs, the source
lines behind every definition, the hazards, the finding and the theorems.

## 1. The system

| part | source | state | operations |
| --- | --- | --- | --- |
| raft log | `pkg/raft/types.go`, `follower.go` | entries, compaction base | append, consistency check, merge |
| election | `election.go`, `node.go` | role, term, vote, known leader | `Loop`, `startElection`, `HandleRequestVote` |
| replication, commit | `leader.go`, `commit.go`, `node.go` | commit index; next, match, in-flight and backoff per peer | `propose`, `replicateToPeer`, `maybeCommit`, `HandleAppendEntries` |
| raft persistence | `persistence.go` | state file, dirty flag | `persist`, `SetRaftStore` |
| transport | `transport_*.go`, `pkg/chaos/transport.go` | calls in flight | request, answer, failure, duplicate |
| compaction, InstallSnapshot | `raft/snapshot.go`, `cmd/server/snapshot_bridge.go` | compaction base, shipped state | `CompactLog`, `installSnapshot`, `HandleInstallSnapshot` |
| apply loop | `apply.go`, `proposeWait` | last applied index, waiters | `applyLoop`, `WaitIndex` |
| memory store | `memstore.go` | map with deadlines, expiry counter | get, put, delete, clear, incr, cas, expire, sweep, scan |
| contract fake | `fake.go` | two maps | the same |
| durable store | `wal.go`, `snapshot.go`, `batcher.go` | memory, `wal.log`, `snapshot.dat` | write sections, compaction, restore, open |
| store goroutines | `batcher.go`, `wal.go` | channel, batch, timer, two mutexes | `submit`, `batchLoop`, background loops, `Close` |
| HTTP API and client | `pkg/api`, `pkg/client` | key gauge, calls under way | handlers, redirects |
| chaos harness | `pkg/chaos`, `pkg/linearizability` | fault configuration, schedule, history | `Run`, `RunWorkload`, setters, `Check` |
| server, logger, encryption | `cmd/server`, `pkg/util`, `crypto.go` | none of interest | I/O and wiring |

A client write reaches `raft.Node` through the HTTP API of some server, which
redirects it when it does not lead. The leader appends it to its log, saves the
log, and replicates it; the apply loop hands committed entries to the durable
store, which logs, syncs and applies them, and wakes the caller where one waits.
The compactor drops applied entries from the log. A follower that is too far
behind gets the leader's state through `RestoreSnapshot`.

The behaviours that make this hard: handlers release `n.mu` between deciding and
saving; a call may be handled after its caller gave up, or twice; saves fail; a
node or the store dies between any two effects on its files; replay reads the
clock again; `Close` races with callers and three goroutines; a snapshot's index,
term and data are read one after the other while entries are applied; `Get` drops
an expired key after it let go of the lock; clients page through keys that change.

## 2. Modules

| module | models |
| --- | --- |
| `RaftLog` | the log as a value: index arithmetic, `checkPrevLog`, `mergeEntries` |
| `Raft` | election, replication, commit, persistence, transport, crashes |
| `RaftSafety` | the properties of `Raft` |
| `RaftApply` | one node between log and store: apply loop, waiters, compactor, snapshots in both directions, restart |
| `MemStore` | the map as operators on its contents and the clock |
| `DiskStore` | write sections, files, compaction, restore, crash and recovery |
| `Batcher` | the goroutines of the store |
| `WriteQueue` | what they promise: one queue of writes; `Batcher` implements it |
| `Scan` | the order of keys, `matchGlob`, one page of `Scan` |
| `FakeEngine` | the contract fake |
| `Engines` | the memory store in use, with expiry in two sections, a paging client, and the fake beside it |
| `Api` | clients, handlers, redirects and proposals, composed with `Engines` |
| `Faults` | the fault configuration of the chaos harness |
| `History` | the history checker, and what its comment says it objects to |
| `Chaos` | `Run`, `RunWorkload` and two oracles, composed with `Faults` and `History` |
| `RaftProofs`, `RaftOrderProofs`, `RaftApplyProofs`, `DiskProofs`, `BatcherProofs`, `ApiProofs`, `ScanProofs`, `ChaosProofs` | the proofs |
| `MCRaft`, `MCRaftApply`, `MCDiskStore`, `MCBatcher`, `MCApi`, `MCChaos` | symmetry sets, command sets, schedules of the runs |

**Raft.** One action is one critical section of `n.mu`, because that is where
handlers interleave. `HandleRequestVote` and `HandleAppendEntries` are therefore
split where they unlock to call `persist`: deciding moves the call to stage
`saving`; saving answers it, or moves it to `unsaved`, from where the refusal
carries whatever term the unlocked read finds. `startElection` is split in the
same way into candidacy, save, fan-out, one step per answer, and decision. A
failed save leaves either the old or the new file, since `Save` can fail before
or after the rename. A crash keeps the file and the requests already sent.
Two variables have no counterpart in the code: `elected` records elections won,
`acked` records writes that were answered.

**RaftApply.** One node in full, the others reduced to `chosen`, the terms of the
log they have committed, and to the newest term that has a leader. Entries are
identified by index and term, and the store is the sequence of indexes that were
applied to it, so that a second application, a gap and an overwritten state can
be told apart. The steps are the sections of `n.mu` and `applyMu`: the loop
picks, checks again, applies, raises `lastApplied` and notifies, or skips an index
it finds no entry for; an install changes the log, restores the data and saves;
the compactor reads index and term, compacts the store, trims the log and flushes;
a snapshot is sent after index, term and data were read one by one. A request of
the leader may be late and cut the log below the commit index, as `mergeEntries`
lets it, and a snapshot that arrives may have any data and any term.
Five history variables tell when something happened that the code does not
guard against, and the properties that need it say so: `cuts` counts requests that
cut committed entries; `mislabelled` is set when the term of a base came from a
wrong snapshot or a cut log; `raced`, when the loop or a save ran between the halves
of an install; `lacking`, when the loop skipped an entry or a received snapshot
lacked one. `origin` is the index and the contents the loop last started from.
What a wrong base term on this node does to the votes of others is left out.

**DiskStore.** All write sections hold `snapMu`, so one `job` is in progress at a
time, split between every two effects on a file. `wal` is what the process would
read; `stable` is what a power loss cannot take. `Survivors` is the set of log
contents a crash can leave: all that was written when only the process dies, or
anything down to `stable` with a torn or header-only record at the cut. A sync
that succeeds makes the whole file durable; this is an assumption about the file
system. `possible` holds the states that agree with every answer given so far.
Values are pairs, so that a padded number, its canonical spelling and a
non-number differ as they do for `strconv.ParseInt`. A torn record in the middle
of a log is taken to be refused; parsing its bytes as other records is not
modelled. Truncating a sealed log writes a new header and syncs it, so a failing
truncation may leave the log as it was, without its header, or with a header that
is not yet durable.

**Batcher.** Callers, `batchLoop`, `snapshotLoop`, `expireLoop`, the raft side's
use of `snapMu`, and `Close`. What a section does to the files is in `DiskStore`.
The raft side stops calling before `Close` returns. Under the mapping `Queue` a
caller is asked, queued or written, and the queue is the batch, then the request
in hand, then the channel.

**Engines and Api.** `Engines` gives the same mutations to `MemStore` and to the
fake. `kept` holds the keys on which the fake's `Incr` left a deadline that the
store clears, `steady` the keys that were live since the scan began; both serve
the properties only. In `Api` a call is one handler on one server, with the
engine's `Get` and its write as separate steps. The cluster is abstract: at every
proposal the server may be found in any role, knowing any leader or none, and an
appended entry is committed or lost later. That is more than a cluster does, so
what holds here holds behind any consensus. The stores of the servers are taken
as one.
A key is a sequence of characters other than `*`, as `validateKey` ensures
(`middleware.go:14`); `matchGlob` compares characters before it looks for a star,
so a text with a star in it would be matched differently.

**Chaos.** `Run` looks at the clock late by any amount, events of the same time
come in any order, and a restart replays from any base. Rates are zero or not,
and a draw of the generator is a choice. The cluster under test commits writes in
the order of their proposals and nodes apply them in order: the question is
whether the harness judges such a cluster rightly. `waitMajorityValue` asks the
nodes one after the other while the cluster goes on: `poll` holds the nodes of a
round that are still to be asked and those that had the value.

## 3. Runs

### What holds

| run | instance | checks |
| --- | --- | --- |
| `RaftFaults` | 2 nodes, 2 terms, 1 entry, 1 crash, 1 failed save, 1 stray | `TypeOK`, `CleanMeansSaved`, `VotesAreDurable`, `ElectionIsDurable`, `OneCallPerPeer` |
| `RaftLogs` | 2 nodes, 2 terms, 2 entries, 2 commands, 1 crash | `LogTermsAscend`, `LogMatching`, `KnownLeaderWasElected`, `LeadsTermOnce` |
| `RaftLiveness` | 2 nodes, 2 terms, 1 failed save | `ElectionsEnd`, `CallsEnd` |
| `RaftApply` | 2 terms, 2 entries, 1 proposal, 2 events among cuts, installs, shipments, restarts, failed saves and failed writes | `TypeOK`, `IndexesInOrder`, `CommittedIsChosen`, `AppliedOnceInOrder`, `ReplayConverges`, `BaseIsBacked`, `OwnValueWhenChosen`, `ShippedCoversIndex` |
| `DiskSealed` | sealed log, 3 blind writes, 2 faults, 2 crashes, 1 compaction | `RecoveredIsAdmissible` |
| `DiskSwaps` | plain log, 5 puts, deletes and swaps, 1 crash, 2 compactions, no fault | `RecoveredIsAdmissible` |
| `DiskDeadlines` | 5 operations without increments, 3 instants, 1 crash, 1 compaction | `NoResurrection` |
| `DiskInstall` | plain log, 3 operations, 1 fault, 1 crash, 1 compaction, 1 restore, 2 instants | `TypeOK`, `LogStaysReadable`, `RecoversWhatWasServed` |
| `BatcherProtocol` | 3 callers, batch 2, channel 1 | four invariants, `WritesInOrder` (the refinement), `CallsReturn`, `CloseFinishes`, and absence of deadlock |
| `Api` | 2 servers, 1 client with 2 calls, 3 keys, 2 patterns, pages of 1 key, 2 redirects | `AppendedAtMostOnce`, `ScanReturnsEachOnce`, `ExpiredCountedOnce`, `FakeMirrorsMemStore`; `matchGlob` against its meaning on short texts |
| `Chaos` | 3 nodes, 9 schedules of 1 to 4 faults, 1 or 2 further writes | `HealedInTheEnd`, `FaultsStayInForce`, `DurabilityHolds`, `HistoryPasses`; the checker against its comment on short histories |

All but `BatcherProtocol` stop when their bounds are used up, so they do not
check for deadlock. `LogMatching` is stated for behaviours in which no term
has two leaders; the code does not guarantee that (see below). `VotesAreDurable`
and `ElectionIsDurable` are about the terms in the files and not about the
votes, which the code can forget. `RaftApply` leaves the same question open:
it takes committed entries to stay committed, which is what the election and the
log are for. `TypeOK` of `Api` and `Chaos` says what shape the state has; it is an
invariant of both instances and not among their properties.

### What does not hold

`RaftElectionSafety` checks a statement the repository makes, and TLC finds a
behaviour of the code that contradicts it: stepping down within a term clears the
vote, and two nodes lead one term. `PROJECT.json` quotes the lines.

Further disagreements have a configuration but are not among the regular runs.
`tlc -config <name>.cfg <module>` shows the behaviour. `ApplyUnmet` and `ChaosUnmet`
stand for several properties of one instance; the one to check is the one that is
not commented out.

| configuration | property | what happens | what it contradicts |
| --- | --- | --- | --- |
| *`MCRaft`* | | | |
| `RaftCommittedStay` | `CommittedEntriesStay` | `follower.go:30`: a late shorter request truncates committed entries | `follower.go:22-23`, "stale, uncommitted entries from a previous term" |
| `RaftAnsweredTerm` | `AnsweredTermIsSaved` | `node.go:71`: a new term is answered before it is saved | `persistence.go:12-15`, "written and fsynced before any RPC response that depends on them" |
| `RaftAcceptedEntries` | `AcceptedEntriesAreSaved` | `node.go:124`: after a failed save a repeated request is accepted with nothing saved | `node.go:85`, "Any log change is persisted before the success response is returned." |
| `RaftSentEntries` | `SentEntriesAreSaved` | `leader.go:134`: a heartbeat sends an entry the leader has not saved | `leader.go:148-149`, "must be durable before followers can be told about it" |
| `RaftAckedCommitted` | `AckedIsCommitted` | `leader.go:158`: Put, Delete and Clear are acknowledged before they are committed | `README.md:172-173`, "waits for a majority commit, applies, and only then acknowledges" |
| *`MCRaftApply`* | | | |
| `ApplyUnmet` | `AppliedOnce` | `persistence.go:202`: a restart applies retained entries again to a store that has them | `apply.go:11-13`, "exactly once and in order" |
| `ApplyUnmet` | `RestoreKeepsApplied` | `snapshot.go:175`: an entry applied between the halves of an install is wiped out by the restore | `apply.go:139`, "a restore can never interleave with an apply" |
| `ApplyUnmet` | `BaseSavedAfterData` | `node.go:65`: another handler saves the new base before the data is restored | `snapshot.go:193`, "Persist the new compaction base AFTER the snapshot data is durable" |
| `ApplyUnmet` | `OwnResult` | `apply.go:62`: the caller of a lost entry is handed the result of the entry in its place | `leader.go:174`, "the caller learns the deterministic outcome" |
| `ApplyUnmet` | `ResultHasValue` | `apply.go:147`: an entry covered by a snapshot is answered without a value, and the type assertion of Incr fails | `leader.go:81-83`, "returns the new value once the entry is applied" |
| `ApplyUnmet` | `SentByLeader` | `snapshot.go:99`: a node that lost leadership meanwhile sends its snapshot with the new term | `snapshot.go:70`, "sends the leader's current snapshot" |
| `ApplyUnmet` | `SnapshotIsAtIndex` | `snapshot_bridge.go:23`: the data may contain entries after the index | `raft/snapshot.go:10`, "the serialized state machine at that point" |
| `ApplyUnmet` | `SnapshotHasTerm` | `apply.go:87`: an index below a base that moved meanwhile has no term | `apply.go:88`, back "to the compaction base's term" |
| `ApplyUnmet` | `InstalledLogAscends` | `snapshot.go:165`: an install keeps a suffix of an older term after the new base | the ascending terms on which `node.go:52` compares logs |
| `ApplyUnmet` | `SkippedIsCompacted` | `apply.go:152`: a committed entry that a late request cut from the log is passed over unapplied | `apply.go:153`, "Already compacted into a snapshot and applied from it" |
| *`MCDiskStore`* | | | |
| `DiskInterrupted` | `RecoveryIsIdempotent` | `snapshot.go:146`: a crash inside compaction counts an increment twice | `snapshot.go:134-135`, "a recoverable (idempotent) prefix" |
| `DiskSealedHeader` | `LogStaysReadable` | `wal.go:276`: a bare header is accepted, and writes after it make the log unreadable | `README.md:242-243`, "a `200` survives a crash" |
| `DiskTornTail` | `CrashedStoreOpens` | `wal.go:402`: a record torn by a crash keeps the store from opening | `wal.go:240-241`, "A truncated tail record (a crash mid-append) is skipped" |
| `DiskLateReplay` | `RecoversWhatWasServed` | `wal.go:380`: a renewed deadline is lost when the log is replayed after the first one | `README.md:244-245`, "restoring the exact pre-crash state" |
| `DiskLateIncrement` | `NoResurrection` | `batcher.go:87`: an increment that failed recreates an expired key on replay | `wal.go:339-341`, "changed no state, so replaying it is a no-op" |
| `DiskFailedSync` | `RecoveredIsAdmissible` | `batcher.go:176`: a failed write that stays in the log undoes an acknowledged swap | `README.md:242-243`, "a `200` survives a crash" |
| `DiskInterruptedInstall` | `InstalledStateSurvives` | `snapshot.go:129`: a crash inside RestoreSnapshot mixes old records into the new state | `snapshot.go:109-110`, "so the installed state survives a crash" |
| *`MCApi`* | | | |
| `ApiGauge` | `GaugeCountsKeys` | `handlers.go:87`: the gauge counts a write that is never made, and no expiry | `metrics.go:106`, "Number of keys in the store." |
| `ApiFakeIncr` | `FakeIsMemStore` | `fake.go:95`: Incr of the fake keeps the deadline | `fake.go:73`, "mirroring MemStore's semantics exactly" |
| *`MCChaos`* | | | |
| `ChaosUnmet` | `PromptInTheEnd` | `faults.go:172`: clearing a reordering leaves its delay in place | `cluster.go:339`, "then clears every fault" |
| `ChaosUnmet` | `OverlapsStayInForce` | `cluster.go:418`: clearing one partition lifts another; a crash of a stopped node is undone by the first restart | the duration `For` of a fault, `faults.go:39` |
| `ChaosUnmet` | `HistoryAlwaysPasses` | a restarted node replays and serves older versions; the oracle reports it | `oracles.go:167`, "each node's state machine only moves forward" |

### How the two lists fit together

Several properties are not true of the code without restriction. The passing runs
establish them on the part of the system where the code keeps them, and a
configuration shows what lies outside:

| property | holds for | fails with |
| --- | --- | --- |
| `RecoveredIsAdmissible` | blind writes, with faults and compaction | swaps after a fault (`DiskFailedSync`); an interrupted install (as in `DiskInterruptedInstall`) |
| | swaps with compaction | increments with compaction (as in `DiskInterrupted`) |
| `NoResurrection` | Put, Delete, Clear, CAS, Expire | Incr of a non-number with a deadline (`DiskLateIncrement`); a state installed on a plain log, whose truncation is not synced |
| `LogStaysReadable` | plain logs | sealed logs (`DiskSealedHeader`) |
| `RecoversWhatWasServed` | no fault, no deadline | a renewed deadline (`DiskLateReplay`); a failed write that stays in the log |
| `IndexesInOrder` | the base always; the commit index while no request cut the log below it | cuts (as in `RaftCommittedStay`) |
| `CommittedIsChosen` | entries always; the base's term unless a snapshot came with another one or the log was compacted after a cut | what `SnapshotHasTerm` shows of the sender |
| `AppliedOnceInOrder` | from each restart or install to the next, in an intact node: no refused write, nothing between the halves of an install, nothing skipped or missing from a snapshot | across restarts (`AppliedOnce`); skipped entries (`SkippedIsCompacted`) |
| `ReplayConverges` | an intact node, restarts included | races (`RestoreKeepsApplied`) |
| `BaseIsBacked` | an intact node, restarts included | a base saved too early (`BaseSavedAfterData`) |
| `OwnValueWhenChosen` | callers whose entry was chosen | callers whose entry was lost (`OwnResult`) |
| `FakeMirrorsMemStore` | keys without a kept deadline | `ApiFakeIncr` |
| `FaultsStayInForce` | faults that touch different things | overlapping ones (`OverlapsStayInForce`) |
| `HistoryPasses` | nodes that were not put back | `HistoryAlwaysPasses` |

A store that refuses an entry (`apply.go:163`) is the one case without a
configuration of its own: `storeErrors` counts it, the loop goes on, and the entry
is missing from then on, which is why the properties of the store exclude it.

### Bounds

Two nodes are the smallest cluster in which a vote, a stray request or an
unsaved entry matters. A quorum that leaves a node out needs three; only
`RaftElectionSafety` has them, and the theorems of section 4 hold for any number.
Two terms let a leader be replaced. One crash and one failed save are enough for each
window between deciding and saving. `RaftLogs` has no stray request, which would
make it too large for a regular run; its theorems cover any number of them.
In `RaftApply` two entries are one to compact and one to keep, and any two events
(two installs, a cut and a restart, a shipment and a failed write) can meet around
the loop, the compactor and a proposal; the theorems have no bound. In the store two keys separate `clear` from
`delete`, a batch of two has a first and a last record, and `MaxInt64 = 2` lets
counting reach the limit. Three callers on a channel of one slot block each other
while a batch fills. In `Api` the keys `a`, `ab` and `b` have a prefix pair and a
key beyond it, pages of one key make every page full, two calls let a write follow
an abandoned one, and two redirects lead back to the first server. In `Chaos` the
schedules have every kind of fault, two that share an edge set, two that share the
delay, two crashes of one node, one without duration and some that outlast the
run; two further writes can be read in the wrong order. Nodes, commands and
servers are symmetric where no liveness is checked.

### Fairness

`RaftLiveness` assumes that a goroutine that can run does, and that a call ends,
in an answer or an error, as the HTTP client's timeout guarantees. It does not
assume that saves succeed or that anybody is elected. `BatcherProtocol` assumes
weak fairness of every goroutine, and strong fairness where one waits for a mutex
or a full channel, which the Go runtime queues in order of arrival, and for
`snapshotLoop`'s choice between its ticker and its stop channel. Nobody has to
submit, to compact or to call `Close`. The other specifications state no fairness
and are used for safety only.

## 4. Proofs

The theorems hold for every cluster of more than one node, every command set,
every number of callers and every bound. Constants carry only the assumptions
named in the modules.

- **The log** (first part of `RaftProofs`). `MergeFacts` says what
  `mergeEntries` returns; `MergeAscends` that it keeps terms ascending.
- **Types, elections and files** (`RaftProofs`). `TypeCorrect`, with
  `NoCompaction`, since compaction is outside `Raft`. `CleanMeansSaved` is inductive over
  types. The durability results are not: that an elected leader's term is in a
  majority of files needs to know what calls, elections and files say of each
  other. The inductive invariant adds `TermSaved` (a file is never ahead of
  memory), `VoteCallsInv` (a request follows the candidate's save, a yes the
  voter's), `ElectionInv` (the same for the tally) and `ElectedInv` (roles and
  requests agree with the elections won). From it follow `FileMatchesMemory`,
  `VotesSurviveCrashes`, `LeadersAreElected` and `NoTermIsLedTwice`.
- **Order, calls and majorities** (`RaftOrderProofs`). `LogsAreOrdered` is
  about logs, files and requests together, because a follower's log ascends only if
  what it is sent does; `MarksMatchCalls` is inductive over types; `ElectionsAreDurable`
  counts the files behind a tally.
- **Log matching** (`RaftOrderProofs`, over "Matching copies of a log" in
  `RaftProofs`). `LogMatching` speaks of the logs in memory, but a restart reads
  a log back from a file and a follower merges a segment from a request, which may
  be old. `MatchInv` therefore says of all copies, in memory, in files and in
  requests, that they match pairwise, base term included; that every entry's term
  was won by somebody; and that no copy has an entry of a leader's term beyond the
  end of the leader's log, which is why the next entry it proposes is new. The only
  new copies are a proposal, a segment cut off a log and a merge, and each of the
  three matches everything that its parts match (`AllCopiesMatch`,
  `LogsMatchEachOther`). Like the property, the invariant is conditional on
  `OneLeaderPerTerm`, which the code does not ensure: see the election-safety
  finding. TLC checked `MatchInv` on the instance of `RaftLogs` and by simulation of
  three nodes before it was proved.
- **Log and store** (`RaftApplyProofs`). Four layers, each inductive over those below it.
  `ApplyInv`: types (`ApplyTypeCorrect`) and the order of the indexes, with what
  every goroutine that stopped between two sections still knows: the loop's index
  is at most one ahead of `lastApplied`, the compactor's and the shipper's are at
  most `lastApplied` (`IndexesStayInOrder`). That the commit index is within the log
  is part of it as long as nothing was cut.
  `ChosenInv`: agreement with the cluster's log, cut or not, which needs a leader to
  hold all that is chosen, and for the base the term in the compactor's hand to be
  that of its index (`CommittedAreChosen`). `ResultInv`: results carry index and term of the
  entry they belong to (`CallersGetTheirOwnValue`). `StoreInv`: in an intact node the
  store replays up to the saved base, up to `lastApplied` outside an install, and what
  is shipped up to its index, where replaying up to `n` means that after every
  application, and at the start, each later entry up to `n` still follows
  (`BaseStaysBacked`, `ShippedAlwaysCovers`, `ReplayAlwaysConverges`). Applying an
  entry that is at most one ahead of `lastApplied` keeps this (`ReplaysAppend`), also
  where a restart has fallen back to the saved base. `OnceInv`: what was applied
  since the last restart or install is exactly the run of indexes from there
  (`EntriesAppliedOnce`). Both are conditional on `Intact`, as the properties are.
- **Files** (`DiskProofs`). `ApplyAll` is a recursive function; what it does to a
  log is shown by looking at the least prefix at which a claim would fail
  (`LeastNumber`, `UpTo`), with a run of the replay as the witness (`IsRun`). Over
  the shapes (`DiskShapesAreKept`, both kinds of log) there are four invariants.
  `PlainInv`: the worst a plain log can hold is a torn record, and the log of an open
  store not even that while nothing failed (`PlainLogsStayReadable`). `TailInv`: what a write section has appended is
  the end of the log. `ServedInv`: without faults, the snapshot and the log before
  the section in progress give the state in memory, and a swap that was decided can
  still be made (`RecoveryRestoresService`). `AckInv`, for Put, Delete and Clear
  with every fault and crash: each prefix that a crash can leave recovers to a
  state that the answers allow, and touches every key on which memory differs from
  the snapshot. The second half is what compaction needs: the new snapshot may come
  under any of these prefixes, the emptied log's included, because replaying it
  over the old snapshot and over the new one ends in the same state
  (`SameReplay`). This gives `AcknowledgedWritesSurvive`. For `NoResurrection` the
  clock is the difficulty: records are replayed later than they were made, so a swap
  or a new deadline may fail that once succeeded. `Fewer` compares two states at one
  time, replaying a record keeps the comparison at every later time, and the
  invariant has it between the state that each remaining prefix recovers to and the
  one in memory, for all times from now on (`TheDeadStayDead`).
  `CommandAssumption` says that commands are well formed. The other hypotheses
  stand in the theorems: `~Encrypted`, `Timeless` (no Expire, no deadline in a
  shipped state), `OnlyBlind` (no Incr, CAS, Expire or shipped state) and
  `NoneReborn` (no Incr, and no shipped state on a plain log). Each
  excludes a case in which the property fails, see the table of section 3.
  TLC checked the invariants on the instances of the runs first.
- **Goroutines** (`BatcherProofs`). One invariant ties `closed` and the end of
  `batchLoop` to the callers inside `submit`, and gives `NobodySendsOnClosed` and
  `LoopEndsLast`. A second one says that every request is in exactly one place and
  that its caller waits for it; with it every step is a step of `WriteQueue` or
  leaves it alone (`BatcherImplementsQueue`), shapes are kept (`ShapesAreKept`) and
  a state-dependent request follows the batch (`SinglesComeAfterTheBatch`).
- **API and engines** (`ApiProofs`). `CallInv`: a call has appended nothing before its
  proposal and one entry while it waits (`MutationsEnterOneLog`). `StoreShape`: types,
  and finitely many keys. `CountInv`: the expired keys that were counted and the
  deadlines still in the store are together no more than the deadlines ever set
  (`DeadlinesCountedOnce`). `MirrorInv`: for a key that is not in `kept` the fake holds
  the value and deadline that the store serves, or what it holds is dead.
- **Scans** (`ScanProofs`, over `ApiProofs`). `matchGlob` is a recursive function on
  the positions in pattern and text. `GlobProgress` shows that every turn of the loop
  raises a rank that is bounded, so the function is defined (`GlobExists`), and
  `GlobInv` is the invariant of the loop: if the pattern can be laid over the text at
  all, it can with what is left of both, or with the last star taking one character
  more. Why going back to an earlier star is never needed is the heart of it
  (`StarKeeps`, `RetryKeeps`), and `GlobIsExact` the result. The order of keys is
  total and transitive, so a finite set has one ascending list (`SortedFacts`).
  `ScanInv`: the client has every steady key up to its cursor, which is the last key
  it was sent (`ScansMissNothing`). With it and `MirrorInv` the fake answers reads,
  mutations and pages as the store does (`FakeMirrors`). The assumptions are those of
  the constants: keys without `*`, page sizes above zero (the handler refuses others,
  `handlers.go:235`), well-formed mutations with deadlines above zero, and finitely
  many keys at the start.
- **Chaos harness** (`ChaosProofs`). `CheckerIsExact` goes through the loop of the
  checker: after each turn `maxSeen` is the newest version that the reader was served so far. For
  `Run`, `AccountedFor` says that whatever is out of order in the cluster or the
  configuration is so because of a fault that is applied and not yet cleared
  (`RunHealsWhatItBreaks`); `AllMarked`, that a fault with a hold of its own has left
  its trace and nobody took it away (`SeparateFaultsStayInForce`). For the workload,
  `ClusterInv` describes what nodes have applied and `HistoryInv` what was recorded:
  an acknowledged write is in the log (`AckedWritesAreDurable`) because, by `PollInv`,
  every node that `waitMajorityValue` found with the value has it from the log, which
  only grows while the others are asked; and as long as no
  node was put back, `ForwardInv` bounds what a reader was served by what it has
  applied (`OracleReportsNothing`). `FaultsAssumption` and `ChaosAssumption` say that
  node names differ, that schedules name nodes of the cluster, and that workloads
  write at least once.

Most leaves name the prover that finds them (`Zenon`, or `SMTT(n)` with a time-out
where the default is short): the contexts are long, and the other prover would
spend its time first.

A recursive function is reasoned about through the least index at which a claim
would fail, with an explicit witness that the function exists: induction itself is
out of the prover's reach. TLC also finds the inductive invariants of `ApiProofs`,
`ScanProofs`, `ChaosProofs` and `DiskProofs` to hold on the instances of the runs, with the future
times of `RestInv` (for `TheDeadStayDead`) bounded.

Only model-checked: liveness (`ElectionsEnd`, `CallsEnd`, `CallsReturn`,
`CloseFinishes`), which is out of the prover's reach, and `RecoveredIsAdmissible`
with swaps (`DiskSwaps`), where replay re-evaluates conditions over another state
and the argument depends on which commands are mixed.

## 5. Not modelled

- Single-node mode, which appends and applies without a peer.
- Time in raft: timers may fire at any moment, so nothing is shown about how
  soon a leader is elected.
- A raft state file that cannot be loaded; wrong keys; version-1 snapshots.
- A stale `matchIndex` kept across leaderships (`leader.go:31`). It is listed as a
  hazard; behaviours that reach it are longer than the runs explore.
- The apply loop on top of `DiskStore`: `RaftApply` takes a store write to be
  atomic, `DiskStore` takes its commands from anywhere. The two meet only in the
  statement that a restarted node may find applied entries in its store.
- The election-safety, log-matching and state-machine oracles of the harness as
  code: they read a cluster that stands still, and what they look for is stated as
  properties of `Raft`.
- Request limits, CORS, the text of the metrics, the logger, sealing of blobs, and
  the wiring in `main`: no state, or none that another part reads.
