------------------------------ MODULE RaftApply ------------------------------
(***************************************************************************)
(* One raft.Node between its log and its store: the apply loop and the     *)
(* callers that wait for it (pkg/raft/apply.go, proposeWait in leader.go), *)
(* log compaction and both sides of InstallSnapshot (snapshot.go), the     *)
(* bridge to the DiskStore and the compactor goroutine                     *)
(* (cmd/server/snapshot_bridge.go), and a restart from the raft file.      *)
(*                                                                         *)
(* The other members of the cluster are reduced to what they decide:       *)
(* "chosen" is the committed log of the cluster, as the terms of its       *)
(* entries, and clusterTerm the newest term that has a leader.  This node  *)
(* wins an election, is sent entries and commits them only as a correct    *)
(* raft cluster lets it; module Raft is about that part of the code.  What *)
(* a wrong base term on this node does to the votes of the others is left  *)
(* out.                                                                    *)
(*                                                                         *)
(* Index and term identify an entry, so the store is modelled as the       *)
(* sequence of the indexes that were applied to it: an entry applied twice *)
(* occurs twice, and one that was lost does not occur.  A snapshot is such *)
(* a sequence, sent with an index and a term.  The ones that arrive carry  *)
(* any data and any term; history variables tell when they were wrong.     *)
(*                                                                         *)
(* An action is one critical section of n.mu, of applyMu or of the         *)
(* tracker's mutex, or one call into the store.                            *)
(***************************************************************************)
EXTENDS RaftLog, FiniteSets

CONSTANTS
  Threshold,        \* applied entries after which the compactor trims the log
  MaxTerm,          \* bound: no election is won at a term above this one
  MaxLog,           \* bound: no entry is proposed or chosen beyond this index
  MaxProposals,     \* bound: no more than this many callers in proposeWait
  Data,             \* the contents a received snapshot may have
  WrongTerm,        \* the terms it may come with that are not its last entry's
  MaxEvents         \* bound: requests that cut the log, snapshots received and sent,
                    \* restarts, failed saves and failed store writes, together

ASSUME ApplyAssumption ==
  /\ Threshold \in Nat \ {0}
  /\ Command # {}
  /\ {MaxTerm, MaxLog, MaxProposals, MaxEvents} \subseteq Nat
  /\ Data \subseteq Seq(Nat \ {0}) /\ WrongTerm \subseteq Nat \cup {-1}

VARIABLES
  role, term, log, commitIndex, lastApplied, dirty,  \* Node fields of the same name
  disk,                \* the log last saved in the raft file
  store,               \* the indexes applied to the store, in order; durable
  loop,                \* where applyLoop is
  proposals,           \* callers inside proposeWait, with what the tracker has for them
  installs,            \* HandleInstallSnapshot calls that have released n.mu
  compactor,           \* where the compactor goroutine is
  ship,                \* where installSnapshot is, for one peer
  nextIndex, inFlight, \* Node.repl of that peer; matchIndex moves with nextIndex here
  chosen, clusterTerm, \* the cluster: terms of the committed entries, newest led term
  mislabelled,         \* history: the term of a base came from elsewhere or from a cut log
  raced,               \* history: something ran between the halves of an install
  lacking,             \* history: the loop skipped an entry, or a snapshot lacked one
  origin,              \* history: index and contents the loop went on from
  cuts,                \* history: requests that cut the log below commitIndex
  received, shipped, crashes, saveFailures, storeErrors  \* bound counters

raftVars == <<role, term, log, commitIndex, dirty>>
loopVars == <<lastApplied, store, loop>>
shipVars == <<ship, nextIndex, inFlight, shipped>>
clusterVars == <<chosen, clusterTerm>>
faultVars == <<crashes, saveFailures, storeErrors>>
installVars == <<installs, raced, received>>
historyVars == <<cuts, mislabelled, lacking, origin>>
vars == <<raftVars, disk, loopVars, proposals, installVars, compactor, shipVars,
          clusterVars, faultVars, historyVars>>

(***************************************************************************)
(* State.                                                                  *)
(***************************************************************************)
Index == 0..MaxLog
\* The base of a node's log may have the term -1 of an entry nobody found.
NodeLog == [base: Nat, baseTerm: Nat \cup {-1}, entries: Seq(Entry)]

\* The entries after index a up to b, once each and in order.
Run(a, b) == [k \in 1..(b - a) |-> a + k]
Occurring(s) == {s[k] : k \in DOMAIN s}

\* At the start of s, and after every application of an entry, each later entry
\* up to n is still applied: an older entry never has the last word.
Replays(s, n) ==
  \A k \in 0..Len(s), j \in 1..n :
    (k = 0 \/ s[k] < j) => \E m \in (k + 1)..Len(s) : s[m] = j

NoResult == [kind |-> "missing", idx |-> 0, term |-> 0]
\* applyResult: a value or an error that the entry at idx produced, or the empty
\* result of an index that a snapshot covers or that has no entry.
Result == [kind: {"missing", "none", "value", "error"}, idx: Index, term: Nat]

\* A value for the fields that a goroutine has not read yet.
Unread == [pc |-> "idle", idx |-> 0, term |-> 0]
NoShip == [pc |-> "idle", idx |-> 0, term |-> 0, data |-> <<>>, reqTerm |-> 0, reqRole |-> "none"]
AtTop == [pc |-> "top", idx |-> 0, result |-> NoResult]

Init ==
  /\ role = "follower"
  /\ term = 0
  /\ log = EmptyLog
  /\ commitIndex = 0
  /\ lastApplied = 0
  /\ dirty = FALSE
  /\ disk = EmptyLog
  /\ store = <<>>
  /\ loop = AtTop
  /\ proposals = {}
  /\ installs = {}
  /\ compactor = Unread
  /\ ship = NoShip
  /\ nextIndex = 1
  /\ inFlight = FALSE
  /\ chosen = <<>>
  /\ clusterTerm = 0
  /\ mislabelled = FALSE
  /\ raced = FALSE
  /\ lacking = FALSE
  /\ origin = [idx |-> 0, data |-> <<>>]
  /\ cuts = 0
  /\ received = 0
  /\ shipped = 0
  /\ crashes = 0
  /\ saveFailures = 0
  /\ storeErrors = 0

\* The loop holds applyMu from its re-check to the end of its write, or until it
\* has told the waiters of an entry that it skipped.
ApplyMuHeld == loop.pc \in {"write", "raise", "skip", "tell"}

\* Some HandleInstallSnapshot has adopted its base and not restored its data.
Restoring == \E h \in installs : h.stage = "restore"

\* Variant: the field is set.
Overwritten(old, new) == new

\* A field that a handler only ever raises.
Raised(old, new) == IF old < new THEN new ELSE old

\* persist: the raft file takes the log, if there is something new to save.  The
\* term and the vote that it saves too play no part here, and a change of these
\* or of commitIndex alone does not count as new.
Persist ==
  /\ disk' = IF dirty THEN log ELSE disk
  /\ dirty' = FALSE
  /\ raced' = (raced \/ (dirty /\ Restoring))

EventsLeft == cuts + received + shipped + crashes + saveFailures + storeErrors < MaxEvents

\* RaftStore.Save returns an error; the state stays marked for saving.
PersistFails ==
  /\ dirty
  /\ EventsLeft
  /\ saveFailures' = saveFailures + 1
  /\ UNCHANGED <<disk, dirty, raced>>

\* A caller that logs the error and goes on.
PersistOrLog ==
  \/ Persist /\ UNCHANGED saveFailures
  \/ PersistFails

StoreFails ==
  /\ EventsLeft
  /\ storeErrors' = storeErrors + 1

\* becomeFollower for the leader of the newest term.
FollowCluster ==
  /\ role' = "follower"
  /\ term' = clusterTerm

(***************************************************************************)
(* The cluster.                                                            *)
(***************************************************************************)
\* The entries this node's log has up to index n are the chosen ones.
AgreesUpTo(n) == \A i \in 1..n : HasEntry(log, i) => EntryAt(log, i).term = chosen[i]

Leads == role = "leader" /\ term = clusterTerm

\* The log of the leader of clusterTerm up to m, as far as this node retains it:
\* the chosen entries, and one of its own term beyond them.
LeaderEntries(m, cmd) ==
  [k \in 1..(m - log.base) |->
     [term |-> IF log.base + k <= Len(chosen) THEN chosen[log.base + k] ELSE clusterTerm,
      cmd |-> cmd]]

ElectOther ==
  /\ clusterTerm < MaxTerm
  /\ clusterTerm' = clusterTerm + 1
  /\ UNCHANGED <<raftVars, disk, loopVars, proposals, installVars, compactor, shipVars,
                 chosen, faultVars, historyVars>>

LastChosenTerm == IF chosen = <<>> THEN 0 ELSE chosen[Len(chosen)]

\* Another leader commits one entry: its own, or one it got from this node.
CommitElsewhere ==
  /\ clusterTerm > 0 /\ ~Leads
  /\ Len(chosen) < MaxLog
  /\ \/ chosen' = Append(chosen, clusterTerm)
     \/ /\ HasEntry(log, Len(chosen) + 1)
        /\ AgreesUpTo(Len(chosen))
        /\ LogTermAt(log, Len(chosen) + 1) >= LastChosenTerm
        /\ chosen' = Append(chosen, LogTermAt(log, Len(chosen) + 1))
  /\ UNCHANGED <<raftVars, disk, loopVars, proposals, installVars, compactor, shipVars,
                 clusterTerm, faultVars, historyVars>>

(***************************************************************************)
(* Raft on this node, as far as it moves the log and the commit index.     *)
(***************************************************************************)
\* Only a node whose log holds every chosen entry collects a majority.
BecomeLeader ==
  /\ role = "follower"
  /\ clusterTerm < MaxTerm
  /\ LastLogIndex(log) >= Len(chosen) /\ AgreesUpTo(Len(chosen))
  /\ LastLogTerm(log) >= LastChosenTerm
  /\ role' = "leader"
  /\ term' = clusterTerm + 1
  /\ clusterTerm' = clusterTerm + 1
  /\ UNCHANGED <<log, commitIndex, dirty, disk, loopVars, proposals, installVars, compactor,
                 shipVars, chosen, faultVars, historyVars>>

StepDown ==
  /\ term < clusterTerm
  /\ FollowCluster
  /\ UNCHANGED <<log, commitIndex, dirty, disk, loopVars, proposals, installVars, compactor,
                 shipVars, clusterVars, faultVars, historyVars>>

\* commitIndex after a request: leaderCommit or the end of the log, whichever is
\* less, if leaderCommit is ahead.  After a cut that may be less than it was.
Advanced(old, leaderCommit, last) ==
  IF leaderCommit > old THEN Min({leaderCommit, last}) ELSE old

\* An accepted request leaves the leader's log up to the end m of the request: what
\* it has in common with this node's log stays (module Raft), and what lies beyond
\* m is dropped, committed or not.  One that ends below the base leaves no entries,
\* as if it ended at the base; a leaderCommit that is not ahead changes nothing.  A
\* late request of an older leader is one that arrives before the newer is elected.
HandleAppendEntries ==
  /\ clusterTerm > 0 /\ ~Leads
  /\ FollowCluster
  /\ \E m \in log.base..MaxLog, cmd \in Command, leaderCommit \in commitIndex..Len(chosen) :
       /\ m <= Len(chosen) + 1
       /\ log' = [log EXCEPT !.entries = LeaderEntries(m, cmd)]
       /\ commitIndex' = Advanced(commitIndex, leaderCommit, m)
  /\ dirty' = (dirty \/ log' # log)
  /\ \/ LastLogIndex(log') >= commitIndex /\ UNCHANGED cuts
     \/ LastLogIndex(log') < commitIndex /\ EventsLeft /\ cuts' = cuts + 1
  /\ UNCHANGED <<disk, loopVars, proposals, installVars, compactor, shipVars, clusterVars,
                 faultVars, mislabelled, lacking, origin>>

\* maybeCommit: an entry of the leader's own term is on a majority.
MaybeCommit ==
  /\ Leads
  /\ \E i \in Index :
       /\ i > commitIndex /\ HasEntry(log, i)
       /\ LogTermAt(log, i) = term
       /\ commitIndex' = i
       /\ chosen' = chosen \o [k \in 1..(i - Len(chosen)) |-> LogTermAt(log, Len(chosen) + k)]
  /\ UNCHANGED <<role, term, log, dirty, disk, loopVars, proposals, installVars, compactor,
                 shipVars, clusterTerm, faultVars, historyVars>>

\* A vote or AppendEntries handler, or an election, saves what is new.
PersistElsewhere ==
  /\ dirty
  /\ Persist
  /\ UNCHANGED <<role, term, log, commitIndex, loopVars, proposals, installs, received,
                 compactor, shipVars, clusterVars, faultVars, historyVars>>

(***************************************************************************)
(* proposeWait.                                                            *)
(***************************************************************************)
\* The entry is appended and its waiter registered under one hold of n.mu.
ProposeWait ==
  /\ role = "leader"
  /\ LastLogIndex(log) < MaxLog
  /\ Cardinality(proposals) < MaxProposals
  /\ \E cmd \in Command : log' = AppendEntry(log, [term |-> term, cmd |-> cmd])
  /\ dirty' = TRUE
  /\ proposals' = proposals \cup
       {[idx |-> LastLogIndex(log) + 1, term |-> term, pc |-> "saving", got |-> NoResult]}
  /\ UNCHANGED <<role, term, commitIndex, disk, loopVars, installVars,
                 compactor, shipVars, clusterVars, faultVars, historyVars>>

ProposalSaved(p) ==
  /\ p.pc = "saving"
  /\ Persist
  /\ proposals' = (proposals \ {p}) \cup {[p EXCEPT !.pc = "waiting"]}
  /\ UNCHANGED <<role, term, log, commitIndex, loopVars, installs, received,
                 compactor, shipVars, clusterVars, faultVars, historyVars>>

\* The caller gets the error; the entry stays in the log.
ProposalUnsaved(p) ==
  /\ p.pc = "saving"
  /\ PersistFails
  /\ proposals' = proposals \ {p}
  /\ UNCHANGED <<role, term, log, commitIndex, loopVars, installs, received,
                 compactor, shipVars, clusterVars, crashes, storeErrors, historyVars>>

\* Its channel is closed: the caller takes whatever is recorded for its index.
ProposalAnswered(p) ==
  /\ p.pc = "waiting" /\ p.got # NoResult
  /\ proposals' = proposals \ {p}
  /\ UNCHANGED <<raftVars, disk, loopVars, installVars, compactor, shipVars,
                 clusterVars, faultVars, historyVars>>

\* applyWaitTimeout passes first.
ProposalTimesOut(p) ==
  /\ p.pc = "waiting"
  /\ proposals' = proposals \ {p}
  /\ UNCHANGED <<raftVars, disk, loopVars, installVars, compactor, shipVars,
                 clusterVars, faultVars, historyVars>>

(***************************************************************************)
(* applyLoop.                                                              *)
(***************************************************************************)
\* idx, entry, ok := lastApplied + 1, entryAt(idx).
Pick ==
  /\ loop.pc = "top"
  /\ lastApplied < commitIndex
  /\ LET idx == lastApplied + 1
     IN  \/ /\ HasEntry(log, idx)
            /\ loop' = [pc |-> "picked", idx |-> idx,
                        result |-> [kind |-> "value", idx |-> idx,
                                    term |-> EntryAt(log, idx).term]]
         \/ /\ ~HasEntry(log, idx)
            /\ loop' = [pc |-> "missing", idx |-> idx,
                        result |-> [kind |-> "none", idx |-> idx, term |-> 0]]
  /\ raced' = (raced \/ Restoring)
  /\ UNCHANGED <<raftVars, disk, lastApplied, store, proposals, installs, received, compactor,
                 shipVars, clusterVars, faultVars, historyVars>>

\* Variant: the index is not looked at again.
RecheckSkipped ==
  /\ loop.pc \in {"picked", "missing"}
  /\ loop' = [loop EXCEPT !.pc = IF @ = "picked" THEN "write" ELSE "skip"]
  /\ UNCHANGED <<raftVars, disk, lastApplied, store, proposals, installVars, compactor,
                 shipVars, clusterVars, faultVars, historyVars>>

\* Under applyMu: a snapshot installed meanwhile may already cover the index.
Recheck ==
  /\ loop.pc \in {"picked", "missing"}
  /\ loop' = IF lastApplied >= loop.idx
             THEN [loop EXCEPT !.pc = "notify", !.result.kind = "none"]
             ELSE [loop EXCEPT !.pc = IF @ = "picked" THEN "write" ELSE "skip"]
  /\ UNCHANGED <<raftVars, disk, lastApplied, store, proposals, installVars, compactor,
                 shipVars, clusterVars, faultVars, historyVars>>

\* The branch for !ok: the index counts as applied and nothing is written.
Skip ==
  /\ loop.pc = "skip"
  /\ lastApplied' = Raised(lastApplied, loop.idx)
  /\ loop' = [loop EXCEPT !.pc = "tell"]
  /\ lacking' = (lacking \/ lastApplied < loop.idx)
  /\ UNCHANGED <<raftVars, disk, store, proposals, installVars, compactor, shipVars,
                 clusterVars, faultVars, cuts, mislabelled, origin>>

\* A write that fails is logged and its error recorded; the loop goes on.
ApplyCmd ==
  /\ loop.pc = "write"
  /\ \/ /\ store' = Append(store, loop.idx)
        /\ loop' = [loop EXCEPT !.pc = "raise"]
        /\ UNCHANGED storeErrors
     \/ /\ StoreFails
        /\ loop' = [loop EXCEPT !.pc = "raise", !.result.kind = "error"]
        /\ UNCHANGED store
  /\ UNCHANGED <<raftVars, disk, lastApplied, proposals, installVars, compactor, shipVars,
                 clusterVars, crashes, saveFailures, historyVars>>

Raise ==
  /\ loop.pc = "raise"
  /\ lastApplied' = Raised(lastApplied, loop.idx)
  /\ loop' = [loop EXCEPT !.pc = "notify"]
  /\ UNCHANGED <<raftVars, disk, store, proposals, installVars, compactor, shipVars,
                 clusterVars, faultVars, historyVars>>

\* Variant: the waiters of later indexes wake too.
NotifyFrom ==
  /\ loop.pc \in {"notify", "tell"}
  /\ proposals' = {[p EXCEPT !.got = IF p.idx >= loop.idx THEN loop.result ELSE @] :
                     p \in proposals}
  /\ loop' = AtTop
  /\ UNCHANGED <<raftVars, disk, lastApplied, store, installVars, compactor, shipVars,
                 clusterVars, faultVars, historyVars>>

\* ApplyTracker.applied: the waiters of the index wake.  The result that is
\* recorded for it stays: the loop passes an index once in the life of a process.
Notify ==
  /\ loop.pc \in {"notify", "tell"}
  /\ proposals' = {[p EXCEPT !.got = IF p.idx = loop.idx THEN loop.result ELSE @] :
                     p \in proposals}
  /\ loop' = AtTop
  /\ UNCHANGED <<raftVars, disk, lastApplied, store, installVars, compactor, shipVars,
                 clusterVars, faultVars, historyVars>>

(***************************************************************************)
(* HandleInstallSnapshot.  Between the two halves n.mu is free and applyMu *)
(* not yet taken.                                                          *)
(***************************************************************************)
\* The log loses what the snapshot covers and keeps the rest, whatever its term.
InstallBase(l, s, t) ==
  [base |-> s, baseTerm |-> t,
   entries |-> SubSeq(l.entries, s - l.base + 1, Len(l.entries))]

\* The leader of clusterTerm sends data under index s and term t: the bridge reads
\* the three one after the other, so the term may be another one and the data
\* anything.  A snapshot not ahead of lastApplied is acknowledged and ignored.
HandleInstallSnapshot ==
  /\ clusterTerm > 0 /\ ~Leads
  /\ EventsLeft
  /\ received' = received + 1
  /\ FollowCluster
  /\ \E s \in 1..Len(chosen) : \E t \in WrongTerm \cup {chosen[s]}, d \in Data :
       /\ Occurring(d) \subseteq 1..Len(chosen)
       /\ IF s > lastApplied
          THEN /\ log' = InstallBase(log, s, t)
               /\ commitIndex' = Raised(commitIndex, s)
               /\ lastApplied' = Raised(lastApplied, s)
               /\ dirty' = TRUE
               /\ installs' = installs \cup {[idx |-> s, data |-> d, stage |-> "restore"]}
               /\ raced' = (raced \/ Restoring)
               /\ lacking' = (lacking \/ ~Replays(d, s))
               /\ mislabelled' = (mislabelled \/ t # chosen[s])
          ELSE /\ installs' = installs \cup {[idx |-> s, data |-> <<>>, stage |-> "save"]}
               /\ UNCHANGED <<log, commitIndex, lastApplied, dirty, raced, lacking, mislabelled>>
  /\ UNCHANGED <<disk, store, loop, proposals, compactor, shipVars, clusterVars, faultVars,
                 cuts, origin>>

\* ApplySnapshot under applyMu; an error is only logged.
Restore(h) ==
  /\ h.stage = "restore" /\ ~ApplyMuHeld
  /\ \/ /\ store' = h.data
        /\ origin' = [idx |-> h.idx, data |-> h.data]
        /\ UNCHANGED storeErrors
     \/ StoreFails /\ UNCHANGED <<store, origin>>
  /\ installs' = (installs \ {h}) \cup {[h EXCEPT !.stage = "save", !.data = <<>>]}
  /\ UNCHANGED <<raftVars, disk, lastApplied, loop, proposals, raced, received, compactor,
                 shipVars, clusterVars, crashes, saveFailures, cuts, mislabelled,
                 lacking>>

\* Variant: the base is saved before the data is restored.
InstallSavedFirst(h) ==
  /\ disk' = log
  /\ dirty' = FALSE
  /\ installs' = IF h.stage = "save" THEN installs \ {h} ELSE installs
  /\ UNCHANGED <<role, term, log, commitIndex, loopVars, proposals, raced, received, compactor,
                 shipVars, clusterVars, faultVars, historyVars>>

InstallSaved(h) ==
  /\ h.stage = "save"
  /\ PersistOrLog
  /\ installs' = installs \ {h}
  /\ UNCHANGED <<role, term, log, commitIndex, loopVars, proposals, received, compactor,
                 shipVars, clusterVars, crashes, storeErrors, historyVars>>

(***************************************************************************)
(* The compactor: index and term are read, the store is compacted, then    *)
(* the log is trimmed and the raft file flushed.                           *)
(***************************************************************************)
compactorUnchanged ==
  UNCHANGED <<raftVars, disk, loopVars, proposals, installVars, shipVars, clusterVars,
              faultVars, historyVars>>

\* A tick with enough applied entries.  The code reads ApplyIndex once more for
\* idx; what it reads then is what a later tick would read.
CompactorTick ==
  /\ compactor.pc = "idle"
  /\ lastApplied - log.base >= Threshold
  /\ compactor' = [pc |-> "term", idx |-> lastApplied, term |-> 0]
  /\ compactorUnchanged

\* The term is read and the store compacted, which changes its files and not the
\* state they hold.  If that fails the tick is over.
CompactorStore ==
  /\ compactor.pc = "term"
  /\ \/ compactor' = [compactor EXCEPT !.pc = "trim", !.term = LogTermAt(log, compactor.idx)]
     \/ compactor' = Unread
  /\ compactorUnchanged

\* Variant: the base always takes the last term.
CompactedLastTerm(l, idx, t) == InstallBase(l, idx, LastLogTerm(l))

\* At the end of the log the base takes the log's own last term.
Compacted(l, idx, t) ==
  IF idx >= LastLogIndex(l)
  THEN [base |-> idx, baseTerm |-> LastLogTerm(l), entries |-> <<>>]
  ELSE InstallBase(l, idx, t)

CompactLog ==
  /\ compactor.pc = "trim"
  /\ compactor' = [compactor EXCEPT !.pc = "flush"]
  /\ IF compactor.idx > log.base
     THEN /\ log' = Compacted(log, compactor.idx, compactor.term)
          /\ commitIndex' = Raised(commitIndex, compactor.idx)
          /\ lastApplied' = Raised(lastApplied, compactor.idx)
          /\ dirty' = TRUE
          /\ mislabelled' = (mislabelled \/ cuts > 0)
     ELSE UNCHANGED <<log, commitIndex, lastApplied, dirty, mislabelled>>
  /\ UNCHANGED <<role, term, disk, store, loop, proposals, installVars, shipVars, clusterVars,
                 faultVars, cuts, lacking, origin>>

Flush ==
  /\ compactor.pc = "flush"
  /\ PersistOrLog
  /\ compactor' = Unread
  /\ UNCHANGED <<role, term, log, commitIndex, loopVars, proposals, installs, received,
                 shipVars, clusterVars, crashes, storeErrors, historyVars>>

(***************************************************************************)
(* installSnapshot for one peer, with the bridge's Snapshot: the role is   *)
(* looked at first; index, term and data are then read one after the       *)
(* other, and the request takes the term the node has by then.             *)
(***************************************************************************)
shipUnchanged ==
  UNCHANGED <<raftVars, disk, loopVars, proposals, installs, received, compactor, clusterVars,
              faultVars, historyVars>>

\* replicateToPeer has an AppendEntries call to the peer under way, or is back
\* (a call that begins and ends with no snapshot being read makes no difference).
AppendCall ==
  /\ \/ ~inFlight /\ role = "leader" /\ ship.pc \in {"index", "term", "data", "send"}
     \/ inFlight /\ ship.pc # "sent"
  /\ inFlight' = ~inFlight
  /\ UNCHANGED <<ship, nextIndex, shipped, raced>>
  /\ shipUnchanged

\* The next entry the peer needs has been compacted away.
ShipStart ==
  /\ ship.pc = "idle" /\ EventsLeft
  /\ role = "leader" /\ ~inFlight
  /\ nextIndex < FirstIndex(log)
  /\ ship' = [ship EXCEPT !.pc = "index"]
  /\ shipped' = shipped + 1
  /\ UNCHANGED <<nextIndex, inFlight, raced>>
  /\ shipUnchanged

ShipIndex ==
  /\ ship.pc = "index"
  /\ ship' = [ship EXCEPT !.pc = "term", !.idx = lastApplied]
  /\ raced' = (raced \/ Restoring)
  /\ UNCHANGED <<nextIndex, inFlight, shipped>>
  /\ shipUnchanged

ShipTerm ==
  /\ ship.pc = "term"
  /\ ship' = [ship EXCEPT !.pc = "data", !.term = LogTermAt(log, ship.idx)]
  /\ UNCHANGED <<nextIndex, inFlight, shipped, raced>>
  /\ shipUnchanged

\* SerializeSnapshot; if it fails the attempt is over.
ShipData ==
  /\ ship.pc = "data"
  /\ ship' = [ship EXCEPT !.pc = "send", !.data = store] \/ ship' = NoShip
  /\ UNCHANGED <<nextIndex, inFlight, shipped, raced>>
  /\ shipUnchanged

\* Another call went out meanwhile: the snapshot is thrown away.
ShipSkip ==
  /\ ship.pc = "send" /\ inFlight
  /\ ship' = NoShip
  /\ UNCHANGED <<nextIndex, inFlight, shipped, raced>>
  /\ shipUnchanged

\* Variant: the index is read when the request is built.
ShipSendLate ==
  /\ ship.pc = "send" /\ ~inFlight
  /\ ship' = [ship EXCEPT !.pc = "sent", !.idx = lastApplied, !.reqTerm = term,
                          !.reqRole = role]
  /\ inFlight' = TRUE
  /\ UNCHANGED <<nextIndex, shipped, raced>>
  /\ shipUnchanged

ShipSend ==
  /\ ship.pc = "send" /\ ~inFlight
  /\ ship' = [ship EXCEPT !.pc = "sent", !.reqTerm = term, !.reqRole = role]
  /\ inFlight' = TRUE
  /\ UNCHANGED <<nextIndex, shipped, raced>>
  /\ shipUnchanged

\* The call fails, or the answer is a refusal of this or of an older term.
ShipLost ==
  /\ ship.pc = "sent"
  /\ ship' = NoShip
  /\ inFlight' = FALSE
  /\ UNCHANGED <<nextIndex, shipped, raced>>
  /\ shipUnchanged

\* The peer has seen a newer term.
ShipRefused ==
  /\ ship.pc = "sent" /\ clusterTerm > term
  /\ ship' = NoShip
  /\ inFlight' = FALSE
  /\ FollowCluster
  /\ UNCHANGED <<log, commitIndex, dirty, disk, loopVars, proposals, installVars, compactor,
                 nextIndex, shipped, clusterVars, faultVars, historyVars>>

\* Variant: one entry too many is taken for replicated.
ShipAckedTooFar ==
  /\ ship.pc = "sent" /\ ship.reqTerm = term
  /\ ship' = NoShip
  /\ inFlight' = FALSE
  /\ nextIndex' = Raised(nextIndex, ship.idx + 2)
  /\ UNCHANGED <<shipped, raced>>
  /\ shipUnchanged

\* Success at the current term.  maybeCommit finds nothing: what the peer now
\* holds is applied, hence committed, on this node.
ShipAcked ==
  /\ ship.pc = "sent" /\ ship.reqTerm = term
  /\ ship' = NoShip
  /\ inFlight' = FALSE
  /\ nextIndex' = Raised(nextIndex, ship.idx + 1)
  /\ UNCHANGED <<shipped, raced>>
  /\ shipUnchanged

(***************************************************************************)
(* A crash, and SetRaftStore and StartApply on the way up: the base is     *)
(* taken for applied and committed, and the store is as it was.            *)
(***************************************************************************)
\* Variant: the whole log is taken for applied.
RestoredAtEnd(l) == LastLogIndex(l)

\* commitIndex and lastApplied after SetRaftStore.
RestoredIndex(l) == l.base

CrashAndRestart ==
  /\ EventsLeft
  /\ crashes' = crashes + 1
  /\ role' = "follower"
  /\ log' = disk
  /\ commitIndex' = RestoredIndex(disk)
  /\ lastApplied' = RestoredIndex(disk)
  /\ dirty' = FALSE
  /\ loop' = AtTop
  /\ proposals' = {}
  /\ installs' = {}
  /\ compactor' = Unread
  /\ ship' = NoShip
  /\ nextIndex' = 1
  /\ inFlight' = FALSE
  /\ origin' = [idx |-> RestoredIndex(disk), data |-> store]
  /\ UNCHANGED <<term, disk, store, raced, received, shipped, clusterVars, saveFailures,
                 storeErrors, cuts, mislabelled, lacking>>

Next ==
  \/ ElectOther \/ CommitElsewhere \/ BecomeLeader \/ StepDown \/ HandleAppendEntries
  \/ MaybeCommit \/ PersistElsewhere
  \/ ProposeWait
  \/ \E p \in proposals : \/ ProposalSaved(p) \/ ProposalUnsaved(p)
                          \/ ProposalAnswered(p) \/ ProposalTimesOut(p)
  \/ Pick \/ Recheck \/ Skip \/ ApplyCmd \/ Raise \/ Notify
  \/ HandleInstallSnapshot
  \/ \E h \in installs : Restore(h) \/ InstallSaved(h)
  \/ CompactorTick \/ CompactorStore \/ CompactLog \/ Flush
  \/ AppendCall \/ ShipStart \/ ShipIndex \/ ShipTerm \/ ShipData \/ ShipSkip \/ ShipSend
  \/ ShipLost \/ ShipRefused \/ ShipAcked
  \/ CrashAndRestart

Spec == Init /\ [][Next]_vars

(***************************************************************************)
(* Properties.                                                             *)
(***************************************************************************)
\* Every variable keeps its shape through the steps of all goroutines.
TypeOK ==
  /\ role \in {"leader", "follower"}
  /\ {term, clusterTerm} \subseteq 0..MaxTerm
  /\ log \in NodeLog /\ disk \in NodeLog
  /\ {commitIndex, lastApplied} \subseteq Index
  /\ {dirty, inFlight, raced, mislabelled, lacking} \subseteq BOOLEAN
  /\ origin \in [idx: Index, data: Seq(1..MaxLog)]
  /\ store \in Seq(1..MaxLog)
  /\ loop \in [pc: {"top", "picked", "missing", "write", "raise", "skip", "tell", "notify"},
               idx: Index, result: Result]
  /\ proposals \subseteq [idx: Index, term: Nat, pc: {"saving", "waiting"}, got: Result]
  /\ installs \subseteq [idx: Index, data: Seq(1..MaxLog), stage: {"restore", "save"}]
  /\ compactor \in [pc: {"idle", "term", "trim", "flush"}, idx: Index, term: Int]
  /\ ship \in [pc: {"idle", "index", "term", "data", "send", "sent"}, idx: Index, term: Int,
               data: Seq(1..MaxLog), reqTerm: Nat, reqRole: {"none", "leader", "follower"}]
  /\ nextIndex \in 1..(MaxLog + 1)
  /\ chosen \in Seq(Nat) /\ Len(chosen) <= MaxLog

\* The compaction base passes neither lastApplied nor the commit index, and the
\* saved base not the one in memory, whatever order the apply loop, the compactor
\* and HandleInstallSnapshot run in: a restart never takes entries for applied that
\* were not when the base was saved.  Unless a request has cut the log below the
\* commit index, lastApplied is within it and it within the log, so that the loop
\* finds the entry it picks.
IndexesInOrder ==
  /\ disk.base <= log.base
  /\ log.base <= lastApplied /\ log.base <= commitIndex
  /\ cuts = 0 => lastApplied <= commitIndex /\ commitIndex <= LastLogIndex(log)

\* What the node takes for committed was chosen, and the entries it has up to
\* there are the chosen ones, cut or not.  Unless a snapshot came with another term
\* or the log was compacted after a cut, the term of the base is the term of the
\* entry it stands for: the one that the compactor read before the store was
\* compacted is never another entry's.
CommittedIsChosen ==
  /\ {commitIndex, lastApplied} \subseteq 0..Len(chosen)
  /\ AgreesUpTo(commitIndex)
  /\ log.base > 0 /\ ~mislabelled => log.baseTerm = chosen[log.base]

\* No write to the store has failed, nothing ran between the halves of an install,
\* and no entry was skipped or missing from a snapshot that was received.
Intact == storeErrors = 0 /\ ~raced /\ ~lacking

\* Since the last restart or installed snapshot the loop has applied the entries
\* that followed, up to lastApplied, each exactly once and in order (applyLoop);
\* the one being applied is included.
AppliedOnceInOrder ==
  Intact /\ ~Restoring =>
    store = origin.data \o
              Run(origin.idx, IF loop.pc = "raise" THEN loop.idx ELSE lastApplied)

\* A restart applies again what was applied after the saved base, and a snapshot
\* may bring entries that the loop will apply again.  At every moment of this, each
\* entry up to lastApplied is in the store and no older one was applied after its
\* last application: overwriting commands leave the state they left the first time
\* ("recovers idempotently", startSnapshotCompactor and HandleInstallSnapshot).
ReplayConverges == Intact /\ ~Restoring => Replays(store, lastApplied)

\* A crash at any point loses nothing: what the raft file takes for applied is in
\* the store, later entries not undone by earlier ones (the order of Compact,
\* CompactLog and Flush in the compactor, and of ApplySnapshot and persist in
\* HandleInstallSnapshot).
BaseIsBacked == Intact => Replays(store, disk.base)

\* A caller of proposeWait whose own entry was chosen is never handed the value
\* of another command.
OwnValueWhenChosen ==
  \A p \in proposals :
    p.got.kind = "value" /\ p.idx <= Len(chosen) /\ chosen[p.idx] = p.term
      => p.got.idx = p.idx /\ p.got.term = p.term

\* The data of a snapshot that is sent is never behind the index it is sent
\* under: the bridge reads the index before the data.  A receiver can go on from
\* it, which is what the receiving side of this module asks of the data it gets.
ShippedCoversIndex ==
  ship.pc \in {"send", "sent"} /\ Intact => Replays(ship.data, ship.idx)

(***************************************************************************)
(* What the comments of the code promise beyond this.  None of these       *)
(* holds; the README says what TLC finds.                                  *)
(***************************************************************************)
\* "exactly once and in order" (apply.go:12), across restarts too.
AppliedOnce == Len(store) = Cardinality(Occurring(store))

\* "a restore can never interleave with an apply and resurrect an older value
\* after the restore" (apply.go:139): what was applied stays in the store.
RestoreKeepsApplied ==
  crashes = 0 /\ storeErrors = 0 /\ ~lacking /\ ~Restoring =>
    1..lastApplied \subseteq Occurring(store)

\* "Persist the new compaction base AFTER the snapshot data is durable"
\* (snapshot.go:193), by whichever handler the base is saved.
BaseSavedAfterData ==
  storeErrors = 0 /\ ~lacking => 1..disk.base \subseteq Occurring(store)

\* "the caller learns the deterministic outcome of Incr/CAS/Expire"
\* (leader.go:174): the outcome of its own command, and not of another one.
OwnResult == \A p \in proposals : p.got.kind = "value" => p.got.term = p.term

\* Incr and CAS assert the type of the result (leader.go:89, 99): there is one.
ResultHasValue == \A p \in proposals : p.got.kind # "none"

\* "installSnapshot sends the leader's current snapshot" (snapshot.go:70).
SentByLeader == ship.pc = "sent" => ship.reqRole = "leader"

\* "the serialized state machine at that point" (snapshot.go:10).
SnapshotIsAtIndex ==
  ship.pc = "sent" /\ crashes = 0 /\ received = 0 /\ Intact => ship.data = Run(0, ship.idx)

\* LogTerm falls "back to the compaction base's term for indexes at or below the
\* base" (apply.go:88): a snapshot is never sent without a term.
SnapshotHasTerm == ship.pc = "sent" /\ cuts = 0 /\ ~mislabelled => ship.term >= 0

\* A log goes up in term from its base on, so that the vote rule compares what
\* the node really holds (election.go).
InstalledLogAscends == ~mislabelled => TermsAscend(log)

\* "Already compacted into a snapshot and applied from it" (apply.go:153): the
\* entry that the loop did not find is one that the base covers.
SkippedIsCompacted == loop.pc = "skip" => loop.idx <= log.base
=============================================================================
