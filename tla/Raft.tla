--------------------------------- MODULE Raft ---------------------------------
(***************************************************************************)
(* A cluster of raft.Node processes (pkg/raft): elections, vote and        *)
(* AppendEntries handlers, leader-side replication, commit, and the saving *)
(* of raft state to disk, with crashes, failed saves, lost calls and       *)
(* requests that are handled after their caller has given up.              *)
(*                                                                         *)
(* The code runs many goroutines per node under one mutex n.mu.  An action *)
(* here is one critical section of n.mu, so every point where a handler    *)
(* unlocks (to save, or to wait for a peer) is a point where the others    *)
(* may run.  An RPC is one record that moves through the stages "sent"     *)
(* (the handler has not run), "saving" (the handler has decided and is     *)
(* about to call persist), "unsaved" (persist returned an error),          *)
(* "replied" and "lost".  Its field "live" says                           *)
(* whether the calling goroutine still waits for it; a call that is no     *)
(* longer live may still be handled, but its answer goes nowhere.          *)
(***************************************************************************)
EXTENDS RaftLog, FiniteSets

CONSTANTS
  Node,             \* the cluster members
  Nil,              \* the nil pointer: no vote, no known leader
  MaxTerm,          \* bound: no election is started at this term or above
  MaxLog,           \* bound: no proposal extends a log to more than this index
  MaxCrashes,       \* bound: crashes and restarts
  MaxSaveFailures,  \* bound: calls of RaftStore.Save that return an error
  MaxStray,         \* bound: requests handled outside a waiting call
  MaxAppendCalls    \* bound: no AppendEntries is sent while this many are under way

\* A node without peers skips raft altogether (NewNode makes it leader at once).
ASSUME NodeAssumption == IsFiniteSet(Node) /\ Cardinality(Node) > 1 /\ Nil \notin Node
ASSUME BoundsAssumption ==
  {MaxTerm, MaxLog, MaxCrashes, MaxSaveFailures, MaxStray, MaxAppendCalls} \subseteq Nat

VARIABLES
  role, term, votedFor, leaderID, dirty,   \* Node fields of the same name
  log, commitIndex,                        \* Node fields; log is a RaftLog value
  disk,                                    \* RaftState last saved by each node
  hasRepl, nextIndex, matchIndex, inFlight, backoff, \* Node.repl, nil until hasRepl
  election,                                \* where the Loop goroutine is in startElection
  proposing,                               \* entries appended by propose, persist pending
  voteCalls, appendCalls,                  \* RequestVote and AppendEntries RPCs
  elected,                                 \* history: <<node, term>> of each becomeLeader
  acked,                                   \* history: <<index, term>> a client was told is written
  crashes, saveFailures, strays            \* bound counters

serverVars == <<role, term, votedFor, leaderID, dirty>>
logVars == <<log, commitIndex>>
replVars == <<hasRepl, nextIndex, matchIndex, inFlight, backoff>>
callVars == <<voteCalls, appendCalls>>
clientVars == <<proposing, acked>>
boundVars == <<crashes, saveFailures, strays>>
vars == <<serverVars, logVars, disk, replVars, election, clientVars, callVars, elected, boundVars>>

(***************************************************************************)
(* State.                                                                  *)
(***************************************************************************)
Role == {"follower", "candidate", "leader"}
RaftState == [term: Nat, votedFor: Node \cup {Nil}, log: Log]

\* What persist writes: the durable subset of a node's memory.
Durable(i) == [term |-> term[i], votedFor |-> votedFor[i], log |-> log[i]]

\* startElection between its unlocks: idle, about to persist the candidacy,
\* collecting answers, or about to persist a step-down.
Phase == {"idle", "save", "collect", "stepdown"}
Idle == [phase |-> "idle", term |-> 0, lastLogIndex |-> 0, lastLogTerm |-> 0, granted |-> {}]
Election == [phase: Phase, term: Nat, lastLogIndex: Nat, lastLogTerm: Nat, granted: SUBSET Node]

Stage == {"sent", "saving", "unsaved", "replied", "lost"}
VoteCall == [src: Node, dst: Node, term: Nat, lastLogIndex: Nat, lastLogTerm: Nat,
             stage: Stage, live: BOOLEAN, respTerm: Nat, granted: BOOLEAN]
AppendCall == [src: Node, dst: Node, term: Nat, prevLogIndex: Nat, prevLogTerm: Int,
               entries: Seq(Entry), leaderCommit: Nat,
               stage: Stage, live: BOOLEAN, respTerm: Nat, success: BOOLEAN]

Peers(i) == Node \ {i}

\* Variant: half of an odd cluster is enough.
HalfOfCluster == Cardinality(Node) \div 2

Majority == Cardinality(Node) \div 2 + 1

Init ==
  /\ role = [i \in Node |-> "follower"]
  /\ term = [i \in Node |-> 0]
  /\ votedFor = [i \in Node |-> Nil]
  /\ leaderID = [i \in Node |-> Nil]
  /\ dirty = [i \in Node |-> FALSE]
  /\ log = [i \in Node |-> EmptyLog]
  /\ commitIndex = [i \in Node |-> 0]
  /\ disk = [i \in Node |-> [term |-> 0, votedFor |-> Nil, log |-> EmptyLog]]
  /\ hasRepl = [i \in Node |-> FALSE]
  /\ nextIndex = [i \in Node |-> [j \in Node |-> 0]]
  /\ matchIndex = [i \in Node |-> [j \in Node |-> 0]]
  /\ inFlight = [i \in Node |-> [j \in Node |-> FALSE]]
  /\ backoff = [i \in Node |-> [j \in Node |-> 0]]
  /\ election = [i \in Node |-> Idle]
  /\ proposing = [i \in Node |-> {}]
  /\ voteCalls = {}
  /\ appendCalls = {}
  /\ elected = {}
  /\ acked = {}
  /\ crashes = 0
  /\ saveFailures = 0
  /\ strays = 0

(***************************************************************************)
(* The transitions of types.go and persist.                                *)
(***************************************************************************)
BecomeCandidate(i) ==
  /\ role' = [role EXCEPT ![i] = "candidate"]
  /\ term' = [term EXCEPT ![i] = @ + 1]
  /\ votedFor' = [votedFor EXCEPT ![i] = i]
  /\ leaderID' = [leaderID EXCEPT ![i] = Nil]
  /\ dirty' = [dirty EXCEPT ![i] = TRUE]

BecomeLeader(i) ==
  /\ role' = [role EXCEPT ![i] = "leader"]
  /\ leaderID' = [leaderID EXCEPT ![i] = i]
  /\ elected' = elected \cup {<<i, term[i]>>}
  /\ UNCHANGED <<term, votedFor, dirty>>

\* Variant: the new term is not marked for saving.
BecomeFollowerClean(i, t, l) ==
  /\ role' = [role EXCEPT ![i] = "follower"]
  /\ term' = [term EXCEPT ![i] = t]
  /\ votedFor' = [votedFor EXCEPT ![i] = Nil]
  /\ leaderID' = [leaderID EXCEPT ![i] = l]
  /\ UNCHANGED dirty

\* Variant: the leader of the old term is remembered.
BecomeFollowerOfOldLeader(i, t, l) ==
  /\ role' = [role EXCEPT ![i] = "follower"]
  /\ term' = [term EXCEPT ![i] = t]
  /\ votedFor' = [votedFor EXCEPT ![i] = Nil]
  /\ leaderID' = [leaderID EXCEPT ![i] = IF l = Nil THEN @ ELSE l]
  /\ dirty' = [dirty EXCEPT ![i] = TRUE]

BecomeFollower(i, t, l) ==
  /\ role' = [role EXCEPT ![i] = "follower"]
  /\ term' = [term EXCEPT ![i] = t]
  /\ votedFor' = [votedFor EXCEPT ![i] = Nil]
  /\ leaderID' = [leaderID EXCEPT ![i] = l]
  /\ dirty' = [dirty EXCEPT ![i] = TRUE]

\* persist returning nil: nothing is written unless something changed.
Persist(i) ==
  /\ disk' = IF dirty[i] THEN [disk EXCEPT ![i] = Durable(i)] ELSE disk
  /\ dirty' = [dirty EXCEPT ![i] = FALSE]
  /\ UNCHANGED saveFailures

\* persist returning an error: Save failed before the rename (the old file
\* stays) or after it (the new file is in place, dirty stays set).
PersistFails(i) ==
  /\ dirty[i]
  /\ saveFailures < MaxSaveFailures
  /\ saveFailures' = saveFailures + 1
  /\ disk' \in {disk, [disk EXCEPT ![i] = Durable(i)]}
  /\ UNCHANGED dirty

(***************************************************************************)
(* RPCs.  A handler's answer reaches the caller only while it waits.       *)
(***************************************************************************)
AnswerVote(c, t, g) ==
  voteCalls' = (voteCalls \ {c}) \cup
    IF c.live THEN {[c EXCEPT !.stage = "replied", !.respTerm = t, !.granted = g]} ELSE {}

AnswerAppend(c, t, ok) ==
  appendCalls' = (appendCalls \ {c}) \cup
    IF c.live THEN {[c EXCEPT !.stage = "replied", !.respTerm = t, !.success = ok]} ELSE {}

\* Calls whose sender no longer waits: only unhandled and half-handled
\* requests matter any more.
Abandoned(calls) ==
  {[c EXCEPT !.live = FALSE] : c \in {d \in calls : d.stage \in {"sent", "saving"}}}

From(calls, i) == {c \in calls : c.src = i}

\* Nobody waits for the calls of i any more: startElection has returned (late votes
\* land in a channel nobody reads), or the process has died.
AbandonCalls(calls, i) == (calls \ From(calls, i)) \cup Abandoned(From(calls, i))

(***************************************************************************)
(* startElection: candidacy, persist, fan-out, tally, decision.            *)
(***************************************************************************)
StartElection(i) ==
  /\ election[i].phase = "idle"
  /\ role[i] # "leader"
  /\ term[i] < MaxTerm
  /\ BecomeCandidate(i)
  /\ election' = [election EXCEPT ![i] =
       [phase |-> "save", term |-> term[i] + 1, lastLogIndex |-> LastLogIndex(log[i]),
        lastLogTerm |-> LastLogTerm(log[i]), granted |-> {}]]
  /\ UNCHANGED <<logVars, disk, replVars, clientVars, callVars, elected, boundVars>>

VoteRequests(i) ==
  {[src |-> i, dst |-> j, term |-> election[i].term,
    lastLogIndex |-> election[i].lastLogIndex, lastLogTerm |-> election[i].lastLogTerm,
    stage |-> "sent", live |-> TRUE, respTerm |-> 0, granted |-> FALSE] : j \in Peers(i)}

\* Variant: votes are asked for before the candidacy is saved.
CampaignUnsaved(i) ==
  /\ election[i].phase = "save"
  /\ election' = [election EXCEPT ![i].phase = "collect"]
  /\ voteCalls' = voteCalls \cup VoteRequests(i)
  /\ UNCHANGED <<serverVars, logVars, disk, replVars, clientVars, appendCalls, elected, boundVars>>

Campaign(i) ==
  /\ election[i].phase = "save"
  /\ Persist(i)
  /\ election' = [election EXCEPT ![i].phase = "collect"]
  /\ voteCalls' = voteCalls \cup VoteRequests(i)
  /\ UNCHANGED <<role, term, votedFor, leaderID, logVars, replVars, clientVars,
                 appendCalls, elected, crashes, strays>>

\* The election is dropped, but the node stays a candidate at the new term.
CampaignNotSaved(i) ==
  /\ election[i].phase = "save"
  /\ PersistFails(i)
  /\ election' = [election EXCEPT ![i] = Idle]
  /\ UNCHANGED <<role, term, votedFor, leaderID, logVars, replVars, clientVars,
                 callVars, elected, crashes, strays>>

HasQuorum(i) == Cardinality(election[i].granted) + 1 >= Majority

\* One answer taken from the results channel.
TallyVote(c) ==
  LET i == c.src IN
  /\ c.stage = "replied" /\ c.live
  /\ election[i].phase = "collect" /\ ~HasQuorum(i)
  /\ c.respTerm <= term[i]
  /\ election' = [election EXCEPT ![i].granted = IF c.granted THEN @ \cup {c.dst} ELSE @]
  /\ voteCalls' = voteCalls \ {c}
  /\ UNCHANGED <<serverVars, logVars, disk, replVars, clientVars, appendCalls, elected, boundVars>>

HigherTermVote(c) ==
  LET i == c.src IN
  /\ c.stage = "replied" /\ c.live
  /\ election[i].phase = "collect" /\ ~HasQuorum(i)
  /\ c.respTerm > term[i]
  /\ BecomeFollower(i, c.respTerm, Nil)
  /\ election' = [election EXCEPT ![i] = [Idle EXCEPT !.phase = "stepdown"]]
  /\ voteCalls' = AbandonCalls(voteCalls, i)
  /\ UNCHANGED <<logVars, disk, replVars, clientVars, appendCalls, elected, boundVars>>

\* startElection ignores the error of this persist.
StepDownSaved(i) ==
  /\ election[i].phase = "stepdown"
  /\ Persist(i) \/ PersistFails(i)
  /\ election' = [election EXCEPT ![i] = Idle]
  /\ UNCHANGED <<role, term, votedFor, leaderID, logVars, replVars, clientVars,
                 callVars, elected, crashes, strays>>

\* Variant: only a quorum ends the tally.
TallyNeedsQuorum(i) ==
  /\ election[i].phase = "collect"
  /\ HasQuorum(i)
  /\ election' = [election EXCEPT ![i] = Idle]
  /\ voteCalls' = AbandonCalls(voteCalls, i)
  /\ UNCHANGED <<logVars, disk, replVars, clientVars, appendCalls, boundVars>>

\* The tally is over: a quorum, or every call has answered or failed.
TallyDone(i) ==
  /\ election[i].phase = "collect"
  /\ HasQuorum(i) \/ ~\E c \in From(voteCalls, i) : c.live
  /\ election' = [election EXCEPT ![i] = Idle]
  /\ voteCalls' = AbandonCalls(voteCalls, i)
  /\ UNCHANGED <<logVars, disk, replVars, clientVars, appendCalls, boundVars>>

WinElection(i) ==
  /\ TallyDone(i)
  /\ HasQuorum(i) /\ role[i] = "candidate" /\ term[i] = election[i].term
  /\ BecomeLeader(i)

\* The losing branch steps down at whatever the term is by now.
LoseElection(i) ==
  /\ TallyDone(i)
  /\ ~(HasQuorum(i) /\ role[i] = "candidate" /\ term[i] = election[i].term)
  /\ BecomeFollower(i, term[i], Nil)
  /\ UNCHANGED elected

\* Loop, after a round of heartbeats: lastQuorumAck is older than
\* electionTimeoutMin.  Time is not modelled, so any leader may find it so.
LoseQuorumContact(i) ==
  /\ role[i] = "leader"
  /\ BecomeFollower(i, term[i], Nil)
  /\ UNCHANGED <<logVars, disk, replVars, election, clientVars, callVars, elected, boundVars>>

(***************************************************************************)
(* HandleRequestVote at c.dst.                                             *)
(***************************************************************************)
LogFresh(c) == AtLeastAsFresh(c.lastLogTerm, c.lastLogIndex, log[c.dst])

VoteStaleTerm(c) ==
  /\ c.term < term[c.dst]
  /\ AnswerVote(c, term[c.dst], FALSE)
  /\ UNCHANGED serverVars

VoteAgain(c) ==
  /\ c.term = term[c.dst]
  /\ ~(votedFor[c.dst] \in {Nil, c.src} /\ LogFresh(c))
  /\ AnswerVote(c, c.term, FALSE)
  /\ UNCHANGED serverVars

\* A higher term with a stale log: the term is adopted in memory, and the
\* answer carries it, without a persist.
VoteStaleLog(c) ==
  /\ c.term > term[c.dst]
  /\ ~LogFresh(c)
  /\ BecomeFollower(c.dst, c.term, Nil)
  /\ AnswerVote(c, c.term, FALSE)

\* The grant is decided; the answer waits for persist.
GrantVote(c) ==
  LET j == c.dst
      higher == c.term > term[j]
  IN
  /\ c.term >= term[j]
  /\ higher \/ votedFor[j] \in {Nil, c.src}
  /\ LogFresh(c)
  /\ role' = IF higher THEN [role EXCEPT ![j] = "follower"] ELSE role
  /\ term' = [term EXCEPT ![j] = c.term]
  /\ leaderID' = IF higher THEN [leaderID EXCEPT ![j] = Nil] ELSE leaderID
  /\ votedFor' = [votedFor EXCEPT ![j] = c.src]
  /\ dirty' = [dirty EXCEPT ![j] = TRUE]
  /\ voteCalls' = (voteCalls \ {c}) \cup
       {[c EXCEPT !.stage = "saving", !.respTerm = c.term, !.granted = TRUE]}

HandleRequestVote(c) ==
  /\ c.stage = "sent"
  /\ VoteStaleTerm(c) \/ VoteAgain(c) \/ VoteStaleLog(c) \/ GrantVote(c)
  /\ UNCHANGED <<logVars, disk, replVars, election, clientVars, appendCalls, elected, boundVars>>

\* Variant: the error of persist is ignored.
SaveVoteAnyway(c) ==
  /\ c.stage = "saving"
  /\ Persist(c.dst) \/ PersistFails(c.dst)
  /\ AnswerVote(c, c.respTerm, TRUE)
  /\ UNCHANGED <<role, term, votedFor, leaderID, logVars, replVars, election, clientVars,
                 appendCalls, elected, crashes, strays>>

\* The second half of a grant: persist, then the answer.
SaveVote(c) ==
  /\ c.stage = "saving"
  /\ \/ Persist(c.dst) /\ AnswerVote(c, c.respTerm, TRUE)
     \/ /\ PersistFails(c.dst)
        /\ voteCalls' = (voteCalls \ {c}) \cup {[c EXCEPT !.stage = "unsaved"]}
  /\ UNCHANGED <<role, term, votedFor, leaderID, logVars, replVars, election, clientVars,
                 appendCalls, elected, crashes, strays>>

\* The refusal carries the term found by an unlocked read after persist.
RefuseUnsavedVote(c) ==
  /\ c.stage = "unsaved"
  /\ AnswerVote(c, term[c.dst], FALSE)
  /\ UNCHANGED <<serverVars, logVars, disk, replVars, election, clientVars, appendCalls,
                 elected, boundVars>>

(***************************************************************************)
(* HandleAppendEntries at c.dst.                                           *)
(***************************************************************************)
AppendStaleTerm(c) ==
  /\ c.term < term[c.dst]
  /\ AnswerAppend(c, term[c.dst], FALSE)
  /\ UNCHANGED <<serverVars, logVars>>

\* The first half of every request at or above the node's term.
FollowSender(c) ==
  LET j == c.dst
      stepsDown == c.term > term[j] \/ role[j] # "follower"
  IN
  /\ c.term >= term[j]
  /\ role' = [role EXCEPT ![j] = "follower"]
  /\ term' = [term EXCEPT ![j] = c.term]
  /\ votedFor' = IF stepsDown THEN [votedFor EXCEPT ![j] = Nil] ELSE votedFor
  /\ leaderID' = [leaderID EXCEPT ![j] = c.src]

FollowDirties(c) == c.term > term[c.dst] \/ role[c.dst] # "follower"

\* No persist here either, although the term may be new.
AppendMismatch(c) ==
  /\ FollowSender(c)
  /\ ~CheckPrevLog(log[c.dst], c.prevLogIndex, c.prevLogTerm)
  /\ dirty' = [dirty EXCEPT ![c.dst] = @ \/ FollowDirties(c)]
  /\ AnswerAppend(c, c.term, FALSE)
  /\ UNCHANGED logVars

CommitAtFollower(c, l) ==
  IF c.leaderCommit > commitIndex[c.dst]
  THEN Min({c.leaderCommit, LastLogIndex(l)}) ELSE commitIndex[c.dst]

\* The entries are merged in memory; a change is persisted before the answer,
\* a request that changes nothing is answered at once.
AppendMatch(c) ==
  LET j == c.dst
      l == MergeEntries(log[j], c.prevLogIndex, c.entries)
      changed == \/ MergeChanges(log[j], c.prevLogIndex, c.entries)
                 \/ c.leaderCommit > commitIndex[j]
  IN
  /\ FollowSender(c)
  /\ CheckPrevLog(log[j], c.prevLogIndex, c.prevLogTerm)
  /\ log' = [log EXCEPT ![j] = l]
  /\ commitIndex' = [commitIndex EXCEPT ![j] = CommitAtFollower(c, l)]
  /\ dirty' = [dirty EXCEPT ![j] = @ \/ FollowDirties(c) \/ changed]
  /\ IF changed
     THEN appendCalls' = (appendCalls \ {c}) \cup
            {[c EXCEPT !.stage = "saving", !.respTerm = c.term, !.success = TRUE]}
     ELSE AnswerAppend(c, c.term, TRUE)

HandleAppendEntries(c) ==
  /\ c.stage = "sent"
  /\ AppendStaleTerm(c) \/ AppendMismatch(c) \/ AppendMatch(c)
  /\ UNCHANGED <<disk, replVars, election, clientVars, voteCalls, elected, boundVars>>

SaveAppend(c) ==
  /\ c.stage = "saving"
  /\ \/ Persist(c.dst) /\ AnswerAppend(c, c.respTerm, TRUE)
     \/ /\ PersistFails(c.dst)
        /\ appendCalls' = (appendCalls \ {c}) \cup {[c EXCEPT !.stage = "unsaved"]}
  /\ UNCHANGED <<role, term, votedFor, leaderID, logVars, replVars, election, clientVars,
                 voteCalls, elected, crashes, strays>>

RefuseUnsavedAppend(c) ==
  /\ c.stage = "unsaved"
  /\ AnswerAppend(c, term[c.dst], FALSE)
  /\ UNCHANGED <<serverVars, logVars, disk, replVars, election, clientVars, voteCalls,
                 elected, boundVars>>

(***************************************************************************)
(* propose on the leader: append, persist, then return to the client.      *)
(***************************************************************************)
Propose(i, cmd) ==
  /\ role[i] = "leader"
  /\ LastLogIndex(log[i]) < MaxLog
  /\ log' = [log EXCEPT ![i] = AppendEntry(@, [term |-> term[i], cmd |-> cmd])]
  /\ dirty' = [dirty EXCEPT ![i] = TRUE]
  /\ proposing' = [proposing EXCEPT ![i] = @ \cup {<<LastLogIndex(log[i]) + 1, term[i]>>}]
  /\ UNCHANGED <<role, term, votedFor, leaderID, commitIndex, disk, replVars, election, acked,
                 callVars, elected, boundVars>>

\* Success goes to the client at once; replication is left to goroutines.
ProposeSaved(i, p) ==
  /\ p \in proposing[i]
  /\ Persist(i)
  /\ proposing' = [proposing EXCEPT ![i] = @ \ {p}]
  /\ acked' = acked \cup {p}
  /\ UNCHANGED <<role, term, votedFor, leaderID, logVars, replVars, election,
                 callVars, elected, crashes, strays>>

\* The client gets an error, the entry stays in the leader's memory.
ProposeNotSaved(i, p) ==
  /\ p \in proposing[i]
  /\ PersistFails(i)
  /\ proposing' = [proposing EXCEPT ![i] = @ \ {p}]
  /\ UNCHANGED <<role, term, votedFor, leaderID, logVars, replVars, election, acked,
                 callVars, elected, crashes, strays>>

(***************************************************************************)
(* replicateToPeer: at most one AppendEntries per peer at a time.  The     *)
(* goroutines of heartbeats, of proposals and of immediate retries all     *)
(* start here, so a leader may send whenever nothing is in flight.         *)
(***************************************************************************)
maxReplBackoff == 64

\* replState creates the bookkeeping once per process, at the first use.
NextOf(i) ==
  IF hasRepl[i] THEN nextIndex[i]
  ELSE [j \in Node |-> IF j = i THEN 0 ELSE LastLogIndex(log[i]) + 1]

AppendRequest(i, j, next) ==
  [src |-> i, dst |-> j, term |-> term[i], prevLogIndex |-> next - 1,
   prevLogTerm |-> LogTermAt(log[i], next - 1), entries |-> EntriesFrom(log[i], next),
   leaderCommit |-> commitIndex[i],
   stage |-> "sent", live |-> TRUE, respTerm |-> 0, success |-> FALSE]

SendAppend(i, j) ==
  LET next == Max({1, NextOf(i)[j]}) IN
  /\ role[i] = "leader"
  /\ ~inFlight[i][j]
  /\ Cardinality(appendCalls) < MaxAppendCalls
  /\ next >= FirstIndex(log[i])
  /\ hasRepl' = [hasRepl EXCEPT ![i] = TRUE]
  /\ nextIndex' = [nextIndex EXCEPT ![i] = NextOf(i)]
  /\ inFlight' = [inFlight EXCEPT ![i][j] = TRUE]
  /\ appendCalls' = appendCalls \cup {AppendRequest(i, j, next)}
  /\ UNCHANGED <<serverVars, logVars, disk, matchIndex, backoff, election, clientVars,
                 voteCalls, elected, boundVars>>

\* Variant: the peer stays marked after the call is over.
KeepInFlight(c) == UNCHANGED inFlight

ClearInFlight(c) == inFlight' = [inFlight EXCEPT ![c.src][c.dst] = FALSE]

\* maybeCommit, given the match indexes m of the peers: the threshold is the
\* highest index that a majority has reached, the leader's own log included.
OnMajority(reached, x) == Cardinality({j \in Node : reached[j] >= x}) >= Majority

MayCommit(i, x) ==
  /\ role[i] = "leader"
  /\ x > commitIndex[i]
  /\ HasEntry(log[i], x) /\ EntryAt(log[i], x).term = term[i]

MaybeCommit(i, m) ==
  LET reached == [m EXCEPT ![i] = LastLogIndex(log[i])] IN
  \E k \in Node :
    /\ OnMajority(reached, reached[k])
    /\ \A j \in Node : OnMajority(reached, reached[j]) => reached[j] <= reached[k]
    /\ commitIndex' = [commitIndex EXCEPT ![i] = IF MayCommit(i, reached[k]) THEN reached[k] ELSE @]

\* The four ways replicateToPeer goes on once the answer is there.
AnswerHigherTerm(c) ==
  /\ c.respTerm > term[c.src]
  /\ BecomeFollower(c.src, c.respTerm, Nil)
  /\ UNCHANGED <<commitIndex, nextIndex, matchIndex, backoff>>

AnswerOldTerm(c) ==
  /\ c.respTerm < term[c.src]
  /\ UNCHANGED <<serverVars, commitIndex, nextIndex, matchIndex, backoff>>

AnswerRejected(c) ==
  LET i == c.src
      j == c.dst
      step == Max({1, backoff[i][j]})
  IN
  /\ c.respTerm = term[i] /\ ~c.success
  /\ nextIndex' = [nextIndex EXCEPT ![i][j] = Max({1, @ - step})]
  /\ backoff' = [backoff EXCEPT ![i][j] = IF step < maxReplBackoff THEN 2 * step ELSE @]
  /\ UNCHANGED <<serverVars, commitIndex, matchIndex>>

AnswerAccepted(c) ==
  LET i == c.src
      j == c.dst
      matched == c.prevLogIndex + Len(c.entries)
  IN
  /\ c.respTerm = term[i] /\ c.success
  /\ backoff' = [backoff EXCEPT ![i][j] = 0]
  /\ matchIndex' = [matchIndex EXCEPT ![i][j] = Max({@, matched})]
  /\ nextIndex' = [nextIndex EXCEPT ![i][j] = Max({@, matched + 1})]
  /\ MaybeCommit(i, matchIndex'[i])
  /\ UNCHANGED serverVars

AppendAnswer(c) ==
  /\ c.stage = "replied" /\ c.live
  /\ AnswerHigherTerm(c) \/ AnswerOldTerm(c) \/ AnswerRejected(c) \/ AnswerAccepted(c)
  /\ ClearInFlight(c)
  /\ appendCalls' = appendCalls \ {c}
  /\ UNCHANGED <<log, disk, hasRepl, election, clientVars, voteCalls, elected, boundVars>>

(***************************************************************************)
(* Faults.  A call fails when its request or its answer is lost, or when   *)
(* it takes longer than raftRPCTimeout; a slow request is still handled.   *)
(***************************************************************************)
VoteCallFails(c) ==
  /\ c.live
  /\ \/ /\ c.stage \in {"sent", "unsaved", "replied", "lost"}
        /\ voteCalls' = voteCalls \ {c}
        /\ UNCHANGED strays
     \/ /\ strays < MaxStray
        /\ c.stage \in {"sent", "saving"}
        /\ voteCalls' = (voteCalls \ {c}) \cup {[c EXCEPT !.live = FALSE]}
        /\ strays' = strays + 1
  /\ UNCHANGED <<serverVars, logVars, disk, replVars, election, clientVars, appendCalls,
                 elected, crashes, saveFailures>>

AppendCallFails(c) ==
  /\ c.live
  /\ \/ /\ c.stage \in {"sent", "unsaved", "replied", "lost"}
        /\ appendCalls' = appendCalls \ {c}
        /\ UNCHANGED strays
     \/ /\ strays < MaxStray
        /\ c.stage \in {"sent", "saving"}
        /\ appendCalls' = (appendCalls \ {c}) \cup {[c EXCEPT !.live = FALSE]}
        /\ strays' = strays + 1
  /\ ClearInFlight(c)
  /\ UNCHANGED <<serverVars, logVars, disk, hasRepl, nextIndex, matchIndex, backoff, election,
                 clientVars, voteCalls, elected, crashes, saveFailures>>

\* A transport that delivers a request twice keeps only the second answer.
DuplicateRequest ==
  /\ strays < MaxStray
  /\ \/ /\ \E c \in voteCalls :
             c.live /\ c.stage = "sent" /\ voteCalls' = voteCalls \cup {[c EXCEPT !.live = FALSE]}
        /\ UNCHANGED appendCalls
     \/ /\ \E c \in appendCalls :
             c.live /\ c.stage = "sent" /\ appendCalls' = appendCalls \cup {[c EXCEPT !.live = FALSE]}
        /\ UNCHANGED voteCalls
  /\ strays' = strays + 1
  /\ UNCHANGED <<serverVars, logVars, disk, replVars, election, clientVars, elected,
                 crashes, saveFailures>>

\* The process dies: its calls are abandoned, the handlers it was running are
\* gone (a caller that still waits gets an error).
AfterCrash(calls, i) ==
  LET gone == {c \in calls : c.dst = i /\ c.stage \in {"saving", "unsaved"}}
  IN  AbandonCalls((calls \ gone) \cup
        {[c EXCEPT !.stage = "lost"] : c \in {d \in gone : d.live}}, i)

\* Variant: the saved term is not restored.
RestoreLogOnly(i) ==
  /\ term' = [term EXCEPT ![i] = 0]
  /\ votedFor' = [votedFor EXCEPT ![i] = disk[i].votedFor]
  /\ log' = [log EXCEPT ![i] = disk[i].log]
  /\ commitIndex' = [commitIndex EXCEPT ![i] = disk[i].log.base]

SetRaftStore(i) ==
  /\ term' = [term EXCEPT ![i] = disk[i].term]
  /\ votedFor' = [votedFor EXCEPT ![i] = disk[i].votedFor]
  /\ log' = [log EXCEPT ![i] = disk[i].log]
  /\ commitIndex' = [commitIndex EXCEPT ![i] = disk[i].log.base]

\* Crash, then NewNode and SetRaftStore: memory is rebuilt from the last Save.
Restart(i) ==
  /\ crashes < MaxCrashes
  /\ crashes' = crashes + 1
  /\ SetRaftStore(i)
  /\ role' = [role EXCEPT ![i] = "follower"]
  /\ leaderID' = [leaderID EXCEPT ![i] = Nil]
  /\ dirty' = [dirty EXCEPT ![i] = FALSE]
  /\ hasRepl' = [hasRepl EXCEPT ![i] = FALSE]
  /\ nextIndex' = [nextIndex EXCEPT ![i] = [j \in Node |-> 0]]
  /\ matchIndex' = [matchIndex EXCEPT ![i] = [j \in Node |-> 0]]
  /\ inFlight' = [inFlight EXCEPT ![i] = [j \in Node |-> FALSE]]
  /\ backoff' = [backoff EXCEPT ![i] = [j \in Node |-> 0]]
  /\ election' = [election EXCEPT ![i] = Idle]
  /\ proposing' = [proposing EXCEPT ![i] = {}]
  /\ voteCalls' = AfterCrash(voteCalls, i)
  /\ appendCalls' = AfterCrash(appendCalls, i)
  /\ UNCHANGED <<disk, acked, elected, saveFailures, strays>>

(***************************************************************************)
(* The specification.                                                      *)
(***************************************************************************)
NodeStep(i) ==
  \/ StartElection(i)
  \/ Campaign(i)
  \/ CampaignNotSaved(i)
  \/ StepDownSaved(i)
  \/ WinElection(i)
  \/ LoseElection(i)
  \/ LoseQuorumContact(i)
  \/ \E cmd \in Command : Propose(i, cmd)
  \/ \E p \in proposing[i] : ProposeSaved(i, p) \/ ProposeNotSaved(i, p)
  \/ \E j \in Peers(i) : SendAppend(i, j)
  \/ Restart(i)

VoteStep(c) ==
  \/ HandleRequestVote(c)
  \/ SaveVote(c)
  \/ RefuseUnsavedVote(c)
  \/ TallyVote(c)
  \/ HigherTermVote(c)
  \/ VoteCallFails(c)

AppendStep(c) ==
  \/ HandleAppendEntries(c)
  \/ SaveAppend(c)
  \/ RefuseUnsavedAppend(c)
  \/ AppendAnswer(c)
  \/ AppendCallFails(c)

Next ==
  \/ \E i \in Node : NodeStep(i)
  \/ \E c \in voteCalls : VoteStep(c)
  \/ \E c \in appendCalls : AppendStep(c)
  \/ DuplicateRequest

Spec == Init /\ [][Next]_vars

(***************************************************************************)
(* Fairness: goroutines that can run do run, Save returns, and every RPC   *)
(* ends, with an answer or with the timeout of raftRPCTimeout.             *)
(***************************************************************************)
EndVoteCall(i) ==
  \E c \in From(voteCalls, i) : TallyVote(c) \/ HigherTermVote(c) \/ VoteCallFails(c)

EndAppendCall(i, j) ==
  \E c \in From(appendCalls, i) : c.dst = j /\ (AppendAnswer(c) \/ AppendCallFails(c))

SaveForCaller(i, j) ==
  \/ \E c \in From(voteCalls, i) : c.dst = j /\ c.live /\ SaveVote(c)
  \/ \E c \in From(appendCalls, i) : c.dst = j /\ c.live /\ SaveAppend(c)

Fairness ==
  /\ \A i \in Node :
       /\ WF_vars(Campaign(i) \/ CampaignNotSaved(i))
       /\ WF_vars(StepDownSaved(i))
       /\ WF_vars(WinElection(i) \/ LoseElection(i))
       /\ WF_vars(EndVoteCall(i))
  /\ \A i, j \in Node : WF_vars(EndAppendCall(i, j)) /\ WF_vars(SaveForCaller(i, j))

FairSpec == Spec /\ Fairness
=============================================================================
