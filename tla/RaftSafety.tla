------------------------------ MODULE RaftSafety ------------------------------
(***************************************************************************)
(* What the raft cluster of module Raft guarantees, and what its comments, *)
(* oracles and documentation say of it.                                    *)
(***************************************************************************)
EXTENDS Raft

(***************************************************************************)
(* Invariants and action properties of the code.                           *)
(***************************************************************************)

ServerTypes ==
  /\ role \in [Node -> Role]
  /\ term \in [Node -> Nat]
  /\ votedFor \in [Node -> Node \cup {Nil}]
  /\ leaderID \in [Node -> Node \cup {Nil}]
  /\ dirty \in [Node -> BOOLEAN]

LogTypes == log \in [Node -> Log] /\ commitIndex \in [Node -> Nat]

DiskTypes == disk \in [Node -> RaftState]

ReplTypes ==
  /\ hasRepl \in [Node -> BOOLEAN]
  /\ nextIndex \in [Node -> [Node -> Nat]]
  /\ matchIndex \in [Node -> [Node -> Nat]]
  /\ inFlight \in [Node -> [Node -> BOOLEAN]]
  /\ backoff \in [Node -> [Node -> Nat]]

ElectionTypes == election \in [Node -> Election] /\ elected \subseteq Node \X Nat

ClientTypes == proposing \in [Node -> SUBSET (Nat \X Nat)] /\ acked \subseteq Nat \X Nat

CallTypes == voteCalls \subseteq VoteCall /\ appendCalls \subseteq AppendCall

BoundTypes == crashes \in Nat /\ saveFailures \in Nat /\ strays \in Nat

\* Every variable holds a value of its Go type: indexes and terms stay natural
\* numbers through the rewinding of nextIndex and the lookups that return -1.
TypeOK ==
  /\ ServerTypes /\ LogTypes /\ DiskTypes /\ ReplTypes
  /\ ElectionTypes /\ ClientTypes /\ CallTypes /\ BoundTypes

\* The dirty flag is never forgotten: while it is clear, the file holds exactly
\* the term, vote and log in memory, so persist may skip the write.
CleanMeansSaved == \A i \in Node : ~dirty[i] => disk[i] = Durable(i)

\* Before a candidate asks anyone for a vote, and before a voter's yes leaves
\* it, the term concerned is in the respective node's file.
VotesAreDurable ==
  \A c \in voteCalls :
    /\ c.term <= disk[c.src].term
    /\ c.stage = "replied" /\ c.granted => c.term <= disk[c.dst].term

\* Whoever a node takes for the leader of its term (and redirects clients to)
\* did win an election of that term.
KnownLeaderWasElected ==
  \A i \in Node : leaderID[i] # Nil => <<leaderID[i], term[i]>> \in elected

\* Behind every leader stands a majority of nodes whose files hold its term or
\* a later one, so that no combination of restarts takes a majority back to
\* before that election.
ElectionIsDurable ==
  \A w \in elected :
    \E q \in SUBSET Node :
      /\ 2 * Cardinality(q) > Cardinality(Node)
      /\ \A j \in q : w[2] <= disk[j].term

\* No node wins two elections of the same term, whatever crashes in between.
LeadsTermOnce ==
  [][\A i \in Node : role[i] # "leader" /\ role'[i] = "leader"
        => <<i, term'[i]>> \notin elected]_vars

\* Terms never decrease along a log, in memory, on disk and in requests (from
\* prevLogTerm on), and never exceed the term of the node, file or request that
\* holds the log.
LogTermsAscend ==
  /\ \A i \in Node : TermsAscend(log[i]) /\ LastLogTerm(log[i]) <= term[i]
  /\ \A i \in Node : TermsAscend(disk[i].log) /\ LastLogTerm(disk[i].log) <= disk[i].term
  /\ \A c \in appendCalls : RequestAscends(c.prevLogTerm, c.entries, c.term)

\* inFlight is true exactly while one call to that peer is outstanding: two
\* would break the pairing of answers with requests, none would cut the peer
\* off for good.
OneCallPerPeer ==
  /\ \A i, j \in Node :
       inFlight[i][j] <=> \E c \in appendCalls : c.live /\ c.src = i /\ c.dst = j
  /\ \A c, d \in appendCalls : c.live /\ d.live /\ c.src = d.src /\ c.dst = d.dst => c = d

OneLeaderPerTerm == \A v, w \in elected : v[2] = w[2] => v = w

\* As long as no term has had two leaders, logs that agree on the term of an
\* entry agree on everything up to it.
LogMatching ==
  OneLeaderPerTerm =>
    \A i, j \in Node : \A k \in 1..MaxLog :
      (/\ HasEntry(log[i], k) /\ HasEntry(log[j], k)
       /\ EntryAt(log[i], k).term = EntryAt(log[j], k).term)
      => \A m \in 1..k : EntryAt(log[i], m) = EntryAt(log[j], m)

\* Liveness: the election goroutine always gets back to its select loop, where
\* it can hear of a leader or start the next election.
ElectionsEnd == \A i \in Node : election[i].phase # "idle" ~> election[i].phase = "idle"

\* Liveness: no peer is left marked in flight, so replication to it can go on.
CallsEnd == \A i, j \in Node : inFlight[i][j] ~> ~inFlight[i][j]

(***************************************************************************)
(* What the invariants above rest on: together with them, these are        *)
(* preserved by every step.                                                *)
(***************************************************************************)

\* CompactLog and InstallSnapshot are not part of this module.
NoCompaction ==
  \A i \in Node : /\ log[i].base = 0 /\ log[i].baseTerm = 0
                  /\ disk[i].log.base = 0 /\ disk[i].log.baseTerm = 0

\* A node's file is never ahead of its memory.
TermSaved == \A i \in Node : disk[i].term <= term[i]

\* A vote request follows the candidate's save, a yes follows the voter's save,
\* and only a collecting candidate still waits for answers.
VoteCallsInv ==
  \A c \in voteCalls :
    /\ c.src # c.dst
    /\ c.term <= disk[c.src].term
    /\ c.stage = "replied" /\ c.granted => c.term <= disk[c.dst].term
    /\ c.stage = "saving" => c.term <= term[c.dst]
    /\ c.live => election[c.src].phase = "collect" /\ c.term = election[c.src].term

ElectionInv ==
  \A i \in Node :
    /\ election[i].phase = "save" => election[i].term <= term[i]
    /\ election[i].phase = "collect" => election[i].term <= disk[i].term
    /\ \A j \in election[i].granted : j # i /\ election[i].term <= disk[j].term

\* Elections won are in the winner's file; roles and requests agree with them.
ElectedInv ==
  /\ \A w \in elected : w[2] <= disk[w[1]].term
  /\ \A i \in Node : role[i] = "leader" => <<i, term[i]>> \in elected
  /\ \A i \in Node : role[i] = "candidate" => <<i, term[i]>> \notin elected
  /\ \A c \in appendCalls : <<c.src, c.term>> \in elected

\* The part of the log that a request carries, as a log that starts at prevLogIndex.
Segment(c) == [base |-> c.prevLogIndex, baseTerm |-> c.prevLogTerm, entries |-> c.entries]

\* All there is of the log anywhere: in memory, in files and in requests.
Copies ==
  {log[i] : i \in Node} \cup {disk[i].log : i \in Node} \cup {Segment(c) : c \in appendCalls}

\* Only leaders make entries: the term of every entry has been won by some node.
EntriesHaveLeaders ==
  \A a \in Copies : \A k \in 1..LastLogIndex(a) :
    HasEntry(a, k) => \E i \in Node : <<i, EntryAt(a, k).term>> \in elected

\* No entry of a leader's term lies beyond the end of its log: the next one that
\* propose appends is at an index that is new for the term.
LeadersAreAhead ==
  \A i \in Node : role[i] = "leader" =>
    \A a \in Copies : \A k \in 1..LastLogIndex(a) :
      HasEntry(a, k) /\ EntryAt(a, k).term = term[i] => k <= LastLogIndex(log[i])

CopiesMatch == \A a, b \in Copies : LogsMatch(a, b)

\* LogMatching for files and requests too, and what makes it so.
MatchInv == OneLeaderPerTerm => EntriesHaveLeaders /\ LeadersAreAhead /\ CopiesMatch

(***************************************************************************)
(* Claims of the repository about the code.                                *)
(***************************************************************************)

\* pkg/chaos/oracles.go:30: "at most one leader per term": no two nodes lead the
\* same term at the same time.
ElectionSafety ==
  \A i, j \in Node :
    role[i] = "leader" /\ role[j] = "leader" /\ term[i] = term[j] => i = j

\* pkg/raft/persistence.go:12: term, vote and log are "written and fsynced before
\* any RPC response that depends on them, so a crash mid-decision cannot resurrect
\* an old term": no answer carries a term the answering node could forget.
AnsweredTermIsSaved ==
  \A c \in voteCalls \cup appendCalls : c.stage = "replied" => c.respTerm <= disk[c.dst].term

Holds(l, prev, es) ==
  \A k \in 1..Len(es) : HasEntry(l, prev + k) /\ EntryAt(l, prev + k) = es[k]

\* pkg/raft/node.go:85: "Any log change is persisted before the success response is
\* returned": a success answer leaves only when the entries are in the file.
AcceptedEntriesAreSaved ==
  [][\A c \in appendCalls' \ appendCalls :
        c.stage = "replied" /\ c.success
          => Holds(disk'[c.dst].log, c.prevLogIndex, c.entries)]_vars

\* pkg/raft/leader.go:148: "The leader's own copy of the entry must be durable
\* before followers can be told about it": requests carry saved entries only.
SentEntriesAreSaved ==
  [][\A c \in appendCalls' \ appendCalls :
        c.stage = "sent" /\ c.live
          => Holds(disk[c.src].log, c.prevLogIndex, c.entries)]_vars

\* pkg/raft/follower.go:22: the suffix that mergeEntries drops is "stale,
\* uncommitted entries from a previous term": a running node never removes an
\* entry at or below its commit index.
CommittedEntriesStay ==
  [][crashes' = crashes =>
       \A i \in Node : \A k \in 1..commitIndex[i] :
         HasEntry(log[i], k) => HasEntry(log'[i], k)]_vars

\* README.md:172: the leader "waits for a majority commit, applies, and only then
\* acknowledges": what a client was told is written is committed somewhere.
AckedIsCommitted ==
  \A p \in acked : \E i \in Node : commitIndex[i] >= p[1] /\ LogTermAt(log[i], p[1]) = p[2]
=============================================================================
