--------------------------- MODULE RaftOrderProofs ---------------------------
(***************************************************************************)
(* Four more invariants of the raft cluster, proved on top of the layers   *)
(* of RaftProofs: the order of terms along the logs, the pairing of the    *)
(* in-flight marks with AppendEntries calls, the agreement of the logs up  *)
(* to the last entry two of them share, and the majority of files behind   *)
(* every election won.                                                     *)
(***************************************************************************)
EXTENDS RaftProofs

(***************************************************************************)
(* 5. Terms along the logs.                                                *)
(***************************************************************************)
\* The log of a node keeps its order: propose appends at the current term,
\* HandleAppendEntries merges an ordered request after a matching entry, a restart
\* reads back an ordered log.
LEMMA OrderOfNode ==
  ASSUME ElectionLayers, ElectionLayers', LogTermsAscend, [Next]_vars, NEW i \in Node
  PROVE  TermsAscend(log'[i]) /\ LastLogTerm(log'[i]) <= term'[i]
<1>0. /\ log[i] \in Log /\ TermsAscend(log[i]) /\ LastLogTerm(log[i]) <= term[i]
      /\ TermsAscend(disk[i].log) /\ LastLogTerm(disk[i].log) <= disk[i].term
      /\ term[i] \in Nat /\ term'[i] \in Nat /\ log[i].base = 0 /\ log[i].baseTerm = 0
      /\ LastLogTerm(log[i]) \in Nat
  BY Zenon, LogReaderTypes DEF ElectionLayers, TypeOK, LogTypes, ServerTypes, LogTermsAscend,
     NoCompaction
<1>1. CASE Reloads(i)
  BY Zenon, <1>0, <1>1 DEF Reloads
<1>2. CASE log'[i] = log[i] /\ term[i] <= term'[i]
  BY <1>0, <1>2
<1>3. ASSUME NEW cmd \in Command, Propose(i, cmd)
      PROVE  TermsAscend(log'[i]) /\ LastLogTerm(log'[i]) <= term'[i]
  <2> DEFINE e == [term |-> term[i], cmd |-> cmd]
  <2>1. e \in Entry /\ e.term = term[i]
    BY Zenon, <1>0 DEF Entry
  <2>2. log'[i] = AppendEntry(log[i], e) /\ term'[i] = term[i]
    BY Zenon, <1>3 DEF Propose, ElectionLayers, TypeOK, LogTypes
  <2> HIDE DEF e
  <2>3. TermsAscend(AppendEntry(log[i], e)) /\ LastLogTerm(AppendEntry(log[i], e)) = e.term
    BY Zenon, <1>0, <2>1, AppendAscends
  <2> QED
    BY <1>0, <2>1, <2>2, <2>3
<1>4. ASSUME NEW c \in appendCalls, c.dst = i, AppendMatch(c)
      PROVE  TermsAscend(log'[i]) /\ LastLogTerm(log'[i]) <= term'[i]
  <2>1. /\ c.term \in Nat /\ c.prevLogIndex \in Nat /\ c.prevLogTerm \in Int
        /\ c.entries \in Seq(Entry)
    BY Zenon DEF ElectionLayers, TypeOK, CallTypes, AppendCall
  <2>2. /\ CheckPrevLog(log[i], c.prevLogIndex, c.prevLogTerm)
        /\ c.term >= term[i] /\ term'[i] = c.term
        /\ log'[i] = MergeEntries(log[i], c.prevLogIndex, c.entries)
    BY Zenon, <1>4 DEF AppendMatch, FollowSender, ElectionLayers, TypeOK, LogTypes, ServerTypes
  <2>3. RequestAscends(c.prevLogTerm, c.entries, c.term)
    BY Zenon DEF LogTermsAscend
  <2>4. LastLogTerm(log[i]) <= c.term /\ c.prevLogIndex >= log[i].base
    BY <1>0, <2>1, <2>2
  <2>5. TermsAscend(log'[i]) /\ LastLogTerm(log'[i]) <= c.term
    BY Zenon, <1>0, <2>1, <2>2, <2>3, <2>4, MergeAscends
  <2> QED
    BY Zenon, <2>2, <2>5
<1> QED
  BY Zenon, <1>1, <1>2, <1>3, <1>4, LogChanges DEF ElectionLayers

\* Every step keeps the order of terms.
LEMMA OrderStep ==
  ASSUME ElectionLayers, ElectionLayers', LogTermsAscend, [Next]_vars
  PROVE  LogTermsAscend'
<1>1. ASSUME NEW i \in Node
      PROVE  TermsAscend(disk'[i].log) /\ LastLogTerm(disk'[i].log) <= disk'[i].term
  <2>1. disk'[i] = disk[i] \/ disk'[i] = Durable(i)
    BY Zenon, EveryStep DEF ElectionLayers, MemoryStep, Keeps, Dirties, Saves, Reloads
  <2>2. Durable(i).log = log[i] /\ Durable(i).term = term[i]
    BY Zenon DEF Durable
  <2> QED
    BY Zenon, <2>1, <2>2 DEF LogTermsAscend
<1>2. ASSUME NEW d \in appendCalls'
      PROVE  RequestAscends(d.prevLogTerm, d.entries, d.term)
  <2>1. CASE \E c \in appendCalls : SameRequest(d, c)
    BY Zenon, <2>1 DEF SameRequest, LogTermsAscend
  <2>2. ASSUME NEW i \in Node, NEW j \in Peers(i), SendAppend(i, j), NEW next,
               next = Max({1, NextOf(i)[j]}), d = AppendRequest(i, j, next)
        PROVE  RequestAscends(d.prevLogTerm, d.entries, d.term)
    <3>1. /\ log[i] \in Log /\ term[i] \in Nat /\ j \in Node /\ LastLogIndex(log[i]) \in Nat
          /\ TermsAscend(log[i]) /\ LastLogTerm(log[i]) <= term[i]
      BY Zenon, LogReaderTypes DEF ElectionLayers, TypeOK, LogTypes, ServerTypes, Peers,
         LogTermsAscend
    <3>2. NextOf(i)[j] \in Nat
      BY <3>1 DEF NextOf, ElectionLayers, TypeOK, ReplTypes
    <3>3. next \in Nat
      BY <2>2, <3>2, MaxOfTwo
    <3>4. next > log[i].base
      BY <2>2, <3>1, <3>3 DEF SendAppend, FirstIndex, Log
    <3>5. RequestAscends(LogTermAt(log[i], next - 1), EntriesFrom(log[i], next), term[i])
      BY Zenon, <3>1, <3>3, <3>4, RequestFacts
    <3> QED
      BY Zenon, <2>2, <3>5 DEF AppendRequest
  <2> QED
    BY Zenon, <2>1, <2>2, AppendSources DEF ElectionLayers
<1> QED
  BY Zenon, <1>1, <1>2, OrderOfNode DEF LogTermsAscend

\* Terms never decrease along any log, in memory, in a file or in a request, and never
\* pass the term of the node or request: the vote rule of HandleRequestVote may compare
\* last entries only.
THEOREM LogsAreOrdered == Spec => []LogTermsAscend
<1>1. Init => LogTermsAscend
  BY DEF Init, LogTermsAscend, EmptyLog, TermsAscend, LastLogTerm
<1>2. ElectionLayers /\ ElectionLayers' /\ LogTermsAscend /\ [Next]_vars => LogTermsAscend'
  BY Zenon, OrderStep
<1> QED
  BY <1>1, <1>2, LayersInvariant, PTL DEF Spec

(***************************************************************************)
(* 6. Calls in flight.                                                     *)
(***************************************************************************)

\* A call that moves on keeps its caller waiting, and one that nobody waits for may go.
LEMMA MovedCall ==
  ASSUME OneCallPerPeer, NEW c \in appendCalls, inFlight' = inFlight,
         \/ \E d : /\ appendCalls' = (appendCalls \ {c}) \cup {d}
                   /\ d.src = c.src /\ d.dst = c.dst /\ d.live = c.live
         \/ ~c.live /\ appendCalls' = appendCalls \ {c}
  PROVE  OneCallPerPeer'
BY DEF OneCallPerPeer

\* The steps of AppendEntries calls.
LEMMA FlightOfCalls ==
  ASSUME TypeOK, OneCallPerPeer, NEW c \in appendCalls, AppendStep(c)
  PROVE  OneCallPerPeer'
<1>0. c \in AppendCall /\ c.src \in Node /\ c.dst \in Node
      /\ inFlight \in [Node -> [Node -> BOOLEAN]]
  <2>1. c \in AppendCall
    BY Zenon DEF TypeOK, CallTypes
  <2>2. c.src \in Node /\ c.dst \in Node
    BY Zenon, <2>1 DEF AppendCall
  <2>3. inFlight \in [Node -> [Node -> BOOLEAN]]
    BY Zenon DEF TypeOK, ReplTypes
  <2> QED
    BY Zenon, <2>1, <2>2, <2>3
<1>1. ASSUME NEW t, NEW ok, AnswerAppend(c, t, ok), inFlight' = inFlight
      PROVE  OneCallPerPeer'
  <2> DEFINE d == [c EXCEPT !.stage = "replied", !.respTerm = t, !.success = ok]
  <2>1. d.src = c.src /\ d.dst = c.dst /\ d.live = c.live
    BY Zenon, <1>0 DEF AppendCall
  <2>2. \/ appendCalls' = (appendCalls \ {c}) \cup {d}
        \/ ~c.live /\ appendCalls' = appendCalls \ {c}
    BY Zenon, <1>1 DEF AnswerAppend
  <2> HIDE DEF d
  <2> QED
    BY Zenon, <1>1, <2>1, <2>2, MovedCall
<1>2. CASE HandleAppendEntries(c)
  <2>0. inFlight' = inFlight
    BY Zenon, <1>2 DEF HandleAppendEntries, replVars
  <2>1. CASE AppendStaleTerm(c) \/ AppendMismatch(c)
    BY Zenon, <1>1, <2>0, <2>1 DEF AppendStaleTerm, AppendMismatch
  <2>2. CASE AppendMatch(c)
    <3> DEFINE d == [c EXCEPT !.stage = "saving", !.respTerm = c.term, !.success = TRUE]
    <3>1. appendCalls' = (appendCalls \ {c}) \cup {d} \/ AnswerAppend(c, c.term, TRUE)
      BY Zenon, <2>2 DEF AppendMatch
    <3>2. d.src = c.src /\ d.dst = c.dst /\ d.live = c.live
      BY Zenon, <1>0 DEF AppendCall
    <3> HIDE DEF d
    <3> QED
      BY Zenon, <1>1, <2>0, <3>1, <3>2, MovedCall
  <2> QED
    BY Zenon, <1>2, <2>1, <2>2 DEF HandleAppendEntries
<1>3. CASE SaveAppend(c)
  <2> DEFINE d == [c EXCEPT !.stage = "unsaved"]
  <2>1. inFlight' = inFlight
        /\ (appendCalls' = (appendCalls \ {c}) \cup {d} \/ AnswerAppend(c, c.respTerm, TRUE))
    BY Zenon, <1>3 DEF SaveAppend, replVars
  <2>2. d.src = c.src /\ d.dst = c.dst /\ d.live = c.live
    BY Zenon, <1>0 DEF AppendCall
  <2> HIDE DEF d
  <2> QED
    BY Zenon, <1>1, <2>1, <2>2, MovedCall
<1>4. CASE RefuseUnsavedAppend(c)
  BY Zenon, <1>1, <1>4 DEF RefuseUnsavedAppend, replVars
<1>5. CASE AppendAnswer(c) \/ AppendCallFails(c)
  <2> DEFINE d == [c EXCEPT !.live = FALSE]
  <2>1. ~d.live
    BY Zenon, <1>0 DEF AppendCall
  <2>2. /\ c.live
        /\ inFlight' = [inFlight EXCEPT ![c.src][c.dst] = FALSE]
        /\ \/ appendCalls' = appendCalls \ {c}
           \/ appendCalls' = (appendCalls \ {c}) \cup {d}
    BY Zenon, <1>5 DEF AppendAnswer, AppendCallFails, ClearInFlight
  <2> HIDE DEF d
  <2>3. \A b \in appendCalls' : b.live => b \in appendCalls /\ b # c
    BY Zenon, <2>1, <2>2
  <2>4. ASSUME NEW i \in Node, NEW j \in Node
        PROVE  inFlight'[i][j] <=> \E b \in appendCalls' : b.live /\ b.src = i /\ b.dst = j
    <3>1. CASE i = c.src /\ j = c.dst
      <4>1. ~inFlight'[i][j]
        BY Zenon, <1>0, <2>2, <3>1
      <4>2. ~\E b \in appendCalls' : b.live /\ b.src = i /\ b.dst = j
        BY ZenonT(40), <2>2, <2>3, <3>1 DEF OneCallPerPeer
      <4> QED
        BY Zenon, <4>1, <4>2
    <3>2. CASE ~(i = c.src /\ j = c.dst)
      <4>1. inFlight'[i][j] = inFlight[i][j]
        BY Zenon, <1>0, <2>2, <3>2
      <4> QED
        BY <2>2, <2>3, <3>2, <4>1 DEF OneCallPerPeer
    <3> QED
      BY Zenon, <3>1, <3>2
  <2> QED
    BY Zenon, <2>3, <2>4 DEF OneCallPerPeer
<1> QED
  BY Zenon, <1>2, <1>3, <1>4, <1>5 DEF AppendStep

\* replicateToPeer marks the peer when it sends, and only an unmarked one.
LEMMA FlightOfSends ==
  ASSUME TypeOK, OneCallPerPeer, NEW i \in Node, NEW j \in Peers(i), SendAppend(i, j)
  PROVE  OneCallPerPeer'
<1> DEFINE d == AppendRequest(i, j, Max({1, NextOf(i)[j]}))
<1>1. /\ ~inFlight[i][j] /\ inFlight' = [inFlight EXCEPT ![i][j] = TRUE]
      /\ appendCalls' = appendCalls \cup {d}
      /\ j \in Node /\ inFlight \in [Node -> [Node -> BOOLEAN]]
  BY Zenon DEF SendAppend, Peers, TypeOK, ReplTypes
<1>2. d.src = i /\ d.dst = j /\ d.live
  BY Zenon DEF AppendRequest
<1> HIDE DEF d
<1>3. ASSUME NEW k \in Node, NEW l \in Node
      PROVE  inFlight'[k][l] <=> \E b \in appendCalls' : b.live /\ b.src = k /\ b.dst = l
  <2>1. CASE k = i /\ l = j
    <3>1. inFlight'[k][l]
      BY Zenon, <1>1, <2>1
    <3> QED
      BY Zenon, <1>1, <1>2, <2>1, <3>1
  <2>2. CASE ~(k = i /\ l = j)
    <3>1. inFlight'[k][l] = inFlight[k][l]
      BY Zenon, <1>1, <2>2
    <3> QED
      BY <1>1, <1>2, <2>2, <3>1 DEF OneCallPerPeer
  <2> QED
    BY Zenon, <2>1, <2>2
<1>4. \A b \in appendCalls : ~(b.live /\ b.src = i /\ b.dst = j)
  BY <1>1 DEF OneCallPerPeer
<1> QED
  BY <1>1, <1>2, <1>3, <1>4 DEF OneCallPerPeer

\* A restart forgets the marks together with the goroutines that waited.
LEMMA FlightOfRestart ==
  ASSUME TypeOK, OneCallPerPeer, NEW i \in Node, Restart(i)
  PROVE  OneCallPerPeer'
<1>0. /\ appendCalls \in SUBSET AppendCall /\ appendCalls' = AfterCrash(appendCalls, i)
      /\ inFlight \in [Node -> [Node -> BOOLEAN]]
      /\ inFlight' = [inFlight EXCEPT ![i] = [j \in Node |-> FALSE]]
  BY Zenon DEF Restart, TypeOK, CallTypes, ReplTypes
<1> DEFINE Gone(c) == c.dst = i /\ c.stage \in {"saving", "unsaved"}
           Lost(c) == [c EXCEPT !.stage = "lost"]
<1>1. ASSUME NEW c \in appendCalls
      PROVE  Lost(c).src = c.src /\ Lost(c).dst = c.dst /\ Lost(c).live = c.live
             /\ ~[c EXCEPT !.live = FALSE].live
  BY Zenon, <1>0 DEF AppendCall
<1>2. ASSUME NEW d \in appendCalls', d.live
      PROVE  \E c \in appendCalls : /\ c.live /\ c.src # i
                                    /\ d = (IF Gone(c) THEN Lost(c) ELSE c)
  <2>1. PICK c \in appendCalls :
          \/ /\ d = c /\ c.src # i /\ ~Gone(c)
          \/ /\ d = Lost(c) /\ c.src # i /\ c.live /\ Gone(c)
          \/ d = [c EXCEPT !.live = FALSE]
    <3>1. \E c \in appendCalls :
           \/ /\ d = c /\ c.src # i
              /\ ~(c.dst = i /\ c.stage \in {"saving", "unsaved"})
           \/ /\ d = [c EXCEPT !.stage = "lost"] /\ c.src # i /\ c.live
              /\ c.dst = i /\ c.stage \in {"saving", "unsaved"}
           \/ /\ d = [c EXCEPT !.live = FALSE] /\ c.src = i
              /\ c.stage \in {"sent", "saving"} /\ ~(c.dst = i /\ c.stage = "saving")
      <4>1. d \in AfterCrash(appendCalls, i) /\ appendCalls \in SUBSET AppendCall
        BY Zenon, <1>0
      <4> QED
        BY <4>1, AppendCrashMembers
    <3> QED
      BY Zenon, <3>1
  <2>2. d # [c EXCEPT !.live = FALSE]
    <3> DEFINE e == [c EXCEPT !.live = FALSE]
    <3>1. ~e.live
      BY Zenon, <1>1
    <3> HIDE DEF e
    <3>2. d # e
      BY Zenon, <1>2, <3>1
    <3> QED
      BY Zenon, <3>2 DEF e
  <2>3. /\ c.live /\ c.src # i
        /\ d = (IF Gone(c) THEN Lost(c) ELSE c)
    <3> HIDE DEF Gone, Lost
    <3> QED
      BY Zenon, <1>2, <2>1, <2>2
  <2> QED
    BY Zenon, <2>3
<1>3. ASSUME NEW c \in appendCalls, c.live, c.src # i
      PROVE  (IF Gone(c) THEN Lost(c) ELSE c) \in appendCalls'
  <2> DEFINE gone == {x \in appendCalls : x.dst = i /\ x.stage \in {"saving", "unsaved"}}
             rest == (appendCalls \ gone) \cup {[x EXCEPT !.stage = "lost"] : x \in {y \in gone : y.live}}
             d == IF Gone(c) THEN Lost(c) ELSE c
  <2>1. appendCalls' = AbandonCalls(rest, i)
    BY Zenon, <1>0 DEF AfterCrash
  <2>2. d \in rest
    BY Zenon, <1>3
  <2>3. d.src # i
    BY Zenon, <1>1, <1>3
  <2> HIDE DEF rest, d
  <2>4. d \in AbandonCalls(rest, i)
    BY Zenon, <2>2, <2>3 DEF AbandonCalls, From
  <2> QED
    BY Zenon, <2>1, <2>4 DEF d
<1> HIDE DEF Gone, Lost
<1>4. ASSUME NEW k \in Node, NEW l \in Node
      PROVE  inFlight'[k][l] <=> \E b \in appendCalls' : b.live /\ b.src = k /\ b.dst = l
  <2>1. CASE k = i
    <3>1. ~inFlight'[k][l]
      BY Zenon, <1>0, <2>1
    <3> QED
      BY <1>1, <1>2, <2>1, <3>1
  <2>2. CASE k # i
    <3>1. inFlight'[k][l] = inFlight[k][l]
      BY Zenon, <1>0, <2>2
    <3>2. inFlight[k][l] => \E b \in appendCalls' : b.live /\ b.src = k /\ b.dst = l
      <4> SUFFICES ASSUME inFlight[k][l]
                   PROVE  \E b \in appendCalls' : b.live /\ b.src = k /\ b.dst = l
        BY Zenon
      <4>1. PICK c \in appendCalls : c.live /\ c.src = k /\ c.dst = l
        BY DEF OneCallPerPeer
      <4>2. (IF Gone(c) THEN Lost(c) ELSE c) \in appendCalls'
        BY Zenon, <1>3, <2>2, <4>1
      <4> QED
        BY Zenon, <1>1, <4>1, <4>2
    <3>3. (\E b \in appendCalls' : b.live /\ b.src = k /\ b.dst = l) => inFlight[k][l]
      BY <1>1, <1>2 DEF OneCallPerPeer
    <3> QED
      BY Zenon, <3>1, <3>2, <3>3
  <2> QED
    BY Zenon, <2>1, <2>2
<1>5. ASSUME NEW d \in appendCalls', NEW e \in appendCalls', d.live, e.live,
             d.src = e.src, d.dst = e.dst
      PROVE  d = e
  <2>1. PICK c \in appendCalls : c.live /\ d = (IF Gone(c) THEN Lost(c) ELSE c)
    BY Zenon, <1>2, <1>5
  <2>2. PICK b \in appendCalls : b.live /\ e = (IF Gone(b) THEN Lost(b) ELSE b)
    BY Zenon, <1>2, <1>5
  <2>3. c.src = b.src /\ c.dst = b.dst
    BY Zenon, <1>1, <1>5, <2>1, <2>2
  <2>4. c = b
    BY Zenon, <2>1, <2>2, <2>3 DEF OneCallPerPeer
  <2> QED
    BY Zenon, <2>1, <2>2, <2>4
<1> QED
  BY Zenon, <1>4, <1>5 DEF OneCallPerPeer

\* Every step keeps marks and calls paired.
LEMMA FlightStep ==
  ASSUME TypeOK, OneCallPerPeer, [Next]_vars
  PROVE  OneCallPerPeer'
<1>1. ASSUME inFlight' = inFlight, appendCalls' = appendCalls
      PROVE  OneCallPerPeer'
  BY Zenon, <1>1 DEF OneCallPerPeer
<1>2. ASSUME NEW i \in Node, NodeStep(i)
      PROVE  \/ inFlight' = inFlight /\ appendCalls' = appendCalls
             \/ Restart(i)
             \/ \E j \in Peers(i) : SendAppend(i, j)
  BY Zenon, <1>2 DEF NodeStep, StartElection, Campaign, CampaignNotSaved, StepDownSaved, WinElection,
     LoseElection, TallyDone, LoseQuorumContact, Propose, ProposeSaved, ProposeNotSaved,
     callVars, replVars
<1>3. ASSUME NEW c \in voteCalls, VoteStep(c)
      PROVE  inFlight' = inFlight /\ appendCalls' = appendCalls
  BY Zenon, <1>3 DEF VoteStep, HandleRequestVote, SaveVote, RefuseUnsavedVote, TallyVote,
     HigherTermVote, VoteCallFails, replVars
<1>4. CASE DuplicateRequest
  <2>1. \A c \in appendCalls : ~[c EXCEPT !.live = FALSE].live
    BY Zenon DEF TypeOK, CallTypes, AppendCall
  <2>2. /\ inFlight' = inFlight /\ appendCalls \subseteq appendCalls'
        /\ \A d \in appendCalls' : d.live => d \in appendCalls
    BY Zenon, <1>4, <2>1 DEF DuplicateRequest, replVars
  <2> QED
    BY <2>2 DEF OneCallPerPeer
<1>5. UNCHANGED vars => inFlight' = inFlight /\ appendCalls' = appendCalls
  BY Zenon DEF vars, callVars, replVars
<1> QED
  BY Zenon, <1>1, <1>2, <1>3, <1>4, <1>5, FlightOfCalls, FlightOfSends, FlightOfRestart DEF Next

\* A peer is marked in flight exactly while one replicateToPeer call to it is waiting:
\* answers are never taken for those of another request, and no failed call, step-down
\* or restart leaves a peer marked that nobody will unmark.
THEOREM MarksMatchCalls == Spec => []OneCallPerPeer
<1>1. Init => OneCallPerPeer
  BY DEF Init, OneCallPerPeer
<1>2. TypeOK /\ OneCallPerPeer /\ [Next]_vars => OneCallPerPeer'
  BY Zenon, FlightStep
<1> QED
  BY <1>1, <1>2, TypeCorrect, PTL DEF Spec

(***************************************************************************)
(* 7. Matching logs.                                                       *)
(***************************************************************************)

\* What replicateToPeer cuts off the log of node i.
CutOff(i, idx) ==
  [base |-> idx - 1, baseTerm |-> LogTermAt(log[i], idx - 1), entries |-> EntriesFrom(log[i], idx)]

\* A copy that a step can make.
Proposes(x) ==
  \E i \in Node : \E cmd \in Command :
    Propose(i, cmd) /\ x = AppendEntry(log[i], [term |-> term[i], cmd |-> cmd])

Cuts(x) == \E i \in Node : \E idx \in Nat : idx > log[i].base /\ x = CutOff(i, idx)

Merges(x) ==
  \E c \in appendCalls :
    AppendMatch(c) /\ x = MergeEntries(log[c.dst], c.prevLogIndex, c.entries)

Makes(x) == Proposes(x) \/ Cuts(x) \/ Merges(x)

\* The copies are logs, or parts of logs.
LEMMA CopyTypes ==
  ASSUME TypeOK
  PROVE  /\ \A a \in Copies : a \in Copy
         /\ \A i \in Node : log[i] \in Log /\ log[i] \in Copies /\ disk[i].log \in Copies
         /\ \A c \in appendCalls : Segment(c) \in Copies
<1>1. \A i \in Node : log[i] \in Log /\ disk[i].log \in Log
  BY Zenon DEF TypeOK, LogTypes, DiskTypes, RaftState
<1>2. \A c \in appendCalls : Segment(c) \in Copy
  BY Zenon DEF TypeOK, CallTypes, AppendCall, Segment, Copy
<1>3. \A i \in Node : log[i] \in Copy /\ disk[i].log \in Copy
  BY Zenon, <1>1, LogIsCopy
<1> QED
  BY Zenon, <1>1, <1>2, <1>3 DEF Copies

\* replicateToPeer sends from an index after the compaction base.
LEMMA SendsFrom ==
  ASSUME TypeOK, NEW i \in Node, NEW j \in Peers(i), SendAppend(i, j)
  PROVE  \E next \in Nat : next = Max({1, NextOf(i)[j]}) /\ next > log[i].base
<1>1. j \in Node /\ log[i] \in Log /\ log[i].base \in Nat /\ LastLogIndex(log[i]) \in Nat
  BY Zenon, LogReaderTypes DEF TypeOK, LogTypes, Peers, Log
<1>2. NextOf(i)[j] \in Nat
  BY <1>1 DEF NextOf, TypeOK, ReplTypes
<1>3. PICK next \in Nat : next = Max({1, NextOf(i)[j]})
  BY <1>2, MaxOfTwo
<1>4. next >= log[i].base + 1
  BY Zenon, <1>3 DEF SendAppend, FirstIndex
<1>5. next > log[i].base
  BY <1>1, <1>4
<1> QED
  BY Zenon, <1>3, <1>5

\* A step adds at most one copy: the log of a proposal, a request, or a merged log.
LEMMA CopySteps ==
  ASSUME TypeOK, TypeOK', [Next]_vars
  PROVE  \/ Copies' \subseteq Copies
         \/ \E x : Makes(x) /\ Copies' \subseteq Copies \cup {x}
<1>1. ASSUME NEW k \in Node PROVE disk'[k].log \in Copies
  <2>1. disk'[k] = disk[k] \/ disk'[k] = Durable(k)
    BY Zenon, EveryStep DEF MemoryStep, Keeps, Dirties, Saves, Reloads
  <2>2. Durable(k).log = log[k]
    BY Zenon DEF Durable
  <2> QED
    BY Zenon, <2>1, <2>2, CopyTypes
<1>2. ASSUME NEW k \in Node
      PROVE  \/ log'[k] \in Copies
             \/ \E cmd \in Command : Propose(k, cmd)
             \/ \E c \in appendCalls : c.dst = k /\ AppendMatch(c)
  <2>1. Reloads(k) => log'[k] = disk[k].log
    BY Zenon DEF Reloads
  <2> QED
    BY Zenon, <2>1, LogChanges, CopyTypes
<1>3. ASSUME NEW d \in appendCalls', NEW c \in appendCalls, SameRequest(d, c)
      PROVE  Segment(d) \in Copies
  <2>1. Segment(d) = Segment(c)
    BY Zenon, <1>3 DEF SameRequest, Segment
  <2> QED
    BY Zenon, <2>1, CopyTypes
<1>4. ASSUME NEW x, \A k \in Node : log'[k] \in Copies \cup {x},
             \A d \in appendCalls' : Segment(d) \in Copies \cup {x}
      PROVE  Copies' \subseteq Copies \cup {x}
  <2>1. Copies' = {log'[i] : i \in Node} \cup {disk'[i].log : i \in Node}
                  \cup {Segment(c) : c \in appendCalls'}
    BY Zenon DEF Copies, Segment
  <2> QED
    BY Zenon, <1>1, <1>4, <2>1
<1>5. CASE \E i \in Node : \E j \in Peers(i) : SendAppend(i, j)
  <2>0. PICK i \in Node : \E j \in Peers(i) : SendAppend(i, j)
    BY Zenon, <1>5
  <2>1. PICK j \in Peers(i) : SendAppend(i, j)
    BY Zenon, <2>0
  <2>2. PICK next \in Nat : next = Max({1, NextOf(i)[j]}) /\ next > log[i].base
    BY Zenon, <2>1, SendsFrom
  <2>3. log' = log /\ appendCalls' = appendCalls \cup {AppendRequest(i, j, next)}
    BY Zenon, <2>1, <2>2 DEF SendAppend, logVars
  <2>4. Segment(AppendRequest(i, j, next)) = CutOff(i, next)
    BY Zenon DEF Segment, AppendRequest, CutOff
  <2>5. Makes(CutOff(i, next))
    BY Zenon, <2>2 DEF Makes, Cuts
  <2>6. /\ \A k \in Node : log'[k] \in Copies \cup {CutOff(i, next)}
        /\ \A d \in appendCalls' : Segment(d) \in Copies \cup {CutOff(i, next)}
    BY Zenon, <2>3, <2>4, CopyTypes
  <2>7. Copies' \subseteq Copies \cup {CutOff(i, next)}
    BY Zenon, <1>4, <2>6
  <2> QED
    BY Zenon, <2>5, <2>7
<1>6. CASE ~\E i \in Node : \E j \in Peers(i) : SendAppend(i, j)
  <2>1. \A d \in appendCalls' : Segment(d) \in Copies
    BY Zenon, <1>3, <1>6, AppendSources
  <2>2. ASSUME NEW i \in Node, NEW cmd \in Command, Propose(i, cmd)
        PROVE  \E x : Makes(x) /\ Copies' \subseteq Copies \cup {x}
    <3> DEFINE x == AppendEntry(log[i], [term |-> term[i], cmd |-> cmd])
    <3>1. \A k \in Node : log'[k] = IF k = i THEN x ELSE log[k]
      BY Zenon, <2>2 DEF Propose, TypeOK, LogTypes
    <3>2. Makes(x)
      BY Zenon, <2>2 DEF Makes, Proposes
    <3> HIDE DEF x
    <3>3. \A k \in Node : log'[k] \in Copies \cup {x}
      BY Zenon, <3>1, CopyTypes
    <3> QED
      BY Zenon, <1>4, <2>1, <3>2, <3>3
  <2>3. ASSUME NEW c \in appendCalls, AppendMatch(c)
        PROVE  \E x : Makes(x) /\ Copies' \subseteq Copies \cup {x}
    <3> DEFINE x == MergeEntries(log[c.dst], c.prevLogIndex, c.entries)
    <3>1. \A k \in Node : log'[k] = IF k = c.dst THEN x ELSE log[k]
      BY Zenon, <2>3 DEF AppendMatch, TypeOK, LogTypes
    <3>2. Makes(x)
      BY Zenon, <2>3 DEF Makes, Merges
    <3> HIDE DEF x
    <3>3. \A k \in Node : log'[k] \in Copies \cup {x}
      BY Zenon, <3>1, CopyTypes
    <3> QED
      BY Zenon, <1>4, <2>1, <3>2, <3>3
  <2>4. ASSUME \A k \in Node : log'[k] \in Copies
        PROVE  Copies' \subseteq Copies
    <3>1. Copies' = {log'[i] : i \in Node} \cup {disk'[i].log : i \in Node}
                    \cup {Segment(c) : c \in appendCalls'}
      BY Zenon DEF Copies, Segment
    <3> QED
      BY Zenon, <1>1, <2>1, <2>4, <3>1
  <2> QED
    BY Zenon, <1>2, <2>2, <2>3, <2>4
<1> QED
  BY Zenon, <1>5, <1>6

\* HandleAppendEntries merges, if the log matches the request.
LEMMA MergeMade ==
  ASSUME TypeOK, NoCompaction, CopiesMatch, NEW c \in appendCalls, AppendMatch(c)
  PROVE  MergedBy(log[c.dst], Segment(c), MergeEntries(log[c.dst], c.prevLogIndex, c.entries))
<1> DEFINE l == log[c.dst]
           r == Segment(c)
<1>1. c.dst \in Node
  BY Zenon DEF TypeOK, CallTypes, AppendCall
<1>2. l \in Log /\ l.base = 0 /\ l \in Copies /\ r \in Copies /\ r \in Copy
  BY Zenon, <1>1, CopyTypes DEF NoCompaction
<1>3. LogsMatch(l, r)
  BY Zenon, <1>2 DEF CopiesMatch
<1>4. r.base = c.prevLogIndex /\ r.baseTerm = c.prevLogTerm /\ r.entries = c.entries
  BY Zenon DEF Segment
<1>5. CheckPrevLog(l, r.base, r.baseTerm)
  BY Zenon, <1>4 DEF AppendMatch
<1> HIDE DEF l, r
<1>6. MergedBy(l, r, MergeEntries(l, r.base, r.entries))
  BY Zenon, <1>2, <1>3, <1>5, MergeByIndex
<1> QED
  BY Zenon, <1>4, <1>6 DEF l, r

\* The term of an entry of a made copy was there before at that index, or is the term of
\* a proposal, at the end of the proposer's log.
LEMMA TermSources ==
  ASSUME TypeOK, NoCompaction, CopiesMatch, NEW x, Makes(x), NEW k \in Nat, HasEntry(x, k)
  PROVE  \/ \E a \in Copies : HasEntry(a, k) /\ EntryAt(a, k).term = EntryAt(x, k).term
         \/ \E i \in Node : \E cmd \in Command :
              /\ Propose(i, cmd)
              /\ k = LastLogIndex(log[i]) + 1 /\ EntryAt(x, k).term = term[i]
<1>1. ASSUME NEW i \in Node, NEW cmd \in Command, Propose(i, cmd),
             x = AppendEntry(log[i], [term |-> term[i], cmd |-> cmd])
      PROVE  \/ HasEntry(log[i], k) /\ EntryAt(x, k) = EntryAt(log[i], k)
             \/ k = LastLogIndex(log[i]) + 1 /\ EntryAt(x, k).term = term[i]
  <2>1. /\ log[i] \in Log /\ [term |-> term[i], cmd |-> cmd] \in Entry
    BY Zenon DEF TypeOK, LogTypes, ServerTypes, Entry
  <2>2. /\ x \in Log /\ x.base = log[i].base /\ LastLogIndex(x) = LastLogIndex(log[i]) + 1
        /\ \A j \in 0..LastLogIndex(log[i]) :
             j > log[i].base => EntryAt(x, j) = EntryAt(log[i], j)
        /\ EntryAt(x, LastLogIndex(log[i]) + 1) = [term |-> term[i], cmd |-> cmd]
    <3>1. AppendedTo(log[i], [term |-> term[i], cmd |-> cmd], x)
      BY Zenon, <1>1, <2>1, AppendByIndex
    <3> QED
      BY Zenon, <3>1 DEF AppendedTo
  <2>3. PICK n \in Nat : n = LastLogIndex(log[i])
    BY Zenon, <2>1, LogIsCopy, CopyFacts
  <2>4. log[i].base < k /\ k <= n + 1
    BY Zenon, <2>2, <2>3, LogIsCopy, CopyFacts
  <2>5. CASE k <= n
    <3>1. k \in 0..n /\ k > log[i].base
      BY <2>4, <2>5
    <3> QED
      BY Zenon, <2>1, <2>2, <2>3, <2>4, <2>5, <3>1, LogIsCopy, CopyFacts
  <2>6. CASE k = n + 1
    BY <2>2, <2>3, <2>6
  <2> QED
    BY <2>4, <2>5, <2>6
<1>2. ASSUME NEW i \in Node, NEW idx \in Nat, idx > log[i].base, x = CutOff(i, idx)
      PROVE  HasEntry(log[i], k) /\ EntryAt(x, k) = EntryAt(log[i], k)
  <2>1. log[i] \in Log
    BY Zenon DEF TypeOK, LogTypes
  <2>2. x = [base |-> idx - 1, baseTerm |-> LogTermAt(log[i], idx - 1),
              entries |-> EntriesFrom(log[i], idx)]
    BY Zenon, <1>2 DEF CutOff
  <2>3. PartOf(log[i], x)
    BY Zenon, <1>2, <2>1, <2>2, CutIsPart
  <2> QED
    BY Zenon, <2>3 DEF PartOf
<1>3. ASSUME NEW c \in appendCalls, AppendMatch(c),
             x = MergeEntries(log[c.dst], c.prevLogIndex, c.entries)
      PROVE  \/ HasEntry(log[c.dst], k) /\ EntryAt(x, k) = EntryAt(log[c.dst], k)
             \/ HasEntry(Segment(c), k) /\ EntryAt(x, k) = EntryAt(Segment(c), k)
  <2> DEFINE l == log[c.dst]
             r == Segment(c)
  <2>1. MergedBy(l, r, x)
    BY Zenon, <1>3, MergeMade DEF l, r
  <2>2. r \in Copy /\ l \in Copy
    BY Zenon, CopyTypes, LogIsCopy, <2>1 DEF MergedBy
  <2> HIDE DEF l, r
  <2>3. PICK p \in Nat, n \in Nat, z \in Nat :
          /\ p = r.base /\ n = LastLogIndex(l) /\ z = LastLogIndex(r)
          /\ p <= n /\ l.base = 0 /\ k > 0 /\ k <= z
    BY Zenon, <2>1, <2>2, LogIsCopy, CopyFacts DEF MergedBy
  <2>4. CASE k <= p
    <3>1. k \in 1..p /\ k <= n
      BY <2>3, <2>4
    <3> QED
      BY Zenon, <2>1, <2>2, <2>3, <3>1, CopyFacts DEF MergedBy, l, r
  <2>5. CASE k > p
    BY Zenon, <2>1, <2>2, <2>3, <2>5, CopyFacts DEF MergedBy, l, r
  <2> QED
    BY <2>3, <2>4, <2>5
<1>4. \A c \in appendCalls : c.dst \in Node
  BY Zenon DEF TypeOK, CallTypes, AppendCall
<1>5. CASE Proposes(x)
  BY Zenon, <1>1, <1>5, CopyTypes DEF Proposes
<1>6. CASE Cuts(x)
  BY Zenon, <1>2, <1>6, CopyTypes DEF Cuts
<1>7. CASE Merges(x)
  BY Zenon, <1>3, <1>4, <1>7, CopyTypes DEF Merges
<1> QED
  BY Zenon, <1>5, <1>6, <1>7 DEF Makes


\* A made copy matches the copies there are.
LEMMA MadeMatches ==
  ASSUME TypeOK, NoCompaction, LeadersAreAhead, CopiesMatch, NEW x, Makes(x), NEW b \in Copies
  PROVE  x \in Copy /\ LogsMatch(x, b)
<1>0. b \in Copy
  BY Zenon, CopyTypes
<1>1. ASSUME NEW i \in Node, NEW cmd \in Command, Propose(i, cmd),
             x = AppendEntry(log[i], [term |-> term[i], cmd |-> cmd])
      PROVE  x \in Copy /\ LogsMatch(x, b)
  <2>1. log[i] \in Log /\ [term |-> term[i], cmd |-> cmd] \in Entry
    BY Zenon DEF TypeOK, LogTypes, ServerTypes, Entry
  <2>2. log[i] \in Copy /\ LogsMatch(log[i], b)
    BY Zenon, <2>1, CopyTypes, LogIsCopy DEF CopiesMatch
  <2>3. PICK n \in Nat : n = LastLogIndex(log[i])
    BY Zenon, <2>2, CopyFacts
  <2>4. /\ x \in Log /\ x.base = log[i].base /\ LastLogIndex(x) = n + 1
        /\ \A k \in 0..n : LogTermAt(x, k) = LogTermAt(log[i], k)
        /\ \A k \in 0..n : k > log[i].base => EntryAt(x, k) = EntryAt(log[i], k)
        /\ EntryAt(x, n + 1) = [term |-> term[i], cmd |-> cmd]
    <3>1. AppendedTo(log[i], [term |-> term[i], cmd |-> cmd], x)
      BY Zenon, <1>1, <2>1, AppendByIndex
    <3> QED
      BY Zenon, <2>3, <3>1 DEF AppendedTo
  <2>5. ~MeetAt(x, b, n + 1)
    <3> SUFFICES ASSUME MeetAt(x, b, n + 1) PROVE FALSE
      BY Zenon
    <3>1. HasEntry(b, n + 1) /\ EntryAt(b, n + 1).term = term[i]
      BY <2>4 DEF MeetAt
    <3>2. LastLogIndex(b) \in Nat /\ n + 1 <= LastLogIndex(b)
      BY <1>0, <3>1, CopyFacts
    <3>3. n + 1 \in 1..LastLogIndex(b)
      BY <3>2
    <3>4. role[i] = "leader"
      BY Zenon, <1>1 DEF Propose
    <3>5. n + 1 <= n
      BY Zenon, <2>3, <3>1, <3>3, <3>4 DEF LeadersAreAhead
    <3> QED
      BY <3>5
  <2>6. x \in Copy
    BY Zenon, <2>4, LogIsCopy
  <2> QED
    BY Zenon, <1>0, <2>2, <2>3, <2>4, <2>5, <2>6, MatchAppend
<1>2. ASSUME NEW i \in Node, NEW idx \in Nat, idx > log[i].base, x = CutOff(i, idx)
      PROVE  x \in Copy /\ LogsMatch(x, b)
  <2>1. log[i] \in Log /\ log[i] \in Copy /\ LogsMatch(log[i], b)
    BY Zenon, CopyTypes, LogIsCopy DEF CopiesMatch
  <2>2. x = [base |-> idx - 1, baseTerm |-> LogTermAt(log[i], idx - 1),
              entries |-> EntriesFrom(log[i], idx)]
    BY Zenon, <1>2 DEF CutOff
  <2>3. /\ x \in Copy /\ x.base >= log[i].base
        /\ LogTermAt(x, x.base) = LogTermAt(log[i], x.base)
        /\ \A k \in Nat : HasEntry(x, k) => HasEntry(log[i], k) /\ EntryAt(x, k) = EntryAt(log[i], k)
    <3>1. PartOf(log[i], x)
      BY Zenon, <1>2, <2>1, <2>2, CutIsPart
    <3> QED
      BY Zenon, <3>1 DEF PartOf
  <2> QED
    BY Zenon, <1>0, <2>1, <2>3, MatchCut
<1>3. ASSUME NEW c \in appendCalls, AppendMatch(c),
             x = MergeEntries(log[c.dst], c.prevLogIndex, c.entries)
      PROVE  x \in Copy /\ LogsMatch(x, b)
  <2> DEFINE l == log[c.dst]
             r == Segment(c)
  <2>1. MergedBy(l, r, x)
    BY Zenon, <1>3, MergeMade
  <2>2. l \in Copies /\ r \in Copies
    <3>1. c.dst \in Node
      BY Zenon DEF TypeOK, CallTypes, AppendCall
    <3> QED
      BY Zenon, <3>1, CopyTypes
  <2> HIDE DEF l, r
  <2>3. l \in Copy /\ r \in Copy /\ LogsMatch(l, b) /\ LogsMatch(r, b)
    BY Zenon, <2>2, CopyTypes DEF CopiesMatch
  <2>4. x \in Copy
    BY Zenon, <2>1, LogIsCopy DEF MergedBy
  <2> QED
    BY Zenon, <1>0, <2>1, <2>3, <2>4, MergeMatches
<1> QED
  BY Zenon, <1>1, <1>2, <1>3 DEF Makes, Proposes, Cuts, Merges

\* A leader goes on leading with the log it has, or with one that a proposal has extended.
LEMMA LeadersLog ==
  ASSUME TypeOK, TypeOK', FileInv, VoteInv, LeaderInv, [Next]_vars, NEW i \in Node,
         role[i] = "leader", role'[i] = "leader"
  PROVE  /\ term'[i] = term[i]
         /\ \/ log'[i] = log[i]
            \/ \E cmd \in Command : Propose(i, cmd)
<1>1. Stays(i) \/ Wins(i)
  BY Zenon, EveryStep DEF ServerStep, StepsDown, Follows, Stands
<1>2. term'[i] = term[i]
  BY Zenon, <1>1 DEF Stays, Wins
<1>3. ~Reloads(i)
  BY Zenon DEF Reloads, Restart, TypeOK, ServerTypes
<1>4. ASSUME NEW c \in appendCalls, c.dst = i, AppendMatch(c) PROVE FALSE
  BY Zenon, <1>4 DEF AppendMatch, FollowSender, TypeOK, ServerTypes
<1> QED
  BY Zenon, <1>2, <1>3, <1>4, LogChanges


\* The three facts about the copies go together: the entries of a step come from copies
\* or from a proposal, a proposer is ahead of all copies with its term, and a new leader
\* finds no entry of its term.
LEMMA MatchStep ==
  ASSUME ElectionLayers, ElectionLayers', MatchInv, [Next]_vars
  PROVE  MatchInv'
<1> SUFFICES ASSUME OneLeaderPerTerm'
             PROVE  EntriesHaveLeaders' /\ LeadersAreAhead' /\ CopiesMatch'
  BY Zenon DEF MatchInv
<1>0. /\ TypeOK /\ TypeOK' /\ NoCompaction /\ FileInv /\ VoteInv /\ LeaderInv
  BY Zenon DEF ElectionLayers
<1>1. elected \subseteq elected' /\ OneLeaderPerTerm
  <2>1. elected \subseteq elected'
    BY Zenon, <1>0, Victories
  <2> QED
    BY Zenon, <2>1 DEF OneLeaderPerTerm
<1>2. EntriesHaveLeaders /\ LeadersAreAhead /\ CopiesMatch
  BY Zenon, <1>1 DEF MatchInv
<1>3. /\ \A a \in Copies : a \in Copy
      /\ \A a \in Copies' : a \in Copy
      /\ \A i \in Node : LastLogIndex(log[i]) \in Nat /\ log[i] \in Log
  <2>1. \A a \in Copies' : a \in Copy
    <3>1. \A i \in Node : log'[i] \in Log /\ disk'[i].log \in Log
      BY Zenon, <1>0 DEF TypeOK, LogTypes, DiskTypes, RaftState
    <3>2. \A c \in appendCalls' : Segment(c) \in Copy
      BY Zenon, <1>0 DEF TypeOK, CallTypes, AppendCall, Segment, Copy
    <3> QED
      BY ZenonT(40), <3>1, <3>2, LogIsCopy DEF Copies, Segment
  <2> QED
    BY ZenonT(40), <1>0, <2>1, CopyTypes, LogIsCopy, CopyFacts
<1>4. ASSUME NEW a \in Copies', NEW k \in Nat, HasEntry(a, k)
      PROVE  \/ \E b \in Copies : HasEntry(b, k) /\ EntryAt(b, k).term = EntryAt(a, k).term
             \/ \E i \in Node : \E cmd \in Command :
                  /\ Propose(i, cmd)
                  /\ k = LastLogIndex(log[i]) + 1 /\ EntryAt(a, k).term = term[i]
  BY Zenon, <1>0, <1>2, <1>4, CopySteps, TermSources
<1>5. ASSUME NEW a \in Copies, NEW k \in Nat, HasEntry(a, k)
      PROVE  /\ \E i \in Node : <<i, EntryAt(a, k).term>> \in elected
             /\ \A i \in Node : role[i] = "leader" /\ EntryAt(a, k).term = term[i]
                                  => k <= LastLogIndex(log[i])
  <2>1. LastLogIndex(a) \in Nat /\ a.base \in Nat /\ a.base < k /\ k <= LastLogIndex(a)
    BY Zenon, <1>3, <1>5, CopyFacts
  <2>2. k \in 1..LastLogIndex(a)
    BY <2>1
  <2> QED
    BY Zenon, <1>2, <1>5, <2>2 DEF EntriesHaveLeaders, LeadersAreAhead
<1>6. ASSUME NEW a \in Copies', NEW k \in 1..LastLogIndex(a), HasEntry(a, k)
      PROVE  k \in Nat
  BY <1>3, <1>6, CopyFacts
<1>7. EntriesHaveLeaders'
  <2>1. ASSUME NEW i \in Node, NEW cmd \in Command, Propose(i, cmd)
        PROVE  <<i, term[i]>> \in elected
    BY Zenon, <1>0, <2>1 DEF Propose, LeaderInv, ElectedInv
  <2>2. ASSUME NEW a \in Copies', NEW k \in 1..LastLogIndex(a), HasEntry(a, k)
        PROVE  \E i \in Node : <<i, EntryAt(a, k).term>> \in elected'
    <3>1. \E i \in Node : <<i, EntryAt(a, k).term>> \in elected
      <4>1. CASE \E b \in Copies : HasEntry(b, k) /\ EntryAt(b, k).term = EntryAt(a, k).term
        <5>1. PICK b \in Copies : HasEntry(b, k) /\ EntryAt(b, k).term = EntryAt(a, k).term
          BY Zenon, <4>1
        <5>2. \E i \in Node : <<i, EntryAt(b, k).term>> \in elected
          BY Zenon, <1>5, <1>6, <2>2, <5>1
        <5> QED
          BY Zenon, <5>1, <5>2
      <4>2. CASE \E i \in Node : \E cmd \in Command :
                   Propose(i, cmd) /\ EntryAt(a, k).term = term[i]
        BY Zenon, <2>1, <4>2
      <4> QED
        BY Zenon, <1>4, <1>6, <2>2, <4>1, <4>2
    <3> QED
      BY Zenon, <1>1, <3>1
  <2> QED
    BY Zenon, <2>2 DEF EntriesHaveLeaders
<1>8. LeadersAreAhead'
  <2> SUFFICES ASSUME NEW i \in Node, role'[i] = "leader",
                      NEW a \in Copies', NEW k \in 1..LastLogIndex(a), HasEntry(a, k),
                      EntryAt(a, k).term = term'[i]
               PROVE  k <= LastLogIndex(log'[i])
    BY Zenon DEF LeadersAreAhead
  <2>0. k \in Nat
    BY Zenon, <1>6
  <2>1. CASE role[i] = "leader"
    <3>1. term'[i] = term[i] /\ (log'[i] = log[i] \/ \E cmd \in Command : Propose(i, cmd))
      BY Zenon, <1>0, <2>1, LeadersLog
    <3>2. LastLogIndex(log'[i]) = LastLogIndex(log[i])
          \/ LastLogIndex(log'[i]) = LastLogIndex(log[i]) + 1
      <4>1. ASSUME NEW cmd \in Command, Propose(i, cmd)
            PROVE  LastLogIndex(log'[i]) = LastLogIndex(log[i]) + 1
        <5>1. log'[i] = AppendEntry(log[i], [term |-> term[i], cmd |-> cmd])
              /\ [term |-> term[i], cmd |-> cmd] \in Entry
          BY Zenon, <1>0, <4>1 DEF Propose, TypeOK, LogTypes, ServerTypes, Entry
        <5>2. AppendedTo(log[i], [term |-> term[i], cmd |-> cmd], log'[i])
          BY Zenon, <1>3, <5>1, AppendByIndex
        <5> QED
          BY Zenon, <5>2 DEF AppendedTo
      <4> QED
        BY Zenon, <3>1, <4>1
    <3>3. CASE \E b \in Copies : HasEntry(b, k) /\ EntryAt(b, k).term = EntryAt(a, k).term
      <4>1. k <= LastLogIndex(log[i])
        BY ZenonT(40), <1>5, <2>0, <2>1, <3>1, <3>3
      <4> QED
        BY <1>3, <2>0, <3>2, <4>1
    <3>4. ASSUME NEW j \in Node, NEW cmd \in Command, Propose(j, cmd),
                 k = LastLogIndex(log[j]) + 1, EntryAt(a, k).term = term[j]
          PROVE  k <= LastLogIndex(log'[i])
      <4>1. <<j, term[j]>> \in elected /\ <<i, term[i]>> \in elected /\ term[i] = term[j]
        BY Zenon, <1>0, <2>1, <3>1, <3>4 DEF Propose, LeaderInv, ElectedInv
      <4>2. <<j, term[j]>>[2] = <<i, term[i]>>[2]
        BY Zenon, <4>1
      <4>3. <<j, term[j]>> = <<i, term[i]>>
        BY Zenon, <1>1, <4>1, <4>2 DEF OneLeaderPerTerm
      <4>4. i = j
        BY Zenon, <4>3
      <4>5. log'[i] = AppendEntry(log[i], [term |-> term[i], cmd |-> cmd])
            /\ [term |-> term[i], cmd |-> cmd] \in Entry
        BY Zenon, <1>0, <3>4, <4>4 DEF Propose, TypeOK, LogTypes, ServerTypes, Entry
      <4>6. LastLogIndex(log'[i]) = LastLogIndex(log[i]) + 1
        <5>1. AppendedTo(log[i], [term |-> term[i], cmd |-> cmd], log'[i])
          BY Zenon, <1>3, <4>5, AppendByIndex
        <5> QED
          BY Zenon, <5>1 DEF AppendedTo
      <4> QED
        BY <1>3, <3>4, <4>4, <4>6
    <3> QED
      BY Zenon, <1>4, <2>0, <3>3, <3>4
  <2>2. CASE role[i] # "leader"
    <3>1. <<i, term'[i]>> \notin elected
      BY Zenon, <1>0, <2>2, LeadsOnceStep
    <3>2. <<i, term'[i]>> \in elected'
      BY Zenon DEF ElectionLayers, LeaderInv, ElectedInv
    <3>3. CASE \E j \in Node : <<j, EntryAt(a, k).term>> \in elected
      <4>1. PICK j \in Node : <<j, term'[i]>> \in elected
        BY Zenon, <3>3
      <4>2. <<j, term'[i]>> \in elected' /\ <<j, term'[i]>>[2] = <<i, term'[i]>>[2]
        BY Zenon, <1>1, <4>1
      <4>3. <<j, term'[i]>> = <<i, term'[i]>>
        BY Zenon, <3>2, <4>2 DEF OneLeaderPerTerm
      <4> QED
        BY Zenon, <3>1, <4>1, <4>3
    <3>4. \E j \in Node : <<j, EntryAt(a, k).term>> \in elected
      <4>1. ASSUME NEW j \in Node, NEW cmd \in Command, Propose(j, cmd)
            PROVE  <<j, term[j]>> \in elected
        BY Zenon, <1>0, <4>1 DEF Propose, LeaderInv, ElectedInv
      <4>2. ASSUME NEW b \in Copies, HasEntry(b, k), EntryAt(b, k).term = EntryAt(a, k).term
            PROVE  \E j \in Node : <<j, EntryAt(a, k).term>> \in elected
        <5>1. \E j \in Node : <<j, EntryAt(b, k).term>> \in elected
          BY Zenon, <1>5, <2>0, <4>2
        <5> QED
          BY Zenon, <4>2, <5>1
      <4>3. ASSUME NEW j \in Node, NEW cmd \in Command, Propose(j, cmd), EntryAt(a, k).term = term[j]
            PROVE  \E n \in Node : <<n, EntryAt(a, k).term>> \in elected
        BY Zenon, <4>1, <4>3
      <4> QED
        BY Zenon, <1>4, <2>0, <4>2, <4>3
    <3> QED
      BY Zenon, <3>3, <3>4
  <2> QED
    BY Zenon, <2>1, <2>2
<1>9. CopiesMatch'
  <2>1. ASSUME NEW a \in Copies', NEW b \in Copies' PROVE LogsMatch(a, b)
    <3>1. CASE Copies' \subseteq Copies
      BY Zenon, <1>2, <3>1 DEF CopiesMatch
    <3>2. ASSUME NEW x, Makes(x), Copies' \subseteq Copies \cup {x} PROVE LogsMatch(a, b)
      <4>1. \A c \in Copies : x \in Copy /\ LogsMatch(x, c)
        BY Zenon, <1>0, <1>2, <3>2, MadeMatches
      <4>2. CASE a = x /\ b = x
        BY ZenonT(40), <1>3, <4>2, MatchSelf
      <4>3. CASE a = x /\ b \in Copies
        BY Zenon, <4>1, <4>3
      <4>4. CASE a \in Copies /\ b = x
        BY Zenon, <1>3, <4>1, <4>4, MatchSym
      <4>5. CASE a \in Copies /\ b \in Copies
        BY Zenon, <1>2, <4>5 DEF CopiesMatch
      <4> QED
        BY Zenon, <3>2, <4>2, <4>3, <4>4, <4>5
    <3> QED
      BY Zenon, <1>0, <3>1, <3>2, CopySteps
  <2> QED
    BY Zenon, <2>1 DEF CopiesMatch
<1> QED
  BY Zenon, <1>7, <1>8, <1>9

\* In a cluster whose terms have one leader each, the copies of the log, in memory, in
\* files and in requests, match.
THEOREM AllCopiesMatch == Spec => []MatchInv
<1>1. Init => MatchInv
  <2> SUFFICES ASSUME Init PROVE EntriesHaveLeaders /\ LeadersAreAhead /\ CopiesMatch
    BY Zenon DEF MatchInv
  <2>1. \A a \in Copies : a = EmptyLog
    BY Zenon DEF Init, Copies
  <2>2. LastLogIndex(EmptyLog) = 0
    BY DEF EmptyLog, LastLogIndex
  <2>3. \A a \in Copies : \A k \in 1..LastLogIndex(a) : FALSE
    BY <2>1, <2>2
  <2> QED
    BY Zenon, <2>3 DEF EntriesHaveLeaders, LeadersAreAhead, CopiesMatch, LogsMatch
<1>2. ElectionLayers /\ ElectionLayers' /\ MatchInv /\ [Next]_vars => MatchInv'
  BY Zenon, MatchStep
<1> QED
  BY <1>1, <1>2, LayersInvariant, PTL DEF Spec

\* Two nodes whose logs hold entries of the same term at an index hold the same entries
\* up to it, as long as no term has had two leaders: appends that lost calls, failed saves
\* and crashes cut short never mix the entries of different leaders.
THEOREM LogsMatchEachOther == Spec => []LogMatching
<1>1. ElectionLayers /\ MatchInv => LogMatching
  <2> SUFFICES ASSUME ElectionLayers, CopiesMatch, NEW i \in Node, NEW j \in Node,
                      NEW k \in 1..MaxLog, MeetAt(log[i], log[j], k), NEW m \in 1..k
               PROVE  EntryAt(log[i], m) = EntryAt(log[j], m)
    BY Zenon DEF MatchInv, LogMatching, MeetAt
  <2>1. /\ log[i] \in Copies /\ log[j] \in Copies /\ log[i].base = 0 /\ log[j].base = 0
        /\ log[i] \in Copy /\ log[j] \in Copy
    BY Zenon, CopyTypes DEF ElectionLayers, NoCompaction
  <2>2. k \in Nat /\ m \in 0..k /\ m > 0
    BY BoundsAssumption
  <2>3. SameAt(log[i], log[j], m)
    BY Zenon, <2>1, <2>2, MatchUse DEF CopiesMatch
  <2> QED
    BY Zenon, <2>1, <2>2, <2>3 DEF SameAt
<1> QED
  BY <1>1, LayersInvariant, AllCopiesMatch, PTL

(***************************************************************************)
(* 8. Majorities.                                                          *)
(***************************************************************************)

INSTANCE FiniteSetTheorems

\* A majority of the files holds the term of the winner: those who granted it their
\* vote, and its own.
LEMMA WinnerIsDurable ==
  ASSUME TypeOK, VoteInv, NEW i \in Node, election[i].phase = "collect", HasQuorum(i),
         term[i] = election[i].term
  PROVE  \E q \in SUBSET Node : /\ 2 * Cardinality(q) > Cardinality(Node)
                                /\ \A j \in q : term[i] <= disk[j].term
<1> DEFINE g == election[i].granted
           q == g \cup {i}
<1>1. /\ g \subseteq Node /\ i \notin g
      /\ \A j \in q : term[i] <= disk[j].term
  BY Zenon DEF TypeOK, ElectionTypes, Election, VoteInv, ElectionInv
<1>2. IsFiniteSet(g) /\ Cardinality(g) \in Nat /\ Cardinality(Node) \in Nat
  BY Zenon, <1>1, FS_Subset, FS_CardinalityType, NodeAssumption
<1>3. Cardinality(q) = Cardinality(g) + 1
  BY Zenon, <1>1, <1>2, FS_AddElement
<1>4. Cardinality(g) + 1 >= Cardinality(Node) \div 2 + 1
  BY Zenon DEF HasQuorum, Majority
<1>5. ASSUME NEW m \in Nat, NEW n \in Nat, m + 1 >= n \div 2 + 1
      PROVE  2 * (m + 1) > n
  BY <1>5
<1>6. 2 * Cardinality(q) > Cardinality(Node)
  BY Zenon, <1>2, <1>3, <1>4, <1>5
<1>7. q \in SUBSET Node
  BY Zenon, <1>1
<1> QED
  BY Zenon, <1>1, <1>6, <1>7

\* Every step keeps a majority of files behind each election: files only move on to
\* later terms, and a winner has counted its majority.
LEMMA MajorityStep ==
  ASSUME ElectionLayers, ElectionLayers', ElectionIsDurable, [Next]_vars
  PROVE  ElectionIsDurable'
<1>1. /\ TypeOK /\ TypeOK' /\ FileInv /\ VoteInv
  BY Zenon DEF ElectionLayers
<1>2. /\ elected \subseteq Node \X Nat
      /\ \A i \in Node : disk[i].term <= disk'[i].term
                         /\ disk[i].term \in Nat /\ disk'[i].term \in Nat
  BY Zenon, <1>1, FileStep DEF TypeOK, ElectionTypes, DiskTypes, RaftState
<1>3. ASSUME NEW w \in elected'
      PROVE  \E q \in SUBSET Node : /\ 2 * Cardinality(q) > Cardinality(Node)
                                    /\ \A j \in q : w[2] <= disk'[j].term
  <2>1. CASE w \in elected
    <3>1. PICK q \in SUBSET Node : /\ 2 * Cardinality(q) > Cardinality(Node)
                                   /\ \A j \in q : w[2] <= disk[j].term
      BY Zenon, <2>1 DEF ElectionIsDurable
    <3>2. w[2] \in Nat
      BY Zenon, <1>2, <2>1
    <3>3. ASSUME NEW j \in q PROVE w[2] <= disk'[j].term
      <4>1. w[2] <= disk[j].term
        BY Zenon, <3>1
      <4>2. /\ disk[j].term <= disk'[j].term
            /\ disk[j].term \in Nat /\ disk'[j].term \in Nat
        BY Zenon, <1>2
      <4> QED
        BY <3>2, <4>1, <4>2
    <3> QED
      BY Zenon, <3>1, <3>3
  <2>2. CASE w \notin elected
    <3>1. PICK i \in Node : WinElection(i)
      BY Zenon, <1>1, <2>2, Victories
    <3>2. /\ w = <<i, term[i]>> /\ disk' = disk
          /\ election[i].phase = "collect" /\ HasQuorum(i) /\ term[i] = election[i].term
      BY <1>1, <2>2, <3>1, Victories
    <3> QED
      BY Zenon, <1>1, <3>2, WinnerIsDurable
  <2> QED
    BY Zenon, <2>1, <2>2
<1> QED
  BY Zenon, <1>3 DEF ElectionIsDurable

\* Every election won is backed by the files of a majority, for clusters of any size.
THEOREM ElectionsAreDurable == Spec => []ElectionIsDurable
<1>1. Init => ElectionIsDurable
  BY Zenon DEF Init, ElectionIsDurable
<1>2. ElectionLayers /\ ElectionLayers' /\ ElectionIsDurable /\ [Next]_vars => ElectionIsDurable'
  BY Zenon, MajorityStep
<1> QED
  BY <1>1, <1>2, LayersInvariant, PTL DEF Spec
=============================================================================
