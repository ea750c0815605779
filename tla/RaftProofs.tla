----------------------------- MODULE RaftProofs -----------------------------
(* Proofs about Raft: election safety, the exclusion its locks give, and what *)
(* append_entries leaves in a log.                                            *)
EXTENDS Raft, ListProofs

AppendCall == [at : {"offered", "checked", "stored"}, node : Node, req : AppendRequest]
VoteCall   == [at : {"asked", "locked", "indexOk"}, node : Node, req : VoteRequest]

Holds(t, n) == Busy(t, n, {"locked", "indexOk"})

\* A vote once granted stays what voted_for says.  Between the look at
\* voted_for and the writing of it the lock keeps every other thread out, so
\* that the look is still right.
VoteInv ==
    /\ votedFor \in [Node -> Candidate \cup {None}]
    /\ call \in [Thread -> AppendCall \cup VoteCall \cup {None}]
    /\ \A g \in granted : /\ g.node \in Node
                          /\ g.candidate \in Candidate
                          /\ votedFor[g.node] = g.candidate
    /\ \A t \in Thread, n \in Node : Holds(t, n) =>
         /\ call[t].req \in VoteRequest
         /\ votedFor[n] \in {None, call[t].req.candidate}
         /\ \A u \in Thread : Holds(u, n) => u = t

LEMMA VoteInvInit == Init => VoteInv
BY DEF Init, VoteInv, Holds, Busy

\* A step that grants nothing and lets no thread look at voted_for.
LEMMA NoVoteStep ==
    ASSUME VoteInv, UNCHANGED <<votedFor, granted>>,
           call' \in [Thread -> AppendCall \cup VoteCall \cup {None}],
           \A t \in Thread, n \in Node : Holds(t, n)' =>
              Holds(t, n) /\ call'[t].req = call[t].req
    PROVE  VoteInv'
<1>1. ASSUME NEW t \in Thread, NEW n \in Node, Holds(t, n)'
      PROVE  /\ call'[t].req \in VoteRequest
             /\ votedFor'[n] \in {None, call'[t].req.candidate}
             /\ \A u \in Thread : Holds(u, n)' => u = t
  BY <1>1 DEF VoteInv
<1>2. \A g \in granted' : /\ g.node \in Node
                          /\ g.candidate \in Candidate
                          /\ votedFor'[g.node] = g.candidate
  BY DEF VoteInv
<1> QED
  BY <1>1, <1>2 DEF VoteInv

\* A call that enters or returns holds no lock afterwards.
LEMMA CallReplaced ==
    ASSUME VoteInv, UNCHANGED <<votedFor, granted>>, NEW t \in Thread,
           NEW c \in AppendCall \cup VoteCall \cup {None},
           c = None \/ c.at \notin {"locked", "indexOk"},
           call' = [call EXCEPT ![t] = c]
    PROVE  VoteInv'
<1>1. call' \in [Thread -> AppendCall \cup VoteCall \cup {None}]
  BY DEF VoteInv
<1>2. ASSUME NEW u \in Thread, NEW n \in Node, Holds(u, n)'
      PROVE  Holds(u, n) /\ call'[u].req = call[u].req
  <2>1. CASE u = t
    BY <2>1, <1>2 DEF VoteInv, Holds, Busy
  <2>2. CASE u # t
    BY <2>2, <1>2 DEF VoteInv, Holds, Busy
  <2> QED
    BY <2>1, <2>2
<1> QED
  BY <1>1, <1>2, NoVoteStep

\* An append call that moves on stays one, and holds no lock on voted_for.
LEMMA AppendMoves ==
    ASSUME VoteInv, UNCHANGED <<votedFor, granted>>, NEW t \in Thread, NEW n \in Node,
           Busy(t, n, {"offered", "checked", "stored"}),
           NEW at \in {"checked", "stored"}, Moves(t, at)
    PROVE  VoteInv'
<1>1. call[t] \in AppendCall
  BY DEF VoteInv, Busy, VoteCall, AppendCall
<1>2. [call[t] EXCEPT !.at = at] \in AppendCall
  BY <1>1 DEF AppendCall
<1>3. call' = [call EXCEPT ![t] = [call[t] EXCEPT !.at = at]]
  BY DEF Moves
<1>4. [call[t] EXCEPT !.at = at].at = at
  BY <1>1 DEF AppendCall
<1> QED
  BY <1>2, <1>3, <1>4, CallReplaced

\* Whoever finds voted_for unlocked becomes its only holder.
LEMMA LocksVote ==
    ASSUME VoteInv, NEW t \in Thread, NEW n \in Node, VoteLocks(t, n)
    PROVE  VoteInv'
<1>1. UNCHANGED <<votedFor, granted>>
  BY DEF VoteLocks
<1>2. CASE Returns(t)
  BY <1>1, <1>2, CallReplaced DEF Returns
<1>3. CASE votedFor[n] \in {None, call[t].req.candidate} /\ Moves(t, "locked")
  <2>1. call[t] \in VoteCall /\ call[t].node = n
    BY DEF VoteLocks, Busy, VoteInv, AppendCall, VoteCall
  <2>2. /\ call' = [call EXCEPT ![t] = [call[t] EXCEPT !.at = "locked"]]
        /\ [call[t] EXCEPT !.at = "locked"] \in VoteCall
        /\ [call[t] EXCEPT !.at = "locked"].node = n
        /\ [call[t] EXCEPT !.at = "locked"].req = call[t].req
        /\ call[t].req \in VoteRequest
    BY <1>3, <2>1 DEF Moves, VoteCall
  <2>3. call' \in [Thread -> AppendCall \cup VoteCall \cup {None}]
    BY <2>2 DEF VoteInv
  <2>4. \A u \in Thread : ~Holds(u, n)
    BY DEF VoteLocks, VoteFree, Holds
  <2>5. ASSUME NEW u \in Thread, NEW m \in Node, Holds(u, m)'
        PROVE  /\ call'[u].req \in VoteRequest
               /\ votedFor'[m] \in {None, call'[u].req.candidate}
               /\ \A v \in Thread : Holds(v, m)' => v = u
    <3>1. \A v \in Thread : v # t => call'[v] = call[v]
      BY <2>2 DEF VoteInv
    <3>2. call'[t].node = n /\ call'[t].req = call[t].req
      BY <2>2 DEF VoteInv
    <3>3. CASE m = n
      <4>1. \A v \in Thread : Holds(v, n)' => v = t
        BY <2>4, <3>1 DEF Holds, Busy
      <4> QED
        BY <1>1, <1>3, <2>2, <2>5, <3>2, <3>3, <4>1
    <3>4. CASE m # n
      <4>1. ~Holds(t, m)'
        BY <3>2, <3>4 DEF Holds, Busy
      <4>2. \A v \in Thread : Holds(v, m)' => Holds(v, m) /\ call'[v] = call[v]
        BY <3>1, <4>1 DEF Holds, Busy
      <4> QED
        BY <1>1, <2>5, <4>2 DEF VoteInv
    <3> QED
      BY <3>3, <3>4
  <2> QED
    BY <1>1, <2>3, <2>5 DEF VoteInv
<1> QED
  BY <1>2, <1>3 DEF VoteLocks

\* The holder compares indices and goes on holding, or returns.
LEMMA ChecksIndex ==
    ASSUME VoteInv, NEW t \in Thread, NEW n \in Node, VoteChecksIndex(t, n)
    PROVE  VoteInv'
<1>1. UNCHANGED <<votedFor, granted>>
  BY DEF VoteChecksIndex
<1>2. CASE Returns(t)
  BY <1>1, <1>2, CallReplaced DEF Returns
<1>3. CASE Moves(t, "indexOk")
  <2>1. call[t] \in VoteCall /\ Holds(t, n) /\ call[t].node = n
    BY DEF VoteChecksIndex, Holds, Busy, VoteInv, AppendCall, VoteCall
  <2>2. /\ call' = [call EXCEPT ![t] = [call[t] EXCEPT !.at = "indexOk"]]
        /\ [call[t] EXCEPT !.at = "indexOk"] \in VoteCall
        /\ [call[t] EXCEPT !.at = "indexOk"].node = n
        /\ [call[t] EXCEPT !.at = "indexOk"].req = call[t].req
    BY <1>3, <2>1 DEF Moves, VoteCall
  <2>3. call' \in [Thread -> AppendCall \cup VoteCall \cup {None}]
    BY <2>2 DEF VoteInv
  <2>4. ASSUME NEW u \in Thread, NEW m \in Node, Holds(u, m)'
        PROVE  Holds(u, m) /\ call'[u].req = call[u].req
    <3>1. CASE u = t
      BY <2>1, <2>2, <2>4, <3>1 DEF Holds, Busy, VoteInv
    <3>2. CASE u # t
      BY <2>2, <2>4, <3>2 DEF Holds, Busy, VoteInv
    <3> QED
      BY <3>1, <3>2
  <2> QED
    BY <1>1, <2>3, <2>4, NoVoteStep
<1> QED
  BY <1>2, <1>3 DEF VoteChecksIndex

\* The grant: what voted_for said when it was locked is what it says still.
LEMMA GrantsVote ==
    ASSUME VoteInv, NEW t \in Thread, NEW n \in Node, VoteChecksTerm(t, n)
    PROVE  VoteInv'
<1> DEFINE m == call[t].req
<1>1. Returns(t) /\ Holds(t, n)
  BY DEF VoteChecksTerm, Holds, Busy
<1>2. CASE UNCHANGED <<votedFor, granted>>
  BY <1>1, <1>2, CallReplaced DEF Returns
<1>3. CASE /\ votedFor' = [votedFor EXCEPT ![n] = m.candidate]
           /\ granted' = granted \cup
                {[node |-> n, candidate |-> m.candidate, term |-> m.term]}
  <2>1. /\ m.candidate \in Candidate
        /\ votedFor[n] \in {None, m.candidate}
        /\ \A u \in Thread : Holds(u, n) => u = t
    BY <1>1 DEF VoteInv, Candidate
  <2>2. /\ call' \in [Thread -> AppendCall \cup VoteCall \cup {None}]
        /\ call'[t] = None
        /\ \A u \in Thread : u # t => call'[u] = call[u]
    BY <1>1 DEF Returns, VoteInv
  <2>3. /\ votedFor' \in [Node -> Candidate \cup {None}]
        /\ votedFor'[n] = m.candidate
        /\ \A k \in Node : k # n => votedFor'[k] = votedFor[k]
    BY <1>3, <2>1 DEF VoteInv
  <2>4. ASSUME NEW g \in granted'
        PROVE  g.node \in Node /\ g.candidate \in Candidate /\ votedFor'[g.node] = g.candidate
    <3>1. CASE g \in granted
      <4>1. g.node \in Node /\ g.candidate \in Candidate /\ votedFor[g.node] = g.candidate
        BY <3>1 DEF VoteInv
      <4>2. g.candidate # None
        BY <4>1, RaftAssumption
      <4> QED
        BY <2>1, <2>3, <4>1, <4>2
    <3>2. CASE g = [node |-> n, candidate |-> m.candidate, term |-> m.term]
      BY <2>1, <2>3, <3>2
    <3> QED
      BY <1>3, <3>1, <3>2
  <2>5. ASSUME NEW u \in Thread, NEW k \in Node, Holds(u, k)'
        PROVE  Holds(u, k) /\ call'[u] = call[u] /\ k # n
    <3>1. u # t
      BY <2>2, <2>5 DEF Holds, Busy
    <3>2. Holds(u, k) /\ call'[u] = call[u]
      BY <2>2, <2>5, <3>1 DEF Holds, Busy
    <3> QED
      BY <2>1, <3>1, <3>2
  <2>6. ASSUME NEW u \in Thread, NEW k \in Node, Holds(u, k)'
        PROVE  /\ call'[u].req \in VoteRequest
               /\ votedFor'[k] \in {None, call'[u].req.candidate}
               /\ \A v \in Thread : Holds(v, k)' => v = u
    BY <2>3, <2>5, <2>6 DEF VoteInv
  <2> QED
    BY <2>2, <2>3, <2>4, <2>6 DEF VoteInv
<1> QED
  BY <1>2, <1>3 DEF VoteChecksTerm

LEMMA VoteInvStep == VoteInv /\ [Next]_vars => VoteInv'
<1> SUFFICES ASSUME VoteInv, [Next]_vars PROVE VoteInv'
  OBVIOUS
<1>1. ASSUME NEW t \in Thread, NEW n \in Node, NEW m \in VoteRequest, VoteReadsTerm(t, n, m)
      PROVE  VoteInv'
  <2>1. [at |-> "asked", node |-> n, req |-> m] \in VoteCall
    BY DEF VoteCall
  <2> QED
    BY <1>1, <2>1, CallReplaced DEF VoteReadsTerm, Enter
<1>2. ASSUME NEW t \in Thread, NEW n \in Node, NEW m \in AppendRequest, AppendReadsTerm(t, n, m)
      PROVE  VoteInv'
  <2>1. [at |-> "offered", node |-> n, req |-> m] \in AppendCall
    BY DEF AppendCall
  <2> QED
    BY <1>2, <2>1, CallReplaced DEF AppendReadsTerm, Enter
<1>3. ASSUME NEW t \in Thread, NEW n \in Node, AppendChecksLength(t, n) PROVE VoteInv'
  <2>1. CASE Returns(t)
    BY <1>3, <2>1, CallReplaced DEF AppendChecksLength, Returns
  <2>2. CASE Moves(t, "checked")
    <3>1. Busy(t, n, {"offered", "checked", "stored"})
      BY <1>3 DEF AppendChecksLength, Busy
    <3> QED
      BY <1>3, <2>2, <3>1, AppendMoves DEF AppendChecksLength
  <2> QED
    BY <1>3, <2>1, <2>2 DEF AppendChecksLength
<1>4. ASSUME NEW t \in Thread, NEW n \in Node, AppendStores(t, n) PROVE VoteInv'
  <2>1. CASE Returns(t)
    BY <1>4, <2>1, CallReplaced DEF AppendStores, Returns
  <2>2. CASE Moves(t, "stored")
    <3>1. Busy(t, n, {"offered", "checked", "stored"})
      BY <1>4 DEF AppendStores, Busy
    <3> QED
      BY <1>4, <2>2, <3>1, AppendMoves DEF AppendStores
  <2> QED
    BY <1>4, <2>1, <2>2 DEF AppendStores
<1>5. ASSUME NEW t \in Thread, NEW n \in Node, AppendCommits(t, n) PROVE VoteInv'
  BY <1>5, CallReplaced DEF AppendCommits, Returns
<1>6. CASE UNCHANGED <<votedFor, granted, call>>
  BY <1>6 DEF VoteInv, Holds, Busy
<1>7. ASSUME NEW n \in Node, Set(n) PROVE VoteInv'
  BY <1>6, <1>7 DEF Set, AppendLog, BecomeCandidate, BecomeFollower, SetCommitIndex
<1>8. CASE UNCHANGED vars
  BY <1>6, <1>8 DEF vars
<1>9. CASE Rest
  BY <1>8, <1>9 DEF Rest
<1> QED
  BY <1>1, <1>2, <1>3, <1>4, <1>5, <1>7, <1>8, <1>9, LocksVote, ChecksIndex, GrantsVote
     DEF Next, Handle

\* For any nodes, threads, quorums and requests: no two candidates are given
\* the votes of a quorum in one term (request_vote).
THEOREM ElectionSafety == Spec => []AtMostOneElected
<1>1. VoteInv => AtMostOneElected
  <2> SUFFICES ASSUME VoteInv, NEW g \in granted, NEW h \in granted, g.term = h.term,
                      NEW q \in Quorum, q \subseteq Voters(g.candidate, g.term),
                      NEW r \in Quorum, r \subseteq Voters(h.candidate, h.term)
               PROVE  g.candidate = h.candidate
    BY DEF AtMostOneElected
  <2>1. PICK n : n \in q /\ n \in r
    BY RaftAssumption
  <2>2. PICK x \in granted : x.node = n /\ x.candidate = g.candidate
    BY <2>1 DEF Voters
  <2>3. PICK y \in granted : y.node = n /\ y.candidate = h.candidate
    BY <2>1 DEF Voters
  <2> QED
    BY <2>2, <2>3 DEF VoteInv
<1> QED
  BY VoteInvInit, VoteInvStep, <1>1, PTL DEF Spec

-----------------------------------------------------------------------------
(* Types, and the exclusion of the lock of the log. *)

Stores(t, n) == Busy(t, n, {"stored"})

\* At most one thread is between the writing of a node's log and the end of
\* append_entries.
StoreInv ==
    /\ term \in [Node -> 0 .. MaxTerm]
    /\ \A n \in Node : \A t, u \in Thread : Stores(t, n) /\ Stores(u, n) => t = u

\* A step that lets no further thread store, and keeps or changes the term
\* within its type.
LEMMA NoStoreStep ==
    ASSUME StoreInv, term' \in [Node -> 0 .. MaxTerm],
           \A u \in Thread, k \in Node : Stores(u, k)' => Stores(u, k)
    PROVE  StoreInv'
BY DEF StoreInv

\* A call replaced by one that does not store.
LEMMA CallLeavesLog ==
    ASSUME StoreInv, VoteInv, UNCHANGED term, NEW t \in Thread, NEW c,
           c = None \/ c.at # "stored", call' = [call EXCEPT ![t] = c]
    PROVE  StoreInv'
<1>1. \A u \in Thread : u # t => call'[u] = call[u]
  BY DEF VoteInv
<1>2. \A k \in Node : ~Stores(t, k)'
  BY DEF VoteInv, Stores, Busy
<1>3. \A u \in Thread, k \in Node : Stores(u, k)' => Stores(u, k)
  BY <1>1, <1>2 DEF Stores, Busy
<1>4. term' \in [Node -> 0 .. MaxTerm]
  BY DEF StoreInv
<1> QED
  BY <1>3, <1>4, NoStoreStep

\* A call that moves on to anything but storing.
LEMMA MovesLeaveLog ==
    ASSUME StoreInv, VoteInv, UNCHANGED term, NEW t \in Thread, call[t] # None,
           NEW at \in {"locked", "indexOk", "checked"}, Moves(t, at)
    PROVE  StoreInv'
<1>1. call[t] \in AppendCall \cup VoteCall
  BY DEF VoteInv
<1>2. [call[t] EXCEPT !.at = at].at = at
  BY <1>1 DEF AppendCall, VoteCall
<1>3. call' = [call EXCEPT ![t] = [call[t] EXCEPT !.at = at]]
  BY DEF Moves
<1> QED
  BY <1>2, <1>3, CallLeavesLog

\* Whoever finds the log unlocked is the only one to store.
LEMMA StoresAlone ==
    ASSUME StoreInv, VoteInv, NEW t \in Thread, NEW n \in Node, AppendStores(t, n)
    PROVE  StoreInv'
<1>1. CASE Returns(t)
  BY <1>1, CallLeavesLog DEF AppendStores, Returns
<1>2. CASE Moves(t, "stored")
  <2>1. call[t] \in AppendCall \cup VoteCall /\ call[t].node = n
    BY DEF AppendStores, Busy, VoteInv
  <2>2. call' = [call EXCEPT ![t] = [call[t] EXCEPT !.at = "stored"]]
    BY <1>2 DEF Moves
  <2>3. call'[t].node = n /\ \A u \in Thread : u # t => call'[u] = call[u]
    BY <2>1, <2>2 DEF VoteInv, AppendCall, VoteCall
  <2>4. \A u \in Thread : ~Stores(u, n)
    BY DEF AppendStores, LogFree, Stores
  <2>5. ASSUME NEW k \in Node, NEW u \in Thread, NEW v \in Thread,
               Stores(u, k)', Stores(v, k)'
        PROVE  u = v
    <3>1. CASE k = n
      BY <2>3, <2>4, <2>5, <3>1 DEF Stores, Busy
    <3>2. CASE k # n
      BY <2>3, <2>5, <3>2 DEF StoreInv, Stores, Busy
    <3> QED
      BY <3>1, <3>2
  <2> QED
    BY <2>5 DEF StoreInv, AppendStores
<1> QED
  BY <1>1, <1>2 DEF AppendStores

LEMMA StoreInvStep == StoreInv /\ VoteInv /\ [Next]_vars => StoreInv'
<1> SUFFICES ASSUME StoreInv, VoteInv, [Next]_vars PROVE StoreInv'
  OBVIOUS
<1>1. ASSUME NEW t \in Thread, NEW n \in Node, NEW m, NEW at \in {"asked", "offered"},
             Enter(t, [at |-> at, node |-> n, req |-> m]), UNCHANGED term
      PROVE  StoreInv'
  <2>1. [at |-> at, node |-> n, req |-> m].at # "stored"
    OBVIOUS
  <2> QED
    BY <1>1, <2>1, CallLeavesLog DEF Enter
<1>2. ASSUME NEW t \in Thread, UNCHANGED term, call[t] # None,
             \/ Returns(t)
             \/ \E at \in {"locked", "indexOk", "checked"} : Moves(t, at)
      PROVE  StoreInv'
  <2>1. CASE Returns(t)
    BY <1>2, <2>1, CallLeavesLog DEF Returns
  <2>2. ASSUME NEW at \in {"locked", "indexOk", "checked"}, Moves(t, at) PROVE StoreInv'
    BY <1>2, <2>2, MovesLeaveLog
  <2> QED
    BY <1>2, <2>1, <2>2
<1>3. ASSUME NEW t \in Thread, NEW n \in Node, Handle(t, n) PROVE StoreInv'
  <2>1. CASE \E m \in VoteRequest : VoteReadsTerm(t, n, m)
    BY <1>1, <2>1 DEF VoteReadsTerm
  <2>2. CASE \E m \in AppendRequest : AppendReadsTerm(t, n, m)
    BY <1>1, <2>2 DEF AppendReadsTerm
  <2>3. CASE VoteLocks(t, n)
    BY <1>2, <2>3 DEF VoteLocks, Busy
  <2>4. CASE VoteChecksIndex(t, n)
    BY <1>2, <2>4 DEF VoteChecksIndex, Busy
  <2>5. CASE VoteChecksTerm(t, n)
    BY <1>2, <2>5 DEF VoteChecksTerm, Busy
  <2>6. CASE AppendChecksLength(t, n)
    BY <1>2, <2>6 DEF AppendChecksLength, Busy
  <2>7. CASE AppendStores(t, n)
    BY <2>7, StoresAlone
  <2>8. CASE AppendCommits(t, n)
    BY <1>2, <2>8 DEF AppendCommits, Busy
  <2> QED
    BY <1>3, <2>1, <2>2, <2>3, <2>4, <2>5, <2>6, <2>7, <2>8 DEF Handle
<1>4. ASSUME NEW n \in Node, Set(n) PROVE StoreInv'
  <2>1. UNCHANGED call
    BY <1>4 DEF Set, AppendLog, BecomeCandidate, BecomeFollower, SetCommitIndex
  <2>2. term' \in [Node -> 0 .. MaxTerm]
    BY <1>4, RaftAssumption
       DEF Set, AppendLog, BecomeCandidate, BecomeFollower, SetCommitIndex, StoreInv
  <2> QED
    BY <2>1, <2>2, NoStoreStep DEF Stores, Busy
<1>5. CASE UNCHANGED vars \/ Rest
  BY <1>5 DEF vars, Rest, StoreInv, Stores, Busy
<1> QED
  BY <1>3, <1>4, <1>5 DEF Next

\* Terms and votes keep their types, and the locks of voted_for and of the log
\* are each held by one call at a time (request_vote, append_entries).
THEOREM RaftTypeCorrect == Spec => []RaftTypeOK
<1>1. Init => StoreInv
  BY RaftAssumption DEF Init, StoreInv, Stores, Busy
<1>2. ASSUME VoteInv, StoreInv PROVE RaftTypeOK
  <2>1. \A n \in Node : \A t, u \in Thread :
          Busy(t, n, {"locked", "indexOk"}) /\ Busy(u, n, {"locked", "indexOk"}) => t = u
    BY <1>2 DEF VoteInv, Holds
  <2>2. \A n \in Node : \A t, u \in Thread :
          Busy(t, n, {"stored"}) /\ Busy(u, n, {"stored"}) => t = u
    BY <1>2 DEF StoreInv, Stores
  <2>3. term \in [Node -> 0 .. MaxTerm] /\ votedFor \in [Node -> Candidate \cup {None}]
    BY <1>2 DEF VoteInv, StoreInv
  <2> QED
    BY <2>1, <2>2, <2>3 DEF RaftTypeOK
<1> QED
  BY VoteInvInit, VoteInvStep, StoreInvStep, <1>1, <1>2, PTL DEF Spec

-----------------------------------------------------------------------------
(* What append_entries stores. *)

LEMMA PlaceFacts ==
    ASSUME NEW lg \in Seq(Entries), NEW e \in Entries
    PROVE  /\ Place(lg, e) \in Seq(Entries)
           /\ Len(Place(lg, e)) >= Len(lg)
           /\ \E p \in DOMAIN Place(lg, e) :
                p <= e.index + 1 /\ Place(lg, e)[p] = e
           /\ \A p \in DOMAIN lg : p # e.index + 1 => Place(lg, e)[p] = lg[p]
<1>1. e.index \in Nat /\ Len(lg) \in Nat
  BY DEF Entries
<1>2. CASE e.index < Len(lg)
  <2>1. Place(lg, e) = [lg EXCEPT ![e.index + 1] = e]
    BY <1>2 DEF Place
  <2>2. e.index + 1 \in DOMAIN lg
    BY <1>1, <1>2
  <2> QED
    BY <2>1, <2>2, <1>1
<1>3. CASE ~(e.index < Len(lg))
  <2>1. Place(lg, e) = Append(lg, e)
    BY <1>3 DEF Place
  <2>2. Len(lg) + 1 <= e.index + 1
    BY <1>1, <1>3
  <2> QED
    BY <2>1, <2>2, <1>1
<1> QED
  BY <1>2, <1>3

LEMMA TruncatedIsLog ==
    ASSUME NEW lg \in Seq(Entries), NEW m, m.prevIndex \in Nat
    PROVE  Truncated(lg, m) \in Seq(Entries)
BY DEF Truncated

\* The loop: each round works on what the one before has left.
Rounds(g, lg, es, n) ==
    /\ g \in [0 .. n -> Seq(Entries)]
    /\ g[0] = lg
    /\ \A i \in 1 .. n : g[i] = Place(g[i - 1], es[i])

LEMMA RoundsExist ==
    ASSUME NEW lg \in Seq(Entries), NEW es \in Seq(Entries)
    PROVE  \E g : Rounds(g, lg, es, Len(es))
<1> DEFINE Bad == {n \in 0 .. Len(es) : ~\E g : Rounds(g, lg, es, n)}
<1> SUFFICES ASSUME Bad # {} PROVE FALSE
  <2>1. Len(es) \in 0 .. Len(es)
    OBVIOUS
  <2> QED
    BY <2>1
<1>1. PICK n \in Bad : \A k \in Bad : n <= k
  <2>1. Bad \subseteq Nat
    OBVIOUS
  <2> QED
    BY <2>1, LeastExists
<1>2. n # 0
  <2>1. Rounds([i \in 0 .. 0 |-> lg], lg, es, 0)
    BY DEF Rounds
  <2> QED
    BY <2>1
<1>3. n \in 1 .. Len(es) /\ n - 1 \in 0 .. Len(es) /\ n - 1 \notin Bad
  BY <1>1, <1>2
<1>4. PICK g : Rounds(g, lg, es, n - 1)
  BY <1>3
<1> DEFINE h == [i \in 0 .. n |-> IF i = n THEN Place(g[n - 1], es[n]) ELSE g[i]]
<1>5. Rounds(h, lg, es, n)
  <2>1. g[n - 1] \in Seq(Entries) /\ es[n] \in Entries
    BY <1>3, <1>4 DEF Rounds
  <2>2. Place(g[n - 1], es[n]) \in Seq(Entries)
    BY <2>1, PlaceFacts
  <2>3. h \in [0 .. n -> Seq(Entries)] /\ h[0] = lg
    BY <1>2, <1>3, <1>4, <2>2 DEF Rounds
  <2>4. ASSUME NEW i \in 1 .. n PROVE h[i] = Place(h[i - 1], es[i])
    <3>1. CASE i = n
      BY <1>3, <3>1
    <3>2. CASE i # n
      BY <1>3, <1>4, <3>2 DEF Rounds
    <3> QED
      BY <3>1, <3>2
  <2> QED
    BY <2>3, <2>4 DEF Rounds
<1> QED
  BY <1>5

LEMMA StoredByRounds ==
    ASSUME NEW lg \in Seq(Entries), NEW m \in AppendRequest
    PROVE  \E g : /\ Rounds(g, Truncated(lg, m), m.entries, Len(m.entries))
                  /\ Stored(lg, m) = g[Len(m.entries)]
<1> DEFINE es == m.entries
           start == Truncated(lg, m)
           Body(f) == [i \in 0 .. Len(es) |-> IF i = 0 THEN start ELSE Place(f[i - 1], es[i])]
           f == CHOOSE p : p = Body(p)
<1>1. start \in Seq(Entries) /\ es \in Seq(Entries)
  BY TruncatedIsLog, RaftAssumption
<1> HIDE DEF start, es
<1>2. PICK g : Rounds(g, start, es, Len(es))
  BY <1>1, RoundsExist
<1>3. g = Body(g)
  BY <1>1, <1>2 DEF Rounds
<1>4. f = Body(f)
  <2> HIDE DEF Body
  <2> QED
    BY <1>3
<1>5. Stored(lg, m) = f[Len(es)]
  BY DEF Stored, start, es
<1> HIDE DEF f
<1>6. \A i \in 0 .. Len(es) : f[i] = g[i]
  <2> DEFINE Differ == {i \in 0 .. Len(es) : f[i] # g[i]}
  <2> SUFFICES ASSUME Differ # {} PROVE FALSE
    OBVIOUS
  <2>1. PICK n \in Differ : \A k \in Differ : n <= k
    <3>1. Differ \subseteq Nat
      OBVIOUS
    <3> QED
      BY <3>1, LeastExists
  <2>2. n # 0
    BY <1>3, <1>4
  <2>3. n - 1 \in 0 .. Len(es) /\ n - 1 \notin Differ
    BY <2>1, <2>2
  <2> QED
    BY <1>3, <1>4, <2>1, <2>2, <2>3
<1>7. Len(es) \in 0 .. Len(es)
  BY <1>1
<1> QED
  BY <1>2, <1>5, <1>6, <1>7 DEF start, es

-----------------------------------------------------------------------------
\* The entries of a request come in the order of their indices.
Ascending(es) == \A i, j \in DOMAIN es : i < j => es[i].index < es[j].index

\* A round writes behind the places of the entries before, or at the end.
LEMMA RoundsKeepEntries ==
    ASSUME NEW es \in Seq(Entries), Ascending(es), NEW lg, NEW g, Rounds(g, lg, es, Len(es)),
           NEW j \in DOMAIN es
    PROVE  \A n \in j .. Len(es) :
             \E p \in DOMAIN g[n] : p <= es[j].index + 1 /\ g[n][p] = es[j]
<1> DEFINE Has(n) == \E p \in DOMAIN g[n] : p <= es[j].index + 1 /\ g[n][p] = es[j]
           Bad == {n \in j .. Len(es) : ~Has(n)}
<1> SUFFICES ASSUME Bad # {} PROVE FALSE
  OBVIOUS
<1>1. j \in 1 .. Len(es) /\ Len(es) \in Nat
  OBVIOUS
<1>2. PICK n \in Bad : \A k \in Bad : n <= k
  <2>1. Bad \subseteq Nat
    BY <1>1
  <2> QED
    BY <2>1, LeastExists
<1>3. /\ n \in 1 .. Len(es) /\ n - 1 \in 0 .. Len(es) /\ n >= j
      /\ g[n - 1] \in Seq(Entries) /\ es[n] \in Entries /\ g[n] = Place(g[n - 1], es[n])
  BY <1>1, <1>2 DEF Rounds
<1>4. n # j
  <2>1. \E p \in DOMAIN Place(g[n - 1], es[n]) :
          p <= es[n].index + 1 /\ Place(g[n - 1], es[n])[p] = es[n]
    BY <1>3, PlaceFacts
  <2>2. Has(n) \/ n # j
    BY <1>3, <2>1
  <2> QED
    BY <1>2, <2>2
<1>5. PICK p \in DOMAIN g[n - 1] : p <= es[j].index + 1 /\ g[n - 1][p] = es[j]
  <2>1. n - 1 \in j .. Len(es) /\ n - 1 \notin Bad
    BY <1>1, <1>2, <1>3, <1>4
  <2> QED
    BY <2>1
<1>6. p # es[n].index + 1
  <2>1. es[j].index < es[n].index
    BY <1>1, <1>3, <1>4 DEF Ascending
  <2>2. es[j].index \in Nat /\ es[n].index \in Nat /\ p \in Nat
    <3>1. es[j] \in Entries /\ es[n] \in Entries
      BY <1>3
    <3>2. \A e \in Entries : e.index \in Nat
      BY DEF Entries
    <3>3. p \in 1 .. Len(g[n - 1])
      BY <1>3, <1>5
    <3>4. p \in Nat
      BY <3>3
    <3> HIDE DEF Bad
    <3> QED
      BY <3>1, <3>2, <3>4
  <2> QED
    BY <1>5, <2>1, <2>2
<1>7. g[n][p] = es[j] /\ p \in DOMAIN g[n]
  <2>1. Place(g[n - 1], es[n])[p] = g[n - 1][p] /\ Len(Place(g[n - 1], es[n])) >= Len(g[n - 1])
    BY <1>3, <1>5, <1>6, PlaceFacts
  <2>2. g[n] \in Seq(Entries) /\ Len(g[n]) >= Len(g[n - 1])
    BY <1>3, <2>1, PlaceFacts
  <2> QED
    BY <1>3, <1>5, <2>1, <2>2
<1> QED
  BY <1>2, <1>5, <1>7

LEMMA StoredFacts ==
    ASSUME NEW lg \in Seq(Entries), NEW m \in AppendRequest
    PROVE  /\ Stored(lg, m) \in Seq(Entries)
           /\ Ascending(m.entries) => ToSet(m.entries) \subseteq ToSet(Stored(lg, m))
<1> DEFINE es == m.entries
<1>1. es \in Seq(Entries) /\ Len(es) \in Nat
  BY RaftAssumption
<1>2. PICK g : Rounds(g, Truncated(lg, m), es, Len(es)) /\ Stored(lg, m) = g[Len(es)]
  BY StoredByRounds
<1>3. Stored(lg, m) \in Seq(Entries)
  BY <1>1, <1>2 DEF Rounds
<1>4. ASSUME Ascending(es), NEW j \in DOMAIN es PROVE es[j] \in ToSet(Stored(lg, m))
  <2>1. Len(es) \in j .. Len(es)
    BY <1>1
  <2>2. \E p \in DOMAIN g[Len(es)] : g[Len(es)][p] = es[j]
    BY <1>1, <1>2, <1>4, <2>1, RoundsKeepEntries
  <2> QED
    BY <1>2, <2>2 DEF ToSet
<1> QED
  BY <1>3, <1>4 DEF ToSet

\* Logs are sequences of entries.
LogsTyped == log \in [Node -> Seq(Entries)]

LEMMA LogsTypedStep == VoteInv /\ LogsTyped /\ [Next]_vars => LogsTyped'
<1> SUFFICES ASSUME VoteInv, LogsTyped, [Next]_vars PROVE LogsTyped'
  OBVIOUS
<1> USE DEF LogsTyped
<1>1. ASSUME NEW t \in Thread, NEW n \in Node, AppendStores(t, n) PROVE LogsTyped'
  <2>1. call[t].req \in AppendRequest
    BY <1>1 DEF AppendStores, Busy, VoteInv, AppendCall, VoteCall
  <2>2. log[n] \in Seq(Entries)
    OBVIOUS
  <2>3. Stored(log[n], call[t].req) \in Seq(Entries)
    BY <2>1, <2>2, StoredFacts
  <2> QED
    BY <1>1, <2>3 DEF AppendStores
<1>2. ASSUME NEW n \in Node, NEW e \in LogEntry, AppendLog(n, e) PROVE LogsTyped'
  <2>1. Append(log[n], e) \in Seq(Entries)
    BY RaftAssumption
  <2> QED
    BY <1>2, <2>1 DEF AppendLog
<1>3. CASE UNCHANGED log
  BY <1>3
<1> QED
  BY <1>1, <1>2, <1>3
     DEF Next, Handle, Set, Rest, vars, VoteReadsTerm, VoteLocks, VoteChecksIndex,
         VoteChecksTerm, AppendReadsTerm, AppendChecksLength, AppendCommits,
         BecomeCandidate, BecomeFollower, SetCommitIndex

\* Every entry of a stored request is in the log, if its indices ascend, for any
\* log it is stored in: what was there before is written over or truncated, the
\* entries of the request are not (append_entries).
THEOREM StoredEntriesArrive ==
    ASSUME \A m \in AppendRequest : Ascending(m.entries)
    PROVE  Spec => EntriesArrive
<1>1. Init => LogsTyped
  BY DEF Init, LogsTyped
<1>2. ASSUME VoteInv, LogsTyped, NEW t \in Thread, NEW n \in Node, AppendStores(t, n)
      PROVE  ToSet(call[t].req.entries) \subseteq ToSet(log'[n])
  <2>1. call[t].req \in AppendRequest
    BY <1>2 DEF AppendStores, Busy, VoteInv, AppendCall, VoteCall
  <2>2. log[n] \in Seq(Entries) /\ log'[n] = Stored(log[n], call[t].req)
    BY <1>2 DEF AppendStores, LogsTyped
  <2> QED
    BY <2>1, <2>2, StoredFacts
<1>3. VoteInv /\ LogsTyped =>
        \A t \in Thread, n \in Node : AppendStores(t, n) =>
          ToSet(call[t].req.entries) \subseteq ToSet(log'[n])
  BY <1>2
<1> QED
  BY VoteInvInit, VoteInvStep, LogsTypedStep, <1>1, <1>3, PTL DEF Spec, EntriesArrive
=============================================================================
