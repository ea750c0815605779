-------------------------------- MODULE Raft --------------------------------
(***************************************************************************)
(* The nodes of raft/mod.rs: the handlers of vote and append requests, the *)
(* setters, and the locks they take one field at a time.  Nothing in the   *)
(* repository sends requests or counts votes, so every request of a given  *)
(* set may arrive at any node, at any time and any number of times.        *)
(*                                                                         *)
(* A handler runs on a thread and is cut where it lets go of a lock or     *)
(* waits for one.  The role of a node is only reported; peers, membership  *)
(* and last_applied are not read by any handler.                           *)
(***************************************************************************)
EXTENDS Integers, SequencesExt

CONSTANTS
    Node,           \* the nodes
    Thread,         \* the threads that call handlers
    Quorum,         \* the sets of nodes whose votes elect a candidate
    VoteRequest,    \* [term, candidate, lastIndex, lastTerm]
    AppendRequest,  \* [term, prevIndex, prevTerm, entries, leaderCommit]
    LogEntry,       \* entries a caller may append: [index, term]
    None,           \* no vote; no call in progress
    MaxTerm,        \* bound: terms
    MaxOps          \* bound: calls in a behaviour

VARIABLES
    term,      \* RaftNode.current_term
    votedFor,  \* RaftNode.voted_for
    log,       \* RaftNode.log
    commit,    \* RaftNode.commit_index
    call,      \* the call each thread is in: None or [at, node, req, ...]
    granted,   \* ghost: the votes granted so far, [node, candidate, term]
    ops        \* ghost: calls so far

vars == <<term, votedFor, log, commit, call, granted, ops>>

Candidate == {m.candidate : m \in VoteRequest}
Entries == [index : Nat, term : Nat]

ASSUME RaftAssumption ==
    /\ \A q, r \in Quorum : q \cap r # {}
    /\ Quorum \subseteq SUBSET Node
    /\ None \notin Candidate
    /\ \A m \in VoteRequest : {m.term, m.lastIndex, m.lastTerm} \subseteq Nat
    /\ \A m \in AppendRequest : m.prevIndex \in Nat /\ m.entries \in Seq(Entries)
    /\ LogEntry \subseteq Entries
    /\ MaxTerm \in Nat
    /\ MaxOps \in Nat

Init ==
    /\ term = [n \in Node |-> 0]
    /\ votedFor = [n \in Node |-> None]
    /\ log = [n \in Node |-> <<>>]
    /\ commit = [n \in Node |-> 0]
    /\ call = [t \in Thread |-> None]
    /\ granted = {}
    /\ ops = 0

----------------------------------------------------------------------------

LastIndex(lg) == IF lg = <<>> THEN 0 ELSE Last(lg).index
LastTerm(lg) == IF lg = <<>> THEN 0 ELSE Last(lg).term

Busy(t, n, at) == call[t] # None /\ call[t].node = n /\ call[t].at \in at

\* Mutant: the lock of voted_for is let go in between.
VoteFreeAlways(n) == TRUE

\* voted_for is held from the look at it to the end of request_vote, log from
\* the writing of the entries to the end of append_entries.
VoteFree(n) == \A t \in Thread : ~Busy(t, n, {"locked", "indexOk"})
LogFree(n) == \A t \in Thread : ~Busy(t, n, {"stored"})

Enter(t, c) ==
    /\ call[t] = None
    /\ ops < MaxOps
    /\ ops' = ops + 1
    /\ call' = [call EXCEPT ![t] = c]

Moves(t, at) ==
    /\ call' = [call EXCEPT ![t].at = at]
    /\ UNCHANGED ops

Returns(t) ==
    /\ call' = [call EXCEPT ![t] = None]
    /\ UNCHANGED ops

(* request_vote *)

\* A request of an older term is denied at once.
VoteReadsTerm(t, n, m) ==
    /\ m.term >= term[n]
    /\ Enter(t, [at |-> "asked", node |-> n, req |-> m])
    /\ UNCHANGED <<term, votedFor, log, commit, granted>>

VoteLocks(t, n) ==
    /\ Busy(t, n, {"asked"})
    /\ VoteFree(n)
    /\ IF votedFor[n] \in {None, call[t].req.candidate} THEN Moves(t, "locked") ELSE Returns(t)
    /\ UNCHANGED <<term, votedFor, log, commit, granted>>

VoteChecksIndex(t, n) ==
    /\ Busy(t, n, {"locked"})
    /\ LogFree(n)
    /\ IF call[t].req.lastIndex >= LastIndex(log[n]) THEN Moves(t, "indexOk") ELSE Returns(t)
    /\ UNCHANGED <<term, votedFor, log, commit, granted>>

\* The log is read anew for its term; the node's own term stays as it is.
VoteChecksTerm(t, n) ==
    LET m == call[t].req IN
    /\ Busy(t, n, {"indexOk"})
    /\ LogFree(n)
    /\ IF m.lastTerm >= LastTerm(log[n])
       THEN /\ votedFor' = [votedFor EXCEPT ![n] = m.candidate]
            /\ granted' = granted \cup {[node |-> n, candidate |-> m.candidate, term |-> m.term]}
       ELSE UNCHANGED <<votedFor, granted>>
    /\ Returns(t)
    /\ UNCHANGED <<term, log, commit>>

(* append_entries *)

AppendReadsTerm(t, n, m) ==
    /\ m.term >= term[n]
    /\ Enter(t, [at |-> "offered", node |-> n, req |-> m])
    /\ UNCHANGED <<term, votedFor, log, commit, granted>>

AppendChecksLength(t, n) ==
    /\ Busy(t, n, {"offered"})
    /\ LogFree(n)
    /\ IF call[t].req.prevIndex > Len(log[n]) THEN Returns(t) ELSE Moves(t, "checked")
    /\ UNCHANGED <<term, votedFor, log, commit, granted>>

\* The vector counts from 0, so position prevIndex holds the entry after the
\* one the request names.
Truncated(lg, m) ==
    IF /\ m.prevIndex > 0
       /\ m.prevIndex >= Len(lg) \/ lg[m.prevIndex + 1].term # m.prevTerm
    THEN SubSeq(lg, 1, IF m.prevIndex < Len(lg) THEN m.prevIndex ELSE Len(lg))
    ELSE lg

\* Mutant: the index is taken as a position that counts from 1.
PlaceFromOne(lg, e) ==
    IF e.index < Len(lg) THEN [lg EXCEPT ![e.index + 1] = e]
    ELSE IF e.index = Len(lg) THEN [lg EXCEPT ![e.index] = e]
    ELSE Append(lg, e)

Place(lg, e) ==
    IF e.index < Len(lg) THEN [lg EXCEPT ![e.index + 1] = e] ELSE Append(lg, e)

\* The loop over the entries of a request.
Stored(lg, m) ==
    LET placed[i \in 0 .. Len(m.entries)] ==
          IF i = 0 THEN Truncated(lg, m) ELSE Place(placed[i - 1], m.entries[i])
    IN  placed[Len(m.entries)]

\* Reading commit_index comes right after, under the lock of the log.
AppendStores(t, n) ==
    LET m == call[t].req IN
    /\ Busy(t, n, {"checked"})
    /\ LogFree(n)
    /\ log' = [log EXCEPT ![n] = Stored(@, m)]
    /\ IF m.leaderCommit > commit[n] THEN Moves(t, "stored") ELSE Returns(t)
    /\ UNCHANGED <<term, votedFor, commit, granted>>

AppendCommits(t, n) ==
    LET c == call[t].req.leaderCommit
        match == LastIndex(log[n])
    IN
    /\ Busy(t, n, {"stored"})
    /\ commit' = [commit EXCEPT ![n] = IF c < match THEN c ELSE match]
    /\ Returns(t)
    /\ UNCHANGED <<term, votedFor, log, granted>>

(* the setters *)

Calls == ops < MaxOps /\ ops' = ops + 1

AppendLog(n, e) ==
    /\ Calls
    /\ LogFree(n)
    /\ log' = [log EXCEPT ![n] = Append(@, e)]
    /\ UNCHANGED <<term, votedFor, commit, call, granted>>

\* become_leader as well as become_candidate.
BecomeCandidate(n) ==
    /\ Calls
    /\ term[n] < MaxTerm
    /\ term' = [term EXCEPT ![n] = @ + 1]
    /\ UNCHANGED <<votedFor, log, commit, call, granted>>

\* The term given is not compared with the node's.
BecomeFollower(n, to) ==
    /\ Calls
    /\ term' = [term EXCEPT ![n] = to]
    /\ UNCHANGED <<votedFor, log, commit, call, granted>>

SetCommitIndex(n, index) ==
    /\ Calls
    /\ commit' = [commit EXCEPT ![n] = index]
    /\ UNCHANGED <<term, votedFor, log, call, granted>>

Handle(t, n) ==
    \/ \E m \in VoteRequest : VoteReadsTerm(t, n, m)
    \/ VoteLocks(t, n) \/ VoteChecksIndex(t, n) \/ VoteChecksTerm(t, n)
    \/ \E m \in AppendRequest : AppendReadsTerm(t, n, m)
    \/ AppendChecksLength(t, n) \/ AppendStores(t, n) \/ AppendCommits(t, n)

Set(n) ==
    \/ \E e \in LogEntry : AppendLog(n, e)
    \/ BecomeCandidate(n)
    \/ \E to \in 0 .. MaxTerm : BecomeFollower(n, to)
    \/ \E e \in LogEntry : SetCommitIndex(n, e.index)

\* The bound is reached and every call has returned.
Rest ==
    /\ ops = MaxOps
    /\ \A t \in Thread : call[t] = None
    /\ UNCHANGED vars

Next ==
    \/ \E t \in Thread, n \in Node : Handle(t, n)
    \/ \E n \in Node : Set(n)
    \/ Rest

Spec == Init /\ [][Next]_vars

----------------------------------------------------------------------------
(* Properties *)

\* Types of the state, and the exclusion the locks of voted_for and log give.
RaftTypeOK ==
    /\ term \in [Node -> 0 .. MaxTerm]
    /\ votedFor \in [Node -> Candidate \cup {None}]
    /\ \A n \in Node : \A at \in {{"locked", "indexOk"}, {"stored"}} :
         \A t, u \in Thread : Busy(t, n, at) /\ Busy(u, n, at) => t = u

\* The nodes whose vote in a term a candidate has been given.
Voters(c, in) == {g.node : g \in {h \in granted : h.candidate = c /\ h.term = in}}

\* Two candidates never both have the votes of a quorum in one term, however
\* requests are repeated, reordered and interleaved with each other and with
\* changes of the node's own term (request_vote).
AtMostOneElected ==
    \A g, h \in granted :
      /\ g.term = h.term
      /\ \E q \in Quorum : q \subseteq Voters(g.candidate, g.term)
      /\ \E q \in Quorum : q \subseteq Voters(h.candidate, h.term)
      => g.candidate = h.candidate

\* Once append_entries has stored a request with consecutive indices, all its
\* entries are in the log, whatever was there before.
EntriesArrive ==
    [][\A t \in Thread, n \in Node : AppendStores(t, n) =>
         ToSet(call[t].req.entries) \subseteq ToSet(log'[n])]_vars
=============================================================================
