------------------------------- MODULE MCRaft -------------------------------
(* Raft on a small instance: two candidates, one of them behind the other,   *)
(* and a leader that sends two entries, the second after the first.          *)
EXTENDS Raft

CONSTANTS n1, n2, n3

Vote(t, c, i, lt) == [term |-> t, candidate |-> c, lastIndex |-> i, lastTerm |-> lt]
Entry(i, t) == [index |-> i, term |-> t]

MCNode == {n1, n2, n3}
MCQuorum == {{n1, n2}, {n1, n3}, {n2, n3}}
MCVoteRequest == {Vote(1, n1, 0, 0), Vote(1, n2, 1, 1), Vote(2, n2, 1, 1)}
MCLogEntry == {Entry(1, 2)}
MCAppendRequest ==
    {[term |-> 1, prevIndex |-> 0, prevTerm |-> 0, entries |-> <<Entry(1, 1), Entry(2, 1)>>,
      leaderCommit |-> 1],
     [term |-> 2, prevIndex |-> 1, prevTerm |-> 2, entries |-> <<Entry(2, 2)>>,
      leaderCommit |-> 2]}
=============================================================================
