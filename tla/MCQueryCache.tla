---------------------------- MODULE MCQueryCache ----------------------------
(* QueryCache on a small instance: two keys of one database, one of another; *)
(* results that fit together and results that do not fit at all.             *)
EXTENDS QueryCache

MCKey == {<<1, 1>>, <<1, 2>>, <<2, 1>>}
MCValue == {"small", "huge"}
MCSize == [small |-> 1, huge |-> 4]
=============================================================================
