-------------------------- MODULE MCSearchCommands --------------------------
(* Four vectors over three threads are shared 2, 1, 1; over two evenly; a  *)
(* store of one or two leaves threads without any.  Scores are equal at,   *)
(* above and below the cut of k = 1 or 2.  A benchmark up to four threads  *)
(* makes a second pool; one with two queries uses a pool again.            *)
EXTENDS SearchCommands

MCStores == UNION {[0..(n - 1) -> {1, 2}] : n \in 1..4}
                \cup {f \in [0..2 -> 1..3] : {f[0], f[1], f[2]} = 1..3}

MCBenches == {[threads |-> 4, nqueries |-> 1], [threads |-> 3, nqueries |-> 2]}
MCBenchStores == {[v \in 0..0 |-> 1]}
=============================================================================
