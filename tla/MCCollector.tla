---------------------------- MODULE MCCollector ----------------------------
(* Two scan threads; three objects: the one in use, a hung constructor and  *)
(* a new attempt.                                                           *)
EXTENDS Collector

CONSTANTS c1, c2, c3, s1, s2

MCConns == {c1, c2, c3}
MCScans == {s1, s2}
=============================================================================
