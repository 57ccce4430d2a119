---------------------------- MODULE MCRowidPager ----------------------------
(* Small instances of RowidPager: every table over a few rowids, negative  *)
(* ones and zero among them.                                               *)
EXTENDS RowidPager

SixKeys == -1..4
Range8 == -1..6
============================================================================
