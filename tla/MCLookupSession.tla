---------------------------- MODULE MCLookupSession ----------------------------
(* Three tables with up to two keys each, so that a table has neighbours   *)
(* with more, fewer and no keys; two iterations after a failing one.       *)
EXTENDS LookupSession, TLC
===============================================================================
