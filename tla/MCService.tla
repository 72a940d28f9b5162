------------------------------- MODULE MCService -------------------------------
(* Small instances of Service for TLC: launches that agree on the workspace and *)
(* differ in the rest, or the other way round.                                *)
EXTENDS Service

TwoLaunches == {[workspace |-> "w", rest |-> r] : r \in {"r1", "r2"}}
OneLaunch == {[workspace |-> "w", rest |-> "r1"]}
===============================================================================
