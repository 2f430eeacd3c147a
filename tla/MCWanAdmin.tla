----------------------------- MODULE MCWanAdmin -----------------------------
(* A small instance of WanAdmin for TLC. *)
EXTENDS WanAdmin

CONSTANT MaxWan  \* bound on the deposits of all groups together

(* The owners use one means at a time: a halt of the HTLC, a halt of the    *)
(* group admin, or the white list, which names one group at a time and is   *)
(* emptied before it is dropped.                                            *)
OneMeans ==
  /\ ~(halted /\ smgHalted)
  /\ whiteListEnabled => ~halted /\ ~smgHalted
  /\ \A t \in Tokens : Cardinality(whiteList[t]) <= IF whiteListEnabled THEN 1 ELSE 0

(* Steps that change nothing add nothing. *)
MCNext == AllNext /\ OneMeans' /\ adminWan' <= MaxWan /\ adminVars' # adminVars

MCSpec == AdminInit /\ [][MCNext]_adminVars /\ AdminFairness
=============================================================================
