----------------------------- MODULE MCActiveMode -----------------------------
(* A small instance of ActiveMode: one saved brain, which is ready, and one *)
(* that is built meanwhile.  The states that an interrupted Build leaves to *)
(* the next process are reached through Restart.                            *)
EXTENDS ActiveMode

MCInit == Init /\ \A b \in Saved : doc[b].ready
MCSpec == MCInit /\ [][Next]_vars
MCFairSpec == MCSpec /\ Fairness
=============================================================================
