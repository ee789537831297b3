--------------------------- MODULE MCTradingCycle ---------------------------
(***************************************************************************)
(* TradingCycle on a small set of processes.                               *)
(***************************************************************************)
EXTENDS TradingCycle, TLC

\* Processes are not told apart, so a run of invariants may permute them.
Symmetry == Permutations(Processes)
=============================================================================
