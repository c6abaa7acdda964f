-------------------------- MODULE MCTerminalSession --------------------------
(* The event loop and worker threads share one executor.  Three adapters:  *)
(* the executor's, the one being connected and one an order still uses.    *)
EXTENDS TerminalSession, TLC

AdapterSymmetry == Permutations(Adapters)
=============================================================================
