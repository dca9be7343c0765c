------------------------ MODULE MCConnectorExecution ------------------------
(* Small instances of ConnectorExecution for TLC.                          *)
EXTENDS ConnectorExecution, TLC

ThreadSymmetry == Permutations(Threads)
=============================================================================
