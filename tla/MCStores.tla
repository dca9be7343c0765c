-------------------------------- MODULE MCStores --------------------------------
(***************************************************************************)
(* Small instances of the two components that write what others decided    *)
(* under locks of their own, side by side: a behaviour belongs to the      *)
(* external writes or to the sessions, its store, and the other stands     *)
(* still.                                                                  *)
(***************************************************************************)
EXTENDS ConnectorExecution, SessionMemory, TLC

VARIABLE store

storesVars == <<store, vars, mvars>>

ThreadSymmetry == Permutations(Threads)

StoresInit == store \in {"writes", "sessions"} /\ Init /\ MemoryInit

StoresNext ==
    /\ UNCHANGED store
    /\ \/ store = "writes" /\ Next /\ UNCHANGED mvars
       \/ store = "sessions" /\ MemoryNext /\ UNCHANGED vars

StoresSpec == StoresInit /\ [][StoresNext]_storesVars
=============================================================================
