------------------------------ MODULE MCClaims ------------------------------
(***************************************************************************)
(* The lease engine of the work store with its sweep, and the credits of   *)
(* the database that its promises draw on. Each part runs by itself, with  *)
(* the other at rest. The sweep has nothing to do in the initial state of  *)
(* the work store, so its fairness asks for nothing while storage runs.    *)
(***************************************************************************)
EXTENDS MCWork, Storage

VARIABLE part   \* the part that takes steps; the other stays as it starts

partVars == <<part, vars, storageVars>>

PartsInit == part \in {"work", "storage"} /\ Init /\ StorageInit

PartsNext ==
    \/ part = "work" /\ Next /\ UNCHANGED <<part, storageVars>>
    \/ part = "storage" /\ StorageNext /\ UNCHANGED <<part, vars>>

PartsSpec == PartsInit /\ [][PartsNext]_partVars /\ Fairness
=============================================================================
