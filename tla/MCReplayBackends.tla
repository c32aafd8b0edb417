--------------------------- MODULE MCReplayBackends ---------------------------
(* The contract of the replay registry and its three backends side by side. A*)
(* behaviour chooses one of them and only that one runs; the clock is common.*)
(* Contract: two keys, two claims and a clock of three seconds, so that a    *)
(* claim can lapse and be taken over by a second caller, or be released.     *)
(* Dictionary and map: two keys against room for one, so that they fill,     *)
(* refuse, sweep and admit again. Table: two workers on one key and two      *)
(* claims, enough for a prune of one worker to fall between the statements   *)
(* of the other, and for a claim to lapse and be taken over.                 *)
EXTENDS ReplayStore, TLC

CONSTANTS MaxEntries, Workers, RowKey

ASSUME CapacityAssumption == MaxEntries \in Nat

VARIABLES
  part,   \* the contract, or the backend that is called
  memory_cache, cache, rows, calls, cacheGrants, mapGrants, rowGrants

Python == INSTANCE ReplayRegistry WITH grants <- cacheGrants
Memory == INSTANCE InMemoryReplayStore WITH grants <- mapGrants
Sql == INSTANCE SqlReplayStore WITH grants <- rowGrants

pythonVars == <<memory_cache, cacheGrants>>
memoryVars == <<cache, mapGrants>>
sqlVars == <<rows, calls, rowGrants>>
backendVars == <<pythonVars, memoryVars, sqlVars>>
partVars == <<part, vars, backendVars>>

PartInit ==
  /\ part \in {"contract", "python", "memory", "sql"}
  /\ Init /\ Python!Init /\ Memory!Init /\ Sql!Init

PartNext ==
  /\ UNCHANGED part
  /\ \/ part = "contract" /\ Next /\ UNCHANGED backendVars
     \/ /\ UNCHANGED <<claims, grants>>
        /\ \/ part = "python" /\ Python!Next /\ UNCHANGED <<memoryVars, sqlVars>>
           \/ part = "memory" /\ Memory!Next /\ UNCHANGED <<pythonVars, sqlVars>>
           \/ /\ part = "sql" /\ Sql!Next /\ UNCHANGED <<pythonVars, memoryVars>>
              /\ \A w \in Workers : calls'[w] = Sql!Idle \/ calls'[w].key = RowKey

PartSpec == PartInit /\ [][PartNext]_partVars

-----------------------------------------------------------------------------
(* The variables of the three backends have their types.                     *)
BackendsTypeOK == Python!TypeOK /\ Memory!TypeOK /\ Sql!TypeOK

(* Neither process-local backend ever holds more than its capacity.          *)
WithinCapacity == Python!WithinCapacity /\ Memory!WithinCapacity

(* The Rust map refuses no key for the sake of expired entries.              *)
RefusedOnlyIfLive == Memory!RefusedOnlyIfLive

(* Full or not, the backends keep to their types and capacity.               *)
CapacityHonoured == BackendsTypeOK /\ WithinCapacity /\ RefusedOnlyIfLive

(* Every backend implements the contract of ReplayStore.                     *)
PythonStoreSpec == Python!StoreSpec
MemoryStoreSpec == Memory!StoreSpec
SqlStoreSpec == Sql!StoreSpec

Perms ==
  Permutations(Keys \ {RowKey}) \cup Permutations(Tokens) \cup Permutations(Workers)
=============================================================================
