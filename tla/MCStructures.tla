---------------------------- MODULE MCStructures ----------------------------
(***************************************************************************)
(* The persistent structures that the node keeps in memory: the tries with *)
(* their clients and the multiverse of ledger states.  A behaviour follows *)
(* one of them.                                                            *)
(***************************************************************************)
EXTENDS HamtClients, Multiverse, TLC

CONSTANTS ka, kb, kc, kd, ke

VARIABLE structure  \* the one that this behaviour follows

StructuresInit ==
    /\ structure \in {"trie", "multiverse"}
    /\ HamtInit /\ Init
    /\ structure = "multiverse" => client = "map"

StructuresNext ==
    \/ structure = "trie" /\ HamtNext /\ UNCHANGED <<structure, vars>>
    \/ structure = "multiverse" /\ Next /\ UNCHANGED <<structure, hamtVars>>

StructuresSpec == StructuresInit /\ [][StructuresNext]_<<structure, vars, hamtVars>>

-----------------------------------------------------------------------------
(* Tries: hashes of five bits in groups of two, so that three levels use   *)
(* all bits of a hash and the last one only half a group.                  *)

\* ka and kc are told apart by the last bit only; kd and ke have the same hash,
\* so they may be exchanged, and kb shares their first group.
MCHashOf == (ka :> 0) @@ (kb :> 7) @@ (kc :> 16) @@ (kd :> 3) @@ (ke :> 3)
MCKeys == {ka, kb, kc, kd, ke}

TwinSymmetry == Permutations({kd, ke})

-----------------------------------------------------------------------------
(* Multiverse: a chain of seven blocks above block0, a fork of one at its  *)
(* second, two Refs at a time.                                             *)

MCBlocks == 0 .. 8
MCParent == [b \in 1 .. 8 |-> IF b = 8 THEN 2 ELSE b - 1]
MCChainLength == [b \in 0 .. 8 |-> IF b = 8 THEN 3 ELSE b]
MCHandles == {"h1", "h2"}
=============================================================================
