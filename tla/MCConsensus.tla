---------------------------- MODULE MCConsensus ----------------------------
(***************************************************************************)
(* A chain of two nodes.  a and b are the BFT leaders of block0, and b has *)
(* a pool with all the stake, which draws below its phi (3 of 4, for an    *)
(* active slot coefficient of 3/4) in the second slot of an epoch, and in  *)
(* the first one once a Praos block has changed the nonce.  Epochs have    *)
(* two slots of two seconds.                                               *)
(***************************************************************************)
EXTENDS Consensus

MCSeeds == [a |-> <<0, 1>>, b |-> <<0, 2>>, e |-> <<0, 0>>]
MCStake == [b |-> 2]
MCEra == [slot_start |-> 0, epoch_start |-> 0, slots_per_epoch |-> 2]
MCFrame == [timeline |-> 1, slot_offset |-> 0, slot_duration |-> 2]
MCBlock0Leaders == <<"a", "b">>

MCDraw(key, nonce, slot_id) == IF slot_id = 1 \/ nonce # ZeroNonce THEN 1 ELSE 3
MCPhi(stake, sum) == IF stake = 0 THEN 0 ELSE 3

MCChanges ==
    {<<>>, <<[kind |-> "consensus", value |-> "praos"]>>,
     <<[kind |-> "remove_leader", id |-> "a"], [kind |-> "delegate", stake |-> [b |-> 0]]>>}

NodeSymmetry == Permutations(Nodes)
=============================================================================
