-------------------------- MODULE MCStoreAndBallots --------------------------
(***************************************************************************)
(* Two small instances: the block store under one caller, and a private    *)
(* vote with three members, two voters with different stakes, one without  *)
(* any and a proposal with three options, so that vectors are padded to    *)
(* four.  A behaviour follows one of them.                                 *)
(***************************************************************************)
EXTENDS MCBlockStore, PrivateVote

VARIABLE instance   \* the one that this behaviour follows

bothVars == <<instance, vars, ballotsVars>>

BothInit == instance \in {"store", "ballots"} /\ Init /\ BallotsInit

\* The dates of the instance are used up.
LastBlock == InBlock /\ \A d \in Dates : ~Later(d, block)

BothNext ==
    \/ instance = "store" /\ Next /\ UNCHANGED <<instance, ballotsVars>>
    \/ instance = "ballots" /\ BallotsNext /\ UNCHANGED <<instance, vars>>
    \/ instance = "ballots" /\ LastBlock /\ UNCHANGED bothVars

BothSpec ==
    /\ BothInit /\ [][BothNext]_bothVars
    /\ instance = "ballots" => BallotsFairness

-----------------------------------------------------------------------------
MCPlanOf == [p1 |->
    [start |-> <<0, 1>>, end |-> <<0, 2>>, committee_end |-> <<0, 3>>,
     private |-> TRUE, keys |-> 3, inputs |-> {"c"},
     proposals |-> <<[options |-> 3, action |-> [kind |-> "off_chain"]]>>]]

MCTokens == [a |-> 3, b |-> 5]

MCCriteria == [favorable |-> 1, rejection |-> 2, options |-> 3,
               participation |-> [num |-> 1, den |-> 2],
               approval |-> [num |-> 1, den |-> 2]]

MCPots == [treasury |-> 4, rewards |-> 0]

MCDates == {<<0, 1>>, <<0, 2>>, <<0, 3>>, <<0, 4>>}
=============================================================================
