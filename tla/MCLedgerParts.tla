--------------------------- MODULE MCLedgerParts ---------------------------
(***************************************************************************)
(* Three parts of the ledger's state that change independently of each     *)
(* other: the vote plans, the update proposals and the account ledgers.    *)
(* A behaviour follows one of them, and the others stay as they begin.     *)
(***************************************************************************)
EXTENDS VotePlan, UpdateState, AccountClients

CONSTANTS
    Parts,  \* the parts that are followed
    eve, fay, gus, openPlan, sealedPlan, ownPlan, noKeys, badOptions,
    ana, ben, cid, node1, node2,
    k1, k2

VARIABLE part   \* the part that this behaviour follows

PartsInit == part \in Parts /\ Init /\ UpdateInit /\ AccountsInit

PartsNext ==
    \/ part = "plans" /\ Next /\ UNCHANGED <<part, updateVars, accountsVars>>
    \/ part = "updates" /\ UpdateNext /\ UNCHANGED <<part, vars, accountsVars>>
    \/ part = "accounts" /\ AccountsNext /\ UNCHANGED <<part, vars, updateVars>>

PartsSpec == PartsInit /\ [][PartsNext]_<<part, vars, updateVars, accountsVars>>

-----------------------------------------------------------------------------
(* Vote plans: a public plan of the committee that moves treasury to       *)
(* rewards, a private one with a reward and an off-chain proposal, an      *)
(* off-chain plan of a single account, and two plans that are refused.     *)

MCAccounts == {eve, fay}
MCCommittees == {gus}
MCPlans == {openPlan, sealedPlan, ownPlan, noKeys, badOptions}
MCTokens == [a \in {eve, fay} |-> 2]
Ratio(num, den) == [num |-> num, den |-> den]
MCCriteria == [favorable |-> 1, rejection |-> 2, options |-> 3,
               participation |-> Ratio(1, 4), approval |-> Ratio(1, 2)]
MCPots == [treasury |-> 3, rewards |-> 1]
MCDates == {<<0, s>> : s \in 1 .. 4}

Ask(options, kind, v) == [options |-> options, action |-> [kind |-> kind, value |-> v]]
VotesOn(start, end, last, private, keys, proposals, inputs) ==
    [start |-> <<0, start>>, end |-> <<0, end>>, committee_end |-> <<0, last>>,
     private |-> private, keys |-> keys, proposals |-> proposals,
     inputs |-> inputs]

MCPlanOf ==
    [id \in MCPlans |->
        CASE id = openPlan -> VotesOn(0, 2, 3, FALSE, 0, <<Ask(3, "transfer", 2)>>, {})
          [] id = sealedPlan -> VotesOn(1, 2, 3, TRUE, 1,
                <<Ask(3, "reward_add", 1), Ask(2, "off_chain", 0)>>, {fay})
          [] id = ownPlan -> VotesOn(2, 3, 4, FALSE, 0, <<Ask(2, "off_chain", 0)>>, {eve})
          [] id = noKeys -> VotesOn(1, 2, 3, TRUE, 0, <<Ask(3, "reward_add", 1)>>, {fay})
          [] OTHER -> VotesOn(1, 2, 3, FALSE, 0, <<Ask(2, "transfer", 2)>>, {})]

-----------------------------------------------------------------------------
(* Updates: three leaders and four proposals over four epochs.  One        *)
(* removes a leader, two give the same setting different values (one of    *)
(* them also shortens the expiration and adds a leader), one is read-only. *)

MCNodes == {node1, node2}
MCLeaders == {ana, ben, cid}
MCProposals == 1 .. 4
Change(k, x, v) == [kind |-> k, id |-> x, name |-> "slots_per_epoch", value |-> v]

MCChangesOf ==
    << <<Change("remove_leader", cid, 0)>>,
       <<Change("value", ana, 2), Change("active_slots_coeff", ana, 500)>>,
       <<Change("value", ana, 3), Change("expiration", ana, 0),
         Change("add_leader", ana, 0), Change("add_committee", cid, 0),
         Change("remove_committee", ben, 0)>>,
       <<Change("value", ana, 4), Change("read_only", ana, 0)>> >>
MCProposerOf == <<ana, cid, ben, ana>>
MCBlock0Changes ==
    <<Change("add_leader", ana, 0), Change("add_leader", ben, 0), Change("add_leader", cid, 0)>>
MCNames == {"slots_per_epoch", "active_slots_coeff"}
MCBlockDates == {<<0, 1>>, <<0, 2>>, <<1, 0>>, <<2, 0>>, <<3, 0>>}

-----------------------------------------------------------------------------
(* Accounts: two keys, one declaration that both must sign, one that       *)
(* either may and that has the first as an owner, and one that is not      *)
(* valid.                                                                  *)

Both == [threshold |-> 2, owners |-> <<Owner(k1), Owner(k2)>>]
Either == [threshold |-> 1, owners |-> <<Sub(Both), Owner(k2)>>]
Nothing == [threshold |-> 0, owners |-> <<Owner(k1), Owner(k2)>>]

MCDeclarations == {Both, Either, Nothing}

\* One half each, and parts that do not add up.
MCDelegations == {<<2, <<<<"p", 1>>, <<"q", 1>>>>>>, <<3, <<<<"p", 1>>, <<"q", 1>>>>>>}
=============================================================================
