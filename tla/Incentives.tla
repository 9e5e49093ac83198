----------------------------- MODULE Incentives -----------------------------
(***************************************************************************)
(* The stake distribution of a ledger (stake/distribution.rs), the rewards *)
(* an epoch pays (rewards.rs, ledger/ledger.rs distribute_rewards, pots.rs)*)
(* and the life of a ledger over several epochs: the caller closes an      *)
(* epoch with distribute_rewards before the first block of the next one.   *)
(***************************************************************************)
EXTENDS Ledger

CONSTANTS
    RewardParams,       \* rewards::Parameters
    TreasuryTax,        \* the TaxType of the treasury
    FeesGoToTreasury,   \* setting::FeesGoesTo
    StakeScale          \* SCALE of PercentStake::scale_value, 10^18 in the code

ASSUME ScaleIsPositive == StakeScale \in Nat \ {0}

\* rewards::Parameters and the treasury's tax, as they are read.
ASSUME RewardsAreRead ==
    /\ IsTaxType(TreasuryTax)
    /\ RewardParams.initial \in Nat /\ RewardParams.start \in Nat
    /\ RewardParams.rate \in Nat \ {0} /\ RewardParams.halvening \in BOOLEAN
    /\ RewardParams.ratio.num \in Nat /\ RewardParams.ratio.den \in Nat \ {0}
    /\ RewardParams.limit # <<>> =>
        RewardParams.limit[1].num \in Nat /\ RewardParams.limit[1].den \in Nat \ {0}
    /\ RewardParams.capping # <<>> => RewardParams.capping[1].pools \in Nat \ {0}

-----------------------------------------------------------------------------
(* The stake distribution. *)

Parts(delegation) == SumFunction([i \in DOMAIN delegation |-> delegation[i].weight])

\* Mutant: the remainder of the division is dropped.
ShareWithoutRemainder(L, delegation, v, i) ==
    (v \div Parts(delegation)) * delegation[i].weight

\* What the i-th entry of a delegation is assigned out of a value: its parts,
\* and the remainder if it is the first entry whose pool is registered.
Share(L, delegation, v, i) ==
    (v \div Parts(delegation)) * delegation[i].weight
    + (IF /\ delegation[i].pool \in DOMAIN L.pools
          /\ \A j \in 1 .. i - 1 : delegation[j].pool \notin DOMAIN L.pools
       THEN v % Parts(delegation) ELSE 0)

\* The values an account holds: its own and those of its group outputs.
GroupUtxos(L, a) ==
    {ptr \in DOMAIN L.utxos : /\ L.utxos[ptr].address.kind = "group"
                              /\ L.utxos[ptr].address.account = a}

EntriesFor(delegation, p) == {i \in DOMAIN delegation : delegation[i].pool = p}

StakeOf(L, a, p) ==
    LET delegation == L.accounts[a].delegation IN
    SumFunction([i \in EntriesFor(delegation, p) |->
        Share(L, delegation, L.accounts[a].value, i)
        + SumFunction([ptr \in GroupUtxos(L, a) |-> Share(L, delegation, L.utxos[ptr].value, i)])])

\* The keys of a pool's stake.accounts, members with no stake included.
Members(L, p) ==
    {a \in DOMAIN L.accounts : EntriesFor(L.accounts[a].delegation, p) # {}}

PoolStake(L, p) == SumFunction([a \in Members(L, p) |-> StakeOf(L, a, p)])

get_total_stake(L) == SumFunction([p \in DOMAIN L.pools |-> PoolStake(L, p)])

HeldBy(L, a) ==
    L.accounts[a].value + SumFunction([ptr \in GroupUtxos(L, a) |-> L.utxos[ptr].value])

Unassigned(L) ==
    SumFunction([a \in {b \in DOMAIN L.accounts : L.accounts[b].delegation = <<>>} |->
                    HeldBy(L, a)])
    + SumFunction([ptr \in {u \in DOMAIN L.utxos : L.utxos[u].address.kind = "single"} |->
                    L.utxos[ptr].value])

\* What an account delegates to pools that are not registered, with the
\* remainder of every split when none of its pools is.
DanglingOf(L, a) ==
    LET delegation == L.accounts[a].delegation
        gone == {i \in DOMAIN delegation : delegation[i].pool \notin DOMAIN L.pools}
        split(v) == SumFunction([i \in gone |-> Share(L, delegation, v, i)])
                    + (IF gone = DOMAIN delegation THEN v % Parts(delegation) ELSE 0)
    IN split(L.accounts[a].value)
       + SumFunction([ptr \in GroupUtxos(L, a) |-> split(L.utxos[ptr].value)])

Dangling(L) ==
    SumFunction([a \in {b \in DOMAIN L.accounts : L.accounts[b].delegation # <<>>} |->
                    DanglingOf(L, a)])

-----------------------------------------------------------------------------
(* What an epoch draws and how it is taxed. *)

\* C - ratio * zone, or C * ratio ^ zone computed one factor at a time.
Compounded(zone) ==
    LET ratio == RewardParams.ratio
        linear == (ratio.num * zone) \div ratio.den
        halved == FoldLeft(LAMBDA acc, n : (acc * ratio.num) \div ratio.den,
                           RewardParams.initial * StakeScale, [n \in 1 .. zone |-> n])
    IN IF RewardParams.halvening THEN halved \div StakeScale
       ELSE IF RewardParams.initial >= linear THEN RewardParams.initial - linear
       ELSE 0

rewards_contribution_calculation(epoch, stake) ==
    IF epoch < RewardParams.start THEN 0
    ELSE LET drawn == Compounded((epoch - RewardParams.start) \div RewardParams.rate)
             limit == RewardParams.limit
         IN IF limit = <<>> THEN drawn
            ELSE Min({drawn, (stake * limit[1].num) \div limit[1].den})

\* The taxed part of a value; the rest is after_tax.  The cut never exceeds
\* what is left, because no ratio is above one.
tax_cut(v, tax) ==
    IF v < tax.fixed THEN v
    ELSE LET left == v - tax.fixed
             cut == (left * tax.num) \div tax.den
         IN tax.fixed + (IF tax.limit = 0 THEN cut ELSE Min({tax.limit, cut}))

-----------------------------------------------------------------------------
(* distribute_rewards.  The stake distribution is that of the ledger the   *)
(* epoch is closed on.                                                     *)

\* PercentStake::scale_value
scale_value(stake, total, v) == (((v * StakeScale) \div total) * stake) \div StakeScale

\* What a pool's registration lets the owners keep of its reward, by account.
OwnerParts(r, taxed) ==
    LET reg == RegOf[r]
        count == Len(reg.owners)
        paid(a) == SumFunction([i \in {j \in DOMAIN reg.owners : reg.owners[j] = a} |->
                        (taxed \div count) + (IF i = 1 THEN taxed % count ELSE 0)])
    IN IF reg.account = <<>>
       THEN [a \in ToSet(reg.owners) |-> paid(a)]
       ELSE [a \in {reg.account[1]} |-> taxed]

\* What one member of a pool receives out of the reward after tax.
MemberPart(L, a, p, after_tax) ==
    scale_value(StakeOf(L, a, p), PoolStake(L, p), after_tax)

\* distribute_poolid_rewards: the accounts credited for one pool with what
\* each receives, and what is left for the treasury.
distribute_poolid_rewards(L, p, reward) ==
    LET r == L.pools[p]
        taxed == tax_cut(reward, RegOf[r].tax)
        after_tax == reward - taxed
        owners == OwnerParts(r, taxed)
        members == IF after_tax > 0 THEN Members(L, p) ELSE {}
        parts == [a \in members |-> MemberPart(L, a, p, after_tax)]
    IN [credits |-> [a \in DOMAIN owners \cup members |->
                        (IF a \in DOMAIN owners THEN owners[a] ELSE 0)
                        + (IF a \in members THEN parts[a] ELSE 0)],
        leftover |-> after_tax - SumFunction(parts)]

\* Pots: a draw takes at most what there is, the fees are siphoned whole.
draw_reward(L, expected) == Min({L.rewards, expected})
siphon_fees(L) == [value |-> L.fees, left |-> 0]

\* What is drawn from the rewards pot, the treasury's cut, and the reward
\* left to the pools.
Closing(L) ==
    LET drawn == draw_reward(L, rewards_contribution_calculation(Epoch(L.date) + 1,
                                                                 get_total_stake(L)))
        fees == siphon_fees(L).value
        total == drawn + (IF FeesGoToTreasury THEN 0 ELSE fees)
        cut == tax_cut(total, TreasuryTax)
    IN [drawn |-> drawn, treasury |-> cut + (IF FeesGoToTreasury THEN fees ELSE 0),
        reward |-> total - cut]

\* A pool's reward by its share of the epoch's blocks.
Uncapped(L, p, reward) == L.leaders_log[p] * (reward \div LogTotal(L))

\* The same, capped when enough pools took part.
PoolReward(L, p, reward) ==
    LET cap == RewardParams.capping IN
    IF cap # <<>> /\ Cardinality(DOMAIN L.leaders_log) >= cap[1].threshold
    THEN Min({Uncapped(L, p, reward), reward \div cap[1].pools})
    ELSE Uncapped(L, p, reward)

\* The division of scale_value by the pool's stake: a pool that is due a
\* reward after its tax, whose members hold nothing.
DividesByZero(L) ==
    LET reward == Closing(L).reward IN
    \E p \in DOMAIN L.leaders_log \cap DOMAIN L.pools :
        /\ PoolReward(L, p, reward) > tax_cut(PoolReward(L, p, reward), RegOf[L.pools[p]].tax)
        /\ Members(L, p) # {}
        /\ PoolStake(L, p) = 0

\* Mutant: what a capped pool forfeits is lost.
SpillWithoutForfeit(L, p, reward, paid) ==
    IF p \in DOMAIN paid THEN paid[p].leftover ELSE PoolReward(L, p, reward)

\* What the treasury gets of one pool's reward: what the cap forfeits, and
\* the leftover of its members or, for a pool that has gone, everything.
Spill(L, p, reward, paid) ==
    Uncapped(L, p, reward) - PoolReward(L, p, reward)
    + (IF p \in DOMAIN paid THEN paid[p].leftover ELSE PoolReward(L, p, reward))

Credited(paid, a) ==
    SumFunction([p \in {x \in DOMAIN paid : a \in DOMAIN paid[x].credits} |->
                    paid[p].credits[a]])

Paid(L) ==
    LET close == Closing(L)
        reward == close.reward
        pools == IF reward > 0 THEN DOMAIN L.leaders_log ELSE {}
        paid == [p \in pools \cap DOMAIN L.pools |->
                    distribute_poolid_rewards(L, p, PoolReward(L, p, reward))]
        credited == UNION {DOMAIN paid[p].credits : p \in DOMAIN paid}
    IN [L EXCEPT
            !.rewards = @ - close.drawn,
            !.fees = siphon_fees(L).left,
            !.leaders_log = <<>>,
            !.treasury = @ + close.treasury
                           + SumFunction([p \in pools |-> Spill(L, p, reward, paid)])
                           + (reward % LogTotal(L)),
            !.accounts = [a \in DOMAIN @ \cup credited |->
                LET old == IF a \in DOMAIN @ THEN @[a] ELSE NewAccount(0)
                IN [old EXCEPT !.value = @ + Credited(paid, a)]]]

can_distribute_reward(L) == LogTotal(L) # 0

\* The caller closes the epoch: nothing to do without stake pool blocks.
distribute_rewards ==
    /\ block = <<>> /\ ~closing /\ panicked = "none"
    /\ \E d \in Dates : Epoch(d) > Epoch(ledger.date)
    /\ IF ~can_distribute_reward(ledger)
       THEN UNCHANGED <<ledger, panicked>>
       ELSE IF DividesByZero(ledger)
       THEN panicked' = "distribute_rewards" /\ UNCHANGED ledger
       ELSE ledger' = Paid(ledger) /\ UNCHANGED panicked
    /\ closing' = TRUE
    /\ UNCHANGED block

\* A block's creator is a pool the ledger knows or knew in this epoch.
Creators == DOMAIN ledger.pools \cup DOMAIN ledger.leaders_log

Next ==
    \/ \E d \in Dates : begin_block(d)
    \/ \E f \in Fragments : ApplyFragment(f)
    \/ \E p \in Creators : finish(<<p>>)
    \/ finish(<<>>)
    \/ DropBlock
    \/ distribute_rewards

Spec == Init /\ [][Next]_vars

-----------------------------------------------------------------------------
(* Properties. *)

Ledgers == {ledger} \cup {block[i].ledger : i \in DOMAIN block}

\* No step creates or destroys value: what block0 declared is at any time the
\* sum of unspent outputs, accounts and pots, across transfers, fees,
\* rewards, forfeited and unassigned rewards (get_total_value).
ValueConserved ==
    \A L \in Ledgers, G \in NewLedger : get_total_value(L) = get_total_value(G)

\* A fragment that spends something is applied at most once on a chain: the
\* outputs it spends are gone and its spending counters are behind.
NoReplay ==
    \A L \in Ledgers, f \in Fragments :
        Body[f].inputs # <<>> => L.applied[f] <= 1

\* The unspent outputs are exactly the outputs of the fragments of the chain
\* that no fragment of the chain has spent.
UtxosAreUnspent ==
    \A L \in Ledgers :
        LET chain == {f \in Fragments : L.applied[f] > 0}
            taken(f) == {i \in DOMAIN Body[f].inputs : Body[f].inputs[i].from = "utxo"}
            spent == UNION {{Body[f].inputs[i].ptr : i \in taken(f)} : f \in chain}
        IN DOMAIN L.utxos =
            (UNION {DOMAIN NewUtxos(f) : f \in
                    {g \in chain : Body[g].kind # "old_declaration"}}) \ spent

\* The account of a group output exists, or get_distribution panics with
\* "group's account should always be created".
GroupAccountsExist ==
    \A L \in Ledgers : \A ptr \in DOMAIN L.utxos :
        L.utxos[ptr].address.kind = "group" =>
            L.utxos[ptr].address.account \in DOMAIN L.accounts

\* The stake distribution counts all the value of outputs and accounts once,
\* whatever was delegated to pools that retired and however it was split.
StakeAccounted ==
    \A L \in Ledgers :
        Unassigned(L) + Dangling(L) + get_total_stake(L)
            = ValuesOf(L.utxos) + ValuesOf(L.accounts)

\* Nothing is spent twice: neither by a fragment that comes again nor by two
\* that compete for an output.
SpentOnce == NoReplay /\ UtxosAreUnspent

\* The stake distribution can be taken in every state and leaves nothing out.
DistributionSound == GroupAccountsExist /\ StakeAccounted
=============================================================================
