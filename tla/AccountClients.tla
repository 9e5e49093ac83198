--------------------------- MODULE AccountClients ---------------------------
(***************************************************************************)
(* A ledger of single accounts and one of multisig accounts used by        *)
(* transactions, and a StakeControl kept up to date beside them            *)
(* (chain-impl-mockchain/src: ledger/ledger.rs for the calls,              *)
(* ledger/token_distribution.rs).  Wallets sign ahead of the ledger and    *)
(* what was signed once may be sent any number of times.                   *)
(***************************************************************************)
EXTENDS AccountLedger

CONSTANTS
    Keys,           \* public keys
    Wallets,        \* the keys that are also identifiers of accounts
    Declarations,   \* declarations of multisig accounts
    Amounts,        \* values that are moved
    Delegations,    \* what a wallet asks to delegate to: <<parts, pools>>
    Supply,         \* all value there is
    Ahead,          \* how many counters ahead of the ledger a wallet signs
    MaxSigned,      \* bound on the signatures made
    MaxSpent,       \* bound on the spendings with one counter of an identifier
    MaxEpoch        \* bound on the epochs

ASSUME SupplyFits == Supply \in 0 .. MaxValue

VARIABLES
    accounts,   \* the single accounts
    multisig,   \* the multisig accounts
    outputs,    \* the unspent outputs: value by the account key of the address
    control,    \* the StakeControl kept beside
    totals,     \* TokenTotals, for one token
    epoch,
    signed,     \* the signatures made: [key, msg]
    spent,      \* history: account -> counter -> spendings accepted since it was made
    earlier     \* history: the same of the removed accounts of an identifier

accountsVars == <<accounts, multisig, outputs, control, totals, epoch, signed, spent, earlier>>

Identifiers == {to_identifier(d) : d \in Declarations}

ASSUME ClientConstants ==
    /\ Amounts \subseteq Nat /\ Ahead \in Nat /\ LevelMax \in Nat
    /\ Wallets \cap Identifiers = {}
    /\ IsFiniteSet(Wallets) /\ IsFiniteSet(Declarations)
    /\ \A d \in Declarations :
        d.threshold \in Nat /\ Len(d.owners) \in Nat /\ DOMAIN d.owners = 1 .. Len(d.owners)

Counters == 0 .. LANES * CounterMod - 1

\* Addresses without an account key.
Nobody == <<>>

Owned(key) == <<key>>

Token == "token"

\* What is signed: the kind of witness, the transaction, which names the account
\* and the value, and the counter.
witness_data_common(tag, id, v) == [kind |-> tag, id |-> id, value |-> v]

Counted(data, c) == [kind |-> data.kind, id |-> data.id, value |-> data.value, counter |-> c]

WitnessAccountData(id, v, c) == Counted(witness_data_common("account", id, v), c)

WitnessMultisigData(id, v, c) == Counted(witness_data_common("multisig", id, v), c)

NoSpendings == [c \in Counters |-> 0]

AccountsInit ==
    /\ accounts = <<>>
    /\ multisig = MultisigNew
    /\ outputs = [to \in {Nobody} \cup {Owned(k) : k \in Wallets} |->
                    IF to = Nobody THEN Supply ELSE 0]
    /\ control = add_unassigned(ControlNew, Supply)
    /\ totals = 0
    /\ epoch = 0
    /\ signed = {}
    /\ spent = [id \in Wallets \cup Identifiers |-> NoSpendings]
    /\ earlier = [id \in Identifiers |-> NoSpendings]

TakeOutput(v) ==
    /\ v <= outputs[Nobody]
    /\ outputs' = [outputs EXCEPT ![Nobody] = @ - v]

\* An output to the account of a key.
PayAccount(k, v) ==
    /\ TakeOutput(v)
    /\ accounts' \in add_value_or_account(accounts, k, v)
    /\ control' = add_to(remove_unassigned(control, v), k, v)
    /\ UNCHANGED <<multisig, totals, epoch, signed, spent, earlier>>

\* An output to a group address: the account is made when it is missing.
PayGroup(k, v) ==
    /\ v <= outputs[Nobody]
    /\ outputs' = [outputs EXCEPT ![Nobody] = @ - v, ![Owned(k)] = @ + v]
    /\ IF k \in DOMAIN accounts THEN UNCHANGED accounts
       ELSE accounts' \in add_value_or_account(accounts, k, 0)
    /\ control' = add_to(remove_unassigned(control, v), k, v)
    /\ UNCHANGED <<multisig, totals, epoch, signed, spent, earlier>>

SpendGroup(k) ==
    LET v == outputs[Owned(k)] IN
    /\ v > 0
    /\ outputs' = [outputs EXCEPT ![Nobody] = @ + v, ![Owned(k)] = 0]
    /\ control' = add_unassigned(remove_from(control, k, v), v)
    /\ UNCHANGED <<accounts, multisig, totals, epoch, signed, spent, earlier>>

\* Multisig accounts are not part of the StakeControl.
PayMultisig(id, v) ==
    /\ TakeOutput(v)
    /\ multisig' \in MultisigAddValue(multisig, id, v)
    /\ control' = remove_unassigned(control, v)
    /\ UNCHANGED <<accounts, totals, epoch, signed, spent, earlier>>

SignCounters(L, id) ==
    {increment_nth(L[id].spending[l], n) : l \in 0 .. LANES - 1, n \in 0 .. Ahead}

SignSingle(k, v) ==
    /\ Cardinality(signed) < MaxSigned
    /\ k \in DOMAIN accounts
    /\ \E c \in SignCounters(accounts, k) :
        signed' = signed \cup {[key |-> k, msg |-> WitnessAccountData(k, v, c)]}
    /\ UNCHANGED <<accounts, multisig, outputs, control, totals, epoch, spent, earlier>>

SignMultisig(k, id, v) ==
    /\ Cardinality(signed) < MaxSigned
    /\ id \in DOMAIN multisig.accounts
    /\ \E c \in SignCounters(multisig.accounts, id) :
        signed' = signed \cup {[key |-> k, msg |-> WitnessMultisigData(id, v, c)]}
    /\ UNCHANGED <<accounts, multisig, outputs, control, totals, epoch, spent, earlier>>

GiveBack(v) == outputs' = [outputs EXCEPT ![Nobody] = @ + v]

\* All spendings with a counter of an identifier, by whichever of its accounts.
SpentEver(id, c) == spent[id][c] + (IF id \in Identifiers THEN earlier[id][c] ELSE 0)

CountSpending(id, c) ==
    /\ SpentEver(id, c) < MaxSpent
    /\ spent' = [spent EXCEPT ![id][c] = @ + 1]
    /\ UNCHANGED earlier

\* input_single_account_verify with any signature that was made.
SpendSingle(s) ==
    LET m == s.msg IN
    /\ m.kind = "account" /\ s.key = m.id
    /\ accounts' \in remove_value(accounts, m.id, m.counter, m.value)
    /\ GiveBack(m.value)
    /\ control' = add_unassigned(remove_from(control, m.id, m.value), m.value)
    /\ CountSpending(m.id, m.counter)
    /\ UNCHANGED <<multisig, totals, epoch, signed>>

\* Witnesses of one to three signatures at any tree indexes, also such that
\* do not belong there.
Witnesses ==
    LET sigs == {s \in signed : s.msg.kind = "multisig"}
        places == {D1(i) : i \in Indexes} \cup {D2(0, 1)}
        add(ws) == UNION {WitnessAppend(w, ti, s.key, s) : w \in ws, ti \in places, s \in sigs}
    IN  add({<<>>}) \cup add(add({<<>>})) \cup add(add(add({<<>>})))

\* The value is taken before the witness is looked at.
SpendMultisig(msg) ==
    /\ msg.kind = "multisig"
    /\ MultisigRemoveValue(multisig, msg.id, msg.counter, msg.value) # {}
    /\ \E w \in Witnesses :
        multisig' \in input_multi_account_verify(multisig, msg.id, msg, w,
                                                 msg.counter, msg.value)
    /\ GiveBack(msg.value)
    /\ control' = add_unassigned(control, msg.value)
    /\ CountSpending(msg.id, msg.counter)
    /\ UNCHANGED <<accounts, totals, epoch, signed>>

Declare(decl) ==
    /\ multisig' \in MultisigAddAccount(multisig, decl)
    /\ UNCHANGED <<accounts, outputs, control, totals, epoch, signed, spent, earlier>>

\* A new account of the same declaration counts from zero again.
Undeclare(id) ==
    /\ multisig' \in MultisigRemoveAccount(multisig, id)
    /\ earlier' = [earlier EXCEPT ![id] = [c \in Counters |-> SpentEver(id, c)]]
    /\ spent' = [spent EXCEPT ![id] = NoSpendings]
    /\ UNCHANGED <<accounts, outputs, control, totals, epoch, signed>>

Delegate(id, d) ==
    /\ \E ratio \in DelegationRatioNew(d[1], d[2]) :
        \/ /\ accounts' \in set_delegation(accounts, id, ratio)
           /\ UNCHANGED multisig
        \/ /\ multisig' \in MultisigSetDelegation(multisig, id, ratio)
           /\ UNCHANGED accounts
    /\ UNCHANGED <<outputs, control, totals, epoch, signed, spent, earlier>>

\* mint_token_unchecked, in block0 only: no policy allows it later.
Mint(k, v) ==
    /\ epoch = 0
    /\ totals' \in checked_add(totals, v)
    /\ accounts' \in token_add(accounts, k, Token, v)
    /\ UNCHANGED <<multisig, outputs, control, epoch, signed, spent, earlier>>

\* The rewards of an epoch: the shares of an account come one by one.
Reward(k, shares) ==
    LET v == FoldLeft(LAMBDA x, y : x + y, 0, shares) IN
    /\ epoch < MaxEpoch
    /\ TakeOutput(v)
    /\ epoch' = epoch + 1
    /\ accounts' \in FoldLeft(LAMBDA result, share :
            UNION {add_rewards_to_account(L, k, epoch, share) : L \in result},
            {accounts}, shares)
    /\ control' = add_to(remove_unassigned(control, v), k, v)
    /\ UNCHANGED <<multisig, totals, signed, spent, earlier>>

AccountsNext ==
    \/ \E k \in Wallets, v \in Amounts :
        PayAccount(k, v) \/ PayGroup(k, v) \/ SignSingle(k, v) \/ Mint(k, v)
    \/ \E k \in Wallets : SpendGroup(k)
    \/ \E id \in Identifiers, v \in Amounts : PayMultisig(id, v)
    \/ \E k \in Keys, id \in Identifiers, v \in Amounts : SignMultisig(k, id, v)
    \/ \E s \in signed : SpendSingle(s) \/ SpendMultisig(s.msg)
    \/ \E decl \in Declarations : Declare(decl)
    \/ \E id \in Identifiers : Undeclare(id)
    \/ \E id \in Wallets \cup Identifiers, d \in Delegations : Delegate(id, d)
    \/ \E k \in Wallets, v, w \in Amounts : Reward(k, <<v, w>>)

AccountsSpec == AccountsInit /\ [][AccountsNext]_accountsVars

-----------------------------------------------------------------------------
(* Properties. *)

\* As many owners as the threshold of id asks for have signed that it pays v, at
\* one of the counters it is at.
EnoughHaveSigned(id, v) ==
    \E l \in 0 .. LANES - 1 :
        LET msg == WitnessMultisigData(id, v, multisig.accounts[id].spending[l])
            owners == multisig.declarations[id].owners
        IN  Cardinality({i \in DOMAIN owners :
                [key |-> owners[i].hash, msg |-> msg] \in signed})
            >= multisig.declarations[id].threshold

\* A multisig account pays only for what enough of its owners have signed: the
\* account, the value and the counter it was at, each owner at its own place,
\* whatever witness the signatures were put together in.
SpendNeedsThreshold ==
    [][\A id \in DOMAIN multisig.accounts \cap DOMAIN multisig'.accounts :
        multisig'.accounts[id].value < multisig.accounts[id].value =>
            EnoughHaveSigned(id, multisig.accounts[id].value - multisig'.accounts[id].value)]_accountsVars

\* From the making of an account to its removal the counters of a lane are used
\* in turn: a signature it has paid for is good again only when the lane has gone
\* round and every other counter of it was used as often.  The ledger never
\* removes a single account; a multisig account that is removed and declared
\* again is another account, for which the old signatures are new.
CountersTakeTurns ==
    \A id \in Wallets \cup Identifiers, l \in 0 .. LANES - 1 :
        \A m, n \in 0 .. CounterMod - 1 :
            m < n => spent[id][CounterNew(l, m)] - spent[id][CounterNew(l, n)] \in {0, 1}

\* What the documentation of SpendingCounter says: a matching counter is needed
\* "to make sure we have non-replayability of a transaction"
\* (accounting/account/spending.rs:82-87).  The transaction names an identifier,
\* so this is CountersTakeTurns with all spendings of the identifier.
NeverReplayed ==
    \A id \in Wallets \cup Identifiers, l \in 0 .. LANES - 1 :
        \A m, n \in 0 .. CounterMod - 1 :
            m < n => SpentEver(id, CounterNew(l, m)) - SpentEver(id, CounterNew(l, n)) \in {0, 1}

OutputList == SetToSeq({[to |-> to, value |-> outputs[to]] : to \in DOMAIN outputs})

\* The control that is kept up to date with every payment is the one computed
\* from the ledger, and with the multisig accounts it adds up to the supply.
StakeControlAgrees ==
    LET fresh == new_with(accounts, OutputList) IN
    /\ control.assigned = fresh.assigned /\ control.unassigned = fresh.unassigned
    /\ \A k \in Wallets : Max({0} \cup by(control, k)) = Max({0} \cup by(fresh, k))
    /\ ControlTotal(control) + get_total_value(multisig.accounts) = Supply
=============================================================================
