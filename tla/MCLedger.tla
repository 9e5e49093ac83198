------------------------------ MODULE MCLedger ------------------------------
(***************************************************************************)
(* A small chain for TLC: block0 gives value to alice, bob and carol,      *)
(* registers the pool p and delegates carol to it; ten fragments compete  *)
(* for the same counters, outputs and pool over three epochs.              *)
(***************************************************************************)
EXTENDS Incentives

CONSTANTS
    alice, bob, carol, dave,                    \* accounts
    p, p2, p3, q,                               \* registrations
    g0, gOld, gPool, gDeleg,                    \* block0
    pay, spread, join, group, ungroup, empty, retire, register, update, retax

Addr(kind, key, account) ==
    [kind |-> kind, key |-> key, account |-> account, net |-> "test"]
Out(address, v) == [address |-> address, value |-> v]
AccountOut(a, v) == Out(Addr("account", a, a), v)
UtxoIn(ptr, v, witness, signer) ==
    [from |-> "utxo", ptr |-> ptr, value |-> v, witness |-> witness, signer |-> signer]
AccountIn(a, v, lane, counter) ==
    [from |-> "account", id |-> a, value |-> v, witness |-> "account",
     lane |-> lane, counter |-> counter, signer |-> a]

Tx(kind, inputs, outputs, until, cert) ==
    [kind |-> kind, inputs |-> inputs, outputs |-> outputs, until |-> until, cert |-> cert]
Signed(index, by) == <<[index |-> index, by |-> by]>>
Whole(pool) == <<[pool |-> pool, weight |-> 1]>>
Halves(x, y) == <<[pool |-> x, weight |-> 1], [pool |-> y, weight |-> 1]>>

MCAccounts == {alice, bob, carol, dave}
MCRegistrations == {p, p2, p3, q}
MCFragments == {g0, gOld, gPool, gDeleg, pay, spread, join, group, ungroup,
                empty, retire, register, update, retax}
MCBlock0 == <<gOld, g0, gPool, gDeleg>>
MCPots == [treasury |-> 1, rewards |-> 9]
MCFees == [constant |-> 1, coefficient |-> 0, certificate |-> 0]
MCDates == {<<0, 0>>, <<0, 1>>, <<1, 0>>, <<1, 1>>, <<2, 0>>}
Horizon == <<2, 0>>

Tax(fixed) == [fixed |-> fixed, num |-> 1, den |-> 3, limit |-> 2]
Reg(owners, tax) ==
    [owners |-> owners, threshold |-> 1, operators |-> 0, tax |-> tax, account |-> <<>>]

MCRegOf ==
    [r \in MCRegistrations |->
        CASE r = p -> Reg(<<alice, dave>>, Tax(1))
          [] r = p2 -> [Reg(<<alice>>, Tax(1)) EXCEPT !.account = <<bob>>]
          [] r = p3 -> Reg(<<alice>>, Tax(3))
          [] OTHER -> Reg(<<bob>>, Tax(0))]

MCBody ==
    [f \in MCFragments |->
        CASE f = gOld -> Tx("old_declaration", <<>>, <<Out(Addr("single", alice, alice), 1)>>, <<0, 0>>, <<>>)
          [] f = g0 -> Tx("transaction", <<>>,
                <<Out(Addr("single", alice, alice), 3), AccountOut(alice, 4),
                  Out(Addr("group", bob, bob), 2), AccountOut(carol, 2)>>, <<0, 0>>, <<>>)
          [] f = gPool -> Tx("pool_registration", <<>>, <<>>, <<0, 0>>, [reg |-> p, signatures |-> <<>>])
          [] f = gDeleg -> Tx("stake_delegation", <<>>, <<>>, <<0, 0>>,
                [account |-> carol, signer |-> carol, delegation |-> Whole(p)])
          [] f = pay -> Tx("transaction", <<AccountIn(alice, 3, 0, 0)>>,
                <<AccountOut(bob, 2)>>, <<1, 0>>, <<>>)
          [] f = spread -> Tx("owner_delegation", <<AccountIn(alice, 1, 0, 1)>>, <<>>, Horizon,
                [delegation |-> Halves(q, p)])
          [] f = join -> Tx("stake_delegation", <<AccountIn(bob, 1, 0, 0)>>, <<>>, Horizon,
                [account |-> bob, signer |-> bob, delegation |-> Halves(p, q)])
          [] f = group -> Tx("transaction",
                <<UtxoIn(<<g0, 1>>, 3, "utxo", alice), UtxoIn(<<gOld, 1>>, 1, "old", alice)>>,
                <<Out(Addr("group", alice, dave), 3)>>, Horizon, <<>>)
          [] f = ungroup -> Tx("transaction", <<UtxoIn(<<group, 1>>, 3, "utxo", alice)>>,
                <<AccountOut(carol, 2)>>, Horizon, <<>>)
          [] f = empty -> Tx("transaction", <<AccountIn(carol, 2, 0, 0)>>,
                <<AccountOut(alice, 1)>>, Horizon, <<>>)
          [] f = retire -> Tx("pool_retirement", <<AccountIn(alice, 1, 1, 0)>>, <<>>, Horizon,
                [pool |-> p, signatures |-> Signed(1, alice)])
          [] f = register -> Tx("pool_registration", <<AccountIn(bob, 1, 0, 1)>>, <<>>, Horizon,
                [reg |-> q, signatures |-> Signed(1, bob)])
          [] f = update -> Tx("pool_update", <<AccountIn(alice, 1, 1, 0)>>, <<>>, Horizon,
                [pool |-> p, last |-> p, new |-> p2, signatures |-> Signed(1, alice)])
          [] OTHER -> Tx("pool_update", <<AccountIn(alice, 1, 1, 1)>>, <<>>, Horizon,
                [pool |-> p, last |-> p2, new |-> p3, signatures |-> Signed(1, alice)])]

MCRewardParams ==
    [initial |-> 8, ratio |-> [num |-> 1, den |-> 2], halvening |-> TRUE, rate |-> 1,
     start |-> 1, limit |-> <<[num |-> 3, den |-> 2]>>,
     capping |-> <<[threshold |-> 2, pools |-> 3]>>]
MCTreasuryTax == [fixed |-> 0, num |-> 1, den |-> 4, limit |-> 0]
=============================================================================
