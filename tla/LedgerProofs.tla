---------------------------- MODULE LedgerProofs ----------------------------
(***************************************************************************)
(* Theorems about the ledger and the rewards, for any block0, fragments,   *)
(* registrations, taxes and dates: no operation creates or destroys value, *)
(* the stake distribution accounts for every unit of it, nothing is spent  *)
(* twice, and a restart loses none of it.  Every operation is given what   *)
(* the ledger gains by it (Gains), whether group outputs keep their        *)
(* accounts (Keeps) and what it spends (Quiet, Spends); the invariants     *)
(* ValueInv, StakeInv, SpendInv and SolidInv are put together from these.  *)
(***************************************************************************)
EXTENDS Incentives, FiniteSetTheorems, TLAPS

\* One factor of the halvening.
Halve(acc, n, ratio) == (acc * ratio.num) \div ratio.den

F == INSTANCE FoldTheorems WITH Op <- Halve

-----------------------------------------------------------------------------
(* Values added up. *)

\* The sum of a function is the sum over its domain.
LEMMA SumOfFunction == ASSUME NEW g PROVE SumFunction(g) = F!Sum(g, DOMAIN g)
BY DEF SumFunction, SumFunctionOnSet, FoldFunctionOnSet, MapThenFoldSet, F!Sum, F!Pick

Values(f) == [x \in DOMAIN f |-> f[x].value]

HasValues(f) == F!IsFiniteSet(DOMAIN f) /\ \A x \in DOMAIN f : f[x].value \in Nat

\* So is the value of a map of outputs or accounts.
LEMMA ValuesAreSums ==
    ASSUME NEW f PROVE ValuesOf(f) = F!Sum(Values(f), DOMAIN f)
BY SumOfFunction DEF ValuesOf, Values

\* It is a natural number.
LEMMA ValuesType ==
    ASSUME NEW f, HasValues(f)
    PROVE  ValuesOf(f) \in Nat /\ F!Ints(Values(f), DOMAIN f)
<1>1. F!Nats(Values(f), DOMAIN f) /\ F!IsFiniteSet(DOMAIN f)
  BY DEF HasValues, Values, F!Nats
<1>2. F!Sum(Values(f), DOMAIN f) \in Nat
  BY <1>1, F!SumIsNat
<1>3. F!Ints(Values(f), DOMAIN f)
  BY <1>1 DEF F!Nats, F!Ints
<1> QED BY <1>2, <1>3, ValuesAreSums

\* Only the value at x may differ.
SameBut(g, f, x) ==
    /\ DOMAIN g \ {x} = DOMAIN f \ {x}
    /\ \A y \in DOMAIN f \ {x} : g[y].value = f[y].value

ValueAt(f, x) == IF x \in DOMAIN f THEN f[x].value ELSE 0

\* The value at one place and at all others.
LEMMA ValuesSplit ==
    ASSUME NEW f, HasValues(f), NEW x
    PROVE  /\ ValuesOf(f) = ValueAt(f, x) + F!Sum(Values(f), DOMAIN f \ {x})
           /\ F!Sum(Values(f), DOMAIN f \ {x}) \in Int
<1>1. PICK D : D = DOMAIN f
  OBVIOUS
<1>2. F!IsFiniteSet(D) /\ F!Ints(Values(f), D)
  BY <1>1, ValuesType DEF HasValues
<1>3. F!IsFiniteSet(D \ {x})
  BY <1>2, F!FS_Subset
<1>4. F!Ints(Values(f), D \ {x})
  BY <1>2 DEF F!Ints
<1>5. F!Sum(Values(f), D \ {x}) \in Int
  BY <1>3, <1>4, F!SumIsInt
<1>6. CASE x \in D
  <2>1. F!Sum(Values(f), D) = Values(f)[x] + F!Sum(Values(f), D \ {x})
    BY <1>2, <1>6, F!SumRemoves
  <2>2. Values(f)[x] = ValueAt(f, x)
    BY <1>1, <1>6 DEF Values, ValueAt
  <2> QED BY <1>1, <1>5, <2>1, <2>2, ValuesAreSums
<1>7. CASE x \notin D
  <2>1. D \ {x} = D /\ ValueAt(f, x) = 0
    BY <1>1, <1>7 DEF ValueAt
  <2> QED BY <1>1, <1>5, <2>1, ValuesAreSums
<1> QED BY <1>6, <1>7

\* A change at one place changes the sum by as much.
LEMMA ValuesChange ==
    ASSUME NEW f, HasValues(f), NEW g, NEW x, SameBut(g, f, x), ValueAt(g, x) \in Nat
    PROVE  /\ HasValues(g)
           /\ ValuesOf(g) = ValuesOf(f) - ValueAt(f, x) + ValueAt(g, x)
<1>1. PICK D : D = DOMAIN f \ {x}
  OBVIOUS
<1>2. D = DOMAIN g \ {x} /\ F!SameOn(Values(f), Values(g), D)
  BY <1>1 DEF SameBut, Values, F!SameOn
<1>3. F!IsFiniteSet(DOMAIN g)
  <2>1. F!IsFiniteSet(D)
    BY <1>1, F!FS_Subset DEF HasValues
  <2>2. F!IsFiniteSet(D \cup {x})
    BY <2>1, F!FS_AddElement
  <2>3. DOMAIN g \subseteq D \cup {x}
    BY <1>2
  <2> QED BY <2>2, <2>3, F!FS_Subset
<1>4. HasValues(g)
  BY <1>3 DEF HasValues, SameBut, ValueAt
<1>5. F!Ints(Values(f), D) /\ F!IsFiniteSet(D)
  BY <1>1, ValuesType, F!FS_Subset DEF F!Ints, HasValues
<1>6. F!Sum(Values(f), D) = F!Sum(Values(g), D)
  BY <1>2, <1>5, F!SumSame
<1>7. ValuesOf(f) = ValueAt(f, x) + F!Sum(Values(f), D) /\ F!Sum(Values(f), D) \in Int
  BY <1>1, ValuesSplit
<1>8. ValuesOf(g) = ValueAt(g, x) + F!Sum(Values(g), D)
  BY <1>2, <1>4, ValuesSplit
<1>9. ValueAt(f, x) \in Nat /\ ValuesOf(f) \in Nat
  BY ValuesType DEF ValueAt, HasValues
<1> QED BY <1>4, <1>6, <1>7, <1>8, <1>9

\* g holds what f and h hold.
Merges(g, f, h) ==
    /\ DOMAIN g = DOMAIN f \cup DOMAIN h /\ DOMAIN f \cap DOMAIN h = {}
    /\ \A x \in DOMAIN f : g[x] = f[x]
    /\ \A x \in DOMAIN h : g[x] = h[x]

\* Two disjoint maps put together have the value of both.
LEMMA ValuesMerge ==
    ASSUME NEW f, NEW h, NEW g, HasValues(f), HasValues(h), Merges(g, f, h)
    PROVE  HasValues(g) /\ ValuesOf(g) = ValuesOf(f) + ValuesOf(h)
<1>1. PICK A, B : A = DOMAIN f /\ B = DOMAIN h
  OBVIOUS
<1>2. F!IsFiniteSet(A) /\ F!IsFiniteSet(B) /\ F!Disjoint(A, B)
  BY <1>1 DEF HasValues, Merges, F!Disjoint
<1>3. DOMAIN g = A \cup B /\ F!SameOn(Values(f), Values(g), A) /\ F!SameOn(Values(h), Values(g), B)
  BY <1>1 DEF Merges, Values, F!SameOn
<1>4. F!Ints(Values(f), A) /\ F!Ints(Values(h), B)
  BY <1>1, ValuesType
<1>5. F!Ints(Values(g), A) /\ F!Ints(Values(g), B)
  BY <1>3, <1>4 DEF F!Ints, F!SameOn
<1>6. F!Sum(Values(g), A \cup B) = F!Sum(Values(g), A) + F!Sum(Values(g), B)
  BY <1>2, <1>5, F!SumUnion
<1>7. F!Sum(Values(f), A) = F!Sum(Values(g), A) /\ F!Sum(Values(h), B) = F!Sum(Values(g), B)
  BY <1>2, <1>3, <1>4, F!SumSame
<1>8. F!IsFiniteSet(DOMAIN g)
  BY <1>2, <1>3, F!FS_Union
<1>9. HasValues(g)
  BY <1>1, <1>3, <1>8 DEF HasValues, Merges
<1> QED BY <1>1, <1>3, <1>6, <1>7, <1>9, ValuesAreSums

-----------------------------------------------------------------------------
(* What holds of every ledger. *)

Fields == {"utxos", "oldutxos", "accounts", "pools", "fees", "treasury", "rewards",
           "leaders_log", "date", "chain_length", "applied"}

AccountsOK(accounts) ==
    /\ HasValues(accounts)
    /\ \A a \in DOMAIN accounts :
        /\ DOMAIN accounts[a] = {"value", "nexts", "delegation"}
        /\ accounts[a].delegation \in DelegationTypes

PoolsOK(pools) ==
    /\ F!IsFiniteSet(DOMAIN pools)
    /\ \A p \in DOMAIN pools : pools[p] \in Registrations /\ valid_pool_registration(pools[p])

LogOK(log) == F!IsFiniteSet(DOMAIN log) /\ \A p \in DOMAIN log : log[p] \in Nat

LedgerOK(L) ==
    /\ DOMAIN L = Fields
    /\ HasValues(L.utxos) /\ HasValues(L.oldutxos) /\ AccountsOK(L.accounts)
    /\ PoolsOK(L.pools) /\ LogOK(L.leaders_log)
    /\ L.fees \in Nat /\ L.rewards \in Nat /\ L.treasury \in Nat
    /\ L.date \in Nat \X Nat

\* M is a ledger with d more than L.
Gains(M, L, d) == LedgerOK(M) /\ get_total_value(M) = get_total_value(L) + d

\* The parts of a ledger's value are numbers.
LEMMA TotalType ==
    ASSUME NEW L, LedgerOK(L)
    PROVE  /\ get_total_value(L) \in Int
           /\ ValuesOf(L.oldutxos) \in Nat /\ ValuesOf(L.utxos) \in Nat
           /\ ValuesOf(L.accounts) \in Nat
<1>1. ValuesOf(L.oldutxos) \in Nat /\ ValuesOf(L.utxos) \in Nat /\ ValuesOf(L.accounts) \in Nat
  BY ValuesType DEF LedgerOK, AccountsOK
<1> QED BY <1>1 DEF LedgerOK, get_total_value

-----------------------------------------------------------------------------
(* Accounts. *)

\* A change of one account changes the sum by as much.
LEMMA AccountChange ==
    ASSUME NEW accounts, AccountsOK(accounts), NEW new, NEW a, SameBut(new, accounts, a),
           \A b \in DOMAIN accounts \ {a} : new[b] = accounts[b],
           a \in DOMAIN new => /\ DOMAIN new[a] = {"value", "nexts", "delegation"}
                               /\ new[a].value \in Nat
                               /\ new[a].delegation \in DelegationTypes
    PROVE  /\ AccountsOK(new)
           /\ ValuesOf(new) = ValuesOf(accounts) - ValueAt(accounts, a) + ValueAt(new, a)
<1>1. HasValues(accounts)
  BY DEF AccountsOK
<1>2. ValueAt(new, a) \in Nat
  BY DEF ValueAt
<1>3. HasValues(new) /\ ValuesOf(new) = ValuesOf(accounts) - ValueAt(accounts, a) + ValueAt(new, a)
  BY <1>1, <1>2, ValuesChange
<1>4. DOMAIN new \ {a} = DOMAIN accounts \ {a}
  BY DEF SameBut
<1>5. ASSUME NEW b \in DOMAIN new
      PROVE DOMAIN new[b] = {"value", "nexts", "delegation"} /\ new[b].delegation \in DelegationTypes
  BY <1>4 DEF AccountsOK
<1> QED BY <1>3, <1>5 DEF AccountsOK

\* A ledger gains what its accounts gain.
LEMMA SetAccounts ==
    ASSUME NEW L, LedgerOK(L), NEW new, AccountsOK(new), NEW d \in Int,
           ValuesOf(new) = ValuesOf(L.accounts) + d
    PROVE  Gains([L EXCEPT !.accounts = new], L, d)
<1>1. PICK M : M = [L EXCEPT !.accounts = new]
  OBVIOUS
<1>2. /\ DOMAIN M = Fields /\ M.accounts = new /\ M.utxos = L.utxos /\ M.oldutxos = L.oldutxos
      /\ M.pools = L.pools /\ M.leaders_log = L.leaders_log /\ M.fees = L.fees
      /\ M.rewards = L.rewards /\ M.treasury = L.treasury /\ M.date = L.date
  BY <1>1 DEF LedgerOK, Fields
<1>3. LedgerOK(M)
  BY <1>2 DEF LedgerOK
<1>4. get_total_value(M) = get_total_value(L) + d
  BY <1>2, TotalType DEF get_total_value, LedgerOK
<1> QED BY <1>1, <1>3, <1>4 DEF Gains

\* An account may delegate to no pool.
LEMMA NoDelegation == <<>> \in DelegationTypes
BY DEF DelegationTypes

\* Adding value to an account, which may have to be made, gains it.
LEMMA AddGains ==
    ASSUME NEW L, LedgerOK(L), NEW a, NEW v \in Nat, NEW M \in AddValueOrAccount(L, a, v)
    PROVE  Gains(M, L, v)
<1>1. AccountsOK(L.accounts) /\ "accounts" \in DOMAIN L
  BY DEF LedgerOK, Fields
<1>2. CASE a \notin DOMAIN L.accounts
  <2>1. PICK new : new = With(L.accounts, a, NewAccount(v))
    OBVIOUS
  <2>2. SameBut(new, L.accounts, a) /\ \A b \in DOMAIN L.accounts \ {a} : new[b] = L.accounts[b]
    BY <2>1 DEF SameBut, With
  <2>3. a \in DOMAIN new /\ new[a] = NewAccount(v)
    BY <2>1 DEF With
  <2>4. /\ DOMAIN NewAccount(v) = {"value", "nexts", "delegation"} /\ NewAccount(v).value = v
        /\ NewAccount(v).delegation = <<>>
    BY DEF NewAccount
  <2>5. AccountsOK(new) /\ ValuesOf(new) = ValuesOf(L.accounts) - ValueAt(L.accounts, a) + ValueAt(new, a)
    BY <1>1, <2>2, <2>3, <2>4, NoDelegation, AccountChange
  <2>6. ValueAt(L.accounts, a) = 0 /\ ValueAt(new, a) = v
    BY <1>2, <2>3, <2>4 DEF ValueAt
  <2>7. ValuesOf(new) = ValuesOf(L.accounts) + v
    BY <2>5, <2>6, TotalType
  <2>8. M = [L EXCEPT !.accounts = new]
    BY <1>2, <2>1 DEF AddValueOrAccount
  <2> QED BY <2>5, <2>7, <2>8, SetAccounts
<1>3. CASE a \in DOMAIN L.accounts
  <2>1. PICK new : new = [L.accounts EXCEPT ![a].value = @ + v]
    OBVIOUS
  <2>2. SameBut(new, L.accounts, a) /\ \A b \in DOMAIN L.accounts \ {a} : new[b] = L.accounts[b]
    BY <2>1 DEF SameBut
  <2>3. L.accounts[a].value \in Nat /\ DOMAIN L.accounts[a] = {"value", "nexts", "delegation"}
        /\ L.accounts[a].delegation \in DelegationTypes
    BY <1>1, <1>3 DEF AccountsOK, HasValues
  <2>4. /\ a \in DOMAIN new /\ DOMAIN new[a] = {"value", "nexts", "delegation"}
        /\ new[a].value = L.accounts[a].value + v /\ new[a].delegation = L.accounts[a].delegation
    BY <1>3, <2>1, <2>3
  <2>5. AccountsOK(new) /\ ValuesOf(new) = ValuesOf(L.accounts) - ValueAt(L.accounts, a) + ValueAt(new, a)
    BY <1>1, <2>2, <2>3, <2>4, AccountChange
  <2>6. ValueAt(L.accounts, a) = L.accounts[a].value /\ ValueAt(new, a) = L.accounts[a].value + v
    BY <1>3, <2>4 DEF ValueAt
  <2>7. ValuesOf(new) = ValuesOf(L.accounts) + v
    BY <2>3, <2>5, <2>6, TotalType
  <2>8. M = [L EXCEPT !.accounts = new]
    BY <1>3, <2>1 DEF AddValueOrAccount
  <2> QED BY <2>5, <2>7, <2>8, SetAccounts
<1> QED BY <1>2, <1>3

\* Delegating gains nothing.
LEMMA DelegationGains ==
    ASSUME NEW L, LedgerOK(L), NEW a, NEW delegation \in DelegationTypes,
           NEW M \in set_delegation(L, a, delegation)
    PROVE  Gains(M, L, 0)
<1>1. AccountsOK(L.accounts) /\ "accounts" \in DOMAIN L
  BY DEF LedgerOK, Fields
<1>2. a \in DOMAIN L.accounts
  BY DEF set_delegation
<1>3. PICK new : new = [L.accounts EXCEPT ![a].delegation = delegation]
  OBVIOUS
<1>4. SameBut(new, L.accounts, a) /\ \A b \in DOMAIN L.accounts \ {a} : new[b] = L.accounts[b]
  BY <1>3 DEF SameBut
<1>5. L.accounts[a].value \in Nat /\ DOMAIN L.accounts[a] = {"value", "nexts", "delegation"}
  BY <1>1, <1>2 DEF AccountsOK, HasValues
<1>6. /\ a \in DOMAIN new /\ DOMAIN new[a] = {"value", "nexts", "delegation"}
      /\ new[a].value = L.accounts[a].value /\ new[a].delegation = delegation
  BY <1>2, <1>3, <1>5
<1>7. AccountsOK(new) /\ ValuesOf(new) = ValuesOf(L.accounts) - ValueAt(L.accounts, a) + ValueAt(new, a)
  BY <1>1, <1>4, <1>5, <1>6, AccountChange
<1>8. ValueAt(L.accounts, a) = L.accounts[a].value /\ ValueAt(new, a) = L.accounts[a].value
  BY <1>2, <1>6 DEF ValueAt
<1>9. ValuesOf(new) = ValuesOf(L.accounts) + 0
  BY <1>5, <1>7, <1>8, TotalType
<1>10. M = [L EXCEPT !.accounts = new]
  BY <1>2, <1>3 DEF set_delegation
<1> QED BY <1>7, <1>9, <1>10, SetAccounts

-----------------------------------------------------------------------------
(* Inputs. *)

\* Gains of operations one after the other add up.
LEMMA GainsAdd ==
    ASSUME NEW L, LedgerOK(L), NEW M, NEW N, NEW d \in Int, NEW e \in Int,
           Gains(M, L, d), Gains(N, M, e)
    PROVE  Gains(N, L, d + e)
BY TotalType DEF Gains

\* An output that is spent is lost.
LEMMA UtxoInputGains ==
    ASSUME NEW L, LedgerOK(L), NEW in, in.value \in Nat, NEW M \in apply_input_to_utxo(L, in)
    PROVE  Gains(M, L, -in.value)
<1>1. PICK set : set = IF in.witness = "utxo" THEN "utxos" ELSE "oldutxos"
  OBVIOUS
<1>2. /\ M = [L EXCEPT ![set] = Without(@, in.ptr)]
      /\ in.ptr \in DOMAIN L[set] /\ in.value = L[set][in.ptr].value
  BY <1>1 DEF apply_input_to_utxo
<1>3. PICK new : new = Without(L[set], in.ptr)
  OBVIOUS
<1>4. SameBut(new, L[set], in.ptr) /\ ValueAt(new, in.ptr) = 0
  BY <1>3 DEF SameBut, Without, ValueAt
<1>5. ValueAt(L[set], in.ptr) = in.value
  BY <1>2 DEF ValueAt
<1>6. HasValues(L[set]) /\ set \in {"utxos", "oldutxos"}
  BY <1>1 DEF LedgerOK
<1>7. HasValues(new) /\ ValuesOf(new) = ValuesOf(L[set]) - in.value + 0
  BY <1>4, <1>5, <1>6, ValuesChange
<1>8. /\ DOMAIN M = Fields /\ M[set] = new
      /\ \A x \in Fields \ {set} : M[x] = L[x]
  BY <1>2, <1>3, <1>6 DEF LedgerOK, Fields
<1>9. /\ M.accounts = L.accounts /\ M.pools = L.pools /\ M.leaders_log = L.leaders_log
      /\ M.fees = L.fees /\ M.rewards = L.rewards /\ M.treasury = L.treasury /\ M.date = L.date
  BY <1>6, <1>8 DEF Fields
<1>10. HasValues(M.utxos) /\ HasValues(M.oldutxos)
  BY <1>6, <1>7, <1>8 DEF LedgerOK, Fields
<1>11. LedgerOK(M)
  BY <1>8, <1>9, <1>10 DEF LedgerOK
<1>12. ValuesOf(M.utxos) + ValuesOf(M.oldutxos) = ValuesOf(L.utxos) + ValuesOf(L.oldutxos) - in.value
  <2>1. ValuesOf(L.utxos) \in Nat /\ ValuesOf(L.oldutxos) \in Nat
    BY TotalType
  <2>2. CASE set = "utxos"
    BY <1>7, <1>8, <2>1, <2>2 DEF Fields
  <2>3. CASE set = "oldutxos"
    BY <1>7, <1>8, <2>1, <2>3 DEF Fields
  <2> QED BY <1>6, <2>2, <2>3
<1>13. get_total_value(M) = get_total_value(L) + (-in.value)
  BY <1>9, <1>11, <1>12, TotalType DEF get_total_value, LedgerOK
<1> QED BY <1>11, <1>13 DEF Gains

\* What is spent from an account is lost.
LEMMA AccountInputGains ==
    ASSUME NEW L, LedgerOK(L), NEW in, in.value \in Nat, NEW M \in input_single_account_verify(L, in)
    PROVE  Gains(M, L, -in.value)
<1>1. AccountsOK(L.accounts) /\ "accounts" \in DOMAIN L
  BY DEF LedgerOK, Fields
<1>2. PICK a : a = in.id
  OBVIOUS
<1>3. a \in DOMAIN L.accounts /\ in.value <= L.accounts[a].value
  BY <1>2 DEF input_single_account_verify
<1>4. /\ L.accounts[a].value \in Nat /\ DOMAIN L.accounts[a] = {"value", "nexts", "delegation"}
      /\ L.accounts[a].delegation \in DelegationTypes
  BY <1>1, <1>3 DEF AccountsOK, HasValues
<1>5. PICK old : old = L.accounts[a]
  OBVIOUS
<1>6. PICK next : next = remove_value(old, in)
  OBVIOUS
<1>7. PICK new : new = [L.accounts EXCEPT ![a] = next]
  OBVIOUS
<1>8. M = [L EXCEPT !.accounts = new]
  <2>1. M = [L EXCEPT !.accounts[a] = remove_value(@, in)]
    BY <1>2 DEF input_single_account_verify
  <2> QED BY <1>5, <1>6, <1>7, <2>1
<1>9. SameBut(new, L.accounts, a) /\ \A b \in DOMAIN L.accounts \ {a} : new[b] = L.accounts[b]
  BY <1>7 DEF SameBut
<1>10. /\ DOMAIN next = {"value", "nexts", "delegation"} /\ next.value = old.value - in.value
       /\ next.delegation = old.delegation
  BY <1>4, <1>5, <1>6 DEF remove_value
<1>11. a \in DOMAIN new /\ new[a] = next /\ next.value \in Nat /\ next.delegation \in DelegationTypes
  BY <1>3, <1>4, <1>5, <1>7, <1>10
<1>12. AccountsOK(new) /\ ValuesOf(new) = ValuesOf(L.accounts) - ValueAt(L.accounts, a) + ValueAt(new, a)
  BY <1>1, <1>9, <1>10, <1>11, AccountChange
<1>13. ValueAt(L.accounts, a) = old.value /\ ValueAt(new, a) = old.value - in.value
  BY <1>3, <1>5, <1>10, <1>11 DEF ValueAt
<1>14. ValuesOf(new) = ValuesOf(L.accounts) + (-in.value)
  BY <1>4, <1>5, <1>12, <1>13, TotalType
<1> QED BY <1>8, <1>12, <1>14, SetAccounts

\* The sums up to each place of a list.
LEMMA SumsUpTo ==
    ASSUME NEW v, NEW n \in Nat, F!Nats(v, 1 .. n)
    PROVE  /\ F!Sum(v, 1 .. 0) = 0
           /\ \A i \in 0 .. n : F!Sum(v, 1 .. i) \in Nat
           /\ \A i \in Nat : i < n => F!Sum(v, 1 .. (i + 1)) = F!Sum(v, 1 .. i) + v[i + 1]
<1>1. F!Sum(v, 1 .. 0) = 0
  <2>1. 1 .. 0 = {}
    OBVIOUS
  <2> QED BY <2>1, F!SumEmpty
<1>2. ASSUME NEW i \in 0 .. n PROVE F!Nats(v, 1 .. i) /\ F!Ints(v, 1 .. i) /\ F!IsFiniteSet(1 .. i)
  <2>1. F!Nats(v, 1 .. i) /\ F!Ints(v, 1 .. i)
    BY DEF F!Nats, F!Ints
  <2>2. 1 \in Int /\ i \in Int
    OBVIOUS
  <2>3. F!IsFiniteSet(1 .. i)
    BY <2>2, F!FS_Interval
  <2> QED BY <2>1, <2>3
<1>3. ASSUME NEW i \in 0 .. n PROVE F!Sum(v, 1 .. i) \in Nat
  BY <1>2, F!SumIsNat
<1>4. ASSUME NEW i \in Nat, i < n PROVE F!Sum(v, 1 .. (i + 1)) = F!Sum(v, 1 .. i) + v[i + 1]
  <2>1. i + 1 \in 1 .. n /\ i \in 0 .. n
    BY <1>4
  <2>2. PICK S, x : S = 1 .. i /\ x = i + 1
    OBVIOUS
  <2>3. x \notin S /\ 1 .. (i + 1) = S \cup {x}
    BY <2>2
  <2>4. F!IsFiniteSet(S) /\ F!Ints(v, S) /\ v[x] \in Int
    BY <1>2, <2>1, <2>2 DEF F!Nats
  <2>5. F!Sum(v, S \cup {x}) = F!Sum(v, S) + v[x]
    BY <2>3, <2>4, F!SumAdds
  <2> QED BY <2>2, <2>3, <2>5
<1> QED BY <1>1, <1>3, <1>4

\* The values of the first i inputs or outputs.
UpTo(seq, i) == F!Sum(Values(seq), 1 .. i)

\* The values up to each place of a list, to the last.
LEMMA PrefixSums ==
    ASSUME NEW T, NEW seq \in Seq(T), \A i \in DOMAIN seq : seq[i].value \in Nat
    PROVE  /\ UpTo(seq, 0) = 0 /\ UpTo(seq, Len(seq)) = ValuesOf(seq)
           /\ \A i \in 0 .. Len(seq) : UpTo(seq, i) \in Nat
           /\ \A i \in Nat : i < Len(seq) => UpTo(seq, i + 1) = UpTo(seq, i) + seq[i + 1].value
<1>1. DOMAIN seq = 1 .. Len(seq) /\ Len(seq) \in Nat
  OBVIOUS
<1>2. PICK v, n : v = Values(seq) /\ n = Len(seq)
  OBVIOUS
<1>3. \A i \in 1 .. n : v[i] \in Nat /\ v[i] = seq[i].value
  BY <1>1, <1>2 DEF Values
<1>4. n \in Nat /\ F!Nats(v, 1 .. n)
  BY <1>1, <1>2, <1>3 DEF F!Nats
<1>5. /\ F!Sum(v, 1 .. 0) = 0
      /\ \A i \in 0 .. n : F!Sum(v, 1 .. i) \in Nat
      /\ \A i \in Nat : i < n => F!Sum(v, 1 .. (i + 1)) = F!Sum(v, 1 .. i) + v[i + 1]
  BY <1>4, SumsUpTo
<1>6. UpTo(seq, n) = ValuesOf(seq)
  BY <1>1, <1>2, ValuesAreSums DEF UpTo
<1>7. ASSUME NEW i \in Nat, i < n PROVE UpTo(seq, i + 1) = UpTo(seq, i) + seq[i + 1].value
  <2>1. i + 1 \in 1 .. n
    BY <1>4, <1>7
  <2> QED BY <1>2, <1>3, <1>5, <1>7, <2>1 DEF UpTo
<1> QED BY <1>2, <1>5, <1>6, <1>7 DEF UpTo

TakeInput(M, in) ==
    IF in.from = "utxo" THEN apply_input_to_utxo(M, in) ELSE input_single_account_verify(M, in)

TakeInputs(result, in, env) == Then(result, LAMBDA M : TakeInput(M, in))

In == INSTANCE FoldTheorems WITH Op <- TakeInputs

\* The inputs are taken one after the other.
LEMMA InputsAreLoop ==
    ASSUME NEW L, NEW f PROVE apply_tx_inputs(L, f) = In!Fold({L}, Body[f].inputs, 0)
BY DEF apply_tx_inputs, In!Fold, In!Greatest, TakeInputs, TakeInput, FoldLeft, MapThenFoldSet, Max

\* The ledger loses the value of all inputs.
LEMMA InputsGain ==
    ASSUME NEW L, LedgerOK(L), NEW f \in Fragments, NEW M \in apply_tx_inputs(L, f)
    PROVE  Gains(M, L, -ValuesOf(Body[f].inputs))
<1>1. PICK seq : seq = Body[f].inputs
  OBVIOUS
<1>2. PICK T : seq \in Seq(T)
  BY <1>1, FragmentsAreRead DEF IsSequence
<1>3. \A i \in DOMAIN seq : seq[i].value \in Nat
  BY <1>1, FragmentsAreRead
<1>4. Len(seq) \in Nat /\ DOMAIN seq = 1 .. Len(seq)
  BY <1>2
<1>5. PICK g : In!IsLoop(g, {L}, seq, 0) /\ In!Fold({L}, seq, 0) = g[Len(seq)]
  BY <1>2, In!FoldIsLoop
<1> DEFINE S == {i \in Nat : i <= Len(seq) => \A N \in g[i] : Gains(N, L, -UpTo(seq, i))}
<1>6. 0 \in S
  <2>1. g[0] = {L}
    BY <1>5 DEF In!IsLoop
  <2>2. UpTo(seq, 0) = 0
    BY <1>2, <1>3, PrefixSums
  <2>3. Gains(L, L, -0)
    BY TotalType DEF Gains
  <2> QED BY <2>1, <2>2, <2>3
<1>7. ASSUME NEW i \in Nat, 0 <= i, i < Len(seq), i \in S PROVE i + 1 \in S
  <2> SUFFICES ASSUME NEW N \in g[i + 1] PROVE Gains(N, L, -UpTo(seq, i + 1))
    OBVIOUS
  <2>1. i + 1 \in 1 .. Len(seq) /\ i + 1 - 1 = i
    BY <1>4, <1>7
  <2>2. PICK in : in = seq[i + 1]
    OBVIOUS
  <2>3. in.value \in Nat
    BY <1>3, <1>4, <2>1, <2>2
  <2>4. g[i + 1] = TakeInputs(g[i], in, 0)
    BY <1>5, <2>1, <2>2 DEF In!IsLoop
  <2>5. PICK K \in g[i] : N \in TakeInput(K, in)
    BY <2>4 DEF TakeInputs, Then
  <2>6. Gains(K, L, -UpTo(seq, i))
    BY <1>7, <2>5
  <2>7. Gains(N, K, -in.value)
    BY <2>3, <2>5, <2>6, UtxoInputGains, AccountInputGains DEF TakeInput, Gains
  <2>8. UpTo(seq, i) \in Nat /\ UpTo(seq, i + 1) = UpTo(seq, i) + in.value
    BY <1>2, <1>3, <1>4, <1>7, <2>2, PrefixSums
  <2>9. -UpTo(seq, i) + (-in.value) = -UpTo(seq, i + 1)
    BY <2>3, <2>8
  <2>10. Gains(N, L, -UpTo(seq, i) + (-in.value))
    BY <2>3, <2>6, <2>7, <2>8, GainsAdd
  <2> QED BY <2>9, <2>10
<1>8. Len(seq) \in S
  <2> HIDE DEF S
  <2>1. \A i \in 0 .. Len(seq) : i \in S
    BY <1>4, <1>6, <1>7, F!IntervalInduction
  <2> QED BY <1>4, <2>1
<1>9. M \in g[Len(seq)]
  BY <1>1, <1>5, InputsAreLoop
<1>10. UpTo(seq, Len(seq)) = ValuesOf(seq)
  BY <1>2, <1>3, PrefixSums
<1> QED BY <1>1, <1>4, <1>8, <1>9, <1>10

-----------------------------------------------------------------------------
(* Outputs.  Those to accounts are credited one after the other, the       *)
(* others become unspent outputs at the end.                               *)

IsKept(out) == out.address.kind \in {"single", "group"}

Kept(f) == [i \in DOMAIN Body[f].outputs |->
                IF IsKept(Body[f].outputs[i]) THEN Body[f].outputs[i].value ELSE 0]

Credits(f) == [i \in DOMAIN Body[f].outputs |->
                IF IsKept(Body[f].outputs[i]) THEN 0 ELSE Body[f].outputs[i].value]

\* The outputs of a fragment are a list with values.
LEMMA OutputsType ==
    ASSUME NEW f \in Fragments
    PROVE  /\ \E T : Body[f].outputs \in Seq(T)
           /\ Len(Body[f].outputs) \in Nat /\ DOMAIN Body[f].outputs = 1 .. Len(Body[f].outputs)
           /\ \A i \in 1 .. Len(Body[f].outputs) : Body[f].outputs[i].value \in Nat
<1>1. Body[f].outputs \in Seq(ToSet(Body[f].outputs))
  BY FragmentsAreRead DEF IsSequence
<1>2. PICK seq, T : seq = Body[f].outputs /\ T = ToSet(Body[f].outputs)
  OBVIOUS
<1>3. Len(seq) \in Nat /\ DOMAIN seq = 1 .. Len(seq)
  BY <1>1, <1>2
<1>4. \A i \in DOMAIN seq : seq[i].value \in Nat
  BY <1>2, FragmentsAreRead
<1> QED BY <1>1, <1>2, <1>3, <1>4

\* An output to an account is gained, others are kept for later.
LEMMA OutputGains ==
    ASSUME NEW L, LedgerOK(L), NEW out, out.value \in Nat, NEW M \in AccountsAfterOutput(L, out)
    PROVE  Gains(M, L, IF IsKept(out) THEN 0 ELSE out.value)
<1>1. Gains(L, L, 0)
  BY TotalType DEF Gains
<1>2. CASE out.address.kind = "single"
  BY <1>1, <1>2 DEF AccountsAfterOutput, IsKept
<1>3. CASE out.address.kind = "group"
  <2>1. M = L \/ M \in AddValueOrAccount(L, out.address.account, 0)
    BY <1>3 DEF AccountsAfterOutput
  <2>2. Gains(M, L, 0)
    BY <1>1, <2>1, AddGains
  <2> QED BY <1>3, <2>2 DEF IsKept
<1>4. CASE out.address.kind = "account"
  <2>1. M \in AddValueOrAccount(L, out.address.account, out.value)
    BY <1>4 DEF AccountsAfterOutput
  <2>2. Gains(M, L, out.value)
    BY <2>1, AddGains
  <2> QED BY <1>4, <2>2 DEF IsKept
<1>5. CASE out.address.kind \notin {"single", "group", "account"}
  BY <1>5 DEF AccountsAfterOutput
<1> QED BY <1>2, <1>3, <1>4, <1>5

PutOutputs(result, out, env) == Then(result, LAMBDA M : AccountsAfterOutput(M, out))

Out == INSTANCE FoldTheorems WITH Op <- PutOutputs

\* The outputs to accounts are credited one after the other, then the others
\* are added.
LEMMA OutputsAreLoop ==
    ASSUME NEW L, NEW f, NEW M \in apply_tx_outputs(L, f)
    PROVE  \E K \in Out!Fold({L}, Body[f].outputs, 0) : M \in AddUtxos(K, f)
BY DEF apply_tx_outputs, Then, Out!Fold, Out!Greatest, PutOutputs, FoldLeft, MapThenFoldSet, Max

\* The ledger gains the outputs to accounts.
LEMMA CreditsGain ==
    ASSUME NEW L, LedgerOK(L), NEW f \in Fragments, NEW M \in Out!Fold({L}, Body[f].outputs, 0)
    PROVE  Gains(M, L, F!Sum(Credits(f), DOMAIN Body[f].outputs))
<1>1. PICK seq, v : seq = Body[f].outputs /\ v = Credits(f)
  OBVIOUS
<1>2. PICK T : seq \in Seq(T)
  BY <1>1, OutputsType
<1>3. Len(seq) \in Nat /\ DOMAIN seq = 1 .. Len(seq) /\ \A i \in 1 .. Len(seq) : seq[i].value \in Nat
  BY <1>1, OutputsType
<1>4. \A i \in 1 .. Len(seq) : v[i] = IF IsKept(seq[i]) THEN 0 ELSE seq[i].value
  BY <1>1, <1>3 DEF Credits
<1>5. F!Nats(v, 1 .. Len(seq))
  BY <1>3, <1>4 DEF F!Nats
<1>6. PICK g : Out!IsLoop(g, {L}, seq, 0) /\ Out!Fold({L}, seq, 0) = g[Len(seq)]
  BY <1>2, Out!FoldIsLoop
<1> DEFINE S == {i \in Nat : i <= Len(seq) => \A N \in g[i] : Gains(N, L, F!Sum(v, 1 .. i))}
<1>7. 0 \in S
  <2>1. g[0] = {L}
    BY <1>6 DEF Out!IsLoop
  <2>2. F!Sum(v, 1 .. 0) = 0
    BY <1>3, <1>5, SumsUpTo
  <2>3. Gains(L, L, 0)
    BY TotalType DEF Gains
  <2> QED BY <2>1, <2>2, <2>3
<1>8. ASSUME NEW i \in Nat, 0 <= i, i < Len(seq), i \in S PROVE i + 1 \in S
  <2> SUFFICES ASSUME NEW N \in g[i + 1] PROVE Gains(N, L, F!Sum(v, 1 .. (i + 1)))
    OBVIOUS
  <2>1. i + 1 \in 1 .. Len(seq) /\ i + 1 - 1 = i
    BY <1>3, <1>8
  <2>2. PICK out : out = seq[i + 1]
    OBVIOUS
  <2>3. out.value \in Nat /\ v[i + 1] = IF IsKept(out) THEN 0 ELSE out.value
    BY <1>3, <1>4, <2>1, <2>2
  <2>4. g[i + 1] = PutOutputs(g[i], out, 0)
    BY <1>6, <2>1, <2>2 DEF Out!IsLoop
  <2>5. PICK K \in g[i] : N \in AccountsAfterOutput(K, out)
    BY <2>4 DEF PutOutputs, Then
  <2>6. Gains(K, L, F!Sum(v, 1 .. i))
    BY <1>8, <2>5
  <2>7. Gains(N, K, v[i + 1]) /\ v[i + 1] \in Int
    BY <2>3, <2>5, <2>6, OutputGains DEF Gains
  <2>8. /\ F!Sum(v, 1 .. i) \in Nat
        /\ F!Sum(v, 1 .. (i + 1)) = F!Sum(v, 1 .. i) + v[i + 1]
    BY <1>3, <1>5, <1>8, SumsUpTo
  <2>9. Gains(N, L, F!Sum(v, 1 .. i) + v[i + 1])
    BY <2>6, <2>7, <2>8, GainsAdd
  <2> QED BY <2>8, <2>9
<1>9. Len(seq) \in S
  <2> HIDE DEF S
  <2>1. \A i \in 0 .. Len(seq) : i \in S
    BY <1>3, <1>7, <1>8, F!IntervalInduction
  <2> QED BY <1>3, <2>1
<1>10. M \in g[Len(seq)]
  BY <1>1, <1>6
<1> QED BY <1>1, <1>3, <1>9, <1>10

\* The unspent outputs a fragment adds are the others.
LEMMA NewUtxosValue ==
    ASSUME NEW f \in Fragments
    PROVE  /\ HasValues(NewUtxos(f))
           /\ ValuesOf(NewUtxos(f)) = F!Sum(Kept(f), DOMAIN Body[f].outputs)
<1>1. PICK seq, n : seq = Body[f].outputs /\ n = Len(seq)
  OBVIOUS
<1>2. n \in Nat /\ DOMAIN seq = 1 .. n /\ \A i \in 1 .. n : seq[i].value \in Nat
  BY <1>1, OutputsType
<1>3. PICK D : D = {<<f, i>> : i \in {j \in 1 .. n : IsKept(seq[j])}}
  OBVIOUS
<1>4. DOMAIN NewUtxos(f) = D /\ \A ptr \in D : NewUtxos(f)[ptr] = seq[ptr[2]]
  BY <1>1, <1>2, <1>3 DEF NewUtxos, IsKept
<1>5. F!IsFiniteSet(1 .. n) /\ F!IsFiniteSet(D)
  <2>1. F!IsFiniteSet(1 .. n)
    BY <1>2, F!FS_Interval
  <2>2. F!IsFiniteSet({f})
    BY F!FS_Singleton
  <2>3. F!IsFiniteSet({f} \X (1 .. n))
    BY <2>1, <2>2, F!FS_Product
  <2>4. D \subseteq {f} \X (1 .. n)
    BY <1>3
  <2> QED BY <2>1, <2>3, <2>4, F!FS_Subset
<1>6. \A ptr \in D : ptr = <<f, ptr[2]>> /\ ptr[2] \in 1 .. n /\ IsKept(seq[ptr[2]])
  BY <1>3
<1>7. HasValues(NewUtxos(f))
  BY <1>2, <1>4, <1>5, <1>6 DEF HasValues
<1>8. PICK v, g : v = Values(NewUtxos(f)) /\ g = [ptr \in D |-> ptr[2]]
  OBVIOUS
<1>9. F!Ints(v, D) /\ \A ptr \in D : v[ptr] = seq[ptr[2]].value
  BY <1>2, <1>4, <1>6, <1>8 DEF Values, F!Ints
<1>10. \A i \in 1 .. n : Kept(f)[i] = IF IsKept(seq[i]) THEN seq[i].value ELSE 0
  BY <1>1, <1>2 DEF Kept
<1>11. ASSUME NEW i \in 1 .. n PROVE Kept(f)[i] = F!Sum(v, F!Fibre(g, D, i))
  <2>1. CASE IsKept(seq[i])
    <3>1. <<f, i>> \in D
      BY <1>3, <2>1
    <3>2. F!Fibre(g, D, i) = {<<f, i>>}
      BY <1>6, <1>8, <3>1 DEF F!Fibre
    <3>3. PICK x : x = <<f, i>>
      OBVIOUS
    <3>4. v[x] \in Int /\ v[x] = seq[i].value
      BY <1>9, <3>1, <3>3 DEF F!Ints
    <3>5. F!Sum(v, {x}) = v[x]
      BY <3>4, F!SumOne
    <3> QED BY <1>10, <2>1, <3>2, <3>3, <3>4, <3>5
  <2>2. CASE ~IsKept(seq[i])
    <3>1. F!Fibre(g, D, i) = {}
      BY <1>6, <1>8, <2>2 DEF F!Fibre
    <3>2. F!Sum(v, {}) = 0
      BY F!SumEmpty
    <3> QED BY <1>10, <2>2, <3>1, <3>2
  <2> QED BY <2>1, <2>2
<1>12. \A ptr \in D : g[ptr] \in 1 .. n
  BY <1>6, <1>8
<1>13. F!Sum(Kept(f), 1 .. n) = F!Sum(v, D)
  <2>1. PICK A, k : A = 1 .. n /\ k = Kept(f)
    OBVIOUS
  <2>2. F!FibreSums(k, v, g, D, A) /\ F!MapsTo(g, D, A)
    BY <1>11, <1>12, <2>1 DEF F!FibreSums, F!MapsTo
  <2>3. F!Sum(k, A) = F!Sum(v, D)
    BY <1>5, <1>9, <2>1, <2>2, F!SumByFibres
  <2> QED BY <2>1, <2>3
<1> QED BY <1>1, <1>2, <1>4, <1>7, <1>8, <1>13, ValuesAreSums

\* The ledger gains them.
LEMMA AddUtxosGains ==
    ASSUME NEW L, LedgerOK(L), NEW f \in Fragments, NEW M \in AddUtxos(L, f)
    PROVE  Gains(M, L, ValuesOf(NewUtxos(f)))
<1>1. PICK old, more : old = L.utxos /\ more = NewUtxos(f)
  OBVIOUS
<1>2. PICK new : new = [ptr \in DOMAIN old \cup DOMAIN more |->
                            IF ptr \in DOMAIN old THEN old[ptr] ELSE more[ptr]]
  OBVIOUS
<1>3. M = [L EXCEPT !.utxos = new]
  BY <1>1, <1>2 DEF AddUtxos
<1>4. \A ptr \in DOMAIN more : ptr[1] = f
  BY <1>1 DEF NewUtxos
<1>5. DOMAIN more = {} \/ \A ptr \in DOMAIN old : ptr[1] # f
  BY <1>1 DEF AddUtxos
<1>6. DOMAIN old \cap DOMAIN more = {}
  BY <1>4, <1>5
<1>7. Merges(new, old, more)
  BY <1>2, <1>6 DEF Merges
<1>8. HasValues(old) /\ HasValues(more)
  BY <1>1, NewUtxosValue DEF LedgerOK
<1>9. HasValues(new) /\ ValuesOf(new) = ValuesOf(old) + ValuesOf(more) /\ ValuesOf(more) \in Nat
  BY <1>7, <1>8, ValuesMerge, ValuesType
<1>10. /\ DOMAIN M = Fields /\ M.utxos = new /\ M.accounts = L.accounts /\ M.oldutxos = L.oldutxos
       /\ M.pools = L.pools /\ M.leaders_log = L.leaders_log /\ M.fees = L.fees
       /\ M.rewards = L.rewards /\ M.treasury = L.treasury /\ M.date = L.date
  BY <1>3 DEF LedgerOK, Fields
<1>11. LedgerOK(M)
  BY <1>9, <1>10 DEF LedgerOK
<1>12. get_total_value(M) = get_total_value(L) + ValuesOf(more)
  BY <1>1, <1>9, <1>10, TotalType DEF get_total_value, LedgerOK
<1> QED BY <1>1, <1>11, <1>12 DEF Gains

\* The ledger gains the value of all outputs.
LEMMA OutputsGain ==
    ASSUME NEW L, LedgerOK(L), NEW f \in Fragments, NEW M \in apply_tx_outputs(L, f)
    PROVE  Gains(M, L, ValuesOf(Body[f].outputs))
<1>1. PICK K \in Out!Fold({L}, Body[f].outputs, 0) : M \in AddUtxos(K, f)
  BY OutputsAreLoop
<1>2. PICK c, k, v, D : c = Credits(f) /\ k = Kept(f) /\ v = Values(Body[f].outputs)
                        /\ D = DOMAIN Body[f].outputs
  OBVIOUS
<1>3. F!Ints(c, D) /\ F!Ints(k, D) /\ F!PlusOn(v, c, k, D)
  BY <1>2, OutputsType DEF Credits, Kept, Values, F!Ints, F!PlusOn
<1>4. F!IsFiniteSet(D)
  <2>1. PICK n \in Nat : D = 1 .. n
    BY <1>2, OutputsType
  <2>2. F!IsFiniteSet(1 .. n)
    BY F!FS_Interval
  <2> QED BY <2>1, <2>2
<1>5. F!Sum(v, D) = F!Sum(c, D) + F!Sum(k, D) /\ F!Sum(c, D) \in Int /\ F!Sum(k, D) \in Int
  BY <1>3, <1>4, F!SumPlus, F!SumIsInt
<1>6. Gains(K, L, F!Sum(c, D))
  BY <1>1, <1>2, CreditsGain
<1>7. Gains(M, K, F!Sum(k, D))
  BY <1>1, <1>2, <1>6, AddUtxosGains, NewUtxosValue DEF Gains
<1>8. Gains(M, L, F!Sum(c, D) + F!Sum(k, D))
  BY <1>5, <1>6, <1>7, GainsAdd
<1>9. F!Sum(v, D) = ValuesOf(Body[f].outputs)
  BY <1>2, ValuesAreSums
<1> QED BY <1>5, <1>8, <1>9

-----------------------------------------------------------------------------
(* Transactions, certificates and fragments. *)

\* The smaller of two numbers.
LEMMA SmallerIsOne ==
    ASSUME NEW x \in Int, NEW y \in Int
    PROVE  /\ Min({x, y}) = IF x <= y THEN x ELSE y
           /\ Min({x, y}) \in Int /\ Min({x, y}) <= x /\ Min({x, y}) <= y
<1>1. Min({x, y}) = CHOOSE z \in {x, y} : \A w \in {x, y} : z <= w
  BY DEF Min
<1>2. CASE x <= y
  BY <1>1, <1>2
<1>3. CASE ~(x <= y)
  BY <1>1, <1>3
<1> QED BY <1>2, <1>3

\* A fee is a number.
LEMMA FeeType ==
    ASSUME NEW f \in Fragments PROVE calculate_fee(f) \in Nat
<1>1. PICK m, n : m = Len(Body[f].inputs) /\ n = Len(Body[f].outputs)
  OBVIOUS
<1>2. m \in Nat /\ n \in Nat
  <2>1. Body[f].inputs \in Seq(ToSet(Body[f].inputs)) /\ Body[f].outputs \in Seq(ToSet(Body[f].outputs))
    BY FragmentsAreRead DEF IsSequence
  <2> QED BY <1>1, <2>1
<1>3. PICK e : e = Fees.constant + Fees.coefficient * (m + n)
                   + (IF IsCertificate(f) THEN Fees.certificate ELSE 0)
  OBVIOUS
<1>4. Fees.constant \in Nat /\ Fees.coefficient \in Nat /\ Fees.certificate \in Nat /\ MaxValue \in Nat
  BY SettingsAreRead, SizesAreNaturals
<1>5. Fees.coefficient * (m + n) \in Nat
  <2>1. \A c, k \in Nat : c * k \in Nat
    OBVIOUS
  <2>2. m + n \in Nat
    BY <1>2
  <2> QED BY <1>4, <2>1, <2>2
<1>6. e \in Nat
  BY <1>3, <1>4, <1>5
<1>7. calculate_fee(f) = Min({MaxValue, e})
  BY <1>1, <1>3 DEF calculate_fee
<1>8. Min({MaxValue, e}) = IF MaxValue <= e THEN MaxValue ELSE e
  <2>1. MaxValue \in Int /\ e \in Int
    BY <1>4, <1>6
  <2> QED BY <2>1, SmallerIsOne
<1> QED BY <1>4, <1>6, <1>7, <1>8

\* The fee goes to a pot of the ledger.
LEMMA FeeGains ==
    ASSUME NEW L, LedgerOK(L), NEW f \in Fragments, NEW M \in apply_tx_fee(L, f)
    PROVE  Gains(M, L, calculate_fee(f))
<1>1. PICK fee \in Nat : fee = calculate_fee(f)
  BY FeeType
<1>2. M = [L EXCEPT !.fees = @ + fee]
  BY <1>1 DEF apply_tx_fee, append_fees
<1>3. /\ DOMAIN M = Fields /\ M.utxos = L.utxos /\ M.accounts = L.accounts /\ M.oldutxos = L.oldutxos
      /\ M.pools = L.pools /\ M.leaders_log = L.leaders_log /\ M.fees = L.fees + fee
      /\ M.rewards = L.rewards /\ M.treasury = L.treasury /\ M.date = L.date
  BY <1>2 DEF LedgerOK, Fields
<1>4. LedgerOK(M)
  BY <1>3 DEF LedgerOK
<1>5. get_total_value(M) = get_total_value(L) + fee
  BY <1>3, TotalType DEF get_total_value, LedgerOK
<1> QED BY <1>1, <1>4, <1>5 DEF Gains

\* A balanced transaction gains nothing.
LEMMA TransactionGains ==
    ASSUME NEW L, LedgerOK(L), NEW f \in Fragments, NEW date, NEW M \in apply_transaction(L, f, date)
    PROVE  Gains(M, L, 0)
<1>1. StrictlyBalanced(f)
  BY DEF apply_transaction
<1>2. PICK K, N : /\ K \in apply_tx_inputs(L, f) /\ N \in apply_tx_outputs(K, f)
                  /\ M \in apply_tx_fee(N, f)
  BY DEF apply_transaction, Then
<1>3. PICK i, o, fee : i = ValuesOf(Body[f].inputs) /\ o = ValuesOf(Body[f].outputs)
                       /\ fee = calculate_fee(f)
  OBVIOUS
<1>4. i = o + fee /\ fee \in Nat
  BY <1>1, <1>3, FeeType DEF StrictlyBalanced
<1>5. o \in Nat
  <2>1. HasValues(Body[f].outputs)
    <3>1. PICK n \in Nat : DOMAIN Body[f].outputs = 1 .. n
      BY OutputsType
    <3>2. F!IsFiniteSet(1 .. n)
      BY F!FS_Interval
    <3>3. \A j \in DOMAIN Body[f].outputs : Body[f].outputs[j].value \in Nat
      BY FragmentsAreRead
    <3> QED BY <3>1, <3>2, <3>3 DEF HasValues
  <2> QED BY <1>3, <2>1, ValuesType
<1>6. i \in Int /\ -i \in Int
  BY <1>4, <1>5
<1>7. Gains(K, L, -i)
  BY <1>2, <1>3, InputsGain
<1>8. Gains(N, K, o)
  BY <1>2, <1>3, <1>7, OutputsGain DEF Gains
<1>9. Gains(M, N, fee)
  BY <1>2, <1>3, <1>8, FeeGains DEF Gains
<1>10. Gains(N, L, -i + o)
  BY <1>5, <1>6, <1>7, <1>8, GainsAdd
<1>11. Gains(M, L, -i + o + fee)
  BY <1>4, <1>5, <1>6, <1>9, <1>10, GainsAdd
<1>12. -i + o + fee = 0
  BY <1>4, <1>5
<1> QED BY <1>11, <1>12

\* Pools have no value.
LEMMA SetPools ==
    ASSUME NEW L, LedgerOK(L), NEW new, PoolsOK(new)
    PROVE  Gains([L EXCEPT !.pools = new], L, 0)
<1>1. PICK M : M = [L EXCEPT !.pools = new]
  OBVIOUS
<1>2. /\ DOMAIN M = Fields /\ M.accounts = L.accounts /\ M.utxos = L.utxos /\ M.oldutxos = L.oldutxos
      /\ M.pools = new /\ M.leaders_log = L.leaders_log /\ M.fees = L.fees
      /\ M.rewards = L.rewards /\ M.treasury = L.treasury /\ M.date = L.date
  BY <1>1 DEF LedgerOK, Fields
<1>3. LedgerOK(M)
  BY <1>2 DEF LedgerOK
<1>4. get_total_value(M) = get_total_value(L) + 0
  BY <1>2, TotalType DEF get_total_value
<1> QED BY <1>1, <1>3, <1>4 DEF Gains

\* Registering a pool gains nothing.
LEMMA RegistrationGains ==
    ASSUME NEW L, LedgerOK(L), NEW r \in Registrations, NEW M \in apply_pool_registration(L, r)
    PROVE  Gains(M, L, 0)
<1>1. valid_pool_registration(r) /\ M \in register_stake_pool(L, r)
  BY DEF apply_pool_registration
<1>2. PICK new : new = With(L.pools, r, r)
  OBVIOUS
<1>3. M = [L EXCEPT !.pools = new]
  BY <1>1, <1>2 DEF register_stake_pool
<1>4. PoolsOK(L.pools)
  BY DEF LedgerOK
<1>5. PICK D : D = DOMAIN L.pools
  OBVIOUS
<1>6. F!IsFiniteSet(D \cup {r})
  BY <1>4, <1>5, F!FS_AddElement DEF PoolsOK
<1>7. DOMAIN new = D \cup {r} /\ \A p \in D \cup {r} : new[p] = IF p = r THEN r ELSE L.pools[p]
  BY <1>2, <1>5 DEF With
<1>8. PoolsOK(new)
  BY <1>1, <1>4, <1>5, <1>6, <1>7 DEF PoolsOK
<1> QED BY <1>3, <1>8, SetPools

\* Retiring a pool gains nothing.
LEMMA RetirementGains ==
    ASSUME NEW L, LedgerOK(L), NEW cert, NEW M \in apply_pool_retirement(L, cert)
    PROVE  Gains(M, L, 0)
<1>1. M \in deregister_stake_pool(L, cert.pool)
  BY DEF apply_pool_retirement, Then
<1>2. PICK new : new = Without(L.pools, cert.pool)
  OBVIOUS
<1>3. M = [L EXCEPT !.pools = new]
  BY <1>1, <1>2 DEF deregister_stake_pool
<1>4. PoolsOK(L.pools)
  BY DEF LedgerOK
<1>5. DOMAIN new \subseteq DOMAIN L.pools /\ \A p \in DOMAIN new : new[p] = L.pools[p]
  BY <1>2 DEF Without
<1>6. F!IsFiniteSet(DOMAIN new)
  BY <1>4, <1>5, F!FS_Subset DEF PoolsOK
<1>7. PoolsOK(new)
  BY <1>4, <1>5, <1>6 DEF PoolsOK
<1> QED BY <1>3, <1>7, SetPools

\* Updating a pool gains nothing.
LEMMA UpdateGains ==
    ASSUME NEW L, LedgerOK(L), NEW cert, cert.new \in Registrations, NEW M \in apply_pool_update(L, cert)
    PROVE  Gains(M, L, 0)
<1>1. /\ cert.pool \in DOMAIN L.pools /\ valid_pool_registration(cert.new)
      /\ M = stake_pool_set_state(L, cert.pool, cert.new)
  BY DEF apply_pool_update, Then, stake_pool_get, stake_pool_exists, valid_pool_update_certificate
<1>2. PICK new : new = [L.pools EXCEPT ![cert.pool] = cert.new]
  OBVIOUS
<1>3. M = [L EXCEPT !.pools = new]
  BY <1>1, <1>2 DEF stake_pool_set_state
<1>4. PoolsOK(new)
  BY <1>1, <1>2 DEF LedgerOK, PoolsOK
<1> QED BY <1>3, <1>4, SetPools

\* No certificate gains anything.
LEMMA CertificateGains ==
    ASSUME NEW L, LedgerOK(L), NEW f \in Fragments, NEW M \in ApplyCertificate(L, f)
    PROVE  Gains(M, L, 0)
<1>1. CASE Body[f].kind = "transaction"
  <2>1. M = L
    BY <1>1 DEF ApplyCertificate
  <2> QED BY <2>1, TotalType DEF Gains
<1>2. CASE Body[f].kind = "owner_delegation"
  <2>1. M \in set_delegation(L, Body[f].inputs[1].id, Body[f].cert.delegation)
    BY <1>2 DEF ApplyCertificate, apply_owner_stake_delegation
  <2>2. Body[f].cert.delegation \in DelegationTypes
    BY <1>2, FragmentsAreRead
  <2> QED BY <2>1, <2>2, DelegationGains
<1>3. CASE Body[f].kind = "stake_delegation"
  <2>1. M \in set_delegation(L, Body[f].cert.account, Body[f].cert.delegation)
    BY <1>3 DEF ApplyCertificate, apply_stake_delegation
  <2>2. Body[f].cert.delegation \in DelegationTypes
    BY <1>3, FragmentsAreRead
  <2> QED BY <2>1, <2>2, DelegationGains
<1>4. CASE Body[f].kind = "pool_registration"
  <2>1. M \in apply_pool_registration(L, Body[f].cert.reg)
    BY <1>4 DEF ApplyCertificate, apply_pool_registration_signcheck
  <2>2. Body[f].cert.reg \in Registrations
    BY <1>4, FragmentsAreRead
  <2> QED BY <2>1, <2>2, RegistrationGains
<1>5. CASE Body[f].kind = "pool_retirement"
  <2>1. M \in apply_pool_retirement(L, Body[f].cert)
    BY <1>5 DEF ApplyCertificate
  <2> QED BY <2>1, RetirementGains
<1>6. CASE Body[f].kind = "pool_update"
  <2>1. M \in apply_pool_update(L, Body[f].cert)
    BY <1>6 DEF ApplyCertificate
  <2>2. Body[f].cert.new \in Registrations
    BY <1>6, FragmentsAreRead
  <2> QED BY <2>1, <2>2, UpdateGains
<1>7. CASE Body[f].kind \notin {"transaction", "owner_delegation", "stake_delegation",
                                "pool_registration", "pool_retirement", "pool_update"}
  BY <1>7 DEF ApplyCertificate
<1> QED BY <1>1, <1>2, <1>3, <1>4, <1>5, <1>6, <1>7

\* What is not value may change.
SameWealth(M, L) ==
    /\ DOMAIN M = Fields /\ M.accounts = L.accounts /\ M.utxos = L.utxos /\ M.oldutxos = L.oldutxos
    /\ M.pools = L.pools /\ M.fees = L.fees /\ M.rewards = L.rewards /\ M.treasury = L.treasury

\* A change of date or log gains nothing.
LEMMA SameWealthGains ==
    ASSUME NEW L, LedgerOK(L), NEW M, SameWealth(M, L), LogOK(M.leaders_log), M.date \in Nat \X Nat
    PROVE  Gains(M, L, 0)
<1>1. LedgerOK(M)
  BY DEF LedgerOK, SameWealth
<1>2. get_total_value(M) = get_total_value(L) + 0
  BY TotalType DEF get_total_value, SameWealth
<1> QED BY <1>1, <1>2 DEF Gains

\* Counting a fragment gains nothing.
LEMMA AppliedGains ==
    ASSUME NEW L, LedgerOK(L), NEW f
    PROVE  Gains([L EXCEPT !.applied[f] = @ + 1], L, 0)
<1>1. PICK M : M = [L EXCEPT !.applied[f] = @ + 1]
  OBVIOUS
<1>2. SameWealth(M, L) /\ M.leaders_log = L.leaders_log /\ M.date = L.date
  BY <1>1 DEF LedgerOK, Fields, SameWealth
<1> QED BY <1>1, <1>2, SameWealthGains DEF LedgerOK

\* Every fragment moves value and makes none.
LEMMA FragmentGains ==
    ASSUME NEW L, LedgerOK(L), NEW f \in Fragments, NEW date, NEW M \in apply_fragment(L, f, date)
    PROVE  Gains(M, L, 0)
<1>1. PICK K, N : /\ K \in apply_transaction(L, f, date) /\ N \in ApplyCertificate(K, f)
                  /\ M = [N EXCEPT !.applied[f] = @ + 1]
  BY DEF apply_fragment, Then
<1>2. Gains(K, L, 0)
  BY <1>1, TransactionGains
<1>3. Gains(N, K, 0)
  BY <1>1, <1>2, CertificateGains DEF Gains
<1>4. Gains(M, N, 0)
  BY <1>1, <1>3, AppliedGains DEF Gains
<1> QED BY <1>2, <1>3, <1>4, TotalType DEF Gains

-----------------------------------------------------------------------------
(* Block0 makes a ledger, and only one. *)

AtMostOne(S) == \A x, y \in S : x = y

\* An output is credited in one way.
LEMMA OneOutput == ASSUME NEW L, NEW out PROVE AtMostOne(AccountsAfterOutput(L, out))
<1>1. \A a, v : AtMostOne(AddValueOrAccount(L, a, v))
  BY DEF AddValueOrAccount, AtMostOne
<1>2. CASE out.address.kind = "single"
  BY <1>2 DEF AccountsAfterOutput, AtMostOne
<1>3. CASE out.address.kind = "group"
  BY <1>1, <1>3 DEF AccountsAfterOutput, AtMostOne
<1>4. CASE out.address.kind = "account"
  BY <1>1, <1>4 DEF AccountsAfterOutput, AtMostOne
<1>5. CASE out.address.kind \notin {"single", "group", "account"}
  BY <1>5 DEF AccountsAfterOutput, AtMostOne
<1> QED BY <1>2, <1>3, <1>4, <1>5

\* So are all outputs of a fragment.
LEMMA OneOutputs ==
    ASSUME NEW L, NEW f \in Fragments PROVE AtMostOne(apply_tx_outputs(L, f))
<1>1. PICK seq : seq = Body[f].outputs
  OBVIOUS
<1>2. PICK T : seq \in Seq(T)
  BY <1>1, OutputsType
<1>3. Len(seq) \in Nat
  BY <1>1, OutputsType
<1>4. PICK g : Out!IsLoop(g, {L}, seq, 0) /\ Out!Fold({L}, seq, 0) = g[Len(seq)]
  BY <1>2, Out!FoldIsLoop
<1> DEFINE S == {i \in Nat : i <= Len(seq) => AtMostOne(g[i])}
<1>5. 0 \in S
  <2>1. g[0] = {L}
    BY <1>4 DEF Out!IsLoop
  <2> QED BY <2>1 DEF AtMostOne
<1>6. ASSUME NEW i \in Nat, 0 <= i, i < Len(seq), i \in S PROVE i + 1 \in S
  <2>1. i + 1 \in 1 .. Len(seq) /\ i + 1 - 1 = i
    BY <1>3, <1>6
  <2>2. g[i + 1] = PutOutputs(g[i], seq[i + 1], 0)
    BY <1>4, <2>1 DEF Out!IsLoop
  <2>3. AtMostOne(g[i])
    BY <1>3, <1>6
  <2>4. AtMostOne(g[i + 1])
    <3>1. ASSUME NEW x \in g[i + 1], NEW y \in g[i + 1] PROVE x = y
      <4>1. PICK K \in g[i] : x \in AccountsAfterOutput(K, seq[i + 1])
        BY <2>2 DEF PutOutputs, Then
      <4>2. PICK N \in g[i] : y \in AccountsAfterOutput(N, seq[i + 1])
        BY <2>2 DEF PutOutputs, Then
      <4>3. K = N
        BY <2>3 DEF AtMostOne
      <4> QED BY <4>1, <4>2, <4>3, OneOutput DEF AtMostOne
    <3> QED BY <3>1 DEF AtMostOne
  <2> QED BY <2>4
<1>7. AtMostOne(g[Len(seq)])
  <2>1. \A i \in 0 .. Len(seq) : i \in S
    <3> HIDE DEF S
    <3> QED BY <1>3, <1>5, <1>6, F!IntervalInduction
  <2>2. Len(seq) \in 0 .. Len(seq) /\ Len(seq) <= Len(seq)
    BY <1>3
  <2> QED BY <2>1, <2>2
<1>8. \A K : AtMostOne(AddUtxos(K, f))
  BY DEF AddUtxos, AtMostOne
<1>9. ASSUME NEW x \in apply_tx_outputs(L, f), NEW y \in apply_tx_outputs(L, f) PROVE x = y
  <2>1. PICK K \in g[Len(seq)] : x \in AddUtxos(K, f)
    BY <1>1, <1>4, OutputsAreLoop
  <2>2. PICK N \in g[Len(seq)] : y \in AddUtxos(N, f)
    BY <1>1, <1>4, OutputsAreLoop
  <2> QED BY <1>7, <1>8, <2>1, <2>2 DEF AtMostOne
<1> QED BY <1>9 DEF AtMostOne

\* A fragment of block0 before it is noted in the history.
Block0Result(L, f) ==
    CASE Body[f].kind = "old_declaration" -> apply_old_declaration(L, f)
      [] Body[f].kind = "transaction" /\ valid_block0_transaction_no_inputs(f) ->
            apply_tx_outputs(L, f)
      [] Body[f].kind = "stake_delegation" /\ valid_block0_cert_transaction(f) ->
            apply_stake_delegation(L, Body[f].cert)
      [] Body[f].kind = "pool_registration" /\ valid_block0_cert_transaction(f) ->
            apply_pool_registration(L, Body[f].cert.reg)
      [] OTHER -> {}

\* A fragment of block0 is applied and counted.
LEMMA Block0Steps ==
    ASSUME NEW L, NEW f
    PROVE  ApplyBlock0Fragment(L, f) = {[N EXCEPT !.applied[f] = @ + 1] : N \in Block0Result(L, f)}
<1>1. ApplyBlock0Fragment(L, f) = UNION {{[N EXCEPT !.applied[f] = @ + 1]} : N \in Block0Result(L, f)}
  BY DEF ApplyBlock0Fragment, Block0Result, Then
<1> QED BY <1>1

\* What a fragment of block0 does, one kind at a time.
LEMMA Block0Kinds ==
    ASSUME NEW L, NEW f, NEW M \in Block0Result(L, f)
    PROVE  \/ /\ Body[f].kind = "old_declaration"
              /\ Block0Result(L, f) = apply_old_declaration(L, f)
           \/ /\ Body[f].kind = "transaction"
              /\ Block0Result(L, f) = apply_tx_outputs(L, f)
           \/ /\ Body[f].kind = "stake_delegation"
              /\ Block0Result(L, f) = apply_stake_delegation(L, Body[f].cert)
           \/ /\ Body[f].kind = "pool_registration"
              /\ Block0Result(L, f) = apply_pool_registration(L, Body[f].cert.reg)
<1>1. CASE Body[f].kind = "old_declaration"
  BY <1>1 DEF Block0Result
<1>2. CASE Body[f].kind = "transaction"
  BY <1>2 DEF Block0Result
<1>3. CASE Body[f].kind = "stake_delegation"
  BY <1>3 DEF Block0Result
<1>4. CASE Body[f].kind = "pool_registration"
  BY <1>4 DEF Block0Result
<1>5. CASE Body[f].kind \notin {"old_declaration", "transaction", "stake_delegation", "pool_registration"}
  BY <1>5 DEF Block0Result
<1> QED BY <1>1, <1>2, <1>3, <1>4, <1>5

\* It is applied in one way.
LEMMA OneBlock0Fragment ==
    ASSUME NEW L, NEW f \in Fragments PROVE AtMostOne(ApplyBlock0Fragment(L, f))
<1>1. AtMostOne(apply_old_declaration(L, f)) /\ AtMostOne(apply_stake_delegation(L, Body[f].cert))
  BY DEF apply_old_declaration, apply_stake_delegation, set_delegation, AtMostOne
<1>2. AtMostOne(apply_pool_registration(L, Body[f].cert.reg))
  BY DEF apply_pool_registration, register_stake_pool, AtMostOne
<1>3. AtMostOne(Block0Result(L, f))
  BY <1>1, <1>2, OneOutputs, Block0Kinds DEF AtMostOne
<1> QED BY <1>3, Block0Steps DEF AtMostOne

\* It leaves a well-formed ledger.
LEMMA Block0FragmentOK ==
    ASSUME NEW L, LedgerOK(L), NEW f \in Fragments, NEW M \in ApplyBlock0Fragment(L, f)
    PROVE  LedgerOK(M)
<1>1. PICK N \in Block0Result(L, f) : M = [N EXCEPT !.applied[f] = @ + 1]
  BY Block0Steps
<1>2. LedgerOK(N)
  <2>1. CASE N \in apply_old_declaration(L, f)
    <3>1. PICK old, more : old = L.oldutxos /\ more = NewUtxos(f)
      OBVIOUS
    <3>2. PICK new : new = [ptr \in DOMAIN old \cup DOMAIN more |->
                                IF ptr \in DOMAIN old THEN old[ptr] ELSE more[ptr]]
      OBVIOUS
    <3>3. N = [L EXCEPT !.oldutxos = new]
      BY <2>1, <3>1, <3>2 DEF apply_old_declaration
    <3>4. \A ptr \in DOMAIN more : ptr[1] = f
      BY <3>1 DEF NewUtxos
    <3>5. DOMAIN more = {} \/ \A ptr \in DOMAIN old : ptr[1] # f
      BY <2>1, <3>1 DEF apply_old_declaration
    <3>6. Merges(new, old, more)
      BY <3>2, <3>4, <3>5 DEF Merges
    <3>7. HasValues(old) /\ HasValues(more)
      BY <3>1, NewUtxosValue DEF LedgerOK
    <3>8. HasValues(new)
      BY <3>6, <3>7, ValuesMerge
    <3> QED BY <3>3, <3>8 DEF LedgerOK, Fields
  <2>2. CASE N \in apply_tx_outputs(L, f)
    BY <2>2, OutputsGain DEF Gains
  <2>3. CASE Body[f].kind = "stake_delegation" /\ N \in apply_stake_delegation(L, Body[f].cert)
    <3>1. Body[f].cert.delegation \in DelegationTypes
      BY <2>3, FragmentsAreRead
    <3> QED BY <2>3, <3>1, DelegationGains DEF Gains, apply_stake_delegation
  <2>4. CASE Body[f].kind = "pool_registration" /\ N \in apply_pool_registration(L, Body[f].cert.reg)
    <3>1. Body[f].cert.reg \in Registrations
      BY <2>4, FragmentsAreRead
    <3> QED BY <2>4, <3>1, RegistrationGains DEF Gains
  <2> QED BY <1>1, <2>1, <2>2, <2>3, <2>4, Block0Kinds
<1> QED BY <1>1, <1>2, AppliedGains DEF Gains

StartLedger(result, f, env) == Then(result, LAMBDA M : ApplyBlock0Fragment(M, f))

Start == INSTANCE FoldTheorems WITH Op <- StartLedger

\* The first ledger is made by the fragments of block0, one after the other.
LEMMA Block0IsLoop ==
    NewLedger \subseteq Start!Fold({EmptyLedger}, Block0, 0)
BY DEF NewLedger, Start!Fold, Start!Greatest, StartLedger, FoldLeft, MapThenFoldSet, Max

\* The empty ledger is well-formed.
LEMMA EmptyOK == LedgerOK(EmptyLedger)
<1>1. F!IsFiniteSet({})
  BY F!FS_EmptySet
<1>2. DOMAIN <<>> = {}
  OBVIOUS
<1>3. HasValues(<<>>) /\ AccountsOK(<<>>) /\ PoolsOK(<<>>) /\ LogOK(<<>>)
  BY <1>1, <1>2 DEF HasValues, AccountsOK, PoolsOK, LogOK
<1>4. InitialPots.treasury \in Nat /\ InitialPots.rewards \in Nat
  BY SettingsAreRead
<1> QED BY <1>3, <1>4 DEF LedgerOK, EmptyLedger, Fields

\* Block0 decides the first ledger.
LEMMA NewLedgerOK ==
    AtMostOne(NewLedger) /\ \A L \in NewLedger : LedgerOK(L)
<1>1. Block0 \in Seq(Fragments)
  BY SettingsAreRead
<1>2. Len(Block0) \in Nat /\ \A i \in 1 .. Len(Block0) : Block0[i] \in Fragments
  BY <1>1
<1>3. PICK g : Start!IsLoop(g, {EmptyLedger}, Block0, 0) /\ Start!Fold({EmptyLedger}, Block0, 0) = g[Len(Block0)]
  BY <1>1, Start!FoldIsLoop
<1> DEFINE S == {i \in Nat : i <= Len(Block0) => AtMostOne(g[i]) /\ \A L \in g[i] : LedgerOK(L)}
<1>4. 0 \in S
  <2>1. g[0] = {EmptyLedger}
    BY <1>3 DEF Start!IsLoop
  <2> QED BY <2>1, EmptyOK DEF AtMostOne
<1>5. ASSUME NEW i \in Nat, 0 <= i, i < Len(Block0), i \in S PROVE i + 1 \in S
  <2>1. i + 1 \in 1 .. Len(Block0) /\ i + 1 - 1 = i
    BY <1>2, <1>5
  <2>2. PICK f \in Fragments : f = Block0[i + 1]
    BY <1>2, <2>1
  <2>3. g[i + 1] = StartLedger(g[i], f, 0)
    BY <1>3, <2>1, <2>2 DEF Start!IsLoop
  <2>4. AtMostOne(g[i]) /\ \A L \in g[i] : LedgerOK(L)
    BY <1>2, <1>5
  <2>5. \A x \in g[i + 1] : \E K \in g[i] : x \in ApplyBlock0Fragment(K, f)
    BY <2>3 DEF StartLedger, Then
  <2>6. ASSUME NEW x \in g[i + 1], NEW y \in g[i + 1] PROVE x = y
    BY <2>4, <2>5, OneBlock0Fragment DEF AtMostOne
  <2>7. ASSUME NEW x \in g[i + 1] PROVE LedgerOK(x)
    BY <2>4, <2>5, Block0FragmentOK
  <2> QED BY <2>6, <2>7 DEF AtMostOne
<1>6. AtMostOne(g[Len(Block0)]) /\ \A L \in g[Len(Block0)] : LedgerOK(L)
  <2>1. \A i \in 0 .. Len(Block0) : i \in S
    <3> HIDE DEF S
    <3> QED BY <1>2, <1>4, <1>5, F!IntervalInduction
  <2>2. Len(Block0) \in 0 .. Len(Block0) /\ Len(Block0) <= Len(Block0)
    BY <1>2
  <2> QED BY <2>1, <2>2
<1> QED BY <1>3, <1>6, Block0IsLoop DEF AtMostOne

-----------------------------------------------------------------------------
(* Stake. *)

Weights(delegation) == [i \in DOMAIN delegation |-> delegation[i].weight]

\* A delegation to pools has a positive number of parts.
LEMMA PartsPositive ==
    ASSUME NEW delegation \in DelegationTypes, NEW i \in DOMAIN delegation
    PROVE  Parts(delegation) \in Nat \ {0} /\ delegation[i].weight \in Nat
<1>1. PICK w, D : w = Weights(delegation) /\ D = DOMAIN delegation
  OBVIOUS
<1>2. D = 1 .. Len(delegation) /\ Len(delegation) \in Nat
  BY <1>1 DEF DelegationTypes
<1>3. \A j \in D : w[j] \in Nat \ {0} /\ w[j] = delegation[j].weight
  <2>1. ASSUME NEW j \in D PROVE delegation[j] \in [pool : Registrations, weight : Nat \ {0}]
    <3>1. PICK T : T = [pool : Registrations, weight : Nat \ {0}]
      OBVIOUS
    <3>2. delegation \in Seq(T)
      BY <3>1 DEF DelegationTypes
    <3>3. delegation[j] \in T
      BY <1>1, <1>2, <3>2
    <3> QED BY <3>1, <3>3
  <2> QED BY <1>1, <2>1 DEF Weights
<1>4. F!IsFiniteSet(D)
  <2>1. 1 \in Int /\ Len(delegation) \in Int
    BY <1>2
  <2> QED BY <1>2, <2>1, F!FS_Interval
<1>5. Parts(delegation) = F!Sum(w, D)
  BY <1>1, SumOfFunction DEF Parts, Weights
<1>6. F!Sum(w, D) = w[i] + F!Sum(w, D \ {i})
  <2>1. F!Ints(w, D) /\ i \in D
    BY <1>1, <1>3 DEF F!Ints
  <2> QED BY <1>4, <2>1, F!SumRemoves
<1>7. F!Sum(w, D \ {i}) \in Nat
  <2>1. F!IsFiniteSet(D \ {i}) /\ F!Nats(w, D \ {i})
    BY <1>3, <1>4, F!FS_Subset DEF F!Nats
  <2> QED BY <2>1, F!SumIsNat
<1>8. w[i] \in Nat \ {0}
  BY <1>1, <1>3
<1> QED BY <1>1, <1>3, <1>5, <1>6, <1>7, <1>8

\* Quotient and remainder.
LEMMA Quotients ==
    ASSUME NEW a \in Nat, NEW b \in Nat \ {0}
    PROVE  /\ a \div b \in Nat /\ a % b \in Nat /\ a % b < b
           /\ a = b * (a \div b) + (a % b)
<1>1. a \div b \in Nat
  OBVIOUS
<1>2. a % b \in Nat /\ a % b < b
  OBVIOUS
<1>3. a = b * (a \div b) + (a % b)
  OBVIOUS
<1> QED BY <1>1, <1>2, <1>3

\* Products of naturals.
LEMMA Products == \A a, b \in Nat : a * b \in Nat
OBVIOUS

\* The share of a pool is a number.
LEMMA ShareType ==
    ASSUME NEW L, NEW delegation \in DelegationTypes, NEW v \in Nat, NEW i \in DOMAIN delegation
    PROVE  Share(L, delegation, v, i) \in Nat
<1>1. PICK n, w : n = Parts(delegation) /\ w = delegation[i].weight
  OBVIOUS
<1>2. n \in Nat \ {0} /\ w \in Nat
  BY <1>1, PartsPositive
<1>3. v \div n \in Nat /\ v % n \in Nat
  BY <1>2, Quotients
<1>4. (v \div n) * w \in Nat
  BY <1>2, <1>3, Products
<1> QED BY <1>1, <1>3, <1>4 DEF Share

\* A delegation has finitely many entries.
LEMMA FiniteEntries ==
    ASSUME NEW delegation \in DelegationTypes, NEW p
    PROVE  /\ F!IsFiniteSet(DOMAIN delegation) /\ F!IsFiniteSet(EntriesFor(delegation, p))
           /\ EntriesFor(delegation, p) \subseteq DOMAIN delegation
<1>1. DOMAIN delegation = 1 .. Len(delegation) /\ Len(delegation) \in Int /\ 1 \in Int
  BY DEF DelegationTypes
<1>2. F!IsFiniteSet(DOMAIN delegation)
  BY <1>1, F!FS_Interval
<1>3. EntriesFor(delegation, p) \subseteq DOMAIN delegation
  BY DEF EntriesFor
<1> QED BY <1>2, <1>3, F!FS_Subset

\* What an account has at a pool is a number.
LEMMA StakeOfType ==
    ASSUME NEW L, LedgerOK(L), NEW a \in DOMAIN L.accounts, NEW p
    PROVE  StakeOf(L, a, p) \in Nat
<1>1. PICK dlg, v : dlg = L.accounts[a].delegation /\ v = L.accounts[a].value
  OBVIOUS
<1>2. dlg \in DelegationTypes /\ v \in Nat
  BY <1>1 DEF LedgerOK, AccountsOK, HasValues
<1>3. PICK E, G : E = EntriesFor(dlg, p) /\ G = GroupUtxos(L, a)
  OBVIOUS
<1>4. F!IsFiniteSet(E) /\ E \subseteq DOMAIN dlg
  BY <1>2, <1>3, FiniteEntries
<1>5. F!IsFiniteSet(G) /\ \A ptr \in G : L.utxos[ptr].value \in Nat
  <2>1. G \subseteq DOMAIN L.utxos
    BY <1>3 DEF GroupUtxos
  <2> QED BY <2>1, F!FS_Subset DEF LedgerOK, HasValues
<1> DEFINE group(i) == [ptr \in G |-> Share(L, dlg, L.utxos[ptr].value, i)]
           held == [i \in E |-> Share(L, dlg, v, i) + SumFunction(group(i))]
<1>6. ASSUME NEW i \in E PROVE held[i] \in Nat
  <2>1. Share(L, dlg, v, i) \in Nat
    BY <1>2, <1>4, ShareType
  <2>2. F!Nats(group(i), G) /\ DOMAIN group(i) = G
    BY <1>2, <1>4, <1>5, ShareType DEF F!Nats
  <2>3. SumFunction(group(i)) \in Nat
    <3> HIDE DEF group
    <3> QED BY <1>5, <2>2, F!SumIsNat, SumOfFunction
  <2> QED BY <2>1, <2>3
<1>7. F!Nats(held, E) /\ DOMAIN held = E
  BY <1>6 DEF F!Nats
<1>8. SumFunction(held) \in Nat
  <2> HIDE DEF held
  <2> QED BY <1>4, <1>7, F!SumIsNat, SumOfFunction
<1> QED BY <1>1, <1>3, <1>8 DEF StakeOf

\* The stake of a pool is a number.
LEMMA StakeType ==
    ASSUME NEW L, LedgerOK(L), NEW p
    PROVE  /\ F!IsFiniteSet(Members(L, p)) /\ Members(L, p) \subseteq DOMAIN L.accounts
           /\ PoolStake(L, p) \in Nat
<1>1. PICK S : S = Members(L, p)
  OBVIOUS
<1>2. S \subseteq DOMAIN L.accounts
  BY <1>1 DEF Members
<1>3. F!IsFiniteSet(S)
  BY <1>2, F!FS_Subset DEF LedgerOK, AccountsOK, HasValues
<1>4. PICK g : g = [a \in S |-> StakeOf(L, a, p)]
  OBVIOUS
<1>5. F!Nats(g, S) /\ DOMAIN g = S
  BY <1>2, <1>4, StakeOfType DEF F!Nats
<1>6. SumFunction(g) \in Nat
  BY <1>3, <1>5, F!SumIsNat, SumOfFunction
<1> QED BY <1>1, <1>2, <1>3, <1>4, <1>6 DEF PoolStake

\* The total stake is a number.
LEMMA TotalStakeType == ASSUME NEW L, LedgerOK(L) PROVE get_total_stake(L) \in Nat
<1>1. PICK D : D = DOMAIN L.pools
  OBVIOUS
<1>2. PICK g : g = [p \in D |-> PoolStake(L, p)]
  OBVIOUS
<1>3. F!IsFiniteSet(D) /\ F!Nats(g, D) /\ DOMAIN g = D
  BY <1>1, <1>2, StakeType DEF LedgerOK, PoolsOK, F!Nats
<1>4. SumFunction(g) \in Nat
  BY <1>3, F!SumIsNat, SumOfFunction
<1> QED BY <1>1, <1>2, <1>4 DEF get_total_stake

-----------------------------------------------------------------------------
(* What an epoch draws, and taxes. *)

\* The halvening multiplies by its ratio once for each zone.
LEMMA HalveningIsLoop ==
    ASSUME NEW zone
    PROVE  Compounded(zone) =
            LET ratio == RewardParams.ratio
                linear == (ratio.num * zone) \div ratio.den
                halved == F!Fold(RewardParams.initial * StakeScale, [n \in 1 .. zone |-> n], ratio)
            IN IF RewardParams.halvening THEN halved \div StakeScale
               ELSE IF RewardParams.initial >= linear THEN RewardParams.initial - linear
               ELSE 0
BY DEF Compounded, F!Fold, F!Greatest, Halve, FoldLeft, MapThenFoldSet, Max

\* The reward of a zone is a number.
LEMMA CompoundedType == ASSUME NEW zone \in Nat PROVE Compounded(zone) \in Nat
<1>1. PICK base, ratio, seq : /\ base = RewardParams.initial * StakeScale
                              /\ ratio = RewardParams.ratio /\ seq = [n \in 1 .. zone |-> n]
  OBVIOUS
<1>2. /\ RewardParams.initial \in Nat /\ StakeScale \in Nat \ {0}
      /\ ratio.num \in Nat /\ ratio.den \in Nat \ {0}
  BY <1>1, RewardsAreRead, ScaleIsPositive
<1>3. base \in Nat
  BY <1>1, <1>2, Products
<1>4. seq \in Seq(Nat) /\ Len(seq) = zone
  BY <1>1
<1>5. PICK g : F!IsLoop(g, base, seq, ratio) /\ F!Fold(base, seq, ratio) = g[Len(seq)]
  BY <1>4, F!FoldIsLoop
<1> DEFINE S == {i \in Nat : i <= zone => g[i] \in Nat}
<1>6. 0 \in S
  BY <1>3, <1>5 DEF F!IsLoop
<1>7. ASSUME NEW i \in Nat, 0 <= i, i < zone, i \in S PROVE i + 1 \in S
  <2>1. i + 1 \in 1 .. zone /\ i + 1 - 1 = i
    BY <1>7
  <2>2. g[i + 1] = (g[i] * ratio.num) \div ratio.den
    BY <1>4, <1>5, <2>1 DEF F!IsLoop, Halve
  <2>3. g[i] \in Nat
    BY <1>7
  <2>4. g[i] * ratio.num \in Nat
    BY <1>2, <2>3, Products
  <2>5. g[i + 1] \in Nat
    BY <1>2, <2>2, <2>4, Quotients
  <2> QED BY <2>5
<1>8. g[zone] \in Nat
  <2>1. \A i \in 0 .. zone : i \in S
    <3> HIDE DEF S
    <3> QED BY <1>6, <1>7, F!IntervalInduction
  <2> QED BY <2>1
<1>9. F!Fold(base, seq, ratio) \div StakeScale \in Nat
  BY <1>2, <1>4, <1>5, <1>8, Quotients
<1>10. (ratio.num * zone) \div ratio.den \in Nat
  BY <1>2, Products, Quotients
<1>11. CASE RewardParams.halvening
  BY <1>1, <1>9, <1>11, HalveningIsLoop
<1>12. CASE ~RewardParams.halvening
  <2>1. PICK linear \in Nat : linear = (ratio.num * zone) \div ratio.den
    BY <1>10
  <2>2. Compounded(zone) = IF RewardParams.initial >= linear THEN RewardParams.initial - linear ELSE 0
    BY <1>1, <1>12, <2>1, HalveningIsLoop
  <2> QED BY <1>2, <2>2
<1> QED BY <1>11, <1>12

\* What an epoch may draw is a number.
LEMMA ContributionType ==
    ASSUME NEW epoch \in Nat, NEW stake \in Nat
    PROVE  rewards_contribution_calculation(epoch, stake) \in Nat
<1>1. CASE epoch < RewardParams.start
  BY <1>1 DEF rewards_contribution_calculation
<1>2. CASE ~(epoch < RewardParams.start)
  <2>1. epoch - RewardParams.start \in Nat /\ RewardParams.rate \in Nat \ {0}
    BY <1>2, RewardsAreRead
  <2>2. PICK zone \in Nat : zone = (epoch - RewardParams.start) \div RewardParams.rate
    BY <2>1, Quotients
  <2>3. PICK drawn \in Nat : drawn = Compounded(zone)
    BY CompoundedType
  <2>4. CASE RewardParams.limit = <<>>
    BY <1>2, <2>2, <2>3, <2>4 DEF rewards_contribution_calculation
  <2>5. CASE RewardParams.limit # <<>>
    <3>1. PICK limit : limit = RewardParams.limit[1]
      OBVIOUS
    <3>2. limit.num \in Nat /\ limit.den \in Nat \ {0}
      BY <2>5, <3>1, RewardsAreRead
    <3>3. PICK most \in Nat : most = (stake * limit.num) \div limit.den
      BY <3>2, Products, Quotients
    <3>4. Min({drawn, most}) \in Nat
      <4>1. drawn \in Int /\ most \in Int
        OBVIOUS
      <4>2. Min({drawn, most}) = IF drawn <= most THEN drawn ELSE most
        BY <4>1, SmallerIsOne
      <4> QED BY <4>2
    <3>5. rewards_contribution_calculation(epoch, stake) = Min({drawn, most})
      BY <1>2, <2>2, <2>3, <2>5, <3>1, <3>3 DEF rewards_contribution_calculation
    <3> QED BY <3>4, <3>5
  <2> QED BY <2>4, <2>5
<1> QED BY <1>1, <1>2

\* A ratio of at most one cuts off a part.
LEMMA RatioCuts ==
    ASSUME NEW left \in Nat, NEW num \in Nat, NEW den \in Nat \ {0}, num <= den
    PROVE  (left * num) \div den \in 0 .. left
<1>1. left * num \in Nat /\ left * den \in Nat
  BY Products
<1>2. left * num <= left * den
  <2>1. PICK k \in Nat : den = num + k
    <3>1. den - num \in Nat /\ den = num + (den - num)
      OBVIOUS
    <3> QED BY <3>1
  <2>2. left * (num + k) = left * num + left * k
    OBVIOUS
  <2>3. left * k \in Nat
    BY Products
  <2> QED BY <1>1, <2>1, <2>2, <2>3
<1>3. PICK q, r : q = (left * num) \div den /\ r = (left * num) % den
  OBVIOUS
<1>4. q \in Nat /\ r \in Nat /\ left * num = den * q + r
  BY <1>1, <1>3, Quotients
<1>5. ASSUME q > left PROVE FALSE
  <2>1. PICK k \in Nat : q = left + 1 + k
    <3>1. q - left - 1 \in Nat /\ q = left + 1 + (q - left - 1)
      BY <1>4, <1>5
    <3> QED BY <3>1
  <2>2. den * (left + 1 + k) = left * den + den + den * k
    OBVIOUS
  <2>3. den * k \in Nat
    BY Products
  <2>4. PICK x, y \in Nat : x = left * den /\ y = left * num
    BY <1>1
  <2>5. y = x + den + den * k + r
    BY <1>4, <2>1, <2>2, <2>4
  <2>6. y <= x
    BY <1>2, <2>4
  <2> QED BY <1>4, <2>3, <2>5, <2>6
<1> QED BY <1>3, <1>4, <1>5

\* The taxed part is a part: no more is taken than there is.
LEMMA TaxCut ==
    ASSUME NEW v \in Nat, NEW tax, IsTaxType(tax)
    PROVE  tax_cut(v, tax) \in 0 .. v
<1>1. PICK fixed, num, den, limit : fixed = tax.fixed /\ num = tax.num /\ den = tax.den /\ limit = tax.limit
  OBVIOUS
<1>2. fixed \in Nat /\ num \in Nat /\ den \in Nat \ {0} /\ limit \in Nat /\ num <= den
  BY <1>1 DEF IsTaxType
<1>3. CASE v < fixed
  BY <1>1, <1>3 DEF tax_cut
<1>4. CASE ~(v < fixed)
  <2>1. PICK left \in Nat : left = v - fixed
    BY <1>2, <1>4
  <2>2. PICK cut \in 0 .. left : cut = (left * num) \div den
    BY <1>2, RatioCuts
  <2>3. PICK most : most = Min({limit, cut})
    OBVIOUS
  <2>4. most \in Int /\ most >= 0 /\ most <= cut
    BY <1>2, <2>3, SmallerIsOne
  <2>5. tax_cut(v, tax) = fixed + (IF limit = 0 THEN cut ELSE most)
    BY <1>1, <1>4, <2>1, <2>2, <2>3 DEF tax_cut
  <2> QED BY <1>2, <2>1, <2>2, <2>4, <2>5
<1> QED BY <1>3, <1>4

\* What is drawn is there; what is drawn and collected is divided between
\* the treasury and the pools.
LEMMA ClosingDivides ==
    ASSUME NEW L, LedgerOK(L)
    PROVE  LET close == Closing(L) IN
           /\ close.drawn \in 0 .. L.rewards
           /\ close.treasury \in Nat /\ close.reward \in Nat
           /\ close.treasury + close.reward = close.drawn + L.fees
<1>1. L.fees \in Nat /\ L.rewards \in Nat /\ Epoch(L.date) + 1 \in Nat
  BY DEF LedgerOK, Epoch
<1>2. PICK expected \in Nat : expected = rewards_contribution_calculation(Epoch(L.date) + 1, get_total_stake(L))
  BY <1>1, TotalStakeType, ContributionType
<1>3. PICK drawn \in 0 .. L.rewards : drawn = draw_reward(L, expected)
  <2>1. PICK pot \in Nat : pot = L.rewards
    BY <1>1
  <2>2. pot \in Int /\ expected \in Int
    OBVIOUS
  <2>3. Min({pot, expected}) = IF pot <= expected THEN pot ELSE expected
    BY <2>2, SmallerIsOne
  <2> QED BY <2>1, <2>3 DEF draw_reward
<1>4. PICK total \in Nat : total = drawn + (IF FeesGoToTreasury THEN 0 ELSE L.fees)
  BY <1>1
<1>5. PICK cut \in 0 .. total : cut = tax_cut(total, TreasuryTax)
  BY TaxCut, RewardsAreRead
<1>6. siphon_fees(L).value = L.fees
  BY DEF siphon_fees
<1>7. Closing(L) = [drawn |-> drawn, treasury |-> cut + (IF FeesGoToTreasury THEN L.fees ELSE 0),
                    reward |-> total - cut]
  BY <1>2, <1>3, <1>4, <1>5, <1>6 DEF Closing
<1>8. CASE FeesGoToTreasury
  BY <1>1, <1>4, <1>7, <1>8
<1>9. CASE ~FeesGoToTreasury
  BY <1>1, <1>4, <1>7, <1>9
<1> QED BY <1>8, <1>9

-----------------------------------------------------------------------------
(* What one pool's reward becomes. *)

\* Equal parts.
LEMMA SumOfEqualParts ==
    ASSUME NEW n \in Nat, NEW q \in Nat, NEW v, v = [i \in 1 .. n |-> q]
    PROVE  F!Sum(v, 1 .. n) = n * q
<1>1. F!Nats(v, 1 .. n) /\ \A i \in Nat : i < n => v[i + 1] = q
  BY DEF F!Nats
<1>2. /\ F!Sum(v, 1 .. 0) = 0
      /\ \A i \in Nat : i < n => F!Sum(v, 1 .. (i + 1)) = F!Sum(v, 1 .. i) + v[i + 1]
  BY <1>1, SumsUpTo
<1> DEFINE S == {i \in Nat : F!Sum(v, 1 .. i) = i * q}
<1>3. 0 \in S
  BY <1>2
<1>4. ASSUME NEW i \in Nat, 0 <= i, i < n, i \in S PROVE i + 1 \in S
  <2>1. F!Sum(v, 1 .. i) = i * q /\ F!Sum(v, 1 .. (i + 1)) = F!Sum(v, 1 .. i) + q
    BY <1>1, <1>2, <1>4
  <2>2. (i + 1) * q = i * q + q
    OBVIOUS
  <2>3. F!Sum(v, 1 .. (i + 1)) = (i + 1) * q
    BY <2>1, <2>2
  <2> QED BY <2>3
<1>5. \A i \in 0 .. n : i \in S
  <2> HIDE DEF S
  <2> QED BY <1>3, <1>4, F!IntervalInduction
<1>6. n \in 0 .. n
  OBVIOUS
<1> QED BY <1>5, <1>6

\* Equal parts, and what is left over for the first.
LEMMA SumOfParts ==
    ASSUME NEW n \in Nat \ {0}, NEW v \in Nat, NEW f,
           f = [i \in 1 .. n |-> (v \div n) + (IF i = 1 THEN v % n ELSE 0)]
    PROVE  F!Nats(f, 1 .. n) /\ F!Sum(f, 1 .. n) = v
<1>1. PICK q, r, D : q = v \div n /\ r = v % n /\ D = 1 .. n
  OBVIOUS
<1>2. q \in Nat /\ r \in Nat /\ v = n * q + r /\ n * q \in Nat
  BY <1>1, Quotients, Products
<1>3. PICK g, h : g = [i \in 1 .. n |-> q] /\ h = [i \in D |-> IF i = 1 THEN r ELSE 0]
  OBVIOUS
<1>4. F!Ints(g, D) /\ F!Ints(h, D) /\ F!PlusOn(f, g, h, D) /\ F!Nats(f, D)
  BY <1>1, <1>2, <1>3 DEF F!Ints, F!Nats, F!PlusOn
<1>5. F!IsFiniteSet(D)
  <2>1. 1 \in Int /\ n \in Int
    OBVIOUS
  <2> QED BY <1>1, <2>1, F!FS_Interval
<1>6. F!Sum(f, D) = F!Sum(g, D) + F!Sum(h, D)
  BY <1>4, <1>5, F!SumPlus
<1>7. F!Sum(g, 1 .. n) = n * q
  BY <1>2, <1>3, SumOfEqualParts
<1>8. F!Sum(h, D) = r
  <2>1. 1 \in D /\ h[1] = r
    BY <1>1, <1>3
  <2>2. {1} \subseteq D /\ F!Ints(h, {1}) /\ F!ZeroOn(h, D \ {1}) /\ h[1] \in Int
    BY <1>2, <1>3, <2>1 DEF F!Ints, F!ZeroOn
  <2>3. F!Sum(h, D) = F!Sum(h, {1})
    BY <1>5, <2>2, F!SumSupport
  <2>4. F!Sum(h, {1}) = h[1]
    BY <2>2, F!SumOne
  <2> QED BY <2>1, <2>3, <2>4
<1> QED BY <1>1, <1>2, <1>4, <1>6, <1>7, <1>8

\* All the taxed part goes to the owners or to the reward account.
LEMMA OwnersGetAll ==
    ASSUME NEW r \in Registrations, valid_pool_registration(r), NEW taxed \in Nat
    PROVE  LET owners == OwnerParts(r, taxed) IN
           /\ F!IsFiniteSet(DOMAIN owners) /\ F!Nats(owners, DOMAIN owners)
           /\ F!Sum(owners, DOMAIN owners) = taxed
<1>1. PICK owners, keys, n : owners = OwnerParts(r, taxed) /\ keys = RegOf[r].owners /\ n = Len(keys)
  OBVIOUS
<1>2. keys \in Seq(Accounts) /\ n \in Nat \ {0} /\ DOMAIN keys = 1 .. n
  BY <1>1, FragmentsAreRead DEF valid_pool_registration
<1>3. CASE RegOf[r].account = <<>>
  <2>1. PICK A, I : A = ToSet(keys) /\ I = 1 .. n
    OBVIOUS
  <2>2. PICK f : f = [i \in I |-> (taxed \div n) + (IF i = 1 THEN taxed % n ELSE 0)]
    OBVIOUS
  <2>3. F!Nats(f, I) /\ F!Sum(f, I) = taxed
    BY <1>2, <2>1, <2>2, SumOfParts
  <2>4. F!IsFiniteSet(I)
    <3>1. 1 \in Int /\ n \in Int
      BY <1>2
    <3> QED BY <2>1, <3>1, F!FS_Interval
  <2>5. F!FromOn(A, keys, I) /\ F!MapsTo(keys, I, A)
    BY <1>2, <2>1 DEF F!FromOn, F!MapsTo, ToSet
  <2>6. F!IsFiniteSet(A)
    BY <2>4, <2>5, F!FiniteValues
  <2>7. ASSUME NEW a \in A PROVE owners[a] = F!Sum(f, F!Fibre(keys, I, a)) /\ owners[a] \in Nat
    <3>1. PICK J : J = F!Fibre(keys, I, a)
      OBVIOUS
    <3>2. PICK g : g = [i \in J |-> (taxed \div n) + (IF i = 1 THEN taxed % n ELSE 0)]
      OBVIOUS
    <3>3. J = {j \in DOMAIN keys : keys[j] = a}
      BY <1>2, <2>1, <3>1 DEF F!Fibre
    <3>4. owners[a] = SumFunction(g)
      BY <1>1, <1>3, <2>1, <3>2, <3>3 DEF OwnerParts
    <3>5. SumFunction(g) = F!Sum(g, J)
      BY <3>2, SumOfFunction
    <3>6. J \subseteq I /\ F!IsFiniteSet(J)
      BY <2>4, <3>1, F!FS_Subset DEF F!Fibre
    <3>7. F!Nats(f, J) /\ F!Ints(f, J) /\ F!SameOn(f, g, J)
      BY <2>2, <2>3, <3>2, <3>6 DEF F!Nats, F!Ints, F!SameOn
    <3>8. F!Sum(f, J) = F!Sum(g, J) /\ F!Sum(f, J) \in Nat
      BY <3>6, <3>7, F!SumSame, F!SumIsNat
    <3> QED BY <3>1, <3>4, <3>5, <3>8
  <2>8. F!FibreSums(owners, f, keys, I, A) /\ F!Ints(f, I) /\ F!Nats(owners, A)
    BY <2>3, <2>7 DEF F!FibreSums, F!Nats, F!Ints
  <2>9. F!Sum(owners, A) = F!Sum(f, I)
    BY <2>4, <2>5, <2>6, <2>8, F!SumByFibres
  <2>10. DOMAIN owners = A
    BY <1>1, <1>3, <2>1 DEF OwnerParts
  <2> QED BY <1>1, <2>3, <2>6, <2>8, <2>9, <2>10
<1>4. CASE RegOf[r].account # <<>>
  <2>1. PICK x : x = RegOf[r].account[1]
    OBVIOUS
  <2>2. owners = [a \in {x} |-> taxed]
    BY <1>1, <1>4, <2>1 DEF OwnerParts
  <2>3. DOMAIN owners = {x} /\ owners[x] = taxed /\ F!Nats(owners, {x}) /\ owners[x] \in Int
    BY <2>2 DEF F!Nats
  <2>4. F!IsFiniteSet({x}) /\ F!Sum(owners, {x}) = owners[x]
    BY <2>3, F!FS_Singleton, F!SumOne
  <2> QED BY <1>1, <2>3, <2>4
<1> QED BY <1>3, <1>4

\* A common factor cancels.
LEMMA Multiples ==
    ASSUME NEW a \in Nat, NEW b \in Nat, NEW s \in Nat \ {0}, a * s <= b * s
    PROVE  a <= b
<1> SUFFICES ASSUME a > b PROVE FALSE
  OBVIOUS
<1>1. PICK k \in Nat : a = b + 1 + k
  <2>1. a - b - 1 \in Nat /\ a = b + 1 + (a - b - 1)
    OBVIOUS
  <2> QED BY <2>1
<1>2. (b + 1 + k) * s = b * s + s + k * s
  OBVIOUS
<1>3. k * s \in Nat /\ b * s \in Nat
  BY Products
<1> QED BY <1>1, <1>2, <1>3

\* What the members of a pool get together is no more than there is.
LEMMA PartsFit ==
    ASSUME NEW A, F!IsFiniteSet(A), NEW stake, F!Nats(stake, A), NEW v \in Nat,
           F!Sum(stake, A) # 0,
           NEW parts, parts = [a \in A |-> scale_value(stake[a], F!Sum(stake, A), v)]
    PROVE  F!Nats(parts, A) /\ F!Sum(parts, A) \in 0 .. v
<1>1. PICK total \in Nat \ {0} : total = F!Sum(stake, A)
  BY F!SumIsNat
<1>2. StakeScale \in Nat \ {0} /\ v * StakeScale \in Nat
  BY ScaleIsPositive, Products
<1>3. PICK x \in Nat : x = (v * StakeScale) \div total
  BY <1>2, Quotients
<1>4. \A a \in A : stake[a] \in Nat /\ x * stake[a] \in Nat
  BY Products DEF F!Nats
<1>5. \A a \in A : parts[a] = (x * stake[a]) \div StakeScale
  BY <1>1, <1>3 DEF scale_value
<1>6. F!Nats(parts, A) /\ F!Ints(parts, A)
  BY <1>2, <1>4, <1>5, Quotients DEF F!Nats, F!Ints

\* Scaled up, the parts and what the divisions drop are the stakes, x times.
<1>7. PICK up, rest, all :
        /\ up = [a \in A |-> parts[a] * StakeScale]
        /\ rest = [a \in A |-> (x * stake[a]) % StakeScale]
        /\ all = [a \in A |-> stake[a] * x]
  OBVIOUS
<1>8. ASSUME NEW a \in A
      PROVE  up[a] \in Nat /\ rest[a] \in Nat /\ all[a] = up[a] + rest[a]
  <2>1. PICK y, p, r : y = x * stake[a] /\ p = parts[a] /\ r = y % StakeScale
    OBVIOUS
  <2>2. y \in Nat /\ p = y \div StakeScale
    BY <1>4, <1>5, <2>1
  <2>3. p \in Nat /\ r \in Nat /\ y = StakeScale * p + r
    <3>1. PICK k \in Nat \ {0} : k = StakeScale
      BY <1>2
    <3>2. y \in Nat
      BY <2>2
    <3>3. y \div k \in Nat /\ y % k \in Nat /\ y = k * (y \div k) + (y % k)
      BY <3>2, Quotients
    <3> QED BY <2>1, <2>2, <3>1, <3>3
  <2>4. p * StakeScale = StakeScale * p /\ p * StakeScale \in Nat
    BY <1>2, <2>3, Products
  <2>5. x * stake[a] = stake[a] * x
    BY <1>4
  <2> QED BY <1>7, <2>1, <2>3, <2>4, <2>5
<1>9. F!Nats(up, A) /\ F!Ints(up, A) /\ F!Nats(rest, A) /\ F!Ints(rest, A) /\ F!PlusOn(all, up, rest, A)
  BY <1>8 DEF F!Nats, F!Ints, F!PlusOn
<1>10. F!Sum(all, A) = F!Sum(up, A) + F!Sum(rest, A) /\ F!Sum(rest, A) \in Nat
  BY <1>9, F!SumPlus, F!SumIsNat
<1>11. F!Sum(all, A) = total * x
  <2>1. F!TimesOn(all, stake, x, A) /\ F!Ints(stake, A) /\ x \in Int
    BY <1>7 DEF F!TimesOn, F!Ints, F!Nats
  <2> QED BY <1>1, <2>1, F!SumTimes
<1>12. F!Sum(up, A) = F!Sum(parts, A) * StakeScale
  <2>1. F!TimesOn(up, parts, StakeScale, A) /\ StakeScale \in Int
    BY <1>2, <1>7 DEF F!TimesOn
  <2> QED BY <1>6, <2>1, F!SumTimes
<1>13. total * x <= v * StakeScale
  <2>1. v * StakeScale = total * x + ((v * StakeScale) % total) /\ (v * StakeScale) % total \in Nat
    BY <1>2, <1>3, Quotients
  <2>2. total * x \in Nat
    BY Products
  <2> QED BY <1>2, <2>1, <2>2
<1>14. F!Sum(parts, A) \in Nat
  BY <1>6, F!SumIsNat
<1>15. F!Sum(parts, A) * StakeScale <= v * StakeScale
  <2>1. F!Sum(parts, A) * StakeScale \in Nat /\ total * x \in Nat
    BY <1>2, <1>14, Products
  <2> QED BY <1>2, <1>10, <1>11, <1>12, <1>13, <2>1
<1>16. F!Sum(parts, A) <= v
  BY <1>2, <1>14, <1>15, Multiples
<1> QED BY <1>6, <1>14, <1>16

\* A function that is 0 outside of its domain.
Extended(f, D) == [a \in D |-> IF a \in DOMAIN f THEN f[a] ELSE 0]

\* Zeros outside of the domain change no sum.
LEMMA SumExtended ==
    ASSUME NEW f, NEW D, F!IsFiniteSet(D), DOMAIN f \subseteq D, F!Nats(f, DOMAIN f)
    PROVE  /\ F!Nats(Extended(f, D), D) /\ F!Ints(Extended(f, D), D)
           /\ F!Sum(Extended(f, D), D) = F!Sum(f, DOMAIN f)
<1>1. PICK A, g : A = DOMAIN f /\ g = Extended(f, D)
  OBVIOUS
<1>2. F!Nats(g, D) /\ F!Ints(g, D) /\ F!Ints(g, A) /\ F!SameOn(g, f, A) /\ F!ZeroOn(g, D \ A)
  BY <1>1 DEF F!Nats, F!Ints, F!SameOn, F!ZeroOn, Extended
<1>3. F!IsFiniteSet(A)
  BY <1>1, F!FS_Subset
<1>4. F!Sum(g, D) = F!Sum(g, A)
  BY <1>1, <1>2, F!SumSupport
<1>5. F!Sum(g, A) = F!Sum(f, A)
  BY <1>2, <1>3, F!SumSame
<1> QED BY <1>1, <1>2, <1>4, <1>5

\* Every part of a pool's reward goes somewhere.
LEMMA PoolRewardIsPaid ==
    ASSUME NEW L, LedgerOK(L), NEW p \in DOMAIN L.pools, NEW reward \in Nat,
           reward > tax_cut(reward, RegOf[L.pools[p]].tax) /\ Members(L, p) # {} => PoolStake(L, p) # 0
    PROVE  LET paid == distribute_poolid_rewards(L, p, reward) IN
           /\ F!IsFiniteSet(DOMAIN paid.credits) /\ F!Nats(paid.credits, DOMAIN paid.credits)
           /\ paid.leftover \in Nat
           /\ F!Sum(paid.credits, DOMAIN paid.credits) + paid.leftover = reward
<1>1. PICK r \in Registrations : r = L.pools[p] /\ valid_pool_registration(r)
  BY DEF LedgerOK, PoolsOK
<1>2. PICK taxed \in 0 .. reward : taxed = tax_cut(reward, RegOf[r].tax)
  BY TaxCut, FragmentsAreRead
<1>3. PICK after_tax \in Nat : after_tax = reward - taxed
  OBVIOUS
<1>4. PICK owners : owners = OwnerParts(r, taxed)
  OBVIOUS
<1>5. /\ F!IsFiniteSet(DOMAIN owners) /\ F!Nats(owners, DOMAIN owners)
      /\ F!Sum(owners, DOMAIN owners) = taxed
  <2>1. taxed \in Nat
    BY <1>2
  <2> QED BY <1>1, <1>4, <2>1, OwnersGetAll
<1>6. PICK members : members = IF after_tax > 0 THEN Members(L, p) ELSE {}
  OBVIOUS
<1>7. PICK parts : parts = [a \in members |-> MemberPart(L, a, p, after_tax)]
  OBVIOUS
<1>8. F!IsFiniteSet(members) /\ F!Nats(parts, members) /\ F!Sum(parts, members) \in 0 .. after_tax
  <2>1. CASE members = {}
    BY <2>1, F!FS_EmptySet, F!SumEmpty DEF F!Nats
  <2>2. CASE members # {}
    <3>1. members = Members(L, p) /\ after_tax > 0
      BY <1>6, <2>2
    <3>2. F!IsFiniteSet(members) /\ members \subseteq DOMAIN L.accounts /\ PoolStake(L, p) # 0
      BY <1>1, <1>2, <1>3, <2>2, <3>1, StakeType
    <3>3. PICK stake : stake = [a \in members |-> StakeOf(L, a, p)]
      OBVIOUS
    <3>4. F!Nats(stake, members)
      BY <3>2, <3>3, StakeOfType DEF F!Nats
    <3>5. F!Sum(stake, members) = PoolStake(L, p)
      BY <3>1, <3>3, SumOfFunction DEF PoolStake
    <3>6. parts = [a \in members |-> scale_value(stake[a], F!Sum(stake, members), after_tax)]
      BY <1>7, <3>3, <3>5 DEF MemberPart
    <3> QED BY <3>2, <3>4, <3>5, <3>6, PartsFit
  <2> QED BY <2>1, <2>2
<1>9. PICK D : D = DOMAIN owners \cup members
  OBVIOUS
<1>10. F!IsFiniteSet(D)
  BY <1>5, <1>8, <1>9, F!FS_Union
<1>11. PICK credits : credits = [a \in D |-> (IF a \in DOMAIN owners THEN owners[a] ELSE 0)
                                             + (IF a \in members THEN parts[a] ELSE 0)]
  OBVIOUS
<1>12. PICK eo, em : eo = Extended(owners, D) /\ em = Extended(parts, D)
  OBVIOUS
<1>13. DOMAIN parts = members
  BY <1>7
<1>14. /\ F!Nats(eo, D) /\ F!Ints(eo, D) /\ F!Sum(eo, D) = taxed
       /\ F!Nats(em, D) /\ F!Ints(em, D) /\ F!Sum(em, D) = F!Sum(parts, members)
  BY <1>5, <1>8, <1>9, <1>10, <1>12, <1>13, SumExtended
<1>15. F!PlusOn(credits, eo, em, D) /\ DOMAIN credits = D
  BY <1>11, <1>12, <1>13 DEF F!PlusOn, Extended
<1>16. F!Nats(credits, D)
  BY <1>14, <1>15 DEF F!Nats, F!PlusOn
<1>17. F!Sum(credits, D) = taxed + F!Sum(parts, members)
  BY <1>10, <1>14, <1>15, F!SumPlus
<1>18. SumFunction(parts) = F!Sum(parts, members)
  BY <1>13, SumOfFunction
<1>19. distribute_poolid_rewards(L, p, reward) =
        [credits |-> credits, leftover |-> after_tax - SumFunction(parts)]
  BY <1>1, <1>2, <1>3, <1>4, <1>6, <1>7, <1>9, <1>11 DEF distribute_poolid_rewards
<1> QED BY <1>2, <1>3, <1>8, <1>10, <1>15, <1>16, <1>17, <1>18, <1>19

-----------------------------------------------------------------------------
(* What all pools' rewards become. *)

\* The pools' shares of the blocks leave only a remainder of the reward, and
\* a cap only lowers a share.
LEMMA LogShares ==
    ASSUME NEW L, LedgerOK(L), LogTotal(L) # 0, NEW reward \in Nat, NEW shares,
           shares = [p \in DOMAIN L.leaders_log |-> Uncapped(L, p, reward)]
    PROVE  /\ F!Nats(shares, DOMAIN L.leaders_log)
           /\ reward % LogTotal(L) \in Nat
           /\ F!Sum(shares, DOMAIN L.leaders_log) + (reward % LogTotal(L)) = reward
           /\ \A p \in DOMAIN L.leaders_log : PoolReward(L, p, reward) \in 0 .. shares[p]
<1>1. PICK log, D : log = L.leaders_log /\ D = DOMAIN log
  OBVIOUS
<1>2. F!IsFiniteSet(D) /\ F!Nats(log, D) /\ F!Ints(log, D)
  BY <1>1 DEF LedgerOK, LogOK, F!Nats, F!Ints
<1>3. LogTotal(L) = F!Sum(log, D)
  BY <1>1, SumOfFunction DEF LogTotal
<1>4. PICK total \in Nat \ {0} : total = LogTotal(L)
  BY <1>2, <1>3, F!SumIsNat
<1>5. PICK q \in Nat : q = reward \div total
  BY Quotients
<1>6. \A p \in D : shares[p] = log[p] * q /\ log[p] \in Nat
  BY <1>1, <1>2, <1>4, <1>5 DEF Uncapped, F!Nats
<1>7. F!Nats(shares, D) /\ F!TimesOn(shares, log, q, D)
  BY <1>6, Products DEF F!Nats, F!TimesOn
<1>8. F!Sum(shares, D) = total * q
  <2>1. q \in Int
    OBVIOUS
  <2> QED BY <1>2, <1>3, <1>4, <1>7, <2>1, F!SumTimes
<1>9. reward % total \in Nat /\ reward = total * q + (reward % total)
  BY <1>5, Quotients
<1>10. ASSUME NEW p \in D PROVE PoolReward(L, p, reward) \in 0 .. shares[p]
  <2>1. PICK u \in Nat : u = shares[p] /\ u = Uncapped(L, p, reward)
    BY <1>1, <1>7 DEF F!Nats
  <2>2. CASE PoolReward(L, p, reward) = u
    BY <2>1, <2>2
  <2>3. CASE PoolReward(L, p, reward) # u
    <3>1. RewardParams.capping # <<>>
      BY <2>1, <2>3 DEF PoolReward
    <3>2. RewardParams.capping[1].pools \in Nat \ {0}
      BY <3>1, RewardsAreRead
    <3>3. PICK most \in Nat : most = reward \div RewardParams.capping[1].pools
      BY <3>2, Quotients
    <3>4. u \in Int /\ most \in Int
      OBVIOUS
    <3>5. Min({u, most}) = IF u <= most THEN u ELSE most
      BY <3>4, SmallerIsOne
    <3>6. PoolReward(L, p, reward) = Min({u, most})
      BY <2>1, <2>3, <3>3 DEF PoolReward
    <3> QED BY <2>1, <3>5, <3>6
  <2> QED BY <2>2, <2>3
<1> QED BY <1>1, <1>4, <1>7, <1>8, <1>9, <1>10

\* The credits of all pools are amounts of finitely many accounts.
CreditsOK(paid) ==
    /\ F!IsFiniteSet(DOMAIN paid)
    /\ \A p \in DOMAIN paid :
        F!IsFiniteSet(DOMAIN paid[p].credits) /\ F!Nats(paid[p].credits, DOMAIN paid[p].credits)

CreditSums(paid) == [p \in DOMAIN paid |-> F!Sum(paid[p].credits, DOMAIN paid[p].credits)]

\* What all accounts are credited is what all pools pay out.
LEMMA CreditsAddUp ==
    ASSUME NEW paid, CreditsOK(paid), NEW A, A = UNION {DOMAIN paid[p].credits : p \in DOMAIN paid}
    PROVE  /\ F!IsFiniteSet(A)
           /\ \A a : Credited(paid, a) \in Nat
           /\ \A a : a \notin A => Credited(paid, a) = 0
           /\ F!Sum([a \in A |-> Credited(paid, a)], A) = F!Sum(CreditSums(paid), DOMAIN paid)
<1>1. PICK P, dom, m : /\ P = DOMAIN paid /\ dom = [p \in P |-> DOMAIN paid[p].credits]
                       /\ m = [p \in P |-> paid[p].credits]
  OBVIOUS
<1>2. F!IsFiniteSet(P) /\ F!FiniteOn(dom, P) /\ F!WithinOn(A, dom, P) /\ F!Receivers(dom, P, A)
  BY <1>1 DEF CreditsOK, F!FiniteOn, F!WithinOn, F!Receivers
<1>3. F!IsFiniteSet(A)
  BY <1>2, F!FiniteFamily
<1>4. F!Gifts(m, dom, P)
  BY <1>1 DEF CreditsOK, F!Gifts, F!Nats, F!Ints
<1>5. ASSUME NEW a
      PROVE  /\ Credited(paid, a) = F!Sum([p \in F!GiversOf(dom, P, a) |-> m[p][a]], F!GiversOf(dom, P, a))
             /\ Credited(paid, a) \in Nat
             /\ a \notin A => Credited(paid, a) = 0
  <2>1. PICK G : G = F!GiversOf(dom, P, a)
    OBVIOUS
  <2>2. G = {x \in DOMAIN paid : a \in DOMAIN paid[x].credits}
    BY <1>1, <2>1 DEF F!GiversOf
  <2>3. PICK g : g = [p \in G |-> m[p][a]]
    OBVIOUS
  <2>4. g = [p \in G |-> paid[p].credits[a]] /\ DOMAIN g = G
    BY <1>1, <2>2, <2>3
  <2>5. Credited(paid, a) = F!Sum(g, G)
    BY <2>2, <2>4, SumOfFunction DEF Credited
  <2>6. F!IsFiniteSet(G) /\ F!Nats(g, G)
    <3>1. G \subseteq P
      BY <1>1, <2>2
    <3>2. F!Nats(g, G)
      BY <2>2, <2>4 DEF CreditsOK, F!Nats
    <3> QED BY <1>2, <3>1, <3>2, F!FS_Subset
  <2>7. F!Sum(g, G) \in Nat
    BY <2>6, F!SumIsNat
  <2>8. a \notin A => G = {}
    BY <2>2
  <2> QED BY <2>1, <2>3, <2>5, <2>7, <2>8, F!SumEmpty
<1>6. PICK row, col : row = [a \in A |-> Credited(paid, a)] /\ col = CreditSums(paid)
  OBVIOUS
<1>7. F!Received(row, m, dom, P, A)
  BY <1>5, <1>6 DEF F!Received
<1>8. F!Given(col, m, dom, P)
  BY <1>1, <1>6 DEF F!Given, CreditSums
<1>9. F!Sum(row, A) = F!Sum(col, P)
  BY <1>2, <1>3, <1>4, <1>7, <1>8, F!SumReceived
<1> QED BY <1>1, <1>3, <1>5, <1>6, <1>9

\* The accounts with what each is credited.
PaidAccounts(accounts, A, c) ==
    [a \in DOMAIN accounts \cup A |->
        LET old == IF a \in DOMAIN accounts THEN accounts[a] ELSE NewAccount(0)
        IN [old EXCEPT !.value = @ + c[a]]]

\* Accounts gain what they are credited.
LEMMA CreditsAreAdded ==
    ASSUME NEW accounts, AccountsOK(accounts), NEW A, F!IsFiniteSet(A), NEW c,
           F!Nats(c, DOMAIN accounts \cup A), F!ZeroOn(c, DOMAIN accounts \ A)
    PROVE  /\ AccountsOK(PaidAccounts(accounts, A, c))
           /\ ValuesOf(PaidAccounts(accounts, A, c)) = ValuesOf(accounts) + F!Sum(c, A)
<1>1. PICK D, new : D = DOMAIN accounts \cup A /\ new = PaidAccounts(accounts, A, c)
  OBVIOUS
<1>2. DOMAIN new = D
  BY <1>1 DEF PaidAccounts
<1>3. F!IsFiniteSet(D)
  BY <1>1, F!FS_Union DEF AccountsOK, HasValues
<1>4. PICK old : old = [a \in D |-> IF a \in DOMAIN accounts THEN accounts[a] ELSE NewAccount(0)]
  OBVIOUS
<1>5. ASSUME NEW a \in D
      PROVE  /\ DOMAIN old[a] = {"value", "nexts", "delegation"} /\ old[a].value \in Nat
             /\ old[a].delegation \in DelegationTypes
  <2>1. /\ DOMAIN NewAccount(0) = {"value", "nexts", "delegation"} /\ NewAccount(0).value = 0
        /\ NewAccount(0).delegation = <<>>
    BY DEF NewAccount
  <2> QED BY <1>4, <2>1, NoDelegation DEF AccountsOK, HasValues
<1>6. ASSUME NEW a \in D
      PROVE  /\ DOMAIN new[a] = {"value", "nexts", "delegation"} /\ new[a].value = old[a].value + c[a]
             /\ new[a].delegation = old[a].delegation
  <2>1. new[a] = [old[a] EXCEPT !.value = @ + c[a]]
    BY <1>1, <1>4 DEF PaidAccounts
  <2> QED BY <1>5, <2>1
<1>7. \A a \in D : c[a] \in Nat
  BY <1>1 DEF F!Nats
<1>8. AccountsOK(new)
  BY <1>2, <1>3, <1>5, <1>6, <1>7 DEF AccountsOK, HasValues
<1>9. PICK v, w : v = Values(accounts) /\ w = Extended(v, D)
  OBVIOUS
<1>10. F!IsFiniteSet(DOMAIN accounts) /\ F!Nats(v, DOMAIN v) /\ DOMAIN v = DOMAIN accounts
  BY <1>9 DEF AccountsOK, HasValues, Values, F!Nats
<1>11. F!Ints(w, D) /\ F!Sum(w, D) = F!Sum(v, DOMAIN accounts)
  BY <1>1, <1>3, <1>9, <1>10, SumExtended
<1>12. \A a \in D : Values(new)[a] = w[a] + c[a]
  <2>1. NewAccount(0).value = 0
    BY DEF NewAccount
  <2> QED BY <1>2, <1>4, <1>6, <1>9, <2>1 DEF Values, Extended
<1>13. F!PlusOn(Values(new), w, c, D) /\ F!Ints(c, D)
  BY <1>7, <1>12 DEF F!PlusOn, F!Ints
<1>14. F!Sum(Values(new), D) = F!Sum(w, D) + F!Sum(c, D)
  BY <1>3, <1>11, <1>13, F!SumPlus
<1>15. F!Sum(c, D) = F!Sum(c, A)
  <2>1. A \subseteq D /\ F!Ints(c, A) /\ F!ZeroOn(c, D \ A)
    BY <1>1, <1>7 DEF F!Ints, F!ZeroOn
  <2> QED BY <1>3, <2>1, F!SumSupport
<1> QED BY <1>1, <1>2, <1>8, <1>9, <1>11, <1>14, <1>15, ValuesAreSums

\* A pool's reward after the cap, its credits and what spills to the treasury.
LEMMA SpillIsRest ==
    ASSUME NEW L, LedgerOK(L), NEW reward \in Nat, NEW p,
           PoolReward(L, p, reward) \in Nat, Uncapped(L, p, reward) \in Nat,
           PoolReward(L, p, reward) <= Uncapped(L, p, reward), NEW paid,
           p \in DOMAIN paid => /\ paid[p].leftover \in Nat
                                /\ CreditSums(paid)[p] \in Nat
                                /\ CreditSums(paid)[p] + paid[p].leftover = PoolReward(L, p, reward)
    PROVE  /\ Spill(L, p, reward, paid) \in Nat
           /\ Uncapped(L, p, reward) = Spill(L, p, reward, paid)
                                       + (IF p \in DOMAIN paid THEN CreditSums(paid)[p] ELSE 0)
<1>1. CASE p \in DOMAIN paid
  BY <1>1 DEF Spill
<1>2. CASE p \notin DOMAIN paid
  BY <1>2 DEF Spill
<1> QED BY <1>1, <1>2

\* The pools that share a reward, what each of those that still exist pays,
\* and what each spills.
Sharing(L, reward) == IF reward > 0 THEN DOMAIN L.leaders_log ELSE {}

Payments(L, reward, pools) ==
    [p \in pools \cap DOMAIN L.pools |->
        distribute_poolid_rewards(L, p, PoolReward(L, p, reward))]

Spills(L, reward, pools, paid) == [p \in pools |-> Spill(L, p, reward, paid)]

\* The reward is paid in full: to accounts, to the treasury, or as the
\* remainder that the treasury keeps.
LEMMA RewardIsPaid ==
    ASSUME NEW L, LedgerOK(L), LogTotal(L) # 0, ~DividesByZero(L),
           NEW reward \in Nat, reward = Closing(L).reward, NEW pools, NEW paid, NEW spill,
           pools = Sharing(L, reward), paid = Payments(L, reward, pools),
           spill = Spills(L, reward, pools, paid)
    PROVE  /\ CreditsOK(paid) /\ SumFunction(spill) \in Nat
           /\ F!Sum(CreditSums(paid), DOMAIN paid) \in Nat
           /\ reward % LogTotal(L) \in Nat
           /\ F!Sum(CreditSums(paid), DOMAIN paid) + SumFunction(spill)
                + (reward % LogTotal(L)) = reward
<1>1. PICK log, shares, sums :
        /\ log = DOMAIN L.leaders_log /\ shares = [p \in log |-> Uncapped(L, p, reward)]
        /\ sums = CreditSums(paid)
  OBVIOUS
<1>2. /\ F!Nats(shares, log) /\ reward % LogTotal(L) \in Nat
      /\ F!Sum(shares, log) + (reward % LogTotal(L)) = reward
      /\ \A p \in log : PoolReward(L, p, reward) \in 0 .. shares[p]
  BY <1>1, LogShares
<1>3. pools \subseteq log /\ DOMAIN paid = pools \cap DOMAIN L.pools /\ DOMAIN spill = pools
  BY <1>1 DEF Sharing, Payments, Spills
<1>4. F!IsFiniteSet(log) /\ F!IsFiniteSet(pools) /\ F!IsFiniteSet(DOMAIN paid)
  <2>1. F!IsFiniteSet(log)
    BY <1>1 DEF LedgerOK, LogOK
  <2>2. F!IsFiniteSet(pools) /\ DOMAIN paid \subseteq pools
    BY <1>3, <2>1, F!FS_Subset
  <2> QED BY <2>1, <2>2, F!FS_Subset
<1>5. ASSUME NEW p \in DOMAIN paid
      PROVE  /\ F!IsFiniteSet(DOMAIN paid[p].credits) /\ F!Nats(paid[p].credits, DOMAIN paid[p].credits)
             /\ paid[p].leftover \in Nat
             /\ sums[p] = F!Sum(paid[p].credits, DOMAIN paid[p].credits) /\ sums[p] \in Nat
             /\ sums[p] + paid[p].leftover = PoolReward(L, p, reward)
  <2>1. p \in DOMAIN L.pools /\ p \in log /\ p \in pools
    BY <1>3
  <2>2. PICK due \in Nat : due = PoolReward(L, p, reward)
    <3>1. PoolReward(L, p, reward) \in 0 .. shares[p] /\ shares[p] \in Nat
      BY <1>2, <2>1 DEF F!Nats
    <3> QED BY <3>1
  <2>3. due > tax_cut(due, RegOf[L.pools[p]].tax) /\ Members(L, p) # {} => PoolStake(L, p) # 0
    BY <1>1, <2>1, <2>2 DEF DividesByZero
  <2>4. PICK one : one = distribute_poolid_rewards(L, p, due)
    OBVIOUS
  <2>5. /\ F!IsFiniteSet(DOMAIN one.credits) /\ F!Nats(one.credits, DOMAIN one.credits)
        /\ one.leftover \in Nat
        /\ F!Sum(one.credits, DOMAIN one.credits) + one.leftover = due
    BY <2>1, <2>3, <2>4, PoolRewardIsPaid
  <2>6. paid[p] = one /\ sums[p] = F!Sum(one.credits, DOMAIN one.credits)
    BY <1>1, <2>1, <2>2, <2>4 DEF CreditSums, Payments
  <2>7. F!Sum(one.credits, DOMAIN one.credits) \in Nat
    BY <2>5, F!SumIsNat
  <2> QED BY <2>2, <2>5, <2>6, <2>7
<1>6. CreditsOK(paid)
  BY <1>4, <1>5 DEF CreditsOK
<1>7. DOMAIN sums = DOMAIN paid /\ F!Nats(sums, DOMAIN sums)
  BY <1>1, <1>5 DEF CreditSums, F!Nats
<1>8. PICK ext : ext = Extended(sums, pools)
  OBVIOUS
<1>9. F!Ints(ext, pools) /\ F!Sum(ext, pools) = F!Sum(sums, DOMAIN paid)
  <2>1. DOMAIN sums \subseteq pools
    BY <1>3, <1>7
  <2> QED BY <1>4, <1>7, <1>8, <2>1, SumExtended
<1>10. ASSUME NEW p \in pools PROVE spill[p] \in Nat /\ shares[p] = spill[p] + ext[p]
  <2>1. p \in log /\ shares[p] = Uncapped(L, p, reward) /\ spill[p] = Spill(L, p, reward, paid)
    BY <1>1, <1>3 DEF Spills
  <2>2. shares[p] \in Nat /\ PoolReward(L, p, reward) \in 0 .. shares[p]
    BY <1>2, <2>1 DEF F!Nats
  <2>3. PoolReward(L, p, reward) \in Nat /\ PoolReward(L, p, reward) <= Uncapped(L, p, reward)
        /\ Uncapped(L, p, reward) \in Nat
    BY <2>1, <2>2
  <2>4. p \in DOMAIN paid => /\ paid[p].leftover \in Nat
                             /\ CreditSums(paid)[p] \in Nat
                             /\ CreditSums(paid)[p] + paid[p].leftover = PoolReward(L, p, reward)
    BY <1>1, <1>5
  <2>5. /\ Spill(L, p, reward, paid) \in Nat
        /\ Uncapped(L, p, reward) = Spill(L, p, reward, paid)
                                    + (IF p \in DOMAIN paid THEN CreditSums(paid)[p] ELSE 0)
    BY <2>3, <2>4, SpillIsRest
  <2>6. ext[p] = IF p \in DOMAIN paid THEN CreditSums(paid)[p] ELSE 0
    BY <1>1, <1>7, <1>8 DEF Extended
  <2> QED BY <2>1, <2>5, <2>6
<1>11. F!Nats(spill, pools) /\ F!Ints(spill, pools) /\ F!PlusOn(shares, spill, ext, pools)
  BY <1>10 DEF F!Nats, F!Ints, F!PlusOn
<1>12. F!Sum(shares, pools) = F!Sum(spill, pools) + F!Sum(ext, pools)
  BY <1>4, <1>9, <1>11, F!SumPlus
<1>13. SumFunction(spill) = F!Sum(spill, pools) /\ F!Sum(spill, pools) \in Nat
  BY <1>3, <1>4, <1>11, SumOfFunction, F!SumIsNat
<1>14. F!Sum(sums, DOMAIN paid) \in Nat
  BY <1>4, <1>7, F!SumIsNat
<1>15. F!Sum(shares, pools) + (reward % LogTotal(L)) = reward
  <2>1. CASE reward > 0
    BY <1>1, <1>2, <2>1 DEF Sharing
  <2>2. CASE ~(reward > 0)
    <3>1. reward = 0 /\ pools = {} /\ F!Sum(shares, pools) = 0
      BY <2>2, F!SumEmpty DEF Sharing
    <3>2. F!Sum(shares, log) \in Nat
      BY <1>2, <1>4, F!SumIsNat
    <3>3. reward % LogTotal(L) = 0
      BY <1>2, <3>1, <3>2
    <3> QED BY <3>1, <3>3
  <2> QED BY <2>1, <2>2
<1> QED BY <1>1, <1>2, <1>6, <1>9, <1>12, <1>13, <1>14, <1>15

\* Closing an epoch moves value and makes none.
LEMMA PaidGains ==
    ASSUME NEW L, LedgerOK(L), LogTotal(L) # 0, ~DividesByZero(L)
    PROVE  Gains(Paid(L), L, 0)
<1>1. PICK close, M : close = Closing(L) /\ M = Paid(L)
  OBVIOUS
<1>2. /\ close.drawn \in 0 .. L.rewards /\ close.treasury \in Nat /\ close.reward \in Nat
      /\ close.treasury + close.reward = close.drawn + L.fees
  BY <1>1, ClosingDivides
<1>3. PICK reward \in Nat : reward = close.reward
  BY <1>2
<1>4. PICK pools : pools = Sharing(L, reward)
  OBVIOUS
<1>5. PICK paid : paid = Payments(L, reward, pools)
  OBVIOUS
<1>6. PICK spill : spill = Spills(L, reward, pools, paid)
  OBVIOUS
<1>7. PICK sums, rest : sums = F!Sum(CreditSums(paid), DOMAIN paid) /\ rest = reward % LogTotal(L)
  OBVIOUS
<1>8. /\ CreditsOK(paid) /\ SumFunction(spill) \in Nat /\ sums \in Nat /\ rest \in Nat
      /\ sums + SumFunction(spill) + rest = reward
  <2>1. reward = Closing(L).reward
    BY <1>1, <1>3
  <2> QED BY <1>4, <1>5, <1>6, <1>7, <2>1, RewardIsPaid
<1>9. PICK A, D, c : /\ A = UNION {DOMAIN paid[p].credits : p \in DOMAIN paid}
                     /\ D = DOMAIN L.accounts \cup A /\ c = [a \in D |-> Credited(paid, a)]
  OBVIOUS
<1>10. /\ F!IsFiniteSet(A) /\ \A a : Credited(paid, a) \in Nat
       /\ \A a : a \notin A => Credited(paid, a) = 0
       /\ F!Sum([a \in A |-> Credited(paid, a)], A) = sums
  BY <1>7, <1>8, <1>9, CreditsAddUp
<1>11. F!Nats(c, DOMAIN L.accounts \cup A) /\ F!ZeroOn(c, DOMAIN L.accounts \ A)
  BY <1>9, <1>10 DEF F!Nats, F!ZeroOn
<1>12. F!Sum(c, A) = sums
  <2>1. PICK g : g = [a \in A |-> Credited(paid, a)]
    OBVIOUS
  <2>2. F!Ints(c, A) /\ F!SameOn(c, g, A)
    BY <1>9, <1>10, <2>1 DEF F!Ints, F!SameOn
  <2>3. F!Sum(c, A) = F!Sum(g, A)
    BY <1>10, <2>2, F!SumSame
  <2> QED BY <1>10, <2>1, <2>3
<1>13. PICK new : new = PaidAccounts(L.accounts, A, c)
  OBVIOUS
<1>14. AccountsOK(new) /\ ValuesOf(new) = ValuesOf(L.accounts) + sums
  BY <1>10, <1>11, <1>12, <1>13, CreditsAreAdded DEF LedgerOK
<1>15. new = [a \in DOMAIN L.accounts \cup A |->
                LET old == IF a \in DOMAIN L.accounts THEN L.accounts[a] ELSE NewAccount(0)
                IN [old EXCEPT !.value = @ + Credited(paid, a)]]
  BY <1>9, <1>13 DEF PaidAccounts
<1>16. M = [L EXCEPT !.rewards = @ - close.drawn, !.fees = 0, !.leaders_log = <<>>,
                     !.treasury = @ + close.treasury + SumFunction(spill) + rest,
                     !.accounts = new]
  BY <1>1, <1>3, <1>4, <1>5, <1>6, <1>7, <1>9, <1>15
     DEF Paid, siphon_fees, Sharing, Payments, Spills
<1>17. /\ DOMAIN M = Fields /\ M.accounts = new /\ M.utxos = L.utxos /\ M.oldutxos = L.oldutxos
       /\ M.pools = L.pools /\ M.leaders_log = <<>> /\ M.fees = 0
       /\ M.rewards = L.rewards - close.drawn
       /\ M.treasury = L.treasury + close.treasury + SumFunction(spill) + rest
       /\ M.date = L.date
  BY <1>16 DEF LedgerOK, Fields
<1>18. LogOK(<<>>)
  BY F!FS_EmptySet DEF LogOK
<1>19. PICK pot, treasury, fees, drawn, cut, spilt :
        /\ pot = L.rewards /\ treasury = L.treasury /\ fees = L.fees
        /\ drawn = close.drawn /\ cut = close.treasury /\ spilt = SumFunction(spill)
  OBVIOUS
<1>num. /\ pot \in Nat /\ treasury \in Nat /\ fees \in Nat /\ drawn \in Nat
        /\ cut \in Nat /\ spilt \in Nat
  BY <1>2, <1>8, <1>19 DEF LedgerOK
<1>20. drawn <= pot /\ cut + reward = drawn + fees /\ sums + spilt + rest = reward
  BY <1>2, <1>3, <1>8, <1>19
<1>21. M.rewards = pot - drawn /\ M.treasury = treasury + cut + spilt + rest
  BY <1>17, <1>19
<1>22. M.rewards \in Nat /\ M.treasury \in Nat
  BY <1>8, <1>20, <1>21, <1>num
<1>23. LedgerOK(M)
  BY <1>14, <1>17, <1>18, <1>22 DEF LedgerOK
<1>24. get_total_value(M) = get_total_value(L) + 0
  <2>1. PICK held \in Int : held = ValuesOf(L.oldutxos) + ValuesOf(L.utxos) + ValuesOf(L.accounts)
    BY TotalType
  <2>2. get_total_value(L) = held + fees + treasury + pot
    BY <1>19, <2>1 DEF get_total_value
  <2>3. ValuesOf(M.oldutxos) + ValuesOf(M.utxos) + ValuesOf(M.accounts) = held + sums
    BY <1>8, <1>14, <1>17, <2>1, TotalType
  <2>4. get_total_value(M) = (held + sums) + 0 + (treasury + cut + spilt + rest) + (pot - drawn)
    BY <1>17, <1>21, <2>3 DEF get_total_value
  <2> QED BY <1>8, <1>20, <1>num, <2>2, <2>4
<1> QED BY <1>1, <1>23, <1>24 DEF Gains

-----------------------------------------------------------------------------
(* The life of a ledger. *)

\* A ledger with the value block0 declared.
Worth(L) == LedgerOK(L) /\ \A G \in NewLedger : get_total_value(L) = get_total_value(G)

ValueInv ==
    /\ Worth(ledger)
    /\ block = <<>> \/ /\ Len(block) = 1 /\ DOMAIN block = {1}
                       /\ DOMAIN block[1] = {"ledger", "date"}
                       /\ Worth(block[1].ledger) /\ block[1].date \in Nat \X Nat

\* A ledger that gains nothing keeps its worth.
LEMMA WorthStays ==
    ASSUME NEW L, Worth(L), NEW M, Gains(M, L, 0)
    PROVE  Worth(M)
<1>1. get_total_value(M) = get_total_value(L) + 0 /\ get_total_value(L) \in Int
  BY TotalType DEF Worth, Gains
<1> QED BY <1>1 DEF Worth, Gains

\* The invariant holds of the ledger of block0.
LEMMA InitWorth == Init => ValueInv
<1> SUFFICES ASSUME Init PROVE ValueInv
  OBVIOUS
<1>1. ledger \in NewLedger /\ block = <<>>
  BY DEF Init
<1>2. \A G \in NewLedger : G = ledger
  BY <1>1, NewLedgerOK DEF AtMostOne
<1>3. LedgerOK(ledger)
  BY <1>1, NewLedgerOK
<1>4. Worth(ledger)
  BY <1>2, <1>3 DEF Worth
<1> QED BY <1>1, <1>4 DEF ValueInv

\* A new block keeps the invariant.
LEMMA BeginWorth ==
    ASSUME ValueInv, NEW d \in Dates, begin_block(d) PROVE ValueInv'
<1>1. ledger' = ledger
  BY DEF begin_block
<1>2. Worth(ledger)
  BY DEF ValueInv
<1>3. CASE block' = block
  BY <1>1, <1>3 DEF ValueInv, Worth
<1>4. CASE block' # block
  <2>1. PICK L : L = [ledger EXCEPT !.chain_length = @ + 1]
    OBVIOUS
  <2>2. block' = <<[ledger |-> L, date |-> d]>>
    BY <1>4, <2>1 DEF begin_block
  <2>3. SameWealth(L, ledger) /\ LogOK(L.leaders_log) /\ L.date \in Nat \X Nat
    BY <1>2, <2>1 DEF SameWealth, Worth, LedgerOK, Fields
  <2>4. Worth(L)
    BY <1>2, <2>3, SameWealthGains, WorthStays DEF Worth
  <2>5. d \in Nat \X Nat
    BY SettingsAreRead
  <2>6. /\ Len(block') = 1 /\ DOMAIN block' = {1} /\ DOMAIN block'[1] = {"ledger", "date"}
        /\ block'[1].ledger = L /\ block'[1].date = d
    BY <2>2
  <2>7. Worth(ledger')
    BY <1>1, <1>2
  <2>8. Worth(block'[1].ledger)
    BY <2>4, <2>6
  <2> QED BY <2>5, <2>6, <2>7, <2>8 DEF ValueInv, Worth
<1> QED BY <1>3, <1>4

\* A fragment keeps the invariant.
LEMMA ApplyWorth ==
    ASSUME ValueInv, NEW f \in Fragments, ApplyFragment(f) PROVE ValueInv'
<1>1. PICK L \in apply_fragment(block[1].ledger, f, block[1].date) :
            block' = <<[block[1] EXCEPT !.ledger = L]>>
  BY DEF ApplyFragment
<1>2. block # <<>> /\ ledger' = ledger
  BY DEF ApplyFragment
<1>3. /\ DOMAIN block[1] = {"ledger", "date"} /\ Worth(block[1].ledger)
      /\ block[1].date \in Nat \X Nat /\ Worth(ledger)
  BY <1>2 DEF ValueInv
<1>4. Worth(L)
  BY <1>1, <1>3, FragmentGains, WorthStays DEF Worth
<1>5. /\ Len(block') = 1 /\ DOMAIN block' = {1} /\ DOMAIN block'[1] = {"ledger", "date"}
      /\ block'[1].ledger = L /\ block'[1].date = block[1].date
  BY <1>1, <1>3
<1> QED BY <1>2, <1>3, <1>4, <1>5 DEF ValueInv, Worth

\* The end of a block keeps the invariant.
LEMMA FinishWorth ==
    ASSUME ValueInv, NEW creator, finish(creator) PROVE ValueInv'
<1>1. PICK L : L = block[1].ledger
  OBVIOUS
<1>2. Worth(L) /\ block[1].date \in Nat \X Nat /\ block' = <<>>
  BY <1>1 DEF ValueInv, finish
<1>3. LogOK(L.leaders_log)
  BY <1>2 DEF Worth, LedgerOK
<1>4. PICK log : log = IF creator = <<>> THEN L.leaders_log
                       ELSE With(L.leaders_log, creator[1],
                                 IF creator[1] \in DOMAIN L.leaders_log
                                 THEN L.leaders_log[creator[1]] + 1 ELSE 1)
  OBVIOUS
<1>5. LogOK(log)
  <2>1. CASE creator = <<>>
    BY <1>3, <1>4, <2>1
  <2>2. CASE creator # <<>>
    <3>1. PICK p, n : p = creator[1] /\ n = IF p \in DOMAIN L.leaders_log THEN L.leaders_log[p] + 1 ELSE 1
      OBVIOUS
    <3>2. n \in Nat
      BY <1>3, <3>1 DEF LogOK
    <3>3. log = With(L.leaders_log, p, n)
      BY <1>4, <2>2, <3>1
    <3>4. DOMAIN log = DOMAIN L.leaders_log \cup {p}
      BY <3>3 DEF With
    <3>5. F!IsFiniteSet(DOMAIN log)
      BY <1>3, <3>4, F!FS_AddElement DEF LogOK
    <3>6. \A x \in DOMAIN log : log[x] = IF x = p THEN n ELSE L.leaders_log[x]
      BY <3>3 DEF With
    <3> QED BY <1>3, <3>2, <3>4, <3>5, <3>6 DEF LogOK
  <2> QED BY <2>1, <2>2
<1>6. ledger' = [L EXCEPT !.date = block[1].date, !.leaders_log = log]
  BY <1>1, <1>4 DEF finish
<1>7. PICK M : M = ledger'
  OBVIOUS
<1>8. SameWealth(M, L) /\ M.leaders_log = log /\ M.date = block[1].date
  BY <1>2, <1>6, <1>7 DEF SameWealth, Worth, LedgerOK, Fields
<1>9. Worth(M)
  BY <1>2, <1>5, <1>8, SameWealthGains, WorthStays DEF Worth
<1> QED BY <1>2, <1>7, <1>9 DEF ValueInv, Worth

\* The rewards of an epoch keep the invariant.
LEMMA CloseWorth == ASSUME ValueInv, distribute_rewards PROVE ValueInv'
<1>1. block' = block /\ block = <<>>
  BY DEF distribute_rewards
<1>2. Worth(ledger)
  BY DEF ValueInv
<1>3. CASE ledger' = ledger
  BY <1>1, <1>2, <1>3 DEF ValueInv, Worth
<1>4. CASE ledger' # ledger
  <2>1. ledger' = Paid(ledger) /\ LogTotal(ledger) # 0 /\ ~DividesByZero(ledger)
    BY <1>4 DEF distribute_rewards, can_distribute_reward
  <2>2. Worth(Paid(ledger))
    BY <1>2, <2>1, PaidGains, WorthStays DEF Worth
  <2> QED BY <1>1, <2>1, <2>2 DEF ValueInv, Worth
<1> QED BY <1>3, <1>4

\* ValueInv is inductive: one step for each action.
LEMMA ValueStep == ValueInv /\ [Next]_vars => ValueInv'
<1> SUFFICES ASSUME ValueInv, [Next]_vars PROVE ValueInv'
  OBVIOUS
<1>1. CASE \E d \in Dates : begin_block(d)
  BY <1>1, BeginWorth
<1>2. CASE \E f \in Fragments : ApplyFragment(f)
  BY <1>2, ApplyWorth
<1>3. CASE \E p \in Creators : finish(<<p>>)
  BY <1>3, FinishWorth
<1>4. CASE finish(<<>>)
  BY <1>4, FinishWorth
<1>5. CASE DropBlock
  BY <1>5 DEF DropBlock, ValueInv, Worth
<1>6. CASE distribute_rewards
  BY <1>6, CloseWorth
<1>7. CASE UNCHANGED vars
  BY <1>7 DEF vars, ValueInv, Worth
<1> QED BY <1>1, <1>2, <1>3, <1>4, <1>5, <1>6, <1>7 DEF Next

\* The invariant has the property.
LEMMA WorthIsConserved == ValueInv => ValueConserved
<1> SUFFICES ASSUME ValueInv, NEW L \in Ledgers PROVE Worth(L)
  BY DEF ValueConserved, Worth
<1>1. CASE block = <<>>
  BY <1>1 DEF ValueInv, Ledgers
<1>2. CASE block # <<>>
  BY <1>2 DEF ValueInv, Ledgers
<1> QED BY <1>1, <1>2

\* No sequence of blocks and epochs creates or destroys value, for any
\* fragments, registrations, taxes, fees, caps and reward schedule: transfers,
\* fees, certificates and the distribution of rewards (Ledger::apply_fragment,
\* distribute_rewards) keep get_total_value at what block0 declared.
THEOREM ValueIsConserved == Spec => []ValueConserved
<1>1. Spec => []ValueInv
  BY InitWorth, ValueStep, PTL DEF Spec
<1> QED BY <1>1, WorthIsConserved, PTL

-----------------------------------------------------------------------------
(* The stake distribution: how one value of an account is split. *)

ShareOf(L, delegation, v) == [i \in DOMAIN delegation |-> Share(L, delegation, v, i)]

\* The entries whose pool is registered.
Live(L, delegation) == {i \in DOMAIN delegation : delegation[i].pool \in DOMAIN L.pools}

Gone(L, delegation) == {i \in DOMAIN delegation : delegation[i].pool \notin DOMAIN L.pools}

\* What the pools get of a value, and what no pool gets.
Staked(L, delegation, v) == F!Sum(ShareOf(L, delegation, v), Live(L, delegation))

Unstaked(L, delegation, v) ==
    F!Sum(ShareOf(L, delegation, v), Gone(L, delegation))
    + (IF Gone(L, delegation) = DOMAIN delegation THEN v % Parts(delegation) ELSE 0)

\* The parts of a delegation are the sum of its weights.
LEMMA PartsAreSum ==
    ASSUME NEW delegation \in DelegationTypes, NEW i \in DOMAIN delegation
    PROVE  /\ Parts(delegation) = F!Sum(Weights(delegation), DOMAIN delegation)
           /\ F!Nats(Weights(delegation), DOMAIN delegation)
<1>1. Parts(delegation) = F!Sum(Weights(delegation), DOMAIN delegation)
  BY SumOfFunction DEF Parts, Weights
<1>2. \A j \in DOMAIN delegation : delegation[j].weight \in Nat
  BY PartsPositive
<1> QED BY <1>1, <1>2 DEF Weights, F!Nats

\* The first live entry gets the remainder.
LEMMA RemainderIsGiven ==
    ASSUME NEW L, NEW delegation \in DelegationTypes, NEW r \in Nat, NEW extra,
           extra = [i \in DOMAIN delegation |->
                        IF /\ delegation[i].pool \in DOMAIN L.pools
                           /\ \A j \in 1 .. i - 1 : delegation[j].pool \notin DOMAIN L.pools
                        THEN r ELSE 0]
    PROVE  /\ F!Nats(extra, DOMAIN delegation)
           /\ F!Sum(extra, DOMAIN delegation) = IF Live(L, delegation) = {} THEN 0 ELSE r
<1>1. PICK D, R : D = DOMAIN delegation /\ R = Live(L, delegation)
  OBVIOUS
<1>2. F!IsFiniteSet(D) /\ D = 1 .. Len(delegation) /\ Len(delegation) \in Nat
  <2>1. F!IsFiniteSet(D)
    BY <1>1, FiniteEntries
  <2>2. D = 1 .. Len(delegation) /\ Len(delegation) \in Nat
    BY <1>1 DEF DelegationTypes
  <2> QED BY <2>1, <2>2
<1>3. F!Nats(extra, D)
  BY <1>1 DEF F!Nats
<1>4. \A i \in D : i \in R <=> delegation[i].pool \in DOMAIN L.pools
  BY <1>1 DEF Live
<1>5. \A i \in D : extra[i] = IF i \in R /\ (\A j \in 1 .. i - 1 : j \notin R) THEN r ELSE 0
  <2> SUFFICES ASSUME NEW i \in D
               PROVE  (\A j \in 1 .. i - 1 : delegation[j].pool \notin DOMAIN L.pools)
                        <=> (\A j \in 1 .. i - 1 : j \notin R)
    BY <1>1, <1>4
  <2>1. \A j \in 1 .. i - 1 : j \in D
    BY <1>2
  <2> QED BY <1>4, <2>1
<1>6. CASE R = {}
  <2>1. F!ZeroOn(extra, D)
    BY <1>5, <1>6 DEF F!ZeroOn
  <2> QED BY <1>1, <1>2, <1>3, <1>6, <2>1, F!SumZero
<1>7. CASE R # {}
  <2>1. R \subseteq D /\ R \subseteq Nat
    BY <1>1, <1>2 DEF Live
  <2>2. PICK k \in R : \A m \in R : k <= m
    BY <1>7, <2>1, F!LeastNatural
  <2>3. k \in Nat /\ k \in D
    BY <2>1
  <2>4. \A j \in 1 .. k - 1 : j \notin R
    BY <2>2, <2>3
  <2>5. extra[k] = r
    BY <1>5, <2>3, <2>4
  <2>6. ASSUME NEW i \in D, i # k PROVE extra[i] = 0
    <3>1. CASE i \notin R
      BY <1>5, <3>1
    <3>2. CASE i \in R
      <4>1. k <= i /\ i \in Nat /\ 1 <= k
        BY <1>2, <2>1, <2>2, <2>3, <3>2
      <4>2. k \in 1 .. i - 1
        BY <2>3, <2>6, <4>1
      <4> QED BY <1>5, <4>2
    <3> QED BY <3>1, <3>2
  <2>7. {k} \subseteq D /\ F!Ints(extra, {k}) /\ F!ZeroOn(extra, D \ {k}) /\ extra[k] \in Int
    BY <2>3, <2>5, <2>6 DEF F!Ints, F!ZeroOn
  <2>8. F!Sum(extra, D) = F!Sum(extra, {k})
    BY <1>2, <2>7, F!SumSupport
  <2>9. F!Sum(extra, {k}) = extra[k]
    BY <2>7, F!SumOne
  <2> QED BY <1>1, <1>3, <1>7, <2>5, <2>8, <2>9
<1> QED BY <1>6, <1>7

\* The shares of a value are all of it, but for the remainder when no pool is
\* left to take it.
LEMMA SharesAddUp ==
    ASSUME NEW L, NEW delegation \in DelegationTypes, delegation # <<>>, NEW v \in Nat
    PROVE  /\ F!Nats(ShareOf(L, delegation, v), DOMAIN delegation)
           /\ F!Sum(ShareOf(L, delegation, v), DOMAIN delegation)
                = v - (IF Live(L, delegation) = {} THEN v % Parts(delegation) ELSE 0)
           /\ v % Parts(delegation) \in Nat
<1>1. PICK D, n, w, share : /\ D = DOMAIN delegation /\ n = Parts(delegation)
                            /\ w = Weights(delegation) /\ share = ShareOf(L, delegation, v)
  OBVIOUS
<1>2. PICK one : one \in D
  <2>1. 1 \in D
    BY <1>1 DEF DelegationTypes
  <2> QED BY <2>1
<1>3. n \in Nat \ {0} /\ n = F!Sum(w, D) /\ F!Nats(w, D) /\ F!Ints(w, D)
  BY <1>1, <1>2, PartsPositive, PartsAreSum DEF F!Nats, F!Ints
<1>4. F!IsFiniteSet(D)
  BY <1>1, FiniteEntries
<1>5. PICK q, r \in Nat : q = v \div n /\ r = v % n /\ v = n * q + r
  BY <1>3, Quotients
<1>6. PICK base, extra :
        /\ base = [i \in D |-> q * w[i]]
        /\ extra = [i \in DOMAIN delegation |->
                        IF /\ delegation[i].pool \in DOMAIN L.pools
                           /\ \A j \in 1 .. i - 1 : delegation[j].pool \notin DOMAIN L.pools
                        THEN r ELSE 0]
  OBVIOUS
<1>7. /\ F!Nats(extra, D)
      /\ F!Sum(extra, D) = IF Live(L, delegation) = {} THEN 0 ELSE r
  BY <1>1, <1>6, RemainderIsGiven
<1>8. F!Nats(base, D) /\ F!TimesOn(base, w, q, D)
  <2>1. \A i \in D : w[i] \in Nat /\ base[i] = q * w[i]
    BY <1>3, <1>6 DEF F!Nats
  <2>2. \A a, b \in Nat : a * b = b * a
    OBVIOUS
  <2> QED BY <2>1, <2>2, Products DEF F!Nats, F!TimesOn
<1>9. F!Sum(base, D) = n * q
  <2>1. q \in Int
    OBVIOUS
  <2> QED BY <1>3, <1>4, <1>8, <2>1, F!SumTimes
<1>10. \A i \in D : share[i] = base[i] + extra[i]
  BY <1>1, <1>5, <1>6 DEF ShareOf, Share, Weights
<1>11. F!Ints(base, D) /\ F!Ints(extra, D) /\ F!PlusOn(share, base, extra, D) /\ F!Nats(share, D)
  BY <1>7, <1>8, <1>10 DEF F!Nats, F!Ints, F!PlusOn
<1>12. F!Sum(share, D) = F!Sum(base, D) + F!Sum(extra, D)
  BY <1>4, <1>11, F!SumPlus
<1>13. n * q \in Nat
  BY <1>3, Products
<1> QED BY <1>1, <1>5, <1>7, <1>9, <1>11, <1>12, <1>13

\* A value is what its pools get and what no pool gets.
LEMMA ValueIsSplit ==
    ASSUME NEW L, NEW delegation \in DelegationTypes, delegation # <<>>, NEW v \in Nat
    PROVE  /\ Staked(L, delegation, v) \in Nat /\ Unstaked(L, delegation, v) \in Nat
           /\ v = Staked(L, delegation, v) + Unstaked(L, delegation, v)
<1>1. PICK D, R, G, share : /\ D = DOMAIN delegation /\ R = Live(L, delegation)
                            /\ G = Gone(L, delegation) /\ share = ShareOf(L, delegation, v)
  OBVIOUS
<1>2. D = R \cup G /\ F!Disjoint(R, G) /\ R \subseteq D /\ G \subseteq D /\ (G = D <=> R = {})
  BY <1>1 DEF Live, Gone, F!Disjoint
<1>3. F!IsFiniteSet(R) /\ F!IsFiniteSet(G)
  BY <1>1, <1>2, FiniteEntries, F!FS_Subset
<1>4. PICK r : r = IF R = {} THEN v % Parts(delegation) ELSE 0
  OBVIOUS
<1>5. F!Nats(share, D) /\ F!Sum(share, D) = v - r /\ r \in Nat
  BY <1>1, <1>4, SharesAddUp
<1>6. F!Nats(share, R) /\ F!Nats(share, G) /\ F!Ints(share, R) /\ F!Ints(share, G)
  BY <1>2, <1>5 DEF F!Nats, F!Ints
<1>7. F!Sum(share, R \cup G) = F!Sum(share, R) + F!Sum(share, G)
  BY <1>2, <1>3, <1>6, F!SumUnion
<1>8. F!Sum(share, R) \in Nat /\ F!Sum(share, G) \in Nat
  BY <1>3, <1>6, F!SumIsNat
<1>9. Staked(L, delegation, v) = F!Sum(share, R) /\ Unstaked(L, delegation, v) = F!Sum(share, G) + r
  BY <1>1, <1>2, <1>4 DEF Staked, Unstaked
<1>10. F!Sum(share, D) = F!Sum(share, R) + F!Sum(share, G)
  BY <1>2, <1>7
<1> QED BY <1>5, <1>8, <1>9, <1>10

-----------------------------------------------------------------------------
(* What an account holds is what it delegates to pools and the rest. *)

GroupValues(L, a) == [ptr \in GroupUtxos(L, a) |-> L.utxos[ptr].value]

\* What the pools get of everything an account holds.
StakedBy(L, a) ==
    LET delegation == L.accounts[a].delegation IN
    Staked(L, delegation, L.accounts[a].value)
    + F!Sum([ptr \in GroupUtxos(L, a) |-> Staked(L, delegation, L.utxos[ptr].value)],
            GroupUtxos(L, a))

\* The group outputs of an account are finitely many, with values.
LEMMA GroupType ==
    ASSUME NEW L, LedgerOK(L), NEW a
    PROVE  /\ F!IsFiniteSet(GroupUtxos(L, a)) /\ GroupUtxos(L, a) \subseteq DOMAIN L.utxos
           /\ \A ptr \in GroupUtxos(L, a) : L.utxos[ptr].value \in Nat
           /\ F!Nats(GroupValues(L, a), GroupUtxos(L, a))
           /\ F!Sum(GroupValues(L, a), GroupUtxos(L, a)) \in Nat
<1>1. GroupUtxos(L, a) \subseteq DOMAIN L.utxos
  BY DEF GroupUtxos
<1>2. F!IsFiniteSet(DOMAIN L.utxos) /\ \A ptr \in DOMAIN L.utxos : L.utxos[ptr].value \in Nat
  BY DEF LedgerOK, HasValues
<1>3. F!IsFiniteSet(GroupUtxos(L, a))
  BY <1>1, <1>2, F!FS_Subset
<1>4. F!Nats(GroupValues(L, a), GroupUtxos(L, a))
  BY <1>1, <1>2 DEF GroupValues, F!Nats
<1> QED BY <1>1, <1>2, <1>3, <1>4, F!SumIsNat

\* What an account holds is its value and its group outputs.
LEMMA HeldIsSum ==
    ASSUME NEW L, LedgerOK(L), NEW a \in DOMAIN L.accounts
    PROVE  /\ HeldBy(L, a) = L.accounts[a].value + F!Sum(GroupValues(L, a), GroupUtxos(L, a))
           /\ HeldBy(L, a) \in Nat
<1>1. L.accounts[a].value \in Nat
  BY DEF LedgerOK, AccountsOK, HasValues
<1>2. SumFunction(GroupValues(L, a)) = F!Sum(GroupValues(L, a), GroupUtxos(L, a))
  BY SumOfFunction DEF GroupValues
<1>3. HeldBy(L, a) = L.accounts[a].value + SumFunction(GroupValues(L, a))
  BY DEF HeldBy, GroupValues
<1> QED BY <1>1, <1>2, <1>3, GroupType

\* How an account splits everything it holds.
UnstakedValues(L, a) ==
    [ptr \in GroupUtxos(L, a) |-> Unstaked(L, L.accounts[a].delegation, L.utxos[ptr].value)]

StakedValues(L, a) ==
    [ptr \in GroupUtxos(L, a) |-> Staked(L, L.accounts[a].delegation, L.utxos[ptr].value)]

\* What is not staked of a value: the shares of pools that are gone, and a
\* remainder nobody takes.
LEMMA UnstakedIsSum ==
    ASSUME NEW L, NEW delegation \in DelegationTypes, delegation # <<>>, NEW v \in Nat,
           NEW G, G = Gone(L, delegation)
    PROVE  Unstaked(L, delegation, v) =
            SumFunction([i \in G |-> Share(L, delegation, v, i)])
            + (IF G = DOMAIN delegation THEN v % Parts(delegation) ELSE 0)
<1>1. PICK f, g : f = ShareOf(L, delegation, v) /\ g = [i \in G |-> Share(L, delegation, v, i)]
  OBVIOUS
<1>2. G = {i \in DOMAIN delegation : delegation[i].pool \notin DOMAIN L.pools}
  BY <1>1 DEF Gone
<1>3. G \subseteq DOMAIN delegation /\ F!IsFiniteSet(DOMAIN delegation)
  BY <1>2, FiniteEntries
<1>4. F!IsFiniteSet(G)
  BY <1>3, F!FS_Subset
<1>5. F!Nats(f, DOMAIN delegation)
  BY <1>1, SharesAddUp
<1>6. F!Ints(f, G) /\ F!SameOn(f, g, G)
  BY <1>1, <1>3, <1>5 DEF F!Nats, F!Ints, F!SameOn, ShareOf
<1>7. F!Sum(f, G) = F!Sum(g, G)
  BY <1>4, <1>6, F!SumSame
<1>8. SumFunction(g) = F!Sum(g, G)
  BY <1>1, SumOfFunction
<1>9. Unstaked(L, delegation, v) = SumFunction(g)
        + (IF G = DOMAIN delegation THEN v % Parts(delegation) ELSE 0)
  BY <1>1, <1>7, <1>8 DEF Unstaked
<1> QED BY <1>1, <1>9

\* So it is for all an account holds.
LEMMA DanglingIsUnstaked ==
    ASSUME NEW L, LedgerOK(L), NEW a \in DOMAIN L.accounts, L.accounts[a].delegation # <<>>
    PROVE  DanglingOf(L, a) = Unstaked(L, L.accounts[a].delegation, L.accounts[a].value)
                              + F!Sum(UnstakedValues(L, a), GroupUtxos(L, a))
<1>1. PICK dlg, v, U, G, values : /\ dlg = L.accounts[a].delegation /\ v = L.accounts[a].value
                                  /\ U = GroupUtxos(L, a) /\ values = UnstakedValues(L, a)
                                  /\ G = Gone(L, dlg)
  OBVIOUS
<1>2. dlg \in DelegationTypes /\ dlg # <<>> /\ v \in Nat /\ \A ptr \in U : L.utxos[ptr].value \in Nat
  BY <1>1, GroupType DEF LedgerOK, AccountsOK, HasValues
<1> DEFINE split(x) == SumFunction([i \in G |-> Share(L, dlg, x, i)])
                       + (IF G = DOMAIN dlg THEN x % Parts(dlg) ELSE 0)
<1>3. ASSUME NEW x \in Nat PROVE split(x) = Unstaked(L, dlg, x)
  BY <1>1, <1>2, UnstakedIsSum
<1>4. DanglingOf(L, a) = split(v) + SumFunction([ptr \in U |-> split(L.utxos[ptr].value)])
  BY <1>1 DEF DanglingOf, Gone
<1> HIDE DEF split
<1>5. [ptr \in U |-> split(L.utxos[ptr].value)] = values
  BY <1>1, <1>2, <1>3 DEF UnstakedValues
<1>6. SumFunction(values) = F!Sum(values, U)
  BY <1>1, SumOfFunction DEF UnstakedValues
<1> QED BY <1>1, <1>2, <1>3, <1>4, <1>5, <1>6

\* An account holds what its pools get and what dangles.
LEMMA HeldIsSplit ==
    ASSUME NEW L, LedgerOK(L), NEW a \in DOMAIN L.accounts, L.accounts[a].delegation # <<>>
    PROVE  /\ StakedBy(L, a) \in Nat /\ DanglingOf(L, a) \in Nat
           /\ HeldBy(L, a) = StakedBy(L, a) + DanglingOf(L, a)
<1>1. PICK dlg, v, U : dlg = L.accounts[a].delegation /\ v = L.accounts[a].value /\ U = GroupUtxos(L, a)
  OBVIOUS
<1>2. /\ dlg \in DelegationTypes /\ dlg # <<>> /\ v \in Nat
      /\ \A ptr \in U : L.utxos[ptr].value \in Nat
      /\ F!IsFiniteSet(U)
  BY <1>1, GroupType DEF LedgerOK, AccountsOK, HasValues
<1>3. PICK s, u, g : s = StakedValues(L, a) /\ u = UnstakedValues(L, a) /\ g = GroupValues(L, a)
  OBVIOUS
<1>4. ASSUME NEW ptr \in U PROVE s[ptr] \in Nat /\ u[ptr] \in Nat /\ g[ptr] = s[ptr] + u[ptr]
  <2>1. PICK x \in Nat : x = L.utxos[ptr].value
    BY <1>2
  <2>2. s[ptr] = Staked(L, dlg, x) /\ u[ptr] = Unstaked(L, dlg, x) /\ g[ptr] = x
    BY <1>1, <1>3, <2>1 DEF StakedValues, UnstakedValues, GroupValues
  <2> QED BY <1>2, <2>2, ValueIsSplit
<1>5. F!Nats(s, U) /\ F!Nats(u, U) /\ F!Ints(s, U) /\ F!Ints(u, U) /\ F!PlusOn(g, s, u, U)
  BY <1>4 DEF F!Nats, F!Ints, F!PlusOn
<1>6. F!Sum(g, U) = F!Sum(s, U) + F!Sum(u, U) /\ F!Sum(s, U) \in Nat /\ F!Sum(u, U) \in Nat
  BY <1>2, <1>5, F!SumPlus, F!SumIsNat
<1>7. PICK x, y : x = Staked(L, dlg, v) /\ y = Unstaked(L, dlg, v)
  OBVIOUS
<1>8. x \in Nat /\ y \in Nat /\ v = x + y
  BY <1>2, <1>7, ValueIsSplit
<1>9. StakedBy(L, a) = x + F!Sum(s, U)
  BY <1>1, <1>3, <1>7 DEF StakedBy, StakedValues
<1>10. DanglingOf(L, a) = y + F!Sum(u, U)
  BY <1>1, <1>3, <1>7, DanglingIsUnstaked
<1>11. HeldBy(L, a) = v + F!Sum(g, U)
  BY <1>1, <1>3, HeldIsSum
<1> QED BY <1>6, <1>8, <1>9, <1>10, <1>11

-----------------------------------------------------------------------------
(* The stakes of an account in its pools. *)

\* What one entry of its delegation is assigned of everything an account holds.
EntryStakes(L, a) ==
    LET delegation == L.accounts[a].delegation IN
    [i \in DOMAIN delegation |->
        Share(L, delegation, L.accounts[a].value, i)
        + F!Sum([ptr \in GroupUtxos(L, a) |-> Share(L, delegation, L.utxos[ptr].value, i)],
                GroupUtxos(L, a))]

\* The stake at an entry of a delegation is a number.
LEMMA EntryStakesType ==
    ASSUME NEW L, LedgerOK(L), NEW a \in DOMAIN L.accounts
    PROVE  F!Nats(EntryStakes(L, a), DOMAIN L.accounts[a].delegation)
<1>1. PICK dlg, v, U : dlg = L.accounts[a].delegation /\ v = L.accounts[a].value /\ U = GroupUtxos(L, a)
  OBVIOUS
<1>2. /\ dlg \in DelegationTypes /\ v \in Nat /\ F!IsFiniteSet(U)
      /\ \A ptr \in U : L.utxos[ptr].value \in Nat
  BY <1>1, GroupType DEF LedgerOK, AccountsOK, HasValues
<1>3. ASSUME NEW i \in DOMAIN dlg PROVE EntryStakes(L, a)[i] \in Nat
  <2>1. PICK g : g = [ptr \in U |-> Share(L, dlg, L.utxos[ptr].value, i)]
    OBVIOUS
  <2>2. Share(L, dlg, v, i) \in Nat /\ F!Nats(g, U)
    BY <1>2, <2>1, ShareType DEF F!Nats
  <2>3. F!Sum(g, U) \in Nat
    BY <1>2, <2>2, F!SumIsNat
  <2>4. EntryStakes(L, a)[i] = Share(L, dlg, v, i) + F!Sum(g, U)
    BY <1>1, <2>1 DEF EntryStakes
  <2> QED BY <2>2, <2>3, <2>4
<1> QED BY <1>1, <1>3 DEF F!Nats

\* The stake at a pool is the sum over the entries that name it.
LEMMA StakeOfIsSum ==
    ASSUME NEW L, LedgerOK(L), NEW a \in DOMAIN L.accounts, NEW p
    PROVE  StakeOf(L, a, p) = F!Sum(EntryStakes(L, a), EntriesFor(L.accounts[a].delegation, p))
<1>1. PICK dlg, v, U, E : /\ dlg = L.accounts[a].delegation /\ v = L.accounts[a].value
                          /\ U = GroupUtxos(L, a) /\ E = EntriesFor(dlg, p)
  OBVIOUS
<1>2. dlg \in DelegationTypes
  BY <1>1 DEF LedgerOK, AccountsOK
<1>3. F!IsFiniteSet(E) /\ E \subseteq DOMAIN dlg
  BY <1>1, <1>2, FiniteEntries
<1> DEFINE group(i) == [ptr \in U |-> Share(L, dlg, L.utxos[ptr].value, i)]
<1>4. PICK e, h : /\ e = EntryStakes(L, a)
                  /\ h = [i \in E |-> Share(L, dlg, v, i) + SumFunction(group(i))]
  OBVIOUS
<1>5. StakeOf(L, a, p) = SumFunction(h)
  BY <1>1, <1>4 DEF StakeOf
<1>6. SumFunction(h) = F!Sum(h, E)
  BY <1>4, SumOfFunction
<1>7. ASSUME NEW i \in E PROVE e[i] = h[i]
  <2>1. SumFunction(group(i)) = F!Sum(group(i), U)
    BY SumOfFunction
  <2>2. e[i] = Share(L, dlg, v, i) + F!Sum(group(i), U)
    BY <1>1, <1>3, <1>4 DEF EntryStakes
  <2> QED BY <1>4, <2>1, <2>2
<1>8. F!Ints(e, E) /\ F!SameOn(e, h, E)
  BY <1>1, <1>3, <1>4, <1>7, EntryStakesType DEF F!Nats, F!Ints, F!SameOn
<1>9. F!Sum(e, E) = F!Sum(h, E)
  BY <1>3, <1>8, F!SumSame
<1> QED BY <1>1, <1>4, <1>5, <1>6, <1>9

\* The entries of one pool are a fibre of the live entries.
LEMMA StakesByPool ==
    ASSUME NEW L, LedgerOK(L), NEW a \in DOMAIN L.accounts, NEW row,
           row = [p \in DOMAIN L.pools |-> StakeOf(L, a, p)]
    PROVE  F!Sum(row, DOMAIN L.pools)
            = F!Sum(EntryStakes(L, a), Live(L, L.accounts[a].delegation))
<1>1. PICK dlg, P, R, e, g : /\ dlg = L.accounts[a].delegation /\ P = DOMAIN L.pools
                             /\ R = Live(L, dlg) /\ e = EntryStakes(L, a)
                             /\ g = [i \in DOMAIN dlg |-> dlg[i].pool]
  OBVIOUS
<1>2. dlg \in DelegationTypes
  BY <1>1 DEF LedgerOK, AccountsOK
<1>3. R \subseteq DOMAIN dlg /\ F!IsFiniteSet(DOMAIN dlg)
  BY <1>1, <1>2, FiniteEntries DEF Live
<1>4. F!IsFiniteSet(R) /\ F!IsFiniteSet(P)
  BY <1>1, <1>3, F!FS_Subset DEF LedgerOK, PoolsOK
<1>5. F!MapsTo(g, R, P)
  BY <1>1 DEF F!MapsTo, Live
<1>6. F!Ints(e, R)
  BY <1>1, <1>3, EntryStakesType DEF F!Nats, F!Ints
<1>7. ASSUME NEW p \in P PROVE row[p] = F!Sum(e, F!Fibre(g, R, p))
  <2>1. F!Fibre(g, R, p) = EntriesFor(dlg, p)
    BY <1>1 DEF F!Fibre, EntriesFor, Live
  <2> QED BY <1>1, <2>1, StakeOfIsSum
<1>8. F!FibreSums(row, e, g, R, P)
  BY <1>7 DEF F!FibreSums
<1>9. F!Sum(row, P) = F!Sum(e, R)
  BY <1>4, <1>5, <1>6, <1>8, F!SumByFibres
<1> QED BY <1>1, <1>9

\* The stakes of an account in the pools are what the pools get of it.
LEMMA AccountStakes ==
    ASSUME NEW L, LedgerOK(L), NEW a \in DOMAIN L.accounts, L.accounts[a].delegation # <<>>,
           NEW row, row = [p \in DOMAIN L.pools |-> StakeOf(L, a, p)]
    PROVE  F!Sum(row, DOMAIN L.pools) = StakedBy(L, a)
<1>1. PICK dlg, v, U, R, e : /\ dlg = L.accounts[a].delegation /\ v = L.accounts[a].value
                             /\ U = GroupUtxos(L, a) /\ R = Live(L, dlg) /\ e = EntryStakes(L, a)
  OBVIOUS
<1>2. /\ dlg \in DelegationTypes /\ dlg # <<>> /\ v \in Nat /\ F!IsFiniteSet(U)
      /\ \A ptr \in U : L.utxos[ptr].value \in Nat
  BY <1>1, GroupType DEF LedgerOK, AccountsOK, HasValues
<1>3. R \subseteq DOMAIN dlg /\ F!IsFiniteSet(DOMAIN dlg)
  BY <1>1, <1>2, FiniteEntries DEF Live
<1>4. F!IsFiniteSet(R)
  BY <1>3, F!FS_Subset
<1>5. PICK m, f, h : /\ m = [i \in R |-> [ptr \in U |-> Share(L, dlg, L.utxos[ptr].value, i)]]
                     /\ f = ShareOf(L, dlg, v) /\ h = [i \in R |-> F!Sum(m[i], U)]
  OBVIOUS
<1>6. ASSUME NEW x \in Nat PROVE F!Ints(ShareOf(L, dlg, x), R)
  BY <1>2, <1>3, SharesAddUp DEF F!Nats, F!Ints
<1>7. F!IsMatrix(m, R, U)
  <2> SUFFICES ASSUME NEW i \in R, NEW ptr \in U PROVE m[i][ptr] \in Int
    BY DEF F!IsMatrix, F!Ints
  <2>1. m[i][ptr] = Share(L, dlg, L.utxos[ptr].value, i)
    BY <1>5
  <2>2. Share(L, dlg, L.utxos[ptr].value, i) \in Nat
    BY <1>2, <1>3, ShareType
  <2> QED BY <2>1, <2>2
<1>8. F!Ints(h, R)
  <2> SUFFICES ASSUME NEW i \in R PROVE F!Sum(m[i], U) \in Int
    BY <1>5 DEF F!Ints
  <2> QED BY <1>2, <1>7, F!SumIsInt DEF F!IsMatrix
<1>9. F!PlusOn(e, f, h, R)
  <2> SUFFICES ASSUME NEW i \in R PROVE e[i] = f[i] + h[i]
    BY DEF F!PlusOn
  <2>1. i \in DOMAIN dlg /\ m[i] = [ptr \in U |-> Share(L, dlg, L.utxos[ptr].value, i)]
    BY <1>3, <1>5
  <2>2. h[i] = F!Sum([ptr \in U |-> Share(L, dlg, L.utxos[ptr].value, i)], U)
    BY <1>5, <2>1
  <2>3. f[i] = Share(L, dlg, v, i)
    BY <1>5, <2>1 DEF ShareOf
  <2>4. e[i] = Share(L, dlg, v, i)
               + F!Sum([ptr \in U |-> Share(L, dlg, L.utxos[ptr].value, i)], U)
    BY <1>1, <2>1 DEF EntryStakes
  <2> QED BY <2>2, <2>3, <2>4
<1>10. F!Sum(e, R) = F!Sum(f, R) + F!Sum(h, R)
  BY <1>2, <1>4, <1>5, <1>6, <1>8, <1>9, F!SumPlus
<1>11. PICK t, s : t = [ptr \in U |-> F!Sum(F!Column(m, R, ptr), R)] /\ s = StakedValues(L, a)
  OBVIOUS
<1>12. F!Sum(h, R) = F!Sum(t, U)
  BY <1>2, <1>4, <1>5, <1>7, <1>11, F!SumExchange
<1>13. ASSUME NEW ptr \in U PROVE s[ptr] = t[ptr] /\ s[ptr] \in Int
  <2>1. PICK x \in Nat : x = L.utxos[ptr].value
    BY <1>2
  <2>2. PICK c, k : c = F!Column(m, R, ptr) /\ k = ShareOf(L, dlg, x)
    OBVIOUS
  <2>3. F!SameOn(k, c, R)
    BY <1>3, <1>5, <2>1, <2>2 DEF F!SameOn, F!Column, ShareOf
  <2>4. F!Sum(k, R) = F!Sum(c, R)
    BY <1>4, <1>6, <2>2, <2>3, F!SumSame
  <2>5. s[ptr] = Staked(L, dlg, x)
    BY <1>1, <1>11, <2>1 DEF StakedValues
  <2>6. Staked(L, dlg, x) = F!Sum(k, R)
    BY <1>1, <2>2 DEF Staked
  <2>7. Staked(L, dlg, x) \in Nat
    BY <1>2, ValueIsSplit
  <2> QED BY <1>11, <2>2, <2>4, <2>5, <2>6, <2>7
<1>14. F!Sum(s, U) = F!Sum(t, U)
  <2>1. F!Ints(s, U) /\ F!SameOn(s, t, U)
    BY <1>13 DEF F!Ints, F!SameOn
  <2> QED BY <1>2, <2>1, F!SumSame
<1>15. StakedBy(L, a) = F!Sum(f, R) + F!Sum(s, U)
  BY <1>1, <1>5, <1>11 DEF StakedBy, StakedValues, Staked
<1>16. F!Sum(row, DOMAIN L.pools) = F!Sum(e, R)
  BY <1>1, StakesByPool
<1> QED BY <1>10, <1>12, <1>14, <1>15, <1>16

Delegators(L) == {b \in DOMAIN L.accounts : L.accounts[b].delegation # <<>>}

\* The total stake is what the pools get of all accounts.
LEMMA TotalStakeIsStaked ==
    ASSUME NEW L, LedgerOK(L)
    PROVE  get_total_stake(L) = F!Sum([a \in Delegators(L) |-> StakedBy(L, a)], Delegators(L))
<1>1. PICK A, P, m : /\ A = Delegators(L) /\ P = DOMAIN L.pools
                     /\ m = [a \in A |-> [p \in P |-> StakeOf(L, a, p)]]
  OBVIOUS
<1>2. A \subseteq DOMAIN L.accounts /\ \A a \in A : L.accounts[a].delegation # <<>>
  BY <1>1 DEF Delegators
<1>3. F!IsFiniteSet(A) /\ F!IsFiniteSet(P)
  BY <1>1, <1>2, F!FS_Subset DEF LedgerOK, AccountsOK, PoolsOK, HasValues
<1>4. F!IsMatrix(m, A, P)
  <2> SUFFICES ASSUME NEW a \in A, NEW p \in P PROVE m[a][p] \in Int
    BY DEF F!IsMatrix, F!Ints
  <2>1. StakeOf(L, a, p) \in Nat
    BY <1>2, StakeOfType
  <2> QED BY <1>1, <2>1
<1>5. PICK r, k : /\ r = [a \in A |-> F!Sum(m[a], P)]
                  /\ k = [p \in P |-> F!Sum(F!Column(m, A, p), A)]
  OBVIOUS
<1>6. F!Sum(r, A) = F!Sum(k, P)
  BY <1>3, <1>4, <1>5, F!SumExchange
<1>7. r = [a \in A |-> StakedBy(L, a)]
  <2> SUFFICES ASSUME NEW a \in A PROVE F!Sum(m[a], P) = StakedBy(L, a)
    BY <1>5
  <2>1. PICK row : row = [p \in DOMAIN L.pools |-> StakeOf(L, a, p)]
    OBVIOUS
  <2>2. m[a] = row
    BY <1>1, <2>1
  <2>3. F!Sum(row, DOMAIN L.pools) = StakedBy(L, a)
    BY <1>2, <2>1, AccountStakes
  <2> QED BY <1>1, <2>2, <2>3
<1>8. ASSUME NEW p \in P PROVE k[p] = PoolStake(L, p)
  <2>1. PICK c, M, g : /\ c = F!Column(m, A, p) /\ M = Members(L, p)
                       /\ g = [a \in M |-> StakeOf(L, a, p)]
    OBVIOUS
  <2>2. \A a \in A : c[a] = StakeOf(L, a, p) /\ c[a] \in Nat
    BY <1>1, <1>2, <2>1, StakeOfType DEF F!Column
  <2>3. M \subseteq A
    BY <1>1, <2>1 DEF Members, Delegators, EntriesFor
  <2>4. ASSUME NEW a \in A, a \notin M PROVE c[a] = 0
    <3>1. EntriesFor(L.accounts[a].delegation, p) = {}
      BY <1>2, <2>1, <2>4 DEF Members
    <3>2. StakeOf(L, a, p) = F!Sum(EntryStakes(L, a), {})
      BY <1>2, <3>1, StakeOfIsSum
    <3> QED BY <2>2, <3>2, F!SumEmpty
  <2>5. F!Ints(c, M) /\ F!ZeroOn(c, A \ M) /\ F!SameOn(c, g, M)
    BY <2>1, <2>2, <2>3, <2>4 DEF F!Ints, F!ZeroOn, F!SameOn
  <2>6. F!IsFiniteSet(M)
    BY <1>3, <2>3, F!FS_Subset
  <2>7. F!Sum(c, A) = F!Sum(c, M)
    BY <1>3, <2>3, <2>5, F!SumSupport
  <2>8. F!Sum(c, M) = F!Sum(g, M)
    BY <2>5, <2>6, F!SumSame
  <2>9. PoolStake(L, p) = F!Sum(g, M)
    BY <2>1, SumOfFunction DEF PoolStake
  <2> QED BY <1>5, <2>1, <2>7, <2>8, <2>9
<1>9. k = [p \in P |-> PoolStake(L, p)]
  BY <1>5, <1>8
<1>10. get_total_stake(L) = F!Sum(k, P)
  <2>1. DOMAIN k = P
    BY <1>5
  <2> QED BY <1>1, <1>9, <2>1, SumOfFunction DEF get_total_stake
<1> QED BY <1>1, <1>6, <1>7, <1>10

-----------------------------------------------------------------------------
(* The distribution counts every value once. *)

\* An unspent output has a single address, or a group address whose account exists.
GroupOK(L) ==
    \A ptr \in DOMAIN L.utxos :
        \/ L.utxos[ptr].address.kind = "single"
        \/ /\ L.utxos[ptr].address.kind = "group"
           /\ L.utxos[ptr].address.account \in DOMAIN L.accounts

Singles(L) == {ptr \in DOMAIN L.utxos : L.utxos[ptr].address.kind = "single"}

Groups(L) == {ptr \in DOMAIN L.utxos : L.utxos[ptr].address.kind = "group"}

Holdings(L) == [a \in DOMAIN L.accounts |-> HeldBy(L, a)]

\* The accounts hold their own values and all the group outputs.
LEMMA HoldingsAddUp ==
    ASSUME NEW L, LedgerOK(L), GroupOK(L)
    PROVE  /\ F!Nats(Holdings(L), DOMAIN L.accounts)
           /\ F!Sum(Holdings(L), DOMAIN L.accounts)
                = ValuesOf(L.accounts) + F!Sum(Values(L.utxos), Groups(L))
<1>1. PICK A, G, h, v, u : /\ A = DOMAIN L.accounts /\ G = Groups(L) /\ h = Holdings(L)
                           /\ v = Values(L.accounts) /\ u = Values(L.utxos)
  OBVIOUS
<1>2. PICK g, r : /\ g = [ptr \in G |-> L.utxos[ptr].address.account]
                  /\ r = [a \in A |-> F!Sum(GroupValues(L, a), GroupUtxos(L, a))]
  OBVIOUS
<1>3. F!IsFiniteSet(A) /\ F!IsFiniteSet(DOMAIN L.utxos) /\ G \subseteq DOMAIN L.utxos
  BY <1>1 DEF LedgerOK, AccountsOK, HasValues, Groups
<1>4. F!IsFiniteSet(G)
  BY <1>3, F!FS_Subset
<1>5. F!Ints(v, A) /\ ValuesOf(L.accounts) = F!Sum(v, A) /\ F!Ints(u, DOMAIN L.utxos)
  BY <1>1, ValuesType, ValuesAreSums DEF LedgerOK, AccountsOK
<1>6. F!Ints(u, G)
  BY <1>3, <1>5 DEF F!Ints
<1>7. ASSUME NEW a \in A
      PROVE  h[a] \in Nat /\ h[a] = v[a] + r[a] /\ r[a] \in Nat /\ r[a] = F!Sum(u, F!Fibre(g, G, a))
  <2>1. HeldBy(L, a) = L.accounts[a].value + F!Sum(GroupValues(L, a), GroupUtxos(L, a))
        /\ HeldBy(L, a) \in Nat
    BY <1>1, HeldIsSum
  <2>2. h[a] = HeldBy(L, a) /\ v[a] = L.accounts[a].value
    BY <1>1 DEF Holdings, Values
  <2>3. PICK U, w : U = GroupUtxos(L, a) /\ w = GroupValues(L, a)
    OBVIOUS
  <2>4. F!IsFiniteSet(U) /\ F!Nats(w, U) /\ F!Sum(w, U) \in Nat
    BY <2>3, GroupType
  <2>5. U = F!Fibre(g, G, a)
    BY <1>1, <1>2, <2>3 DEF GroupUtxos, Groups, F!Fibre
  <2>6. F!Ints(w, U) /\ F!SameOn(w, u, U)
    <3>1. F!Ints(w, U)
      BY <2>4 DEF F!Nats, F!Ints
    <3>2. ASSUME NEW ptr \in U PROVE w[ptr] = u[ptr]
      <4>1. ptr \in DOMAIN L.utxos
        BY <2>3 DEF GroupUtxos
      <4>2. u[ptr] = L.utxos[ptr].value
        BY <1>1, <4>1 DEF Values
      <4>3. w[ptr] = L.utxos[ptr].value
        BY <2>3 DEF GroupValues
      <4> QED BY <4>2, <4>3
    <3> QED BY <3>1, <3>2 DEF F!SameOn
  <2>7. F!Sum(w, U) = F!Sum(u, U)
    BY <2>4, <2>6, F!SumSame
  <2> QED BY <1>2, <2>1, <2>2, <2>3, <2>4, <2>5, <2>7
<1>8. F!MapsTo(g, G, A)
  BY <1>1, <1>2 DEF F!MapsTo, Groups, GroupOK
<1>9. F!Sum(r, A) = F!Sum(u, G)
  <2>1. F!FibreSums(r, u, g, G, A)
    BY <1>7 DEF F!FibreSums
  <2> QED BY <1>3, <1>4, <1>6, <1>8, <2>1, F!SumByFibres
<1>10. F!Nats(h, A) /\ F!Ints(r, A) /\ F!PlusOn(h, v, r, A)
  BY <1>7 DEF F!Nats, F!Ints, F!PlusOn
<1>11. F!Sum(h, A) = F!Sum(v, A) + F!Sum(r, A)
  BY <1>3, <1>5, <1>10, F!SumPlus
<1> QED BY <1>1, <1>5, <1>9, <1>10, <1>11

\* What those who delegate hold is staked or dangling.
LEMMA DelegatorsHold ==
    ASSUME NEW L, LedgerOK(L)
    PROVE  /\ Dangling(L) + get_total_stake(L) = F!Sum(Holdings(L), Delegators(L))
           /\ Dangling(L) \in Nat /\ get_total_stake(L) \in Nat
<1>1. PICK A, h, d, s : /\ A = Delegators(L) /\ h = Holdings(L)
                        /\ d = [a \in A |-> DanglingOf(L, a)]
                        /\ s = [a \in A |-> StakedBy(L, a)]
  OBVIOUS
<1>2. A \subseteq DOMAIN L.accounts /\ \A a \in A : L.accounts[a].delegation # <<>>
  BY <1>1 DEF Delegators
<1>3. F!IsFiniteSet(A)
  BY <1>2, F!FS_Subset DEF LedgerOK, AccountsOK, HasValues
<1>4. ASSUME NEW a \in A PROVE d[a] \in Nat /\ s[a] \in Nat /\ h[a] = d[a] + s[a]
  <2>1. /\ StakedBy(L, a) \in Nat /\ DanglingOf(L, a) \in Nat
        /\ HeldBy(L, a) = StakedBy(L, a) + DanglingOf(L, a)
    BY <1>2, HeldIsSplit
  <2>2. d[a] = DanglingOf(L, a) /\ s[a] = StakedBy(L, a) /\ h[a] = HeldBy(L, a)
    BY <1>1, <1>2 DEF Holdings
  <2> QED BY <2>1, <2>2
<1>5. F!Nats(d, A) /\ F!Ints(d, A) /\ F!Ints(s, A) /\ F!PlusOn(h, d, s, A)
  BY <1>4 DEF F!Nats, F!Ints, F!PlusOn
<1>6. F!Sum(h, A) = F!Sum(d, A) + F!Sum(s, A)
  BY <1>3, <1>5, F!SumPlus
<1>7. get_total_stake(L) = F!Sum(s, A)
  BY <1>1, TotalStakeIsStaked
<1>8. Dangling(L) = F!Sum(d, A)
  <2>1. DOMAIN d = A
    BY <1>1
  <2> QED BY <1>1, <2>1, SumOfFunction DEF Dangling, Delegators
<1>9. F!Sum(d, A) \in Nat
  BY <1>3, <1>5, F!SumIsNat
<1> QED BY <1>1, <1>6, <1>7, <1>8, <1>9, TotalStakeType

\* Everything is assigned to a pool, dangling or unassigned, and only once.
LEMMA StakeIsAccounted ==
    ASSUME NEW L, LedgerOK(L), GroupOK(L)
    PROVE  Unassigned(L) + Dangling(L) + get_total_stake(L) = ValuesOf(L.utxos) + ValuesOf(L.accounts)
<1>1. PICK A, B, h, u, S, G :
        /\ A = Delegators(L) /\ B = {b \in DOMAIN L.accounts : L.accounts[b].delegation = <<>>}
        /\ h = Holdings(L) /\ u = Values(L.utxos) /\ S = Singles(L) /\ G = Groups(L)
  OBVIOUS
<1>2. DOMAIN L.accounts = A \cup B /\ F!Disjoint(A, B) /\ A \subseteq DOMAIN L.accounts
      /\ B \subseteq DOMAIN L.accounts
  BY <1>1 DEF Delegators, F!Disjoint
<1>3. DOMAIN L.utxos = S \cup G /\ F!Disjoint(S, G) /\ S \subseteq DOMAIN L.utxos
      /\ G \subseteq DOMAIN L.utxos
  BY <1>1 DEF Singles, Groups, GroupOK, F!Disjoint
<1>4. F!IsFiniteSet(DOMAIN L.accounts) /\ F!IsFiniteSet(DOMAIN L.utxos)
  BY DEF LedgerOK, AccountsOK, HasValues
<1>5. F!IsFiniteSet(A) /\ F!IsFiniteSet(B) /\ F!IsFiniteSet(S) /\ F!IsFiniteSet(G)
  BY <1>2, <1>3, <1>4, F!FS_Subset
<1>6. F!Nats(h, DOMAIN L.accounts) /\ F!Sum(h, DOMAIN L.accounts) = ValuesOf(L.accounts) + F!Sum(u, G)
  BY <1>1, HoldingsAddUp
<1>7. F!Ints(h, A) /\ F!Ints(h, B) /\ F!Nats(h, B)
  BY <1>2, <1>6 DEF F!Nats, F!Ints
<1>8. F!Sum(h, A \cup B) = F!Sum(h, A) + F!Sum(h, B)
  BY <1>2, <1>5, <1>7, F!SumUnion
<1>9. F!Ints(u, DOMAIN L.utxos) /\ ValuesOf(L.utxos) = F!Sum(u, DOMAIN L.utxos)
  BY <1>1, ValuesType, ValuesAreSums DEF LedgerOK
<1>10. F!Ints(u, S) /\ F!Ints(u, G)
  BY <1>3, <1>9 DEF F!Ints
<1>11. F!Sum(u, S \cup G) = F!Sum(u, S) + F!Sum(u, G)
  BY <1>3, <1>5, <1>10, F!SumUnion
<1>12. Unassigned(L) = F!Sum(h, B) + F!Sum(u, S)
  <2>1. PICK x, y : x = [a \in B |-> HeldBy(L, a)] /\ y = [ptr \in S |-> L.utxos[ptr].value]
    OBVIOUS
  <2>2. Unassigned(L) = SumFunction(x) + SumFunction(y)
    BY <1>1, <2>1 DEF Unassigned, Singles
  <2>3. SumFunction(x) = F!Sum(x, B) /\ SumFunction(y) = F!Sum(y, S)
    BY <2>1, SumOfFunction
  <2>4. F!SameOn(h, x, B) /\ F!SameOn(u, y, S)
    BY <1>1, <1>2, <1>3, <2>1 DEF Holdings, Values, F!SameOn
  <2>5. F!Sum(h, B) = F!Sum(x, B) /\ F!Sum(u, S) = F!Sum(y, S)
    BY <1>5, <1>7, <1>10, <2>4, F!SumSame
  <2> QED BY <2>2, <2>3, <2>5
<1>13. Dangling(L) + get_total_stake(L) = F!Sum(h, A) /\ Dangling(L) \in Nat /\ get_total_stake(L) \in Nat
  BY <1>1, DelegatorsHold
<1>14. F!Sum(h, A) \in Int /\ F!Sum(h, B) \in Int /\ F!Sum(u, S) \in Int /\ F!Sum(u, G) \in Int
  BY <1>5, <1>7, <1>10, F!SumIsInt
<1>15. ValuesOf(L.accounts) \in Nat
  BY TotalType
<1>16. F!Sum(h, A) + F!Sum(h, B) = ValuesOf(L.accounts) + F!Sum(u, G)
  BY <1>2, <1>6, <1>8
<1>17. ValuesOf(L.utxos) = F!Sum(u, S) + F!Sum(u, G)
  BY <1>3, <1>9, <1>11
<1> QED BY <1>12, <1>13, <1>14, <1>15, <1>16, <1>17

-----------------------------------------------------------------------------
(* The account of a group output stays as long as the output. *)

\* M has the accounts of L, and no output that L has not.
Keeps(M, L) ==
    /\ DOMAIN L.accounts \subseteq DOMAIN M.accounts
    /\ DOMAIN M.utxos \subseteq DOMAIN L.utxos
    /\ \A ptr \in DOMAIN M.utxos : M.utxos[ptr] = L.utxos[ptr]

\* Group outputs keep their accounts if accounts stay and outputs only go.
LEMMA KeepsGroups == ASSUME NEW L, NEW M, GroupOK(L), Keeps(M, L) PROVE GroupOK(M)
BY DEF GroupOK, Keeps

\* Two steps that keep them.
LEMMA KeepsOn ==
    ASSUME NEW L, NEW M, NEW N, Keeps(M, L), Keeps(N, M) PROVE Keeps(N, L)
BY DEF Keeps

\* No step at all.
LEMMA KeepsSelf == ASSUME NEW L PROVE Keeps(L, L)
BY DEF Keeps

\* A spent output takes no account away.
LEMMA UtxoInputKeeps ==
    ASSUME NEW L, LedgerOK(L), NEW in, NEW M \in apply_input_to_utxo(L, in)
    PROVE  Keeps(M, L)
<1>1. PICK set : set = IF in.witness = "utxo" THEN "utxos" ELSE "oldutxos"
  OBVIOUS
<1>2. M = [L EXCEPT ![set] = Without(@, in.ptr)]
  BY <1>1 DEF apply_input_to_utxo
<1>3. PICK new : new = Without(L[set], in.ptr)
  OBVIOUS
<1>4. DOMAIN new \subseteq DOMAIN L[set] /\ \A ptr \in DOMAIN new : new[ptr] = L[set][ptr]
  BY <1>3 DEF Without
<1>5. CASE set = "utxos"
  <2>1. M.utxos = new /\ M.accounts = L.accounts
    BY <1>2, <1>3, <1>5 DEF LedgerOK, Fields
  <2> QED BY <1>4, <1>5, <2>1 DEF Keeps
<1>6. CASE set = "oldutxos"
  <2>1. M.utxos = L.utxos /\ M.accounts = L.accounts
    BY <1>2, <1>3, <1>6 DEF LedgerOK, Fields
  <2> QED BY <2>1 DEF Keeps
<1> QED BY <1>1, <1>5, <1>6

\* Only the accounts change, and none goes.
LEMMA AccountsGrow ==
    ASSUME NEW L, LedgerOK(L), NEW M, NEW new, M = [L EXCEPT !.accounts = new],
           DOMAIN L.accounts \subseteq DOMAIN new
    PROVE  Keeps(M, L) /\ M.accounts = new
<1>1. M.accounts = new /\ M.utxos = L.utxos
  BY DEF LedgerOK, Fields
<1> QED BY <1>1 DEF Keeps

\* An account that is emptied stays.
LEMMA AccountInputKeeps ==
    ASSUME NEW L, LedgerOK(L), NEW in, NEW M \in input_single_account_verify(L, in)
    PROVE  Keeps(M, L)
<1>1. M = [L EXCEPT !.accounts[in.id] = remove_value(@, in)]
  BY DEF input_single_account_verify
<1>2. PICK new : new = [L.accounts EXCEPT ![in.id] = remove_value(@, in)]
  OBVIOUS
<1>3. M = [L EXCEPT !.accounts = new] /\ DOMAIN new = DOMAIN L.accounts
  BY <1>1, <1>2
<1> QED BY <1>3, AccountsGrow

\* Delegating takes no account away.
LEMMA DelegationKeeps ==
    ASSUME NEW L, LedgerOK(L), NEW a, NEW delegation, NEW M \in set_delegation(L, a, delegation)
    PROVE  Keeps(M, L)
<1>1. M = [L EXCEPT !.accounts[a].delegation = delegation]
  BY DEF set_delegation
<1>2. PICK new : new = [L.accounts EXCEPT ![a].delegation = delegation]
  OBVIOUS
<1>3. M = [L EXCEPT !.accounts = new] /\ DOMAIN new = DOMAIN L.accounts
  BY <1>1, <1>2
<1> QED BY <1>3, AccountsGrow

\* Adding value makes the account if it is missing.
LEMMA AddKeeps ==
    ASSUME NEW L, LedgerOK(L), NEW a, NEW v, NEW M \in AddValueOrAccount(L, a, v)
    PROVE  Keeps(M, L) /\ a \in DOMAIN M.accounts
<1>1. CASE a \notin DOMAIN L.accounts
  <2>1. PICK new : new = With(L.accounts, a, NewAccount(v))
    OBVIOUS
  <2>2. M = [L EXCEPT !.accounts = new]
    BY <1>1, <2>1 DEF AddValueOrAccount
  <2>3. DOMAIN new = DOMAIN L.accounts \cup {a}
    BY <2>1 DEF With
  <2> QED BY <2>2, <2>3, AccountsGrow
<1>2. CASE a \in DOMAIN L.accounts
  <2>1. PICK new : new = [L.accounts EXCEPT ![a].value = @ + v]
    OBVIOUS
  <2>2. M = [L EXCEPT !.accounts[a].value = @ + v]
    BY <1>2 DEF AddValueOrAccount
  <2>3. M = [L EXCEPT !.accounts = new] /\ DOMAIN new = DOMAIN L.accounts
    BY <2>1, <2>2
  <2> QED BY <1>2, <2>3, AccountsGrow
<1> QED BY <1>1, <1>2

\* All inputs of a fragment.
LEMMA InputsKeep ==
    ASSUME NEW L, LedgerOK(L), NEW f \in Fragments, NEW M \in apply_tx_inputs(L, f)
    PROVE  Keeps(M, L)
<1>1. PICK seq : seq = Body[f].inputs
  OBVIOUS
<1>2. PICK T : seq \in Seq(T)
  BY <1>1, FragmentsAreRead DEF IsSequence
<1>3. \A i \in DOMAIN seq : seq[i].value \in Nat
  BY <1>1, FragmentsAreRead
<1>4. Len(seq) \in Nat /\ DOMAIN seq = 1 .. Len(seq)
  BY <1>2
<1>5. PICK g : In!IsLoop(g, {L}, seq, 0) /\ In!Fold({L}, seq, 0) = g[Len(seq)]
  BY <1>2, In!FoldIsLoop
<1> DEFINE S == {i \in Nat : i <= Len(seq) => \A N \in g[i] : LedgerOK(N) /\ Keeps(N, L)}
<1>6. 0 \in S
  <2>1. g[0] = {L}
    BY <1>5 DEF In!IsLoop
  <2> QED BY <2>1, KeepsSelf
<1>7. ASSUME NEW i \in Nat, 0 <= i, i < Len(seq), i \in S PROVE i + 1 \in S
  <2> SUFFICES ASSUME NEW N \in g[i + 1] PROVE LedgerOK(N) /\ Keeps(N, L)
    OBVIOUS
  <2>1. i + 1 \in 1 .. Len(seq) /\ i + 1 - 1 = i
    BY <1>4, <1>7
  <2>2. PICK in : in = seq[i + 1]
    OBVIOUS
  <2>3. in.value \in Nat
    BY <1>3, <1>4, <2>1, <2>2
  <2>4. g[i + 1] = TakeInputs(g[i], in, 0)
    BY <1>5, <2>1, <2>2 DEF In!IsLoop
  <2>5. PICK K \in g[i] : N \in TakeInput(K, in)
    BY <2>4 DEF TakeInputs, Then
  <2>6. LedgerOK(K) /\ Keeps(K, L)
    BY <1>7, <2>5
  <2>7. LedgerOK(N)
    BY <2>3, <2>5, <2>6, UtxoInputGains, AccountInputGains DEF TakeInput, Gains
  <2>8. Keeps(N, K)
    BY <2>5, <2>6, UtxoInputKeeps, AccountInputKeeps DEF TakeInput
  <2> QED BY <2>6, <2>7, <2>8, KeepsOn
<1>8. Len(seq) \in S
  <2> HIDE DEF S
  <2>1. \A i \in 0 .. Len(seq) : i \in S
    BY <1>4, <1>6, <1>7, F!IntervalInduction
  <2> QED BY <1>4, <2>1
<1>9. M \in g[Len(seq)]
  BY <1>1, <1>5, InputsAreLoop
<1> QED BY <1>4, <1>8, <1>9

\* After an output to a group address its account is there.
HasGroup(M, out) == out.address.kind = "group" => out.address.account \in DOMAIN M.accounts

\* An output to a group address makes the account.
LEMMA OutputKeeps ==
    ASSUME NEW L, LedgerOK(L), NEW out, NEW M \in AccountsAfterOutput(L, out)
    PROVE  Keeps(M, L) /\ HasGroup(M, out)
<1>1. CASE out.address.kind = "single"
  <2>1. M = L
    BY <1>1 DEF AccountsAfterOutput
  <2> QED BY <1>1, <2>1, KeepsSelf DEF HasGroup
<1>2. CASE out.address.kind = "group"
  <2>1. \/ M = L /\ out.address.account \in DOMAIN L.accounts
        \/ M \in AddValueOrAccount(L, out.address.account, 0)
    BY <1>2 DEF AccountsAfterOutput
  <2> QED BY <2>1, AddKeeps, KeepsSelf DEF HasGroup
<1>3. CASE out.address.kind = "account"
  <2>1. M \in AddValueOrAccount(L, out.address.account, out.value)
    BY <1>3 DEF AccountsAfterOutput
  <2> QED BY <1>3, <2>1, AddKeeps DEF HasGroup
<1>4. CASE out.address.kind \notin {"single", "group", "account"}
  BY <1>4 DEF AccountsAfterOutput
<1> QED BY <1>1, <1>2, <1>3, <1>4

\* So do all outputs of a fragment.
LEMMA CreditsKeep ==
    ASSUME NEW L, LedgerOK(L), NEW f \in Fragments, NEW M \in Out!Fold({L}, Body[f].outputs, 0)
    PROVE  /\ LedgerOK(M) /\ Keeps(M, L)
           /\ \A j \in DOMAIN Body[f].outputs : HasGroup(M, Body[f].outputs[j])
<1>1. PICK seq : seq = Body[f].outputs
  OBVIOUS
<1>2. PICK T : seq \in Seq(T)
  BY <1>1, OutputsType
<1>3. Len(seq) \in Nat /\ DOMAIN seq = 1 .. Len(seq) /\ \A i \in 1 .. Len(seq) : seq[i].value \in Nat
  BY <1>1, OutputsType
<1>4. PICK g : Out!IsLoop(g, {L}, seq, 0) /\ Out!Fold({L}, seq, 0) = g[Len(seq)]
  BY <1>2, Out!FoldIsLoop
<1> DEFINE S == {i \in Nat : i <= Len(seq) =>
                    \A N \in g[i] : /\ LedgerOK(N) /\ Keeps(N, L)
                                    /\ \A j \in 1 .. i : HasGroup(N, seq[j])}
<1>5. 0 \in S
  <2>1. g[0] = {L}
    BY <1>4 DEF Out!IsLoop
  <2> QED BY <2>1, KeepsSelf
<1>6. ASSUME NEW i \in Nat, 0 <= i, i < Len(seq), i \in S PROVE i + 1 \in S
  <2> SUFFICES ASSUME NEW N \in g[i + 1]
               PROVE  LedgerOK(N) /\ Keeps(N, L) /\ \A j \in 1 .. (i + 1) : HasGroup(N, seq[j])
    OBVIOUS
  <2>1. i + 1 \in 1 .. Len(seq) /\ i + 1 - 1 = i
    BY <1>3, <1>6
  <2>2. PICK out : out = seq[i + 1]
    OBVIOUS
  <2>3. out.value \in Nat
    BY <1>3, <2>1, <2>2
  <2>4. g[i + 1] = PutOutputs(g[i], out, 0)
    BY <1>4, <2>1, <2>2 DEF Out!IsLoop
  <2>5. PICK K \in g[i] : N \in AccountsAfterOutput(K, out)
    BY <2>4 DEF PutOutputs, Then
  <2>6. LedgerOK(K) /\ Keeps(K, L) /\ \A j \in 1 .. i : HasGroup(K, seq[j])
    BY <1>6, <2>5
  <2>7. LedgerOK(N)
    BY <2>3, <2>5, <2>6, OutputGains DEF Gains
  <2>8. Keeps(N, K) /\ HasGroup(N, out)
    BY <2>5, <2>6, OutputKeeps
  <2>9. ASSUME NEW j \in 1 .. (i + 1) PROVE HasGroup(N, seq[j])
    <3>1. CASE j = i + 1
      BY <2>2, <2>8, <3>1
    <3>2. CASE j \in 1 .. i
      <4>1. HasGroup(K, seq[j])
        BY <2>6, <3>2
      <4> QED BY <2>8, <4>1 DEF HasGroup, Keeps
    <3> QED BY <3>1, <3>2
  <2>10. Keeps(N, L)
    BY <2>6, <2>8, KeepsOn
  <2> QED BY <2>7, <2>9, <2>10
<1>7. Len(seq) \in S
  <2> HIDE DEF S
  <2>1. \A i \in 0 .. Len(seq) : i \in S
    BY <1>3, <1>5, <1>6, F!IntervalInduction
  <2> QED BY <1>3, <2>1
<1>8. M \in g[Len(seq)]
  BY <1>1, <1>4
<1> QED BY <1>1, <1>3, <1>7, <1>8

\* So the outputs a fragment adds have their accounts.
LEMMA OutputsKeepGroups ==
    ASSUME NEW L, LedgerOK(L), GroupOK(L), NEW f \in Fragments, NEW M \in apply_tx_outputs(L, f)
    PROVE  GroupOK(M)
<1>1. PICK K \in Out!Fold({L}, Body[f].outputs, 0) : M \in AddUtxos(K, f)
  BY OutputsAreLoop
<1>2. /\ LedgerOK(K) /\ Keeps(K, L)
      /\ \A j \in DOMAIN Body[f].outputs : HasGroup(K, Body[f].outputs[j])
  BY <1>1, CreditsKeep
<1>3. GroupOK(K)
  BY <1>2, KeepsGroups
<1>4. PICK old, more : old = K.utxos /\ more = NewUtxos(f)
  OBVIOUS
<1>5. PICK new : new = [ptr \in DOMAIN old \cup DOMAIN more |->
                            IF ptr \in DOMAIN old THEN old[ptr] ELSE more[ptr]]
  OBVIOUS
<1>6. M = [K EXCEPT !.utxos = new]
  BY <1>1, <1>4, <1>5 DEF AddUtxos
<1>7. M.utxos = new /\ M.accounts = K.accounts
  BY <1>2, <1>6 DEF LedgerOK, Fields
<1>8. ASSUME NEW ptr \in DOMAIN more
      PROVE  \/ more[ptr].address.kind = "single"
             \/ more[ptr].address.kind = "group" /\ more[ptr].address.account \in DOMAIN K.accounts
  <2>1. PICK j \in DOMAIN Body[f].outputs :
            ptr = <<f, j>> /\ Body[f].outputs[j].address.kind \in {"single", "group"}
    BY <1>4 DEF NewUtxos
  <2>2. more[ptr] = Body[f].outputs[j]
    BY <1>4, <2>1 DEF NewUtxos
  <2>3. HasGroup(K, Body[f].outputs[j])
    BY <1>2, <2>1
  <2> QED BY <2>1, <2>2, <2>3 DEF HasGroup
<1> QED BY <1>3, <1>4, <1>5, <1>7, <1>8 DEF GroupOK

\* What leaves outputs and accounts alone, or only adds to the accounts.
LEMMA SameGroups ==
    ASSUME NEW L, NEW M, M.utxos = L.utxos, DOMAIN L.accounts \subseteq DOMAIN M.accounts
    PROVE  Keeps(M, L)
BY DEF Keeps

\* No certificate takes an account away.
LEMMA CertificateKeeps ==
    ASSUME NEW L, LedgerOK(L), NEW f \in Fragments, NEW M \in ApplyCertificate(L, f)
    PROVE  Keeps(M, L)
<1>1. CASE Body[f].kind = "transaction"
  <2>1. M = L
    BY <1>1 DEF ApplyCertificate
  <2> QED BY <2>1, KeepsSelf
<1>2. CASE Body[f].kind = "owner_delegation"
  <2>1. M \in set_delegation(L, Body[f].inputs[1].id, Body[f].cert.delegation)
    BY <1>2 DEF ApplyCertificate, apply_owner_stake_delegation
  <2> QED BY <2>1, DelegationKeeps
<1>3. CASE Body[f].kind = "stake_delegation"
  <2>1. M \in set_delegation(L, Body[f].cert.account, Body[f].cert.delegation)
    BY <1>3 DEF ApplyCertificate, apply_stake_delegation
  <2> QED BY <2>1, DelegationKeeps
<1>4. CASE \E new : M = [L EXCEPT !.pools = new]
  <2>1. M.utxos = L.utxos /\ M.accounts = L.accounts
    BY <1>4 DEF LedgerOK, Fields
  <2> QED BY <2>1, SameGroups
<1>5. CASE Body[f].kind = "pool_registration"
  <2>1. M \in register_stake_pool(L, Body[f].cert.reg)
    BY <1>5 DEF ApplyCertificate, apply_pool_registration_signcheck, apply_pool_registration
  <2>2. M = [L EXCEPT !.pools = With(L.pools, Body[f].cert.reg, Body[f].cert.reg)]
    BY <2>1 DEF register_stake_pool
  <2> QED BY <1>4, <2>2
<1>6. CASE Body[f].kind = "pool_retirement"
  <2>1. M \in apply_pool_retirement(L, Body[f].cert)
    BY <1>6 DEF ApplyCertificate
  <2>2. M \in deregister_stake_pool(L, Body[f].cert.pool)
    BY <2>1 DEF apply_pool_retirement, Then
  <2>3. M = [L EXCEPT !.pools = Without(L.pools, Body[f].cert.pool)]
    BY <2>2 DEF deregister_stake_pool
  <2> QED BY <1>4, <2>3
<1>7. CASE Body[f].kind = "pool_update"
  <2>1. M \in apply_pool_update(L, Body[f].cert)
    BY <1>7 DEF ApplyCertificate
  <2>2. M = stake_pool_set_state(L, Body[f].cert.pool, Body[f].cert.new)
    BY <2>1 DEF apply_pool_update, Then
  <2>3. PICK new : new = [L.pools EXCEPT ![Body[f].cert.pool] = Body[f].cert.new]
    OBVIOUS
  <2>4. M = [L EXCEPT !.pools = new]
    BY <2>2, <2>3 DEF stake_pool_set_state
  <2> QED BY <1>4, <2>4
<1>8. CASE Body[f].kind \notin {"transaction", "owner_delegation", "stake_delegation",
                                "pool_registration", "pool_retirement", "pool_update"}
  BY <1>8 DEF ApplyCertificate
<1> QED BY <1>1, <1>2, <1>3, <1>5, <1>6, <1>7, <1>8

\* Nor does counting a fragment.
LEMMA AppliedKeeps ==
    ASSUME NEW L, LedgerOK(L), NEW f PROVE Keeps([L EXCEPT !.applied[f] = @ + 1], L)
<1>1. PICK M : M = [L EXCEPT !.applied[f] = @ + 1]
  OBVIOUS
<1>2. M.utxos = L.utxos /\ M.accounts = L.accounts
  BY <1>1 DEF LedgerOK, Fields
<1>3. Keeps(M, L)
  BY <1>2, SameGroups
<1> QED BY <1>1, <1>3

\* A fragment leaves every group output its account.
LEMMA FragmentKeepsGroups ==
    ASSUME NEW L, LedgerOK(L), GroupOK(L), NEW f \in Fragments, NEW date,
           NEW M \in apply_fragment(L, f, date)
    PROVE  GroupOK(M)
<1>1. PICK K, N : /\ K \in apply_transaction(L, f, date) /\ N \in ApplyCertificate(K, f)
                  /\ M = [N EXCEPT !.applied[f] = @ + 1]
  BY DEF apply_fragment, Then
<1>2. PICK I, O : /\ I \in apply_tx_inputs(L, f) /\ O \in apply_tx_outputs(I, f)
                  /\ K \in apply_tx_fee(O, f)
  BY <1>1 DEF apply_transaction, Then
<1>3. LedgerOK(I) /\ Keeps(I, L)
  BY <1>2, InputsKeep, InputsGain DEF Gains
<1>4. LedgerOK(O)
  BY <1>2, <1>3, OutputsGain DEF Gains
<1>5. LedgerOK(K)
  BY <1>2, <1>4, FeeGains DEF Gains
<1>6. LedgerOK(N)
  BY <1>1, <1>5, CertificateGains DEF Gains
<1>7. GroupOK(O)
  BY <1>2, <1>3, KeepsGroups, OutputsKeepGroups
<1>8. Keeps(K, O)
  <2>1. PICK fee : K = [O EXCEPT !.fees = @ + fee]
    BY <1>2 DEF apply_tx_fee, append_fees
  <2>2. K.utxos = O.utxos /\ K.accounts = O.accounts
    BY <1>4, <2>1 DEF LedgerOK, Fields
  <2> QED BY <2>2, SameGroups
<1>9. Keeps(N, K) /\ Keeps(M, N)
  BY <1>1, <1>5, <1>6, CertificateKeeps, AppliedKeeps
<1> QED BY <1>7, <1>8, <1>9, KeepsGroups

\* So does a fragment of block0.
LEMMA Block0KeepsGroups ==
    ASSUME NEW L, LedgerOK(L), GroupOK(L), NEW f \in Fragments, NEW M \in ApplyBlock0Fragment(L, f)
    PROVE  GroupOK(M)
<1>1. PICK N \in Block0Result(L, f) : M = [N EXCEPT !.applied[f] = @ + 1]
  BY Block0Steps
<1>2. GroupOK(N)
  <2>1. CASE N \in apply_old_declaration(L, f)
    <3>1. PICK new : N = [L EXCEPT !.oldutxos = new]
      BY <2>1 DEF apply_old_declaration
    <3>2. N.utxos = L.utxos /\ N.accounts = L.accounts
      BY <3>1 DEF LedgerOK, Fields
    <3> QED BY <3>2, SameGroups, KeepsGroups
  <2>2. CASE N \in apply_tx_outputs(L, f)
    BY <2>2, OutputsKeepGroups
  <2>3. CASE N \in apply_stake_delegation(L, Body[f].cert)
    <3>1. Keeps(N, L)
      BY <2>3, DelegationKeeps DEF apply_stake_delegation
    <3> QED BY <3>1, KeepsGroups
  <2>4. CASE N \in apply_pool_registration(L, Body[f].cert.reg)
    <3>1. N = [L EXCEPT !.pools = With(L.pools, Body[f].cert.reg, Body[f].cert.reg)]
      BY <2>4 DEF apply_pool_registration, register_stake_pool
    <3>2. N.utxos = L.utxos /\ N.accounts = L.accounts
      BY <3>1 DEF LedgerOK, Fields
    <3> QED BY <3>2, SameGroups, KeepsGroups
  <2> QED BY <1>1, <2>1, <2>2, <2>3, <2>4, Block0Kinds
<1>3. M.utxos = N.utxos /\ M.accounts = N.accounts
  <2>1. DOMAIN N = Fields
    BY <1>1, Block0FragmentOK DEF LedgerOK
  <2> QED BY <1>1, <2>1 DEF Fields
<1> QED BY <1>2, <1>3, SameGroups, KeepsGroups

\* So the first ledger has them.
LEMMA NewLedgerGroups == \A L \in NewLedger : GroupOK(L)
<1>1. Block0 \in Seq(Fragments)
  BY SettingsAreRead
<1>2. Len(Block0) \in Nat /\ \A i \in 1 .. Len(Block0) : Block0[i] \in Fragments
  BY <1>1
<1>3. PICK g : Start!IsLoop(g, {EmptyLedger}, Block0, 0) /\ Start!Fold({EmptyLedger}, Block0, 0) = g[Len(Block0)]
  BY <1>1, Start!FoldIsLoop
<1> DEFINE S == {i \in Nat : i <= Len(Block0) => \A L \in g[i] : LedgerOK(L) /\ GroupOK(L)}
<1>4. 0 \in S
  <2>1. g[0] = {EmptyLedger}
    BY <1>3 DEF Start!IsLoop
  <2>2. GroupOK(EmptyLedger)
    BY DEF GroupOK, EmptyLedger
  <2> QED BY <2>1, <2>2, EmptyOK
<1>5. ASSUME NEW i \in Nat, 0 <= i, i < Len(Block0), i \in S PROVE i + 1 \in S
  <2>1. i + 1 \in 1 .. Len(Block0) /\ i + 1 - 1 = i
    BY <1>2, <1>5
  <2>2. PICK f \in Fragments : f = Block0[i + 1]
    BY <1>2, <2>1
  <2>3. g[i + 1] = StartLedger(g[i], f, 0)
    BY <1>3, <2>1, <2>2 DEF Start!IsLoop
  <2>4. \A L \in g[i] : LedgerOK(L) /\ GroupOK(L)
    BY <1>2, <1>5
  <2>5. \A x \in g[i + 1] : \E K \in g[i] : x \in ApplyBlock0Fragment(K, f)
    BY <2>3 DEF StartLedger, Then
  <2>6. ASSUME NEW x \in g[i + 1] PROVE LedgerOK(x) /\ GroupOK(x)
    BY <2>4, <2>5, Block0FragmentOK, Block0KeepsGroups
  <2> QED BY <2>6
<1>6. \A L \in g[Len(Block0)] : GroupOK(L)
  <2>1. \A i \in 0 .. Len(Block0) : i \in S
    <3> HIDE DEF S
    <3> QED BY <1>2, <1>4, <1>5, F!IntervalInduction
  <2>2. Len(Block0) \in 0 .. Len(Block0) /\ Len(Block0) <= Len(Block0)
    BY <1>2
  <2> QED BY <2>1, <2>2
<1> QED BY <1>3, <1>6, Block0IsLoop

\* Rewards take no account away.
LEMMA PaidKeeps == ASSUME NEW L, LedgerOK(L) PROVE Keeps(Paid(L), L)
<1>1. PICK close : close = Closing(L)
  OBVIOUS
<1>2. PICK reward : reward = close.reward
  OBVIOUS
<1>3. PICK pools : pools = Sharing(L, reward)
  OBVIOUS
<1>4. PICK paid : paid = Payments(L, reward, pools)
  OBVIOUS
<1>5. PICK spill : spill = Spills(L, reward, pools, paid)
  OBVIOUS
<1>6. PICK A : A = UNION {DOMAIN paid[p].credits : p \in DOMAIN paid}
  OBVIOUS
<1>7. PICK new : new = [a \in DOMAIN L.accounts \cup A |->
                LET old == IF a \in DOMAIN L.accounts THEN L.accounts[a] ELSE NewAccount(0)
                IN [old EXCEPT !.value = @ + Credited(paid, a)]]
  OBVIOUS
<1>8. Paid(L) = [L EXCEPT !.rewards = @ - close.drawn, !.fees = 0, !.leaders_log = <<>>,
                     !.treasury = @ + close.treasury + SumFunction(spill) + (reward % LogTotal(L)),
                     !.accounts = new]
  BY <1>1, <1>2, <1>3, <1>4, <1>5, <1>6, <1>7
     DEF Paid, siphon_fees, Sharing, Payments, Spills
<1>9. PICK M : M = Paid(L)
  OBVIOUS
<1>10. M.utxos = L.utxos /\ M.accounts = new
  BY <1>8, <1>9 DEF LedgerOK, Fields
<1>11. DOMAIN L.accounts \subseteq DOMAIN new
  BY <1>7
<1> QED BY <1>9, <1>10, <1>11, SameGroups

StakeInv ==
    /\ ValueInv
    /\ GroupOK(ledger)
    /\ block # <<>> => GroupOK(block[1].ledger)

\* The invariant holds of the ledger of block0.
LEMMA InitGroups == Init => StakeInv
BY InitWorth, NewLedgerGroups DEF Init, StakeInv

\* StakeInv is inductive: one step for each action.
LEMMA StakeStep == StakeInv /\ [Next]_vars => StakeInv'
<1> SUFFICES ASSUME StakeInv, [Next]_vars PROVE StakeInv'
  OBVIOUS
<1>1. ValueInv /\ ValueInv'
  BY ValueStep DEF StakeInv
<1>2. LedgerOK(ledger) /\ GroupOK(ledger)
  BY DEF StakeInv, ValueInv, Worth
<1>3. block # <<>> => LedgerOK(block[1].ledger) /\ GroupOK(block[1].ledger)
  BY DEF StakeInv, ValueInv, Worth
<1> SUFFICES GroupOK(ledger') /\ (block' # <<>> => GroupOK(block'[1].ledger))
  BY <1>1 DEF StakeInv, GroupOK
<1>4. ASSUME NEW d \in Dates, begin_block(d)
      PROVE  GroupOK(ledger') /\ (block' # <<>> => GroupOK(block'[1].ledger))
  <2>1. ledger' = ledger
    BY <1>4 DEF begin_block
  <2>2. CASE block' = block
    BY <1>2, <1>3, <2>1, <2>2
  <2>3. CASE block' # block
    <3>1. PICK L : L = [ledger EXCEPT !.chain_length = @ + 1]
      OBVIOUS
    <3>2. block' = <<[ledger |-> L, date |-> d]>>
      BY <1>4, <2>3, <3>1 DEF begin_block
    <3>3. L.utxos = ledger.utxos /\ L.accounts = ledger.accounts
      BY <1>2, <3>1 DEF LedgerOK, Fields
    <3>4. GroupOK(L)
      BY <1>2, <3>3, SameGroups, KeepsGroups
    <3> QED BY <1>2, <2>1, <3>2, <3>4
  <2> QED BY <2>2, <2>3
<1>5. ASSUME NEW f \in Fragments, ApplyFragment(f)
      PROVE  GroupOK(ledger') /\ (block' # <<>> => GroupOK(block'[1].ledger))
  <2>1. PICK L \in apply_fragment(block[1].ledger, f, block[1].date) :
            block' = <<[block[1] EXCEPT !.ledger = L]>>
    BY <1>5 DEF ApplyFragment
  <2>2. block # <<>> /\ ledger' = ledger
    BY <1>5 DEF ApplyFragment
  <2>3. GroupOK(L)
    BY <1>3, <2>1, <2>2, FragmentKeepsGroups
  <2>4. DOMAIN block[1] = {"ledger", "date"}
    BY <1>1, <2>2 DEF ValueInv
  <2>5. block'[1].ledger = L
    BY <2>1, <2>4
  <2> QED BY <1>2, <2>2, <2>3, <2>5
<1>6. ASSUME NEW creator, finish(creator)
      PROVE  GroupOK(ledger') /\ (block' # <<>> => GroupOK(block'[1].ledger))
  <2>1. PICK L : L = block[1].ledger
    OBVIOUS
  <2>2. block # <<>> /\ block' = <<>>
    BY <1>6 DEF finish
  <2>3. PICK date, log : ledger' = [L EXCEPT !.date = date, !.leaders_log = log]
    BY <1>6, <2>1 DEF finish
  <2>4. PICK M : M = ledger'
    OBVIOUS
  <2>5. M.utxos = L.utxos /\ M.accounts = L.accounts
    BY <1>3, <2>1, <2>2, <2>3, <2>4 DEF LedgerOK, Fields
  <2>6. GroupOK(M)
    BY <1>3, <2>1, <2>2, <2>5, SameGroups, KeepsGroups
  <2> QED BY <2>2, <2>4, <2>6
<1>7. CASE DropBlock
  BY <1>2, <1>7 DEF DropBlock
<1>8. CASE distribute_rewards
  <2>1. block' = <<>>
    BY <1>8 DEF distribute_rewards
  <2>2. ledger' = ledger \/ ledger' = Paid(ledger)
    BY <1>8 DEF distribute_rewards
  <2>3. GroupOK(Paid(ledger))
    BY <1>2, PaidKeeps, KeepsGroups
  <2> QED BY <1>2, <2>1, <2>2, <2>3
<1>9. CASE UNCHANGED vars
  BY <1>2, <1>3, <1>9 DEF vars
<1> QED BY <1>4, <1>5, <1>6, <1>7, <1>8, <1>9 DEF Next

\* The invariant has the property.
LEMMA GroupsAreSound == StakeInv => DistributionSound
<1> SUFFICES ASSUME StakeInv, NEW L \in Ledgers
             PROVE  /\ \A ptr \in DOMAIN L.utxos :
                            L.utxos[ptr].address.kind = "group" =>
                                L.utxos[ptr].address.account \in DOMAIN L.accounts
                    /\ Unassigned(L) + Dangling(L) + get_total_stake(L)
                            = ValuesOf(L.utxos) + ValuesOf(L.accounts)
  BY DEF DistributionSound, GroupAccountsExist, StakeAccounted
<1>1. LedgerOK(L) /\ GroupOK(L)
  BY DEF StakeInv, ValueInv, Worth, Ledgers
<1>2. Unassigned(L) + Dangling(L) + get_total_stake(L) = ValuesOf(L.utxos) + ValuesOf(L.accounts)
  BY <1>1, StakeIsAccounted
<1> QED BY <1>1, <1>2 DEF GroupOK

\* The stake distribution (StakeDistribution, stake/distribution.rs) counts the
\* value of every output and every account exactly once, whatever the ratios of
\* the delegations, the remainders of their division and the pools that have
\* retired, and every output to a group address has an account to count it for.
THEOREM DistributionIsSound == Spec => []DistributionSound
<1>1. Spec => []StakeInv
  BY InitGroups, StakeStep, PTL DEF Spec
<1> QED BY <1>1, GroupsAreSound, PTL

-----------------------------------------------------------------------------
(* What operations leave alone. *)

\* A map is what it maps its domain to.
IsMap(f) == f = [x \in DOMAIN f |-> f[x]]

MapsOK(L) ==
    /\ IsMap(L) /\ IsMap(L.utxos) /\ IsMap(L.oldutxos) /\ IsMap(L.accounts)
    /\ IsMap(L.leaders_log) /\ IsMap(L.applied)

NextsOK(accounts) == \A a \in DOMAIN accounts : accounts[a].nexts \in [Lanes -> Nat]

Solid(L) ==
    /\ LedgerOK(L) /\ MapsOK(L) /\ NextsOK(L.accounts)
    /\ DOMAIN L.applied = Fragments /\ \A f \in Fragments : L.applied[f] \in Nat

\* An operation that spends nothing and adds no output.
Quiet(M, L) ==
    /\ Solid(M)
    /\ M.utxos = L.utxos /\ M.oldutxos = L.oldutxos /\ M.applied = L.applied
    /\ \A a \in DOMAIN L.accounts :
        a \in DOMAIN M.accounts /\ M.accounts[a].nexts = L.accounts[a].nexts

\* Two quiet operations.
LEMMA QuietOn ==
    ASSUME NEW L, NEW M, NEW N, Quiet(M, L), Quiet(N, M) PROVE Quiet(N, L)
BY DEF Quiet

\* So is what changes accounts and no counter.
LEMMA QuietAccounts ==
    ASSUME NEW L, Solid(L), NEW M, LedgerOK(M), NEW new, M = [L EXCEPT !.accounts = new],
           IsMap(new), NextsOK(new),
           \A a \in DOMAIN L.accounts : a \in DOMAIN new /\ new[a].nexts = L.accounts[a].nexts
    PROVE  Quiet(M, L)
<1>1. DOMAIN L = Fields
  BY DEF Solid, LedgerOK
<1>2. /\ M.accounts = new /\ M.utxos = L.utxos /\ M.oldutxos = L.oldutxos /\ M.applied = L.applied
      /\ M.leaders_log = L.leaders_log
  BY <1>1 DEF Fields
<1>3. IsMap(M)
  BY DEF IsMap
<1>4. MapsOK(M)
  BY <1>2, <1>3 DEF Solid, MapsOK
<1> QED BY <1>2, <1>4 DEF Quiet, Solid

\* What a map is changed to is a map.
LEMMA WithIsMap == \A f, x, v : IsMap(With(f, x, v)) /\ IsMap(Without(f, x))
BY DEF IsMap, With, Without

\* So is a map with one new value.
LEMMA ExceptIsMap == \A f, x, v : IsMap([f EXCEPT ![x] = v])
BY DEF IsMap

\* Nothing at all is quiet.
LEMMA QuietSelf == ASSUME NEW L, Solid(L) PROVE Quiet(L, L)
BY DEF Quiet

\* So is what leaves outputs, accounts and the history alone.
LEMMA QuietRest ==
    ASSUME NEW L, Solid(L), NEW M, LedgerOK(M), IsMap(M), IsMap(M.leaders_log),
           M.utxos = L.utxos, M.oldutxos = L.oldutxos, M.accounts = L.accounts,
           M.applied = L.applied
    PROVE  Quiet(M, L)
<1>1. MapsOK(M)
  BY DEF Solid, MapsOK
<1> QED BY <1>1 DEF Quiet, Solid

\* An account starts with every counter at 0.
LEMMA NewNexts == ASSUME NEW v PROVE NewAccount(v).nexts \in [Lanes -> Nat]
BY DEF NewAccount

\* Adding value to an account leaves every counter alone.
LEMMA AddQuiet ==
    ASSUME NEW L, Solid(L), NEW a, NEW v \in Nat, NEW M \in AddValueOrAccount(L, a, v)
    PROVE  Quiet(M, L)
<1>1. LedgerOK(L) /\ NextsOK(L.accounts) /\ LedgerOK(M)
  BY AddGains DEF Solid, Gains
<1>2. CASE a \notin DOMAIN L.accounts
  <2>1. PICK new : new = With(L.accounts, a, NewAccount(v))
    OBVIOUS
  <2>2. M = [L EXCEPT !.accounts = new]
    BY <1>2, <2>1 DEF AddValueOrAccount
  <2>3. /\ DOMAIN new = DOMAIN L.accounts \cup {a} /\ new[a] = NewAccount(v)
        /\ \A b \in DOMAIN L.accounts : new[b] = L.accounts[b]
    BY <1>2, <2>1 DEF With
  <2>4. IsMap(new) /\ NextsOK(new)
    BY <1>1, <2>1, <2>3, WithIsMap, NewNexts DEF NextsOK
  <2> QED BY <1>1, <2>2, <2>3, <2>4, QuietAccounts
<1>3. CASE a \in DOMAIN L.accounts
  <2>1. PICK old : old = [L.accounts[a] EXCEPT !.value = @ + v]
    OBVIOUS
  <2>2. PICK new : new = [L.accounts EXCEPT ![a] = old]
    OBVIOUS
  <2>3. M = [L EXCEPT !.accounts = new]
    <3>1. M = [L EXCEPT !.accounts[a].value = @ + v]
      BY <1>3 DEF AddValueOrAccount
    <3> QED BY <2>1, <2>2, <3>1
  <2>4. old.nexts = L.accounts[a].nexts
    BY <1>1, <1>3, <2>1 DEF LedgerOK, AccountsOK
  <2>5. DOMAIN new = DOMAIN L.accounts /\ \A b \in DOMAIN L.accounts : new[b].nexts = L.accounts[b].nexts
    BY <1>3, <2>2, <2>4
  <2>6. IsMap(new) /\ NextsOK(new)
    BY <1>1, <2>2, <2>5, ExceptIsMap DEF NextsOK
  <2> QED BY <1>1, <2>3, <2>5, <2>6, QuietAccounts
<1> QED BY <1>2, <1>3

\* So does delegating.
LEMMA DelegationQuiet ==
    ASSUME NEW L, Solid(L), NEW a, NEW delegation \in DelegationTypes,
           NEW M \in set_delegation(L, a, delegation)
    PROVE  Quiet(M, L)
<1>1. LedgerOK(L) /\ NextsOK(L.accounts) /\ LedgerOK(M)
  BY DelegationGains DEF Solid, Gains
<1>2. a \in DOMAIN L.accounts
  BY DEF set_delegation
<1>3. PICK old : old = [L.accounts[a] EXCEPT !.delegation = delegation]
  OBVIOUS
<1>4. PICK new : new = [L.accounts EXCEPT ![a] = old]
  OBVIOUS
<1>5. M = [L EXCEPT !.accounts = new]
  <2>1. M = [L EXCEPT !.accounts[a].delegation = delegation]
    BY DEF set_delegation
  <2> QED BY <1>3, <1>4, <2>1
<1>6. old.nexts = L.accounts[a].nexts
  BY <1>1, <1>2, <1>3 DEF LedgerOK, AccountsOK
<1>7. DOMAIN new = DOMAIN L.accounts /\ \A b \in DOMAIN L.accounts : new[b].nexts = L.accounts[b].nexts
  BY <1>2, <1>4, <1>6
<1>8. IsMap(new) /\ NextsOK(new)
  BY <1>1, <1>4, <1>7, ExceptIsMap DEF NextsOK
<1> QED BY <1>1, <1>5, <1>7, <1>8, QuietAccounts

\* A credited output.  It is worth something.
LEMMA OutputQuiet ==
    ASSUME NEW L, Solid(L), NEW out, out.value \in Nat, NEW M \in AccountsAfterOutput(L, out)
    PROVE  Quiet(M, L) /\ out.value # 0
<1>1. out.value # 0
  BY DEF AccountsAfterOutput, valid_output_value
<1>2. CASE out.address.kind = "single"
  <2>1. M = L
    BY <1>2 DEF AccountsAfterOutput
  <2> QED BY <1>1, <2>1, QuietSelf
<1>3. CASE out.address.kind = "group"
  <2>1. M = L \/ M \in AddValueOrAccount(L, out.address.account, 0)
    BY <1>3 DEF AccountsAfterOutput
  <2> QED BY <1>1, <2>1, AddQuiet, QuietSelf
<1>4. CASE out.address.kind = "account"
  <2>1. M \in AddValueOrAccount(L, out.address.account, out.value)
    BY <1>4 DEF AccountsAfterOutput
  <2> QED BY <1>1, <2>1, AddQuiet
<1>5. CASE out.address.kind \notin {"single", "group", "account"}
  BY <1>5 DEF AccountsAfterOutput
<1> QED BY <1>2, <1>3, <1>4, <1>5

\* All outputs of a fragment, before they are added to the unspent ones.
LEMMA CreditsQuiet ==
    ASSUME NEW L, Solid(L), NEW f \in Fragments, NEW M \in Out!Fold({L}, Body[f].outputs, 0)
    PROVE  Quiet(M, L) /\ \A j \in DOMAIN Body[f].outputs : Body[f].outputs[j].value # 0
<1>1. PICK seq : seq = Body[f].outputs
  OBVIOUS
<1>2. PICK T : seq \in Seq(T)
  BY <1>1, OutputsType
<1>3. Len(seq) \in Nat /\ DOMAIN seq = 1 .. Len(seq) /\ \A i \in 1 .. Len(seq) : seq[i].value \in Nat
  BY <1>1, OutputsType
<1>4. PICK g : Out!IsLoop(g, {L}, seq, 0) /\ Out!Fold({L}, seq, 0) = g[Len(seq)]
  BY <1>2, Out!FoldIsLoop
<1> DEFINE S == {i \in Nat : i <= Len(seq) =>
                    \A N \in g[i] : Quiet(N, L) /\ \A j \in 1 .. i : seq[j].value # 0}
<1>5. 0 \in S
  <2>1. g[0] = {L}
    BY <1>4 DEF Out!IsLoop
  <2> QED BY <2>1, QuietSelf
<1>6. ASSUME NEW i \in Nat, 0 <= i, i < Len(seq), i \in S PROVE i + 1 \in S
  <2> SUFFICES ASSUME NEW N \in g[i + 1]
               PROVE  Quiet(N, L) /\ \A j \in 1 .. (i + 1) : seq[j].value # 0
    OBVIOUS
  <2>1. i + 1 \in 1 .. Len(seq) /\ i + 1 - 1 = i
    BY <1>3, <1>6
  <2>2. PICK out : out = seq[i + 1]
    OBVIOUS
  <2>3. out.value \in Nat
    BY <1>3, <2>1, <2>2
  <2>4. g[i + 1] = PutOutputs(g[i], out, 0)
    BY <1>4, <2>1, <2>2 DEF Out!IsLoop
  <2>5. PICK K \in g[i] : N \in AccountsAfterOutput(K, out)
    BY <2>4 DEF PutOutputs, Then
  <2>6. Quiet(K, L) /\ \A j \in 1 .. i : seq[j].value # 0
    BY <1>6, <2>5
  <2>7. Quiet(N, K) /\ out.value # 0
    BY <2>3, <2>5, <2>6, OutputQuiet DEF Quiet
  <2>8. ASSUME NEW j \in 1 .. (i + 1) PROVE seq[j].value # 0
    <3>1. CASE j = i + 1
      BY <2>2, <2>7, <3>1
    <3>2. CASE j \in 1 .. i
      BY <2>6, <3>2
    <3> QED BY <3>1, <3>2
  <2> QED BY <2>6, <2>7, <2>8, QuietOn
<1>7. Len(seq) \in S
  <2> HIDE DEF S
  <2>1. \A i \in 0 .. Len(seq) : i \in S
    BY <1>3, <1>5, <1>6, F!IntervalInduction
  <2> QED BY <1>3, <2>1
<1>8. M \in g[Len(seq)]
  BY <1>1, <1>4
<1> QED BY <1>1, <1>3, <1>7, <1>8

\* The fee.
LEMMA FeeQuiet ==
    ASSUME NEW L, Solid(L), NEW f \in Fragments, NEW M \in apply_tx_fee(L, f)
    PROVE  Quiet(M, L)
<1>1. LedgerOK(M) /\ LedgerOK(L)
  BY FeeGains DEF Solid, Gains
<1>2. PICK fee : M = [L EXCEPT !.fees = fee]
  BY DEF apply_tx_fee, append_fees
<1>3. /\ M.utxos = L.utxos /\ M.oldutxos = L.oldutxos /\ M.accounts = L.accounts
      /\ M.applied = L.applied /\ M.leaders_log = L.leaders_log
  BY <1>1, <1>2 DEF LedgerOK, Fields
<1>4. IsMap(M) /\ IsMap(M.leaders_log)
  BY <1>2, <1>3, ExceptIsMap DEF Solid, MapsOK
<1> QED BY <1>1, <1>3, <1>4, QuietRest

\* A change of the pools.
LEMMA PoolsQuiet ==
    ASSUME NEW L, Solid(L), NEW new, NEW M, M = [L EXCEPT !.pools = new], LedgerOK(M)
    PROVE  Quiet(M, L)
<1>1. LedgerOK(L)
  BY DEF Solid
<1>3. /\ M.utxos = L.utxos /\ M.oldutxos = L.oldutxos /\ M.accounts = L.accounts
      /\ M.applied = L.applied /\ M.leaders_log = L.leaders_log
  BY <1>1 DEF LedgerOK, Fields
<1>4. IsMap(M) /\ IsMap(M.leaders_log)
  BY <1>3, ExceptIsMap DEF Solid, MapsOK
<1> QED BY <1>3, <1>4, QuietRest

\* A certificate.
LEMMA CertificateQuiet ==
    ASSUME NEW L, Solid(L), NEW f \in Fragments, NEW M \in ApplyCertificate(L, f)
    PROVE  Quiet(M, L)
<1>0. LedgerOK(L) /\ LedgerOK(M)
  BY CertificateGains DEF Gains, Solid
<1>1. CASE Body[f].kind = "transaction"
  <2>1. M = L
    BY <1>1 DEF ApplyCertificate
  <2> QED BY <2>1, QuietSelf
<1>2. CASE Body[f].kind = "owner_delegation"
  <2>1. M \in set_delegation(L, Body[f].inputs[1].id, Body[f].cert.delegation)
    BY <1>2 DEF ApplyCertificate, apply_owner_stake_delegation
  <2>2. Body[f].cert.delegation \in DelegationTypes
    BY <1>2, FragmentsAreRead
  <2> QED BY <2>1, <2>2, DelegationQuiet
<1>3. CASE Body[f].kind = "stake_delegation"
  <2>1. M \in set_delegation(L, Body[f].cert.account, Body[f].cert.delegation)
    BY <1>3 DEF ApplyCertificate, apply_stake_delegation
  <2>2. Body[f].cert.delegation \in DelegationTypes
    BY <1>3, FragmentsAreRead
  <2> QED BY <2>1, <2>2, DelegationQuiet
<1>5. CASE Body[f].kind = "pool_registration"
  <2>1. M \in register_stake_pool(L, Body[f].cert.reg)
    BY <1>5 DEF ApplyCertificate, apply_pool_registration_signcheck, apply_pool_registration
  <2>2. M = [L EXCEPT !.pools = With(L.pools, Body[f].cert.reg, Body[f].cert.reg)]
    BY <2>1 DEF register_stake_pool
  <2> QED BY <1>0, <2>2, PoolsQuiet
<1>6. CASE Body[f].kind = "pool_retirement"
  <2>1. M \in apply_pool_retirement(L, Body[f].cert)
    BY <1>6 DEF ApplyCertificate
  <2>2. M \in deregister_stake_pool(L, Body[f].cert.pool)
    BY <2>1 DEF apply_pool_retirement, Then
  <2>3. M = [L EXCEPT !.pools = Without(L.pools, Body[f].cert.pool)]
    BY <2>2 DEF deregister_stake_pool
  <2> QED BY <1>0, <2>3, PoolsQuiet
<1>7. CASE Body[f].kind = "pool_update"
  <2>1. M \in apply_pool_update(L, Body[f].cert)
    BY <1>7 DEF ApplyCertificate
  <2>2. M = stake_pool_set_state(L, Body[f].cert.pool, Body[f].cert.new)
    BY <2>1 DEF apply_pool_update, Then
  <2>3. PICK new : new = [L.pools EXCEPT ![Body[f].cert.pool] = Body[f].cert.new]
    OBVIOUS
  <2>4. M = [L EXCEPT !.pools = new]
    BY <2>2, <2>3 DEF stake_pool_set_state
  <2> QED BY <1>0, <2>4, PoolsQuiet
<1>8. CASE Body[f].kind \notin {"transaction", "owner_delegation", "stake_delegation",
                                "pool_registration", "pool_retirement", "pool_update"}
  BY <1>8 DEF ApplyCertificate
<1> QED BY <1>1, <1>2, <1>3, <1>5, <1>6, <1>7, <1>8

\* So is the empty map.
LEMMA EmptyIsMap == IsMap(<<>>)
<1>1. <<>> = [x \in 1 .. 0 |-> 0]
  OBVIOUS
<1> QED BY <1>1 DEF IsMap

\* Rewards, which may make accounts.
LEMMA PaidQuiet ==
    ASSUME NEW L, Solid(L), LedgerOK(Paid(L)) PROVE Quiet(Paid(L), L)
<1>0. LedgerOK(L) /\ NextsOK(L.accounts)
  BY DEF Solid
<1>1. PICK close : close = Closing(L)
  OBVIOUS
<1>2. PICK reward : reward = close.reward
  OBVIOUS
<1>3. PICK pools : pools = Sharing(L, reward)
  OBVIOUS
<1>4. PICK paid : paid = Payments(L, reward, pools)
  OBVIOUS
<1>5. PICK spill : spill = Spills(L, reward, pools, paid)
  OBVIOUS
<1>6. PICK A : A = UNION {DOMAIN paid[p].credits : p \in DOMAIN paid}
  OBVIOUS
<1>7. PICK new : new = [a \in DOMAIN L.accounts \cup A |->
                LET old == IF a \in DOMAIN L.accounts THEN L.accounts[a] ELSE NewAccount(0)
                IN [old EXCEPT !.value = @ + Credited(paid, a)]]
  OBVIOUS
<1>8. Paid(L) = [L EXCEPT !.rewards = @ - close.drawn, !.fees = 0, !.leaders_log = <<>>,
                     !.treasury = @ + close.treasury + SumFunction(spill) + (reward % LogTotal(L)),
                     !.accounts = new]
  BY <1>1, <1>2, <1>3, <1>4, <1>5, <1>6, <1>7
     DEF Paid, siphon_fees, Sharing, Payments, Spills
<1>9. PICK M : M = Paid(L)
  OBVIOUS
<1>10. /\ M.utxos = L.utxos /\ M.oldutxos = L.oldutxos /\ M.accounts = new
       /\ M.applied = L.applied /\ M.leaders_log = <<>>
  BY <1>0, <1>8, <1>9 DEF LedgerOK, Fields
<1>11. ASSUME NEW a \in DOMAIN new
       PROVE  new[a].nexts = IF a \in DOMAIN L.accounts THEN L.accounts[a].nexts ELSE NewAccount(0).nexts
  <2>1. PICK old : old = IF a \in DOMAIN L.accounts THEN L.accounts[a] ELSE NewAccount(0)
    OBVIOUS
  <2>2. DOMAIN old = {"value", "nexts", "delegation"}
    BY <1>0, <2>1 DEF LedgerOK, AccountsOK, NewAccount
  <2>3. new[a] = [old EXCEPT !.value = @ + Credited(paid, a)]
    BY <1>7, <2>1
  <2>4. new[a].nexts = old.nexts
    BY <2>2, <2>3
  <2> QED BY <2>1, <2>4
<1>12. NextsOK(M.accounts)
  BY <1>0, <1>10, <1>11, NewNexts DEF NextsOK
<1>13. IsMap(new) /\ IsMap(<<>>) /\ IsMap(M)
  <2>1. IsMap(new)
    BY <1>7 DEF IsMap
  <2>2. IsMap(M)
    BY <1>8, <1>9 DEF IsMap
  <2> QED BY <2>1, <2>2, EmptyIsMap
<1>14. Solid(M)
  BY <1>9, <1>10, <1>12, <1>13 DEF Solid, MapsOK
<1>15. DOMAIN L.accounts \subseteq DOMAIN new
  BY <1>7
<1> QED BY <1>9, <1>10, <1>11, <1>14, <1>15 DEF Quiet

-----------------------------------------------------------------------------
(* What is spent stays spent. *)

\* M may have spent more than L.
Follows(M, L) ==
    /\ Solid(M)
    /\ DOMAIN M.utxos \subseteq DOMAIN L.utxos /\ DOMAIN M.oldutxos \subseteq DOMAIN L.oldutxos
    /\ M.applied = L.applied
    /\ \A a \in DOMAIN L.accounts :
        /\ a \in DOMAIN M.accounts
        /\ \A l \in Lanes : M.accounts[a].nexts[l] >= L.accounts[a].nexts[l]

IsInput(in) ==
    \/ in.from = "utxo"
    \/ in.lane \in Lanes /\ in.counter \in Nat /\ in.counter + 1 < CounterMod

\* What an input has spent is gone.
Used(L, in) ==
    IF in.from = "utxo"
    THEN in.ptr \notin DOMAIN L.utxos /\ in.ptr \notin DOMAIN L.oldutxos
    ELSE in.id \in DOMAIN L.accounts /\ in.counter < L.accounts[in.id].nexts[in.lane]

\* What an input can still spend.
Free(L, in) ==
    IF in.from = "utxo"
    THEN in.ptr \in DOMAIN L.utxos \/ in.ptr \in DOMAIN L.oldutxos
    ELSE in.id \in DOMAIN L.accounts /\ in.counter >= L.accounts[in.id].nexts[in.lane]

\* What is spent cannot be spent.
LEMMA UsedIsNotFree ==
    ASSUME NEW L, Solid(L), NEW in, IsInput(in), Used(L, in), Free(L, in) PROVE FALSE
<1>1. CASE in.from = "utxo"
  BY <1>1 DEF Used, Free
<1>2. CASE in.from # "utxo"
  <2>1. in.id \in DOMAIN L.accounts /\ in.lane \in Lanes /\ in.counter \in Nat
    BY <1>2 DEF Used, IsInput
  <2>2. L.accounts[in.id].nexts \in [Lanes -> Nat]
    BY <2>1 DEF Solid, NextsOK
  <2>3. L.accounts[in.id].nexts[in.lane] \in Nat
    BY <2>1, <2>2
  <2> QED BY <1>2, <2>1, <2>3 DEF Used, Free
<1> QED BY <1>1, <1>2

\* A quiet step spends nothing.
LEMMA QuietFollows == ASSUME NEW L, Solid(L), NEW M, Quiet(M, L) PROVE Follows(M, L)
<1>1. ASSUME NEW a \in DOMAIN L.accounts, NEW l \in Lanes
      PROVE  a \in DOMAIN M.accounts /\ M.accounts[a].nexts[l] >= L.accounts[a].nexts[l]
  <2>1. L.accounts[a].nexts \in [Lanes -> Nat] /\ a \in DOMAIN M.accounts
        /\ M.accounts[a].nexts = L.accounts[a].nexts
    BY DEF Quiet, Solid, NextsOK
  <2>2. L.accounts[a].nexts[l] \in Nat
    BY <2>1
  <2> QED BY <2>1, <2>2
<1>2. Solid(M) /\ M.utxos = L.utxos /\ M.oldutxos = L.oldutxos /\ M.applied = L.applied
      /\ \A a \in DOMAIN L.accounts : a \in DOMAIN M.accounts
  BY DEF Quiet
<1> QED BY <1>1, <1>2 DEF Follows

\* Two steps.
LEMMA FollowsOn ==
    ASSUME NEW L, Solid(L), NEW M, NEW N, Follows(M, L), Follows(N, M) PROVE Follows(N, L)
<1>1. ASSUME NEW a \in DOMAIN L.accounts, NEW l \in Lanes
      PROVE  a \in DOMAIN N.accounts /\ N.accounts[a].nexts[l] >= L.accounts[a].nexts[l]
  <2>1. a \in DOMAIN M.accounts /\ a \in DOMAIN N.accounts
    BY DEF Follows
  <2>2. /\ L.accounts[a].nexts \in [Lanes -> Nat] /\ M.accounts[a].nexts \in [Lanes -> Nat]
        /\ N.accounts[a].nexts \in [Lanes -> Nat]
    BY <2>1 DEF Follows, Solid, NextsOK
  <2>3. L.accounts[a].nexts[l] \in Nat /\ M.accounts[a].nexts[l] \in Nat /\ N.accounts[a].nexts[l] \in Nat
    BY <2>2
  <2>4. M.accounts[a].nexts[l] >= L.accounts[a].nexts[l] /\ N.accounts[a].nexts[l] >= M.accounts[a].nexts[l]
    BY <2>1 DEF Follows
  <2> QED BY <2>1, <2>3, <2>4
<1>2. /\ Solid(N) /\ DOMAIN N.utxos \subseteq DOMAIN L.utxos
      /\ DOMAIN N.oldutxos \subseteq DOMAIN L.oldutxos /\ N.applied = L.applied
      /\ \A a \in DOMAIN L.accounts : a \in DOMAIN N.accounts
  BY DEF Follows
<1> QED BY <1>1, <1>2 DEF Follows

\* What is spent stays spent.
LEMMA UsedStays ==
    ASSUME NEW L, Solid(L), NEW M, Follows(M, L), NEW in, IsInput(in), Used(L, in)
    PROVE  Used(M, in)
<1>1. CASE in.from = "utxo"
  BY <1>1 DEF Used, Follows
<1>2. CASE in.from # "utxo"
  <2>1. in.id \in DOMAIN L.accounts /\ in.lane \in Lanes /\ in.counter \in Nat
    BY <1>2 DEF Used, IsInput
  <2>2. in.id \in DOMAIN M.accounts
    BY <2>1 DEF Follows
  <2>3. L.accounts[in.id].nexts \in [Lanes -> Nat] /\ M.accounts[in.id].nexts \in [Lanes -> Nat]
    BY <2>1, <2>2 DEF Follows, Solid, NextsOK
  <2>4. L.accounts[in.id].nexts[in.lane] \in Nat /\ M.accounts[in.id].nexts[in.lane] \in Nat
    BY <2>1, <2>3
  <2>5. M.accounts[in.id].nexts[in.lane] >= L.accounts[in.id].nexts[in.lane]
    BY <2>1 DEF Follows
  <2>6. in.counter < L.accounts[in.id].nexts[in.lane]
    BY <1>2 DEF Used
  <2> QED BY <1>2, <2>1, <2>2, <2>4, <2>5, <2>6 DEF Used
<1> QED BY <1>1, <1>2

\* No pointer is both to an output of the new kind and to one of the old.
Apart(L) == \A ptr \in DOMAIN L.oldutxos : ptr \notin DOMAIN L.utxos

IsPtr(in, ptr) == in.from = "utxo" /\ in.ptr = ptr

\* M is L with one input spent.
Spends(M, L, in) ==
    /\ Follows(M, L) /\ DOMAIN M.accounts = DOMAIN L.accounts
    /\ Used(M, in) /\ Free(L, in)
    /\ \A ptr : ptr \in DOMAIN M.utxos <=> ptr \in DOMAIN L.utxos /\ ~IsPtr(in, ptr)

\* An output is spent once.
LEMMA UtxoInputSpends ==
    ASSUME NEW L, Solid(L), Apart(L), NEW in, in.value \in Nat, in.from = "utxo",
           NEW M \in apply_input_to_utxo(L, in)
    PROVE  Spends(M, L, in)
<1>1. PICK set : set = IF in.witness = "utxo" THEN "utxos" ELSE "oldutxos"
  OBVIOUS
<1>2. M = [L EXCEPT ![set] = Without(@, in.ptr)] /\ in.ptr \in DOMAIN L[set]
  BY <1>1 DEF apply_input_to_utxo
<1>3. PICK new : new = Without(L[set], in.ptr)
  OBVIOUS
<1>4. M = [L EXCEPT ![set] = new]
  BY <1>2, <1>3
<1>5. LedgerOK(M) /\ LedgerOK(L) /\ DOMAIN L = Fields
  BY UtxoInputGains DEF Gains, Solid, LedgerOK
<1>6. DOMAIN new = DOMAIN L[set] \ {in.ptr} /\ IsMap(new) /\ IsMap(M)
  BY <1>3, <1>4, WithIsMap, ExceptIsMap DEF Without
<1>7. set \in {"utxos", "oldutxos"} /\ M[set] = new /\ \A x \in Fields \ {set} : M[x] = L[x]
  BY <1>1, <1>4, <1>5 DEF Fields
<1>8. M.accounts = L.accounts /\ M.applied = L.applied /\ M.leaders_log = L.leaders_log
  BY <1>7 DEF Fields
<1>9. CASE set = "utxos"
  <2>1. M.utxos = new /\ M.oldutxos = L.oldutxos
    BY <1>7, <1>9 DEF Fields
  <2>2. Solid(M)
    BY <1>5, <1>6, <1>8, <2>1 DEF Solid, MapsOK
  <2>3. Follows(M, L)
    <3>1. ASSUME NEW a \in DOMAIN L.accounts, NEW l \in Lanes
          PROVE  M.accounts[a].nexts[l] >= L.accounts[a].nexts[l]
      <4>1. L.accounts[a].nexts \in [Lanes -> Nat]
        BY DEF Solid, NextsOK
      <4>2. L.accounts[a].nexts[l] \in Nat
        BY <4>1
      <4> QED BY <1>8, <4>2
    <3> QED BY <1>6, <1>8, <1>9, <2>1, <2>2, <3>1 DEF Follows
  <2>4. in.ptr \notin DOMAIN L.oldutxos
    BY <1>2, <1>9 DEF Apart
  <2> QED BY <1>2, <1>6, <1>8, <1>9, <2>1, <2>3, <2>4 DEF Spends, Used, Free, IsPtr
<1>10. CASE set = "oldutxos"
  <2>1. M.oldutxos = new /\ M.utxos = L.utxos
    BY <1>7, <1>10 DEF Fields
  <2>2. Solid(M)
    BY <1>5, <1>6, <1>8, <2>1 DEF Solid, MapsOK
  <2>3. Follows(M, L)
    <3>1. ASSUME NEW a \in DOMAIN L.accounts, NEW l \in Lanes
          PROVE  M.accounts[a].nexts[l] >= L.accounts[a].nexts[l]
      <4>1. L.accounts[a].nexts \in [Lanes -> Nat]
        BY DEF Solid, NextsOK
      <4>2. L.accounts[a].nexts[l] \in Nat
        BY <4>1
      <4> QED BY <1>8, <4>2
    <3> QED BY <1>6, <1>8, <1>10, <2>1, <2>2, <3>1 DEF Follows
  <2>4. in.ptr \notin DOMAIN L.utxos
    BY <1>2, <1>10 DEF Apart
  <2> QED BY <1>2, <1>6, <1>8, <1>10, <2>1, <2>3, <2>4 DEF Spends, Used, Free, IsPtr
<1> QED BY <1>7, <1>9, <1>10

\* A counter is used once.
LEMMA AccountInputSpends ==
    ASSUME NEW L, Solid(L), NEW in, in.value \in Nat, in.from # "utxo", IsInput(in),
           NEW M \in input_single_account_verify(L, in)
    PROVE  Spends(M, L, in)
<1>1. LedgerOK(M) /\ LedgerOK(L) /\ DOMAIN L = Fields
  BY AccountInputGains DEF Gains, Solid, LedgerOK
<1>2. PICK a, l, c : a = in.id /\ l = in.lane /\ c = in.counter
  OBVIOUS
<1>3. l \in Lanes /\ c \in Nat /\ c + 1 < CounterMod
  BY <1>2 DEF IsInput
<1>4. a \in DOMAIN L.accounts /\ L.accounts[a].nexts[l] = c
  BY <1>2 DEF input_single_account_verify
<1>5. PICK old : old = L.accounts[a]
  OBVIOUS
<1>6. DOMAIN old = {"value", "nexts", "delegation"} /\ old.nexts \in [Lanes -> Nat]
  BY <1>1, <1>4, <1>5 DEF LedgerOK, AccountsOK, Solid, NextsOK
<1>7. PICK next : next = remove_value(old, in)
  OBVIOUS
<1>8. PICK new : new = [L.accounts EXCEPT ![a] = next]
  OBVIOUS
<1>9. M = [L EXCEPT !.accounts = new]
  <2>1. M = [L EXCEPT !.accounts[a] = remove_value(@, in)]
    BY <1>2 DEF input_single_account_verify
  <2> QED BY <1>5, <1>7, <1>8, <2>1
<1>10. increment(c) = c + 1
  BY <1>3, SizesAreNaturals DEF increment
<1>11. next.nexts = [old.nexts EXCEPT ![l] = c + 1]
  <2>1. next = [old EXCEPT !.value = @ - in.value, !.nexts[l] = increment(@)]
    BY <1>2, <1>7 DEF remove_value
  <2>2. next.nexts = [old.nexts EXCEPT ![l] = increment(@)]
    BY <1>6, <2>1
  <2> QED BY <1>4, <1>5, <1>10, <2>2
<1>12. next.nexts \in [Lanes -> Nat] /\ next.nexts[l] = c + 1
       /\ \A k \in Lanes : next.nexts[k] >= old.nexts[k]
  BY <1>3, <1>4, <1>5, <1>6, <1>11
<1>13. DOMAIN new = DOMAIN L.accounts /\ \A b \in DOMAIN L.accounts : new[b] = IF b = a THEN next ELSE L.accounts[b]
  BY <1>8
<1>14. /\ M.accounts = new /\ M.utxos = L.utxos /\ M.oldutxos = L.oldutxos /\ M.applied = L.applied
       /\ M.leaders_log = L.leaders_log
  BY <1>1, <1>9 DEF Fields
<1>15. IsMap(new) /\ IsMap(M) /\ NextsOK(new)
  BY <1>8, <1>9, <1>12, <1>13, ExceptIsMap DEF Solid, NextsOK
<1>16. Solid(M)
  BY <1>1, <1>14, <1>15 DEF Solid, MapsOK
<1>17. ASSUME NEW b \in DOMAIN L.accounts, NEW k \in Lanes
       PROVE  new[b].nexts[k] >= L.accounts[b].nexts[k]
  <2>1. L.accounts[b].nexts \in [Lanes -> Nat]
    BY DEF Solid, NextsOK
  <2>2. L.accounts[b].nexts[k] \in Nat
    BY <2>1
  <2> QED BY <1>5, <1>12, <1>13, <2>2
<1>18. Follows(M, L)
  BY <1>13, <1>14, <1>16, <1>17 DEF Follows
<1>19. Used(M, in) /\ Free(L, in)
  BY <1>2, <1>3, <1>4, <1>12, <1>13, <1>14 DEF Used, Free
<1> QED BY <1>13, <1>14, <1>18, <1>19 DEF Spends, IsPtr

\* No fragment uses the last counter of a lane, after which a lane starts again.
CountersLast ==
    \A f \in Fragments : \A i \in DOMAIN Body[f].inputs :
        Body[f].inputs[i].from = "utxo" \/ Body[f].inputs[i].counter + 1 < CounterMod

\* M is L with the first i of some inputs spent.
SpendsTo(M, L, seq, i) ==
    /\ Follows(M, L) /\ DOMAIN M.accounts = DOMAIN L.accounts
    /\ \A j \in 1 .. i : Used(M, seq[j]) /\ Free(L, seq[j])
    /\ \A ptr : ptr \in DOMAIN M.utxos <=>
                ptr \in DOMAIN L.utxos /\ \A j \in 1 .. i : ~IsPtr(seq[j], ptr)

\* What is free after a step was free before it.
LEMMA WasFree ==
    ASSUME NEW L, Solid(L), NEW M, Follows(M, L), DOMAIN M.accounts = DOMAIN L.accounts,
           NEW in, IsInput(in), Free(M, in)
    PROVE  Free(L, in)
<1>1. CASE in.from = "utxo"
  BY <1>1 DEF Free, Follows
<1>2. CASE in.from # "utxo"
  <2>1. in.id \in DOMAIN L.accounts /\ in.id \in DOMAIN M.accounts /\ in.lane \in Lanes /\ in.counter \in Nat
    BY <1>2 DEF Free, IsInput
  <2>2. L.accounts[in.id].nexts \in [Lanes -> Nat] /\ M.accounts[in.id].nexts \in [Lanes -> Nat]
    BY <2>1 DEF Follows, Solid, NextsOK
  <2>3. L.accounts[in.id].nexts[in.lane] \in Nat /\ M.accounts[in.id].nexts[in.lane] \in Nat
    BY <2>1, <2>2
  <2>4. M.accounts[in.id].nexts[in.lane] >= L.accounts[in.id].nexts[in.lane]
    BY <2>1 DEF Follows
  <2>5. in.counter >= M.accounts[in.id].nexts[in.lane]
    BY <1>2 DEF Free
  <2> QED BY <1>2, <2>1, <2>3, <2>4, <2>5 DEF Free
<1> QED BY <1>1, <1>2

\* One more input.
LEMMA SpendsOneMore ==
    ASSUME NEW L, Solid(L), NEW K, NEW N, NEW seq, NEW i \in Nat,
           \A j \in 1 .. (i + 1) : IsInput(seq[j]),
           SpendsTo(K, L, seq, i), Spends(N, K, seq[i + 1])
    PROVE  SpendsTo(N, L, seq, i + 1)
<1>1. Solid(K) /\ Follows(K, L) /\ Follows(N, K) /\ DOMAIN N.accounts = DOMAIN L.accounts
  BY DEF SpendsTo, Spends, Follows
<1>2. Follows(N, L)
  BY <1>1, FollowsOn
<1>3. i + 1 \in 1 .. (i + 1) /\ \A j \in 1 .. (i + 1) : j = i + 1 \/ j \in 1 .. i
  OBVIOUS
<1>4. ASSUME NEW j \in 1 .. (i + 1) PROVE Used(N, seq[j]) /\ Free(L, seq[j])
  <2>1. IsInput(seq[j])
    OBVIOUS
  <2>2. CASE j = i + 1
    <3>1. Used(N, seq[j]) /\ Free(K, seq[j])
      BY <2>2 DEF Spends
    <3> QED BY <1>1, <2>1, <3>1, WasFree DEF SpendsTo
  <2>3. CASE j \in 1 .. i
    <3>1. Used(K, seq[j]) /\ Free(L, seq[j])
      BY <2>3 DEF SpendsTo
    <3> QED BY <1>1, <2>1, <3>1, UsedStays
  <2> QED BY <1>3, <2>2, <2>3
<1>5. ASSUME NEW ptr
      PROVE  ptr \in DOMAIN N.utxos <=>
                ptr \in DOMAIN L.utxos /\ \A j \in 1 .. (i + 1) : ~IsPtr(seq[j], ptr)
  <2>1. ptr \in DOMAIN N.utxos <=> ptr \in DOMAIN K.utxos /\ ~IsPtr(seq[i + 1], ptr)
    BY DEF Spends
  <2>2. ptr \in DOMAIN K.utxos <=> ptr \in DOMAIN L.utxos /\ \A j \in 1 .. i : ~IsPtr(seq[j], ptr)
    BY DEF SpendsTo
  <2>3. \A j \in 1 .. i : j \in 1 .. (i + 1)
    OBVIOUS
  <2> QED BY <1>3, <2>1, <2>2, <2>3
<1> QED BY <1>1, <1>2, <1>4, <1>5 DEF SpendsTo

\* The inputs of a fragment are lists of inputs.
LEMMA InputsType ==
    ASSUME CountersLast, NEW f \in Fragments
    PROVE  /\ Len(Body[f].inputs) \in Nat /\ DOMAIN Body[f].inputs = 1 .. Len(Body[f].inputs)
           /\ \E T : Body[f].inputs \in Seq(T)
           /\ \A i \in 1 .. Len(Body[f].inputs) :
                Body[f].inputs[i].value \in Nat /\ IsInput(Body[f].inputs[i])
<1>1. PICK seq : seq = Body[f].inputs
  OBVIOUS
<1>2. PICK T : seq \in Seq(T)
  BY <1>1, FragmentsAreRead DEF IsSequence
<1>3. Len(seq) \in Nat /\ DOMAIN seq = 1 .. Len(seq)
  BY <1>2
<1>4. \A i \in DOMAIN seq : /\ seq[i].value \in Nat
                            /\ \/ seq[i].from = "utxo"
                               \/ seq[i].lane \in Lanes /\ seq[i].counter \in 0 .. CounterMod - 1
  BY <1>1, FragmentsAreRead
<1>5. \A i \in DOMAIN seq : seq[i].from = "utxo" \/ seq[i].counter + 1 < CounterMod
  BY <1>1 DEF CountersLast
<1>6. \A i \in DOMAIN seq : IsInput(seq[i])
  <2>1. 0 .. CounterMod - 1 \subseteq Nat
    BY SizesAreNaturals
  <2> QED BY <1>4, <1>5, <2>1 DEF IsInput
<1> QED BY <1>1, <1>2, <1>3, <1>4, <1>6

\* Nothing is spent before the first input.
LEMMA SpendsNone == ASSUME NEW L, Solid(L), NEW seq PROVE SpendsTo(L, L, seq, 0)
<1>1. Follows(L, L)
  BY QuietSelf, QuietFollows
<1>2. 1 .. 0 = {}
  OBVIOUS
<1> QED BY <1>1, <1>2 DEF SpendsTo

\* All inputs of a fragment are spent.
LEMMA InputsSpend ==
    ASSUME CountersLast, NEW L, Solid(L), Apart(L), NEW f \in Fragments, NEW M \in apply_tx_inputs(L, f)
    PROVE  SpendsTo(M, L, Body[f].inputs, Len(Body[f].inputs))
<1>1. PICK seq : seq = Body[f].inputs
  OBVIOUS
<1>2. PICK T : seq \in Seq(T)
  BY <1>1, InputsType
<1>3. /\ Len(seq) \in Nat /\ DOMAIN seq = 1 .. Len(seq)
      /\ \A i \in 1 .. Len(seq) : seq[i].value \in Nat /\ IsInput(seq[i])
  BY <1>1, InputsType
<1>5. PICK g : In!IsLoop(g, {L}, seq, 0) /\ In!Fold({L}, seq, 0) = g[Len(seq)]
  BY <1>2, In!FoldIsLoop
<1> DEFINE S == {i \in Nat : i <= Len(seq) => \A N \in g[i] : SpendsTo(N, L, seq, i)}
<1>6. 0 \in S
  <2>1. g[0] = {L}
    BY <1>5 DEF In!IsLoop
  <2> QED BY <2>1, SpendsNone
<1>7. ASSUME NEW i \in Nat, 0 <= i, i < Len(seq), i \in S PROVE i + 1 \in S
  <2> SUFFICES ASSUME NEW N \in g[i + 1] PROVE SpendsTo(N, L, seq, i + 1)
    OBVIOUS
  <2>1. i + 1 \in 1 .. Len(seq) /\ i + 1 - 1 = i /\ \A j \in 1 .. (i + 1) : j \in 1 .. Len(seq)
    BY <1>3, <1>7
  <2>2. PICK in : in = seq[i + 1]
    OBVIOUS
  <2>3. in.value \in Nat /\ IsInput(in)
    BY <1>3, <2>1, <2>2
  <2>4. g[i + 1] = TakeInputs(g[i], in, 0)
    BY <1>5, <2>1, <2>2 DEF In!IsLoop
  <2>5. PICK K \in g[i] : N \in TakeInput(K, in)
    BY <2>4 DEF TakeInputs, Then
  <2>6. SpendsTo(K, L, seq, i)
    BY <1>3, <1>7, <2>5
  <2>7. Solid(K) /\ Apart(K)
    BY <2>6 DEF SpendsTo, Follows, Apart
  <2>8. Spends(N, K, in)
    BY <2>3, <2>5, <2>7, UtxoInputSpends, AccountInputSpends DEF TakeInput
  <2>9. \A j \in 1 .. (i + 1) : IsInput(seq[j])
    BY <1>3, <2>1
  <2> QED BY <2>2, <2>6, <2>8, <2>9, SpendsOneMore
<1>8. Len(seq) \in S
  <2> HIDE DEF S
  <2>1. \A i \in 0 .. Len(seq) : i \in S
    BY <1>3, <1>6, <1>7, F!IntervalInduction
  <2> QED BY <1>3, <2>1
<1>9. M \in g[Len(seq)]
  BY <1>1, <1>5, InputsAreLoop
<1> QED BY <1>1, <1>3, <1>8, <1>9

-----------------------------------------------------------------------------
(* What the history of a chain says of its ledger. *)

Chain(L) == {f \in Fragments : L.applied[f] > 0}

IsOld(f) == Body[f].kind = "old_declaration"

Spent(L, ptr) ==
    \E f \in Chain(L) : \E i \in DOMAIN Body[f].inputs : IsPtr(Body[f].inputs[i], ptr)

Made(L, ptr) == \E f \in Chain(L) : ~IsOld(f) /\ ptr \in DOMAIN NewUtxos(f)

\* The unspent outputs are those that were made and not spent, the old ones were
\* declared, and whatever a fragment of the chain has spent was made and is gone.
History(L) ==
    /\ Solid(L)
    /\ \A ptr : ptr \in DOMAIN L.utxos <=> Made(L, ptr) /\ ~Spent(L, ptr)
    /\ \A ptr \in DOMAIN L.oldutxos :
        \E f \in Chain(L) : IsOld(f) /\ ptr \in DOMAIN NewUtxos(f)
    /\ \A f \in Chain(L) : \A i \in DOMAIN Body[f].inputs :
        /\ Used(L, Body[f].inputs[i])
        /\ Body[f].inputs[i].from = "utxo" =>
                \E g \in Chain(L) : Body[f].inputs[i].ptr \in DOMAIN NewUtxos(g)
    /\ \A f \in Fragments : Body[f].inputs # <<>> => L.applied[f] <= 1

\* An output belongs to one fragment.
LEMMA OneMaker ==
    ASSUME NEW f, NEW g, NEW ptr, ptr \in DOMAIN NewUtxos(f), ptr \in DOMAIN NewUtxos(g) PROVE f = g
BY DEF NewUtxos

\* So the two kinds of outputs are apart.
LEMMA HistoryApart == ASSUME NEW L, History(L) PROVE Apart(L)
BY OneMaker DEF History, Apart, Made

\* M is L with the outputs of a fragment added.
Puts(M, L, f) ==
    /\ Solid(M) /\ M.oldutxos = L.oldutxos /\ M.applied = L.applied
    /\ DOMAIN M.utxos = DOMAIN L.utxos \cup DOMAIN NewUtxos(f)
    /\ \A a \in DOMAIN L.accounts :
        a \in DOMAIN M.accounts /\ M.accounts[a].nexts = L.accounts[a].nexts

\* The unspent outputs of a fragment are added.
LEMMA AddUtxosPuts ==
    ASSUME NEW L, Solid(L), NEW f \in Fragments, NEW M \in AddUtxos(L, f)
    PROVE  Puts(M, L, f)
<1>1. PICK new : new = [ptr \in DOMAIN L.utxos \cup DOMAIN NewUtxos(f) |->
                            IF ptr \in DOMAIN L.utxos THEN L.utxos[ptr] ELSE NewUtxos(f)[ptr]]
  OBVIOUS
<1>2. M = [L EXCEPT !.utxos = new]
  BY <1>1 DEF AddUtxos
<1>3. DOMAIN new = DOMAIN L.utxos \cup DOMAIN NewUtxos(f) /\ IsMap(new)
  BY <1>1 DEF IsMap
<1>4. LedgerOK(M) /\ LedgerOK(L) /\ IsMap(M)
  BY <1>2, AddUtxosGains, ExceptIsMap DEF Gains, Solid
<1>5. /\ M.utxos = new /\ M.oldutxos = L.oldutxos /\ M.accounts = L.accounts
      /\ M.applied = L.applied /\ M.leaders_log = L.leaders_log
  BY <1>2, <1>4 DEF LedgerOK, Fields
<1>6. Solid(M)
  BY <1>3, <1>4, <1>5 DEF Solid, MapsOK
<1> QED BY <1>3, <1>5, <1>6 DEF Puts

\* All outputs of a fragment, each of which is worth something.
LEMMA OutputsPut ==
    ASSUME NEW L, Solid(L), NEW f \in Fragments, NEW M \in apply_tx_outputs(L, f)
    PROVE  Puts(M, L, f) /\ \A j \in DOMAIN Body[f].outputs : Body[f].outputs[j].value # 0
<1>1. PICK K \in Out!Fold({L}, Body[f].outputs, 0) : M \in AddUtxos(K, f)
  BY OutputsAreLoop
<1>2. Quiet(K, L) /\ \A j \in DOMAIN Body[f].outputs : Body[f].outputs[j].value # 0
  BY <1>1, CreditsQuiet
<1>3. Puts(M, K, f)
  BY <1>1, <1>2, AddUtxosPuts DEF Quiet
<1>4. Puts(M, L, f)
  BY <1>2, <1>3 DEF Puts, Quiet
<1> QED BY <1>2, <1>4

\* What is spent stays spent, if it is not made again.
LEMMA PutsUsed ==
    ASSUME NEW L, NEW M, NEW f, Puts(M, L, f), NEW in, Used(L, in),
           in.from = "utxo" => in.ptr \notin DOMAIN NewUtxos(f)
    PROVE  Used(M, in)
<1>1. CASE in.from = "utxo"
  BY <1>1 DEF Used, Puts
<1>2. CASE in.from # "utxo"
  BY <1>2 DEF Used, Puts
<1> QED BY <1>1, <1>2

\* A fragment that makes outputs spends something.
LEMMA MakerSpends ==
    ASSUME NEW f \in Fragments, StrictlyBalanced(f),
           \A j \in DOMAIN Body[f].outputs : Body[f].outputs[j].value # 0,
           Body[f].inputs = <<>>
    PROVE  DOMAIN NewUtxos(f) = {}
<1> SUFFICES ASSUME NEW j \in DOMAIN Body[f].outputs PROVE FALSE
  BY DEF NewUtxos
<1>1. PICK out, n : out = Body[f].outputs /\ n = Len(out)
  OBVIOUS
<1>2. n \in Nat /\ DOMAIN out = 1 .. n /\ \A i \in 1 .. n : out[i].value \in Nat
  BY <1>1, OutputsType
<1>3. F!IsFiniteSet(1 .. n)
  BY <1>2, F!FS_Interval
<1>4. HasValues(out)
  BY <1>2, <1>3 DEF HasValues
<1>5. PICK v : v = Values(out)
  OBVIOUS
<1>6. F!Nats(v, 1 .. n) /\ v[j] = out[j].value
  BY <1>1, <1>2, <1>5 DEF Values, F!Nats
<1>7. v[j] <= F!Sum(v, 1 .. n) /\ F!Sum(v, 1 .. n) \in Nat
  BY <1>1, <1>2, <1>3, <1>6, F!PartAtMostSum, F!SumIsNat
<1>8. ValuesOf(out) = F!Sum(v, 1 .. n)
  BY <1>2, <1>5, ValuesAreSums
<1>9. ValuesOf(<<>>) = 0
  <2>1. DOMAIN <<>> = {}
    OBVIOUS
  <2> QED BY <2>1, ValuesAreSums, F!SumEmpty
<1>10. 0 = ValuesOf(out) + calculate_fee(f) /\ calculate_fee(f) \in Nat
  BY <1>1, <1>9, FeeType DEF StrictlyBalanced
<1>11. out[j].value \in Nat /\ out[j].value # 0
  BY <1>1, <1>2
<1> QED BY <1>6, <1>7, <1>8, <1>10, <1>11

\* M is L with a fragment applied that is not yet in the history.
Applies(M, L, f) ==
    /\ Solid(M) /\ M.applied = L.applied
    /\ DOMAIN M.oldutxos \subseteq DOMAIN L.oldutxos
    /\ \A ptr : ptr \in DOMAIN M.utxos <=>
            \/ ptr \in DOMAIN NewUtxos(f)
            \/ /\ ptr \in DOMAIN L.utxos
               /\ \A j \in DOMAIN Body[f].inputs : ~IsPtr(Body[f].inputs[j], ptr)
    /\ \A in : IsInput(in) /\ Used(L, in) /\ (in.from = "utxo" => in.ptr \notin DOMAIN NewUtxos(f))
                => Used(M, in)
    /\ \A j \in DOMAIN Body[f].inputs :
        /\ Free(L, Body[f].inputs[j])
        /\ \/ Used(M, Body[f].inputs[j])
           \/ Body[f].inputs[j].from = "utxo" /\ Body[f].inputs[j].ptr \in DOMAIN NewUtxos(f)
    /\ DOMAIN NewUtxos(f) # {} => Body[f].inputs # <<>>

\* The history is told of a fragment.
Counts(M, L, f) == M = [L EXCEPT !.applied[f] = @ + 1]

\* What an application does, and a quiet step after it.
LEMMA AppliesQuiet ==
    ASSUME NEW L, NEW M, NEW N, NEW f, Applies(M, L, f), Quiet(N, M)
    PROVE  Applies(N, L, f)
<1>1. Solid(M) /\ Follows(N, M)
  BY QuietFollows DEF Applies
<1>2. \A in : Used(M, in) => Used(N, in)
  BY DEF Quiet, Used
<1> QED BY <1>1, <1>2 DEF Applies, Quiet

\* A fragment is applied.
LEMMA FragmentApplies ==
    ASSUME CountersLast, NEW L, History(L), NEW f \in Fragments, NEW date,
           NEW M \in apply_fragment(L, f, date)
    PROVE  /\ ~IsOld(f)
           /\ \E N : Applies(N, L, f) /\ Counts(M, N, f)
<1>0. ~IsOld(f)
  BY DEF apply_fragment, PreCheck, IsOld
<1>1. PICK K, N : /\ K \in apply_transaction(L, f, date) /\ N \in ApplyCertificate(K, f)
                  /\ M = [N EXCEPT !.applied[f] = @ + 1]
  BY DEF apply_fragment, Then
<1>2. PICK I, O : /\ I \in apply_tx_inputs(L, f) /\ O \in apply_tx_outputs(I, f)
                  /\ K \in apply_tx_fee(O, f)
  BY <1>1 DEF apply_transaction, Then
<1>3. StrictlyBalanced(f)
  BY <1>1 DEF apply_transaction
<1>4. PICK seq : seq = Body[f].inputs
  OBVIOUS
<1>5. /\ Len(seq) \in Nat /\ DOMAIN seq = 1 .. Len(seq)
      /\ \A i \in DOMAIN seq : IsInput(seq[i])
  BY <1>4, InputsType
<1>6. Solid(L) /\ Apart(L)
  BY HistoryApart DEF History
<1>7. SpendsTo(I, L, seq, Len(seq))
  BY <1>2, <1>4, <1>6, InputsSpend
<1>8. Solid(I) /\ Follows(I, L)
  BY <1>7 DEF SpendsTo, Follows
<1>9. Puts(O, I, f) /\ \A j \in DOMAIN Body[f].outputs : Body[f].outputs[j].value # 0
  BY <1>2, <1>8, OutputsPut
<1>10. DOMAIN NewUtxos(f) # {} => seq # <<>>
  BY <1>3, <1>4, <1>9, MakerSpends
<1>11. Applies(O, L, f)
  <2>1. Solid(O) /\ O.applied = L.applied /\ DOMAIN O.oldutxos \subseteq DOMAIN L.oldutxos
    BY <1>8, <1>9 DEF Puts, Follows
  <2>2. ASSUME NEW ptr
        PROVE  ptr \in DOMAIN O.utxos <=>
                    \/ ptr \in DOMAIN NewUtxos(f)
                    \/ /\ ptr \in DOMAIN L.utxos
                       /\ \A j \in DOMAIN seq : ~IsPtr(seq[j], ptr)
    BY <1>5, <1>7, <1>9 DEF SpendsTo, Puts
  <2>3. ASSUME NEW in, IsInput(in), Used(L, in), in.from = "utxo" => in.ptr \notin DOMAIN NewUtxos(f)
        PROVE  Used(O, in)
    <3>1. Used(I, in)
      BY <1>6, <1>8, <2>3, UsedStays
    <3> QED BY <1>9, <2>3, <3>1, PutsUsed
  <2>4. ASSUME NEW j \in DOMAIN seq
        PROVE  /\ Free(L, seq[j])
               /\ \/ Used(O, seq[j])
                  \/ seq[j].from = "utxo" /\ seq[j].ptr \in DOMAIN NewUtxos(f)
    <3>1. Used(I, seq[j]) /\ Free(L, seq[j])
      BY <1>5, <1>7 DEF SpendsTo
    <3> QED BY <1>9, <3>1, PutsUsed
  <2> QED BY <1>4, <1>10, <2>1, <2>2, <2>3, <2>4 DEF Applies
<1>12. Quiet(K, O)
  BY <1>2, <1>11, FeeQuiet DEF Applies
<1>13. Applies(K, L, f)
  BY <1>11, <1>12, AppliesQuiet
<1>14. Quiet(N, K)
  BY <1>1, <1>13, CertificateQuiet DEF Applies
<1>15. Applies(N, L, f)
  BY <1>13, <1>14, AppliesQuiet
<1> QED BY <1>0, <1>1, <1>15 DEF Counts

\* Counting a fragment changes nothing but its count.
LEMMA CountSolid ==
    ASSUME NEW L, Solid(L), NEW f \in Fragments, NEW M, Counts(M, L, f)
    PROVE  /\ Solid(M) /\ M.utxos = L.utxos /\ M.oldutxos = L.oldutxos /\ M.accounts = L.accounts
           /\ \A g \in Fragments : M.applied[g] = IF g = f THEN L.applied[f] + 1 ELSE L.applied[g]
           /\ Chain(M) = Chain(L) \cup {f}
<1>1. LedgerOK(L) /\ LedgerOK(M)
  BY AppliedGains DEF Solid, Gains, Counts
<1>2. PICK new : new = [L.applied EXCEPT ![f] = @ + 1]
  OBVIOUS
<1>3. M = [L EXCEPT !.applied = new]
  BY <1>2 DEF Counts
<1>4. /\ M.applied = new /\ M.utxos = L.utxos /\ M.oldutxos = L.oldutxos
      /\ M.accounts = L.accounts /\ M.leaders_log = L.leaders_log
  BY <1>1, <1>3 DEF LedgerOK, Fields
<1>5. DOMAIN L.applied = Fragments /\ \A g \in Fragments : L.applied[g] \in Nat
  BY DEF Solid
<1>6. /\ DOMAIN new = Fragments
      /\ \A g \in Fragments : new[g] = IF g = f THEN L.applied[f] + 1 ELSE L.applied[g]
  BY <1>2, <1>5
<1>7. IsMap(M) /\ IsMap(new)
  <2>1. IsMap(M)
    BY <1>3, ExceptIsMap
  <2>2. IsMap(new)
    BY <1>2 DEF IsMap
  <2> QED BY <2>1, <2>2
<1>8. Solid(M)
  BY <1>1, <1>4, <1>5, <1>6, <1>7 DEF Solid, MapsOK
<1>9. Chain(M) = Chain(L) \cup {f}
  BY <1>4, <1>5, <1>6 DEF Chain
<1> QED BY <1>4, <1>6, <1>8, <1>9

\* A fragment with inputs was not on the chain, and what it spends was made there.
LEMMA FreshFragment ==
    ASSUME CountersLast, NEW L, History(L), NEW f \in Fragments, NEW N, Applies(N, L, f)
    PROVE  /\ Body[f].inputs # <<>> => f \notin Chain(L)
           /\ \A j \in DOMAIN Body[f].inputs : Body[f].inputs[j].from = "utxo" =>
                \E g \in Chain(L) : Body[f].inputs[j].ptr \in DOMAIN NewUtxos(g)
<1>1. PICK seq : seq = Body[f].inputs
  OBVIOUS
<1>2. /\ Len(seq) \in Nat /\ DOMAIN seq = 1 .. Len(seq) /\ \E T : seq \in Seq(T)
      /\ \A i \in DOMAIN seq : IsInput(seq[i])
  BY <1>1, InputsType
<1>3. ASSUME seq # <<>> PROVE f \notin Chain(L)
  <2>1. 1 \in DOMAIN seq
    BY <1>2, <1>3
  <2>2. Free(L, seq[1]) /\ IsInput(seq[1])
    BY <1>1, <1>2, <2>1 DEF Applies
  <2>3. ASSUME f \in Chain(L) PROVE FALSE
    <3>1. Used(L, seq[1]) /\ Solid(L)
      BY <1>1, <2>1, <2>3 DEF History
    <3> QED BY <2>2, <3>1, UsedIsNotFree
  <2> QED BY <2>3
<1>4. ASSUME NEW j \in DOMAIN seq, seq[j].from = "utxo"
      PROVE  \E g \in Chain(L) : seq[j].ptr \in DOMAIN NewUtxos(g)
  <2>1. seq[j].ptr \in DOMAIN L.utxos \/ seq[j].ptr \in DOMAIN L.oldutxos
    BY <1>1, <1>4 DEF Applies, Free
  <2> QED BY <2>1 DEF History, Made
<1> QED BY <1>1, <1>3, <1>4

\* The history goes on with a fragment.
LEMMA HistoryGoesOn ==
    ASSUME CountersLast, NEW L, History(L), NEW f \in Fragments, ~IsOld(f), NEW N, Applies(N, L, f),
           NEW M, Counts(M, N, f)
    PROVE  History(M)
<1>1. /\ Solid(M) /\ M.utxos = N.utxos /\ M.oldutxos = N.oldutxos /\ M.accounts = N.accounts
      /\ \A g \in Fragments : M.applied[g] = IF g = f THEN N.applied[f] + 1 ELSE N.applied[g]
      /\ Chain(M) = Chain(N) \cup {f}
  <2>1. Solid(N)
    BY DEF Applies
  <2> QED BY <2>1, CountSolid
<1>2. N.applied = L.applied /\ Chain(M) = Chain(L) \cup {f}
  BY <1>1 DEF Applies, Chain
<1>3. ASSUME NEW in, Used(N, in) PROVE Used(M, in)
  BY <1>1, <1>3 DEF Used
<1>4. Body[f].inputs # <<>> => f \notin Chain(L)
  BY FreshFragment
<1>5. DOMAIN NewUtxos(f) # {} => f \notin Chain(L)
  BY <1>4 DEF Applies
<1>6. ASSUME NEW g \in Chain(M), NEW i \in DOMAIN Body[g].inputs, Body[g].inputs[i].from = "utxo"
      PROVE  /\ \E h \in Chain(L) : Body[g].inputs[i].ptr \in DOMAIN NewUtxos(h)
             /\ Body[g].inputs[i].ptr \notin DOMAIN NewUtxos(f)
  <2>1. PICK h \in Chain(L) : Body[g].inputs[i].ptr \in DOMAIN NewUtxos(h)
    <3>1. CASE g \in Chain(L)
      BY <1>6, <3>1 DEF History
    <3>2. CASE g = f
      BY <1>6, <3>2, FreshFragment
    <3> QED BY <1>2, <3>1, <3>2
  <2>2. ASSUME Body[g].inputs[i].ptr \in DOMAIN NewUtxos(f) PROVE FALSE
    <3>1. h = f
      BY <2>1, <2>2, OneMaker
    <3>2. f \notin Chain(L)
      BY <1>5, <2>2
    <3> QED BY <3>1, <3>2
  <2> QED BY <2>1, <2>2
<1>7. ASSUME NEW g \in Chain(M), NEW i \in DOMAIN Body[g].inputs PROVE Used(M, Body[g].inputs[i])
  <2>1. PICK in : in = Body[g].inputs[i]
    OBVIOUS
  <2>2. IsInput(in)
    <3>1. g \in Fragments
      BY DEF Chain
    <3> QED BY <2>1, <3>1, InputsType
  <2>3. in.from = "utxo" => in.ptr \notin DOMAIN NewUtxos(f)
    BY <1>6, <2>1
  <2>4. CASE g = f
    <3>1. Used(N, in)
      BY <2>1, <2>3, <2>4 DEF Applies
    <3> QED BY <1>3, <2>1, <3>1
  <2>5. CASE g \in Chain(L)
    <3>1. Used(L, in)
      BY <2>1, <2>5 DEF History
    <3>2. Used(N, in)
      BY <2>2, <2>3, <3>1 DEF Applies
    <3> QED BY <1>3, <2>1, <3>2
  <2> QED BY <1>2, <2>4, <2>5
<1>8. ASSUME NEW ptr \in DOMAIN M.oldutxos
      PROVE  \E g \in Chain(M) : IsOld(g) /\ ptr \in DOMAIN NewUtxos(g)
  <2>1. ptr \in DOMAIN L.oldutxos
    BY <1>1 DEF Applies
  <2>2. PICK g \in Chain(L) : IsOld(g) /\ ptr \in DOMAIN NewUtxos(g)
    BY <2>1 DEF History
  <2> QED BY <1>2, <2>2
<1>9. ASSUME NEW g \in Fragments, Body[g].inputs # <<>> PROVE M.applied[g] <= 1
  <2>1. CASE g = f
    <3>1. L.applied[f] \in Nat /\ ~(L.applied[f] > 0)
      BY <1>4, <1>9, <2>1 DEF History, Solid, Chain
    <3> QED BY <1>1, <1>2, <2>1, <3>1
  <2>2. CASE g # f
    BY <1>1, <1>2, <1>9, <2>2 DEF History
  <2> QED BY <2>1, <2>2
<1>10. ASSUME NEW ptr PROVE ptr \in DOMAIN M.utxos <=> Made(M, ptr) /\ ~Spent(M, ptr)
  <2>1. ptr \in DOMAIN M.utxos <=>
            \/ ptr \in DOMAIN NewUtxos(f)
            \/ /\ ptr \in DOMAIN L.utxos
               /\ \A j \in DOMAIN Body[f].inputs : ~IsPtr(Body[f].inputs[j], ptr)
    BY <1>1 DEF Applies
  <2>2. ptr \in DOMAIN L.utxos <=> Made(L, ptr) /\ ~Spent(L, ptr)
    BY DEF History
  <2>3. Made(M, ptr) <=> Made(L, ptr) \/ ptr \in DOMAIN NewUtxos(f)
    BY <1>2 DEF Made
  <2>4. Spent(M, ptr) <=> Spent(L, ptr) \/ \E j \in DOMAIN Body[f].inputs : IsPtr(Body[f].inputs[j], ptr)
    BY <1>2 DEF Spent
  <2>5. ptr \in DOMAIN NewUtxos(f) => ~Spent(M, ptr)
    BY <1>6 DEF Spent, IsPtr
  <2> QED BY <2>1, <2>2, <2>3, <2>4, <2>5
<1>11. \A g \in Chain(M) : \A i \in DOMAIN Body[g].inputs :
        /\ Used(M, Body[g].inputs[i])
        /\ Body[g].inputs[i].from = "utxo" =>
                \E h \in Chain(M) : Body[g].inputs[i].ptr \in DOMAIN NewUtxos(h)
  BY <1>2, <1>6, <1>7
<1> QED BY <1>1, <1>8, <1>9, <1>10, <1>11 DEF History

\* A fragment carries the history on.
LEMMA FragmentHistory ==
    ASSUME CountersLast, NEW L, History(L), NEW f \in Fragments, NEW date,
           NEW M \in apply_fragment(L, f, date)
    PROVE  History(M)
<1>1. PICK N : Applies(N, L, f) /\ Counts(M, N, f)
  BY FragmentApplies
<1> QED BY <1>1, FragmentApplies, HistoryGoesOn

\* A quiet step changes no history.
LEMMA QuietHistory ==
    ASSUME NEW L, History(L), NEW M, Quiet(M, L) PROVE History(M)
<1>1. Solid(M) /\ Chain(M) = Chain(L)
  BY DEF Quiet, Chain
<1>2. \A in : Used(L, in) => Used(M, in)
  BY DEF Quiet, Used
<1>3. \A ptr : (Made(M, ptr) <=> Made(L, ptr)) /\ (Spent(M, ptr) <=> Spent(L, ptr))
  BY <1>1 DEF Made, Spent
<1> QED BY <1>1, <1>2, <1>3 DEF History, Quiet

-----------------------------------------------------------------------------
(* Block0 makes outputs and spends none. *)

Young(L) ==
    /\ Solid(L)
    /\ \A f \in Chain(L) : Body[f].inputs = <<>>
    /\ \A ptr : ptr \in DOMAIN L.utxos <=> Made(L, ptr)
    /\ \A ptr \in DOMAIN L.oldutxos :
        \E f \in Chain(L) : IsOld(f) /\ ptr \in DOMAIN NewUtxos(f)

\* A ledger on which nothing was spent has a history.
LEMMA YoungHistory == ASSUME NEW L, Young(L) PROVE History(L)
<1>1. ASSUME NEW f \in Chain(L) PROVE DOMAIN Body[f].inputs = {}
  BY DEF Young
<1>2. \A ptr : ~Spent(L, ptr)
  BY <1>1 DEF Spent
<1>3. ASSUME NEW f \in Fragments, Body[f].inputs # <<>> PROVE L.applied[f] <= 1
  <2>1. f \notin Chain(L) /\ L.applied[f] \in Nat
    BY <1>3 DEF Young, Solid
  <2> QED BY <2>1 DEF Chain
<1> QED BY <1>1, <1>2, <1>3 DEF Young, History

\* A fragment of block0 has no inputs; its certificates have no outputs.
LEMMA Block0Inputs ==
    ASSUME NEW L, NEW f \in Fragments, NEW M \in Block0Result(L, f)
    PROVE  /\ Body[f].inputs = <<>>
           /\ Body[f].kind \in {"stake_delegation", "pool_registration"} => DOMAIN NewUtxos(f) = {}
<1>1. PICK ins, outs : ins = Body[f].inputs /\ outs = Body[f].outputs
  OBVIOUS
<1>2. ins \in Seq(ToSet(ins)) /\ outs \in Seq(ToSet(outs))
  BY <1>1, FragmentsAreRead DEF IsSequence
<1>3. (Len(ins) = 0 => ins = <<>>) /\ (Len(outs) = 0 => DOMAIN outs = {})
  BY <1>2
<1>4. CASE Body[f].kind = "old_declaration"
  BY <1>4, FragmentsAreRead
<1>5. CASE Body[f].kind = "transaction"
  <2>1. Len(ins) = 0
    BY <1>1, <1>5 DEF Block0Result, valid_block0_transaction_no_inputs
  <2> QED BY <1>1, <1>3, <1>5, <2>1
<1>6. CASE Body[f].kind \in {"stake_delegation", "pool_registration"}
  <2>1. Len(ins) = 0 /\ Len(outs) = 0
    BY <1>1, <1>6 DEF Block0Result, valid_block0_cert_transaction
  <2>2. DOMAIN NewUtxos(f) = {}
    BY <1>1, <1>3, <2>1 DEF NewUtxos
  <2> QED BY <1>1, <1>3, <2>1, <2>2
<1>7. CASE Body[f].kind \notin {"old_declaration", "transaction", "stake_delegation", "pool_registration"}
  BY <1>7 DEF Block0Result
<1> QED BY <1>4, <1>5, <1>6, <1>7

\* What a fragment of block0 adds.
LEMMA Block0Adds ==
    ASSUME NEW L, Solid(L), NEW f \in Fragments, NEW N \in Block0Result(L, f), LedgerOK(N)
    PROVE  /\ Solid(N) /\ N.applied = L.applied
           /\ DOMAIN N.utxos = IF IsOld(f) THEN DOMAIN L.utxos
                               ELSE DOMAIN L.utxos \cup DOMAIN NewUtxos(f)
           /\ DOMAIN N.oldutxos = IF IsOld(f) THEN DOMAIN L.oldutxos \cup DOMAIN NewUtxos(f)
                                  ELSE DOMAIN L.oldutxos
<1>1. CASE Body[f].kind = "old_declaration" /\ N \in apply_old_declaration(L, f)
  <2>1. PICK new : new = [ptr \in DOMAIN L.oldutxos \cup DOMAIN NewUtxos(f) |->
                              IF ptr \in DOMAIN L.oldutxos THEN L.oldutxos[ptr] ELSE NewUtxos(f)[ptr]]
    OBVIOUS
  <2>2. N = [L EXCEPT !.oldutxos = new]
    BY <1>1, <2>1 DEF apply_old_declaration
  <2>3. DOMAIN new = DOMAIN L.oldutxos \cup DOMAIN NewUtxos(f) /\ IsMap(new)
    BY <2>1 DEF IsMap
  <2>4. LedgerOK(L) /\ IsMap(N)
    BY <2>2, ExceptIsMap DEF Solid
  <2>5. /\ N.oldutxos = new /\ N.utxos = L.utxos /\ N.accounts = L.accounts
        /\ N.applied = L.applied /\ N.leaders_log = L.leaders_log
    BY <2>2, <2>4 DEF LedgerOK, Fields
  <2>6. Solid(N)
    BY <2>3, <2>4, <2>5 DEF Solid, MapsOK
  <2> QED BY <1>1, <2>3, <2>5, <2>6 DEF IsOld
<1>2. CASE Body[f].kind = "transaction" /\ N \in apply_tx_outputs(L, f)
  BY <1>2, OutputsPut DEF Puts, IsOld
<1>3. CASE Body[f].kind = "stake_delegation" /\ N \in apply_stake_delegation(L, Body[f].cert)
  <2>1. Body[f].cert.delegation \in DelegationTypes
    BY <1>3, FragmentsAreRead
  <2>2. Quiet(N, L)
    BY <1>3, <2>1, DelegationQuiet DEF apply_stake_delegation
  <2>3. DOMAIN NewUtxos(f) = {}
    BY <1>3, Block0Inputs
  <2> QED BY <1>3, <2>2, <2>3 DEF Quiet, IsOld
<1>4. CASE Body[f].kind = "pool_registration" /\ N \in apply_pool_registration(L, Body[f].cert.reg)
  <2>1. N = [L EXCEPT !.pools = With(L.pools, Body[f].cert.reg, Body[f].cert.reg)]
    BY <1>4 DEF apply_pool_registration, register_stake_pool
  <2>2. Quiet(N, L)
    BY <2>1, PoolsQuiet
  <2>3. DOMAIN NewUtxos(f) = {}
    BY <1>4, Block0Inputs
  <2> QED BY <1>4, <2>2, <2>3 DEF Quiet, IsOld
<1> QED BY <1>1, <1>2, <1>3, <1>4, Block0Kinds

\* A fragment of block0 spends nothing.
LEMMA Block0Young ==
    ASSUME NEW L, Young(L), NEW f \in Fragments, NEW M \in ApplyBlock0Fragment(L, f)
    PROVE  Young(M)
<1>1. PICK N \in Block0Result(L, f) : Counts(M, N, f)
  BY Block0Steps DEF Counts
<1>2. LedgerOK(N)
  <2>1. LedgerOK(L)
    BY DEF Young, Solid
  <2>2. CASE N \in apply_old_declaration(L, f)
    <3>1. PICK K : K = [N EXCEPT !.applied[f] = @ + 1]
      OBVIOUS
    <3>2. LedgerOK(K)
      BY <1>1, <2>1, <3>1, Block0Steps, Block0FragmentOK
    <3>3. PICK new : N = [L EXCEPT !.oldutxos = new]
      BY <2>2 DEF apply_old_declaration
    <3>4. DOMAIN N = Fields
      BY <2>1, <3>3 DEF LedgerOK
    <3>5. /\ K.utxos = N.utxos /\ K.oldutxos = N.oldutxos /\ K.accounts = N.accounts
          /\ K.pools = N.pools /\ K.leaders_log = N.leaders_log /\ K.fees = N.fees
          /\ K.rewards = N.rewards /\ K.treasury = N.treasury /\ K.date = N.date
      BY <3>1, <3>4 DEF Fields
    <3> QED BY <3>2, <3>4, <3>5 DEF LedgerOK
  <2>3. CASE N \in apply_tx_outputs(L, f)
    BY <2>1, <2>3, OutputsGain DEF Gains
  <2>4. CASE Body[f].kind = "stake_delegation" /\ N \in apply_stake_delegation(L, Body[f].cert)
    <3>1. Body[f].cert.delegation \in DelegationTypes
      BY <2>4, FragmentsAreRead
    <3> QED BY <2>1, <2>4, <3>1, DelegationGains DEF Gains, apply_stake_delegation
  <2>5. CASE Body[f].kind = "pool_registration" /\ N \in apply_pool_registration(L, Body[f].cert.reg)
    <3>1. Body[f].cert.reg \in Registrations
      BY <2>5, FragmentsAreRead
    <3> QED BY <2>1, <2>5, <3>1, RegistrationGains DEF Gains
  <2> QED BY <1>1, <2>2, <2>3, <2>4, <2>5, Block0Kinds
<1>3. /\ Solid(N) /\ N.applied = L.applied
      /\ DOMAIN N.utxos = IF IsOld(f) THEN DOMAIN L.utxos ELSE DOMAIN L.utxos \cup DOMAIN NewUtxos(f)
      /\ DOMAIN N.oldutxos = IF IsOld(f) THEN DOMAIN L.oldutxos \cup DOMAIN NewUtxos(f)
                             ELSE DOMAIN L.oldutxos
  BY <1>1, <1>2, Block0Adds DEF Young
<1>4. Solid(M) /\ M.utxos = N.utxos /\ M.oldutxos = N.oldutxos /\ Chain(M) = Chain(N) \cup {f}
  BY <1>1, <1>3, CountSolid
<1>5. Chain(N) = Chain(L)
  BY <1>3 DEF Chain
<1>6. Body[f].inputs = <<>>
  BY <1>1, Block0Inputs
<1>7. ASSUME NEW ptr PROVE ptr \in DOMAIN M.utxos <=> Made(M, ptr)
  <2>1. Made(M, ptr) <=> Made(L, ptr) \/ (~IsOld(f) /\ ptr \in DOMAIN NewUtxos(f))
    BY <1>4, <1>5 DEF Made
  <2> QED BY <1>3, <1>4, <2>1 DEF Young
<1>8. ASSUME NEW ptr \in DOMAIN M.oldutxos
      PROVE  \E g \in Chain(M) : IsOld(g) /\ ptr \in DOMAIN NewUtxos(g)
  BY <1>3, <1>4, <1>5 DEF Young
<1> QED BY <1>4, <1>5, <1>6, <1>7, <1>8 DEF Young

\* The empty ledger has no history.
LEMMA EmptyYoung == Young(EmptyLedger)
<1>1. LedgerOK(EmptyLedger)
  BY EmptyOK
<1>2. /\ EmptyLedger.utxos = <<>> /\ EmptyLedger.oldutxos = <<>> /\ EmptyLedger.accounts = <<>>
      /\ EmptyLedger.leaders_log = <<>> /\ EmptyLedger.applied = [f \in Fragments |-> 0]
  BY DEF EmptyLedger
<1>3. DOMAIN <<>> = {}
  OBVIOUS
<1>4. IsMap(EmptyLedger) /\ IsMap(EmptyLedger.applied)
  BY <1>2 DEF IsMap, EmptyLedger
<1>5. NextsOK(EmptyLedger.accounts)
  BY <1>2, <1>3 DEF NextsOK
<1>6. Solid(EmptyLedger)
  BY <1>1, <1>2, <1>4, <1>5, EmptyIsMap DEF Solid, MapsOK
<1>7. Chain(EmptyLedger) = {}
  BY <1>2 DEF Chain
<1>8. \A ptr : ~Made(EmptyLedger, ptr)
  BY <1>7 DEF Made
<1> QED BY <1>2, <1>3, <1>6, <1>7, <1>8 DEF Young

\* The first ledger has a history in which nothing is spent.
LEMMA NewLedgerHistory == \A L \in NewLedger : History(L)
<1>1. Block0 \in Seq(Fragments)
  BY SettingsAreRead
<1>2. Len(Block0) \in Nat /\ \A i \in 1 .. Len(Block0) : Block0[i] \in Fragments
  BY <1>1
<1>3. PICK g : Start!IsLoop(g, {EmptyLedger}, Block0, 0) /\ Start!Fold({EmptyLedger}, Block0, 0) = g[Len(Block0)]
  BY <1>1, Start!FoldIsLoop
<1> DEFINE S == {i \in Nat : i <= Len(Block0) => \A L \in g[i] : Young(L)}
<1>4. 0 \in S
  <2>1. g[0] = {EmptyLedger}
    BY <1>3 DEF Start!IsLoop
  <2> QED BY <2>1, EmptyYoung
<1>5. ASSUME NEW i \in Nat, 0 <= i, i < Len(Block0), i \in S PROVE i + 1 \in S
  <2>1. i + 1 \in 1 .. Len(Block0) /\ i + 1 - 1 = i
    BY <1>2, <1>5
  <2>2. PICK f \in Fragments : f = Block0[i + 1]
    BY <1>2, <2>1
  <2>3. g[i + 1] = StartLedger(g[i], f, 0)
    BY <1>3, <2>1, <2>2 DEF Start!IsLoop
  <2>4. \A L \in g[i] : Young(L)
    BY <1>2, <1>5
  <2>5. \A x \in g[i + 1] : \E K \in g[i] : x \in ApplyBlock0Fragment(K, f)
    BY <2>3 DEF StartLedger, Then
  <2>6. ASSUME NEW x \in g[i + 1] PROVE Young(x)
    BY <2>4, <2>5, Block0Young
  <2> QED BY <2>6
<1>6. \A L \in g[Len(Block0)] : Young(L)
  <2>1. \A i \in 0 .. Len(Block0) : i \in S
    <3> HIDE DEF S
    <3> QED BY <1>2, <1>4, <1>5, F!IntervalInduction
  <2>2. Len(Block0) \in 0 .. Len(Block0) /\ Len(Block0) <= Len(Block0)
    BY <1>2
  <2> QED BY <2>1, <2>2
<1> QED BY <1>3, <1>6, Block0IsLoop, YoungHistory

-----------------------------------------------------------------------------
(* The life of a ledger. *)

SpendInv ==
    /\ ValueInv
    /\ History(ledger)
    /\ block # <<>> => History(block[1].ledger)

\* The invariant holds of the ledger of block0.
LEMMA InitSpend == Init => SpendInv
BY InitWorth, NewLedgerHistory DEF Init, SpendInv

\* What becomes of the ledger and of the block in one step: quiet changes, or a
\* fragment that the block takes.  One step for each action.
Moves ==
    /\ \/ Quiet(ledger', ledger)
       \/ block # <<>> /\ Quiet(ledger', block[1].ledger)
    /\ \/ block' = <<>>
       \/ Quiet(block'[1].ledger, ledger)
       \/ block # <<>> /\ Quiet(block'[1].ledger, block[1].ledger)
       \/ /\ block # <<>>
          /\ \E f \in Fragments, date \in {block[1].date} :
                block'[1].ledger \in apply_fragment(block[1].ledger, f, date)

SolidInv ==
    /\ ValueInv
    /\ Solid(ledger)
    /\ block # <<>> => Solid(block[1].ledger)

\* Every step is such a move.
LEMMA StepMoves == SolidInv /\ [Next]_vars => Moves
<1> SUFFICES ASSUME SolidInv, [Next]_vars PROVE Moves
  OBVIOUS
<1>1. ValueInv /\ ValueInv'
  BY ValueStep DEF SolidInv
<1>2. LedgerOK(ledger) /\ Solid(ledger) /\ LedgerOK(ledger') /\ Quiet(ledger, ledger)
  BY <1>1, QuietSelf DEF SolidInv, ValueInv, Worth
<1>3. block # <<>> =>
        LedgerOK(block[1].ledger) /\ Solid(block[1].ledger) /\ Quiet(block[1].ledger, block[1].ledger)
  BY QuietSelf DEF SolidInv, ValueInv, Worth
<1>4. block' # <<>> => LedgerOK(block'[1].ledger)
  BY <1>1 DEF ValueInv, Worth
<1>5. ASSUME NEW d \in Dates, begin_block(d) PROVE Moves
  <2>1. ledger' = ledger
    BY <1>5 DEF begin_block
  <2>2. CASE block' = block
    BY <1>2, <1>3, <2>1, <2>2 DEF Moves
  <2>3. CASE block' # block
    <3>1. PICK L : L = [ledger EXCEPT !.chain_length = @ + 1]
      OBVIOUS
    <3>2. block' = <<[ledger |-> L, date |-> d]>>
      BY <1>5, <2>3, <3>1 DEF begin_block
    <3>3. LedgerOK(L)
      BY <1>4, <3>2
    <3>4. /\ L.utxos = ledger.utxos /\ L.oldutxos = ledger.oldutxos /\ L.accounts = ledger.accounts
          /\ L.applied = ledger.applied /\ L.leaders_log = ledger.leaders_log
      BY <1>2, <3>1 DEF LedgerOK, Fields
    <3>5. IsMap(L) /\ IsMap(L.leaders_log)
      BY <1>2, <3>1, <3>4, ExceptIsMap DEF Solid, MapsOK
    <3>6. Quiet(L, ledger)
      BY <1>2, <3>3, <3>4, <3>5, QuietRest
    <3> QED BY <1>2, <2>1, <3>2, <3>6 DEF Moves
  <2> QED BY <2>2, <2>3
<1>6. ASSUME NEW f \in Fragments, ApplyFragment(f) PROVE Moves
  <2>1. PICK L \in apply_fragment(block[1].ledger, f, block[1].date) :
            block' = <<[block[1] EXCEPT !.ledger = L]>>
    BY <1>6 DEF ApplyFragment
  <2>2. block # <<>> /\ ledger' = ledger
    BY <1>6 DEF ApplyFragment
  <2>4. DOMAIN block[1] = {"ledger", "date"}
    BY <1>1, <2>2 DEF ValueInv
  <2>5. block'[1].ledger = L
    BY <2>1, <2>4
  <2> QED BY <1>2, <2>1, <2>2, <2>5 DEF Moves
<1>7. ASSUME NEW creator, finish(creator) PROVE Moves
  <2>1. PICK L : L = block[1].ledger
    OBVIOUS
  <2>2. block # <<>> /\ block' = <<>>
    BY <1>7 DEF finish
  <2>3. LedgerOK(L) /\ Solid(L)
    BY <1>3, <2>1, <2>2
  <2>4. PICK log : log = IF creator = <<>> THEN L.leaders_log
                         ELSE With(L.leaders_log, creator[1],
                                   IF creator[1] \in DOMAIN L.leaders_log
                                   THEN L.leaders_log[creator[1]] + 1 ELSE 1)
    OBVIOUS
  <2>5. IsMap(log)
    <3>1. IsMap(L.leaders_log)
      BY <2>3 DEF Solid, MapsOK
    <3> QED BY <2>4, <3>1, WithIsMap
  <2>6. ledger' = [L EXCEPT !.date = block[1].date, !.leaders_log = log]
    BY <1>7, <2>1, <2>4 DEF finish
  <2>7. PICK M : M = ledger'
    OBVIOUS
  <2>8. /\ M.utxos = L.utxos /\ M.oldutxos = L.oldutxos /\ M.accounts = L.accounts
        /\ M.applied = L.applied /\ M.leaders_log = log
    BY <2>3, <2>6, <2>7 DEF LedgerOK, Fields
  <2>9. IsMap(M)
    BY <2>6, <2>7 DEF IsMap
  <2>10. LedgerOK(M)
    BY <1>2, <2>7
  <2>11. Quiet(M, L)
    BY <2>3, <2>5, <2>8, <2>9, <2>10, QuietRest
  <2> QED BY <2>1, <2>2, <2>7, <2>11 DEF Moves
<1>8. CASE DropBlock
  BY <1>2, <1>8 DEF DropBlock, Moves
<1>9. CASE distribute_rewards
  <2>1. block' = <<>>
    BY <1>9 DEF distribute_rewards
  <2>2. ledger' = ledger \/ ledger' = Paid(ledger)
    BY <1>9 DEF distribute_rewards
  <2>3. LedgerOK(Paid(ledger)) => Quiet(Paid(ledger), ledger)
    BY <1>2, PaidQuiet
  <2> QED BY <1>2, <2>1, <2>2, <2>3 DEF Moves
<1>10. CASE UNCHANGED vars
  BY <1>2, <1>3, <1>10 DEF vars, Moves
<1> QED BY <1>5, <1>6, <1>7, <1>8, <1>9, <1>10 DEF Next

\* SpendInv is inductive.
LEMMA SpendStep == CountersLast /\ SpendInv /\ [Next]_vars => SpendInv'
<1> SUFFICES ASSUME CountersLast, SpendInv, [Next]_vars PROVE SpendInv'
  OBVIOUS
<1>1. ValueInv' /\ History(ledger) /\ (block # <<>> => History(block[1].ledger))
  BY ValueStep DEF SpendInv
<1>2. SolidInv
  BY DEF SpendInv, SolidInv, History
<1>3. Moves
  BY <1>2, StepMoves
<1>4. History(ledger')
  BY <1>1, <1>3, QuietHistory DEF Moves
<1>5. block' # <<>> => History(block'[1].ledger)
  BY <1>1, <1>3, QuietHistory, FragmentHistory DEF Moves
<1>6. History(ledger)' <=> History(ledger')
  BY DEF History, Solid, MapsOK, NextsOK, LedgerOK, Made, Spent, Chain, Used
<1>7. History(block[1].ledger)' <=> History(block'[1].ledger)
  BY DEF History, Solid, MapsOK, NextsOK, LedgerOK, Made, Spent, Chain, Used
<1> QED BY <1>1, <1>4, <1>5, <1>6, <1>7 DEF SpendInv

\* A ledger with a history spends nothing twice.
LEMMA HistorySpends ==
    ASSUME SpendInv PROVE SpentOnce
<1>1. ASSUME NEW L \in Ledgers PROVE History(L)
  BY DEF SpendInv, ValueInv, Ledgers
<1>2. NoReplay
  BY <1>1 DEF NoReplay, History
<1>3. ASSUME NEW L \in Ledgers
      PROVE  LET chain == {f \in Fragments : L.applied[f] > 0}
                 taken(f) == {i \in DOMAIN Body[f].inputs : Body[f].inputs[i].from = "utxo"}
                 spent == UNION {{Body[f].inputs[i].ptr : i \in taken(f)} : f \in chain}
             IN  DOMAIN L.utxos = (UNION {DOMAIN NewUtxos(f) : f \in
                    {g \in chain : Body[g].kind # "old_declaration"}}) \ spent
  <2> DEFINE taken(f) == {i \in DOMAIN Body[f].inputs : Body[f].inputs[i].from = "utxo"}
             spent == UNION {{Body[f].inputs[i].ptr : i \in taken(f)} : f \in Chain(L)}
             made == UNION {DOMAIN NewUtxos(f) : f \in {g \in Chain(L) : ~IsOld(g)}}
  <2>1. \A ptr : ptr \in DOMAIN L.utxos <=> Made(L, ptr) /\ ~Spent(L, ptr)
    BY <1>1 DEF History
  <2>2. \A ptr : ptr \in spent <=> Spent(L, ptr)
    BY DEF Spent, IsPtr
  <2>3. \A ptr : ptr \in made <=> Made(L, ptr)
    BY DEF Made
  <2>4. DOMAIN L.utxos = made \ spent
    <3> HIDE DEF made, spent
    <3> QED BY <2>1, <2>2, <2>3
  <2> QED BY <2>4 DEF Chain, IsOld
<1>4. UtxosAreUnspent
  BY <1>3 DEF UtxosAreUnspent
<1> QED BY <1>2, <1>4 DEF SpentOnce

\* Nothing is spent twice, by any sequence of blocks, fragments, dropped blocks
\* and epochs: a fragment with inputs is on a chain at most once, and the unspent
\* outputs are exactly those that fragments of the chain made and none has spent
\* (utxo.rs, spending.rs, Ledger::apply_tx_inputs).  The counters of a lane start
\* again after the last one (SpendingCounterIncreasing::next_verify), so this
\* holds as long as no fragment uses it.
THEOREM NothingSpentTwice == ASSUME CountersLast PROVE Spec => []SpentOnce
<1>1. SpendInv /\ [Next]_vars => SpendInv'
  BY SpendStep
<1>2. SpendInv => SpentOnce
  BY HistorySpends
<1> QED BY InitSpend, <1>1, <1>2, PTL DEF Spec

-----------------------------------------------------------------------------
(* A ledger is rebuilt from its entries. *)

\* Sets that are finite for the sums are finite.
LEMMA FiniteIsFinite == \A S : F!IsFiniteSet(S) => IsFiniteSet(S)
BY DEF F!IsFiniteSet, IsFiniteSet

\* A list of a finite set has all of its elements.
LEMMA ListHasAll ==
    ASSUME NEW S, IsFiniteSet(S), NEW q, q = SetToSeq(S)
    PROVE  q \in Seq(S) /\ \A x \in S : \E i \in 1 .. Len(q) : q[i] = x
<1> DEFINE n == Cardinality(S)
           D == 1 .. n
<1>1. n \in Nat /\ ExistsBijection(D, S)
  BY FS_CardinalityType
<1>2. PICK b : b \in Injection(D, S)
  BY <1>1 DEF ExistsBijection, Bijection
<1>3. b \in [D -> S] /\ IsInjective(b)
  BY <1>2 DEF Injection
<1>4. q = CHOOSE f \in [D -> S] : IsInjective(f)
  BY DEF SetToSeq
<1>5. q \in [D -> S] /\ IsInjective(q)
  <2> HIDE DEF IsInjective, D
  <2> QED BY <1>3, <1>4
<1>6. q \in Seq(S) /\ Len(q) = n /\ DOMAIN q = D
  BY <1>1, <1>5
<1>7. q \in Surjection(D, S)
  <2>1. q \in Injection(D, S)
    BY <1>5 DEF Injection
  <2>2. Cardinality(D) = n
    BY <1>1, FS_Interval
  <2> HIDE DEF D
  <2> QED BY <2>1, <2>2, FS_Injection
<1>8. \A x \in S : \E i \in D : q[i] = x
  BY <1>7 DEF Surjection
<1> QED BY <1>6, <1>8

Has(q, e) == \E i \in 1 .. Len(q) : q[i] = e

\* Two lists in a row have what each has.
LEMMA HasBoth ==
    ASSUME NEW T, NEW p \in Seq(T), NEW q \in Seq(T)
    PROVE  p \o q \in Seq(T) /\ \A e : Has(p \o q, e) <=> Has(p, e) \/ Has(q, e)
<1>1. p \o q \in Seq(T) /\ Len(p \o q) = Len(p) + Len(q) /\ Len(p) \in Nat /\ Len(q) \in Nat
  OBVIOUS
<1>2. \A i \in 1 .. Len(p) : (p \o q)[i] = p[i] /\ i \in 1 .. Len(p \o q)
  BY <1>1
<1>3. \A i \in 1 .. Len(q) : (p \o q)[Len(p) + i] = q[i] /\ Len(p) + i \in 1 .. Len(p \o q)
  BY <1>1
<1>4. ASSUME NEW e, Has(p \o q, e) PROVE Has(p, e) \/ Has(q, e)
  <2>1. PICK i \in 1 .. Len(p \o q) : (p \o q)[i] = e
    BY <1>4 DEF Has
  <2>2. CASE i <= Len(p)
    <3>1. i \in 1 .. Len(p)
      BY <1>1, <2>2
    <3> QED BY <1>2, <2>1, <3>1 DEF Has
  <2>3. CASE ~(i <= Len(p))
    <3>1. i - Len(p) \in 1 .. Len(q) /\ Len(p) + (i - Len(p)) = i
      BY <1>1, <2>3
    <3>2. q[i - Len(p)] = e
      BY <1>3, <2>1, <3>1
    <3> QED BY <3>1, <3>2 DEF Has
  <2> QED BY <2>2, <2>3
<1>5. ASSUME NEW e, Has(p, e) \/ Has(q, e) PROVE Has(p \o q, e)
  BY <1>2, <1>3, <1>5 DEF Has
<1> QED BY <1>1, <1>4, <1>5

MapNames == {"utxos", "oldutxos", "accounts", "leaders_log"}

IsKey(e, kind, k) == e.kind = kind /\ e.key = k

\* What the list of entries of a ledger is made of.
IsEntry(L, e) ==
    \/ e.kind = "globals" /\ e.date = L.date /\ e.chain_length = L.chain_length
    \/ e.kind = "pots" /\ e.key \in PotNames /\ e.value = L[e.key]
    \/ e.kind = "pools"
    \/ e.kind \in MapNames /\ e.key \in DOMAIN L[e.kind] /\ e.value = L[e.kind][e.key]

\* Nothing of the ledger is left out of a list of entries.
Lists(q, L) ==
    /\ \A i \in 1 .. Len(q) : IsEntry(L, q[i])
    /\ \E i \in 1 .. Len(q) : q[i].kind = "globals"
    /\ \A n \in PotNames : \E i \in 1 .. Len(q) : IsKey(q[i], "pots", n)
    /\ \A x \in MapNames : \A k \in DOMAIN L[x] : \E i \in 1 .. Len(q) : IsKey(q[i], x, k)

\* A map has as many entries as keys.
LEMMA EntriesAreFinite ==
    ASSUME NEW kind, NEW f, F!IsFiniteSet(DOMAIN f)
    PROVE  IsFiniteSet(EntriesOf(kind, f))
<1>1. PICK h : h = [x \in DOMAIN f |-> [kind |-> kind, key |-> x, value |-> f[x]]]
  OBVIOUS
<1>2. F!FromOn(EntriesOf(kind, f), h, DOMAIN f)
  BY <1>1 DEF F!FromOn, EntriesOf
<1>3. F!IsFiniteSet(EntriesOf(kind, f))
  BY <1>2, F!FiniteValues
<1> QED BY <1>3, FiniteIsFinite

\* The list of a finite set has its elements and no other.
LEMMA ListHas ==
    ASSUME NEW S, IsFiniteSet(S), NEW T, S \subseteq T
    PROVE  SetToSeq(S) \in Seq(T) /\ \A e : Has(SetToSeq(S), e) <=> e \in S
<1>1. PICK q : q = SetToSeq(S)
  OBVIOUS
<1>2. q \in Seq(S) /\ \A e \in S : \E i \in 1 .. Len(q) : q[i] = e
  BY <1>1, ListHasAll
<1>3. q \in Seq(T) /\ \A i \in 1 .. Len(q) : q[i] \in S
  BY <1>2
<1> QED BY <1>1, <1>2, <1>3 DEF Has

Globals(L) == [kind |-> "globals", date |-> L.date, chain_length |-> L.chain_length]

\* What Ledger::iter goes through.
IterHas(L, e) ==
    \/ e = Globals(L)
    \/ e \in EntriesOf("utxos", L.utxos)
    \/ e \in EntriesOf("oldutxos", L.oldutxos)
    \/ e \in EntriesOf("accounts", L.accounts)
    \/ e \in EntriesOf("pools", L.pools)
    \/ e \in PotEntries(L)
    \/ e \in EntriesOf("leaders_log", L.leaders_log)

\* The list of entries is a list of these.
LEMMA IterIsList ==
    ASSUME NEW L, LedgerOK(L)
    PROVE  (\E T : Iter(L) \in Seq(T)) /\ \A e : Has(Iter(L), e) <=> IterHas(L, e)
<1>1. PICK g, e1, e2, e3, e4, e5, e6 :
        /\ g = Globals(L) /\ e1 = EntriesOf("utxos", L.utxos) /\ e2 = EntriesOf("oldutxos", L.oldutxos)
        /\ e3 = EntriesOf("accounts", L.accounts) /\ e4 = EntriesOf("pools", L.pools)
        /\ e5 = PotEntries(L) /\ e6 = EntriesOf("leaders_log", L.leaders_log)
  OBVIOUS
<1>2. PICK T : T = {g} \cup e1 \cup e2 \cup e3 \cup e4 \cup e5 \cup e6
  OBVIOUS
<1>3. IsFiniteSet(e1) /\ IsFiniteSet(e2) /\ IsFiniteSet(e3) /\ IsFiniteSet(e4) /\ IsFiniteSet(e6)
  BY <1>1, EntriesAreFinite DEF LedgerOK, HasValues, AccountsOK, PoolsOK, LogOK
<1>4. IsFiniteSet(e5)
  <2>1. PICK f : f = [n \in PotNames |-> L[n]]
    OBVIOUS
  <2>2. F!IsFiniteSet({"fees"} \cup {"treasury"} \cup {"rewards"})
    BY F!FS_Singleton, F!FS_Union
  <2>3. DOMAIN f = {"fees"} \cup {"treasury"} \cup {"rewards"}
    BY <2>1 DEF PotNames
  <2> QED BY <1>1, <2>1, <2>2, <2>3, EntriesAreFinite DEF PotEntries
<1>5. PICK q0, q1, q2, q3, q4, q5, q6 :
        /\ q0 = <<g>> /\ q1 = SetToSeq(e1) /\ q2 = SetToSeq(e2) /\ q3 = SetToSeq(e3)
        /\ q4 = SetToSeq(e4) /\ q5 = SetToSeq(e5) /\ q6 = SetToSeq(e6)
  OBVIOUS
<1>6. q0 \in Seq(T) /\ \A e : Has(q0, e) <=> e = g
  BY <1>2, <1>5 DEF Has
<1>7. /\ q1 \in Seq(T) /\ \A e : Has(q1, e) <=> e \in e1
      /\ q2 \in Seq(T) /\ \A e : Has(q2, e) <=> e \in e2
      /\ q3 \in Seq(T) /\ \A e : Has(q3, e) <=> e \in e3
  BY <1>2, <1>3, <1>5, ListHas
<1>8. /\ q4 \in Seq(T) /\ \A e : Has(q4, e) <=> e \in e4
      /\ q5 \in Seq(T) /\ \A e : Has(q5, e) <=> e \in e5
      /\ q6 \in Seq(T) /\ \A e : Has(q6, e) <=> e \in e6
  BY <1>2, <1>3, <1>4, <1>5, ListHas
<1>9. PICK p1, p2, p3, p4, p5, p6 :
        /\ p1 = q0 \o q1 /\ p2 = p1 \o q2 /\ p3 = p2 \o q3
        /\ p4 = p3 \o q4 /\ p5 = p4 \o q5 /\ p6 = p5 \o q6
  OBVIOUS
<1>10. p1 \in Seq(T) /\ \A e : Has(p1, e) <=> e = g \/ e \in e1
  BY <1>6, <1>7, <1>9, HasBoth
<1>11. p2 \in Seq(T) /\ \A e : Has(p2, e) <=> e = g \/ e \in e1 \/ e \in e2
  BY <1>7, <1>9, <1>10, HasBoth
<1>12. p3 \in Seq(T) /\ \A e : Has(p3, e) <=> e = g \/ e \in e1 \/ e \in e2 \/ e \in e3
  <2>1. p2 \o q3 \in Seq(T) /\ \A e : Has(p2 \o q3, e) <=> Has(p2, e) \/ Has(q3, e)
    BY <1>7, <1>11, HasBoth
  <2> QED BY <1>7, <1>9, <1>11, <2>1
<1>13. p4 \in Seq(T) /\ \A e : Has(p4, e) <=> e = g \/ e \in e1 \/ e \in e2 \/ e \in e3 \/ e \in e4
  <2>1. p3 \o q4 \in Seq(T) /\ \A e : Has(p3 \o q4, e) <=> Has(p3, e) \/ Has(q4, e)
    BY <1>8, <1>12, HasBoth
  <2> QED BY <1>8, <1>9, <1>12, <2>1
<1>14. p5 \in Seq(T) /\ \A e : Has(p5, e) <=>
            e = g \/ e \in e1 \/ e \in e2 \/ e \in e3 \/ e \in e4 \/ e \in e5
  <2>1. p4 \o q5 \in Seq(T) /\ \A e : Has(p4 \o q5, e) <=> Has(p4, e) \/ Has(q5, e)
    BY <1>8, <1>13, HasBoth
  <2> QED BY <1>8, <1>9, <1>13, <2>1
<1>15. p6 \in Seq(T) /\ \A e : Has(p6, e) <=>
            e = g \/ e \in e1 \/ e \in e2 \/ e \in e3 \/ e \in e4 \/ e \in e5 \/ e \in e6
  <2>1. p5 \o q6 \in Seq(T) /\ \A e : Has(p5 \o q6, e) <=> Has(p5, e) \/ Has(q6, e)
    BY <1>8, <1>14, HasBoth
  <2> QED BY <1>8, <1>9, <1>14, <2>1
<1>16. Iter(L) = p6
  BY <1>1, <1>5, <1>9 DEF Iter, Globals
<1> QED BY <1>1, <1>15, <1>16 DEF IterHas

\* So it lists the ledger.
LEMMA IterLists ==
    ASSUME NEW L, LedgerOK(L)
    PROVE  (\E T : Iter(L) \in Seq(T)) /\ Lists(Iter(L), L)
<1>1. PICK q : q = Iter(L)
  OBVIOUS
<1>2. (\E T : q \in Seq(T)) /\ \A e : Has(q, e) <=> IterHas(L, e)
  BY <1>1, IterIsList
<1>3. ASSUME NEW i \in 1 .. Len(q) PROVE IsEntry(L, q[i])
  <2>1. PICK e : e = q[i]
    OBVIOUS
  <2>2. IterHas(L, e)
    BY <1>2, <2>1 DEF Has
  <2>3. CASE e = Globals(L)
    BY <2>1, <2>3 DEF IsEntry, Globals
  <2>4. CASE e \in EntriesOf("utxos", L.utxos) \/ e \in EntriesOf("oldutxos", L.oldutxos)
    BY <2>1, <2>4 DEF IsEntry, EntriesOf, MapNames
  <2>5. CASE e \in EntriesOf("accounts", L.accounts) \/ e \in EntriesOf("leaders_log", L.leaders_log)
    BY <2>1, <2>5 DEF IsEntry, EntriesOf, MapNames
  <2>6. CASE e \in EntriesOf("pools", L.pools)
    BY <2>1, <2>6 DEF IsEntry, EntriesOf
  <2>7. CASE e \in PotEntries(L)
    BY <2>1, <2>7 DEF IsEntry, EntriesOf, PotEntries
  <2> QED BY <2>2, <2>3, <2>4, <2>5, <2>6, <2>7 DEF IterHas
<1>4. \E i \in 1 .. Len(q) : q[i].kind = "globals"
  <2>1. Has(q, Globals(L))
    BY <1>2 DEF IterHas
  <2>2. Globals(L).kind = "globals"
    BY DEF Globals
  <2> QED BY <2>1, <2>2 DEF Has
<1>5. ASSUME NEW n \in PotNames PROVE \E i \in 1 .. Len(q) : IsKey(q[i], "pots", n)
  <2>1. PICK e : e = [kind |-> "pots", key |-> n, value |-> L[n]]
    OBVIOUS
  <2>2. e \in PotEntries(L)
    BY <2>1 DEF PotEntries, EntriesOf
  <2>3. Has(q, e)
    BY <1>2, <2>2 DEF IterHas
  <2> QED BY <2>1, <2>3 DEF Has, IsKey
<1>6. ASSUME NEW x \in MapNames, NEW k \in DOMAIN L[x] PROVE \E i \in 1 .. Len(q) : IsKey(q[i], x, k)
  <2>1. PICK e : e = [kind |-> x, key |-> k, value |-> L[x][k]]
    OBVIOUS
  <2>2. e \in EntriesOf(x, L[x])
    BY <2>1 DEF EntriesOf
  <2>3. IterHas(L, e)
    BY <2>2 DEF MapNames, IterHas
  <2>4. Has(q, e)
    BY <1>2, <2>3
  <2> QED BY <2>1, <2>4 DEF Has, IsKey
<1> QED BY <1>1, <1>2, <1>3, <1>4, <1>5, <1>6 DEF Lists

-----------------------------------------------------------------------------
(* The loop that rebuilds it. *)

Rebuild(acc, e, env) == AddEntry(acc, e)

Re == INSTANCE FoldTheorems WITH Op <- Rebuild

\* The entries are added one after the other.
LEMMA RestoredIsLoop ==
    ASSUME NEW q, NEW history
    PROVE  FoldLeft(AddEntry, Blank(history), q) = Re!Fold(Blank(history), q, 0)
BY DEF FoldLeft, MapThenFoldSet, Max, Re!Fold, Re!Greatest, Rebuild

IsPart(M) == IsMap(M) /\ DOMAIN M = Fields /\ \A x \in MapNames : IsMap(M[x])

\* N is M with an entry of L added.
AddsEntry(N, M, L, e) ==
    /\ IsPart(N) /\ N.applied = M.applied
    /\ \A x \in MapNames : \A k :
        /\ k \in DOMAIN N[x] <=> k \in DOMAIN M[x] \/ IsKey(e, x, k)
        /\ k \in DOMAIN N[x] => N[x][k] = IF IsKey(e, x, k) THEN L[x][k] ELSE M[x][k]
    /\ \A n \in PotNames : N[n] = IF IsKey(e, "pots", n) THEN L[n] ELSE M[n]
    /\ N.date = IF e.kind = "globals" THEN L.date ELSE M.date
    /\ N.chain_length = IF e.kind = "globals" THEN L.chain_length ELSE M.chain_length

\* One turn of the loop.
LEMMA AddEntryAdds ==
    ASSUME NEW L, NEW M, IsPart(M), NEW e, IsEntry(L, e)
    PROVE  AddsEntry(AddEntry(M, e), M, L, e)
<1>1. PICK N : N = AddEntry(M, e)
  OBVIOUS
<1>2. DOMAIN M = Fields
  BY DEF IsPart
<1>3. CASE e.kind = "globals"
  <2>1. N = [M EXCEPT !.date = L.date, !.chain_length = L.chain_length]
    BY <1>1, <1>3 DEF AddEntry, IsEntry, MapNames
  <2>2. DOMAIN N = Fields /\ IsMap(N)
    BY <1>2, <2>1 DEF IsMap
  <2>3. /\ \A x \in Fields \ {"date", "chain_length"} : N[x] = M[x]
        /\ N.date = L.date /\ N.chain_length = L.chain_length
    BY <1>2, <2>1 DEF Fields
  <2>4. MapNames \subseteq Fields \ {"date", "chain_length"} /\ PotNames \subseteq Fields \ {"date", "chain_length"}
        /\ "applied" \in Fields \ {"date", "chain_length"}
    BY DEF MapNames, PotNames, Fields
  <2>5. \A x \in MapNames : \A k : ~IsKey(e, x, k) /\ ~IsKey(e, "pots", k)
    BY <1>3 DEF MapNames, IsKey
  <2>6. \A x \in MapNames : N[x] = M[x] /\ IsMap(N[x])
    BY <2>3, <2>4 DEF IsPart
  <2>7. \A n \in PotNames : N[n] = M[n] /\ ~IsKey(e, "pots", n)
    BY <1>3, <2>3, <2>4 DEF IsKey
  <2>8. IsPart(N) /\ N.applied = M.applied
    BY <2>2, <2>3, <2>4, <2>6 DEF IsPart
  <2> QED BY <1>1, <1>3, <2>3, <2>5, <2>6, <2>7, <2>8 DEF AddsEntry
<1>4. CASE e.kind = "pots"
  <2>1. e.key \in PotNames /\ N = [M EXCEPT ![e.key] = L[e.key]]
    BY <1>1, <1>4 DEF AddEntry, IsEntry, MapNames, set_from_entry
  <2>2. DOMAIN N = Fields /\ IsMap(N)
    BY <1>2, <2>1, ExceptIsMap
  <2>3. PotNames \subseteq Fields /\ MapNames \subseteq Fields \ PotNames
        /\ {"applied", "date", "chain_length"} \subseteq Fields \ PotNames
    BY DEF MapNames, PotNames, Fields
  <2>4. \A x \in Fields : N[x] = IF x = e.key THEN L[x] ELSE M[x]
    BY <1>2, <2>1
  <2>5. \A x \in MapNames : \A k : ~IsKey(e, x, k)
    BY <1>4 DEF MapNames, IsKey
  <2>6. \A x \in MapNames : N[x] = M[x] /\ IsMap(N[x])
    BY <2>1, <2>3, <2>4 DEF IsPart
  <2>7. \A n \in PotNames : N[n] = IF IsKey(e, "pots", n) THEN L[n] ELSE M[n]
    BY <1>4, <2>3, <2>4 DEF IsKey
  <2>8. N.applied = M.applied /\ N.date = M.date /\ N.chain_length = M.chain_length
    BY <2>1, <2>3, <2>4
  <2>9. IsPart(N)
    BY <2>2, <2>6 DEF IsPart
  <2> QED BY <1>1, <1>4, <2>5, <2>6, <2>7, <2>8, <2>9 DEF AddsEntry
<1>5. CASE e.kind = "pools"
  <2>1. N = M
    BY <1>1, <1>5 DEF AddEntry
  <2>2. \A x \in MapNames : \A k : ~IsKey(e, x, k)
    BY <1>5 DEF MapNames, IsKey
  <2>3. \A n \in PotNames : ~IsKey(e, "pots", n)
    BY <1>5 DEF IsKey
  <2> QED BY <1>1, <1>5, <2>1, <2>2, <2>3 DEF AddsEntry
<1>6. CASE e.kind \in MapNames
  <2>0. e.kind \notin {"globals", "pots", "pools"}
    BY <1>6 DEF MapNames
  <2>1. e.key \in DOMAIN L[e.kind] /\ e.value = L[e.kind][e.key]
    BY <2>0 DEF IsEntry
  <2>2. PICK y, key, v : y = e.kind /\ key = e.key /\ v = e.value
    OBVIOUS
  <2>3. PICK new : new = With(M[y], key, v)
    OBVIOUS
  <2>4. N = [M EXCEPT ![y] = new]
    BY <1>1, <2>0, <2>2, <2>3 DEF AddEntry
  <2>5. DOMAIN N = Fields /\ IsMap(N) /\ IsMap(new)
    BY <1>2, <2>3, <2>4, ExceptIsMap, WithIsMap
  <2>6. \A x \in Fields : N[x] = IF x = y THEN new ELSE M[x]
    BY <1>2, <2>4
  <2>7. y \in MapNames /\ MapNames \subseteq Fields /\ PotNames \subseteq Fields \ MapNames
        /\ {"applied", "date", "chain_length"} \subseteq Fields \ MapNames
    BY <1>6, <2>2 DEF MapNames, PotNames, Fields
  <2>8. \A x \in MapNames : IsMap(N[x])
    BY <2>5, <2>6, <2>7 DEF IsPart
  <2>9. \A n \in PotNames : N[n] = M[n] /\ ~IsKey(e, "pots", n)
    BY <2>0, <2>6, <2>7 DEF IsKey
  <2>10. N.applied = M.applied /\ N.date = M.date /\ N.chain_length = M.chain_length
    BY <2>6, <2>7
  <2>11. ASSUME NEW x \in MapNames, NEW k
         PROVE  /\ k \in DOMAIN N[x] <=> k \in DOMAIN M[x] \/ IsKey(e, x, k)
                /\ k \in DOMAIN N[x] => N[x][k] = IF IsKey(e, x, k) THEN L[x][k] ELSE M[x][k]
    <3>1. CASE x = y
      <4>1. N[x] = new
        BY <2>6, <2>7, <3>1
      <4>2. IsKey(e, x, k) <=> k = key
        BY <2>2, <3>1 DEF IsKey
      <4>3. k \in DOMAIN new <=> k \in DOMAIN M[x] \/ k = key
        BY <2>3, <3>1 DEF With
      <4>4. k \in DOMAIN new => new[k] = IF k = key THEN v ELSE M[x][k]
        BY <2>3, <3>1 DEF With
      <4>5. k = key => v = L[x][k]
        BY <2>1, <2>2, <3>1
      <4> QED BY <4>1, <4>2, <4>3, <4>4, <4>5
    <3>2. CASE x # y
      BY <2>2, <2>6, <2>7, <3>2 DEF IsKey
    <3> QED BY <3>1, <3>2
  <2>12. IsPart(N)
    BY <2>5, <2>8 DEF IsPart
  <2> QED BY <1>1, <2>0, <2>9, <2>10, <2>11, <2>12 DEF AddsEntry
<1> QED BY <1>3, <1>4, <1>5, <1>6 DEF IsEntry

\* What i turns of the loop have rebuilt of L.
Rebuilt(M, L, q, i) ==
    /\ IsPart(M) /\ M.applied = L.applied
    /\ \A x \in MapNames : \A k :
        /\ k \in DOMAIN M[x] <=> \E j \in 1 .. i : IsKey(q[j], x, k)
        /\ k \in DOMAIN M[x] => M[x][k] = L[x][k]
    /\ \A n \in PotNames : (\E j \in 1 .. i : IsKey(q[j], "pots", n)) => M[n] = L[n]
    /\ (\E j \in 1 .. i : q[j].kind = "globals") =>
        M.date = L.date /\ M.chain_length = L.chain_length

\* The loop starts from nothing.
LEMMA BlankRebuilt == ASSUME NEW L, NEW q PROVE Rebuilt(Blank(L.applied), L, q, 0)
<1>1. PICK B : B = Blank(L.applied)
  OBVIOUS
<1>2. DOMAIN EmptyLedger = Fields
  BY DEF EmptyLedger, Fields
<1>3. B = [EmptyLedger EXCEPT !.treasury = 0, !.rewards = 0, !.applied = L.applied]
  BY <1>1 DEF Blank
<1>4. DOMAIN B = Fields /\ IsMap(B)
  BY <1>2, <1>3 DEF IsMap
<1>5. /\ B.utxos = EmptyLedger.utxos /\ B.oldutxos = EmptyLedger.oldutxos
      /\ B.accounts = EmptyLedger.accounts /\ B.leaders_log = EmptyLedger.leaders_log
      /\ B.applied = L.applied
  BY <1>2, <1>3 DEF Fields
<1>6. \A x \in MapNames : B[x] = <<>>
  BY <1>5 DEF MapNames, EmptyLedger
<1>7. DOMAIN <<>> = {} /\ IsMap(<<>>) /\ 1 .. 0 = {}
  BY EmptyIsMap
<1>8. IsPart(B)
  BY <1>4, <1>6, <1>7 DEF IsPart
<1> QED BY <1>1, <1>5, <1>6, <1>7, <1>8 DEF Rebuilt

\* One turn rebuilds one entry.
LEMMA RebuiltOneMore ==
    ASSUME NEW L, NEW q, NEW i \in Nat, NEW M, Rebuilt(M, L, q, i), NEW N, AddsEntry(N, M, L, q[i + 1])
    PROVE  Rebuilt(N, L, q, i + 1)
<1>1. /\ i + 1 \in 1 .. (i + 1) /\ \A j \in 1 .. (i + 1) : j = i + 1 \/ j \in 1 .. i
      /\ \A j \in 1 .. i : j \in 1 .. (i + 1)
  OBVIOUS
<1>2. IsPart(N) /\ N.applied = L.applied
  BY DEF Rebuilt, AddsEntry
<1>3. ASSUME NEW x \in MapNames, NEW k
      PROVE  /\ k \in DOMAIN N[x] <=> \E j \in 1 .. (i + 1) : IsKey(q[j], x, k)
             /\ k \in DOMAIN N[x] => N[x][k] = L[x][k]
  <2>1. /\ k \in DOMAIN M[x] <=> \E j \in 1 .. i : IsKey(q[j], x, k)
        /\ k \in DOMAIN M[x] => M[x][k] = L[x][k]
    BY DEF Rebuilt
  <2>2. /\ k \in DOMAIN N[x] <=> k \in DOMAIN M[x] \/ IsKey(q[i + 1], x, k)
        /\ k \in DOMAIN N[x] => N[x][k] = IF IsKey(q[i + 1], x, k) THEN L[x][k] ELSE M[x][k]
    BY DEF AddsEntry
  <2> QED BY <1>1, <2>1, <2>2
<1>4. ASSUME NEW n \in PotNames, \E j \in 1 .. (i + 1) : IsKey(q[j], "pots", n)
      PROVE  N[n] = L[n]
  <2>1. (\E j \in 1 .. i : IsKey(q[j], "pots", n)) => M[n] = L[n]
    BY DEF Rebuilt
  <2>2. N[n] = IF IsKey(q[i + 1], "pots", n) THEN L[n] ELSE M[n]
    BY DEF AddsEntry
  <2> QED BY <1>1, <1>4, <2>1, <2>2
<1>5. ASSUME \E j \in 1 .. (i + 1) : q[j].kind = "globals"
      PROVE  N.date = L.date /\ N.chain_length = L.chain_length
  BY <1>1, <1>5 DEF Rebuilt, AddsEntry
<1> QED BY <1>2, <1>3, <1>4, <1>5 DEF Rebuilt

\* A ledger that is rebuilt from all of its entries is the ledger, but for the pools.
LEMMA RebuiltIsSame ==
    ASSUME NEW L, Solid(L), NEW q, Lists(q, L), NEW M, Rebuilt(M, L, q, Len(q))
    PROVE  [M EXCEPT !.pools = L.pools] = L
<1>1. DOMAIN L = Fields /\ IsMap(L) /\ \A x \in MapNames : IsMap(L[x])
  BY DEF Solid, LedgerOK, MapsOK, MapNames
<1>2. IsMap(M) /\ DOMAIN M = Fields /\ M.applied = L.applied /\ \A x \in MapNames : IsMap(M[x])
  BY DEF Rebuilt, IsPart
<1>3. ASSUME NEW x \in MapNames PROVE M[x] = L[x]
  <2>1. PICK f, g : f = M[x] /\ g = L[x]
    OBVIOUS
  <2>2. IsMap(f) /\ IsMap(g)
    BY <1>1, <1>2, <2>1
  <2>3. ASSUME NEW k PROVE k \in DOMAIN f <=> k \in DOMAIN g
    <3>1. k \in DOMAIN f <=> \E j \in 1 .. Len(q) : IsKey(q[j], x, k)
      BY <2>1 DEF Rebuilt
    <3>2. k \in DOMAIN g => \E j \in 1 .. Len(q) : IsKey(q[j], x, k)
      BY <2>1 DEF Lists
    <3>3. ASSUME NEW j \in 1 .. Len(q), IsKey(q[j], x, k) PROVE k \in DOMAIN g
      <4>1. IsEntry(L, q[j]) /\ q[j].kind = x /\ q[j].key = k
        BY <3>3 DEF Lists, IsKey
      <4>2. x \notin {"globals", "pots", "pools"}
        BY DEF MapNames
      <4> QED BY <2>1, <4>1, <4>2 DEF IsEntry
    <3> QED BY <3>1, <3>2, <3>3
  <2>4. DOMAIN f = DOMAIN g
    BY <2>3
  <2>5. \A k \in DOMAIN f : f[k] = g[k]
    BY <2>1 DEF Rebuilt
  <2>6. f = [k \in DOMAIN f |-> f[k]] /\ g = [k \in DOMAIN g |-> g[k]]
    BY <2>2 DEF IsMap
  <2>7. f = g
    BY <2>4, <2>5, <2>6
  <2> QED BY <2>1, <2>7
<1>4. \A n \in PotNames : M[n] = L[n]
  BY DEF Rebuilt, Lists
<1>5. M.date = L.date /\ M.chain_length = L.chain_length
  BY DEF Rebuilt, Lists
<1>6. PICK K : K = [M EXCEPT !.pools = L.pools]
  OBVIOUS
<1>7. ASSUME NEW x \in Fields PROVE K[x] = L[x]
  <2>1. "pools" \in Fields
    BY DEF Fields
  <2>2. CASE x = "pools"
    BY <1>2, <1>6, <2>1, <2>2
  <2>3. CASE x # "pools"
    <3>1. K[x] = M[x]
      BY <1>2, <1>6, <2>3
    <3>2. x \in MapNames \/ x \in PotNames \/ x \in {"applied", "date", "chain_length"}
      BY <2>3 DEF Fields, MapNames, PotNames
    <3> QED BY <1>2, <1>3, <1>4, <1>5, <3>1, <3>2
  <2> QED BY <2>2, <2>3
<1>8. IsMap(K) /\ DOMAIN K = Fields
  BY <1>2, <1>6, ExceptIsMap
<1>9. K = [x \in Fields |-> K[x]] /\ L = [x \in Fields |-> L[x]]
  BY <1>1, <1>8 DEF IsMap
<1>10. K = L
  BY <1>7, <1>9
<1> QED BY <1>6, <1>10

\* What a solid ledger is restored to.
LEMMA RestoredIsSame ==
    ASSUME NEW L, Solid(L), NEW M \in Restored(L)
    PROVE  [M EXCEPT !.pools = L.pools] = L
<1>1. PICK q : q = Iter(L)
  OBVIOUS
<1>2. PICK T : q \in Seq(T)
  BY <1>1, IterLists DEF Solid
<1>3. Lists(q, L)
  BY <1>1, IterLists DEF Solid
<1>4. PICK B : B = Blank(L.applied)
  OBVIOUS
<1>5. M = Re!Fold(B, q, 0)
  <2>1. M = FoldLeft(AddEntry, Blank(L.applied), Iter(L))
    BY DEF Restored, from_iter
  <2> QED BY <1>1, <1>4, <2>1, RestoredIsLoop
<1>6. PICK g : Re!IsLoop(g, B, q, 0) /\ Re!Fold(B, q, 0) = g[Len(q)]
  BY <1>2, Re!FoldIsLoop
<1>7. Len(q) \in Nat
  BY <1>2
<1> DEFINE S == {i \in Nat : i <= Len(q) => Rebuilt(g[i], L, q, i)}
<1>8. 0 \in S
  <2>1. g[0] = B
    BY <1>6 DEF Re!IsLoop
  <2> QED BY <1>4, <2>1, BlankRebuilt
<1>9. ASSUME NEW i \in Nat, 0 <= i, i < Len(q), i \in S PROVE i + 1 \in S
  <2>1. i + 1 \in 1 .. Len(q) /\ i + 1 - 1 = i
    BY <1>7, <1>9
  <2>2. g[i + 1] = AddEntry(g[i], q[i + 1])
    BY <1>6, <2>1 DEF Re!IsLoop, Rebuild
  <2>3. Rebuilt(g[i], L, q, i)
    BY <1>7, <1>9
  <2>4. IsEntry(L, q[i + 1])
    BY <1>3, <2>1 DEF Lists
  <2>5. IsPart(g[i])
    BY <2>3 DEF Rebuilt
  <2>6. AddsEntry(g[i + 1], g[i], L, q[i + 1])
    BY <2>2, <2>4, <2>5, AddEntryAdds
  <2>7. Rebuilt(g[i + 1], L, q, i + 1)
    BY <2>3, <2>6, RebuiltOneMore
  <2> QED BY <2>7
<1>10. Len(q) \in S
  <2> HIDE DEF S
  <2>1. \A i \in 0 .. Len(q) : i \in S
    BY <1>7, <1>8, <1>9, F!IntervalInduction
  <2> QED BY <1>7, <2>1
<1>11. Rebuilt(M, L, q, Len(q))
  BY <1>5, <1>6, <1>7, <1>10
<1> QED BY <1>3, <1>11, RebuiltIsSame

-----------------------------------------------------------------------------
(* Every ledger is solid, wherever its counters are. *)

\* An output that is spent leaves a solid ledger.
LEMMA UtxoInputSolid ==
    ASSUME NEW L, Solid(L), NEW in, in.value \in Nat, NEW M \in apply_input_to_utxo(L, in)
    PROVE  Solid(M)
<1>1. PICK set : set = IF in.witness = "utxo" THEN "utxos" ELSE "oldutxos"
  OBVIOUS
<1>2. PICK new : new = Without(L[set], in.ptr)
  OBVIOUS
<1>3. M = [L EXCEPT ![set] = new]
  BY <1>1, <1>2 DEF apply_input_to_utxo
<1>4. LedgerOK(M) /\ DOMAIN L = Fields
  BY UtxoInputGains DEF Gains, Solid, LedgerOK
<1>5. IsMap(new) /\ IsMap(M)
  BY <1>2, <1>3, WithIsMap, ExceptIsMap
<1>6. set \in {"utxos", "oldutxos"} /\ M[set] = new /\ \A x \in Fields \ {set} : M[x] = L[x]
  BY <1>1, <1>3, <1>4 DEF Fields
<1>7. /\ M.accounts = L.accounts /\ M.applied = L.applied /\ M.leaders_log = L.leaders_log
      /\ (M.utxos = L.utxos \/ M.utxos = new) /\ (M.oldutxos = L.oldutxos \/ M.oldutxos = new)
  BY <1>6 DEF Fields
<1>8. MapsOK(M)
  BY <1>5, <1>7 DEF Solid, MapsOK
<1> QED BY <1>4, <1>7, <1>8 DEF Solid

\* So does a spending from an account: its counter is incremented modulo CounterMod.
LEMMA AccountInputSolid ==
    ASSUME NEW L, Solid(L), NEW in, in.value \in Nat, in.lane \in Lanes, in.counter \in Nat,
           NEW M \in input_single_account_verify(L, in)
    PROVE  Solid(M)
<1>1. LedgerOK(M) /\ LedgerOK(L) /\ DOMAIN L = Fields
  BY AccountInputGains DEF Gains, Solid, LedgerOK
<1>2. PICK a, l, c : a = in.id /\ l = in.lane /\ c = in.counter
  OBVIOUS
<1>3. a \in DOMAIN L.accounts /\ L.accounts[a].nexts[l] = c
  BY <1>2 DEF input_single_account_verify
<1>4. PICK old : old = L.accounts[a]
  OBVIOUS
<1>5. DOMAIN old = {"value", "nexts", "delegation"} /\ old.nexts \in [Lanes -> Nat]
  BY <1>1, <1>3, <1>4 DEF LedgerOK, AccountsOK, Solid, NextsOK
<1>6. PICK next : next = remove_value(old, in)
  OBVIOUS
<1>7. PICK new : new = [L.accounts EXCEPT ![a] = next]
  OBVIOUS
<1>8. M = [L EXCEPT !.accounts = new]
  <2>1. M = [L EXCEPT !.accounts[a] = remove_value(@, in)]
    BY <1>2 DEF input_single_account_verify
  <2> QED BY <1>4, <1>6, <1>7, <2>1
<1>9. increment(c) \in Nat
  BY <1>2, SizesAreNaturals DEF increment
<1>10. next.nexts \in [Lanes -> Nat]
  <2>1. next = [old EXCEPT !.value = @ - in.value, !.nexts[l] = increment(@)]
    BY <1>2, <1>6 DEF remove_value
  <2>2. next.nexts = [old.nexts EXCEPT ![l] = increment(c)]
    BY <1>3, <1>4, <1>5, <2>1
  <2> QED BY <1>5, <1>9, <2>2
<1>11. DOMAIN new = DOMAIN L.accounts /\ \A b \in DOMAIN L.accounts : new[b] = IF b = a THEN next ELSE L.accounts[b]
  BY <1>7
<1>12. /\ M.accounts = new /\ M.utxos = L.utxos /\ M.oldutxos = L.oldutxos /\ M.applied = L.applied
       /\ M.leaders_log = L.leaders_log
  BY <1>1, <1>8 DEF Fields
<1>13. IsMap(new) /\ IsMap(M) /\ NextsOK(new)
  BY <1>7, <1>8, <1>10, <1>11, ExceptIsMap DEF Solid, NextsOK
<1> QED BY <1>1, <1>12, <1>13 DEF Solid, MapsOK

\* All inputs of a fragment.
LEMMA InputsSolid ==
    ASSUME NEW L, Solid(L), NEW f \in Fragments, NEW M \in apply_tx_inputs(L, f)
    PROVE  Solid(M)
<1>1. PICK seq : seq = Body[f].inputs
  OBVIOUS
<1>2. PICK T : seq \in Seq(T)
  BY <1>1, FragmentsAreRead DEF IsSequence
<1>3. Len(seq) \in Nat /\ DOMAIN seq = 1 .. Len(seq)
  BY <1>2
<1>4. \A i \in DOMAIN seq : /\ seq[i].value \in Nat
                            /\ \/ seq[i].from = "utxo"
                               \/ seq[i].lane \in Lanes /\ seq[i].counter \in 0 .. CounterMod - 1
  BY <1>1, FragmentsAreRead
<1>5. PICK g : In!IsLoop(g, {L}, seq, 0) /\ In!Fold({L}, seq, 0) = g[Len(seq)]
  BY <1>2, In!FoldIsLoop
<1> DEFINE S == {i \in Nat : i <= Len(seq) => \A N \in g[i] : Solid(N)}
<1>6. 0 \in S
  BY <1>5 DEF In!IsLoop
<1>7. ASSUME NEW i \in Nat, 0 <= i, i < Len(seq), i \in S PROVE i + 1 \in S
  <2> SUFFICES ASSUME NEW N \in g[i + 1] PROVE Solid(N)
    OBVIOUS
  <2>1. i + 1 \in 1 .. Len(seq) /\ i + 1 - 1 = i
    BY <1>3, <1>7
  <2>2. PICK in : in = seq[i + 1]
    OBVIOUS
  <2>3. in.value \in Nat /\ (in.from = "utxo" \/ (in.lane \in Lanes /\ in.counter \in Nat))
    <3>1. 0 .. CounterMod - 1 \subseteq Nat
      BY SizesAreNaturals
    <3>2. /\ in.value \in Nat
          /\ \/ in.from = "utxo"
             \/ in.lane \in Lanes /\ in.counter \in 0 .. CounterMod - 1
      BY <1>3, <1>4, <2>1, <2>2
    <3> HIDE DEF Lanes
    <3> QED BY <3>1, <3>2
  <2>4. g[i + 1] = TakeInputs(g[i], in, 0)
    BY <1>5, <2>1, <2>2 DEF In!IsLoop
  <2>5. PICK K \in g[i] : N \in TakeInput(K, in)
    BY <2>4 DEF TakeInputs, Then
  <2>6. Solid(K)
    BY <1>3, <1>7, <2>5
  <2> QED BY <2>3, <2>5, <2>6, UtxoInputSolid, AccountInputSolid DEF TakeInput
<1>8. Len(seq) \in S
  <2> HIDE DEF S
  <2>1. \A i \in 0 .. Len(seq) : i \in S
    BY <1>3, <1>6, <1>7, F!IntervalInduction
  <2> QED BY <1>3, <2>1
<1>9. M \in g[Len(seq)]
  BY <1>1, <1>5, InputsAreLoop
<1> QED BY <1>3, <1>8, <1>9

\* A fragment.
LEMMA FragmentSolid ==
    ASSUME NEW L, Solid(L), NEW f \in Fragments, NEW date, NEW M \in apply_fragment(L, f, date)
    PROVE  Solid(M)
<1>1. PICK K, N : /\ K \in apply_transaction(L, f, date) /\ N \in ApplyCertificate(K, f)
                  /\ M = [N EXCEPT !.applied[f] = @ + 1]
  BY DEF apply_fragment, Then
<1>2. PICK I, O : /\ I \in apply_tx_inputs(L, f) /\ O \in apply_tx_outputs(I, f)
                  /\ K \in apply_tx_fee(O, f)
  BY <1>1 DEF apply_transaction, Then
<1>3. Solid(I)
  BY <1>2, InputsSolid
<1>4. Solid(O)
  BY <1>2, <1>3, OutputsPut DEF Puts
<1>5. Solid(K)
  BY <1>2, <1>4, FeeQuiet DEF Quiet
<1>6. Solid(N)
  BY <1>1, <1>5, CertificateQuiet DEF Quiet
<1>7. Counts(M, N, f)
  BY <1>1 DEF Counts
<1> QED BY <1>6, <1>7, CountSolid

\* The ledger of block0 is solid.
LEMMA InitSolid == Init => SolidInv
BY InitSpend DEF SpendInv, SolidInv, History

\* SolidInv is inductive.
LEMMA SolidStep == SolidInv /\ [Next]_vars => SolidInv'
<1> SUFFICES ASSUME SolidInv, [Next]_vars PROVE SolidInv'
  OBVIOUS
<1>1. ValueInv' /\ Solid(ledger) /\ (block # <<>> => Solid(block[1].ledger))
  BY ValueStep DEF SolidInv
<1>2. Moves
  BY StepMoves
<1>3. Solid(ledger')
  BY <1>2 DEF Moves, Quiet
<1>4. block' # <<>> => Solid(block'[1].ledger)
  BY <1>1, <1>2, FragmentSolid DEF Moves, Quiet
<1>5. Solid(ledger)' <=> Solid(ledger')
  BY DEF Solid, MapsOK, NextsOK, LedgerOK
<1>6. Solid(block[1].ledger)' <=> Solid(block'[1].ledger)
  BY DEF Solid, MapsOK, NextsOK, LedgerOK
<1> QED BY <1>1, <1>3, <1>4, <1>5, <1>6 DEF SolidInv

\* A restart at any point of the life of a ledger loses nothing but the stake
\* pools: the ledger that Ledger::from_iter rebuilds from what Ledger::iter wrote
\* has the outputs, the accounts with their counters and delegations, the pots,
\* the log of block creators, the date and the chain length it was written with,
\* in whatever order the maps were walked (ledger/iter.rs).
THEOREM RestartLosesNothing == Spec => []RestartKeepsValue
<1>1. SolidInv => RestartKeepsValue
  BY RestoredIsSame DEF SolidInv, RestartKeepsValue
<1> QED BY InitSolid, SolidStep, <1>1, PTL DEF Spec
=============================================================================
