--------------------------- MODULE AccountProofs ---------------------------
(***************************************************************************)
(* Theorems about accounts and multisig accounts, for any number of lanes, *)
(* counters, keys and declarations: the counters of a lane are used in     *)
(* turn, a multisig account pays for what enough owners have signed, and   *)
(* the control of stake kept beside the ledger is the one computed from    *)
(* it.                                                                     *)
(***************************************************************************)
EXTENDS AccountClients, FiniteSetTheorems, TLAPS

Lanes == 0 .. LANES - 1

Turns == 0 .. CounterMod - 1

-----------------------------------------------------------------------------
(* Spending counters. *)

\* A counter is made of a lane and a turn, and falls apart into them again.
LEMMA LaneAndTurn ==
    ASSUME NEW l \in Nat, NEW k \in Turns
    PROVE  lane(CounterNew(l, k)) = l /\ unlaned_counter(CounterNew(l, k)) = k
<1> DEFINE M == CounterMod
           c == l * M + k
           q == c \div M
           r == c % M
<1>1. M \in Nat /\ M > 0
  BY CounterSizes
<1> HIDE DEF M
<1>2. k \in Nat /\ k < M
  BY <1>1 DEF Turns, M
<1>3. l * M \in Nat
  BY <1>1
<1>4. c \in Nat
  BY <1>2, <1>3
<1>5. q \in Int /\ r \in Int /\ 0 <= r /\ r < M /\ c = M * q + r
  <2> HIDE DEF c
  <2>1. q \in Int /\ r \in Int
    BY <1>1, <1>4
  <2>2. 0 <= r /\ r < M
    BY <1>1, <1>4
  <2>3. c = M * (c \div M) + (c % M)
    BY <1>1, <1>4, SMTT(30)
  <2> QED BY <2>1, <2>2, <2>3
<1> HIDE DEF q, r
<1>6. ~(q >= l + 1)
  <2> SUFFICES ASSUME q >= l + 1 PROVE FALSE
    OBVIOUS
  <2>1. M * q >= M * (l + 1)
    BY <1>1, <1>5
  <2>2. M * (l + 1) = l * M + M
    BY <1>1
  <2> QED BY <1>1, <1>2, <1>3, <1>5, <2>1, <2>2
<1>7. ~(l >= q + 1)
  <2> SUFFICES ASSUME l >= q + 1 PROVE FALSE
    OBVIOUS
  <2>1. M * l >= M * (q + 1)
    BY <1>1, <1>5
  <2>2. M * (q + 1) = M * q + M /\ M * l = l * M
    BY <1>1, <1>5
  <2>3. M * q \in Int
    BY <1>1, <1>5
  <2> QED BY <1>1, <1>2, <1>3, <1>5, <2>1, <2>2, <2>3
<1>8. q = l
  BY <1>5, <1>6, <1>7
<1>9. M * q = l * M
  BY <1>1, <1>8
<1>10. r = k
  BY <1>2, <1>3, <1>5, <1>9
<1> QED BY <1>8, <1>10 DEF lane, unlaned_counter, CounterNew, q, r, M

\* A lane and a place in it make a counter.
LEMMA CounterInRange ==
    ASSUME NEW l \in Lanes, NEW k \in Turns
    PROVE  CounterNew(l, k) \in Counters
<1>1. LANES \in Nat /\ CounterMod \in Nat /\ l \in Nat /\ k \in Nat
  BY CounterSizes DEF Lanes, Turns
<1>2. LANES - 1 - l \in Nat /\ k < CounterMod
  BY <1>1 DEF Lanes, Turns
<1>3. (LANES - 1 - l) * CounterMod \in Nat
  BY <1>1, <1>2
<1>4. (LANES - 1 - l) * CounterMod = LANES * CounterMod - CounterMod - l * CounterMod
  BY <1>1
<1>5. l * CounterMod \in Nat /\ LANES * CounterMod \in Nat
  BY <1>1
<1> QED BY <1>1, <1>2, <1>3, <1>4, <1>5 DEF CounterNew, Counters

\* The next counter of a lane is the one of the next turn.
LEMMA IncrementTakesTurn ==
    ASSUME NEW l \in Nat, NEW k \in Turns
    PROVE  increment(CounterNew(l, k)) =
             CounterNew(l, IF k + 1 = CounterMod THEN 0 ELSE k + 1)
<1>1. CounterMod \in Nat /\ CounterMod > 0 /\ k \in 0 .. CounterMod - 1
  BY CounterSizes DEF Turns
<1>2. (k + 1) % CounterMod = IF k + 1 = CounterMod THEN 0 ELSE k + 1
  BY <1>1
<1>3. lane(CounterNew(l, k)) = l /\ unlaned_counter(CounterNew(l, k)) = k
  BY LaneAndTurn
<1> QED BY <1>2, <1>3 DEF increment

-----------------------------------------------------------------------------
(* The counters of one account. *)

\* Of any two counters of a lane the earlier was spent once more if the lane
\* stands between them, and as often as the other one if not.
TurnsTaken(used, l, k) ==
    \A m, n \in Turns :
        m < n => used[CounterNew(l, m)] - used[CounterNew(l, n)]
                    = (IF m < k /\ k <= n THEN 1 ELSE 0)

\* The counter the account accepts next on a lane is in turn.
InTurn(used, l, c) == \E k \in Turns : c = CounterNew(l, k) /\ TurnsTaken(used, l, k)

\* A lane that nothing was spent from expects its first counter.
LEMMA FreshIsInTurn ==
    ASSUME NEW l \in Lanes
    PROVE  InTurn(NoSpendings, l, CounterNew(l, 0))
<1>1. 0 \in Turns /\ Turns \subseteq Nat
  BY CounterSizes DEF Turns
<1>2. \A m \in Turns : NoSpendings[CounterNew(l, m)] = 0
  BY CounterInRange DEF NoSpendings
<1>3. TurnsTaken(NoSpendings, l, 0)
  <2> SUFFICES ASSUME NEW m \in Turns, NEW n \in Turns, m < n
               PROVE  NoSpendings[CounterNew(l, m)] - NoSpendings[CounterNew(l, n)]
                        = IF m < 0 /\ 0 <= n THEN 1 ELSE 0
    BY DEF TurnsTaken
  <2>1. ~(m < 0)
    BY <1>1
  <2> QED BY <1>2, <2>1
<1> QED BY <1>1, <1>3 DEF InTurn

\* Spending the counter of a lane moves this lane on and no other.
LEMMA SpendingTakesTurn ==
    ASSUME NEW used \in [Counters -> Nat], NEW l \in Lanes, NEW c, InTurn(used, l, c),
           NEW now, now = [used EXCEPT ![c] = @ + 1]
    PROVE  /\ InTurn(now, l, increment(c))
           /\ \A o \in Lanes : \A d : o # l /\ InTurn(used, o, d) => InTurn(now, o, d)
<1>1. PICK k \in Turns : c = CounterNew(l, k) /\ TurnsTaken(used, l, k)
  BY DEF InTurn
<1>2. Turns \subseteq Nat /\ Lanes \subseteq Nat
  BY DEF Turns, Lanes
<1>3. ASSUME NEW o \in Lanes, NEW m \in Turns
      PROVE  /\ CounterNew(o, m) \in Counters
             /\ CounterNew(o, m) = c <=> o = l /\ m = k
             /\ now[CounterNew(o, m)] =
                    used[CounterNew(o, m)] + (IF o = l /\ m = k THEN 1 ELSE 0)
             /\ used[CounterNew(o, m)] \in Nat
  <2>1. CounterNew(o, m) \in Counters
    BY CounterInRange
  <2>2. CounterNew(o, m) = c <=> o = l /\ m = k
    <3>1. o \in Nat /\ l \in Nat
      BY <1>2
    <3>2. lane(CounterNew(o, m)) = o /\ unlaned_counter(CounterNew(o, m)) = m
      BY <3>1, LaneAndTurn
    <3>3. lane(c) = l /\ unlaned_counter(c) = k
      BY <1>1, <3>1, LaneAndTurn
    <3> QED BY <1>1, <3>2, <3>3
  <2>3. used[CounterNew(o, m)] \in Nat
    BY <2>1
  <2> QED BY <2>1, <2>2, <2>3
<1>4. ASSUME NEW o \in Lanes, NEW d, o # l, InTurn(used, o, d)
      PROVE  InTurn(now, o, d)
  <2>1. PICK j \in Turns : d = CounterNew(o, j) /\ TurnsTaken(used, o, j)
    BY <1>4 DEF InTurn
  <2>2. \A m \in Turns : now[CounterNew(o, m)] = used[CounterNew(o, m)]
    BY <1>3, <1>4
  <2>3. TurnsTaken(now, o, j)
    BY <2>1, <2>2 DEF TurnsTaken
  <2> QED BY <2>1, <2>3 DEF InTurn
<1>5. InTurn(now, l, increment(c))
  <2> DEFINE j == IF k + 1 = CounterMod THEN 0 ELSE k + 1
             U(m) == used[CounterNew(l, m)]
             N(m) == now[CounterNew(l, m)]
  <2>1. CounterMod \in Nat /\ CounterMod > 0 /\ k \in 0 .. CounterMod - 1
    BY CounterSizes DEF Turns
  <2>2. j \in Turns
    BY <2>1 DEF Turns
  <2>3. increment(c) = CounterNew(l, j)
    BY <1>1, <1>2, IncrementTakesTurn
  <2>4. \A m \in Turns : U(m) \in Nat /\ N(m) = U(m) + (IF m = k THEN 1 ELSE 0)
    BY <1>3
  <2>5. \A m, n \in Turns : m < n => U(m) - U(n) = (IF m < k /\ k <= n THEN 1 ELSE 0)
    BY <1>1 DEF TurnsTaken
  <2> HIDE DEF U, N
  <2>6. ASSUME NEW m \in Turns, NEW n \in Turns, m < n
        PROVE  N(m) - N(n) = (IF m < j /\ j <= n THEN 1 ELSE 0)
    <3>1. m \in 0 .. CounterMod - 1 /\ n \in 0 .. CounterMod - 1
      BY DEF Turns
    <3>2. U(m) - U(n) = (IF m < k /\ k <= n THEN 1 ELSE 0)
      BY <2>5, <2>6
    <3>3. N(m) = U(m) + (IF m = k THEN 1 ELSE 0) /\ N(n) = U(n) + (IF n = k THEN 1 ELSE 0)
      BY <2>4
    <3>4. U(m) \in Nat /\ U(n) \in Nat
      BY <2>4
    <3> QED BY <2>1, <2>6, <3>1, <3>2, <3>3, <3>4
  <2> HIDE DEF j
  <2>7. TurnsTaken(now, l, j)
    BY <2>6 DEF TurnsTaken, N
  <2> QED BY <2>2, <2>3, <2>7 DEF InTurn
<1> QED BY <1>4, <1>5

-----------------------------------------------------------------------------
(* A ledger of accounts. *)

IsState(st) ==
    /\ "spending" \in DOMAIN st /\ "value" \in DOMAIN st
    /\ st.spending \in [Lanes -> Counters] /\ st.value \in Nat

\* The inductive invariant of a ledger L of accounts named in ids: the accounts
\* it has count in turn, what it does not have was not spent from.
LedgerInTurn(L, ids, used) ==
    /\ DOMAIN L \subseteq ids
    /\ \A id \in DOMAIN L :
        IsState(L[id]) /\ \A l \in Lanes : InTurn(used[id], l, L[id].spending[l])
    /\ \A id \in ids : id \notin DOMAIN L => used[id] = NoSpendings

\* What every operation but a spending does to a ledger.
KeepsCounters(L, N) ==
    /\ DOMAIN L \subseteq DOMAIN N
    /\ \A id \in DOMAIN N : IsState(N[id])
    /\ \A id \in DOMAIN L : N[id].spending = L[id].spending
    /\ \A id \in DOMAIN N : id \notin DOMAIN L => N[id].spending = SpendingDefault

\* A new account is one, with no counter used.
LEMMA DefaultIsState ==
    ASSUME NEW v \in Nat
    PROVE  IsState(StateNew(v)) /\ StateNew(v).spending = SpendingDefault
<1>1. 0 \in Turns
  BY CounterSizes DEF Turns
<1>2. \A l \in Lanes : CounterNew(l, 0) \in Counters
  BY <1>1, CounterInRange
<1>3. SpendingDefault \in [Lanes -> Counters]
  BY <1>2 DEF SpendingDefault, Lanes
<1> HIDE DEF SpendingDefault
<1> QED BY <1>3 DEF IsState, StateNew

\* An operation that leaves the counters of accounts alone leaves them in turn.
LEMMA KeptCounters ==
    ASSUME NEW L, NEW N, NEW ids, NEW used, LedgerInTurn(L, ids, used),
           KeepsCounters(L, N), DOMAIN N \subseteq ids
    PROVE  LedgerInTurn(N, ids, used)
<1>1. ASSUME NEW id \in DOMAIN N, NEW l \in Lanes
      PROVE  InTurn(used[id], l, N[id].spending[l])
  <2>1. CASE id \in DOMAIN L
    BY <2>1 DEF LedgerInTurn, KeepsCounters
  <2>2. CASE id \notin DOMAIN L
    <3>1. used[id] = NoSpendings
      BY <2>2 DEF LedgerInTurn
    <3>2. N[id].spending[l] = CounterNew(l, 0)
      BY <2>2 DEF KeepsCounters, SpendingDefault, Lanes
    <3> QED BY <3>1, <3>2, FreshIsInTurn
  <2> QED BY <2>1, <2>2
<1>2. \A id \in DOMAIN N : IsState(N[id])
  BY DEF KeepsCounters
<1>3. \A id \in ids : id \notin DOMAIN N => used[id] = NoSpendings
  BY DEF KeepsCounters, LedgerInTurn
<1> QED BY <1>1, <1>2, <1>3 DEF LedgerInTurn

\* An account put in the place of another one that counts the same.
LEMMA UpdateKeeps ==
    ASSUME NEW L, \A id \in DOMAIN L : IsState(L[id]), NEW id \in DOMAIN L, NEW results,
           \A st \in results : IsState(st) /\ st.spending = L[id].spending,
           NEW N \in UpdateAccount(L, id, results)
    PROVE  KeepsCounters(L, N) /\ DOMAIN N = DOMAIN L
<1>1. PICK st \in results : N = [L EXCEPT ![id] = st]
  BY DEF UpdateAccount
<1>2. DOMAIN N = DOMAIN L /\ N[id] = st /\ \A x \in DOMAIN L : x # id => N[x] = L[x]
  BY <1>1
<1> QED BY <1>2 DEF KeepsCounters

\* Adding an account changes no other.
LEMMA ExtendKeeps ==
    ASSUME NEW L, \A id \in DOMAIN L : IsState(L[id]), NEW id, id \notin DOMAIN L, NEW st,
           IsState(st), st.spending = SpendingDefault
    PROVE  KeepsCounters(L, Extend(L, id, st)) /\ DOMAIN Extend(L, id, st) = DOMAIN L \cup {id}
<1> DEFINE N == Extend(L, id, st)
<1>1. DOMAIN N = DOMAIN L \cup {id} /\ N[id] = st /\ \A x \in DOMAIN L : N[x] = L[x]
  BY DEF Extend
<1> HIDE DEF N
<1>2. KeepsCounters(L, N)
  BY <1>1 DEF KeepsCounters
<1> QED BY <1>1, <1>2 DEF N

\* Adding value to an account leaves its counters alone.
LEMMA AddKeeps ==
    ASSUME NEW st, IsState(st), NEW v \in Nat, NEW t \in StateAdd(st, v)
    PROVE  IsState(t) /\ t.spending = st.spending /\ DOMAIN t = DOMAIN st
<1>1. PICK w \in checked_add(st.value, v) : t = [st EXCEPT !.value = w]
  BY DEF StateAdd
<1>2. w \in Nat
  BY DEF checked_add, IsState
<1> QED BY <1>1, <1>2 DEF IsState

\* So does adding value to an account that may have to be made.
LEMMA AddValueOrAccountKeeps ==
    ASSUME NEW L, \A id \in DOMAIN L : IsState(L[id]), NEW id, NEW v \in Nat,
           NEW N \in add_value_or_account(L, id, v)
    PROVE  KeepsCounters(L, N) /\ DOMAIN N = DOMAIN L \cup {id}
<1>1. CASE id \in DOMAIN L
  <2>1. N \in UpdateAccount(L, id, StateAdd(L[id], v))
    BY <1>1 DEF add_value_or_account, add_value
  <2>2. \A st \in StateAdd(L[id], v) : IsState(st) /\ st.spending = L[id].spending
    BY <1>1, AddKeeps
  <2>3. KeepsCounters(L, N) /\ DOMAIN N = DOMAIN L
    BY <1>1, <2>1, <2>2, UpdateKeeps
  <2> QED BY <1>1, <2>3
<1>2. CASE id \notin DOMAIN L
  <2>1. N = Extend(L, id, StateNew(v))
    BY <1>2 DEF add_value_or_account
  <2> QED BY <1>2, <2>1, DefaultIsState, ExtendKeeps
<1> QED BY <1>1, <1>2

AreStates(L) == \A id \in DOMAIN L : IsState(L[id])

\* So does adding a reward.
LEMMA AddRewardsKeeps ==
    ASSUME NEW L, AreStates(L), NEW id, NEW e, NEW v \in Nat,
           NEW N \in add_rewards_to_account(L, id, e, v)
    PROVE  KeepsCounters(L, N) /\ DOMAIN N = DOMAIN L \cup {id}
<1> USE DEF AreStates
<1>1. CASE id \in DOMAIN L
  <2>1. N \in UpdateAccount(L, id, add_rewards(L[id], e, v))
    BY <1>1 DEF add_rewards_to_account
  <2>2. ASSUME NEW st \in add_rewards(L[id], e, v)
        PROVE  IsState(st) /\ st.spending = L[id].spending
    <3>1. PICK t \in StateAdd(L[id], v) :
            st = [t EXCEPT !.last_rewards = add_for(t.last_rewards, e, v)]
      BY DEF add_rewards
    <3>2. IsState(t) /\ t.spending = L[id].spending
      BY <1>1, AddKeeps
    <3> QED BY <3>1, <3>2 DEF IsState
  <2>3. KeepsCounters(L, N) /\ DOMAIN N = DOMAIN L
    BY <1>1, <2>1, <2>2, UpdateKeeps
  <2> QED BY <1>1, <2>3
<1>2. CASE id \notin DOMAIN L
  <2>1. N = Extend(L, id, new_reward(e, v))
    BY <1>2 DEF add_rewards_to_account
  <2>2. IsState(StateNew(v)) /\ StateNew(v).spending = SpendingDefault
    BY DefaultIsState
  <2>3. IsState(new_reward(e, v)) /\ new_reward(e, v).spending = SpendingDefault
    BY <2>2 DEF new_reward, IsState
  <2> QED BY <1>2, <2>1, <2>3, ExtendKeeps
<1> QED BY <1>1, <1>2

\* Delegating changes no value and no counter.
LEMMA SetDelegationKeeps ==
    ASSUME NEW L, \A id \in DOMAIN L : IsState(L[id]), NEW id, NEW d,
           NEW N \in set_delegation(L, id, d)
    PROVE  KeepsCounters(L, N) /\ DOMAIN N = DOMAIN L /\ id \in DOMAIN L
           /\ N[id].value = L[id].value /\ \A x \in DOMAIN L : N[x].value = L[x].value
<1>1. id \in DOMAIN L /\ N = [L EXCEPT ![id].delegation = d]
  BY DEF set_delegation
<1> DEFINE st == [L[id] EXCEPT !.delegation = d]
<1>2. N = [L EXCEPT ![id] = st]
  BY <1>1
<1>3. IsState(st) /\ st.spending = L[id].spending /\ st.value = L[id].value
  BY <1>1 DEF IsState
<1> HIDE DEF st
<1>4. DOMAIN N = DOMAIN L /\ N[id] = st /\ \A x \in DOMAIN L : x # id => N[x] = L[x]
  BY <1>1, <1>2
<1> QED BY <1>1, <1>3, <1>4 DEF KeepsCounters

\* Adding tokens changes no counter.
LEMMA TokenAddKeeps ==
    ASSUME NEW L, \A id \in DOMAIN L : IsState(L[id]), NEW id, NEW token, NEW v,
           NEW N \in token_add(L, id, token, v)
    PROVE  KeepsCounters(L, N) /\ DOMAIN N = DOMAIN L
<1>1. id \in DOMAIN L /\ N \in UpdateAccount(L, id, StateTokenAdd(L[id], token, v))
  BY DEF token_add
<1>2. ASSUME NEW st \in StateTokenAdd(L[id], token, v)
      PROVE  IsState(st) /\ st.spending = L[id].spending
  <2>1. PICK tokens : st = [L[id] EXCEPT !.tokens = tokens]
    <3>1. CASE token \in DOMAIN L[id].tokens
      <4>1. PICK w : st = [L[id] EXCEPT !.tokens[token] = w]
        BY <3>1 DEF StateTokenAdd
      <4>2. st = [L[id] EXCEPT !.tokens = [L[id].tokens EXCEPT ![token] = w]]
        BY <4>1
      <4> QED BY <4>2
    <3>2. CASE token \notin DOMAIN L[id].tokens
      BY <3>2 DEF StateTokenAdd
    <3> QED BY <3>1, <3>2
  <2> QED BY <1>1, <2>1 DEF IsState
<1> QED BY <1>1, <1>2, UpdateKeeps

\* Every counter has a lane and a turn.
LEMMA CounterFallsApart ==
    ASSUME NEW c \in Counters
    PROVE  \E l \in Lanes, k \in Turns : c = CounterNew(l, k)
<1> DEFINE M == CounterMod
           q == c \div M
           r == c % M
<1>1. M \in Nat /\ M > 0 /\ LANES \in Nat /\ LANES > 0
  BY CounterSizes
<1>2. LANES * M \in Nat /\ c \in Nat /\ c < LANES * M
  BY <1>1 DEF Counters
<1> HIDE DEF M
<1>3. q \in Int /\ r \in Int
  BY <1>1, <1>2
<1>4. 0 <= r /\ r < M
  BY <1>1, <1>2
<1>5. c = M * q + r
  BY <1>1, <1>2, SMTT(30)
<1> HIDE DEF q, r
<1>6. ~(q >= LANES)
  <2> SUFFICES ASSUME q >= LANES PROVE FALSE
    OBVIOUS
  <2>1. M * q >= M * LANES /\ M * LANES = LANES * M
    BY <1>1, <1>3
  <2>2. M * q \in Int
    BY <1>1, <1>3
  <2> QED BY <1>1, <1>2, <1>3, <1>4, <1>5, <2>1, <2>2
<1>7. ~(q <= 0 - 1)
  <2> SUFFICES ASSUME q <= 0 - 1 PROVE FALSE
    OBVIOUS
  <2>1. M * q <= 0 - M
    BY <1>1, <1>3
  <2>2. M * q \in Int
    BY <1>1, <1>3
  <2> QED BY <1>1, <1>2, <1>3, <1>4, <1>5, <2>1, <2>2
<1>8. q \in Lanes /\ r \in Turns
  BY <1>1, <1>3, <1>4, <1>6, <1>7 DEF Lanes, Turns, M
<1>9. M * q = q * M
  BY <1>1, <1>3
<1>10. c = CounterNew(q, r)
  BY <1>5, <1>9 DEF CounterNew, M
<1> QED BY <1>8, <1>10

SpentMore(used, now, id, c) == now = [used EXCEPT ![id][c] = @ + 1]

\* A spending is accepted at the counter of its lane only, and takes the lane on.
LEMMA RemoveValueTakesTurn ==
    ASSUME NEW L, NEW ids, NEW all, ids \subseteq all, NEW used \in [all -> [Counters -> Nat]],
           LedgerInTurn(L, ids, used), NEW id, NEW c \in Counters, NEW v \in Nat,
           NEW N \in remove_value(L, id, c, v), NEW now, SpentMore(used, now, id, c)
    PROVE  /\ id \in DOMAIN L /\ DOMAIN N = DOMAIN L
           /\ LedgerInTurn(N, ids, now)
           /\ N[id].value = L[id].value - v /\ L[id].value \in Nat
           /\ \E l \in Lanes : L[id].spending[l] = c
           /\ \A x \in DOMAIN L : x # id => N[x] = L[x]
<1>1. id \in DOMAIN L /\ id \in ids /\ id \in all /\ IsState(L[id])
  BY DEF remove_value, LedgerInTurn
<1>2. PICK st \in StateSub(L[id], c, v) : N = [L EXCEPT ![id] = st]
  BY DEF remove_value, UpdateAccount
<1>t. PICK t \in {[L[id] EXCEPT !.value = w] : w \in checked_sub(L[id].value, v)},
           s \in next_verify(L[id].spending, c) : st = [t EXCEPT !.spending = s]
  BY DEF StateSub
<1>3. PICK w \in checked_sub(L[id].value, v) : t = [L[id] EXCEPT !.value = w]
  BY <1>t
<1>4. w = L[id].value - v /\ w \in Nat /\ L[id].value \in Nat
  BY <1>1 DEF checked_sub, IsState
<1>5. PICK l \in Lanes, k \in Turns : c = CounterNew(l, k)
  BY CounterFallsApart
<1>6. lane(c) = l
  BY <1>5, LaneAndTurn DEF Lanes
<1>7. L[id].spending[l] = c /\ s = [L[id].spending EXCEPT ![l] = increment(c)]
  BY <1>6 DEF next_verify
<1>8. InTurn(used[id], l, c) /\ used[id] \in [Counters -> Nat]
  BY <1>1, <1>7 DEF LedgerInTurn
<1>9. now[id] = [used[id] EXCEPT ![c] = @ + 1] /\ \A x \in all : x # id => now[x] = used[x]
  BY <1>1 DEF SpentMore
<1>10. InTurn(now[id], l, increment(c))
       /\ \A o \in Lanes : \A d : o # l /\ InTurn(used[id], o, d) => InTurn(now[id], o, d)
  BY <1>8, <1>9, SpendingTakesTurn
<1>11. increment(c) \in Counters
  BY <1>10, CounterInRange DEF InTurn
<1>12. L[id].spending \in [Lanes -> Counters]
  BY <1>1 DEF IsState
<1>13. s \in [Lanes -> Counters] /\ s[l] = increment(c)
       /\ \A o \in Lanes : o # l => s[o] = L[id].spending[o]
  BY <1>7, <1>11, <1>12
<1>14. st.spending = s /\ st.value = w /\ IsState(st)
  <2>1. "spending" \in DOMAIN L[id] /\ "value" \in DOMAIN L[id]
    BY <1>1 DEF IsState
  <2>2. DOMAIN st = DOMAIN L[id] /\ st.spending = s /\ st.value = w
    BY <1>3, <1>t, <2>1
  <2> QED BY <1>4, <1>13, <2>1, <2>2 DEF IsState
<1>15. \A o \in Lanes : InTurn(now[id], o, st.spending[o])
  <2> SUFFICES ASSUME NEW o \in Lanes PROVE InTurn(now[id], o, s[o])
    BY <1>14
  <2>1. CASE o = l
    BY <1>10, <1>13, <2>1
  <2>2. CASE o # l
    <3>1. InTurn(used[id], o, L[id].spending[o])
      BY <1>1 DEF LedgerInTurn
    <3> QED BY <1>10, <1>13, <2>2, <3>1
  <2> QED BY <2>1, <2>2
<1>16. DOMAIN N = DOMAIN L /\ N[id] = st /\ \A x \in DOMAIN L : x # id => N[x] = L[x]
  BY <1>1, <1>2
<1>17. LedgerInTurn(N, ids, now)
  <2>1. ASSUME NEW x \in DOMAIN N
        PROVE  IsState(N[x]) /\ \A o \in Lanes : InTurn(now[x], o, N[x].spending[o])
    <3>1. CASE x = id
      BY <1>14, <1>15, <1>16, <3>1
    <3>2. CASE x # id
      <4>1. x \in all /\ now[x] = used[x] /\ N[x] = L[x]
        BY <1>9, <1>16, <3>2 DEF LedgerInTurn
      <4> QED BY <1>16, <4>1 DEF LedgerInTurn
    <3> QED BY <3>1, <3>2
  <2>2. ASSUME NEW x \in ids, x \notin DOMAIN N PROVE now[x] = NoSpendings
    BY <1>1, <1>9, <1>16, <2>2 DEF LedgerInTurn
  <2>3. DOMAIN N \subseteq ids
    BY <1>16 DEF LedgerInTurn
  <2> QED BY <2>1, <2>2, <2>3 DEF LedgerInTurn
<1> QED BY <1>1, <1>4, <1>7, <1>14, <1>16, <1>17

\* A ledger does not look at what others have spent.
LEMMA OthersSpend ==
    ASSUME NEW L, NEW ids, NEW used, NEW now, LedgerInTurn(L, ids, used),
           \A x \in ids : now[x] = used[x]
    PROVE  LedgerInTurn(L, ids, now)
<1>1. \A x \in DOMAIN L : now[x] = used[x]
  BY DEF LedgerInTurn
<1> QED BY <1>1 DEF LedgerInTurn

-----------------------------------------------------------------------------
(* The rewards of an epoch: a fold over the shares. *)

RewardShare(result, share, env) ==
    UNION {add_rewards_to_account(L, env[1], env[2], share) : L \in result}

Rewards == INSTANCE FoldTheorems WITH Op <- RewardShare

\* Any number of rewards, added one after the other, leave counters in turn.
LEMMA RewardsKeep ==
    ASSUME NEW L, NEW ids, NEW used, LedgerInTurn(L, ids, used), NEW k \in ids, NEW e,
           NEW shares \in Seq(Nat), NEW N \in Rewards!Fold({L}, shares, <<k, e>>)
    PROVE  LedgerInTurn(N, ids, used)
<1> DEFINE env == <<k, e>>
<1>1. N \in Rewards!Fold({L}, shares, env)
  OBVIOUS
<1>2. PICK f : Rewards!IsLoop(f, {L}, shares, env)
                /\ Rewards!Fold({L}, shares, env) = f[Len(shares)]
  BY Rewards!FoldIsLoop
<1> HIDE DEF env
<1>3. Len(shares) \in Nat
  OBVIOUS
<1> DEFINE S == {i \in Nat : \A K \in f[i] : LedgerInTurn(K, ids, used)}
<1>4. 0 \in S
  BY <1>2 DEF Rewards!IsLoop
<1>5. ASSUME NEW i \in Nat, 0 <= i, i < Len(shares), i \in S PROVE i + 1 \in S
  <2>1. i + 1 \in 1 .. Len(shares) /\ (i + 1) - 1 = i
    BY <1>3, <1>5
  <2>2. f[i + 1] = RewardShare(f[i], shares[i + 1], env)
    BY <1>2, <2>1 DEF Rewards!IsLoop
  <2>3. shares[i + 1] \in Nat
    BY <2>1
  <2>4. env[1] = k /\ env[2] = e
    BY DEF env
  <2> SUFFICES ASSUME NEW K \in f[i + 1] PROVE LedgerInTurn(K, ids, used)
    OBVIOUS
  <2>5. PICK J \in f[i] : K \in add_rewards_to_account(J, k, e, shares[i + 1])
    BY <2>2, <2>4 DEF RewardShare
  <2>6. LedgerInTurn(J, ids, used)
    BY <1>5
  <2>7. KeepsCounters(J, K) /\ DOMAIN K = DOMAIN J \cup {k}
    <3>1. AreStates(J)
      BY <2>6 DEF LedgerInTurn, AreStates
    <3>2. PICK v \in Nat : v = shares[i + 1]
      BY <2>3
    <3>3. K \in add_rewards_to_account(J, k, e, v)
      BY <2>5, <3>2
    <3> HIDE DEF S
    <3> QED BY <3>1, <3>3, AddRewardsKeeps
  <2>8. DOMAIN K \subseteq ids
    BY <2>6, <2>7 DEF LedgerInTurn
  <2> QED BY <2>6, <2>7, <2>8, KeptCounters
<1> HIDE DEF S
<1>6. \A i \in 0 .. Len(shares) : i \in S
  BY <1>3, <1>4, <1>5, Rewards!IntervalInduction
<1>7. Len(shares) \in S
  BY <1>3, <1>6
<1> QED BY <1>1, <1>2, <1>7 DEF S

-----------------------------------------------------------------------------
(* The counters of a lane are used in turn. *)

Signatures ==
    [key : Keys \cup Wallets,
     msg : [kind : {"account", "multisig"}, id : Wallets \cup Identifiers,
            value : Amounts, counter : Counters]]

\* The inductive invariant.
AccountsInv ==
    /\ spent \in [Wallets \cup Identifiers -> [Counters -> Nat]]
    /\ signed \subseteq Signatures
    /\ LedgerInTurn(accounts, Wallets, spent)
    /\ multisig = [accounts |-> multisig.accounts, declarations |-> multisig.declarations]
    /\ LedgerInTurn(multisig.accounts, Identifiers, spent)
    /\ DOMAIN multisig.declarations = DOMAIN multisig.accounts
    /\ \A id \in DOMAIN multisig.declarations : multisig.declarations[id] \in Declarations

\* The invariant holds of the empty ledgers.
LEMMA AccountsStart == AccountsInit => AccountsInv
<1> SUFFICES ASSUME AccountsInit PROVE AccountsInv
  OBVIOUS
<1>1. NoSpendings \in [Counters -> Nat]
  BY DEF NoSpendings
<1>2. spent \in [Wallets \cup Identifiers -> [Counters -> Nat]]
      /\ \A id \in Wallets \cup Identifiers : spent[id] = NoSpendings
  BY <1>1 DEF AccountsInit
<1>3. LedgerInTurn(<<>>, Wallets, spent) /\ LedgerInTurn(<<>>, Identifiers, spent)
  BY <1>2 DEF LedgerInTurn
<1>4. accounts = <<>> /\ multisig = [accounts |-> <<>>, declarations |-> <<>>] /\ signed = {}
  BY DEF AccountsInit, MultisigNew
<1> QED BY <1>2, <1>3, <1>4 DEF AccountsInv

\* Signing at a counter at most Ahead turns ahead.
LEMMA SignsCounters ==
    ASSUME NEW L, NEW ids, NEW used, LedgerInTurn(L, ids, used), NEW id \in DOMAIN L,
           NEW c \in SignCounters(L, id)
    PROVE  c \in Counters
<1>1. PICK l \in Lanes, n \in 0 .. Ahead : c = increment_nth(L[id].spending[l], n)
  BY DEF SignCounters, Lanes
<1>2. PICK k \in Turns : L[id].spending[l] = CounterNew(l, k)
  BY DEF LedgerInTurn, InTurn
<1>3. l \in Nat /\ k \in Nat /\ n \in Nat /\ CounterMod \in Nat /\ CounterMod > 0
  BY CounterSizes, ClientConstants DEF Lanes, Turns
<1>4. c = CounterNew(l, (k + n) % CounterMod)
  BY <1>1, <1>2, <1>3, LaneAndTurn DEF increment_nth
<1>5. (k + n) % CounterMod \in Turns
  BY <1>3 DEF Turns
<1> QED BY <1>4, <1>5, CounterInRange

\* A step that changes the single accounts only, and keeps their counters.
LEMMA AccountsKept ==
    ASSUME AccountsInv, KeepsCounters(accounts, accounts'), DOMAIN accounts' \subseteq Wallets,
           UNCHANGED <<multisig, signed, spent>>
    PROVE  AccountsInv'
<1>1. LedgerInTurn(accounts', Wallets, spent)
  BY KeptCounters DEF AccountsInv
<1> QED BY <1>1 DEF AccountsInv

\* A step that changes the multisig accounts only, and keeps their counters.
LEMMA MultisigKept ==
    ASSUME AccountsInv, NEW A, multisig' = [multisig EXCEPT !.accounts = A],
           KeepsCounters(multisig.accounts, A), DOMAIN A = DOMAIN multisig.accounts,
           UNCHANGED <<accounts, signed, spent>>
    PROVE  AccountsInv' /\ multisig'.accounts = A
<1>1. multisig' = [accounts |-> A, declarations |-> multisig.declarations]
  BY DEF AccountsInv
<1>2. multisig'.accounts = A /\ multisig'.declarations = multisig.declarations
  BY <1>1
<1>3. LedgerInTurn(A, Identifiers, spent)
  <2>1. LedgerInTurn(multisig.accounts, Identifiers, spent)
    BY DEF AccountsInv
  <2>2. DOMAIN A \subseteq Identifiers
    BY <2>1 DEF LedgerInTurn
  <2> QED BY <2>1, <2>2, KeptCounters
<1> QED BY <1>1, <1>2, <1>3 DEF AccountsInv

\* A payment to an account keeps the invariant.
LEMMA PayAccountInTurn ==
    ASSUME AccountsInv, NEW k \in Wallets, NEW v \in Amounts, PayAccount(k, v)
    PROVE  AccountsInv'
<1>1. \A id \in DOMAIN accounts : IsState(accounts[id])
  BY DEF AccountsInv, LedgerInTurn
<1>2. accounts' \in add_value_or_account(accounts, k, v) /\ v \in Nat
  BY ClientConstants DEF PayAccount
<1>3. KeepsCounters(accounts, accounts') /\ DOMAIN accounts' = DOMAIN accounts \cup {k}
  BY <1>1, <1>2, AddValueOrAccountKeeps
<1>4. DOMAIN accounts' \subseteq Wallets
  BY <1>3 DEF AccountsInv, LedgerInTurn
<1> QED BY <1>3, <1>4, AccountsKept DEF PayAccount

\* A payment to a group address keeps the invariant.
LEMMA PayGroupInTurn ==
    ASSUME AccountsInv, NEW k \in Wallets, NEW v \in Amounts, PayGroup(k, v)
    PROVE  AccountsInv'
<1>1. \A id \in DOMAIN accounts : IsState(accounts[id])
  BY DEF AccountsInv, LedgerInTurn
<1>2. CASE k \in DOMAIN accounts
  BY <1>2 DEF PayGroup, AccountsInv
<1>3. CASE k \notin DOMAIN accounts
  <2>1. accounts' \in add_value_or_account(accounts, k, 0)
    BY <1>3 DEF PayGroup
  <2>2. KeepsCounters(accounts, accounts') /\ DOMAIN accounts' = DOMAIN accounts \cup {k}
    BY <1>1, <2>1, AddValueOrAccountKeeps
  <2>3. DOMAIN accounts' \subseteq Wallets
    BY <2>2 DEF AccountsInv, LedgerInTurn
  <2> QED BY <2>2, <2>3, AccountsKept DEF PayGroup
<1> QED BY <1>2, <1>3

\* A payment to a multisig account keeps the invariant, and takes from none.
LEMMA PayMultisigInTurn ==
    ASSUME AccountsInv, NEW id \in Identifiers, NEW v \in Amounts, PayMultisig(id, v)
    PROVE  /\ AccountsInv'
           /\ \A x \in DOMAIN multisig.accounts :
                ~(multisig'.accounts[x].value < multisig.accounts[x].value)
<1> DEFINE L == multisig.accounts
<1>1. \A x \in DOMAIN L : IsState(L[x])
  BY DEF AccountsInv, LedgerInTurn
<1>2. PICK A \in add_value(L, id, v) : multisig' = [multisig EXCEPT !.accounts = A]
  BY DEF PayMultisig, MultisigAddValue
<1>3. id \in DOMAIN L /\ A \in UpdateAccount(L, id, StateAdd(L[id], v)) /\ v \in Nat
  BY <1>2, ClientConstants DEF add_value
<1>4. \A st \in StateAdd(L[id], v) : IsState(st) /\ st.spending = L[id].spending
  BY <1>1, <1>3, AddKeeps
<1>5. KeepsCounters(L, A) /\ DOMAIN A = DOMAIN L
  BY <1>1, <1>3, <1>4, UpdateKeeps
<1>6. AccountsInv' /\ multisig'.accounts = A
  BY <1>2, <1>5, MultisigKept DEF PayMultisig
<1>7. PICK st \in StateAdd(L[id], v) : A = [L EXCEPT ![id] = st]
  BY <1>3 DEF UpdateAccount
<1>8. PICK w \in checked_add(L[id].value, v) : st = [L[id] EXCEPT !.value = w]
  BY DEF StateAdd
<1>9. L[id].value \in Nat /\ w = L[id].value + v /\ st.value = w
  BY <1>1, <1>3, <1>8 DEF checked_add, IsState
<1>10. ASSUME NEW x \in DOMAIN L PROVE ~(A[x].value < L[x].value)
  <2>1. CASE x = id
    <3>1. A[x] = st
      BY <1>7, <2>1
    <3> QED BY <1>3, <1>9, <2>1, <3>1
  <2>2. CASE x # id
    <3>1. A[x] = L[x] /\ L[x].value \in Nat
      BY <1>1, <1>7, <2>2 DEF IsState
    <3> QED BY <3>1
  <2> QED BY <2>1, <2>2
<1> QED BY <1>6, <1>10

\* A wallet's signature keeps the invariant.
LEMMA SignSingleInTurn ==
    ASSUME AccountsInv, NEW k \in Wallets, NEW v \in Amounts, SignSingle(k, v)
    PROVE  AccountsInv'
<1>1. PICK c \in SignCounters(accounts, k) :
        signed' = signed \cup {[key |-> k, msg |-> WitnessAccountData(k, v, c)]}
  BY DEF SignSingle
<1>2. c \in Counters
  BY SignsCounters DEF AccountsInv, SignSingle
<1>3. [key |-> k, msg |-> WitnessAccountData(k, v, c)] \in Signatures
  BY <1>2 DEF Signatures, WitnessAccountData, Counted, witness_data_common
<1>4. signed' \subseteq Signatures
  BY <1>1, <1>3 DEF AccountsInv
<1> QED BY <1>4 DEF AccountsInv, SignSingle

\* An owner's signature keeps the invariant.
LEMMA SignMultisigInTurn ==
    ASSUME AccountsInv, NEW k \in Keys, NEW id \in Identifiers, NEW v \in Amounts,
           SignMultisig(k, id, v)
    PROVE  AccountsInv'
<1>1. PICK c \in SignCounters(multisig.accounts, id) :
        signed' = signed \cup {[key |-> k, msg |-> WitnessMultisigData(id, v, c)]}
  BY DEF SignMultisig
<1>2. c \in Counters
  BY SignsCounters DEF AccountsInv, SignMultisig
<1>3. [key |-> k, msg |-> WitnessMultisigData(id, v, c)] \in Signatures
  BY <1>2 DEF Signatures, WitnessMultisigData, Counted, witness_data_common
<1>4. signed' \subseteq Signatures
  BY <1>1, <1>3 DEF AccountsInv
<1> QED BY <1>4 DEF AccountsInv, SignMultisig

\* Counting one spending changes the count of one account.
LEMMA CountMore ==
    ASSUME NEW all, NEW used \in [all -> [Counters -> Nat]], NEW id \in all,
           NEW c \in Counters, NEW now, SpentMore(used, now, id, c)
    PROVE  now \in [all -> [Counters -> Nat]] /\ \A x \in all : x # id => now[x] = used[x]
<1> DEFINE more == [used[id] EXCEPT ![c] = @ + 1]
<1>1. used[id] \in [Counters -> Nat]
  OBVIOUS
<1>2. more \in [Counters -> Nat]
  BY <1>1
<1>3. now = [used EXCEPT ![id] = more]
  BY DEF SpentMore
<1> HIDE DEF more
<1> QED BY <1>2, <1>3

\* A spending by a single key, signed at any time, keeps the invariant.
LEMMA SpendSingleInTurn ==
    ASSUME AccountsInv, NEW s \in signed, SpendSingle(s)
    PROVE  AccountsInv'
<1> DEFINE all == Wallets \cup Identifiers
           m == s.msg
<1>1. s \in Signatures
  BY DEF AccountsInv
<1>2. m.counter \in Counters /\ m.value \in Nat
  BY <1>1, ClientConstants DEF Signatures
<1>3. accounts' \in remove_value(accounts, m.id, m.counter, m.value)
      /\ SpentMore(spent, spent', m.id, m.counter)
  BY DEF SpendSingle, CountSpending, SpentMore
<1>4. LedgerInTurn(accounts, Wallets, spent) /\ spent \in [all -> [Counters -> Nat]]
      /\ Wallets \subseteq all
  BY DEF AccountsInv
<1> HIDE DEF m, all
<1>5. m.id \in DOMAIN accounts /\ LedgerInTurn(accounts', Wallets, spent')
  BY <1>2, <1>3, <1>4, RemoveValueTakesTurn
<1>6. m.id \in Wallets /\ m.id \notin Identifiers
  BY <1>4, <1>5, ClientConstants DEF LedgerInTurn
<1>7. spent' \in [all -> [Counters -> Nat]] /\ \A x \in Identifiers : spent'[x] = spent[x]
  <2>1. m.id \in all /\ Identifiers \subseteq all
    BY <1>6 DEF all
  <2>2. spent' \in [all -> [Counters -> Nat]] /\ \A x \in all : x # m.id => spent'[x] = spent[x]
    BY <1>2, <1>3, <1>4, <2>1, CountMore
  <2> QED BY <1>6, <2>1, <2>2
<1>8. LedgerInTurn(multisig.accounts, Identifiers, spent')
  BY <1>7, OthersSpend DEF AccountsInv
<1> QED BY <1>5, <1>7, <1>8 DEF AccountsInv, SpendSingle, all

-----------------------------------------------------------------------------
(* Witnesses of multisig accounts. *)

\* A witness holds signatures that were made, at indexes of depth 1 or 2.
WitnessOfSigned(w) ==
    \A ti \in DOMAIN w :
        w[ti].sig \in signed /\ ((\E i \in Indexes : ti = D1(i)) \/ ti = D2(0, 1))

\* The witnesses that can be put together hold signatures made before.
LEMMA WitnessesAreSigned ==
    \A w \in Witnesses : WitnessOfSigned(w)
<1> DEFINE sigs == {s \in signed : s.msg.kind = "multisig"}
           places == {D1(i) : i \in Indexes} \cup {D2(0, 1)}
           add(ws) == UNION {WitnessAppend(w, ti, s.key, s) : w \in ws, ti \in places, s \in sigs}
<1>1. Witnesses = add({<<>>}) \cup add(add({<<>>})) \cup add(add(add({<<>>})))
  BY DEF Witnesses
<1>2. ASSUME NEW ws, \A w \in ws : WitnessOfSigned(w)
      PROVE  \A w \in add(ws) : WitnessOfSigned(w)
  <2> SUFFICES ASSUME NEW u \in add(ws) PROVE WitnessOfSigned(u)
    OBVIOUS
  <2>1. PICK w \in ws, ti \in places, s \in sigs : u \in WitnessAppend(w, ti, s.key, s)
    OBVIOUS
  <2>2. u = Extend(w, ti, [key |-> s.key, sig |-> s])
    BY <2>1 DEF WitnessAppend
  <2>3. DOMAIN u = DOMAIN w \cup {ti} /\ u[ti].sig = s
        /\ \A x \in DOMAIN w : x # ti => u[x] = w[x]
    BY <2>2 DEF Extend
  <2>4. s \in signed /\ ((\E i \in Indexes : ti = D1(i)) \/ ti = D2(0, 1))
    BY <2>1
  <2>5. WitnessOfSigned(w)
    BY <1>2, <2>1
  <2> QED BY <2>3, <2>4, <2>5 DEF WitnessOfSigned
<1> HIDE DEF add
<1>3. \A w \in {<<>>} : WitnessOfSigned(w)
  BY DEF WitnessOfSigned
<1>4. \A w \in add({<<>>}) : WitnessOfSigned(w)
  BY <1>2, <1>3
<1>5. \A w \in add(add({<<>>})) : WitnessOfSigned(w)
  BY <1>2, <1>4
<1>6. \A w \in add(add(add({<<>>}))) : WitnessOfSigned(w)
  BY <1>2, <1>5
<1> QED BY <1>1, <1>4, <1>5, <1>6

\* The owners that have signed a message.
SignedBy(owners, msg) ==
    {i \in DOMAIN owners : [key |-> owners[i].hash, msg |-> msg] \in signed}

\* A witness that verifies has signatures of as many owners as the threshold asks.
LEMMA VerifiedIsSigned ==
    ASSUME NEW decl \in Declarations, NEW w, WitnessOfSigned(w), NEW msg,
           WitnessVerify(w, decl, msg)
    PROVE  Cardinality(SignedBy(decl.owners, msg)) >= decl.threshold
<1> DEFINE ks == {ti.at[1] : ti \in DOMAIN w}
           keys == [i \in ks |-> w[D1(i)].key]
           owners == decl.owners
           n == Len(owners)
           G == SignedBy(owners, msg)
           up == [i \in ks |-> i + 1]
<1>1. decl.threshold \in Nat /\ n \in Nat /\ DOMAIN owners = 1 .. n
  BY ClientConstants
<1>2. verify_identifier_threshold(decl, keys)
  BY DEF WitnessVerify
<1>3. DOMAIN keys = ks
  OBVIOUS
<1>4. Cardinality(ks) >= decl.threshold
  BY <1>2, <1>3 DEF verify_identifier_threshold
<1>5. \A i \in ks : i < n
  BY <1>2, <1>3 DEF verify_identifier_threshold
<1>6. [i \in DOMAIN PutKeys(decl, keys) |-> PutKeys(decl, keys)[i].hash]
        = [i \in DOMAIN owners |-> owners[i].hash]
  BY <1>2 DEF verify_identifier_threshold, owners_to_identifier, to_identifier
<1>7. ASSUME NEW i \in ks
      PROVE  i \in Nat /\ D1(i) \in DOMAIN w
  <2>1. PICK ti \in DOMAIN w : i = ti.at[1]
    OBVIOUS
  <2>2. ti.depth = 1
    BY DEF WitnessVerify
  <2>3. ti # D2(0, 1)
    BY <2>2 DEF D2
  <2>4. PICK j \in Indexes : ti = D1(j)
    BY <2>3 DEF WitnessOfSigned
  <2>5. i = j /\ j \in Nat
    BY <2>1, <2>4, ClientConstants DEF D1, Indexes
  <2> QED BY <2>4, <2>5
<1>8. ASSUME NEW i \in ks PROVE i + 1 \in G
  <2>1. i \in Nat /\ i < n /\ i + 1 \in 1 .. n /\ (i + 1) - 1 = i
    <3>1. i \in Nat
      BY <1>7
    <3>2. i < n
      BY <1>5
    <3> HIDE DEF ks, n
    <3> QED BY <1>1, <3>1, <3>2
  <2>2. w[D1(i)].sig = [key |-> w[D1(i)].key, msg |-> msg] /\ w[D1(i)].sig \in signed
    <3>1. D1(i) \in DOMAIN w
      BY <1>7
    <3> QED BY <3>1 DEF WitnessVerify, WitnessOfSigned
  <2>3. PutKeys(decl, keys)[i + 1] = Owner(keys[i])
    BY <1>1, <1>3, <2>1 DEF PutKeys
  <2>4. DOMAIN PutKeys(decl, keys) = DOMAIN owners
    BY DEF PutKeys
  <2>5. PutKeys(decl, keys)[i + 1].hash = owners[i + 1].hash
    <3> DEFINE h == PutKeys(decl, keys)
    <3> HIDE DEF h
    <3>1. i + 1 \in DOMAIN h /\ i + 1 \in DOMAIN owners
      BY <1>1, <2>1, <2>4 DEF h
    <3>2. [x \in DOMAIN h |-> h[x].hash][i + 1] = [x \in DOMAIN owners |-> owners[x].hash][i + 1]
      BY <1>6 DEF h
    <3> QED BY <3>1, <3>2 DEF h
  <2>6. owners[i + 1].hash = w[D1(i)].key
    BY <2>3, <2>5 DEF Owner
  <2> QED BY <1>1, <2>1, <2>2, <2>6 DEF SignedBy
<1>9. IsFiniteSet(G)
  <2>1. IsFiniteSet(1 .. n)
    BY <1>1, FS_Interval
  <2>2. G \subseteq 1 .. n
    BY <1>1 DEF SignedBy
  <2> QED BY <2>1, <2>2, FS_Subset
<1> HIDE DEF ks, G
<1>10. up \in Injection(ks, G)
  <2>1. up \in [ks -> G]
    BY <1>8
  <2>2. \A a, b \in ks : up[a] = up[b] => a = b
    BY <1>7
  <2> HIDE DEF up
  <2>3. DOMAIN up = ks
    BY <2>1
  <2> QED BY <2>1, <2>2, <2>3 DEF Injection, IsInjective
<1>11. Cardinality(ks) <= Cardinality(G) /\ IsFiniteSet(ks)
  <2> HIDE DEF up
  <2> QED BY <1>9, <1>10, FS_Injection
<1>12. Cardinality(ks) \in Nat /\ Cardinality(G) \in Nat
  BY <1>9, <1>11, FS_CardinalityType
<1>13. Cardinality(G) >= decl.threshold
  BY <1>1, <1>4, <1>11, <1>12
<1> QED BY <1>13 DEF G

\* What the threshold has to be met for in a step.
PaidAreSigned ==
    \A id \in DOMAIN multisig.accounts \cap DOMAIN multisig'.accounts :
        multisig'.accounts[id].value < multisig.accounts[id].value =>
            EnoughHaveSigned(id, multisig.accounts[id].value - multisig'.accounts[id].value)

\* Steps that leave the multisig ledger alone take nothing from its accounts.
LEMMA NoOnePays ==
    ASSUME AccountsInv, UNCHANGED multisig
    PROVE  PaidAreSigned
<1>1. \A id \in DOMAIN multisig.accounts : multisig.accounts[id].value \in Nat
  BY DEF AccountsInv, LedgerInTurn, IsState
<1> QED BY <1>1 DEF PaidAreSigned

\* A spending with enough owners' signatures keeps the invariant, and only it
\* pays.
LEMMA SpendMultisigInTurn ==
    ASSUME AccountsInv, NEW s \in signed, SpendMultisig(s.msg)
    PROVE  AccountsInv' /\ PaidAreSigned
<1> DEFINE all == Wallets \cup Identifiers
           m == s.msg
           L == multisig.accounts
           decl == multisig.declarations[m.id]
<1>1. s \in Signatures
  BY DEF AccountsInv
<1>2. m.counter \in Counters /\ m.value \in Nat
      /\ m = [kind |-> m.kind, id |-> m.id, value |-> m.value, counter |-> m.counter]
  BY <1>1, ClientConstants DEF Signatures
<1>3. PICK w \in Witnesses : multisig' \in
        input_multi_account_verify(multisig, m.id, m, w, m.counter, m.value)
  BY DEF SpendMultisig
<1>4. m.kind = "multisig" /\ SpentMore(spent, spent', m.id, m.counter)
      /\ UNCHANGED <<accounts, signed>>
  BY DEF SpendMultisig, CountSpending, SpentMore
<1> HIDE DEF m
<1>5. multisig' \in MultisigRemoveValue(multisig, m.id, m.counter, m.value)
      /\ WitnessVerify(w, decl, m)
  BY <1>3 DEF input_multi_account_verify
<1>6. m.id \in DOMAIN multisig.declarations
  BY <1>5 DEF MultisigRemoveValue
<1>7. PICK A \in remove_value(L, m.id, m.counter, m.value) :
        multisig' = [multisig EXCEPT !.accounts = A]
  BY <1>5, <1>6 DEF MultisigRemoveValue
<1>8. multisig' = [accounts |-> A, declarations |-> multisig.declarations]
  BY <1>7 DEF AccountsInv
<1>9. multisig'.accounts = A /\ multisig'.declarations = multisig.declarations
  BY <1>8
<1>10. LedgerInTurn(L, Identifiers, spent) /\ spent \in [all -> [Counters -> Nat]]
       /\ Identifiers \subseteq all
  BY DEF AccountsInv
<1>decl. decl \in Declarations
  BY <1>6 DEF AccountsInv
<1> HIDE DEF all, L, decl
<1>11. /\ m.id \in DOMAIN L /\ DOMAIN A = DOMAIN L
       /\ LedgerInTurn(A, Identifiers, spent')
       /\ A[m.id].value = L[m.id].value - m.value /\ L[m.id].value \in Nat
       /\ \E l \in Lanes : L[m.id].spending[l] = m.counter
       /\ \A x \in DOMAIN L : x # m.id => A[x] = L[x]
  <2>1. PICK id \in {m.id}, c \in Counters, v \in Nat : id = m.id /\ c = m.counter /\ v = m.value
    BY <1>2
  <2>2. A \in remove_value(L, id, c, v) /\ SpentMore(spent, spent', id, c)
    BY <1>4, <1>7, <2>1
  <2>3. /\ id \in DOMAIN L /\ DOMAIN A = DOMAIN L
        /\ LedgerInTurn(A, Identifiers, spent')
        /\ A[id].value = L[id].value - v /\ L[id].value \in Nat
        /\ \E l \in Lanes : L[id].spending[l] = c
        /\ \A x \in DOMAIN L : x # id => A[x] = L[x]
    BY <1>10, <2>2, RemoveValueTakesTurn, SMTT(30)
  <2> QED BY <2>1, <2>3
<1>12. m.id \in Identifiers /\ m.id \notin Wallets
  BY <1>10, <1>11, ClientConstants DEF LedgerInTurn
<1>13. spent' \in [all -> [Counters -> Nat]] /\ \A x \in Wallets : spent'[x] = spent[x]
  <2>1. m.id \in all /\ Wallets \subseteq all
    BY <1>12 DEF all
  <2>2. spent' \in [all -> [Counters -> Nat]] /\ \A x \in all : x # m.id => spent'[x] = spent[x]
    BY <1>2, <1>4, <1>10, <2>1, CountMore
  <2> QED BY <1>12, <2>1, <2>2
<1>14. LedgerInTurn(accounts, Wallets, spent')
  BY <1>13, OthersSpend DEF AccountsInv
<1>15. AccountsInv'
  <2>1. spent' \in [Wallets \cup Identifiers -> [Counters -> Nat]]
    BY <1>13 DEF all
  <2>2. multisig' = [accounts |-> multisig'.accounts, declarations |-> multisig'.declarations]
    BY <1>8, <1>9
  <2>3. LedgerInTurn(multisig'.accounts, Identifiers, spent')
    BY <1>9, <1>11
  <2>4. LedgerInTurn(accounts', Wallets, spent') /\ signed' \subseteq Signatures
    BY <1>4, <1>14 DEF AccountsInv
  <2>5. DOMAIN multisig'.declarations = DOMAIN multisig'.accounts
    BY <1>9, <1>11 DEF AccountsInv, L
  <2>6. \A id \in DOMAIN multisig'.declarations : multisig'.declarations[id] \in Declarations
    BY <1>9 DEF AccountsInv
  <2> QED BY <2>1, <2>2, <2>3, <2>4, <2>5, <2>6 DEF AccountsInv
<1>16. PaidAreSigned
  <2> SUFFICES ASSUME NEW id \in DOMAIN L \cap DOMAIN A, A[id].value < L[id].value
               PROVE  EnoughHaveSigned(id, L[id].value - A[id].value)
    BY <1>9 DEF PaidAreSigned, L
  <2>1. id = m.id
    <3> SUFFICES ASSUME id # m.id PROVE FALSE
      OBVIOUS
    <3>1. A[id] = L[id] /\ L[id].value \in Nat
      BY <1>10, <1>11 DEF LedgerInTurn, IsState
    <3> QED BY <3>1
  <2>2. L[id].value - A[id].value = m.value
    BY <1>2, <1>11, <2>1
  <2>3. PICK l \in Lanes : L[m.id].spending[l] = m.counter
    BY <1>11
  <2>4. m = WitnessMultisigData(id, m.value, L[id].spending[l])
    BY <1>2, <1>4, <2>1, <2>3 DEF WitnessMultisigData, Counted, witness_data_common
  <2>5. Cardinality(SignedBy(decl.owners, m)) >= decl.threshold
    BY <1>decl, <1>5, WitnessesAreSigned, VerifiedIsSigned
  <2>6. EnoughHaveSigned(id, m.value)
    BY <2>1, <2>4, <2>5 DEF EnoughHaveSigned, SignedBy, L, Lanes, decl
  <2> QED BY <2>2, <2>6
<1> QED BY <1>15, <1>16

-----------------------------------------------------------------------------
(* The other steps, and the theorems. *)

\* A declaration keeps the invariant and takes nothing.
LEMMA DeclareInTurn ==
    ASSUME AccountsInv, NEW decl \in Declarations, Declare(decl)
    PROVE  AccountsInv' /\ PaidAreSigned
<1> DEFINE id == to_identifier(decl)
           L == multisig.accounts
           D == multisig.declarations
<1>1. id \notin DOMAIN D /\ multisig' \in
        {[accounts |-> A, declarations |-> Extend(D, id, decl)] : A \in add_account(L, id, 0)}
  BY DEF Declare, MultisigAddAccount
<1>2. PICK A \in add_account(L, id, 0) :
        multisig' = [accounts |-> A, declarations |-> Extend(D, id, decl)]
  BY <1>1
<1>3. id \notin DOMAIN L /\ A = Extend(L, id, StateNew(0)) /\ id \in Identifiers
  BY <1>2 DEF add_account, Identifiers
<1> HIDE DEF id
<1>4. \A x \in DOMAIN L : IsState(L[x])
  BY DEF AccountsInv, LedgerInTurn
<1>5. KeepsCounters(L, A) /\ DOMAIN A = DOMAIN L \cup {id}
  BY <1>3, <1>4, DefaultIsState, ExtendKeeps
<1>6. multisig'.accounts = A /\ multisig'.declarations = Extend(D, id, decl)
  BY <1>2
<1>7. LedgerInTurn(A, Identifiers, spent)
  <2>1. LedgerInTurn(L, Identifiers, spent) /\ DOMAIN A \subseteq Identifiers
    BY <1>3, <1>5 DEF AccountsInv, LedgerInTurn
  <2> HIDE DEF L
  <2> QED BY <1>5, <2>1, KeptCounters
<1>8. DOMAIN Extend(D, id, decl) = DOMAIN A
      /\ \A x \in DOMAIN Extend(D, id, decl) : Extend(D, id, decl)[x] \in Declarations
  BY <1>5 DEF AccountsInv, Extend
<1>9. AccountsInv'
  BY <1>2, <1>6, <1>7, <1>8 DEF AccountsInv, Declare
<1>10. PaidAreSigned
  <2> SUFFICES ASSUME NEW x \in DOMAIN L \cap DOMAIN A PROVE ~(A[x].value < L[x].value)
    BY <1>6 DEF PaidAreSigned
  <2>1. A[x] = L[x] /\ L[x].value \in Nat
    BY <1>3, <1>4 DEF Extend, IsState
  <2> QED BY <2>1
<1> QED BY <1>9, <1>10

\* The removal of a declaration keeps the invariant and takes nothing.
LEMMA UndeclareInTurn ==
    ASSUME AccountsInv, NEW id \in Identifiers, Undeclare(id)
    PROVE  AccountsInv' /\ PaidAreSigned
<1> DEFINE L == multisig.accounts
           D == multisig.declarations
<1>1. PICK A \in remove_account(L, id) :
        multisig' = [accounts |-> A, declarations |-> Drop(D, id)]
  BY DEF Undeclare, MultisigRemoveAccount
<1>2. id \in DOMAIN L /\ A = Drop(L, id)
  BY <1>1 DEF remove_account
<1>3. DOMAIN A = DOMAIN L \ {id} /\ \A x \in DOMAIN A : A[x] = L[x]
  BY <1>2 DEF Drop
<1>4. DOMAIN Drop(D, id) = DOMAIN D \ {id} /\ \A x \in DOMAIN D \ {id} : Drop(D, id)[x] = D[x]
  BY DEF Drop
<1>5. multisig'.accounts = A /\ multisig'.declarations = Drop(D, id)
  BY <1>1
<1>6. spent \in [Wallets \cup Identifiers -> [Counters -> Nat]]
      /\ spent' = [spent EXCEPT ![id] = NoSpendings] /\ NoSpendings \in [Counters -> Nat]
  BY DEF AccountsInv, Undeclare, NoSpendings
<1>7. /\ spent' \in [Wallets \cup Identifiers -> [Counters -> Nat]]
      /\ spent'[id] = NoSpendings /\ id \notin Wallets
      /\ \A x \in Wallets \cup Identifiers : x # id => spent'[x] = spent[x]
  BY <1>6, ClientConstants
<1>8. LedgerInTurn(L, Identifiers, spent)
  BY DEF AccountsInv
<1> HIDE DEF L, D
<1>9. LedgerInTurn(A, Identifiers, spent')
  <2>1. DOMAIN A \subseteq Identifiers
    BY <1>3, <1>8 DEF LedgerInTurn
  <2>2. ASSUME NEW x \in DOMAIN A
        PROVE  IsState(A[x]) /\ \A l \in Lanes : InTurn(spent'[x], l, A[x].spending[l])
    <3>1. x \in DOMAIN L /\ A[x] = L[x] /\ spent'[x] = spent[x]
      BY <1>3, <1>7, <2>1
    <3> QED BY <1>8, <3>1 DEF LedgerInTurn
  <2>3. ASSUME NEW x \in Identifiers, x \notin DOMAIN A PROVE spent'[x] = NoSpendings
    BY <1>3, <1>7, <1>8, <2>3 DEF LedgerInTurn
  <2> QED BY <2>1, <2>2, <2>3 DEF LedgerInTurn
<1>10. LedgerInTurn(accounts, Wallets, spent')
  BY <1>7, OthersSpend DEF AccountsInv
<1>11. AccountsInv'
  <2>1. DOMAIN multisig'.declarations = DOMAIN multisig'.accounts
    BY <1>3, <1>4, <1>5 DEF AccountsInv, L, D
  <2>2. \A x \in DOMAIN multisig'.declarations : multisig'.declarations[x] \in Declarations
    BY <1>4, <1>5 DEF AccountsInv, D
  <2> QED BY <1>1, <1>5, <1>7, <1>9, <1>10, <2>1, <2>2 DEF AccountsInv, Undeclare
<1>12. PaidAreSigned
  <2> SUFFICES ASSUME NEW x \in DOMAIN L \cap DOMAIN A PROVE ~(A[x].value < L[x].value)
    BY <1>5 DEF PaidAreSigned, L
  <2>1. A[x] = L[x] /\ L[x].value \in Nat
    BY <1>3, <1>8 DEF LedgerInTurn, IsState
  <2> QED BY <2>1
<1> QED BY <1>11, <1>12

\* A delegation keeps the invariant and takes nothing.
LEMMA DelegateInTurn ==
    ASSUME AccountsInv, NEW id \in Wallets \cup Identifiers, NEW d \in Delegations,
           Delegate(id, d)
    PROVE  AccountsInv' /\ PaidAreSigned
<1>1. PICK ratio \in DelegationRatioNew(d[1], d[2]) :
        \/ accounts' \in set_delegation(accounts, id, ratio) /\ UNCHANGED multisig
        \/ multisig' \in MultisigSetDelegation(multisig, id, ratio) /\ UNCHANGED accounts
  BY DEF Delegate
<1>2. UNCHANGED <<signed, spent>>
  BY DEF Delegate
<1>3. CASE accounts' \in set_delegation(accounts, id, ratio) /\ UNCHANGED multisig
  <2>1. \A x \in DOMAIN accounts : IsState(accounts[x])
    BY DEF AccountsInv, LedgerInTurn
  <2>2. KeepsCounters(accounts, accounts') /\ DOMAIN accounts' = DOMAIN accounts
    BY <1>3, <2>1, SetDelegationKeeps
  <2>3. DOMAIN accounts' \subseteq Wallets
    BY <2>2 DEF AccountsInv, LedgerInTurn
  <2> QED BY <1>2, <1>3, <2>2, <2>3, AccountsKept, NoOnePays
<1>4. CASE multisig' \in MultisigSetDelegation(multisig, id, ratio) /\ UNCHANGED accounts
  <2> DEFINE L == multisig.accounts
  <2>1. \A x \in DOMAIN L : IsState(L[x])
    BY DEF AccountsInv, LedgerInTurn
  <2>2. PICK A \in set_delegation(L, id, ratio) : multisig' = [multisig EXCEPT !.accounts = A]
    BY <1>4 DEF MultisigSetDelegation
  <2>3. KeepsCounters(L, A) /\ DOMAIN A = DOMAIN L /\ \A x \in DOMAIN L : A[x].value = L[x].value
    BY <2>1, <2>2, SetDelegationKeeps
  <2>4. AccountsInv' /\ multisig'.accounts = A
    BY <1>2, <1>4, <2>2, <2>3, MultisigKept
  <2>5. ASSUME NEW x \in DOMAIN L PROVE ~(A[x].value < L[x].value)
    <3>1. A[x].value = L[x].value /\ L[x].value \in Nat
      BY <2>1, <2>3 DEF IsState
    <3> QED BY <3>1
  <2> QED BY <2>4, <2>5 DEF PaidAreSigned
<1> QED BY <1>1, <1>3, <1>4

\* Minting keeps the invariant.
LEMMA MintInTurn ==
    ASSUME AccountsInv, NEW k \in Wallets, NEW v \in Amounts, Mint(k, v)
    PROVE  AccountsInv'
<1>1. \A id \in DOMAIN accounts : IsState(accounts[id])
  BY DEF AccountsInv, LedgerInTurn
<1>2. KeepsCounters(accounts, accounts') /\ DOMAIN accounts' = DOMAIN accounts
  BY <1>1, TokenAddKeeps DEF Mint
<1>3. DOMAIN accounts' \subseteq Wallets
  BY <1>2 DEF AccountsInv, LedgerInTurn
<1> QED BY <1>2, <1>3, AccountsKept DEF Mint

\* Rewards of an epoch keep the invariant.
LEMMA RewardInTurn ==
    ASSUME AccountsInv, NEW k \in Wallets, NEW shares \in Seq(Nat), Reward(k, shares)
    PROVE  AccountsInv'
<1>1. accounts' \in Rewards!Fold({accounts}, shares, <<k, epoch>>)
  BY DEF Reward, Rewards!Fold, Rewards!Greatest, RewardShare, FoldLeft, MapThenFoldSet, Max
<1>2. LedgerInTurn(accounts', Wallets, spent)
  BY <1>1, RewardsKeep DEF AccountsInv
<1>3. UNCHANGED <<multisig, signed, spent>>
  BY DEF Reward
<1> QED BY <1>2, <1>3 DEF AccountsInv

\* Every step keeps the invariant, and what it takes from a multisig account is
\* signed.
LEMMA AccountsStep == AccountsInv /\ [AccountsNext]_accountsVars => AccountsInv' /\ PaidAreSigned
<1> SUFFICES ASSUME AccountsInv, [AccountsNext]_accountsVars PROVE AccountsInv' /\ PaidAreSigned
  OBVIOUS
<1>1. ASSUME NEW k \in Wallets, NEW v \in Amounts,
             PayAccount(k, v) \/ PayGroup(k, v) \/ SignSingle(k, v) \/ Mint(k, v)
      PROVE  AccountsInv' /\ PaidAreSigned
  <2>1. AccountsInv'
    BY <1>1, PayAccountInTurn, PayGroupInTurn, SignSingleInTurn, MintInTurn
  <2>2. UNCHANGED multisig
    BY <1>1 DEF PayAccount, PayGroup, SignSingle, Mint
  <2> QED BY <2>1, <2>2, NoOnePays
<1>2. ASSUME NEW k \in Wallets, SpendGroup(k) PROVE AccountsInv' /\ PaidAreSigned
  <2>1. UNCHANGED <<accounts, multisig, signed, spent>>
    BY <1>2 DEF SpendGroup
  <2> QED BY <2>1, NoOnePays DEF AccountsInv
<1>3. ASSUME NEW id \in Identifiers, NEW v \in Amounts, PayMultisig(id, v)
      PROVE  AccountsInv' /\ PaidAreSigned
  BY <1>3, PayMultisigInTurn DEF PaidAreSigned
<1>4. ASSUME NEW k \in Keys, NEW id \in Identifiers, NEW v \in Amounts, SignMultisig(k, id, v)
      PROVE  AccountsInv' /\ PaidAreSigned
  <2>1. UNCHANGED multisig
    BY <1>4 DEF SignMultisig
  <2> QED BY <1>4, <2>1, SignMultisigInTurn, NoOnePays
<1>5. ASSUME NEW s \in signed, SpendSingle(s) PROVE AccountsInv' /\ PaidAreSigned
  <2>1. UNCHANGED multisig
    BY <1>5 DEF SpendSingle
  <2> QED BY <1>5, <2>1, SpendSingleInTurn, NoOnePays
<1>6. ASSUME NEW s \in signed, SpendMultisig(s.msg) PROVE AccountsInv' /\ PaidAreSigned
  BY <1>6, SpendMultisigInTurn
<1>7. ASSUME NEW decl \in Declarations, Declare(decl) PROVE AccountsInv' /\ PaidAreSigned
  BY <1>7, DeclareInTurn
<1>8. ASSUME NEW id \in Identifiers, Undeclare(id) PROVE AccountsInv' /\ PaidAreSigned
  BY <1>8, UndeclareInTurn
<1>9. ASSUME NEW id \in Wallets \cup Identifiers, NEW d \in Delegations, Delegate(id, d)
      PROVE  AccountsInv' /\ PaidAreSigned
  BY <1>9, DelegateInTurn
<1>10. ASSUME NEW k \in Wallets, NEW v \in Amounts, NEW w \in Amounts, Reward(k, <<v, w>>)
       PROVE  AccountsInv' /\ PaidAreSigned
  <2>1. UNCHANGED multisig
    BY <1>10 DEF Reward
  <2>2. <<v, w>> \in Seq(Nat)
    BY ClientConstants
  <2> QED BY <1>10, <2>1, <2>2, RewardInTurn, NoOnePays
<1>11. CASE UNCHANGED accountsVars
  BY <1>11, NoOnePays DEF AccountsInv, accountsVars
<1> QED BY <1>1, <1>2, <1>3, <1>4, <1>5, <1>6, <1>7, <1>8, <1>9, <1>10, <1>11 DEF AccountsNext

\* Of two counters of a lane the lower was accepted as often as the higher or
\* once more since the account was made: from there on to its removal
\* SpendingCounterIncreasing lets no signature be replayed before the whole lane
\* was used, for ever where the account is never removed.  The counters wrap at
\* any width and there is any number of lanes, wallets and declarations.
THEOREM CountersInTurn == AccountsSpec => []CountersTakeTurns
<1>1. AccountsInv => CountersTakeTurns
  <2> SUFFICES ASSUME AccountsInv, NEW id \in Wallets \cup Identifiers, NEW l \in Lanes,
                      NEW m \in Turns, NEW n \in Turns, m < n
               PROVE  spent[id][CounterNew(l, m)] - spent[id][CounterNew(l, n)] \in {0, 1}
    BY DEF CountersTakeTurns, Lanes, Turns
  <2>1. PICK c : InTurn(spent[id], l, c)
    <3>1. \A L, ids : LedgerInTurn(L, ids, spent) /\ id \in ids => \E c : InTurn(spent[id], l, c)
      BY FreshIsInTurn DEF LedgerInTurn
    <3> QED BY <3>1 DEF AccountsInv
  <2>2. PICK k \in Turns : TurnsTaken(spent[id], l, k)
    BY <2>1 DEF InTurn
  <2> QED BY <2>2 DEF TurnsTaken
<1> QED BY <1>1, AccountsStart, AccountsStep, PTL DEF AccountsSpec

\* A multisig account pays for nothing but what as many of its owners as its
\* threshold asks for have signed, at a counter it was at: the checks of
\* the witness against the identifier hold whatever way signatures are put into a
\* witness.
THEOREM ThresholdHolds == AccountsSpec => SpendNeedsThreshold
<1> QED BY AccountsStart, AccountsStep, PTL DEF AccountsSpec, SpendNeedsThreshold, PaidAreSigned

-----------------------------------------------------------------------------
(* The control of stake. *)

WalletSum(f) == Rewards!Sum(f, Wallets)

IdentifierSum(f) == Rewards!Sum(f, Identifiers)

\* s is the control of wallets that have f, beside u that no wallet controls.
\* A wallet without an entry has nothing.
ControlOK(s, f, u) ==
    /\ s = [assigned |-> WalletSum(f), unassigned |-> u, control |-> s.control]
    /\ DOMAIN s.control \subseteq Wallets
    /\ \A k \in Wallets : f[k] = IF k \in DOMAIN s.control THEN s.control[k] ELSE 0

\* There are finitely many wallets and identifiers.
LEMMA FinitelyMany ==
    Rewards!IsFiniteSet(Wallets) /\ Rewards!IsFiniteSet(Identifiers)
<1>1. IsFiniteSet(Wallets) /\ IsFiniteSet(Declarations)
  BY ClientConstants
<1>2. Rewards!IsFiniteSet(Wallets) /\ Rewards!IsFiniteSet(Declarations)
  BY <1>1 DEF IsFiniteSet, Rewards!IsFiniteSet
<1>3. PICK f : f = [d \in Declarations |-> to_identifier(d)]
  OBVIOUS
<1>4. Rewards!FromOn(Identifiers, f, Declarations)
  BY <1>3 DEF Identifiers, Rewards!FromOn
<1>5. Rewards!IsFiniteSet(Identifiers)
  BY <1>2, <1>4, Rewards!FiniteValues
<1> QED BY <1>2, <1>5

\* What all wallets have, and what it is after one of them has changed.
LEMMA WalletSumType ==
    ASSUME NEW f \in [Wallets -> Nat]
    PROVE  WalletSum(f) \in Nat /\ \A k \in Wallets : f[k] <= WalletSum(f)
<1>1. Rewards!Nats(f, Wallets)
  BY DEF Rewards!Nats
<1> QED BY <1>1, FinitelyMany, Rewards!SumIsNat, Rewards!PartAtMostSum DEF WalletSum

\* A change of one wallet changes what all have by as much.
LEMMA WalletSumChanges ==
    ASSUME NEW f \in [Wallets -> Nat], NEW k \in Wallets, NEW n \in Nat
    PROVE  /\ [f EXCEPT ![k] = n] \in [Wallets -> Nat]
           /\ WalletSum([f EXCEPT ![k] = n]) = WalletSum(f) - f[k] + n
<1>1. PICK g : g = [f EXCEPT ![k] = n]
  OBVIOUS
<1>2. g \in [Wallets -> Nat] /\ g[k] = n
  BY <1>1
<1>3. Rewards!Ints(f, Wallets) /\ Rewards!Ints(g, Wallets) /\ Rewards!SameOn(f, g, Wallets \ {k})
  BY <1>1, <1>2 DEF Rewards!Ints, Rewards!SameOn
<1>4. WalletSum(g) = WalletSum(f) - f[k] + g[k]
  BY <1>3, FinitelyMany, Rewards!SumChanges DEF WalletSum
<1> QED BY <1>1, <1>2, <1>4

\* Sums that fit do not wrap.
LEMMA NoWrap ==
    ASSUME NEW x \in Nat, NEW y \in Nat
    PROVE  /\ x + y <= MaxValue => wrapping_add(x, y) = x + y
           /\ x <= MaxValue /\ y <= x => wrapping_sub(x, y) = x - y
<1>1. MaxValue + 1 \in Nat /\ MaxValue \in Nat
  BY AccountSizes
<1>2. \A z \in Nat, m \in Nat : z < m => z % m = z
  OBVIOUS
<1>3. x + y <= MaxValue => (x + y) % (MaxValue + 1) = x + y
  BY <1>1, <1>2
<1>4. x <= MaxValue /\ y <= x => (x - y) % (MaxValue + 1) = x - y
  <2> SUFFICES ASSUME x <= MaxValue, y <= x PROVE (x - y) % (MaxValue + 1) = x - y
    OBVIOUS
  <2>1. x - y \in Nat /\ x - y < MaxValue + 1
    BY <1>1
  <2> QED BY <1>1, <1>2, <2>1
<1> QED BY <1>3, <1>4 DEF wrapping_add, wrapping_sub

\* Adding to a wallet that fits adds to its entry, or makes one.
LEMMA AddToOK ==
    ASSUME NEW f \in [Wallets -> Nat], NEW u, NEW s, ControlOK(s, f, u), NEW k \in Wallets,
           NEW v \in Nat, WalletSum(f) + v <= MaxValue
    PROVE  ControlOK(add_to(s, k, v), [f EXCEPT ![k] = @ + v], u)
<1>1. WalletSum(f) \in Nat /\ f[k] <= WalletSum(f) /\ f[k] \in Nat /\ MaxValue \in Nat
  BY WalletSumType, AccountSizes
<1>2. PICK n \in Nat : n = f[k] + v
  BY <1>1
<1>3. PICK g : g = [f EXCEPT ![k] = n]
  OBVIOUS
<1>4. WalletSum(g) = WalletSum(f) + v
  <2>1. WalletSum(g) = WalletSum(f) - f[k] + n
    BY <1>3, WalletSumChanges
  <2>2. PICK x \in Nat, y \in Nat : x = WalletSum(f) /\ y = f[k]
    BY <1>1
  <2>3. x - y + (y + v) = x + v
    OBVIOUS
  <2> QED BY <1>2, <2>1, <2>2, <2>3
<1>5. PICK c : c = s.control
  OBVIOUS
<1>6. PutStake(c, k, IF k \in DOMAIN c THEN checked_add(c[k], v) ELSE {v}) = Extend(c, k, n)
  <2>1. CASE k \in DOMAIN c
    <3>1. c[k] = f[k]
      BY <1>5, <2>1 DEF ControlOK
    <3>2. checked_add(c[k], v) = {n}
      BY <1>1, <1>2, <3>1 DEF checked_add
    <3> QED BY <2>1, <3>2 DEF PutStake
  <2>2. CASE k \notin DOMAIN c
    <3>1. f[k] = 0
      BY <1>5, <2>2 DEF ControlOK
    <3>2. v = n
      BY <1>2, <3>1
    <3> QED BY <2>2, <3>2 DEF PutStake
  <2> QED BY <2>1, <2>2
<1>7. s = [assigned |-> WalletSum(f), unassigned |-> u, control |-> c]
  BY <1>5 DEF ControlOK
<1>8. wrapping_add(WalletSum(f), v) = WalletSum(g)
  BY <1>1, <1>4, NoWrap
<1>9. add_to(s, k, v) = [assigned |-> WalletSum(g), unassigned |-> u, control |-> Extend(c, k, n)]
  <2>1. add_to(s, k, v) = [s EXCEPT !.assigned = wrapping_add(s.assigned, v),
                             !.control = PutStake(c, k, IF k \in DOMAIN c
                                           THEN checked_add(c[k], v) ELSE {v})]
    BY <1>5 DEF add_to
  <2>2. add_to(s, k, v) = [s EXCEPT !.assigned = WalletSum(g), !.control = Extend(c, k, n)]
    BY <1>6, <1>7, <1>8, <2>1
  <2> HIDE DEF ControlOK
  <2>3. PICK a, b, d : a = WalletSum(g) /\ b = Extend(c, k, n) /\ d = WalletSum(f)
    OBVIOUS
  <2>4. s = [assigned |-> d, unassigned |-> u, control |-> c]
        /\ add_to(s, k, v) = [s EXCEPT !.assigned = a, !.control = b]
    BY <1>7, <2>2, <2>3
  <2>5. add_to(s, k, v) = [assigned |-> a, unassigned |-> u, control |-> b]
    BY <2>4
  <2> QED BY <2>3, <2>5
<1>10. PICK e : e = Extend(c, k, n)
  OBVIOUS
<1>11. DOMAIN e = DOMAIN c \cup {k} /\ e[k] = n /\ \A j \in DOMAIN c : j # k => e[j] = c[j]
  BY <1>10 DEF Extend
<1>12. DOMAIN c \subseteq Wallets /\ \A j \in Wallets : f[j] = IF j \in DOMAIN c THEN c[j] ELSE 0
  BY <1>5 DEF ControlOK
<1>13. \A j \in Wallets : g[j] = IF j \in DOMAIN e THEN e[j] ELSE 0
  BY <1>3, <1>11, <1>12
<1>14. ControlOK(add_to(s, k, v), g, u)
  BY <1>9, <1>10, <1>11, <1>12, <1>13 DEF ControlOK
<1> QED BY <1>2, <1>3, <1>14

\* Removing what a wallet has, or part of it, takes it from its entry.
LEMMA RemoveFromOK ==
    ASSUME NEW f \in [Wallets -> Nat], NEW u, NEW s, ControlOK(s, f, u), NEW k \in Wallets,
           NEW v \in Nat, v <= f[k], WalletSum(f) <= MaxValue
    PROVE  ControlOK(remove_from(s, k, v), [f EXCEPT ![k] = @ - v], u)
<1>1. WalletSum(f) \in Nat /\ f[k] <= WalletSum(f) /\ f[k] \in Nat /\ MaxValue \in Nat
  BY WalletSumType, AccountSizes
<1>2. PICK n \in Nat : n = f[k] - v
  BY <1>1
<1>3. PICK g : g = [f EXCEPT ![k] = n]
  OBVIOUS
<1>4. WalletSum(g) = WalletSum(f) - v
  <2>1. WalletSum(g) = WalletSum(f) - f[k] + n
    BY <1>3, WalletSumChanges
  <2>2. PICK x \in Nat, y \in Nat : x = WalletSum(f) /\ y = f[k]
    BY <1>1
  <2>3. x - y + (y - v) = x - v
    OBVIOUS
  <2> QED BY <1>2, <2>1, <2>2, <2>3
<1>5. PICK c : c = s.control
  OBVIOUS
<1> DEFINE put == IF k \in DOMAIN c THEN PutStake(c, k, checked_sub(c[k], v)) ELSE c
<1>6. put = IF k \in DOMAIN c THEN Extend(c, k, n) ELSE c
  <2>1. CASE k \in DOMAIN c
    <3>1. c[k] = f[k]
      BY <1>5, <2>1 DEF ControlOK
    <3>2. checked_sub(c[k], v) = {n}
      BY <1>1, <1>2, <3>1 DEF checked_sub
    <3> QED BY <2>1, <3>2 DEF PutStake
  <2> QED BY <2>1
<1>7. s = [assigned |-> WalletSum(f), unassigned |-> u, control |-> c]
  BY <1>5 DEF ControlOK
<1>8. wrapping_sub(WalletSum(f), v) = WalletSum(g)
  <2>1. v <= WalletSum(f)
    BY <1>1
  <2> QED BY <1>1, <1>4, <2>1, NoWrap
<1>9. PICK e : e = put
  OBVIOUS
<1>10. remove_from(s, k, v) = [assigned |-> WalletSum(g), unassigned |-> u, control |-> e]
  <2>1. remove_from(s, k, v) = [s EXCEPT !.assigned = wrapping_sub(s.assigned, v), !.control = put]
    BY <1>5 DEF remove_from
  <2>2. remove_from(s, k, v) = [s EXCEPT !.assigned = WalletSum(g), !.control = e]
    BY <1>7, <1>8, <1>9, <2>1
  <2>3. PICK a, d : a = WalletSum(g) /\ d = WalletSum(f)
    OBVIOUS
  <2>4. s = [assigned |-> d, unassigned |-> u, control |-> c]
        /\ remove_from(s, k, v) = [s EXCEPT !.assigned = a, !.control = e]
    BY <1>7, <2>2, <2>3
  <2>5. remove_from(s, k, v) = [assigned |-> a, unassigned |-> u, control |-> e]
    BY <2>4
  <2> QED BY <2>3, <2>5
<1> HIDE DEF put
<1>11. DOMAIN c \subseteq Wallets /\ \A j \in Wallets : f[j] = IF j \in DOMAIN c THEN c[j] ELSE 0
  BY <1>5 DEF ControlOK
<1>12. DOMAIN e = DOMAIN c /\ (k \in DOMAIN c => e[k] = n) /\ \A j \in DOMAIN c : j # k => e[j] = c[j]
  BY <1>6, <1>9 DEF Extend
<1>13. k \notin DOMAIN c => n = 0
  BY <1>2, <1>11
<1>14. \A j \in Wallets : g[j] = IF j \in DOMAIN e THEN e[j] ELSE 0
  BY <1>3, <1>11, <1>12, <1>13
<1>15. ControlOK(remove_from(s, k, v), g, u)
  BY <1>10, <1>11, <1>12, <1>14 DEF ControlOK
<1> QED BY <1>2, <1>3, <1>15

\* What no wallet controls grows and shrinks beside the entries.
LEMMA UnassignedOK ==
    ASSUME NEW f, NEW u \in Nat, NEW s, ControlOK(s, f, u), NEW v \in Nat
    PROVE  /\ u + v <= MaxValue => ControlOK(add_unassigned(s, v), f, u + v)
           /\ u <= MaxValue /\ v <= u => ControlOK(remove_unassigned(s, v), f, u - v)
<1>1. PICK c, d : c = s.control /\ d = WalletSum(f)
  OBVIOUS
<1>2. s = [assigned |-> d, unassigned |-> u, control |-> c]
  BY <1>1 DEF ControlOK
<1>3. ASSUME u + v <= MaxValue PROVE ControlOK(add_unassigned(s, v), f, u + v)
  <2>1. add_unassigned(s, v) = [assigned |-> d, unassigned |-> u + v, control |-> c]
    BY <1>2, <1>3, NoWrap DEF add_unassigned
  <2> QED BY <1>1, <2>1 DEF ControlOK
<1>4. ASSUME u <= MaxValue, v <= u PROVE ControlOK(remove_unassigned(s, v), f, u - v)
  <2>1. remove_unassigned(s, v) = [assigned |-> d, unassigned |-> u - v, control |-> c]
    BY <1>2, <1>4, NoWrap DEF remove_unassigned
  <2> QED BY <1>1, <2>1 DEF ControlOK
<1> QED BY <1>3, <1>4

\* All the supply is with a wallet, with nobody or with a multisig account, which
\* have m, and s is the control of it.
StakeOK(s, f, u, m) ==
    /\ f \in [Wallets -> Nat] /\ u \in Nat /\ m \in Nat
    /\ ControlOK(s, f, u)
    /\ u + WalletSum(f) + m = Supply

\* Neither what wallets have nor what nobody controls exceeds a Value.
LEMMA StakeFits ==
    ASSUME NEW s, NEW f, NEW u, NEW m, StakeOK(s, f, u, m)
    PROVE  /\ WalletSum(f) \in Nat /\ u \in Nat /\ m \in Nat /\ MaxValue \in Nat /\ Supply \in Nat
           /\ u + WalletSum(f) <= MaxValue /\ u <= MaxValue /\ WalletSum(f) <= MaxValue
           /\ u + m <= MaxValue /\ u + WalletSum(f) + m = Supply
<1>1. WalletSum(f) \in Nat /\ u \in Nat /\ m \in Nat /\ u + WalletSum(f) + m = Supply
  BY WalletSumType DEF StakeOK
<1>2. Supply \in Nat /\ Supply <= MaxValue /\ MaxValue \in Nat
  BY SupplyFits, AccountSizes
<1> QED BY <1>1, <1>2

\* A wallet is paid from what nobody controls.
LEMMA WalletGains ==
    ASSUME NEW s, NEW f, NEW u, NEW m, StakeOK(s, f, u, m), NEW k \in Wallets,
           NEW v \in Nat, v <= u
    PROVE  StakeOK(add_to(remove_unassigned(s, v), k, v), [f EXCEPT ![k] = @ + v], u - v, m)
<1>1. f \in [Wallets -> Nat] /\ ControlOK(s, f, u)
  BY DEF StakeOK
<1>2. PICK w \in Nat : w = WalletSum(f)
  BY <1>1, WalletSumType
<1>3. u \in Nat /\ m \in Nat /\ MaxValue \in Nat /\ u + w <= MaxValue /\ u <= MaxValue
      /\ u + w + m = Supply
  BY <1>2, StakeFits
<1>4. ControlOK(remove_unassigned(s, v), f, u - v)
  BY <1>1, <1>3, UnassignedOK
<1>5. WalletSum(f) + v <= MaxValue
  BY <1>2, <1>3
<1>6. PICK g : g = [f EXCEPT ![k] = @ + v]
  OBVIOUS
<1>7. ControlOK(add_to(remove_unassigned(s, v), k, v), g, u - v)
  BY <1>1, <1>4, <1>5, <1>6, AddToOK
<1>8. g \in [Wallets -> Nat] /\ WalletSum(g) = w + v
  <2>1. PICK n \in Nat, x \in Nat : x = f[k] /\ n = x + v
    BY <1>1
  <2>2. g = [f EXCEPT ![k] = n]
    BY <1>6, <2>1
  <2>3. g \in [Wallets -> Nat] /\ WalletSum(g) = WalletSum(f) - f[k] + n
    BY <1>1, <2>2, WalletSumChanges
  <2>4. w - x + n = w + v
    BY <2>1
  <2> QED BY <1>2, <2>1, <2>3, <2>4
<1>9. (u - v) + WalletSum(g) + m = Supply /\ u - v \in Nat
  BY <1>3, <1>8
<1> QED BY <1>3, <1>6, <1>7, <1>8, <1>9 DEF StakeOK

\* A wallet pays, and nobody controls what it has paid.
LEMMA WalletLoses ==
    ASSUME NEW s, NEW f, NEW u, NEW m, StakeOK(s, f, u, m), NEW k \in Wallets,
           NEW v \in Nat, v <= f[k]
    PROVE  StakeOK(add_unassigned(remove_from(s, k, v), v), [f EXCEPT ![k] = @ - v], u + v, m)
<1>1. f \in [Wallets -> Nat] /\ ControlOK(s, f, u)
  BY DEF StakeOK
<1>2. PICK w \in Nat, x \in Nat : w = WalletSum(f) /\ x = f[k] /\ x <= w
  BY <1>1, WalletSumType
<1>3. u \in Nat /\ m \in Nat /\ MaxValue \in Nat /\ u + w <= MaxValue /\ w <= MaxValue
      /\ u + w + m = Supply
  BY <1>2, StakeFits
<1>4. PICK g : g = [f EXCEPT ![k] = @ - v]
  OBVIOUS
<1>5. ControlOK(remove_from(s, k, v), g, u)
  BY <1>1, <1>2, <1>3, <1>4, RemoveFromOK
<1>6. u + v <= MaxValue
  BY <1>2, <1>3
<1>7. ControlOK(add_unassigned(remove_from(s, k, v), v), g, u + v)
  BY <1>3, <1>5, <1>6, UnassignedOK
<1>8. g \in [Wallets -> Nat] /\ WalletSum(g) = w - v
  <2>1. PICK n \in Nat : n = x - v
    BY <1>2
  <2>2. g = [f EXCEPT ![k] = n]
    BY <1>2, <1>4, <2>1
  <2>3. g \in [Wallets -> Nat] /\ WalletSum(g) = WalletSum(f) - f[k] + n
    BY <1>1, <2>2, WalletSumChanges
  <2>4. w - x + n = w - v
    BY <1>2, <2>1
  <2> QED BY <1>2, <2>3, <2>4
<1>9. (u + v) + WalletSum(g) + m = Supply /\ u + v \in Nat
  BY <1>3, <1>8
<1> QED BY <1>3, <1>4, <1>7, <1>8, <1>9 DEF StakeOK

\* What a multisig account is paid or pays is controlled by nobody, before or after.
LEMMA MultisigMoves ==
    ASSUME NEW s, NEW f, NEW u, NEW m, StakeOK(s, f, u, m), NEW v \in Nat
    PROVE  /\ v <= u => StakeOK(remove_unassigned(s, v), f, u - v, m + v)
           /\ v <= m => StakeOK(add_unassigned(s, v), f, u + v, m - v)
<1>1. f \in [Wallets -> Nat] /\ ControlOK(s, f, u)
  BY DEF StakeOK
<1>2. PICK w \in Nat : w = WalletSum(f)
  BY <1>1, WalletSumType
<1>3. u \in Nat /\ m \in Nat /\ MaxValue \in Nat /\ u <= MaxValue /\ u + m <= MaxValue
      /\ u + w + m = Supply
  BY <1>2, StakeFits
<1>4. ASSUME v <= u PROVE StakeOK(remove_unassigned(s, v), f, u - v, m + v)
  <2>1. ControlOK(remove_unassigned(s, v), f, u - v)
    BY <1>1, <1>3, <1>4, UnassignedOK
  <2>2. (u - v) + w + (m + v) = Supply /\ u - v \in Nat /\ m + v \in Nat
    BY <1>3, <1>4
  <2> QED BY <1>1, <1>2, <2>1, <2>2 DEF StakeOK
<1>5. ASSUME v <= m PROVE StakeOK(add_unassigned(s, v), f, u + v, m - v)
  <2>1. u + v <= MaxValue
    BY <1>3, <1>5
  <2>2. ControlOK(add_unassigned(s, v), f, u + v)
    BY <1>1, <1>3, <2>1, UnassignedOK
  <2>3. (u + v) + w + (m - v) = Supply /\ u + v \in Nat /\ m - v \in Nat
    BY <1>3, <1>5
  <2> QED BY <1>1, <1>2, <2>2, <2>3 DEF StakeOK
<1> QED BY <1>4, <1>5

-----------------------------------------------------------------------------
(* What accounts have. *)

ValueAt(L, id) == IF id \in DOMAIN L THEN L[id].value ELSE 0

Vals(L, ids) == [id \in ids |-> ValueAt(L, id)]

With(f, k, n) == [f EXCEPT ![k] = n]

\* Accounts have natural values.
LEMMA ValuesAreNat ==
    ASSUME NEW L, AreStates(L), NEW ids
    PROVE  Vals(L, ids) \in [ids -> Nat]
<1>1. \A id \in ids : ValueAt(L, id) \in Nat
  BY DEF AreStates, IsState, ValueAt
<1> QED BY <1>1 DEF Vals

\* A ledger in which no account has another value.
LEMMA NoValueChanges ==
    ASSUME NEW L, NEW N, NEW ids, \A x \in ids : ValueAt(N, x) = ValueAt(L, x)
    PROVE  Vals(N, ids) = Vals(L, ids)
  BY DEF Vals

\* An account put in the place of another changes no other value.
LEMMA ReplacedValue ==
    ASSUME NEW L, NEW id, NEW results, NEW N \in UpdateAccount(L, id, results)
    PROVE  /\ id \in DOMAIN L /\ DOMAIN N = DOMAIN L
           /\ \E st \in results : ValueAt(N, id) = st.value
           /\ \A x : x # id => ValueAt(N, x) = ValueAt(L, x)
<1>1. PICK st \in results : N = [L EXCEPT ![id] = st]
  BY DEF UpdateAccount
<1>2. id \in DOMAIN L
  BY DEF UpdateAccount
<1>3. DOMAIN N = DOMAIN L /\ N[id] = st /\ \A x \in DOMAIN L : x # id => N[x] = L[x]
  BY <1>1, <1>2
<1> QED BY <1>2, <1>3 DEF ValueAt

\* A new account changes no other value.
LEMMA ExtendedValue ==
    ASSUME NEW L, NEW id, NEW st
    PROVE  /\ ValueAt(Extend(L, id, st), id) = st.value
           /\ \A x : x # id => ValueAt(Extend(L, id, st), x) = ValueAt(L, x)
  BY DEF ValueAt, Extend

\* A sum that is checked is the sum.
LEMMA StateAddValue ==
    ASSUME NEW st, IsState(st), NEW v \in Nat, NEW t \in StateAdd(st, v)
    PROVE  t.value = st.value + v
<1>1. PICK w \in checked_add(st.value, v) : t = [st EXCEPT !.value = w]
  BY DEF StateAdd
<1>2. w = st.value + v
  BY DEF checked_add
<1> QED BY <1>1, <1>2 DEF IsState

\* The ways of adding to an account add the value, to an account that may have to
\* be made.
LEMMA ValueIsAdded ==
    ASSUME NEW L, AreStates(L), NEW ids, NEW k \in ids, NEW v \in Nat, NEW N,
           \/ N \in add_value_or_account(L, k, v) \/ N \in add_value(L, k, v)
           \/ \E e : N \in add_rewards_to_account(L, k, e, v)
    PROVE  Vals(N, ids) = With(Vals(L, ids), k, Vals(L, ids)[k] + v)
<1>1. ValueAt(N, k) = ValueAt(L, k) + v /\ \A x \in ids : x # k => ValueAt(N, x) = ValueAt(L, x)
  <2>1. ASSUME k \in DOMAIN L, N \in UpdateAccount(L, k, StateAdd(L[k], v))
        PROVE  ValueAt(N, k) = ValueAt(L, k) + v /\ \A x \in ids : x # k => ValueAt(N, x) = ValueAt(L, x)
    <3>1. PICK st \in StateAdd(L[k], v) : ValueAt(N, k) = st.value
      BY <2>1, ReplacedValue
    <3>2. IsState(L[k])
      BY <2>1 DEF AreStates
    <3>3. st.value = L[k].value + v
      BY <3>2, StateAddValue
    <3>4. \A x : x # k => ValueAt(N, x) = ValueAt(L, x)
      BY <2>1, ReplacedValue
    <3> QED BY <2>1, <3>1, <3>3, <3>4 DEF ValueAt
  <2>2. ASSUME NEW e, k \in DOMAIN L, N \in UpdateAccount(L, k, add_rewards(L[k], e, v))
        PROVE  ValueAt(N, k) = ValueAt(L, k) + v /\ \A x \in ids : x # k => ValueAt(N, x) = ValueAt(L, x)
    <3>1. PICK st \in add_rewards(L[k], e, v) : ValueAt(N, k) = st.value
      BY <2>2, ReplacedValue
    <3>2. IsState(L[k])
      BY <2>2 DEF AreStates
    <3>3. PICK t \in StateAdd(L[k], v) :
            st = [t EXCEPT !.last_rewards = add_for(t.last_rewards, e, v)]
      BY DEF add_rewards
    <3>4. t.value = L[k].value + v /\ IsState(t)
      BY <3>2, StateAddValue, AddKeeps
    <3>5. st.value = t.value
      BY <3>3, <3>4 DEF IsState
    <3>6. \A x : x # k => ValueAt(N, x) = ValueAt(L, x)
      BY <2>2, ReplacedValue
    <3> QED BY <2>2, <3>1, <3>4, <3>5, <3>6 DEF ValueAt
  <2>3. ASSUME k \notin DOMAIN L, NEW st, st.value = v, N = Extend(L, k, st)
        PROVE  ValueAt(N, k) = ValueAt(L, k) + v /\ \A x \in ids : x # k => ValueAt(N, x) = ValueAt(L, x)
    <3>1. ValueAt(L, k) = 0
      BY <2>3 DEF ValueAt
    <3> QED BY <2>3, <3>1, ExtendedValue
  <2>4. StateNew(v).value = v
    BY DEF StateNew
  <2>5. \A e : new_reward(e, v).value = v
    BY <2>4 DEF new_reward, StateNew
  <2>6. CASE k \in DOMAIN L
    BY <2>1, <2>2, <2>6 DEF add_value_or_account, add_value, add_rewards_to_account
  <2>7. CASE k \notin DOMAIN L
    <3>1. N = Extend(L, k, StateNew(v)) \/ \E e : N = Extend(L, k, new_reward(e, v))
      BY <2>7 DEF add_value_or_account, add_value, add_rewards_to_account
    <3> QED BY <2>3, <2>4, <2>5, <2>7, <3>1
  <2> QED BY <2>6, <2>7
<1>2. Vals(N, ids) = [Vals(L, ids) EXCEPT ![k] = ValueAt(N, k)]
  BY <1>1 DEF Vals
<1>3. Vals(L, ids)[k] = ValueAt(L, k)
  BY DEF Vals
<1> QED BY <1>1, <1>2, <1>3 DEF With

\* A spending takes its value, which the account has.
LEMMA ValueIsRemoved ==
    ASSUME NEW L, AreStates(L), NEW ids, NEW k \in ids, NEW v \in Nat, NEW N, NEW c,
           N \in remove_value(L, k, c, v)
    PROVE  /\ v <= Vals(L, ids)[k]
           /\ Vals(N, ids) = With(Vals(L, ids), k, Vals(L, ids)[k] - v)
<1>1. k \in DOMAIN L /\ N \in UpdateAccount(L, k, StateSub(L[k], c, v))
  BY DEF remove_value
<1>2. IsState(L[k])
  BY <1>1 DEF AreStates
<1>3. PICK st \in StateSub(L[k], c, v) : ValueAt(N, k) = st.value
  BY <1>1, ReplacedValue
<1>4. PICK t \in {[L[k] EXCEPT !.value = w] : w \in checked_sub(L[k].value, v)},
           s \in next_verify(L[k].spending, c) : st = [t EXCEPT !.spending = s]
  BY DEF StateSub
<1>5. PICK w \in checked_sub(L[k].value, v) : t = [L[k] EXCEPT !.value = w]
  BY <1>4
<1>6. v <= L[k].value /\ w = L[k].value - v
  BY <1>2 DEF checked_sub, IsState
<1>7. st.value = w
  BY <1>2, <1>4, <1>5 DEF IsState
<1>8. ValueAt(L, k) = L[k].value /\ Vals(L, ids)[k] = ValueAt(L, k)
  BY <1>1 DEF ValueAt, Vals
<1>9. \A x \in ids : x # k => ValueAt(N, x) = ValueAt(L, x)
  BY <1>1, ReplacedValue
<1>10. Vals(N, ids) = [Vals(L, ids) EXCEPT ![k] = ValueAt(N, k)]
  BY <1>9 DEF Vals
<1> QED BY <1>3, <1>6, <1>7, <1>8, <1>10 DEF With

\* Delegating and minting tokens change no value.
LEMMA ValuesAreKept ==
    ASSUME NEW L, AreStates(L), NEW ids, NEW k, NEW N, NEW d, NEW token, NEW v,
           N \in set_delegation(L, k, d) \/ N \in token_add(L, k, token, v)
    PROVE  Vals(N, ids) = Vals(L, ids)
<1>1. CASE N \in set_delegation(L, k, d)
  <2>1. k \in DOMAIN L /\ N = [L EXCEPT ![k].delegation = d]
    BY <1>1 DEF set_delegation
  <2>2. PICK st : st = [L[k] EXCEPT !.delegation = d]
    OBVIOUS
  <2>3. N = [L EXCEPT ![k] = st] /\ st.value = L[k].value
    BY <2>1, <2>2 DEF AreStates, IsState
  <2>4. \A x : ValueAt(N, x) = ValueAt(L, x)
    BY <2>1, <2>3 DEF ValueAt
  <2> QED BY <2>4, NoValueChanges
<1>2. CASE N \in token_add(L, k, token, v)
  <2>1. k \in DOMAIN L /\ N \in UpdateAccount(L, k, StateTokenAdd(L[k], token, v))
    BY <1>2 DEF token_add
  <2>2. PICK st \in StateTokenAdd(L[k], token, v) : ValueAt(N, k) = st.value
    BY <2>1, ReplacedValue
  <2>3. st.value = L[k].value
    <3>1. IsState(L[k])
      BY <2>1 DEF AreStates
    <3>2. PICK tokens : st = [L[k] EXCEPT !.tokens = tokens]
      <4>1. CASE token \in DOMAIN L[k].tokens
        <5>1. PICK w : st = [L[k] EXCEPT !.tokens[token] = w]
          BY <4>1 DEF StateTokenAdd
        <5>2. st = [L[k] EXCEPT !.tokens = [L[k].tokens EXCEPT ![token] = w]]
          BY <5>1
        <5> QED BY <5>2
      <4>2. CASE token \notin DOMAIN L[k].tokens
        BY <4>2 DEF StateTokenAdd
      <4> QED BY <4>1, <4>2
    <3> QED BY <3>1, <3>2 DEF IsState
  <2>4. ValueAt(N, k) = ValueAt(L, k)
    BY <2>1, <2>2, <2>3 DEF ValueAt
  <2>5. \A x : x # k => ValueAt(N, x) = ValueAt(L, x)
    BY <2>1, ReplacedValue
  <2> QED BY <2>4, <2>5, NoValueChanges
<1> QED BY <1>1, <1>2

\* An account that is declared has nothing, nor has one that is removed.
LEMMA EmptyAccounts ==
    ASSUME NEW L, NEW ids, NEW k, NEW N, N \in add_account(L, k, 0) \/ N \in remove_account(L, k)
    PROVE  Vals(N, ids) = Vals(L, ids)
<1>1. CASE N \in add_account(L, k, 0)
  <2>1. k \notin DOMAIN L /\ N = Extend(L, k, StateNew(0))
    BY <1>1 DEF add_account
  <2>2. StateNew(0).value = 0 /\ ValueAt(L, k) = 0
    BY <2>1 DEF StateNew, ValueAt
  <2>3. \A x : ValueAt(N, x) = ValueAt(L, x)
    BY <2>1, <2>2, ExtendedValue
  <2> QED BY <2>3, NoValueChanges
<1>2. CASE N \in remove_account(L, k)
  <2>1. k \in DOMAIN L /\ L[k].value = 0 /\ N = Drop(L, k)
    BY <1>2 DEF remove_account
  <2>2. \A x : ValueAt(N, x) = ValueAt(L, x)
    BY <2>1 DEF ValueAt, Drop
  <2> QED BY <2>2, NoValueChanges
<1> QED BY <1>1, <1>2

-----------------------------------------------------------------------------
(* The supply is always accounted for. *)

Homes == {Nobody} \cup {Owned(k) : k \in Wallets}

\* What a wallet has in its account and in the outputs of its group address.
Held(L, outs) == [k \in Wallets |-> Vals(L, Wallets)[k] + outs[Owned(k)]]

HeldByOwners == IdentifierSum(Vals(multisig.accounts, Identifiers))

\* The inductive invariant, beside AccountsInv.
StakeInv ==
    /\ outputs \in [Homes -> Nat]
    /\ StakeOK(control, Held(accounts, outputs), outputs[Nobody], HeldByOwners)

\* Values of the unspent outputs change one by one.
LEMMA OutputsMove ==
    ASSUME NEW o \in [Homes -> Nat], NEW n \in Nat, NEW k \in Wallets, NEW x \in Nat
    PROVE  /\ [o EXCEPT ![Nobody] = n] \in [Homes -> Nat]
           /\ [o EXCEPT ![Nobody] = n][Nobody] = n
           /\ \A j \in Wallets : [o EXCEPT ![Nobody] = n][Owned(j)] = o[Owned(j)]
           /\ [o EXCEPT ![Nobody] = n, ![Owned(k)] = x] \in [Homes -> Nat]
           /\ [o EXCEPT ![Nobody] = n, ![Owned(k)] = x][Nobody] = n
           /\ \A j \in Wallets : [o EXCEPT ![Nobody] = n, ![Owned(k)] = x][Owned(j)]
                                    = IF j = k THEN x ELSE o[Owned(j)]
<1>1. Nobody \in Homes /\ \A j \in Wallets : Owned(j) \in Homes
  BY DEF Homes
<1>2. \A j \in Wallets : Owned(j) # Nobody
  BY DEF Owned, Nobody
<1>3. \A i, j \in Wallets : Owned(i) = Owned(j) => i = j
  <2> SUFFICES ASSUME NEW i \in Wallets, NEW j \in Wallets, Owned(i) = Owned(j) PROVE i = j
    OBVIOUS
  <2>1. Owned(i)[1] = i /\ Owned(j)[1] = j
    BY DEF Owned
  <2> QED BY <2>1
<1> QED BY <1>1, <1>2, <1>3

\* Accounts have states.
LEMMA LedgersHaveStates ==
    ASSUME AccountsInv
    PROVE  AreStates(accounts) /\ AreStates(multisig.accounts)
           /\ DOMAIN accounts \subseteq Wallets /\ DOMAIN multisig.accounts \subseteq Identifiers
  BY DEF AccountsInv, LedgerInTurn, AreStates

\* A change of one account changes what all have by as much.
LEMMA IdentifierSumChanges ==
    ASSUME NEW f \in [Identifiers -> Nat], NEW id \in Identifiers, NEW n \in Nat
    PROVE  /\ IdentifierSum(f) \in Nat /\ f[id] <= IdentifierSum(f)
           /\ IdentifierSum([f EXCEPT ![id] = n]) = IdentifierSum(f) - f[id] + n
<1>1. PICK g : g = [f EXCEPT ![id] = n]
  OBVIOUS
<1>2. g \in [Identifiers -> Nat] /\ g[id] = n
  BY <1>1
<1>3. Rewards!Ints(f, Identifiers) /\ Rewards!Ints(g, Identifiers)
      /\ Rewards!SameOn(f, g, Identifiers \ {id}) /\ Rewards!Nats(f, Identifiers)
  BY <1>1, <1>2 DEF Rewards!Ints, Rewards!SameOn, Rewards!Nats
<1>4. IdentifierSum(g) = IdentifierSum(f) - f[id] + g[id]
  BY <1>3, FinitelyMany, Rewards!SumChanges DEF IdentifierSum
<1>5. IdentifierSum(f) \in Nat /\ f[id] <= IdentifierSum(f)
  BY <1>3, FinitelyMany, Rewards!SumIsNat, Rewards!PartAtMostSum DEF IdentifierSum
<1> QED BY <1>1, <1>2, <1>4, <1>5

\* A wallet whose account or group address was paid.
LEMMA PaidStake ==
    ASSUME AccountsInv, StakeInv, NEW k \in Wallets, NEW v \in Nat, v <= outputs[Nobody],
           outputs' \in [Homes -> Nat], outputs'[Nobody] = outputs[Nobody] - v,
           Held(accounts', outputs') = [Held(accounts, outputs) EXCEPT ![k] = @ + v],
           control' = add_to(remove_unassigned(control, v), k, v), UNCHANGED multisig
    PROVE  StakeInv'
<1>1. PICK f, u, m : f = Held(accounts, outputs) /\ u = outputs[Nobody] /\ m = HeldByOwners
  OBVIOUS
<1>2. StakeOK(control', Held(accounts', outputs'), outputs'[Nobody], HeldByOwners)
  <2>1. StakeOK(control, f, u, m)
    BY <1>1 DEF StakeInv
  <2>2. StakeOK(add_to(remove_unassigned(control, v), k, v), [f EXCEPT ![k] = @ + v], u - v, m)
    BY <1>1, <2>1, WalletGains
  <2> QED BY <1>1, <2>2
<1>3. HeldByOwners' = HeldByOwners
  BY DEF HeldByOwners
<1> QED BY <1>2, <1>3 DEF StakeInv

\* A payment to an account.
LEMMA PayAccountStake ==
    ASSUME AccountsInv, StakeInv, NEW k \in Wallets, NEW v \in Amounts, PayAccount(k, v)
    PROVE  StakeInv'
<1>1. v \in Nat /\ v <= outputs[Nobody] /\ outputs' = [outputs EXCEPT ![Nobody] = @ - v]
      /\ accounts' \in add_value_or_account(accounts, k, v)
      /\ control' = add_to(remove_unassigned(control, v), k, v) /\ UNCHANGED multisig
  BY ClientConstants DEF PayAccount, TakeOutput
<1>2. outputs \in [Homes -> Nat] /\ outputs[Nobody] \in Nat
  BY DEF StakeInv, Homes
<1>3. PICK n \in Nat : n = outputs[Nobody] - v
  BY <1>1, <1>2
<1>4. /\ outputs' \in [Homes -> Nat] /\ outputs'[Nobody] = n
      /\ \A j \in Wallets : outputs'[Owned(j)] = outputs[Owned(j)]
  BY <1>1, <1>2, <1>3, OutputsMove
<1>5. Vals(accounts', Wallets) = [Vals(accounts, Wallets) EXCEPT ![k] = @ + v]
  <2>1. PICK L, N : L = accounts /\ N = accounts' /\ AreStates(L)
    BY LedgersHaveStates
  <2>2. N \in add_value_or_account(L, k, v)
    BY <1>1, <2>1
  <2>3. Vals(N, Wallets) = With(Vals(L, Wallets), k, Vals(L, Wallets)[k] + v)
    BY <1>1, <2>1, <2>2, ValueIsAdded
  <2> QED BY <2>1, <2>3 DEF With
<1>6. \A j \in Wallets : Vals(accounts, Wallets)[j] \in Nat /\ outputs[Owned(j)] \in Nat
  BY <1>2, LedgersHaveStates, ValuesAreNat DEF Homes
<1>7. Held(accounts', outputs') = [Held(accounts, outputs) EXCEPT ![k] = @ + v]
  <2>1. PICK a, b : a = Vals(accounts, Wallets) /\ b = Vals(accounts', Wallets)
    OBVIOUS
  <2>2. DOMAIN a = Wallets
    BY <2>1 DEF Vals
  <2>3. \A j \in Wallets : b[j] + outputs'[Owned(j)] =
            IF j = k THEN a[j] + outputs[Owned(j)] + v ELSE a[j] + outputs[Owned(j)]
    BY <1>1, <1>4, <1>5, <1>6, <2>1, <2>2
  <2> QED BY <2>1, <2>3 DEF Held
<1> QED BY <1>1, <1>3, <1>4, <1>7, PaidStake

\* A payment to a group address.
LEMMA PayGroupStake ==
    ASSUME AccountsInv, StakeInv, NEW k \in Wallets, NEW v \in Amounts, PayGroup(k, v)
    PROVE  StakeInv'
<1>1. v \in Nat /\ v <= outputs[Nobody]
      /\ outputs' = [outputs EXCEPT ![Nobody] = @ - v, ![Owned(k)] = @ + v]
      /\ control' = add_to(remove_unassigned(control, v), k, v) /\ UNCHANGED multisig
  BY ClientConstants DEF PayGroup
<1>2. outputs \in [Homes -> Nat] /\ outputs[Nobody] \in Nat
      /\ \A j \in Wallets : outputs[Owned(j)] \in Nat /\ Owned(j) # Nobody
  BY DEF StakeInv, Homes, Owned, Nobody
<1>3. PICK n \in Nat, x \in Nat : n = outputs[Nobody] - v /\ x = outputs[Owned(k)] + v
  BY <1>1, <1>2
<1>4. /\ outputs' \in [Homes -> Nat] /\ outputs'[Nobody] = n
      /\ \A j \in Wallets : outputs'[Owned(j)] = IF j = k THEN x ELSE outputs[Owned(j)]
  <2>1. outputs' = [outputs EXCEPT ![Nobody] = n, ![Owned(k)] = x]
    BY <1>1, <1>2, <1>3
  <2> QED BY <1>2, <2>1, OutputsMove
<1>5. Vals(accounts', Wallets) = Vals(accounts, Wallets)
  <2>1. CASE k \in DOMAIN accounts
    BY <2>1 DEF PayGroup
  <2>2. CASE k \notin DOMAIN accounts
    <3>1. accounts' \in add_account(accounts, k, 0)
      BY <2>2 DEF PayGroup, add_value_or_account, add_account
    <3> QED BY <3>1, EmptyAccounts
  <2> QED BY <2>1, <2>2
<1>6. \A j \in Wallets : Vals(accounts, Wallets)[j] \in Nat
  BY LedgersHaveStates, ValuesAreNat
<1>7. Held(accounts', outputs') = [Held(accounts, outputs) EXCEPT ![k] = @ + v]
  <2>1. PICK a : a = Vals(accounts, Wallets)
    OBVIOUS
  <2>2. ASSUME NEW j \in Wallets
        PROVE  a[j] + outputs'[Owned(j)] =
            IF j = k THEN a[j] + outputs[Owned(j)] + v ELSE a[j] + outputs[Owned(j)]
    <3>1. PICK p \in Nat, q \in Nat : p = a[j] /\ q = outputs[Owned(j)]
      BY <1>2, <1>6, <2>1
    <3>2. outputs'[Owned(j)] = IF j = k THEN q + v ELSE q
      BY <1>3, <1>4, <3>1
    <3>3. p + (q + v) = p + q + v
      BY <1>1
    <3> QED BY <3>1, <3>2, <3>3
  <2> QED BY <1>5, <2>1, <2>2 DEF Held
<1> QED BY <1>1, <1>3, <1>4, <1>7, PaidStake

\* A wallet that pays from its account or its group address.
LEMMA SpentStake ==
    ASSUME AccountsInv, StakeInv, NEW k \in Wallets, NEW v \in Nat,
           v <= Held(accounts, outputs)[k],
           outputs' \in [Homes -> Nat], outputs'[Nobody] = outputs[Nobody] + v,
           Held(accounts', outputs') = [Held(accounts, outputs) EXCEPT ![k] = @ - v],
           control' = add_unassigned(remove_from(control, k, v), v), UNCHANGED multisig
    PROVE  StakeInv'
<1>1. PICK f, u, m : f = Held(accounts, outputs) /\ u = outputs[Nobody] /\ m = HeldByOwners
  OBVIOUS
<1>2. StakeOK(control', Held(accounts', outputs'), outputs'[Nobody], HeldByOwners)
  <2>1. StakeOK(control, f, u, m)
    BY <1>1 DEF StakeInv
  <2>2. StakeOK(add_unassigned(remove_from(control, k, v), v), [f EXCEPT ![k] = @ - v], u + v, m)
    BY <1>1, <2>1, WalletLoses
  <2> QED BY <1>1, <2>2
<1>3. HeldByOwners' = HeldByOwners
  BY DEF HeldByOwners
<1> QED BY <1>2, <1>3 DEF StakeInv

\* A spending of what a group address has.
LEMMA SpendGroupStake ==
    ASSUME AccountsInv, StakeInv, NEW k \in Wallets, SpendGroup(k)
    PROVE  StakeInv'
<1>1. PICK v : v = outputs[Owned(k)]
  OBVIOUS
<1>2. outputs' = [outputs EXCEPT ![Nobody] = @ + v, ![Owned(k)] = 0]
      /\ control' = add_unassigned(remove_from(control, k, v), v) /\ UNCHANGED <<accounts, multisig>>
  BY <1>1 DEF SpendGroup
<1>3. outputs \in [Homes -> Nat] /\ outputs[Nobody] \in Nat
      /\ \A j \in Wallets : outputs[Owned(j)] \in Nat /\ Owned(j) # Nobody
  BY DEF StakeInv, Homes, Owned, Nobody
<1>4. v \in Nat
  BY <1>1, <1>3
<1>5. PICK n \in Nat : n = outputs[Nobody] + v
  BY <1>3, <1>4
<1>6. /\ outputs' \in [Homes -> Nat] /\ outputs'[Nobody] = n
      /\ \A j \in Wallets : outputs'[Owned(j)] = IF j = k THEN 0 ELSE outputs[Owned(j)]
  <2>1. PICK x \in Nat : x = 0
    OBVIOUS
  <2>2. outputs' = [outputs EXCEPT ![Nobody] = n, ![Owned(k)] = x]
    BY <1>2, <1>3, <1>5, <2>1
  <2> QED BY <1>3, <2>1, <2>2, OutputsMove
<1>7. \A j \in Wallets : Vals(accounts, Wallets)[j] \in Nat
  BY LedgersHaveStates, ValuesAreNat
<1>8. Held(accounts', outputs') = [Held(accounts, outputs) EXCEPT ![k] = @ - v]
  <2>1. PICK a : a = Vals(accounts, Wallets)
    OBVIOUS
  <2>2. \A j \in Wallets : a[j] + outputs'[Owned(j)] =
            IF j = k THEN (a[j] + outputs[Owned(j)]) - v ELSE a[j] + outputs[Owned(j)]
    BY <1>1, <1>3, <1>4, <1>6, <1>7, <2>1
  <2> QED BY <1>2, <2>1, <2>2 DEF Held
<1>9. v <= Held(accounts, outputs)[k]
  BY <1>1, <1>4, <1>7 DEF Held
<1> QED BY <1>2, <1>4, <1>5, <1>6, <1>8, <1>9, SpentStake

\* A spending from an account.
LEMMA SpendSingleStake ==
    ASSUME AccountsInv, StakeInv, NEW s \in signed, SpendSingle(s)
    PROVE  StakeInv'
<1>1. PICK k, v, c : k = s.msg.id /\ v = s.msg.value /\ c = s.msg.counter
  OBVIOUS
<1>2. /\ accounts' \in remove_value(accounts, k, c, v)
      /\ outputs' = [outputs EXCEPT ![Nobody] = @ + v]
      /\ control' = add_unassigned(remove_from(control, k, v), v) /\ UNCHANGED multisig
  BY <1>1 DEF SpendSingle, GiveBack
<1>3. v \in Nat
  <2>1. s \in Signatures
    BY DEF AccountsInv
  <2> QED BY <1>1, <2>1, ClientConstants DEF Signatures
<1>4. k \in Wallets
  <2>1. k \in DOMAIN accounts
    BY <1>2 DEF remove_value
  <2> QED BY <2>1, LedgersHaveStates
<1>5. outputs \in [Homes -> Nat] /\ outputs[Nobody] \in Nat
      /\ \A j \in Wallets : outputs[Owned(j)] \in Nat
  BY DEF StakeInv, Homes
<1>6. PICK n \in Nat : n = outputs[Nobody] + v
  BY <1>3, <1>5
<1>7. /\ outputs' \in [Homes -> Nat] /\ outputs'[Nobody] = n
      /\ \A j \in Wallets : outputs'[Owned(j)] = outputs[Owned(j)]
  BY <1>2, <1>4, <1>5, <1>6, OutputsMove
<1>8. PICK L, N, a, b : /\ L = accounts /\ N = accounts' /\ AreStates(L)
                        /\ a = Vals(L, Wallets) /\ b = Vals(N, Wallets)
  BY LedgersHaveStates
<1>9. v <= a[k] /\ b = With(a, k, a[k] - v)
  BY <1>2, <1>3, <1>4, <1>8, ValueIsRemoved
<1>10. a \in [Wallets -> Nat]
  BY <1>8, ValuesAreNat
<1>11. ASSUME NEW j \in Wallets
       PROVE  b[j] + outputs'[Owned(j)] =
                IF j = k THEN (a[j] + outputs[Owned(j)]) - v ELSE a[j] + outputs[Owned(j)]
  <2>1. b[j] = IF j = k THEN a[j] - v ELSE a[j]
    BY <1>4, <1>9, <1>10 DEF With
  <2>2. PICK p \in Nat, q \in Nat : p = a[j] /\ q = outputs[Owned(j)]
    BY <1>5, <1>10
  <2>3. (p - v) + q = (p + q) - v
    BY <1>3
  <2> QED BY <1>7, <2>1, <2>2, <2>3
<1>12. Held(accounts', outputs') = [Held(accounts, outputs) EXCEPT ![k] = @ - v]
  BY <1>4, <1>8, <1>11 DEF Held
<1>13. v <= Held(accounts, outputs)[k]
  BY <1>3, <1>4, <1>5, <1>8, <1>9, <1>10 DEF Held
<1> QED BY <1>2, <1>3, <1>4, <1>6, <1>7, <1>12, <1>13, SpentStake

\* A payment to a multisig account.
LEMMA PayMultisigStake ==
    ASSUME AccountsInv, StakeInv, NEW id \in Identifiers, NEW v \in Amounts, PayMultisig(id, v)
    PROVE  StakeInv'
<1>1. v \in Nat /\ v <= outputs[Nobody] /\ outputs' = [outputs EXCEPT ![Nobody] = @ - v]
      /\ multisig' \in MultisigAddValue(multisig, id, v)
      /\ control' = remove_unassigned(control, v) /\ UNCHANGED accounts
  BY ClientConstants DEF PayMultisig, TakeOutput
<1>2. PICK L, A, f, g : /\ L = multisig.accounts /\ A \in add_value(L, id, v) /\ AreStates(L)
                        /\ multisig' = [multisig EXCEPT !.accounts = A]
                        /\ f = Vals(L, Identifiers) /\ g = Vals(A, Identifiers)
  BY <1>1, LedgersHaveStates DEF MultisigAddValue
<1>3. multisig'.accounts = A
  <2>1. multisig = [accounts |-> multisig.accounts, declarations |-> multisig.declarations]
    BY DEF AccountsInv
  <2> QED BY <1>2, <2>1
<1>4. g = With(f, id, f[id] + v) /\ f \in [Identifiers -> Nat]
  BY <1>1, <1>2, ValueIsAdded, ValuesAreNat
<1>5. PICK x \in Nat, y \in Nat : x = f[id] /\ y = x + v
  BY <1>1, <1>4
<1>6. PICK m \in Nat : m = IdentifierSum(f)
  BY <1>4, <1>5, IdentifierSumChanges
<1>7. IdentifierSum(g) = m + v
  <2>1. IdentifierSum(g) = IdentifierSum(f) - f[id] + y
    BY <1>4, <1>5, IdentifierSumChanges DEF With
  <2>2. m - x + y = m + v
    BY <1>1, <1>5
  <2> QED BY <1>5, <1>6, <2>1, <2>2
<1>8. HeldByOwners = m /\ HeldByOwners' = m + v
  BY <1>2, <1>3, <1>6, <1>7 DEF HeldByOwners
<1>9. outputs \in [Homes -> Nat] /\ outputs[Nobody] \in Nat
  BY DEF StakeInv, Homes
<1>10. PICK n \in Nat : n = outputs[Nobody] - v
  BY <1>1, <1>9
<1>11. outputs' \in [Homes -> Nat] /\ outputs'[Nobody] = n /\ Held(accounts, outputs') = Held(accounts, outputs)
  <2>1. outputs' = [outputs EXCEPT ![Nobody] = n]
    BY <1>1, <1>10
  <2>2. Nobody \in Homes /\ \A j \in Wallets : Owned(j) \in Homes /\ Owned(j) # Nobody
    BY DEF Homes, Owned, Nobody
  <2>3. \A j \in Wallets : outputs'[Owned(j)] = outputs[Owned(j)]
    BY <1>9, <2>1, <2>2
  <2> QED BY <1>9, <2>1, <2>2, <2>3 DEF Held
<1>12. StakeOK(remove_unassigned(control, v), Held(accounts, outputs), n, m + v)
  <2>1. PICK h, u : h = Held(accounts, outputs) /\ u = outputs[Nobody]
    BY <1>9
  <2>2. StakeOK(control, h, u, m)
    BY <1>8, <2>1 DEF StakeInv
  <2>3. StakeOK(remove_unassigned(control, v), h, u - v, m + v)
    BY <1>1, <2>1, <2>2, MultisigMoves
  <2> QED BY <1>10, <2>1, <2>3
<1> QED BY <1>1, <1>8, <1>11, <1>12 DEF StakeInv

\* A spending from a multisig account.
LEMMA SpendMultisigStake ==
    ASSUME AccountsInv, StakeInv, NEW s \in signed, SpendMultisig(s.msg)
    PROVE  StakeInv'
<1>1. PICK id, v, c : id = s.msg.id /\ v = s.msg.value /\ c = s.msg.counter
  OBVIOUS
<1>2. /\ outputs' = [outputs EXCEPT ![Nobody] = @ + v]
      /\ control' = add_unassigned(control, v) /\ UNCHANGED accounts
      /\ multisig' \in MultisigRemoveValue(multisig, id, c, v)
  BY <1>1 DEF SpendMultisig, GiveBack, input_multi_account_verify
<1>3. v \in Nat
  <2>1. s \in Signatures
    BY DEF AccountsInv
  <2> QED BY <1>1, <2>1, ClientConstants DEF Signatures
<1>4. PICK L, A, f, g : /\ L = multisig.accounts /\ A \in remove_value(L, id, c, v) /\ AreStates(L)
                        /\ multisig' = [multisig EXCEPT !.accounts = A]
                        /\ f = Vals(L, Identifiers) /\ g = Vals(A, Identifiers)
  BY <1>2, LedgersHaveStates DEF MultisigRemoveValue
<1>5. multisig'.accounts = A
  <2>1. multisig = [accounts |-> multisig.accounts, declarations |-> multisig.declarations]
    BY DEF AccountsInv
  <2> QED BY <1>4, <2>1
<1>6. id \in Identifiers
  <2>1. id \in DOMAIN L
    BY <1>4 DEF remove_value
  <2> QED BY <1>4, <2>1, LedgersHaveStates
<1>7. v <= f[id] /\ g = With(f, id, f[id] - v) /\ f \in [Identifiers -> Nat]
  BY <1>3, <1>4, <1>6, ValueIsRemoved, ValuesAreNat
<1>8. PICK x \in Nat, y \in Nat : x = f[id] /\ y = x - v
  BY <1>3, <1>6, <1>7
<1>9. PICK m \in Nat : m = IdentifierSum(f) /\ x <= m
  BY <1>6, <1>7, <1>8, IdentifierSumChanges
<1>10. IdentifierSum(g) = m - v
  <2>1. IdentifierSum(g) = IdentifierSum(f) - f[id] + y
    BY <1>6, <1>7, <1>8, IdentifierSumChanges DEF With
  <2>2. m - x + y = m - v
    BY <1>3, <1>8
  <2> QED BY <1>8, <1>9, <2>1, <2>2
<1>11. HeldByOwners = m /\ HeldByOwners' = m - v
  BY <1>4, <1>5, <1>9, <1>10 DEF HeldByOwners
<1>12. outputs \in [Homes -> Nat] /\ outputs[Nobody] \in Nat
  BY DEF StakeInv, Homes
<1>13. PICK n \in Nat : n = outputs[Nobody] + v
  BY <1>3, <1>12
<1>14. outputs' \in [Homes -> Nat] /\ outputs'[Nobody] = n /\ Held(accounts, outputs') = Held(accounts, outputs)
  <2>1. outputs' = [outputs EXCEPT ![Nobody] = n]
    BY <1>2, <1>13
  <2>2. Nobody \in Homes /\ \A j \in Wallets : Owned(j) \in Homes /\ Owned(j) # Nobody
    BY DEF Homes, Owned, Nobody
  <2>3. \A j \in Wallets : outputs'[Owned(j)] = outputs[Owned(j)]
    BY <1>12, <2>1, <2>2
  <2> QED BY <1>12, <2>1, <2>2, <2>3 DEF Held
<1>15. StakeOK(add_unassigned(control, v), Held(accounts, outputs), n, m - v)
  <2>1. PICK h, u : h = Held(accounts, outputs) /\ u = outputs[Nobody]
    BY <1>12
  <2>2. StakeOK(control, h, u, m) /\ v <= m
    BY <1>3, <1>7, <1>8, <1>9, <1>11, <2>1 DEF StakeInv
  <2>3. StakeOK(add_unassigned(control, v), h, u + v, m - v)
    BY <1>3, <2>2, MultisigMoves
  <2> QED BY <1>13, <2>1, <2>3
<1> QED BY <1>2, <1>11, <1>14, <1>15 DEF StakeInv

\* A step in which no account has another value.
LEMMA StakeKept ==
    ASSUME StakeInv, UNCHANGED <<outputs, control>>,
           Vals(accounts', Wallets) = Vals(accounts, Wallets),
           Vals(multisig'.accounts, Identifiers) = Vals(multisig.accounts, Identifiers)
    PROVE  StakeInv'
<1>1. Held(accounts', outputs') = Held(accounts, outputs)
  BY DEF Held
<1>2. HeldByOwners' = HeldByOwners
  BY DEF HeldByOwners
<1> QED BY <1>1, <1>2 DEF StakeInv

\* Steps that move no value.
LEMMA NothingMoves ==
    ASSUME AccountsInv, StakeInv,
           \/ \E k \in Wallets, v \in Amounts : SignSingle(k, v) \/ Mint(k, v)
           \/ \E k \in Keys, id \in Identifiers, v \in Amounts : SignMultisig(k, id, v)
           \/ \E decl \in Declarations : Declare(decl)
           \/ \E id \in Identifiers : Undeclare(id)
           \/ \E id \in Wallets \cup Identifiers, d \in Delegations : Delegate(id, d)
           \/ UNCHANGED accountsVars
    PROVE  StakeInv'
<1>1. PICK L, M : L = accounts /\ M = multisig.accounts /\ AreStates(L) /\ AreStates(M)
  BY LedgersHaveStates
<1>2. PICK K, N : K = accounts' /\ N = multisig'.accounts
  OBVIOUS
<1>3. multisig = [accounts |-> M, declarations |-> multisig.declarations]
  BY <1>1 DEF AccountsInv
<1>4. UNCHANGED <<outputs, control>> /\ Vals(K, Wallets) = Vals(L, Wallets)
      /\ Vals(N, Identifiers) = Vals(M, Identifiers)
  <2>1. ASSUME NEW k \in Wallets, NEW v \in Amounts, SignSingle(k, v)
        PROVE  UNCHANGED <<outputs, control, accounts, multisig>>
    BY <2>1 DEF SignSingle
  <2>2. ASSUME NEW k \in Keys, NEW id \in Identifiers, NEW v \in Amounts, SignMultisig(k, id, v)
        PROVE  UNCHANGED <<outputs, control, accounts, multisig>>
    BY <2>2 DEF SignMultisig
  <2>3. UNCHANGED accountsVars => UNCHANGED <<outputs, control, accounts, multisig>>
    BY DEF accountsVars
  <2>4. ASSUME NEW k \in Wallets, NEW v \in Amounts, Mint(k, v)
        PROVE  UNCHANGED <<outputs, control, multisig>> /\ Vals(K, Wallets) = Vals(L, Wallets)
    <3>1. K \in token_add(L, k, Token, v) /\ UNCHANGED <<outputs, control, multisig>>
      BY <1>1, <1>2, <2>4 DEF Mint
    <3> QED BY <1>1, <3>1, ValuesAreKept
  <2>5. ASSUME NEW decl \in Declarations, Declare(decl)
        PROVE  UNCHANGED <<outputs, control, accounts>> /\ Vals(N, Identifiers) = Vals(M, Identifiers)
    <3>1. PICK id : id = to_identifier(decl)
      OBVIOUS
    <3>2. multisig' \in MultisigAddAccount(multisig, decl) /\ UNCHANGED <<outputs, control, accounts>>
      BY <2>5 DEF Declare
    <3>3. N \in add_account(M, id, 0)
      BY <1>1, <1>2, <3>1, <3>2 DEF MultisigAddAccount
    <3> QED BY <3>2, <3>3, EmptyAccounts
  <2>6. ASSUME NEW id \in Identifiers, Undeclare(id)
        PROVE  UNCHANGED <<outputs, control, accounts>> /\ Vals(N, Identifiers) = Vals(M, Identifiers)
    <3>1. multisig' \in MultisigRemoveAccount(multisig, id) /\ UNCHANGED <<outputs, control, accounts>>
      BY <2>6 DEF Undeclare
    <3>2. N \in remove_account(M, id)
      BY <1>1, <1>2, <3>1 DEF MultisigRemoveAccount
    <3> QED BY <3>1, <3>2, EmptyAccounts
  <2>7. ASSUME NEW id \in Wallets \cup Identifiers, NEW d \in Delegations, Delegate(id, d)
        PROVE  UNCHANGED <<outputs, control>> /\ Vals(K, Wallets) = Vals(L, Wallets)
               /\ Vals(N, Identifiers) = Vals(M, Identifiers)
    <3>1. PICK ratio : \/ accounts' \in set_delegation(accounts, id, ratio) /\ UNCHANGED multisig
                       \/ /\ multisig' \in MultisigSetDelegation(multisig, id, ratio)
                          /\ UNCHANGED accounts
      BY <2>7 DEF Delegate
    <3>2. UNCHANGED <<outputs, control>>
      BY <2>7 DEF Delegate
    <3>3. CASE accounts' \in set_delegation(accounts, id, ratio) /\ UNCHANGED multisig
      <4>1. K \in set_delegation(L, id, ratio) /\ N = M
        BY <1>1, <1>2, <3>3
      <4> QED BY <1>1, <3>2, <4>1, ValuesAreKept
    <3>4. CASE multisig' \in MultisigSetDelegation(multisig, id, ratio) /\ UNCHANGED accounts
      <4>1. N \in set_delegation(M, id, ratio) /\ K = L
        BY <1>1, <1>2, <1>3, <3>4 DEF MultisigSetDelegation
      <4> QED BY <1>1, <3>2, <4>1, ValuesAreKept
    <3> QED BY <3>1, <3>3, <3>4
  <2> QED BY <1>1, <1>2, <2>1, <2>2, <2>3, <2>4, <2>5, <2>6, <2>7
<1> QED BY <1>1, <1>2, <1>4, StakeKept

-----------------------------------------------------------------------------
(* The rewards of an epoch add up. *)

AddShare(sum, share, env) == sum + share

Shares == INSTANCE FoldTheorems WITH Op <- AddShare

\* Two shares, added one after the other, are their sum.
LEMMA SharesAddUp ==
    ASSUME NEW v \in Nat, NEW w \in Nat
    PROVE  Shares!Fold(0, <<v, w>>, 0) = v + w
<1>0. <<v, w>> \in Seq(Nat)
  OBVIOUS
<1>1. PICK q \in Seq(Nat) : q = <<v, w>>
  BY <1>0
<1>2. Len(q) = 2 /\ q[1] = v /\ q[2] = w
  BY <1>1
<1>3. PICK f : Shares!IsLoop(f, 0, q, 0) /\ Shares!Fold(0, q, 0) = f[Len(q)]
  BY Shares!FoldIsLoop
<1>4. f[0] = 0 /\ f[1] = AddShare(f[1 - 1], q[1], 0) /\ f[2] = AddShare(f[2 - 1], q[2], 0)
  BY <1>2, <1>3 DEF Shares!IsLoop
<1>5. f[1] = v /\ f[2] = v + w
  BY <1>2, <1>4 DEF AddShare
<1> QED BY <1>1, <1>2, <1>3, <1>5

\* The rewards are added in rounds.
LEMMA RewardRounds ==
    ASSUME NEW base, NEW q \in Seq(Nat), NEW env
    PROVE  \E f : Rewards!IsLoop(f, base, q, env) /\ Rewards!Fold(base, q, env) = f[Len(q)]
  BY Rewards!FoldIsLoop

\* An account that gets two shares gets their sum.
LEMMA SharesAreAdded ==
    ASSUME NEW L, AreStates(L), NEW q \in Seq(Nat), DOMAIN q = 1 .. 2, NEW env, env[1] \in Wallets,
           NEW base, base = {L}, NEW N \in Rewards!Fold(base, q, env)
    PROVE  Vals(N, Wallets) = With(Vals(L, Wallets), env[1], Vals(L, Wallets)[env[1]] + (q[1] + q[2]))
<1>1. PICK k, e : k = env[1] /\ e = env[2]
  OBVIOUS
<1>2. PICK v \in Nat, w \in Nat : q[1] = v /\ q[2] = w
  OBVIOUS
<1>3. PICK f : Rewards!IsLoop(f, base, q, env) /\ Rewards!Fold(base, q, env) = f[Len(q)]
  BY RewardRounds
<1>len. Len(q) = 2
  OBVIOUS
<1>4. f[0] = base /\ \A i \in 1 .. 2 : f[i] = RewardShare(f[i - 1], q[i], env)
  BY <1>3, <1>len DEF Rewards!IsLoop
<1>5. N \in RewardShare(f[1], w, env) /\ f[1] = RewardShare({L}, v, env)
  <2>1. 1 \in 1 .. 2 /\ 2 \in 1 .. 2 /\ 1 - 1 = 0 /\ 2 - 1 = 1
    OBVIOUS
  <2>2. f[1] = RewardShare(f[1 - 1], q[1], env) /\ f[2] = RewardShare(f[2 - 1], q[2], env)
    BY <1>4, <2>1
  <2>3. f[1] = RewardShare(f[0], q[1], env) /\ f[2] = RewardShare(f[1], q[2], env)
    BY <2>1, <2>2
  <2>4. N \in f[2]
    BY <1>3, <1>len
  <2> QED BY <1>2, <1>4, <2>3, <2>4
<1>6. PICK K \in f[1] : N \in add_rewards_to_account(K, k, e, w)
  BY <1>1, <1>5 DEF RewardShare
<1>7. K \in add_rewards_to_account(L, k, e, v)
  BY <1>1, <1>5, <1>6 DEF RewardShare
<1>8. AreStates(K)
  BY <1>7, AddRewardsKeeps DEF AreStates, KeepsCounters
<1>9. PICK a, b, c : a = Vals(L, Wallets) /\ b = Vals(K, Wallets) /\ c = Vals(N, Wallets)
  OBVIOUS
<1>10. b = With(a, k, a[k] + v) /\ c = With(b, k, b[k] + w) /\ a \in [Wallets -> Nat]
  <2>1. Vals(K, Wallets) = With(Vals(L, Wallets), k, Vals(L, Wallets)[k] + v)
    BY <1>1, <1>7, ValueIsAdded
  <2>2. Vals(N, Wallets) = With(Vals(K, Wallets), k, Vals(K, Wallets)[k] + w)
    BY <1>1, <1>6, <1>8, ValueIsAdded
  <2> QED BY <1>9, <2>1, <2>2, ValuesAreNat
<1>11. PICK x \in Nat : x = a[k]
  BY <1>1, <1>10
<1>12. b[k] = x + v /\ (x + v) + w = x + (v + w)
  BY <1>1, <1>10, <1>11 DEF With
<1>13. c = With(a, k, x + (v + w))
  BY <1>10, <1>11, <1>12 DEF With
<1> QED BY <1>1, <1>2, <1>9, <1>11, <1>13

\* The rewards of an epoch.
LEMMA RewardStake ==
    ASSUME AccountsInv, StakeInv, NEW k \in Wallets, NEW y \in Nat, NEW z \in Nat,
           Reward(k, <<y, z>>)
    PROVE  StakeInv'
<1>1. PICK v \in Nat : v = y + z /\ v = Shares!Fold(0, <<y, z>>, 0)
  BY SharesAddUp
<1>2. v <= outputs[Nobody] /\ outputs' = [outputs EXCEPT ![Nobody] = @ - v]
      /\ control' = add_to(remove_unassigned(control, v), k, v) /\ UNCHANGED multisig
  BY <1>1 DEF Reward, TakeOutput, FoldLeft, MapThenFoldSet, Max, Shares!Fold, Shares!Greatest,
             AddShare
<1>3. accounts' \in Rewards!Fold({accounts}, <<y, z>>, <<k, epoch>>)
  BY DEF Reward, Rewards!Fold, Rewards!Greatest, RewardShare, FoldLeft, MapThenFoldSet, Max
<1>4. outputs \in [Homes -> Nat] /\ outputs[Nobody] \in Nat
  BY DEF StakeInv, Homes
<1>5. PICK n \in Nat : n = outputs[Nobody] - v
  BY <1>2, <1>4
<1>6. /\ outputs' \in [Homes -> Nat] /\ outputs'[Nobody] = n
      /\ \A j \in Wallets : outputs'[Owned(j)] = outputs[Owned(j)]
  BY <1>2, <1>4, <1>5, OutputsMove
<1>7. PICK L, N, a, b : /\ L = accounts /\ N = accounts' /\ AreStates(L)
                        /\ a = Vals(L, Wallets) /\ b = Vals(N, Wallets)
  BY LedgersHaveStates
<1>8. b = With(a, k, a[k] + v) /\ a \in [Wallets -> Nat]
  <2>1. PICK q, env, base : q = <<y, z>> /\ env = <<k, epoch>> /\ base = {L}
    OBVIOUS
  <2>2. q \in Seq(Nat) /\ Len(q) = 2 /\ q[1] = y /\ q[2] = z /\ env[1] = k
    BY <2>1
  <2>3. N \in Rewards!Fold(base, q, env)
    BY <1>3, <1>7, <2>1
  <2>4. Vals(N, Wallets) = With(Vals(L, Wallets), env[1], Vals(L, Wallets)[env[1]] + (q[1] + q[2]))
    <3>1. env[1] \in Wallets
      BY <2>2
    <3>2. base = {L} /\ AreStates(L) /\ q \in Seq(Nat) /\ DOMAIN q = 1 .. 2
      BY <1>7, <2>1, <2>2
    <3> QED BY <2>3, <3>1, <3>2, SharesAreAdded
  <2> QED BY <1>1, <1>7, <2>2, <2>4, ValuesAreNat
<1>9. ASSUME NEW j \in Wallets
      PROVE  b[j] + outputs'[Owned(j)] =
                IF j = k THEN a[j] + outputs[Owned(j)] + v ELSE a[j] + outputs[Owned(j)]
  <2>1. b[j] = IF j = k THEN a[j] + v ELSE a[j]
    BY <1>8 DEF With
  <2>2. PICK p \in Nat, q \in Nat : p = a[j] /\ q = outputs[Owned(j)]
    BY <1>4, <1>8 DEF Homes
  <2>3. (p + v) + q = p + q + v
    OBVIOUS
  <2> QED BY <1>6, <2>1, <2>2, <2>3
<1>10. Held(accounts', outputs') = [Held(accounts, outputs) EXCEPT ![k] = @ + v]
  BY <1>7, <1>9 DEF Held
<1> QED BY <1>2, <1>5, <1>6, <1>10, PaidStake

-----------------------------------------------------------------------------
(* The steps together. *)

\* With no account, nobody controls the supply.
LEMMA StakeStart == AccountsInit => StakeInv
<1> SUFFICES ASSUME AccountsInit PROVE StakeInv
  OBVIOUS
<1>1. PICK f, m : f = Held(accounts, outputs) /\ m = HeldByOwners
  OBVIOUS
<1>2. /\ outputs = [to \in Homes |-> IF to = Nobody THEN Supply ELSE 0]
      /\ accounts = <<>> /\ multisig.accounts = <<>> /\ control = add_unassigned(ControlNew, Supply)
  BY DEF AccountsInit, Homes, MultisigNew
<1>3. Supply \in Nat /\ Supply <= MaxValue
  BY SupplyFits, AccountSizes
<1>4. outputs \in [Homes -> Nat] /\ outputs[Nobody] = Supply
      /\ \A k \in Wallets : outputs[Owned(k)] = 0
  <2>1. Nobody \in Homes /\ \A k \in Wallets : Owned(k) \in Homes /\ Owned(k) # Nobody
    BY DEF Homes, Owned, Nobody
  <2> QED BY <1>2, <1>3, <2>1
<1>5. \A x : ValueAt(accounts, x) = 0 /\ ValueAt(multisig.accounts, x) = 0
  BY <1>2 DEF ValueAt
<1>6. f \in [Wallets -> Nat] /\ \A k \in Wallets : f[k] = 0
  BY <1>1, <1>4, <1>5 DEF Held, Vals
<1>7. WalletSum(f) = 0
  BY <1>6, FinitelyMany, Rewards!SumZero DEF WalletSum, Rewards!ZeroOn
<1>8. m = 0
  <2>1. PICK g : g = Vals(multisig.accounts, Identifiers)
    OBVIOUS
  <2>2. Rewards!ZeroOn(g, Identifiers)
    BY <1>5, <2>1 DEF Vals, Rewards!ZeroOn
  <2>3. IdentifierSum(g) = 0
    BY <2>2, FinitelyMany, Rewards!SumZero DEF IdentifierSum
  <2> QED BY <1>1, <2>1, <2>3 DEF HeldByOwners
<1>9. ControlOK(ControlNew, f, 0)
  BY <1>6, <1>7 DEF ControlOK, ControlNew
<1>10. ControlOK(control, f, Supply)
  <2>1. ControlOK(add_unassigned(ControlNew, Supply), f, 0 + Supply)
    BY <1>3, <1>9, UnassignedOK
  <2> QED BY <1>2, <1>3, <2>1
<1>11. StakeOK(control, f, Supply, m)
  BY <1>3, <1>6, <1>7, <1>8, <1>10 DEF StakeOK
<1> QED BY <1>1, <1>4, <1>11 DEF StakeInv

\* Every step keeps the supply accounted for.
LEMMA StakeStep == AccountsInv /\ StakeInv /\ [AccountsNext]_accountsVars => StakeInv'
<1> SUFFICES ASSUME AccountsInv, StakeInv, [AccountsNext]_accountsVars PROVE StakeInv'
  OBVIOUS
<1>1. ASSUME NEW k \in Wallets, NEW v \in Amounts,
             PayAccount(k, v) \/ PayGroup(k, v) \/ SignSingle(k, v) \/ Mint(k, v)
      PROVE  StakeInv'
  BY <1>1, PayAccountStake, PayGroupStake, NothingMoves
<1>2. ASSUME NEW k \in Wallets, SpendGroup(k) PROVE StakeInv'
  BY <1>2, SpendGroupStake
<1>3. ASSUME NEW id \in Identifiers, NEW v \in Amounts, PayMultisig(id, v) PROVE StakeInv'
  BY <1>3, PayMultisigStake
<1>4. ASSUME NEW k \in Keys, NEW id \in Identifiers, NEW v \in Amounts, SignMultisig(k, id, v)
      PROVE  StakeInv'
  BY <1>4, NothingMoves
<1>5. ASSUME NEW s \in signed, SpendSingle(s) PROVE StakeInv'
  BY <1>5, SpendSingleStake
<1>6. ASSUME NEW s \in signed, SpendMultisig(s.msg) PROVE StakeInv'
  BY <1>6, SpendMultisigStake
<1>7. ASSUME NEW decl \in Declarations, Declare(decl) PROVE StakeInv'
  BY <1>7, NothingMoves
<1>8. ASSUME NEW id \in Identifiers, Undeclare(id) PROVE StakeInv'
  BY <1>8, NothingMoves
<1>9. ASSUME NEW id \in Wallets \cup Identifiers, NEW d \in Delegations, Delegate(id, d)
      PROVE  StakeInv'
  BY <1>9, NothingMoves
<1>10. ASSUME NEW k \in Wallets, NEW v \in Amounts, NEW w \in Amounts, Reward(k, <<v, w>>)
       PROVE  StakeInv'
  <2>1. v \in Nat /\ w \in Nat
    BY ClientConstants
  <2> QED BY <1>10, <2>1, RewardStake
<1>11. CASE UNCHANGED accountsVars
  BY <1>11, NothingMoves
<1> QED BY <1>1, <1>2, <1>3, <1>4, <1>5, <1>6, <1>7, <1>8, <1>9, <1>10, <1>11 DEF AccountsNext

-----------------------------------------------------------------------------
(* The control that is computed from a ledger. *)

Lists(q, S) ==
    /\ q \in Seq(S)
    /\ \A i, j \in 1 .. Len(q) : q[i] = q[j] => i = j
    /\ \A x \in S : \E i \in 1 .. Len(q) : q[i] = x

\* A list of a finite set has every element once.
LEMMA ListOfSet ==
    ASSUME NEW S, IsFiniteSet(S), NEW q, q = SetToSeq(S)
    PROVE  Lists(q, S)
<1> DEFINE n == Cardinality(S)
           D == 1 .. n
<1>1. n \in Nat /\ ExistsBijection(D, S)
  BY FS_CardinalityType
<1>2. PICK b : b \in Injection(D, S)
  BY <1>1 DEF ExistsBijection, Bijection
<1>3. b \in [D -> S] /\ IsInjective(b)
  BY <1>2 DEF Injection
<1>4. q = CHOOSE f \in [D -> S] : IsInjective(f)
  BY DEF SetToSeq
<1>5. q \in [D -> S] /\ IsInjective(q)
  <2> HIDE DEF IsInjective, D
  <2> QED BY <1>3, <1>4
<1>6. q \in Seq(S) /\ Len(q) = n /\ DOMAIN q = D
  BY <1>1, <1>5
<1>7. \A i, j \in D : q[i] = q[j] => i = j
  BY <1>5, <1>6 DEF IsInjective
<1>8. q \in Surjection(D, S)
  <2>1. q \in Injection(D, S)
    BY <1>5 DEF Injection
  <2>2. Cardinality(D) = n
    BY <1>1, FS_Interval
  <2> HIDE DEF D
  <2> QED BY <2>1, <2>2, FS_Injection
<1>9. \A x \in S : \E i \in D : q[i] = x
  BY <1>8 DEF Surjection
<1> QED BY <1>6, <1>7, <1>9 DEF Lists

\* f where S is, 0 elsewhere.
PartOf(f, S) == [k \in Wallets |-> IF k \in S THEN f[k] ELSE 0]

SeenIn(q, i) == {q[j] : j \in 1 .. i}

\* The elements before the next one do not have it, the ones up to it do.
LEMMA SeenNext ==
    ASSUME NEW S, NEW q \in Seq(S), \A i, j \in 1 .. Len(q) : q[i] = q[j] => i = j,
           NEW i \in Nat, i + 1 \in 1 .. Len(q)
    PROVE  /\ SeenIn(q, i + 1) = SeenIn(q, i) \cup {q[i + 1]} /\ q[i + 1] \notin SeenIn(q, i)
           /\ q[i + 1] \in S
<1>1. Len(q) \in Nat
  OBVIOUS
<1>2. 1 .. (i + 1) = (1 .. i) \cup {i + 1} /\ i + 1 \notin 1 .. i /\ 1 .. i \subseteq 1 .. Len(q)
  BY <1>1
<1>3. SeenIn(q, i + 1) = SeenIn(q, i) \cup {q[i + 1]}
  BY <1>2 DEF SeenIn
<1>4. q[i + 1] \notin SeenIn(q, i)
  BY <1>2 DEF SeenIn
<1>5. q[i + 1] \in S
  OBVIOUS
<1> QED BY <1>3, <1>4, <1>5

\* Less has a smaller sum.
LEMMA WalletSumAtMost ==
    ASSUME NEW f \in [Wallets -> Nat], NEW g \in [Wallets -> Nat], \A k \in Wallets : f[k] <= g[k]
    PROVE  WalletSum(f) <= WalletSum(g)
<1>1. Rewards!Ints(f, Wallets) /\ Rewards!Ints(g, Wallets) /\ Rewards!AtMostOn(f, g, Wallets)
  BY DEF Rewards!Ints, Rewards!AtMostOn
<1> QED BY <1>1, FinitelyMany, Rewards!SumAtMost DEF WalletSum

\* One more to a part of what fits.
LEMMA AddToPart ==
    ASSUME NEW f \in [Wallets -> Nat], NEW g \in [Wallets -> Nat], NEW all \in [Wallets -> Nat],
           NEW k \in Wallets, NEW v \in Nat, g[k] = f[k] + v,
           \A j \in Wallets : j # k => g[j] = f[j],
           \A j \in Wallets : g[j] <= all[j], WalletSum(all) <= MaxValue,
           NEW s, NEW u, ControlOK(s, f, u)
    PROVE  ControlOK(add_to(s, k, v), g, u)
<1>1. PICK n \in Nat, x \in Nat : x = f[k] /\ n = x + v
  OBVIOUS
<1>2. g = [f EXCEPT ![k] = n]
  BY <1>1
<1>3. WalletSum(g) <= WalletSum(all)
  BY WalletSumAtMost
<1>4. WalletSum(g) = WalletSum(f) - f[k] + n
  <2>1. Rewards!Ints(f, Wallets) /\ Rewards!Ints(g, Wallets) /\ Rewards!SameOn(f, g, Wallets \ {k})
    BY DEF Rewards!Ints, Rewards!SameOn
  <2>2. WalletSum(g) = WalletSum(f) - f[k] + g[k]
    BY <2>1, FinitelyMany, Rewards!SumChanges DEF WalletSum
  <2> QED BY <1>1, <2>2
<1>5. WalletSum(f) \in Nat /\ WalletSum(all) \in Nat /\ MaxValue \in Nat
  BY WalletSumType, AccountSizes
<1>6. WalletSum(f) + v <= MaxValue
  <2>1. PICK a \in Nat, b \in Nat, c \in Nat : a = WalletSum(f) /\ b = WalletSum(g) /\ c = WalletSum(all)
    BY <1>5, WalletSumType
  <2>2. b = a - x + n
    BY <1>1, <1>4, <2>1
  <2>3. a + v <= c
    BY <1>1, <1>3, <2>1, <2>2
  <2> QED BY <1>5, <2>1, <2>3
<1>7. ControlOK(add_to(s, k, v), [f EXCEPT ![k] = @ + v], u)
  BY <1>6, AddToOK
<1> QED BY <1>1, <1>2, <1>7

AddEntry(s, id, L) == add_to(s, id, L[id].value)

Entries == INSTANCE FoldTheorems WITH Op <- AddEntry

\* The accounts give every wallet the value of its account.
LEMMA AccountsAreCounted ==
    ASSUME NEW L, AreStates(L), DOMAIN L \subseteq Wallets,
           WalletSum(Vals(L, Wallets)) <= MaxValue
    PROVE  ControlOK(update_accounts(ControlNew, L), Vals(L, Wallets), 0)
<1>1. PICK q, all, ids : q = SetToSeq(ids) /\ all = Vals(L, Wallets) /\ ids = DOMAIN L
  OBVIOUS
<1>2. all \in [Wallets -> Nat]
  BY <1>1, ValuesAreNat
<1>3. IsFiniteSet(ids)
  <2>1. IsFiniteSet(Wallets) /\ ids \in SUBSET Wallets
    BY <1>1, ClientConstants
  <2> QED BY <2>1, FS_Subset
<1>4. /\ q \in Seq(ids)
      /\ \A i, j \in 1 .. Len(q) : q[i] = q[j] => i = j
      /\ \A x \in ids : \E i \in 1 .. Len(q) : q[i] = x
  BY <1>1, <1>3, ListOfSet DEF Lists
<1>5. Len(q) \in Nat
  BY <1>4
<1>6. update_accounts(ControlNew, L) = Entries!Fold(ControlNew, q, L)
  BY <1>1 DEF update_accounts, FoldLeft, MapThenFoldSet, Max, Entries!Fold, Entries!Greatest, AddEntry
<1>7. PICK f : Entries!IsLoop(f, ControlNew, q, L) /\ Entries!Fold(ControlNew, q, L) = f[Len(q)]
  BY <1>4, Entries!FoldIsLoop
<1> DEFINE g(i) == PartOf(all, SeenIn(q, i))
           S == {i \in Nat : ControlOK(f[i], g(i), 0)}
<1>8. ASSUME NEW i \in Nat
      PROVE  g(i) \in [Wallets -> Nat] /\ \A k \in Wallets : g(i)[k] <= all[k]
  BY <1>2 DEF PartOf
<1>9. 0 \in S
  <2>1. SeenIn(q, 0) = {}
    BY DEF SeenIn
  <2>2. g(0) \in [Wallets -> Nat] /\ \A k \in Wallets : g(0)[k] = 0
    BY <2>1 DEF PartOf
  <2> HIDE DEF g
  <2>3. WalletSum(g(0)) = 0
    BY <2>2, FinitelyMany, Rewards!SumZero DEF WalletSum, Rewards!ZeroOn
  <2>4. f[0] = ControlNew
    BY <1>7 DEF Entries!IsLoop
  <2> QED BY <2>2, <2>3, <2>4 DEF ControlOK, ControlNew
<1>10. ASSUME NEW i \in Nat, 0 <= i, i < Len(q), i \in S PROVE i + 1 \in S
  <2>1. i + 1 \in 1 .. Len(q) /\ (i + 1) - 1 = i
    BY <1>5, <1>10
  <2>2. f[i + 1] = AddEntry(f[i], q[i + 1], L)
    BY <1>7, <2>1 DEF Entries!IsLoop
  <2>3. PICK k : k = q[i + 1]
    OBVIOUS
  <2>4. SeenIn(q, i + 1) = SeenIn(q, i) \cup {k} /\ k \notin SeenIn(q, i) /\ k \in DOMAIN L
    BY <1>1, <1>4, <2>1, <2>3, SeenNext
  <2>5. k \in Wallets /\ all[k] = L[k].value /\ all[k] \in Nat
    BY <1>1, <1>2, <2>4 DEF Vals, ValueAt
  <2>6. PICK v \in Nat : v = L[k].value /\ v = all[k]
    BY <2>5
  <2>7. g(i + 1)[k] = g(i)[k] + v /\ \A j \in Wallets : j # k => g(i + 1)[j] = g(i)[j]
    BY <2>4, <2>5, <2>6 DEF PartOf
  <2>8. f[i + 1] = add_to(f[i], k, v) /\ ControlOK(f[i], g(i), 0)
    BY <1>10, <2>2, <2>3, <2>6 DEF AddEntry
  <2>9. i + 1 \in Nat /\ WalletSum(all) <= MaxValue
    BY <1>1
  <2>10. ControlOK(add_to(f[i], k, v), g(i + 1), 0)
    <3>1. PICK a, b : a = g(i) /\ b = g(i + 1)
      OBVIOUS
    <3>2. a \in [Wallets -> Nat] /\ b \in [Wallets -> Nat] /\ \A j \in Wallets : b[j] <= all[j]
      BY <1>8, <2>9, <3>1
    <3> HIDE DEF g
    <3> QED BY <1>2, <2>5, <2>7, <2>8, <2>9, <3>1, <3>2, AddToPart
  <2> QED BY <2>8, <2>9, <2>10
<1> HIDE DEF S
<1>11. \A i \in 0 .. Len(q) : i \in S
  BY <1>5, <1>9, <1>10, Entries!IntervalInduction
<1>12. ControlOK(f[Len(q)], g(Len(q)), 0)
  BY <1>5, <1>11 DEF S
<1>13. g(Len(q)) = all
  <2>1. DOMAIN L \subseteq SeenIn(q, Len(q))
    BY <1>1, <1>4 DEF SeenIn
  <2>2. \A k \in Wallets : k \notin DOMAIN L => all[k] = 0
    BY <1>1 DEF Vals, ValueAt
  <2>3. \A k \in Wallets : (IF k \in SeenIn(q, Len(q)) THEN all[k] ELSE 0) = all[k]
    BY <2>1, <2>2
  <2> QED BY <1>2, <2>3 DEF PartOf
<1> QED BY <1>1, <1>6, <1>7, <1>12, <1>13
AddOutput(s, o, env) ==
    IF o.to = <<>> THEN add_unassigned(s, o.value) ELSE add_to(s, o.to[1], o.value)

Outputs == INSTANCE FoldTheorems WITH Op <- AddOutput

OutputSet(outs) == {[to |-> to, value |-> outs[to]] : to \in Homes}

\* There are finitely many outputs.
LEMMA FinitelyManyOutputs ==
    ASSUME NEW outs
    PROVE  IsFiniteSet(OutputSet(outs))
<1>1. PICK own, rec : own = [k \in Wallets |-> Owned(k)]
                       /\ rec = [to \in Homes |-> [to |-> to, value |-> outs[to]]]
  OBVIOUS
<1>2. PICK A : A = {Owned(k) : k \in Wallets}
  OBVIOUS
<1>3. Rewards!FromOn(A, own, Wallets)
  BY <1>1, <1>2 DEF Rewards!FromOn
<1>4. Rewards!IsFiniteSet(A)
  BY <1>3, FinitelyMany, Rewards!FiniteValues
<1>5. IsFiniteSet(A)
  BY <1>4 DEF IsFiniteSet, Rewards!IsFiniteSet
<1>6. IsFiniteSet(A \cup {Nobody})
  BY <1>5, FS_AddElement
<1>7. Homes = A \cup {Nobody}
  BY <1>2 DEF Homes
<1>8. Rewards!IsFiniteSet(Homes)
  BY <1>6, <1>7 DEF IsFiniteSet, Rewards!IsFiniteSet
<1>9. Rewards!FromOn(OutputSet(outs), rec, Homes)
  BY <1>1 DEF Rewards!FromOn, OutputSet
<1>10. Rewards!IsFiniteSet(OutputSet(outs))
  BY <1>8, <1>9, Rewards!FiniteValues
<1> QED BY <1>10 DEF IsFiniteSet, Rewards!IsFiniteSet

\* The outputs add to what the wallets have in their accounts.
LEMMA OutputsAreCounted ==
    ASSUME NEW vals \in [Wallets -> Nat], NEW outs \in [Homes -> Nat], NEW start,
           ControlOK(start, vals, 0), NEW all \in [Wallets -> Nat],
           \A k \in Wallets : all[k] = vals[k] + outs[Owned(k)],
           WalletSum(all) <= MaxValue, outs[Nobody] <= MaxValue, NEW q, Lists(q, OutputSet(outs))
    PROVE  ControlOK(update_utxos(start, q), all, outs[Nobody])
<1> DEFINE Rec(to) == [to |-> to, value |-> outs[to]]
           X == OutputSet(outs)
           Now(i, to) == IF Rec(to) \in SeenIn(q, i) THEN outs[to] ELSE 0
           g(i) == [k \in Wallets |-> vals[k] + Now(i, Owned(k))]
<1>1. \A to \in Homes : Rec(to) \in X
  BY DEF OutputSet
<1>2. \A x \in X : \E to \in Homes : x = Rec(to)
  BY DEF OutputSet
<1>3. \A to : Rec(to).to = to /\ Rec(to).value = outs[to]
  OBVIOUS
<1>4. /\ q \in Seq(X)
      /\ \A i, j \in 1 .. Len(q) : q[i] = q[j] => i = j
      /\ \A x \in X : \E i \in 1 .. Len(q) : q[i] = x
  BY DEF Lists
<1> HIDE DEF Rec, X
<1>5. Len(q) \in Nat
  BY <1>4
<1>6. update_utxos(start, q) = Outputs!Fold(start, q, 0)
  BY DEF update_utxos, FoldLeft, MapThenFoldSet, Max, Outputs!Fold, Outputs!Greatest, AddOutput
<1>7. PICK f : Outputs!IsLoop(f, start, q, 0) /\ Outputs!Fold(start, q, 0) = f[Len(q)]
  BY <1>4, Outputs!FoldIsLoop
<1>8. Nobody \in Homes /\ \A k \in Wallets : Owned(k) \in Homes /\ Owned(k) # Nobody /\ Owned(k)[1] = k
  BY DEF Homes, Owned, Nobody
<1>9. \A to \in Homes : to = Nobody \/ \E k \in Wallets : to = Owned(k)
  BY DEF Homes
<1>10. \A i \in Nat : \A to \in Homes : Now(i, to) \in Nat /\ Now(i, to) <= outs[to]
  OBVIOUS
<1>11. \A i \in Nat : g(i) \in [Wallets -> Nat] /\ \A k \in Wallets : g(i)[k] <= all[k]
  <2> SUFFICES ASSUME NEW i \in Nat, NEW k \in Wallets
               PROVE  vals[k] + Now(i, Owned(k)) \in Nat /\ vals[k] + Now(i, Owned(k)) <= all[k]
    OBVIOUS
  <2>1. PICK a \in Nat, b \in Nat, c \in Nat : a = vals[k] /\ b = Now(i, Owned(k)) /\ c = outs[Owned(k)]
    BY <1>8, <1>10
  <2>2. b <= c /\ all[k] = a + c
    BY <1>8, <1>10, <2>1
  <2> HIDE DEF Now
  <2> QED BY <2>1, <2>2
<1>12. ASSUME NEW i \in Nat, i < Len(q)
       PROVE  \E to \in Homes : /\ q[i + 1] = Rec(to) /\ Now(i, to) = 0 /\ Now(i + 1, to) = outs[to]
                                /\ \A o \in Homes : o # to => Now(i + 1, o) = Now(i, o)
  <2>1. i + 1 \in 1 .. Len(q)
    BY <1>5, <1>12
  <2>2. SeenIn(q, i + 1) = SeenIn(q, i) \cup {q[i + 1]} /\ q[i + 1] \notin SeenIn(q, i)
        /\ q[i + 1] \in X
    BY <1>4, <2>1, SeenNext
  <2>3. PICK to \in Homes : q[i + 1] = Rec(to)
    BY <1>2, <2>2
  <2>4. \A o \in Homes : o # to => Rec(o) # Rec(to)
    BY <1>3
  <2> QED BY <2>2, <2>3, <2>4
<1> DEFINE S == {i \in Nat : ControlOK(f[i], g(i), Now(i, Nobody))}
<1>13. 0 \in S
  <2>1. SeenIn(q, 0) = {}
    BY DEF SeenIn
  <2>2. \A to : Now(0, to) = 0
    BY <2>1
  <2>3. g(0) = vals
    <3> HIDE DEF Now
    <3>1. \A k \in Wallets : vals[k] + Now(0, Owned(k)) = vals[k]
      BY <2>2
    <3> QED BY <3>1
  <2>4. f[0] = start
    BY <1>7 DEF Outputs!IsLoop
  <2> HIDE DEF Now, g
  <2> QED BY <2>2, <2>3, <2>4
<1> HIDE DEF Now
<1>14. ASSUME NEW i \in Nat, 0 <= i, i < Len(q), i \in S PROVE i + 1 \in S
  <2>1. i + 1 \in 1 .. Len(q) /\ (i + 1) - 1 = i /\ i + 1 \in Nat
    BY <1>5, <1>14
  <2>2. f[i + 1] = AddOutput(f[i], q[i + 1], 0)
    BY <1>7, <2>1 DEF Outputs!IsLoop
  <2>3. PICK to \in Homes : /\ q[i + 1] = Rec(to) /\ Now(i, to) = 0 /\ Now(i + 1, to) = outs[to]
                            /\ \A o \in Homes : o # to => Now(i + 1, o) = Now(i, o)
    BY <1>12, <1>14
  <2>4. PICK v \in Nat : v = outs[to]
    OBVIOUS
  <2>5. PICK a, b : a = g(i) /\ b = g(i + 1)
    OBVIOUS
  <2>6. a \in [Wallets -> Nat] /\ b \in [Wallets -> Nat] /\ \A k \in Wallets : b[k] <= all[k]
    <3> HIDE DEF g
    <3> QED BY <1>11, <2>1, <2>5
  <2>7. ControlOK(f[i], a, Now(i, Nobody))
    BY <1>14, <2>5
  <2>8. f[i + 1] = IF to = Nobody THEN add_unassigned(f[i], v) ELSE add_to(f[i], to[1], v)
    BY <1>3, <2>2, <2>3, <2>4 DEF AddOutput, Nobody
  <2>9. CASE to = Nobody
    <3>1. b = a
      BY <1>8, <2>3, <2>5, <2>9
    <3>2. ControlOK(f[i], a, 0)
      BY <2>3, <2>7, <2>9
    <3>3. 0 + v <= MaxValue /\ 0 + v = v
      BY <2>4, <2>9
    <3>4. ControlOK(add_unassigned(f[i], v), a, v)
      BY <3>2, <3>3, UnassignedOK
    <3>5. ControlOK(f[i + 1], b, Now(i + 1, Nobody))
      BY <2>3, <2>4, <2>8, <2>9, <3>1, <3>4
    <3> QED BY <2>1, <2>5, <3>5
  <2>10. CASE to # Nobody
    <3>1. PICK k \in Wallets : to = Owned(k)
      BY <1>9, <2>10
    <3>2. to[1] = k
      BY <1>8, <3>1
    <3>3. b[k] = a[k] + v
      BY <2>3, <2>4, <2>5, <3>1
    <3>4. \A j \in Wallets : j # k => b[j] = a[j]
      <4> SUFFICES ASSUME NEW j \in Wallets, j # k PROVE b[j] = a[j]
        OBVIOUS
      <4>1. Owned(j) # to /\ Owned(j) \in Homes
        BY <1>8, <3>1
      <4>2. Now(i + 1, Owned(j)) = Now(i, Owned(j))
        BY <2>3, <4>1
      <4> QED BY <2>5, <4>2
    <3>5. Now(i + 1, Nobody) = Now(i, Nobody)
      BY <1>8, <2>3, <2>10
    <3>6. ControlOK(add_to(f[i], k, v), b, Now(i, Nobody))
      <4> HIDE DEF g
      <4> QED BY <2>6, <2>7, <3>3, <3>4, AddToPart
    <3>7. ControlOK(f[i + 1], b, Now(i + 1, Nobody))
      BY <2>8, <2>10, <3>2, <3>5, <3>6
    <3> QED BY <2>1, <2>5, <3>7
  <2> QED BY <2>9, <2>10
<1> HIDE DEF S
<1>15. \A i \in 0 .. Len(q) : i \in S
  BY <1>5, <1>13, <1>14, Outputs!IntervalInduction
<1>16. ControlOK(f[Len(q)], g(Len(q)), Now(Len(q), Nobody))
  BY <1>5, <1>15 DEF S
<1>17. \A to \in Homes : Now(Len(q), to) = outs[to]
  <2> SUFFICES ASSUME NEW to \in Homes PROVE Rec(to) \in SeenIn(q, Len(q))
    BY DEF Now
  <2>1. PICK i \in 1 .. Len(q) : q[i] = Rec(to)
    BY <1>1, <1>4
  <2> QED BY <2>1 DEF SeenIn
<1>18. g(Len(q)) = all
  <2>1. \A k \in Wallets : vals[k] + Now(Len(q), Owned(k)) = all[k]
    BY <1>8, <1>17
  <2> QED BY <2>1
<1> QED BY <1>6, <1>7, <1>8, <1>16, <1>17, <1>18

\* A control is known by what it is the control of.
LEMMA ControlsAgree ==
    ASSUME NEW s, NEW t, NEW f, NEW u, ControlOK(s, f, u), ControlOK(t, f, u)
    PROVE  /\ s.assigned = WalletSum(f) /\ s.unassigned = u
           /\ s.assigned = t.assigned /\ s.unassigned = t.unassigned
           /\ \A k \in Wallets : {0} \cup by(s, k) = {0} \cup by(t, k)
<1>1. s.assigned = WalletSum(f) /\ s.unassigned = u /\ t.assigned = WalletSum(f) /\ t.unassigned = u
  <2>1. PICK a, b, c : a = WalletSum(f) /\ b = s.control /\ c = t.control
    OBVIOUS
  <2>2. s = [assigned |-> a, unassigned |-> u, control |-> b]
        /\ t = [assigned |-> a, unassigned |-> u, control |-> c]
    BY <2>1 DEF ControlOK
  <2> QED BY <2>1, <2>2
<1>2. ASSUME NEW k \in Wallets PROVE {0} \cup by(s, k) = {0, f[k]} /\ {0} \cup by(t, k) = {0, f[k]}
  <2>1. {0} \cup by(s, k) = {0, f[k]}
    BY DEF ControlOK, by
  <2>2. {0} \cup by(t, k) = {0, f[k]}
    BY DEF ControlOK, by
  <2> QED BY <2>1, <2>2
<1> QED BY <1>1, <1>2

\* The control computed from the ledger is the one of what wallets have.
LEMMA FreshControl ==
    ASSUME AccountsInv, StakeInv
    PROVE  ControlOK(new_with(accounts, OutputList), Held(accounts, outputs), outputs[Nobody])
<1>1. PICK L, vals, all, q : /\ L = accounts /\ vals = Vals(L, Wallets)
                             /\ all = Held(accounts, outputs) /\ q = OutputList
  OBVIOUS
<1>2. AreStates(L) /\ DOMAIN L \subseteq Wallets
  BY <1>1, LedgersHaveStates
<1>3. vals \in [Wallets -> Nat]
  BY <1>1, <1>2, ValuesAreNat
<1>4. outputs \in [Homes -> Nat] /\ all \in [Wallets -> Nat]
  BY <1>1 DEF StakeInv, StakeOK
<1>5. WalletSum(all) <= MaxValue /\ outputs[Nobody] <= MaxValue
  BY <1>1, StakeFits DEF StakeInv
<1>6. \A k \in Wallets : all[k] = vals[k] + outputs[Owned(k)] /\ outputs[Owned(k)] \in Nat
  BY <1>1, <1>4 DEF Held, Homes
<1>7. WalletSum(vals) <= MaxValue
  <2>1. \A k \in Wallets : vals[k] <= all[k]
    BY <1>3, <1>6
  <2>2. WalletSum(vals) <= WalletSum(all)
    BY <1>3, <1>4, <2>1, WalletSumAtMost
  <2>3. WalletSum(vals) \in Nat /\ WalletSum(all) \in Nat /\ MaxValue \in Nat
    BY <1>3, <1>4, WalletSumType, AccountSizes
  <2> QED BY <1>5, <2>2, <2>3
<1>8. ControlOK(update_accounts(ControlNew, L), vals, 0)
  BY <1>1, <1>2, <1>7, AccountsAreCounted
<1>9. Lists(q, OutputSet(outputs))
  <2>1. q = SetToSeq(OutputSet(outputs))
    BY <1>1, <1>4 DEF OutputList, OutputSet
  <2> QED BY <2>1, FinitelyManyOutputs, ListOfSet
<1>10. ControlOK(update_utxos(update_accounts(ControlNew, L), q), all, outputs[Nobody])
  <2>1. PICK start, outs : start = update_accounts(ControlNew, L) /\ outs = outputs
    OBVIOUS
  <2>2. ControlOK(start, vals, 0) /\ outs \in [Homes -> Nat] /\ Lists(q, OutputSet(outs))
        /\ outs[Nobody] <= MaxValue /\ \A k \in Wallets : all[k] = vals[k] + outs[Owned(k)]
    BY <1>4, <1>5, <1>6, <1>8, <1>9, <2>1
  <2>3. ControlOK(update_utxos(start, q), all, outs[Nobody])
    BY <1>3, <1>4, <1>5, <2>2, OutputsAreCounted
  <2> QED BY <2>1, <2>3
<1> QED BY <1>1, <1>10 DEF new_with

\* The multisig accounts that exist have what all that may be declared have.
LEMMA TotalOfOwners ==
    ASSUME AccountsInv
    PROVE  get_total_value(multisig.accounts) = HeldByOwners
<1>1. PICK L, D, f, g : /\ L = multisig.accounts /\ D = DOMAIN L
                        /\ f = [id \in D |-> L[id].value] /\ g = Vals(L, Identifiers)
  OBVIOUS
<1>2. AreStates(L) /\ D \subseteq Identifiers
  BY <1>1, LedgersHaveStates
<1>3. g \in [Identifiers -> Nat]
  BY <1>1, <1>2, ValuesAreNat
<1>4. get_total_value(L) = Rewards!Sum(f, D)
  <2>1. get_total_value(L) = Rewards!Sum([id \in DOMAIN L |-> L[id].value], DOMAIN L)
    BY DEF get_total_value, MapThenSumSet, MapThenFoldSet, Rewards!Sum, Rewards!Pick
  <2> QED BY <1>1, <2>1
<1>5. Rewards!IsFiniteSet(D)
  BY <1>2, FinitelyMany, Rewards!FS_Subset
<1>6. Rewards!Sum(g, D) = Rewards!Sum(f, D)
  <2>1. Rewards!Ints(g, D) /\ Rewards!SameOn(g, f, D)
    BY <1>1, <1>2, <1>3 DEF Rewards!Ints, Rewards!SameOn, Vals, ValueAt
  <2> QED BY <1>5, <2>1, Rewards!SumSame
<1>7. Rewards!Sum(g, Identifiers) = Rewards!Sum(g, D)
  <2>1. Rewards!Ints(g, D) /\ Rewards!ZeroOn(g, Identifiers \ D)
    BY <1>1, <1>2, <1>3 DEF Rewards!Ints, Rewards!ZeroOn, Vals, ValueAt
  <2> QED BY <1>2, <2>1, FinitelyMany, Rewards!SumSupport
<1> QED BY <1>1, <1>4, <1>6, <1>7 DEF HeldByOwners, IdentifierSum

\* The control of stake that is kept up to date with every payment, spending and
\* reward is the one new_with computes from the ledger, entry by entry and in
\* total, and no sum in it ever wraps or drops an entry: with the multisig
\* accounts it adds up to the supply.
THEOREM ControlFollowsLedger == AccountsSpec => []StakeControlAgrees
<1>1. AccountsInv /\ StakeInv => StakeControlAgrees
  <2> SUFFICES ASSUME AccountsInv, StakeInv PROVE StakeControlAgrees
    OBVIOUS
  <2>1. PICK fresh, f, u : fresh = new_with(accounts, OutputList)
                           /\ f = Held(accounts, outputs) /\ u = outputs[Nobody]
    OBVIOUS
  <2>2. ControlOK(control, f, u) /\ u + WalletSum(f) + HeldByOwners = Supply
        /\ f \in [Wallets -> Nat] /\ u \in Nat
    BY <2>1 DEF StakeInv, StakeOK
  <2>3. ControlOK(fresh, f, u)
    BY <2>1, FreshControl
  <2>4. /\ control.assigned = WalletSum(f) /\ control.unassigned = u
        /\ control.assigned = fresh.assigned /\ control.unassigned = fresh.unassigned
        /\ \A k \in Wallets : {0} \cup by(control, k) = {0} \cup by(fresh, k)
    BY <2>2, <2>3, ControlsAgree
  <2>5. ControlTotal(control) = u + WalletSum(f)
    <3>1. PICK w \in Nat : w = WalletSum(f)
      BY <2>2, WalletSumType
    <3>2. w + u = u + w
      BY <2>2
    <3> QED BY <2>4, <3>1, <3>2 DEF ControlTotal
  <2>6. ControlTotal(control) + get_total_value(multisig.accounts) = Supply
    BY <2>2, <2>5, TotalOfOwners
  <2>7. \A k \in Wallets : Max({0} \cup by(control, k)) = Max({0} \cup by(fresh, k))
    BY <2>4
  <2> QED BY <2>1, <2>4, <2>6, <2>7 DEF StakeControlAgrees
<1>2. AccountsInit => AccountsInv /\ StakeInv
  BY AccountsStart, StakeStart
<1>3. AccountsInv /\ StakeInv /\ [AccountsNext]_accountsVars => (AccountsInv /\ StakeInv)'
  BY AccountsStep, StakeStep
<1> QED BY <1>1, <1>2, <1>3, PTL DEF AccountsSpec
=============================================================================
