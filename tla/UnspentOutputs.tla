--------------------------- MODULE UnspentOutputs ---------------------------
(***************************************************************************)
(* What the ledger relies on utxo::Ledger for: the outputs of a fragment   *)
(* enter together and once, an output leaves when it is spent and with the *)
(* value it entered with, and several outputs of one fragment are spent    *)
(* together or not at all.                                                 *)
(***************************************************************************)
CONSTANTS Fragments, Indexes, Vals

VARIABLES unspent, did

Init == unspent = << >> /\ did = [op |-> "none"]

Of(f) == {ptr \in DOMAIN unspent : ptr[1] = f}

Answer(op, f, out, got) == did' = [op |-> op, k |-> f, out |-> out, got |-> got]

Add(f) ==
    \/ /\ Answer("add", f, "none", {})
       /\ Of(f) = {}
       /\ \E new \in UNION {[S -> Vals] : S \in (SUBSET Indexes) \ {{}}} :
            unspent' = [ptr \in DOMAIN unspent \cup {<<f, i>> : i \in DOMAIN new} |->
                            IF ptr[1] = f THEN new[ptr[2]] ELSE unspent[ptr]]
    \/ Answer("add", f, "EntryExists", {}) /\ Of(f) # {} /\ UNCHANGED unspent

Spend(f, is) ==
    \/ /\ \A i \in is : <<f, i>> \in DOMAIN unspent
       /\ Answer("spend", f, "none", {<<i, unspent[<<f, i>>]>> : i \in is})
       /\ unspent' = [ptr \in DOMAIN unspent \ {<<f, i>> : i \in is} |-> unspent[ptr]]
    \/ /\ Answer("spend", f, "TransactionNotFound", {})
       /\ Of(f) = {} /\ UNCHANGED unspent
    \/ /\ Answer("spend", f, "IndexNotFound", {})
       /\ Of(f) # {} /\ UNCHANGED unspent

Rebuild == did' = [op |-> "from_iter", out |-> "none"] /\ UNCHANGED unspent

Next ==
    \/ \E f \in Fragments : Add(f) \/ \E is \in (SUBSET Indexes) \ {{}} : Spend(f, is)
    \/ Rebuild

Spec == Init /\ [][Next]_<<unspent, did>>
=============================================================================
