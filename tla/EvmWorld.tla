------------------------------ MODULE EvmWorld ------------------------------
(***************************************************************************)
(* What a contract may rely on: every address has an account, with a zero  *)
(* in every slot until one is written, that changes by what a successful   *)
(* transaction says of that address and by nothing else, and the hashes of *)
(* the blocks are found under their numbers.                               *)
(***************************************************************************)
EXTENDS Sequences, SequencesExt

CONSTANTS Addresses, Slots

VARIABLES
    world,      \* the accounts
    hashes,     \* the hash of each block, from the first
    did         \* the last operation

Nothing == [nonce |-> 0, balance |-> 0, code |-> <<>>, storage |-> [s \in Slots |-> 0]]

Init ==
    /\ world = [address \in Addresses |-> Nothing]
    /\ hashes = <<>>
    /\ did = [op |-> "none"]

Changed(account, value) ==
    [nonce |-> value.basic.nonce, balance |-> value.basic.balance,
     code |-> IF value.code = {} THEN account.code ELSE CHOOSE c \in value.code : TRUE,
     storage |-> [s \in Slots |->
                    IF s \in DOMAIN value.storage THEN value.storage[s]
                    ELSE IF value.reset_storage THEN 0 ELSE account.storage[s]]]

Applied(accounts, value) ==
    [accounts EXCEPT ![value.address] =
        IF value.kind = "Delete" THEN Nothing ELSE Changed(@, value)]

Transact ==
    /\ did'.op = "transact"
    /\ world' = FoldLeft(Applied, world, did'.values)
    /\ UNCHANGED hashes

Fail == did'.op = "failed" /\ UNCHANGED <<world, hashes>>

Block ==
    /\ did'.op = "block"
    /\ hashes' = Append(hashes, did'.hash)
    /\ UNCHANGED world

Next == Transact \/ Fail \/ Block

Spec == Init /\ [][Next]_<<world, hashes, did>>
=============================================================================
