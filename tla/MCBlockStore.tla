---------------------------- MODULE MCBlockStore ----------------------------
(* Instances of the block store for TLC.  The tree has two branches above  *)
(* a common block:                                                         *)
(*                                                                         *)
(*     n0 <- n1 <- n2 <- n3                                                *)
(*             \<- m2 <- m3                                                *)
EXTENDS BlockStoreQueries

CONSTANTS n0, n1, n2, n3, m2, m3, writer, other

Tree == {n0, n1, n2, n3, m2, m3}

TreeParent == [x \in Tree |-> CASE x = n0 -> Root
                                [] x = n1 -> n0
                                [] x \in {n2, m2} -> n1
                                [] x = n3 -> n2
                                [] x = m3 -> m2]

TreeLength == [x \in Tree |-> CASE x = n0 -> 0
                                [] x = n1 -> 1
                                [] x \in {n2, m2} -> 2
                                [] x \in {n3, m3} -> 3]

\* The branch the node settles on.
MainBranch == {n1, n2, n3}

\* The part of the tree used when threads interleave.
Fork == {n0, n1, n2, m2}

ForkParent == [x \in Fork |-> TreeParent[x]]

ForkLength == [x \in Fork |-> TreeLength[x]]

ForkBranch == {n1, n2}

\* One thread that calls everything.
OneThread == [t \in {writer} |-> {"put", "tag", "prune", "flush", "get"}]

\* A thread that may be stopped at any point, and one that sets tags.
WriterAndTagger ==
    [t \in {writer, other} |-> IF t = writer THEN {"put", "prune", "flush", "get", "stop"}
                               ELSE {"tag"}]
=============================================================================
