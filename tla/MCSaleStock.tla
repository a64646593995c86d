---------------------------- MODULE MCSaleStock ----------------------------
(* Instances of SaleStock small enough for TLC. *)
EXTENDS SaleStock, TLC

CONSTANTS s1, s2, s3

\* One product, sold by the item and by the pack.
MCProductOf == [k \in Slots |-> "p"]
MCMinSelling == [p \in Products |-> 1]
MCBinOf == [k \in Slots |-> k]
MCInitStock == [b \in Bins |-> IF b = "item" THEN 2 ELSE 1]
MCSeedRows == {[sale |-> s, slot |-> "item", qty |-> IF s = s1 THEN 2 ELSE 1,
                by |-> Seed, n |-> 1] : s \in {s1, s2}}

item(q) == [slot |-> "item", qty |-> q, plu |-> TRUE]
box(q) == [slot |-> "box", qty |-> q, plu |-> TRUE]

\* One line, a line of each pack type, more than there is in stock.
MCUpdateBodies == {<<>>, <<item(1)>>, <<item(5)>>, <<item(3), box(1)>>}

back(q, b, f) == [slot |-> "item", qty |-> q, back |-> b, refund |-> f]

MCReturnBodies == {<<>>, <<back(1, TRUE, TRUE)>>, <<back(2, FALSE, FALSE)>>}

MCCreateBodies == {<<>>, <<item(1)>>, <<[item(1) EXCEPT !.plu = FALSE]>>}

\* For runs with three requests: one body of each kind.
MCUpdateBodies1 == {<<item(3), box(1)>>}
MCReturnBodies1 == {<<back(1, TRUE, TRUE)>>}
MCCreateBodies1 == {<<[item(1) EXCEPT !.plu = FALSE]>>}

\* For the liveness run: more than there is in stock, and a line of each pack type.
MCUpdateBodies2 == {<<item(5)>>, <<item(3), box(1)>>}

MCNone == {}

\* Requests differ in nothing but their name.
MCSymmetry == Permutations(Requests)
=============================================================================
