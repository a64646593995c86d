----------------------------- MODULE MCCatalogue -----------------------------
(* Instances of Catalogue small enough for TLC. *)
EXTENDS Catalogue

CONSTANTS s1, s2, s3, ca, cb, f1, f2, f3

\* A product with a pack, a supplier and code ca, and one with variants ca and cb.
MCSeedProducts ==
    <<Seed, 1>> :> [code |-> ca, hasVariants |-> FALSE, packIds |-> {<<Seed, 1, 1>>},
                    variants |-> <<>>, qty |-> 1] @@
    <<Seed, 2>> :> [code |-> NoCode, hasVariants |-> TRUE, packIds |-> {},
                    variants |-> <<[code |-> ca, packs |-> {<<Seed, 2, 1>>}, qty |-> 1],
                                   [code |-> cb, packs |-> {}, qty |-> 1]>>,
                    qty |-> 0]

MCSeedPacks == <<Seed, 1, 1>> :> <<Seed, 1>> @@ <<Seed, 2, 1>> :> <<Seed, 2>>

MCSeedLinks == {[product |-> <<Seed, 1>>, supplier |-> s1, state |-> "primary"]}

variant(c, n, s) == [code |-> c, packs |-> n, supplier |-> s, qty |-> 1]

plain(c, n, listed) ==
    [hv |-> "no", code |-> c, packs |-> n, given |-> listed # {}, listed |-> listed,
     variants |-> <<>>]

varied(vs, listed) ==
    [hv |-> "yes", code |-> NoCode, packs |-> 0, given |-> listed # {},
     listed |-> listed, variants |-> vs]

first(s) == [supplier |-> s, state |-> "primary"]
other(s) == [supplier |-> s, state |-> "secondary"]

\* A taken code; unknown suppliers; two variants of one supplier; two primaries.
MCCreateBodies ==
    {plain(ca, 2, {first(s1), other(s2)}), plain(NoCode, 0, {first(s3)}),
     varied(<<variant(ca, 1, s1), variant(cb, 0, s1)>>, {}), plain(cb, 0, {first(s1), first(s2)})}

\* Packs and suppliers replaced; a taken code; variants in place of packs; a body
\* that changes neither.
MCUpdateBodies ==
    {plain(cb, 1, {first(s2)}), plain(ca, 0, {}),
     varied(<<variant(cb, 1, s2)>>, {first(s1)}), [plain(NoCode, 0, {}) EXCEPT !.hv = "unset"]}

\* f2 holds code cb twice; f3, which is bare, code ca, that a product has, twice.
MCRowsOf ==
    [f \in Files |->
       IF f = f1
       THEN <<[code |-> cb, variants |-> <<>>, supplier |-> s2],
              [code |-> NoCode, variants |-> <<ca, cb>>, supplier |-> NoSupplier]>>
       ELSE IF f = f2
       THEN <<[code |-> cb, variants |-> <<>>, supplier |-> NoSupplier],
              [code |-> cb, variants |-> <<>>, supplier |-> NoSupplier]>>
       ELSE <<[code |-> ca, variants |-> <<>>, supplier |-> s2],
              [code |-> ca, variants |-> <<cb>>, supplier |-> NoSupplier]>>]

MCSymmetry == Permutations(Requests)

\* What the theorems suppose of the rows at the start.
ASSUME SeedsAssumption == SeedPacksAgree /\ SeedsHaveOnePrimary /\ SeedsHaveOwnCodes
===============================================================================
