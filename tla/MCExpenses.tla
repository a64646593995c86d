------------------------------ MODULE MCExpenses ------------------------------
(* A small instance of Expenses for TLC. *)
EXTENDS Expenses, TLC

CONSTANTS r1, r2, r3, folder, shelf, ledger, amount, note

MCDirs == [d \in {folder, shelf} |-> [parent |-> Root, level |-> 1, active |-> TRUE]]
MCSheets == (ledger :> [dir |-> folder, active |-> TRUE])
MCSeedNames == <<amount>>
Drafted(cells) == [cells |-> cells, draft |-> TRUE]
Submitted(cells) == [cells |-> cells, draft |-> FALSE]
MCNewSheets == {[names |-> <<amount, amount>>, rows |-> <<Drafted({amount}), Submitted({amount})>>],
                [names |-> <<amount>>, rows |-> <<Drafted({note})>>]}
MCReplacements == {[names |-> <<amount, amount>>, rows |-> Unset],
                   [names |-> <<note>>, rows |-> <<Drafted({note}), Submitted({note})>>],
                   [names |-> Unset, rows |-> <<Submitted({amount})>>]}
MCAdditions == {[rows |-> <<Drafted({amount})>>],
                [rows |-> <<Submitted({amount, note}), Submitted({note})>>]}
Symmetry == Permutations(Requests)
===============================================================================
