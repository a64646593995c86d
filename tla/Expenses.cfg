CONSTANTS
    r1 = r1
    r2 = r2
    r3 = r3
    folder = folder
    shelf = shelf
    ledger = ledger
    amount = amount
    note = note
    Root = Root
    Unset = Unset
    Seed = Seed
    Requests = {r1, r2, r3}
    SeedNames <- MCSeedNames
    Names = {amount, note}
    SeedDirs <- MCDirs
    SeedSheets <- MCSheets
    NewSheets <- MCNewSheets
    Replacements <- MCReplacements
    Additions <- MCAdditions
SYMMETRY Symmetry
SPECIFICATION Spec
INVARIANTS
    TypeOK
    TreeIsTidy
    SheetsKeepApart
PROPERTIES
    UpdateReplaces
CHECK_DEADLOCK FALSE
