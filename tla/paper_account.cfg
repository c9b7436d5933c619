SPECIFICATION PaperSpec
CONSTANTS
    Symbol = {a, b}
    Kinds = {"overseas", "swing"}
    Price = {10, 15, 20}
    Rate = {1, 2}
    Budget = 19200
    MaxPositions = 2
    EntryPct = {75}
    AddPct = {100}
    InitialPct = 50
    MaxAdds = 1
    StepPct = 20
    FirstPct = 50
    TakePct = 100
    ExitParts = 2
    FeePct = 10
    MaxTrades = 1
    MaxRestarts = 1
SYMMETRY Symmetry
INVARIANTS
    WithinCap
    BooksBalance
