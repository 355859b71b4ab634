CONSTANTS
    Field = 3
    Usize = 8
    FewConstraints = 2
    MostRounds = 9
    Programs <- MCPrograms
    Options <- MCOptions
SPECIFICATION Spec
INVARIANTS
    SolutionsPreserved
    LayoutStable
    EverySignalPlaced
    NumberingAgrees
