SPECIFICATION Spec
CONSTANTS
    Field = 5
    Usize = 8
    Programs <- MCPrograms
INVARIANTS
    CodeAgrees
    WitnessSatisfies
    AssignedOnce
    TagsTrue
    InputsGiven
