SPECIFICATION Spec
CONSTANTS
    Alphabet <- MCAlphabet
    Libraries <- MCLibraries
    Compiler <- MCCompiler
    Meaning <- MeaningOf
    Projects <- MCProjects
    Field = 7
    Fuel = 12
INVARIANTS AcceptedMeans AcceptedRuns IncludesClosed
