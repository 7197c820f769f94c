CONSTANTS
    Vars = {"x", "y", "z"}
    Funs = {"f", "g", "h"}
    Programs <- MCPrograms
    SourceForms <- MCForms
    InstSizes <- MCSizes
    MaxStack = 16
SPECIFICATION EvaluationSpec
INVARIANTS
    ResultMatches
    CodeKept
PROPERTIES
    CallersKept
