CONSTANTS
    Vars = {"x", "y"}
    Funs = {"f"}
    Programs <- LambdaTest
    SourceForms <- LambdaTestForms
    InstSizes <- LambdaTestSizes
    MaxStack = 8
SPECIFICATION EvaluationSpec
INVARIANTS
    LambdaTestPasses
