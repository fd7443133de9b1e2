SPECIFICATION Spec
CONSTANTS
    MaxOps = 2
    MaxGen = 1
    Breaks = {FALSE}
    Scenarios <- UnreapedScenarios
INVARIANT EndedIsDead
