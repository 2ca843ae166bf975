SPECIFICATION Spec
CONSTANTS
    Iters = {"i1", "i2"}
    PushBodies <- MCPushBodies
    Answers <- MCAnswers
    Stacks <- MCStacks
    MaxPushes = 2
INVARIANTS
    HandedOutInOrder
    SomeoneSeesAll
    OutcomeKept
