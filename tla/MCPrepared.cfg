SPECIFICATION RepeatSpec
CONSTANTS
    r1 = r1
    r2 = r2
    install = install
    context = context
    Runs = {r1, r2}
    Parts = {install, context}
    MaxSetbacks = 1
    None = None
INVARIANTS ConsumedTogether OnlyMovedTagsBlock
PROPERTIES EventuallyConsumed
CHECK_DEADLOCK FALSE
