CONSTANTS
    h1 = h1  h2 = h2
    Queries <- QueryTexts
    Handlers <- TwoHandlers
    MaxObjects = 2
    MaxVersion = 2
SPECIFICATION ServerSpec
INVARIANT ViewShowsItsQuery
CHECK_DEADLOCK FALSE
