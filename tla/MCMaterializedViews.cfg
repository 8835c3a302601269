CONSTANTS
    h1 = h1  h2 = h2
    Queries <- QueryTexts
    Handlers <- OneHandler
    MaxObjects = 2
    MaxVersion = 2
SPECIFICATION FairSpec
INVARIANTS
    TypeOK
    ViewShowsAQueryOfItsName
PROPERTIES
    StaleDataIsKept
    ChangesAreShown
CHECK_DEADLOCK FALSE
