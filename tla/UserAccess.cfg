CONSTANTS
    PAGE_SIZE = 4
    Pages = 3
    MaxCount = 9
    WORD = 128
SPECIFICATION Spec
INVARIANTS
    TypeOK
    HelperInPage
    CopyExact
    StrncpyExact
    StrnlenFound
PROPERTY PagesWritten
