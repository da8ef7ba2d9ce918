\* Every text of at most six characters over the families.  A text that has
\* reached its length grows no more.
CONSTANTS
    Families <- MCFamilies
    MaxLength = 6
SPECIFICATION Spec
INVARIANTS
    LexesLikePostgres
    ParametersAreRewritten
    StatementsStandAlone
    KeywordsAreSeen
    NoStringIsCorrupted
CHECK_DEADLOCK FALSE
