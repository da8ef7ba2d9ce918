\* Statements with a parameter only: what a cast makes of it.
CONSTANTS
    GroupDigits = 2
    SubsecondDigits = 2
    SecondsPerDay = 2
    MaxDay = 4
    MaxInt = 7
    IsStatement <- MCParameters
    UserTypes <- MCUserTypes
    Domains <- MCDomains
    Unreturnable <- MCUnreturnable
    Tables <- MCTables
SPECIFICATION Spec
INVARIANTS
    CastsReadLikeLiterals
CHECK_DEADLOCK FALSE
