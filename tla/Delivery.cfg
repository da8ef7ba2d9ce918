\* Every statement of every family.  The run ends when it is answered.
CONSTANTS
    GroupDigits = 2
    SubsecondDigits = 2
    SecondsPerDay = 2
    MaxDay = 4
    MaxInt = 7
    IsStatement <- MCStatements
    UserTypes <- MCUserTypes
    Domains <- MCDomains
    Unreturnable <- MCUnreturnable
    Tables <- MCTables
SPECIFICATION Spec
INVARIANTS
    RowsArriveUnchanged
    ParametersArriveUnchanged
    MisreadOnlyAfterTemporalCast
    UnreturnableIsRecovered
    ErrorsKeepTheirFields
    NamesAreNotMispaired
CHECK_DEADLOCK FALSE
