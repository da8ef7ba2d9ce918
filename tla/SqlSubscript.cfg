\* The same texts, of which one without a colon is refused.
CONSTANTS
    Families <- MCFamilies
    MaxLength = 6
SPECIFICATION Spec
INVARIANT OwnPlaceholdersAreNoHazard
CHECK_DEADLOCK FALSE
