SPECIFICATION BoundedSpec
CONSTANTS
    Object = {1, 2, 3}
    Rank = {0, 1, 2}
    Dependent = {1}
    MaxWrites = 3
    Limits = {1, 2}
INVARIANT TypeOK
 
INVARIANT PageWithinLimit
INVARIANT ViewExact
 
CHECK_DEADLOCK FALSE
