SPECIFICATION Spec
CONSTANTS
    Object = {1, 2, 3}
    Rank = {1}
    Dependent = {}
    MaxWrites = 3
    Limits = {1}
INVARIANT PagesExact
CHECK_DEADLOCK FALSE
