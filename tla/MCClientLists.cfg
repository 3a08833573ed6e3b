\* Overlapping loads, a write and failing requests of one growing list.
CONSTANTS
    Row <- MCRow
    First = 2
    Filters <- MCFilters
    PageSize = 1
    TableSize = 1
    MaxFetches = 3
    MaxPresses = 1
    MaxListFaults = 1

SPECIFICATION ListSpec

INVARIANTS
    ListsTruthful
PROPERTIES
    SpinnerStops
CHECK_DEADLOCK FALSE
