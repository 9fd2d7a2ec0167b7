\* The counters of two filters go to one name of the Datadog client.
SPECIFICATION StatSpec
CONSTANTS
    FilterNames <- TwoFilters
    OutputNames <- OneOutput
    ErrorNames <- OneError
    MaxRead = 2
    MaxUploads = 0
    MaxTicks = 2
INVARIANT TaggedDeltasAddUp
CHECK_DEADLOCK FALSE
