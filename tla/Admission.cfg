\* Requests that vary in their resources, data stores and completeness.
CONSTANTS
    Request <- MCRequest
    Limits <- MCLimits
    MaxEnds = 2
    None = None
SPECIFICATION Spec
INVARIANTS TypeOK Configurable ModelFetchable ResourcesSettled FoundByDelete GaugeBalanced
CHECK_DEADLOCK FALSE
