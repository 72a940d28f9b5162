SPECIFICATION Spec
CONSTANTS
    Probes <- EveryProbe
    Requests <- EveryRequest
    MaxCalls = 4
INVARIANTS OneServer StateIsTrue AnchorOnSuccess
