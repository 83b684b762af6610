\* Webhooks before the row names its capture.
CONSTANTS
    r1 = r1
    e1 = e1
    Null = Null
    Requests = {r1}
    Egresses = {e1}
    Faults = {}
    MaxFaults = 0
SPECIFICATION Spec
INVARIANTS
    RecordingInStep
