\* One request at a time, webhooks in any order, one failure.
CONSTANTS
    r1 = r1
    e1 = e1
    e2 = e2
    Null = Null
    Requests = {r1}
    Egresses = {e1, e2}
    Faults <- AllFaults
    MaxFaults = 1
SPECIFICATION FairSpec
INVARIANTS
    TypeOK
    OfferedIsPlayable
PROPERTIES
    RecordingIsKept
    CaptureIsInHand
