CONSTANTS
    Batches = 5
    StopCapacity = 3
    ResultCapacity = 1
SPECIFICATION Spec
INVARIANTS
    CriticalErrorFailsActivity
