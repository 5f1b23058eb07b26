\* Processes of every kind; two tool calls in one body, spread over the three
\* shapes in every way.
CONSTANTS
    Ids = {i1, i2}
    unknown_tool = unknown_tool
    Types <- MCTypes
    MaxCalls = 2
    None = None
    Blank = blank
    Odd = odd
    ClaimStatus = {"SUBMITTED", "DOCUMENTS_REQUIRED"}
    Deployments <- MCDeployments
    Secrets = {"secret", "wrong", "accented"}
SYMMETRY Symmetry
SPECIFICATION Spec
INVARIANTS
    AnsweredInFull
    TransferKept
    DangerEscalated
    RunOnce
    ProductionIsGuarded
    RefusedFirst
CHECK_DEADLOCK FALSE
