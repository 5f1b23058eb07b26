\* Two webhooks of one call overlap; acknowledgements are lost, and every
\* upstream wait ends.
SPECIFICATION FairSpec
CONSTANTS
    alice = alice
    bob = bob
    claimA = claimA
    claimB = claimB
    h1 = h1
    h2 = h2
    None = None
    Customers = {alice, bob}
    Claims = {claimA, claimB}
    claim_owner <- ClaimOwners
    Topics = {"submission"}
    SubmissionTopic = "submission"
    Calls = {call1}
    Handlers = {h1, h2}
    Reasons = {"CALLER_REQUEST", "unheard of"}
    OneAtATime = FALSE
    LostAcks = TRUE
    Configured = TRUE
    transfer_available = TRUE
    max_retries = 1
    recorded_limit = 1
    history_limit = 1
    MAX_AUTHENTICATION_ATTEMPTS = 2
    MAX_LOOKUP_ATTEMPTS = 2
    Events <- DisclosureEvents
    MaxDeliveries = 5
INVARIANTS Inductive VerifiedBeforeAuthenticated ClaimFollowsItsOwner FoundMayVerify RowTellsOneStory
PROPERTIES ImplementsBoundary EndedCallIsFreed
\* Callers fall silent and the delivery bound is reached: the system may stop.
CHECK_DEADLOCK FALSE
