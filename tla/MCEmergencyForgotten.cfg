\* The caller asks for a person again after an emergency.
SPECIFICATION Spec
CONSTANTS
    alice = alice
    bob = bob
    claimA = claimA
    claimB = claimB
    h1 = h1
    h2 = h2
    None = None
    Customers = {alice, bob}
    Claims = {claimA, claimB}
    claim_owner <- ClaimOwners
    Topics = {"submission"}
    SubmissionTopic = "submission"
    Calls = {call1}
    Handlers = {h1}
    Reasons = {"CALLER_REQUEST", "EMERGENCY"}
    OneAtATime = TRUE
    LostAcks = FALSE
    Configured = TRUE
    transfer_available = TRUE
    max_retries = 1
    recorded_limit = 1
    history_limit = 3
    MAX_AUTHENTICATION_ATTEMPTS = 3
    MAX_LOOKUP_ATTEMPTS = 3
    Events <- EscalationEvents
    MaxDeliveries = 6
PROPERTIES EmergencyIsNegative
\* Callers fall silent and the delivery bound is reached: the system may stop.
CHECK_DEADLOCK FALSE
