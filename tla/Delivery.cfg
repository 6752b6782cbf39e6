CONSTANTS
    code = code
    link1 = link1
    link2 = link2
    ann = ann
    bob = bob
    Messages = {code}
    Invitations = {}
    Recipients = {ann}
    RecipientOf <- MCRecipientOf
    Workers = {w1, w2}
    EnabledWorkers = {w1, w2}
    MaxAttempts = 3
    BatchSize = 1
    SlowWorkers = FALSE
    NoItem = NoItem
    Callers = {c1, c2, c3}
    MaxConcurrent = 2
    CallAttempts = 2
    Threshold = 3
SPECIFICATION DeliverySpec
INVARIANTS NoRedactedDelivery BreakerIsHonest
PROPERTIES OutcomeIsFinal Settles CallsReturn
