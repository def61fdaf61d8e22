SPECIFICATION FairSpec
CONSTANTS
    n1 = n1
    n2 = n2
    Nodes = {n1, n2}
    MailMaximumAttempts = 2
    Fenced = TRUE
    OperatorRetries = 1
CHECK_DEADLOCK FALSE
INVARIANT AcceptedIsLatest
INVARIANT JobAnswersDelivery
PROPERTY DeliverySettles
