SPECIFICATION FairSpec
CONSTANTS
    broker = broker
    carrier = carrier
    tender = tender
    commitment = commitment
    pickup = pickup
    Agents = {broker, carrier}
    Causes = {tender, commitment, pickup}
    Recipients <- EachHears
    Enqueued <- AsInService
    MaxAttempts = 2
    Window = 3
    MaxLate = 1
    MaxTurns = 1
INVARIANT NeverForgotten
INVARIANT OnceAndInOrder
PROPERTY Settles
CHECK_DEADLOCK FALSE
