INIT PayInit
NEXT PayNext
CONSTANTS
    Histories = {}
    Amounts = {1, 2, 3}
    MaxEvents = 3
    DustLimit = 1
INVARIANTS
    PaymentFound
CHECK_DEADLOCK FALSE
