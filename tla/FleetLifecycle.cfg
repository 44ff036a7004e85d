SPECIFICATION Spec
CONSTANTS
    a = a
    b = b
    a1 = a1
    b1 = b1
    Incidents = {a, b}
    Twins = {a1, b1}
    Owner <- OneEach
    Covered <- Extends
    OlderThan = 2
    Limit = 1
    Rounds <- AgainOnce
INVARIANTS TwinsIntact OnlyLateTwinsForgotten
