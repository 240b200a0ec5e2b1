SPECIFICATION SpecLed
CONSTANTS
    Brokers = 3
    Addrs = 3
    Advertised = {0, 1}
    Thread = {main, beat}
    beat = beat
    Uses <- WorkerUses
    First = 0
    MaxTerm = 2

PROPERTIES ConnsUnshared
