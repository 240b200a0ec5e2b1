SPECIFICATION Spec
CONSTANTS
    Brokers = 3
    Addrs = 3
    Advertised = {0, 1, 2}
    Thread = {main}
    beat = beat
    Uses <- ProducerUses
    First = 0
    MaxTerm = 1
PROPERTIES SubmitAcknowledged
