SPECIFICATION ProofSpec
CONSTANTS
    Worker = {w1, w2}
    MaxHead = 1
    ForkWindow = 0
    MaxStops = 1
    MaxCancels = 2
    MaxInbox = 2
    ada = ada
    bob = bob
    cyd = cyd
    dan = dan
    eve = eve
    Person = {ada, bob, cyd, dan, eve}
    Founder = {ada, bob}
    Gone = {eve}
    Rivals = {cyd, dan}
    SigQty = 1
    SigStock = 2
    MaxLen = 6
    MaxHeight = 2
    Offered <- MCOffered
INVARIANTS
    GeneratedBlockIsValid
PROPERTIES
    LoopGoesOn
CHECK_DEADLOCK FALSE
