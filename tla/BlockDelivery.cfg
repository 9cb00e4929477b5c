SPECIFICATION FairSpec
CONSTANTS
    Users = {alice, bob}
    MaxLog = 2
    Actors = {alice}
    Relays = {r1, r2}
    Consumers = {s1, s2}
    Batch = 2
    MaxFaults = 1
CHECK_DEADLOCK FALSE
INVARIANTS PublishedIsOnTopic 
PROPERTIES EffectSpec
