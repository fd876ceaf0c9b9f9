SPECIFICATION FairSpec
CONSTANTS
    first = first
    replay = replay
    later = later
    join = join
    prompt = prompt
    NoHash = NoHash
    Node = {first, replay, later, join}
    Payload = {prompt}
    Batch = {join}
    Hash = {h1, h2}
    DependenciesOf <- Dependencies
    DelayOf <- Delays
    PayloadOf <- Payloads
    MaxDelay = 2
INVARIANTS DependenciesFirst CompletionIsSound FailureStopsTheRest
PROPERTIES OverIsOver InstanceEnds
