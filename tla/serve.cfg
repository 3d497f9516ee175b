SPECIFICATION FairSpec
CONSTANTS
    Requests = {r1, r2}
    Envs <- AllEnvs
INVARIANTS
    WhatIsSetRuns
    EventsAccounted
    NoRowAfterDrain
    LossIsReported
    AtMostOneRevival
PROPERTIES
    SignalEndsProcess
    ReadyFollowsStore
