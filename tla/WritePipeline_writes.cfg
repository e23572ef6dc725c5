SPECIFICATION FairSpec
CONSTANTS
    a = a
    nobody = nobody
    Users = {a, nobody}
    kMaxPendingWrites = 2
    MaxWrites = 3
    MaxFaults = 2
    MaxChanges = 2
    MaxKills = 1
INVARIANTS TypeOK PipelineIsPrefix AnswersMatchPipeline StreamServesPipeline NoWriteLost ToldInOrder
PROPERTIES QueueSpec WriteDecided
CHECK_DEADLOCK FALSE
