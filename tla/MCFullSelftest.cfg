CONSTANTS
    Corpus <- MCCorpus
    ShardOf <- MCShardOf
    Options <- MCOptions
    ShardCount = 3
    Jobs = 2
    Versions = {1}
    Hangs = TRUE
    NoLimit = NoLimit
    NoDocument = NoDocument
SPECIFICATION FairSpec
INVARIANTS
    TypeOK
    PassCoversCorpus
    NoShardHidden
    MergedAfterThePool
    ReportMatchesFutures
PROPERTY Finishes
CHECK_DEADLOCK FALSE
