CONSTANTS
    Corpus <- MCCorpus
    ShardOf <- MCShardOf
    Options <- MCOptions
    ShardCount = 3
    Jobs = 2
    Versions = {1}
    Hangs = FALSE
    NoLimit = NoLimit
    NoDocument = NoDocument
SPECIFICATION Spec
INVARIANT ShardTimeoutEnforced
