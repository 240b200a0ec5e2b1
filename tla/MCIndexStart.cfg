SPECIFICATION Spec
CONSTANTS
    Worker = {w1, w2}
    Server = server
    Process = {w1, w2, server}
    Task = {1, 2, 3, 4}
    Result = {"success", "error"}
    None = None
    NoId = NoId
    Malformed = Malformed
    Corpus <- MCCorpus
    ChunkSize = 2
    ChunkId <- MCChunkId
    Hash <- MCHash
    Embedding <- MCEmbedding
    MaxFaults = 0
    Request = {r1, r2}
    Input <- MCInput
    Invalid = Invalid
    Free = Free
    defaultTopK = 1
    maxTopK = 2
    defaultChunkSize = 2
INVARIANT EverybodyStarts
