SPECIFICATION TransformSpec
CONSTANTS
    ReadableHighWaterMark = 0
    ReadableSizes = {1}
    MaxChunks = 4
    MaxReads = 3
    WritableHighWaterMark = 1
    WritableSizes = {1}
    MaxWrites = 4
    Emits = {0, 1}
PROPERTIES
    WritesFollowReads
CHECK_DEADLOCK FALSE
