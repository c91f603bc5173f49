\* The tool as written, one semaphore unit, over every database of up to
\* three keys per prefix with entries of 1 to 4 bytes against maxBytes = 3:
\* pages end mid-prefix, at the last key, at exactly maxBytes, and on an
\* entry larger than maxBytes.
CONSTANTS
    PrefixOrder <- MCPrefixOrder
    EntrySizes = {1, 2, 3, 4}
    MaxKeys = 3
    MaxBytes = 3
    NumProcesses = 1
SPECIFICATION Spec
\* The program exits after printing the checksum, or panics.
CHECK_DEADLOCK FALSE
INVARIANT TypeOK
INVARIANT ChecksumCoversEachKeyOnce
INVARIANT PanicOnlyOnOversizedEntry
PROPERTY Termination
