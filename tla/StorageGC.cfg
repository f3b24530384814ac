\* Three files, one of which the storage never deletes, two deleting
\* transactions, batches of two, one crash or failed commit.
SPECIFICATION LiveSpec
CONSTANTS
    Path = {p1, p2, p3}
    Wipe = {w1, w2}
    Tick = Tick
    None = None
    Broken = {p1}
    Batch = 2
    MaxFaults = 1
INVARIANTS BlobKept
PROPERTIES FilesRemoved
