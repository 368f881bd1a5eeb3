SPECIFICATION MCSpec
CONSTANTS
    Keys = {1, 2, 3}
    Folder = 1
    Matching = {2}
    Unsafe = {}
    Sizes = {0, 2}
    PageSize = 2
    BatchSize = 2
    MaxBytes = 2
    MaxWrites = 3
    MaxChanges = 1
INVARIANTS TypeOK Complete FolderGone SparesUnlisted ArchiveBounded
PROPERTIES Terminates
