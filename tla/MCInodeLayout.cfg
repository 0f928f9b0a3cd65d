\* Every sequence of additions and removals on one inode.
CONSTANTS
    Bytes = 9
    Cap <- MCCap
SPECIFICATION Spec
INVARIANTS
    FindsChildren
    CountsChildren
    DeletesChildren
    IteratesInOrder
