\* Two torrents, a public file and the part file each, and limits of one and two.
CONSTANTS
    Storages = {1, 2}
    a = a
    Files = {a}
    Part = Part
    p = p
    q = q
    Paths = {p, q}
    PartPath = PartPath
    fd1 = fd1
    fd2 = fd2
    fd3 = fd3
    fd4 = fd4
    Fds = {fd1, fd2, fd3, fd4}
    NoFd = NoFd
    PoolSizes = {0, 1, 2}
    MaxUses = 3
SPECIFICATION FairSpec
INVARIANTS
    DescriptorsOwnedOnce
    DescriptorInUseIsGood
    OneDescriptorPerFile
    PoolBounded
PROPERTIES
    OpenReturns
