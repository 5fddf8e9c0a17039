CONSTANTS
    Installer = {i1, i2}
    Package = {p1, p2, p3, bad}
    BuildOf <- MCBuildOf
    Unsound = {bad}
    CrossDevice = {i2}
    Updater = {u1, u2}
    Release = {v1, v2}
    FirstRelease = v1
    Inode = {n1, n2, n3}
    None = None
    Spoiled = Spoiled
    p1 = p1
    p2 = p2
    p3 = p3
    bad = bad
SPECIFICATION Spec
CONSTRAINT Beside
INVARIANTS
    ProgramIsWhole
PROPERTIES
    ImplementsVersionedRoot
