CONSTANTS
    Installer = {i1}
    Package = {p1, bad}
    BuildOf <- MCBuildOf
    Unsound = {bad}
    CrossDevice = {i1}
    Updater = {}
    Release = {v1}
    FirstRelease = v1
    Inode = {n1, n2}
    None = None
    Spoiled = Spoiled
    p1 = p1
    p2 = p2
    p3 = p3
    bad = bad
SPECIFICATION Spec
INVARIANT CurrentIsComplete
