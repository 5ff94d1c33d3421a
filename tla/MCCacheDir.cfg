SPECIFICATION Spec
CONSTANTS
    old = old
    new = new
    Threads = {t1, t2, t3}
    Inodes = {i1, i2, i3}
    Versions = {old, new}
    Length <- MCLength
    None = None
    Listings = {"html", "xml"}
    MAXFAULTS = 2
    MAXCHANGES = 1
SYMMETRY Symmetry
INVARIANTS
    CacheTypeOK
    NothingTorn
PROPERTY StableWhileServed
