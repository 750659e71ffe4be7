SPECIFICATION Spec
CONSTANTS
    Thread = {t1, t2}
    Reader = {r1}
    Host = {1, 2}
    user = user
    other = other
    Redirection = {user, other}
    Item <- MCItem
    CacheSize = 1
INVARIANTS
    SyncsExact
    CacheFollows
SYMMETRY Symmetry
