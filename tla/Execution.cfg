CONSTANTS
    Workers = {w1, w2}
    Limit = 2
    h = h
    d1 = d1
    d2 = d2
    d3 = d3
    nodir = nodir
    Home = h
    NoDir = nodir
    Loads <- MCLoads
    Dirs <- MCDirs
    Missing <- MCMissing
SPECIFICATION Spec
INVARIANTS AnswersAreTheirOwn ReportsAddUp DirectoryComesBack
PROPERTIES RequestsEnd
CHECK_DEADLOCK FALSE
