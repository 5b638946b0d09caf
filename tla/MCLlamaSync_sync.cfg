SPECIFICATION FairSpec
CONSTANTS
    j1 = j1
    j2 = j2
    cmake = cmake
    readme = readme
    server = server
    Jobs = {j1, j2}
    NoNode = 0
    Nodes = {1, 2}
    Files = {cmake, readme, server}
    Compiled = {cmake, server}
    Matched = {cmake, server}
    Touches = {server}
    Required = {cmake}
    MaxChanges = 1
    MaxFailures = 1
INVARIANTS
    TypeOK
    BuildMatchesTree
    BuildsWhatWasChecked
PROPERTIES
    NodesCatchUp
    VisitsBringUpToDate
