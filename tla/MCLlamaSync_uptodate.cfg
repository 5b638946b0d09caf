SPECIFICATION FairSpec
CONSTANTS
    j1 = j1
    j2 = j2
    cmake = cmake
    readme = readme
    server = server
    Jobs = {j1}
    NoNode = 0
    Nodes = {1}
    Files = {cmake, server}
    Compiled = {cmake, server}
    Matched = {cmake, server}
    Touches = {}
    Required = {cmake}
    MaxChanges = 0
    MaxFailures = 1
PROPERTIES
    EveryNodeUpToDate
