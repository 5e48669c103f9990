SPECIFICATION FairSpec
CONSTANTS
    n1 = n1
    n2 = n2
    Nodes = {n1, n2}
    Runners <- MCRunners
    MaxVersion = 2
    MaxStops = 1
    MaxFailures = 1
    MaxCommands = 1
INVARIANTS TypeOK SchemaIsTable ServesComplete InOrder
PROPERTY BootCompletes
