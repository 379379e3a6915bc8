SPECIFICATION FairSpec
CONSTANTS
    NumPorts = 3
    Homes = {0, 1}
    Flits = 2
    MaxFlits = 3
PROPERTY ImplementsLanes
PROPERTY NoStarvation
