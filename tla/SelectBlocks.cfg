SPECIFICATION FairSpec
CONSTANTS
    Nodes = {n1, n2}
    Groups = {g1, g2}
    None = None
    MaxRequests = 1
    MaxEvents = 0
CHECK_DEADLOCK FALSE
PROPERTIES HooksReturn
