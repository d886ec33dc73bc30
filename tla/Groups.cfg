SPECIFICATION Spec
CONSTANTS
    N = 2
    Delays = {100, 300}
    Callers = {c1, c2}
    NoCaller = NoCaller
    Tolerance = 150
    MaxFailedTimes = 2
    MaxDials = 3
    MaxEvents = 3
INVARIANTS FreshAfterReset SelectionHonoured ChoiceIsFast WaitersAreServed
SYMMETRY Symmetry
