CONSTANTS
    i1 = i1
    i2 = i2
    i3 = i3
    h1 = h1
    h2 = h2
    None = None
    Instances = {i1, i2, i3}
    Hosts = {h1, h2}
    Allowed <- MCAllowed
    Schemes = {"http", "https"}
    Combining = TRUE
    MaxHops = 4
SPECIFICATION Spec
INVARIANT TypeOK PlainLoopsBroken OriginGetsWhatWasAllowed
CHECK_DEADLOCK FALSE
