SPECIFICATION Spec
CONSTANTS
    key = key
    Nobody = Nobody
    m = m
    served = served
    Callers = {key, Nobody}
    Names = {m, served}
    ServedAs <- OtherName
    Permits <- Anything
    Ids = {i1, i2}
    NoId = NoId
    Ttl = 1
    Cap = 1
    MaxTurns = 3
    MaxDeletes = 1
    MaxNow = 3
SYMMETRY Symmetry
INVARIANTS OnlyOwnTurns
PROPERTIES DropsOnlyWhatIsDue
