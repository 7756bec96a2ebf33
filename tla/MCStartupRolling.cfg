SPECIFICATION Spec
CONSTANTS
    r1 = r1
    r2 = r2
    g1 = g1
    g2 = g2
    b1 = b1
    t1 = t1
    d1 = d1
    v = v
    Absent = Absent
    Replica <- TwoReplicas
    Path <- FewPaths
    Defaults <- FewDefaults
    ClientValue <- OneValue
    BaselineProj = TRUE
    MayDelay = TRUE
    MaxFaults = 1
SYMMETRY Symmetric
PROPERTIES
    OverwritesOnlyRaced
    FilledAtStart
