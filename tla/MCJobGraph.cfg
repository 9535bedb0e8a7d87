SPECIFICATION GraphSpec
CONSTANTS
    NULL = NULL
    j1 = j1
    j2 = j2
    j3 = j3
    a1 = a1
    a2 = a2
    Workers <- MCWorkers
    JobIds <- ThreeJobs
    Adders <- TwoAdders
    Resolvers <- OneResolver
    Resumers <- OneResumer
    WorldOf <- SameWorld
    MaxDeps = 3
    MaxOptional = 1
INVARIANTS
    Acyclic
PROPERTIES
    ResolvedForCause
SYMMETRY JobSymmetry
