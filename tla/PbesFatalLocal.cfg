SPECIFICATION Spec
CONSTANTS
    Vertex <- MCVertex
    Families = {5}
    Equations <- MCEquations
    Strategies = {"fatal_local"}
    Prune = {TRUE}
INVARIANTS
    strategies_are_set_in_solved_nodes
