SPECIFICATION Spec
CONSTANTS
    Runs = {r1, r2}
    Promotions = {p1, p2, p3}
    MaxRank = 2
    PassRank = 2
    Faults <- AllFaults
    None = None
SYMMETRY PromotionSymmetry
INVARIANTS OneProduction ProductionVetted
PROPERTY NoRegression
CHECK_DEADLOCK FALSE
