\* Paths of three levels, read while another worker's slots land.
SPECIFICATION MerkleSpec
CONSTANTS
    TREE_DEPTH = 3
    Values = {"old", "new"}
    Default = "old"
    Workers = {w1, w2}
    Nothing = Nothing
SYMMETRY MCSymmetry
INVARIANT VerifiedPathIsCurrent
PROPERTY ImplementsLeafMemory
