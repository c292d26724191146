SPECIFICATION Spec
CONSTANTS
    p1 = p1
    p2 = p2
    Page = {p1, p2}
    Build = {"hyb", "MixM"}
SYMMETRY Symmetry
INVARIANTS PriorityIsHot
 
