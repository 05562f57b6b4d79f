SPECIFICATION ClientSpec
CONSTANTS
    Did = {d1, d2}
    Ptr = {p1, p2, p3}
SYMMETRY Symmetry
INVARIANTS FramesReachOwnCamera
