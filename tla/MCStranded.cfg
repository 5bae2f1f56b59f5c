\* A retirement overlapped by another.
SPECIFICATION Spec
CONSTANTS
    SigningKey = {k1, k2}
    Major = {m1}
    Request = {r1, r2}
    Release = {1, 2}
    Since = {2}
    Until = {}
    MaxSignatures = 2
    NoRelease = NoRelease
    Nobody = Nobody
SYMMETRY Symmetry
PROPERTIES RetiringKeepsKey
