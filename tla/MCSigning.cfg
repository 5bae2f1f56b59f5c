\* Overlapping grants, retirements, trust records and releases of one major; policies.
SPECIFICATION SigningSpec
CONSTANTS
    SigningKey = {k1, k2, k3}
    Major = {m1}
    Request = {r1, r2}
    Release = {1, 2}
    Since = {2}
    Until = {}
    MaxSignatures = 2
    NoRelease = NoRelease
    Nobody = Nobody
    EditionPolicy <- Policies
    Component <- Components
    Quantity = {1, 2}
    Customer <- Names
    Null = null
    MaxInstant = 3
    MaxAmendment = 1
SYMMETRY Symmetry
INVARIANTS SignatureLimit SignedOrRefused
PROPERTIES GrantedUnderMinimum LifeGoesOn StrandsOnlyWhenOverlapped
