CONSTANTS
    Worker = {w1, w2}
    None = None
    Keep = Keep
    MaxRequest = 3
    Id = {1, 2}
    Name = {n1, n2}
    ProductCode = {c1, c2}
    Provider = {1, 2, 3}
    Reserve = {3}
    Terms <- Offers
    Row = {1, 2}
    Key = {k1, k2}
    Reference = {r1, r2}
    PublicId = {p1, p2}
    Draws = 5
    Desks <- Neighbours
SPECIFICATION Spec
SYMMETRY Alike
INVARIANT CatalogConsistent
INVARIANT OneReferenceMends
INVARIANT PriceShownIsPaid
INVARIANT EditsStand
INVARIANT OneOrderPerReference
CHECK_DEADLOCK FALSE
