SPECIFICATION Spec
CONSTANTS
    e1 = e1
    e2 = e2
    Endpoint = {e1, e2}
    NoEndpoint = NoEndpoint
SYMMETRY Symmetry
INVARIANTS
    TypeOK
    WriteThrough
    PairingIsDurable
    ForgetIsComplete
