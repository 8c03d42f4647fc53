CONSTANTS
    a = a
    b = b
    c = c
    d = d
    usd = usd
    eur = eur
    Unknown = Unknown
    Unset = Unset
    Nothing = Nothing
    Segments = {a, b, c, d}
    Currencies = {usd, eur}
    Names <- MCNames
    Canonical <- MCCanonical
    Envelopes <- MCEnvelopes
    Observations <- MCPricedObservations
SPECIFICATION Spec
INVARIANT AcceptedWithinDeclared
