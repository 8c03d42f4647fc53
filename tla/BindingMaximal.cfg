CONSTANTS
    a = a
    b = b
    x = x
    Capabilities = {a, b, x}
    Vocabulary = {a, b}
    Unusable = Unusable
    NoBinding = NoBinding
    Models <- MCModels
    Profiles <- MCProfiles
    Requirements <- MCRequirements
SPECIFICATION Spec
INVARIANT SelectsMaximal
