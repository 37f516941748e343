CONSTANTS
    c1 = c1  c2 = c2  c3 = c3
    Providers = {1}
    Domains = {"newsletter", "search"}
    DomainOf <- MCDomainOf
    Requests = {c1}
    Fields = {"old", "new"}
    NoFields = "none"
    Seals = {1, 2, 3}
    NoSeal = 0
    MaxRoot = 2
SPECIFICATION Spec
INVARIANTS RotationKeepsSecrets
