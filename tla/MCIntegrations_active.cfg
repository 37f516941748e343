CONSTANTS
    c1 = c1  c2 = c2  c3 = c3
    Providers = {1, 2}
    Domains = {"newsletter", "search"}
    DomainOf <- MCDomainOf
    Requests = {c1, c2}
    Fields = {"old", "new"}
    NoFields = "none"
    Seals = {1, 2, 3, 4, 5}
    NoSeal = 0
    MaxRoot = 1
SPECIFICATION Spec
INVARIANTS AtMostOneActive
