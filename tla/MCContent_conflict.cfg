CONSTANTS
    ann = ann  bob = bob
    Slugs = {"page"}
    SeedSets = {{"page"}}
    Users = {ann}
    Statuses = {"draft", "published"}
    Forms <- MCDraft
    Backends = {"d1"}
    MaxEdit = 1
    MaxNow = 1
SPECIFICATION Spec
PROPERTIES ConflictMeansModified
