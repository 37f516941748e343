CONSTANTS
    ann = ann  bob = bob
    Slugs = {"page"}
    SeedSets = {{"page"}}
    Users = {ann, bob}
    Statuses = {"draft", "published"}
    Forms <- MCDraft
    Backends = {"sqlite"}
    MaxEdit = 2
    MaxNow = 1
SPECIFICATION Spec
PROPERTIES StaleSaveRefused
