CONSTANTS
    ann = ann  bob = bob
    Slugs = {"page"}
    SeedSets = {{"page"}}
    Users = {ann}
    Statuses = {"draft", "published", "archived"}
    Forms <- MCDraft
    Backends = {"sqlite"}
    MaxEdit = 1
    MaxNow = 1
SPECIFICATION Spec
PROPERTIES DeleteArchives
