CONSTANTS
    Entries <- MCEntries
    Include <- MCInclude
    Database = ".data"
    MaxEdit = 1
SPECIFICATION Spec
PROPERTIES BackupHoldsDatabase
CHECK_DEADLOCK FALSE
