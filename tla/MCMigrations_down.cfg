CONSTANTS
    p = p  q = q
    Last = 2
    Commands = {p}
    Written <- MCWritten
    Tolerant <- MCTolerant
    Commented <- MCCommented
SPECIFICATION Spec
PROPERTIES MigrateOnlyAdds
