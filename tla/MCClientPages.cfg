\* Every route for every role, with one change of roles after sign-in.
CONSTANTS
    RoleSets <- MCRoleSets
    MaxChanges = 1
    MaxTasks = 1

SPECIFICATION Spec

INVARIANTS
    PagesFitRoles
PROPERTIES
    GateLeadsToLogin
