\* Commands one after the other, with failures, deletions and resets between.
SPECIFICATION Spec
CONSTANTS
    ACLFiles <- SomeACLs
    Edits <- Valid
    MachineUsers <- TwoMachines
    HumanUsers <- TwoHumans
    MaxIncidents = 2
INVARIANTS SecretsMatch FilesCurrent
PROPERTIES FileKeepsSecrets SecretsAccountedFor ValidatedFirst ReapplyChangesNothing
CHECK_DEADLOCK FALSE
