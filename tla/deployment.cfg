\* Start-up in several environments, queries, and the life of one key.
SPECIFICATION Spec
CONSTANTS
    Catalogues <- TestCatalogues
    Configs <- TestConfigs
    FIPSSupported <- FIPSTemplates
    Asked <- AskedTemplates
    Specs <- TestSpecs
    Candidates <- TestCandidates
    Requirements <- TestRequirements
    Faults <- TestFaults
    Sizes = {0, 2}
    Hashes = {"SHA256", "SHA384", "SHA512"}
INVARIANTS CreatedKeyUsable ArtefactsSurvive CheckSound KeyFitsOnly SameAnswer
    RequirementKept SelectedAllowed ScopesUsable ListingsServe
PROPERTIES MatchPredictsCreate StartsWithoutFIPS
CHECK_DEADLOCK FALSE
