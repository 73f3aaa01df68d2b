CONSTANTS
    Branches = {b1, b2}
    Gates = {"cochange", "exposure", "anomaly", "replay", "trace", "lifecycle", "cycle", "layering", "forge", "integration", "liveness", "intake", "dialogue", "monotone", "truncation", "egress", "handle", "lock", "dedup", "login", "coverage", "error", "liberror", "suffix", "surface", "saga", "hidden", "split", "tests"}
    MaxEdits = 3
    MaxLands = 2
SPECIFICATION Spec
INVARIANTS DevStaysGreen DebtNeverGrows MovesAreFree AuthorityArrivesWatched CyclesAreCycles OneCandidateReader CanonicalIsCanonical
PROPERTIES AllowlistsShrink GrantedCochange ManifestsDescribe EvidenceOnLeaving TransportWhole ForgeImportsShrink
CHECK_DEADLOCK FALSE
