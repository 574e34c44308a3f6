SPECIFICATION Spec
CONSTANT Parts = {"wire", "blocks", "map", "machines", "txs", "currency", "chains", "causal", "causal2", "graph", "bitids", "plainsigs", "unsigned", "multisigs"}
INVARIANT RoundTrip
INVARIANT OwnVersions
INVARIANT Replayable
 
INVARIANT CatchUp
 
 
INVARIANT SignersCounted
CHECK_DEADLOCK FALSE
