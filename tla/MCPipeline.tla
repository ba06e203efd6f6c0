----------------------------- MODULE MCPipeline ------------------------------
\* Instances of Pipeline for TLC.
EXTENDS Pipeline, TLC

CONSTANTS w1, w2, c1, c2

MCKinds      == {"http", "grpc", "upgrade", "h2ws"}
MCPlain      == {"http"}
MCPolicies   == {"none", "auth"}
MCNoPolicy   == {"none"}
MCTarpit     == {"tarpit"}
MCModes      == {"challenge", "tarpit"}

Interchangeable == Permutations(Workers)
=============================================================================
