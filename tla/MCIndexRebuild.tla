--------------------------- MODULE MCIndexRebuild ---------------------------
\* A bug and a test case may carry the same external_id (the tables only forbid
\* it within one doc_type): d1 and d2 do, so they share their OpenSearch _id.
EXTENDS IndexRebuild, TLC

CONSTANTS d1, d2, d3, x, y

MCChunkId == d1 :> x @@ d2 :> x @@ d3 :> y

\* No step and no property tells one builder from another.
Symmetry == Permutations(Builders)
=============================================================================
