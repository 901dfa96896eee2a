---------------------------- MODULE MCAnswerCache ----------------------------
\* `named` counts or looks up a document by its ID, which an index may or may not
\* hold and the filters may or may not exclude; `plain` names no ID; `code` asks
\* which bugs carry an error code; `offTopic` is outside every corpus.
EXTENDS AnswerCache

CONSTANTS named, plain, code, offTopic

MCRoutesOf ==
  [q \in Questions |->
     CASE q = named -> {"unknown_id", "pinned", "field_lookup", "deterministic"}
       [] q = plain -> {"semantic", "off_topic"}
       [] q = code -> {"error_code"}
       [] q = offTopic -> {"off_topic"}]

=============================================================================
