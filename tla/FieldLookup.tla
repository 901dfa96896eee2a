----------------------------- MODULE FieldLookup -----------------------------
(***************************************************************************)
(* A document named in a question is found in the index, and its fields    *)
(* are read from Postgres by the row number the index gives for it         *)
(* (run_field_lookup(), and fetch_structured_fields() for the other        *)
(* answers). The number is from the load the index was built from; ingest  *)
(* may have loaded the tables anew since.                                  *)
(***************************************************************************)
EXTENDS Ingest, FiniteSets

VARIABLES
  index,   \* the live index: the parent_document_id of each document in it, and
           \* the schema it was built from
  lookup   \* a question: the document it names, the number found for it, and
           \* the document whose row was read, if any

fieldVars == <<ingestVars, index, lookup>>

NoLookup == [step |-> "idle", doc |-> CHOOSE d \in Docs : TRUE, id |-> 0, epoch |-> 0,
             read |-> {}, readEpoch |-> 0]

FieldInit ==
  /\ IngestInit
  /\ index = [ids |-> [d \in {} |-> 0], epoch |-> 0]
  /\ lookup = NoLookup

\* Mutant of ParentIds: documents are numbered as they are indexed.
ParentIdsByPosition ==
  [d \in {row.doc : row \in documents} |->
     LET row == CHOOSE x \in documents : x.doc = d
     IN Cardinality({x \in documents : x.id <= row.id})]

\* build_os_document() copies the row's number.
ParentIds ==
  [d \in {row.doc : row \in documents} |-> (CHOOSE x \in documents : x.doc = d).id]

\* A rebuild as readers see it: it publishes the rows the table holds then. No
\* reset comes between its reading and its publishing (IndexRebuild shows it);
\* a load may, but then it has read no row and its index gives no number.
Rebuild ==
  /\ epoch > 0
  /\ index' = [ids |-> ParentIds, epoch |-> epoch]
  /\ UNCHANGED <<ingestVars, lookup>>

\* resolve_document_ids() finds the document in the live index.
ResolveId(d) ==
  /\ lookup.step = "idle"
  /\ d \in DOMAIN index.ids
  /\ lookup' = [NoLookup EXCEPT !.step = "read", !.doc = d, !.id = index.ids[d],
                                !.epoch = index.epoch]
  /\ UNCHANGED <<ingestVars, index>>

\* answer_field_question() reads the row of that number; without one, the
\* question goes to the model.
ReadFields ==
  /\ lookup.step = "read"
  /\ lookup' = [lookup EXCEPT !.step = "idle", !.readEpoch = epoch,
                  !.read = Holders(lookup.id)]
  /\ UNCHANGED <<ingestVars, index>>

FieldNext ==
  \/ IngestNext /\ UNCHANGED <<index, lookup>>
  \/ Rebuild
  \/ \E d \in Docs : ResolveId(d)
  \/ ReadFields

FieldSpec == FieldInit /\ [][FieldNext]_fieldVars

-----------------------------------------------------------------------------
\* Every variable keeps its type: the tables' rows, the run of ingest.py, the
\* index and the question; and the index is of no schema still to come.
FieldTypeOK ==
  /\ IngestTypeOK
  /\ index \in [ids : IdMaps, epoch : 0..epoch]
  /\ lookup \in [step : {"idle", "read"}, doc : Docs, id : 0..MaxId, epoch : 0..epoch,
                  read : SUBSET Docs, readEpoch : 0..epoch]

\* Whatever failed and was repeated in between, fields read before the next
\* reset are those of the document that the question names: a number is never
\* given to another document while the tables live.
FieldsRightUntilReset ==
  lookup.step = "idle" /\ lookup.readEpoch = lookup.epoch => lookup.read \subseteq {lookup.doc}

\* A reset that the index has not followed makes the row missing, never another:
\* "None if the document row is missing (index/DB drift -- let the LLM path
\* handle it rather than guess)" (answer_field_question()'s docstring). The code
\* does not ensure it: the numbers start anew with the tables.
FieldsRight == lookup.step = "idle" => lookup.read \subseteq {lookup.doc}
=============================================================================
