------------------------------- MODULE Ingest -------------------------------
(***************************************************************************)
(* ingest.py, run again and again over data files that people edit: the    *)
(* commits one run makes, each of which it may be the last to reach, and   *)
(* the tables they leave. Parsing is left out but for what it finds: which *)
(* documents the files hold, in which order, and which they refer to.      *)
(***************************************************************************)
EXTENDS Naturals, Sequences, Functions

CONSTANTS
  Docs,        \* (doc_type, external_id) pairs
  Corpora,     \* what the files may hold: [docs |-> <<...>>, links |-> <<...>>],
               \* links giving the (source, target) pairs each pass finds
  MaxResets,   \* bound: how often the schema is applied
  MaxId        \* bound: the largest documents.id handed out

\* The passes over the references, in order: resolve_test_case_refs(),
\* resolve_explicit_bug_mentions(), find_duplicate_bugs().
Passes == 1..3

ASSUME IngestAssumption ==
  /\ Corpora # {} /\ Docs # {}
  /\ \A c \in Corpora :
       /\ c.docs \in Seq(Docs)
       /\ c.links \in [Passes -> SUBSET (Docs \X Docs)]
       /\ \A p \in Passes : \A link \in c.links[p] : link[1] \in Range(c.docs)
  /\ MaxResets \in Nat /\ MaxId \in Nat

VARIABLES
  files,       \* the data files
  documents,   \* the table: rows of an id and a document
  references,  \* document_references, without its own serial number
  nextId,      \* the sequence documents.id draws from
  epoch,       \* how often schema.sql has been applied; 0: never
  complete,    \* the corpus whose load, run to its end, the tables hold: at most one
  loader       \* the run of ingest.py

ingestVars == <<files, documents, references, nextId, epoch, complete, loader>>

NoTarget == 0

Idle ==
  [step |-> "idle", corpus |-> CHOOSE c \in Corpora : TRUE,
   idMap |-> [d \in {} |-> 0], pass |-> 1]

IngestInit ==
  /\ files \in Corpora
  /\ documents = {} /\ references = {} /\ complete = {}
  /\ nextId = 1 /\ epoch = 0
  /\ loader = Idle

At(step) == loader.step = step
EndRun == loader' = Idle
Goto(step) == loader' = [loader EXCEPT !.step = step]

TablesUnchanged == UNCHANGED <<documents, references, nextId, epoch, complete>>

\* What a query by documents.id finds.
Holders(id) == {row.doc : row \in {x \in documents : x.id = id}}

Edit ==
  /\ files' \in Corpora
  /\ TablesUnchanged /\ UNCHANGED loader

\* The files are parsed before anything else; what comes then depends on --reset.
Parse ==
  /\ At("idle")
  /\ \E step \in {"reset", "check"} :
       loader' = [Idle EXCEPT !.step = step, !.corpus = files]
  /\ TablesUnchanged /\ UNCHANGED files

\* Mutant of ResetSchema: schema.sql forgets to drop document_references.
ResetKeepsReferences ==
  /\ At("reset")
  /\ epoch < MaxResets
  /\ documents' = {} /\ complete' = {} /\ nextId' = 1
  /\ epoch' = epoch + 1
  /\ Goto("load")
  /\ UNCHANGED <<files, references>>

\* schema.sql drops and creates every table, and with them the serial numbers.
ResetSchema ==
  /\ At("reset")
  /\ epoch < MaxResets
  /\ documents' = {} /\ references' = {} /\ complete' = {} /\ nextId' = 1
  /\ epoch' = epoch + 1
  /\ Goto("load")
  /\ UNCHANGED files

Refuse ==
  /\ At("check")
  /\ epoch = 0 \/ documents # {}
  /\ EndRun
  /\ TablesUnchanged /\ UNCHANGED files

\* Mutant of Accept: tables that hold rows already are loaded all the same.
AcceptLoaded ==
  /\ At("check")
  /\ epoch > 0
  /\ Goto("load")
  /\ TablesUnchanged /\ UNCHANGED files

Accept ==
  /\ At("check")
  /\ epoch > 0 /\ documents = {}
  /\ Goto("load")
  /\ TablesUnchanged /\ UNCHANGED files

\* Mutant of Numbered: the first row of a table is number 0.
NumberedFromZero(docs) ==
  [d \in Range(docs) |-> nextId + (CHOOSE i \in DOMAIN docs : docs[i] = d) - 2]

\* id_map: INSERT ... RETURNING id draws the numbers one by one.
Numbered(docs) ==
  [d \in Range(docs) |-> nextId + (CHOOSE i \in DOMAIN docs : docs[i] = d) - 1]

\* load_documents(): one transaction, which UNIQUE (doc_type, external_id) makes
\* fail as a whole.
Load ==
  LET docs == loader.corpus.docs
      idMap == Numbered(docs)
  IN /\ At("load")
     /\ IsInjective(docs)
     /\ \A row \in documents : row.doc \notin Range(docs)
     /\ nextId + Len(docs) - 1 <= MaxId
     /\ documents' = documents \cup {[id |-> idMap[d], doc |-> d] : d \in Range(docs)}
     /\ nextId' = nextId + Len(docs)
     /\ loader' = [loader EXCEPT !.step = "links", !.idMap = idMap]
     /\ UNCHANGED <<files, references, epoch, complete>>

\* A rolled back load leaves no row, but the ids it has drawn are gone.
LoadFails ==
  /\ At("load")
  /\ \E drawn \in 0..Len(loader.corpus.docs) :
       nextId + drawn <= MaxId /\ nextId' = nextId + drawn
  /\ EndRun
  /\ UNCHANGED <<files, documents, references, epoch, complete>>

\* id_map.get(): a document that was not loaded has no id, and is still recorded.
Target(d) == IF d \in DOMAIN loader.idMap THEN loader.idMap[d] ELSE NoTarget

\* Mutant of LastPass: the duplicates are left for another run.
LastPassIsSecond == 2

LastPass == 3

\* One pass over the references, and its commit.
ResolveLinks ==
  /\ At("links")
  /\ references' = references \cup
       {[source |-> loader.idMap[link[1]], target |-> Target(link[2]),
         named |-> link[2], pass |-> loader.pass] : link \in loader.corpus.links[loader.pass]}
  /\ IF loader.pass = LastPass
     THEN EndRun /\ complete' = {loader.corpus}
     ELSE loader' = [loader EXCEPT !.pass = @ + 1] /\ UNCHANGED complete
  /\ UNCHANGED <<files, documents, nextId, epoch>>

\* Killed, or an exception, outside load_documents().
Crash ==
  /\ ~At("idle") /\ ~At("load")
  /\ EndRun
  /\ TablesUnchanged /\ UNCHANGED files

IngestNext ==
  \/ Edit \/ Parse
  \/ ResetSchema \/ Refuse \/ Accept
  \/ Load \/ LoadFails \/ ResolveLinks \/ Crash

IngestSpec == IngestInit /\ [][IngestNext]_ingestVars

-----------------------------------------------------------------------------
IdMaps == UNION {[loaded -> 1..MaxId] : loaded \in SUBSET Docs}
Steps == {"idle", "reset", "check", "load", "links"}

IngestTypeOK ==
  /\ files \in Corpora /\ complete \in SUBSET Corpora
  /\ documents \subseteq [id : 1..MaxId, doc : Docs]
  /\ references \subseteq [source : 1..MaxId, target : 0..MaxId, named : Docs, pass : Passes]
  /\ nextId \in 1..(MaxId + 1) /\ epoch \in 0..MaxResets
  /\ loader \in [step : Steps, corpus : Corpora, idMap : IdMaps, pass : Passes]

\* Once a run has come to its end, and until the next reset, the tables hold the
\* documents of the files it read and every reference it found in them, whatever
\* runs were cut short before or refused after (run() commits four or five times).
CompleteIsWhole ==
  \A c \in complete :
    /\ {row.doc : row \in documents} = Range(c.docs)
    /\ \A row \in documents, other \in documents : row.doc = other.doc => row = other
    /\ {<<r.pass, Holders(r.source), r.named>> : r \in references} =
         UNION {{<<p, {link[1]}, link[2]>> : link \in c.links[p]} : p \in Passes}

\* At every moment, also between two passes and after a crash, each reference
\* comes from a row of the table, points at the document it names, and points
\* nowhere only if that document is not in the table: the answers phrase it as
\* "(not found in corpus)".
LinksResolve ==
  \A r \in references :
    /\ \E row \in documents : row.id = r.source
    /\ r.target # NoTarget => [id |-> r.target, doc |-> r.named] \in documents
    /\ r.target = NoTarget => \A row \in documents : row.doc # r.named

\* Rows once loaded only ever go by a reset: no run adds to another's.
LoadedOnce ==
  [][documents # {} => documents' = documents \/ documents' = {}]_ingestVars
=============================================================================
