---------------------------- MODULE IngestProofs ----------------------------
(***************************************************************************)
(* Theorems about Ingest and FieldLookup, for any editions of the files    *)
(* and any number of resets.                                               *)
(***************************************************************************)
EXTENDS FieldLookup, TLAPS

-----------------------------------------------------------------------------
(* Ingest *)

\* Why the links resolve: a load only ever fills empty tables, so that the map it
\* leaves behind for the passes describes the whole table.
LoaderInv ==
  /\ At("load") => documents = {}
  /\ At("links") => documents = {[id |-> loader.idMap[d], doc |-> d] : d \in DOMAIN loader.idMap}
  /\ At("links") => DOMAIN loader.idMap = Range(loader.corpus.docs)

\* Numbers are drawn once, and every row's has been drawn.
NumbersInv ==
  /\ \A row \in documents, other \in documents : row.id = other.id => row = other
  /\ \A row \in documents : row.id < nextId

IngestInv == IngestTypeOK /\ LoaderInv /\ NumbersInv /\ LinksResolve

\* The map of ids a load leaves behind (id_map in load_documents()).
LEMMA NumberedDocs ==
  ASSUME IngestTypeOK, NEW c \in Corpora, nextId + Len(c.docs) - 1 <= MaxId
  PROVE  /\ Range(c.docs) \subseteq Docs
         /\ Numbered(c.docs) \in [Range(c.docs) -> nextId..(nextId + Len(c.docs) - 1)]
         /\ Numbered(c.docs) \in IdMaps
         /\ \A d \in Range(c.docs), e \in Range(c.docs) :
              Numbered(c.docs)[d] = Numbered(c.docs)[e] => d = e
<1> DEFINE docs == c.docs
           place(d) == CHOOSE i \in DOMAIN docs : docs[i] = d
<1>1. docs \in Seq(Docs) /\ DOMAIN docs = 1..Len(docs) /\ Len(docs) \in Nat
  BY IngestAssumption
<1>2. \A d \in Range(docs) : place(d) \in DOMAIN docs /\ docs[place(d)] = d
  BY DEF Range
<1>3. Range(docs) \subseteq Docs
  <2>1. \A i \in 1..Len(docs) : docs[i] \in Docs
    BY <1>1
  <2>2. QED
    BY <1>1, <2>1 DEF Range
<1>4. nextId \in Nat /\ nextId >= 1 /\ MaxId \in Nat
  BY IngestAssumption DEF IngestTypeOK
<1>5. \A d \in Range(docs) : place(d) \in 1..Len(docs)
  BY <1>1, <1>2
<1>6. Numbered(docs) = [d \in Range(docs) |-> nextId + place(d) - 1]
  BY DEF Numbered
<1> HIDE DEF place
<1>7. \A d \in Range(docs) : nextId + place(d) - 1 \in nextId..(nextId + Len(docs) - 1)
  BY <1>1, <1>4, <1>5
<1>8. Numbered(docs) \in [Range(docs) -> nextId..(nextId + Len(docs) - 1)]
  BY <1>6, <1>7
<1>9. Numbered(docs) \in IdMaps
  <2>1. nextId..(nextId + Len(docs) - 1) \subseteq 1..MaxId
    BY <1>1, <1>4
  <2>2. Numbered(docs) \in [Range(docs) -> 1..MaxId]
    BY <1>8, <2>1
  <2>3. QED
    BY <1>3, <2>2 DEF IdMaps
<1>10. ASSUME NEW d \in Range(docs), NEW e \in Range(docs),
              Numbered(docs)[d] = Numbered(docs)[e]
       PROVE  d = e
  <2>1. nextId + place(d) - 1 = nextId + place(e) - 1
    BY <1>6, <1>10
  <2>2. place(d) = place(e)
    BY <1>1, <1>4, <1>5, <2>1
  <2>3. QED
    BY <1>2, <2>2
<1>11. QED
  BY <1>3, <1>8, <1>9, <1>10

\* The run that has not begun is a run (Idle, which every run ends as).
LEMMA IdleLoader ==
  /\ Idle \in [step : Steps, corpus : Corpora, idMap : IdMaps, pass : Passes]
  /\ Idle.step = "idle"
<1>1. (CHOOSE c \in Corpora : TRUE) \in Corpora
  BY IngestAssumption
<1>2. [d \in {} |-> 0] \in [{} -> 1..MaxId]
  OBVIOUS
<1>3. [d \in {} |-> 0] \in IdMaps
  BY <1>2 DEF IdMaps
<1>4. QED
  BY <1>1, <1>3 DEF Idle, Steps, Passes

\* The empty tables and the idle loader satisfy the invariant.
LEMMA InitIngestInv == IngestInit => IngestInv
<1> SUFFICES ASSUME IngestInit PROVE IngestInv
  OBVIOUS
<1>1. 1 \in 1..(MaxId + 1) /\ 0 \in 0..MaxResets
  BY IngestAssumption
<1>2. IngestTypeOK
  BY <1>1, IdleLoader DEF IngestInit, IngestTypeOK
<1>3. LoaderInv
  BY IdleLoader DEF IngestInit, LoaderInv, At
<1>4. NumbersInv /\ LinksResolve
  BY DEF IngestInit, NumbersInv, LinksResolve
<1>5. QED
  BY <1>2, <1>3, <1>4 DEF IngestInv

\* A step that leaves the tables alone, and the loader too or at another point of
\* its run than `load` and `links`, preserves the invariant.
LEMMA TablesUntouched ==
  ASSUME IngestInv, TablesUnchanged, files' \in Corpora,
         \/ loader' = loader
         \/ /\ loader' \in [step : Steps, corpus : Corpora, idMap : IdMaps, pass : Passes]
            /\ ~At("load")' /\ ~At("links")'
  PROVE  IngestInv'
<1>1. IngestTypeOK'
  BY DEF IngestInv, IngestTypeOK, TablesUnchanged
<1>2. LoaderInv'
  BY DEF IngestInv, LoaderInv, TablesUnchanged, At
<1>3. NumbersInv' /\ LinksResolve'
  BY DEF IngestInv, NumbersInv, LinksResolve, TablesUnchanged
<1>4. QED
  BY <1>1, <1>2, <1>3 DEF IngestInv

\* Empty tables have no references in them, and no row to number twice.
LEMMA ResetSchemaKeepsInv == IngestInv /\ ResetSchema => IngestInv'
<1> SUFFICES ASSUME IngestInv, ResetSchema PROVE IngestInv'
  OBVIOUS
<1>1. /\ loader' = [loader EXCEPT !.step = "load"]
      /\ documents' = {} /\ references' = {} /\ complete' = {} /\ nextId' = 1
      /\ epoch' = epoch + 1 /\ epoch < MaxResets /\ files' = files
  BY DEF ResetSchema, Goto
<1>2. loader' \in [step : Steps, corpus : Corpora, idMap : IdMaps, pass : Passes]
  BY <1>1 DEF IngestInv, IngestTypeOK, Steps
<1>3. 1 \in 1..(MaxId + 1) /\ epoch + 1 \in 0..MaxResets
  BY <1>1, IngestAssumption DEF IngestInv, IngestTypeOK
<1>4. IngestTypeOK'
  BY <1>1, <1>2, <1>3 DEF IngestInv, IngestTypeOK
<1>5. loader'.step = "load"
  BY <1>1 DEF IngestInv, IngestTypeOK
<1>6. LoaderInv'
  BY <1>1, <1>5 DEF LoaderInv, At
<1>7. NumbersInv' /\ LinksResolve'
  BY <1>1 DEF NumbersInv, LinksResolve
<1>8. QED
  BY <1>4, <1>6, <1>7 DEF IngestInv

\* A run that starts on tables that exist and hold nothing.
LEMMA AcceptKeepsInv == IngestInv /\ Accept => IngestInv'
<1> SUFFICES ASSUME IngestInv, Accept PROVE IngestInv'
  OBVIOUS
<1>1. /\ loader' = [loader EXCEPT !.step = "load"]
      /\ documents = {} /\ TablesUnchanged /\ files' = files
  BY DEF Accept, Goto
<1>2. loader' \in [step : Steps, corpus : Corpora, idMap : IdMaps, pass : Passes]
  BY <1>1 DEF IngestInv, IngestTypeOK, Steps
<1>3. IngestTypeOK'
  BY <1>1, <1>2 DEF IngestInv, IngestTypeOK, TablesUnchanged
<1>4. loader'.step = "load"
  BY <1>1 DEF IngestInv, IngestTypeOK
<1>5. LoaderInv'
  BY <1>1, <1>4 DEF LoaderInv, At, TablesUnchanged
<1>6. NumbersInv' /\ LinksResolve'
  BY <1>1 DEF IngestInv, NumbersInv, LinksResolve, TablesUnchanged
<1>7. QED
  BY <1>3, <1>5, <1>6 DEF IngestInv

\* The documents go in together, under new numbers, and the map says which.
LEMMA LoadKeepsInv == IngestInv /\ Load => IngestInv'
<1> SUFFICES ASSUME IngestInv, Load PROVE IngestInv'
  OBVIOUS
<1> DEFINE docs == loader.corpus.docs
           m == Numbered(docs)
           rows == {[id |-> m[d], doc |-> d] : d \in Range(docs)}
<1>1. /\ documents = {} /\ documents' = documents \cup rows
      /\ nextId' = nextId + Len(docs) /\ nextId + Len(docs) - 1 <= MaxId
      /\ loader' = [loader EXCEPT !.step = "links", !.idMap = m]
      /\ files' = files /\ references' = references /\ epoch' = epoch /\ complete' = complete
  BY DEF Load, IngestInv, LoaderInv
<1>2. /\ loader \in [step : Steps, corpus : Corpora, idMap : IdMaps, pass : Passes]
      /\ loader.corpus \in Corpora /\ IngestTypeOK
  BY DEF IngestInv, IngestTypeOK
<1>3. /\ Range(docs) \subseteq Docs
      /\ m \in [Range(docs) -> nextId..(nextId + Len(docs) - 1)]
      /\ m \in IdMaps
      /\ \A d \in Range(docs), e \in Range(docs) : m[d] = m[e] => d = e
  BY <1>1, <1>2, NumberedDocs
<1>4. Len(docs) \in Nat /\ nextId \in 1..(MaxId + 1) /\ MaxId \in Nat
  BY <1>2, IngestAssumption DEF IngestTypeOK
<1>5. references = {}
  BY <1>1 DEF IngestInv, LinksResolve
<1> HIDE DEF docs, m
<1>6. \A d \in Range(docs) : m[d] \in 1..MaxId /\ m[d] < nextId + Len(docs)
  BY <1>1, <1>3, <1>4
<1>7. rows \subseteq [id : 1..MaxId, doc : Docs]
  BY <1>3, <1>6
<1>8. loader' \in [step : Steps, corpus : Corpora, idMap : IdMaps, pass : Passes]
  BY <1>1, <1>2, <1>3 DEF Steps
<1>9. nextId' \in 1..(MaxId + 1)
  BY <1>1, <1>4
<1>10. IngestTypeOK'
  BY <1>1, <1>2, <1>7, <1>8, <1>9 DEF IngestTypeOK
<1>11. loader'.step = "links" /\ loader'.idMap = m /\ loader'.corpus = loader.corpus
  BY <1>1, <1>2
<1>12. documents' = rows
  BY <1>1
<1>13. LoaderInv'
  <2>1. DOMAIN m = Range(docs)
    BY <1>3
  <2>2. QED
    BY <1>11, <1>12, <2>1 DEF LoaderInv, At, docs
<1>14. NumbersInv'
  BY <1>1, <1>3, <1>6, <1>12 DEF NumbersInv
<1>15. LinksResolve'
  BY <1>1, <1>5 DEF LinksResolve
<1>16. QED
  BY <1>10, <1>13, <1>14, <1>15 DEF IngestInv

\* A rolled back load costs numbers and nothing else.
LEMMA LoadFailsKeepsInv == IngestInv /\ LoadFails => IngestInv'
<1> SUFFICES ASSUME IngestInv, LoadFails PROVE IngestInv'
  OBVIOUS
<1>1. /\ loader' = Idle /\ documents = {} /\ documents' = documents
      /\ files' = files /\ references' = references /\ epoch' = epoch /\ complete' = complete
  BY DEF LoadFails, EndRun, IngestInv, LoaderInv
<1>2. nextId' \in 1..(MaxId + 1)
  <2>1. PICK drawn \in 0..Len(loader.corpus.docs) :
          nextId + drawn <= MaxId /\ nextId' = nextId + drawn
    BY DEF LoadFails
  <2>2. loader.corpus.docs \in Seq(Docs)
    BY IngestAssumption DEF IngestInv, IngestTypeOK
  <2>3. Len(loader.corpus.docs) \in Nat /\ nextId \in 1..(MaxId + 1) /\ MaxId \in Nat
    BY <2>2, IngestAssumption DEF IngestInv, IngestTypeOK
  <2>4. QED
    BY <2>1, <2>3
<1>3. IngestTypeOK'
  BY <1>1, <1>2, IdleLoader DEF IngestInv, IngestTypeOK
<1>4. LoaderInv'
  BY <1>1, IdleLoader DEF LoaderInv, At
<1>5. NumbersInv' /\ LinksResolve'
  BY <1>1 DEF IngestInv, NumbersInv, LinksResolve
<1>6. QED
  BY <1>3, <1>4, <1>5 DEF IngestInv

\* A pass looks both ends of a link up in the map, which is the table.
LEMMA ResolveLinksKeepsInv == IngestInv /\ ResolveLinks => IngestInv'
<1> SUFFICES ASSUME IngestInv, ResolveLinks PROVE IngestInv'
  OBVIOUS
<1> DEFINE m == loader.idMap
           links == loader.corpus.links[loader.pass]
           new == {[source |-> m[link[1]], target |-> Target(link[2]),
                    named |-> link[2], pass |-> loader.pass] : link \in links}
<1>1. /\ At("links") /\ references' = references \cup new
      /\ files' = files /\ documents' = documents /\ nextId' = nextId /\ epoch' = epoch
  BY DEF ResolveLinks
<1>2. /\ loader \in [step : Steps, corpus : Corpora, idMap : IdMaps, pass : Passes]
      /\ loader.corpus \in Corpora /\ loader.pass \in Passes /\ m \in IdMaps
  BY DEF IngestInv, IngestTypeOK
<1>3. /\ documents = {[id |-> m[d], doc |-> d] : d \in DOMAIN m}
      /\ DOMAIN m = Range(loader.corpus.docs)
  BY <1>1 DEF IngestInv, LoaderInv
<1>4. /\ \A d \in DOMAIN m : d \in Docs /\ m[d] \in 1..MaxId
  BY <1>2 DEF IdMaps
<1>5. \A link \in links : link \in Docs \X Docs /\ link[1] \in DOMAIN m
  BY <1>2, <1>3, IngestAssumption
<1>6. \A link \in links : Target(link[2]) \in 0..MaxId
  <2>1. 0 \in 0..MaxId /\ 1..MaxId \subseteq 0..MaxId
    BY IngestAssumption
  <2>2. QED
    BY <1>4, <2>1 DEF Target, NoTarget
<1>7. new \subseteq [source : 1..MaxId, target : 0..MaxId, named : Docs, pass : Passes]
  <2> HIDE DEF links, m
  <2>1. ASSUME NEW link \in links
        PROVE  /\ m[link[1]] \in 1..MaxId /\ Target(link[2]) \in 0..MaxId
               /\ link[2] \in Docs /\ loader.pass \in Passes
    BY <1>2, <1>4, <1>5, <1>6
  <2>2. QED
    BY <2>1
<1>8. /\ loader' \in [step : Steps, corpus : Corpora, idMap : IdMaps, pass : Passes]
      /\ complete' \in SUBSET Corpora
      /\ loader'.step = "idle" \/ (/\ loader'.step = loader.step /\ loader'.idMap = m
                                   /\ loader'.corpus = loader.corpus)
  <2>1. CASE loader.pass = LastPass
    BY <1>2, <2>1, IdleLoader DEF ResolveLinks, EndRun, IngestInv, IngestTypeOK
  <2>2. CASE loader.pass # LastPass
    <3>1. loader.pass + 1 \in Passes
      BY <1>2, <2>2 DEF Passes, LastPass
    <3>2. loader' = [loader EXCEPT !.pass = loader.pass + 1] /\ complete' = complete
      BY <2>2 DEF ResolveLinks
    <3>3. /\ loader' \in [step : Steps, corpus : Corpora, idMap : IdMaps, pass : Passes]
          /\ loader'.step = loader.step /\ loader'.idMap = loader.idMap
          /\ loader'.corpus = loader.corpus
      <4> HIDE DEF m, links, new
      <4>1. QED
        BY <1>2, <3>1, <3>2
    <3>4. QED
      BY <3>2, <3>3 DEF IngestInv, IngestTypeOK
  <2>3. QED
    BY <2>1, <2>2
<1>9. IngestTypeOK'
  BY <1>1, <1>7, <1>8 DEF IngestInv, IngestTypeOK
<1>10. LoaderInv'
  BY <1>1, <1>3, <1>8 DEF LoaderInv, At
<1>11. NumbersInv'
  BY <1>1 DEF IngestInv, NumbersInv
<1>12. LinksResolve'
  <2> HIDE DEF links, m
  <2>1. ASSUME NEW link \in links,
               NEW r, r = [source |-> m[link[1]], target |-> Target(link[2]),
                           named |-> link[2], pass |-> loader.pass]
        PROVE  /\ \E row \in documents : row.id = r.source
               /\ r.target # NoTarget => [id |-> r.target, doc |-> r.named] \in documents
               /\ r.target = NoTarget => \A row \in documents : row.doc # r.named
    <3>1. \E row \in documents : row.id = m[link[1]]
      <4>1. [id |-> m[link[1]], doc |-> link[1]] \in documents
        BY <1>3, <1>5
      <4>2. QED
        BY <4>1
    <3>2. CASE link[2] \in DOMAIN m
      <4>1. Target(link[2]) = m[link[2]] /\ m[link[2]] # NoTarget
        BY <1>4, <3>2 DEF Target, m, NoTarget
      <4>2. [id |-> m[link[2]], doc |-> link[2]] \in documents
        BY <1>3, <3>2
      <4>3. QED
        BY <2>1, <3>1, <4>1, <4>2
    <3>3. CASE link[2] \notin DOMAIN m
      <4>1. Target(link[2]) = NoTarget
        BY <3>3 DEF Target, m
      <4>2. \A row \in documents : row.doc # link[2]
        BY <1>3, <3>3
      <4>3. QED
        BY <2>1, <3>1, <4>1, <4>2
    <3>4. QED
      BY <3>2, <3>3
  <2>2. QED
    BY <1>1, <2>1 DEF IngestInv, LinksResolve
<1>13. QED
  BY <1>9, <1>10, <1>11, <1>12 DEF IngestInv

\* Every step of ingest.py preserves the invariant.
LEMMA NextIngestInv == IngestInv /\ [IngestNext]_ingestVars => IngestInv'
<1> SUFFICES ASSUME IngestInv, [IngestNext]_ingestVars PROVE IngestInv'
  OBVIOUS
<1>1. /\ files \in Corpora
      /\ loader \in [step : Steps, corpus : Corpora, idMap : IdMaps, pass : Passes]
  BY DEF IngestInv, IngestTypeOK
<1>2. CASE Edit
  BY <1>2, TablesUntouched DEF Edit
<1>3. CASE Parse
  <2>1. PICK step \in {"reset", "check"} :
          loader' = [Idle EXCEPT !.step = step, !.corpus = files]
    BY <1>3 DEF Parse
  <2>2. /\ loader' \in [step : Steps, corpus : Corpora, idMap : IdMaps, pass : Passes]
        /\ loader'.step = step
    BY <1>1, <2>1, IdleLoader DEF Steps
  <2>3. QED
    BY <1>1, <1>3, <2>2, TablesUntouched DEF Parse, At
<1>4. CASE Refuse \/ Crash
  <2>1. loader' = Idle /\ TablesUnchanged /\ files' = files
    BY <1>4 DEF Refuse, Crash, EndRun
  <2>2. QED
    BY <1>1, <2>1, IdleLoader, TablesUntouched DEF At
<1>5. CASE UNCHANGED ingestVars
  BY <1>1, <1>5, TablesUntouched DEF ingestVars, TablesUnchanged
<1>6. QED
  BY <1>2, <1>3, <1>4, <1>5, ResetSchemaKeepsInv, AcceptKeepsInv, LoadKeepsInv,
     LoadFailsKeepsInv, ResolveLinksKeepsInv
  DEF IngestNext

\* The invariant, for every run of ingest.py.
THEOREM IngestInvariant == IngestSpec => []IngestInv
<1>1. QED
  BY InitIngestInv, NextIngestInv, PTL DEF IngestSpec

\* Every reference comes from a row, and points at the document it names or, if
\* that is in no row, nowhere.
THEOREM LinksAlwaysResolve == IngestSpec => []LinksResolve
<1>1. IngestInv => LinksResolve
  BY DEF IngestInv
<1>2. QED
  BY <1>1, IngestInvariant, PTL

\* Rows once loaded go only by a reset.
THEOREM LoadedOnlyOnce == IngestSpec => LoadedOnce
<1>1. ASSUME IngestInv, [IngestNext]_ingestVars
      PROVE  [documents # {} => documents' = documents \/ documents' = {}]_ingestVars
  <2>1. CASE Load
    BY <1>1, <2>1 DEF IngestInv, LoaderInv, Load
  <2>2. CASE ~Load
    BY <1>1, <2>2
    DEF IngestNext, Edit, Parse, ResetSchema, Refuse, Accept, LoadFails, ResolveLinks,
        Crash, TablesUnchanged, ingestVars
  <2>3. QED
    BY <2>1, <2>2
<1>2. QED
  BY <1>1, IngestInvariant, PTL DEF IngestSpec, LoadedOnce

-----------------------------------------------------------------------------
(* What a run that ended leaves, for files that hold at least one document *)

\* The references the first passes find in the files, by what they are about.
Found(c, passes) == UNION {{<<p, {link[1]}, link[2]>> : link \in c.links[p]} : p \in passes}

\* The references the table holds, in the same terms.
Recorded == {<<r.pass, Holders(r.source), r.named>> : r \in references}

Done == {p \in Passes : p < loader.pass}

\* CompleteIsWhole looks at a run's end only. Before it the table holds what the
\* passes made so far found, and nothing is left of any earlier run.
WholeInv ==
  /\ ~At("links") => loader.pass = 1
  /\ At("load") \/ At("links") => complete = {}
  /\ At("links") => Recorded = Found(loader.corpus, Done)
  /\ CompleteIsWhole

\* An empty table has no references (schema.sql's foreign key on source).
LEMMA NoRowsNoReferences == IngestInv /\ documents = {} => references = {}
BY DEF IngestInv, LinksResolve

\* While a run is in its passes, its map says whose each number is.
LEMMA MappedHolders ==
  ASSUME IngestInv, At("links")
  PROVE  \A d \in DOMAIN loader.idMap : Holders(loader.idMap[d]) = {d}
<1> SUFFICES ASSUME NEW d \in DOMAIN loader.idMap
             PROVE  Holders(loader.idMap[d]) = {d}
  OBVIOUS
<1>1. documents = {[id |-> loader.idMap[e], doc |-> e] : e \in DOMAIN loader.idMap}
  BY DEF IngestInv, LoaderInv
<1>2. [id |-> loader.idMap[d], doc |-> d] \in documents
  BY <1>1
<1>3. \A row \in documents : row.id = loader.idMap[d] => row = [id |-> loader.idMap[d], doc |-> d]
  BY <1>2 DEF IngestInv, NumbersInv
<1>4. \A row \in documents : row.id = loader.idMap[d] => row.doc = d
  BY <1>3
<1>5. QED
  BY <1>2, <1>4 DEF Holders

\* A pass records what it finds, whatever the table held of other passes.
LEMMA PassRecords ==
  ASSUME IngestInv, ResolveLinks
  PROVE  Recorded' = Recorded \cup Found(loader.corpus, {loader.pass})
<1> DEFINE links == loader.corpus.links[loader.pass]
           record(link) == [source |-> loader.idMap[link[1]], target |-> Target(link[2]),
                            named |-> link[2], pass |-> loader.pass]
           shown(r) == <<r.pass, Holders(r.source), r.named>>
<1>1. references' = references \cup {record(link) : link \in links} /\ documents' = documents
  BY DEF ResolveLinks
<1>2. \A link \in links : link[1] \in DOMAIN loader.idMap
  <2>1. loader.corpus \in Corpora /\ loader.pass \in Passes /\ At("links")
    BY DEF IngestInv, IngestTypeOK, ResolveLinks
  <2>2. DOMAIN loader.idMap = Range(loader.corpus.docs)
    BY <2>1 DEF IngestInv, LoaderInv
  <2>3. QED
    BY <2>1, <2>2, IngestAssumption
<1>3. \A link \in links : shown(record(link)) = <<loader.pass, {link[1]}, link[2]>>
  BY <1>2, MappedHolders DEF ResolveLinks
<1>4. Recorded' = {shown(r) : r \in references'}
  BY <1>1 DEF Recorded, Holders
<1>5. Recorded = {shown(r) : r \in references}
  BY DEF Recorded
<1>6. Found(loader.corpus, {loader.pass}) = {<<loader.pass, {link[1]}, link[2]>> : link \in links}
  BY DEF Found
<1> HIDE DEF record, shown, links
<1>7. {shown(r) : r \in references'} =
        {shown(r) : r \in references} \cup {shown(record(link)) : link \in links}
  BY <1>1
<1>8. {shown(record(link)) : link \in links} = {<<loader.pass, {link[1]}, link[2]>> : link \in links}
  BY <1>3
<1>9. QED
  BY <1>4, <1>5, <1>6, <1>7, <1>8

\* The last pass leaves everything, an earlier one everything up to it.
LEMMA ResolveLinksKeepsWhole == IngestInv /\ WholeInv /\ ResolveLinks => WholeInv'
<1> SUFFICES ASSUME IngestInv, WholeInv, ResolveLinks PROVE WholeInv'
  OBVIOUS
<1>1. /\ At("links") /\ documents' = documents /\ complete = {}
      /\ loader \in [step : Steps, corpus : Corpora, idMap : IdMaps, pass : Passes]
  BY DEF ResolveLinks, WholeInv, IngestInv, IngestTypeOK
<1>2. loader.pass \in Passes /\ loader.corpus \in Corpora
  BY <1>1
<1>3. Recorded' = Found(loader.corpus, Done \cup {loader.pass})
  <2>1. Recorded' = Found(loader.corpus, Done) \cup Found(loader.corpus, {loader.pass})
    BY <1>1, PassRecords DEF WholeInv
  <2>2. QED
    BY <2>1 DEF Found
<1>4. CASE loader.pass = LastPass
  <2>1. loader' = Idle /\ complete' = {loader.corpus}
    BY <1>4 DEF ResolveLinks, EndRun
  <2>2. Done \cup {loader.pass} = Passes
    BY <1>4 DEF Done, Passes, LastPass
  <2>3. Recorded' = Found(loader.corpus, Passes)
    BY <1>3, <2>2
  <2>4. documents = {[id |-> loader.idMap[d], doc |-> d] : d \in Range(loader.corpus.docs)}
    BY <1>1 DEF IngestInv, LoaderInv
  <2>5. {row.doc : row \in documents} = Range(loader.corpus.docs)
    <3>1. \A d \in Range(loader.corpus.docs) : \E row \in documents : row.doc = d
      <4>1. SUFFICES ASSUME NEW d \in Range(loader.corpus.docs)
                     PROVE  \E row \in documents : row.doc = d
        OBVIOUS
      <4>2. [id |-> loader.idMap[d], doc |-> d] \in documents
        BY <2>4
      <4>3. [id |-> loader.idMap[d], doc |-> d].doc = d
        OBVIOUS
      <4>4. QED
        BY <4>2, <4>3
    <3>2. \A row \in documents : row.doc \in Range(loader.corpus.docs)
      BY <2>4
    <3>3. QED
      BY <3>1, <3>2
  <2>6. \A row \in documents, other \in documents : row.doc = other.doc => row = other
    BY <2>4
  <2>7. CompleteIsWhole'
    BY <1>1, <2>1, <2>3, <2>5, <2>6 DEF CompleteIsWhole, Recorded, Found
  <2>8. ~At("load")' /\ ~At("links")' /\ loader'.pass = 1
    BY <2>1, IdleLoader DEF At, Idle
  <2>9. QED
    BY <2>7, <2>8 DEF WholeInv
<1>5. CASE loader.pass # LastPass
  <2>1. loader' = [loader EXCEPT !.pass = loader.pass + 1] /\ complete' = {}
    BY <1>1, <1>5 DEF ResolveLinks
  <2>2. At("links")' /\ loader'.corpus = loader.corpus /\ loader'.pass = loader.pass + 1
    BY <1>1, <2>1 DEF At
  <2>3. Done' = Done \cup {loader.pass}
    BY <1>2, <2>2 DEF Done, Passes
  <2>4. Recorded' = Found(loader.corpus, Done)'
    BY <1>3, <2>2, <2>3 DEF Found
  <2>5. QED
    BY <2>1, <2>2, <2>4 DEF WholeInv, CompleteIsWhole
<1>6. QED
  BY <1>4, <1>5

\* The other steps either leave the tables as they are or begin with empty ones,
\* which no complete load of at least one document leaves.
LEMMA NextWholeInv ==
  ASSUME \A c \in Corpora : Len(c.docs) > 0,
         IngestInv, WholeInv, [IngestNext]_ingestVars
  PROVE  WholeInv'
<1>1. /\ loader \in [step : Steps, corpus : Corpora, idMap : IdMaps, pass : Passes]
      /\ complete \in SUBSET Corpora
  BY DEF IngestInv, IngestTypeOK
<1>2. documents = {} => complete = {}
  <2>1. SUFFICES ASSUME documents = {}, NEW c \in complete PROVE FALSE
    OBVIOUS
  <2>2. c.docs \in Seq(Docs) /\ Len(c.docs) > 0
    BY <1>1, IngestAssumption
  <2>3. c.docs[1] \in Range(c.docs)
    BY <2>2 DEF Range
  <2>4. {row.doc : row \in documents} = Range(c.docs)
    BY DEF WholeInv, CompleteIsWhole
  <2>5. QED
    BY <2>1, <2>3, <2>4
<1>3. CASE /\ UNCHANGED <<documents, references, complete>>
           /\ \/ loader' = loader
              \/ loader'.pass = 1 /\ ~At("load")' /\ ~At("links")'
  <2>1. CompleteIsWhole'
    BY <1>3 DEF WholeInv, CompleteIsWhole, Holders
  <2>2. Recorded' = Recorded
    BY <1>3 DEF Recorded, Holders
  <2>3. QED
    BY <1>3, <2>1, <2>2 DEF WholeInv, At, Done, Found
<1>4. CASE Parse
  BY <1>3, <1>4, IdleLoader DEF Parse, Idle, At, TablesUnchanged
<1>5. CASE ResetSchema
  <2>1. complete' = {} /\ loader'.step = "load" /\ loader'.pass = loader.pass /\ loader.step = "reset"
    BY <1>1, <1>5 DEF ResetSchema, Goto, At
  <2>2. QED
    BY <2>1 DEF WholeInv, CompleteIsWhole, At
<1>6. CASE Accept
  <2>1. /\ complete' = {} /\ loader'.step = "load" /\ loader'.pass = loader.pass
        /\ loader.step = "check"
    BY <1>1, <1>2, <1>6 DEF Accept, Goto, At, TablesUnchanged
  <2>2. QED
    BY <2>1 DEF WholeInv, CompleteIsWhole, At
<1>7. CASE Load
  <2>1. /\ complete' = {} /\ loader'.step = "links" /\ loader'.pass = 1
        /\ references' = {}
    BY <1>1, <1>7, NoRowsNoReferences DEF Load, At, WholeInv, IngestInv, LoaderInv
  <2>2. Done' = {}
    BY <2>1 DEF Done, Passes
  <2>3. Recorded' = Found(loader.corpus, Done)'
    BY <2>1, <2>2 DEF Recorded, Found
  <2>4. QED
    BY <2>1, <2>3 DEF WholeInv, CompleteIsWhole, At, Found
<1>8. CASE Edit \/ Refuse \/ LoadFails \/ Crash \/ UNCHANGED ingestVars
  BY <1>3, <1>8, IdleLoader
  DEF Edit, Refuse, LoadFails, Crash, EndRun, Idle, At, TablesUnchanged, ingestVars
<1>9. QED
  BY <1>4, <1>5, <1>6, <1>7, <1>8, ResolveLinksKeepsWhole DEF IngestNext

\* What a run that ended left stays whole until the next reset. Files that hold
\* nothing are left out: a run that loads none ends as well, and the next fills
\* the tables it left empty without a reset.
THEOREM CompleteStaysWhole ==
  ASSUME \A c \in Corpora : Len(c.docs) > 0
  PROVE  IngestSpec => []CompleteIsWhole
<1>1. IngestInit => WholeInv
  BY IdleLoader DEF IngestInit, WholeInv, CompleteIsWhole, At, Idle
<1>2. IngestInv /\ WholeInv /\ [IngestNext]_ingestVars => WholeInv'
  BY NextWholeInv
<1>3. WholeInv => CompleteIsWhole
  BY DEF WholeInv
<1>4. QED
  BY <1>1, <1>2, <1>3, IngestInvariant, PTL DEF IngestSpec

-----------------------------------------------------------------------------
(* FieldLookup *)

\* Rebuilds and questions leave the tables alone.
THEOREM LookupOnlyReads == FieldSpec => IngestSpec
<1>1. FieldInit => IngestInit
  BY DEF FieldInit
<1>2. [FieldNext]_fieldVars => [IngestNext]_ingestVars
  BY DEF FieldNext, Rebuild, ResolveId, ReadFields, fieldVars, ingestVars
<1>3. QED
  BY <1>1, <1>2, PTL DEF FieldSpec, IngestSpec

\* Until the next reset, what was found in the index is in the table.
FoundInv ==
  /\ index.epoch = epoch =>
       \A d \in DOMAIN index.ids : [id |-> index.ids[d], doc |-> d] \in documents
  /\ lookup.step = "read" /\ lookup.epoch = epoch =>
       [id |-> lookup.id, doc |-> lookup.doc] \in documents

FieldInv == IngestInv /\ FieldTypeOK /\ FoundInv /\ FieldsRightUntilReset

\* Nothing indexed, nothing asked.
LEMMA InitFieldInv == FieldInit => FieldInv
<1> SUFFICES ASSUME FieldInit PROVE FieldInv
  OBVIOUS
<1>1. IngestInv
  BY InitIngestInv DEF FieldInit
<1>2. /\ index = [ids |-> [d \in {} |-> 0], epoch |-> 0] /\ lookup = NoLookup
      /\ epoch = 0
  BY DEF FieldInit, IngestInit
<1>3. [d \in {} |-> 0] \in IdMaps /\ DOMAIN [d \in {} |-> 0] = {}
  <2>1. [d \in {} |-> 0] \in [{} -> 1..MaxId]
    OBVIOUS
  <2>2. QED
    BY <2>1 DEF IdMaps
<1>4. /\ NoLookup \in [step : {"idle", "read"}, doc : Docs, id : 0..MaxId, epoch : {0},
                       read : SUBSET Docs, readEpoch : {0}]
      /\ NoLookup.step = "idle" /\ NoLookup.read = {}
  <2>1. (CHOOSE d \in Docs : TRUE) \in Docs /\ 0 \in 0..MaxId
    BY IngestAssumption
  <2>2. QED
    BY <2>1 DEF NoLookup
<1>5. 0..epoch = {0}
  BY <1>2
<1>6. FieldTypeOK
  BY <1>1, <1>2, <1>3, <1>4, <1>5 DEF FieldTypeOK, IngestInv
<1>7. FoundInv
  BY <1>2, <1>3, <1>4 DEF FoundInv
<1>8. FieldsRightUntilReset
  BY <1>2, <1>4 DEF FieldsRightUntilReset
<1>9. QED
  BY <1>1, <1>6, <1>7, <1>8 DEF FieldInv

\* The numbers build_os_document() copies are those of the rows.
LEMMA ParentIdsAreRows ==
  ASSUME IngestTypeOK
  PROVE  /\ ParentIds \in IdMaps
         /\ \A d \in DOMAIN ParentIds : [id |-> ParentIds[d], doc |-> d] \in documents
<1> DEFINE indexed == {row.doc : row \in documents}
           rowOf(d) == CHOOSE x \in documents : x.doc = d
<1>1. \A d \in indexed : rowOf(d) \in documents /\ rowOf(d).doc = d
  OBVIOUS
<1>2. documents \subseteq [id : 1..MaxId, doc : Docs]
  BY DEF IngestTypeOK
<1>3. ParentIds = [d \in indexed |-> rowOf(d).id]
  BY DEF ParentIds
<1> HIDE DEF rowOf
<1>4. \A d \in indexed : rowOf(d).id \in 1..MaxId /\ [id |-> rowOf(d).id, doc |-> d] = rowOf(d)
  BY <1>1, <1>2
<1>5. indexed \subseteq Docs
  BY <1>2
<1> HIDE DEF indexed
<1>6. ParentIds \in [indexed -> 1..MaxId]
  BY <1>3, <1>4
<1>7. ParentIds \in IdMaps
  BY <1>5, <1>6 DEF IdMaps
<1>8. QED
  BY <1>1, <1>3, <1>4, <1>7

\* The steps of ingest.py: a reset opens another epoch, and rows stay till then.
LEMMA IngestKeepsFieldInv ==
  FieldInv /\ IngestNext /\ UNCHANGED <<index, lookup>> => FieldInv'
<1> SUFFICES ASSUME FieldInv, IngestNext, UNCHANGED <<index, lookup>> PROVE FieldInv'
  OBVIOUS
<1>1. IngestInv'
  BY NextIngestInv DEF FieldInv
<1>2. /\ epoch \in Nat
      /\ \/ epoch' = epoch + 1
         \/ epoch' = epoch /\ documents \subseteq documents'
  BY DEF IngestNext, Edit, Parse, ResetSchema, Refuse, Accept, Load, LoadFails, ResolveLinks,
         Crash, TablesUnchanged, FieldInv, IngestInv, IngestTypeOK
<1>3. 0..epoch \subseteq 0..epoch'
  BY <1>2
<1>4. FieldTypeOK'
  BY <1>1, <1>3 DEF FieldInv, FieldTypeOK, IngestInv
<1>5. FoundInv'
  <2>1. index.epoch \in 0..epoch /\ lookup.epoch \in 0..epoch
    BY DEF FieldInv, FieldTypeOK
  <2>2. CASE epoch' = epoch + 1
    BY <1>2, <2>1, <2>2 DEF FoundInv
  <2>3. CASE epoch' = epoch /\ documents \subseteq documents'
    BY <2>3 DEF FieldInv, FoundInv
  <2>4. QED
    BY <1>2, <2>2, <2>3
<1>6. FieldsRightUntilReset'
  BY DEF FieldInv, FieldsRightUntilReset
<1>7. QED
  BY <1>1, <1>4, <1>5, <1>6 DEF FieldInv

\* Every step of readers and of ingest preserves the invariant.
LEMMA NextFieldInv == FieldInv /\ [FieldNext]_fieldVars => FieldInv'
<1> SUFFICES ASSUME FieldInv, [FieldNext]_fieldVars PROVE FieldInv'
  OBVIOUS
<1> USE DEF FieldInv
<1>1. CASE IngestNext /\ UNCHANGED <<index, lookup>>
  BY <1>1, IngestKeepsFieldInv
<1>2. ASSUME UNCHANGED ingestVars PROVE IngestInv' /\ IngestTypeOK'
  BY <1>2, NextIngestInv DEF IngestInv
<1>3. CASE Rebuild
  <2>1. /\ index' = [ids |-> ParentIds, epoch |-> epoch] /\ lookup' = lookup
        /\ documents' = documents /\ epoch' = epoch /\ IngestInv' /\ IngestTypeOK'
    BY <1>2, <1>3 DEF Rebuild, ingestVars
  <2>2. epoch \in 0..epoch
    BY DEF IngestInv, IngestTypeOK
  <2>3. /\ ParentIds \in IdMaps
        /\ \A d \in DOMAIN ParentIds : [id |-> ParentIds[d], doc |-> d] \in documents
    BY ParentIdsAreRows DEF IngestInv
  <2>4. FieldTypeOK'
    BY <2>1, <2>2, <2>3 DEF FieldTypeOK
  <2>5. FoundInv' /\ FieldsRightUntilReset'
    BY <2>1, <2>3 DEF FoundInv, FieldsRightUntilReset
  <2>6. QED
    BY <2>1, <2>4, <2>5
<1>4. ASSUME NEW d \in Docs, ResolveId(d) PROVE FieldInv'
  <2>1. /\ lookup' = [NoLookup EXCEPT !.step = "read", !.doc = d, !.id = index.ids[d],
                                      !.epoch = index.epoch]
        /\ d \in DOMAIN index.ids /\ index' = index
        /\ documents' = documents /\ epoch' = epoch /\ IngestInv' /\ IngestTypeOK'
    BY <1>2, <1>4 DEF ResolveId, ingestVars
  <2>2. index.ids[d] \in 0..MaxId
    <3>1. index.ids \in IdMaps
      BY DEF FieldTypeOK
    <3>2. index.ids[d] \in 1..MaxId
      BY <2>1, <3>1 DEF IdMaps
    <3>3. QED
      BY <3>2, IngestAssumption
  <2>3. 0 \in 0..MaxId /\ 0 \in 0..epoch /\ index.epoch \in 0..epoch
    BY IngestAssumption DEF IngestInv, IngestTypeOK, FieldTypeOK
  <2>4. /\ lookup' \in [step : {"idle", "read"}, doc : Docs, id : 0..MaxId, epoch : 0..epoch,
                        read : SUBSET Docs, readEpoch : 0..epoch]
        /\ lookup'.step = "read" /\ lookup'.doc = d /\ lookup'.id = index.ids[d]
        /\ lookup'.epoch = index.epoch
    BY <2>1, <2>2, <2>3 DEF NoLookup
  <2>5. FieldTypeOK'
    BY <2>1, <2>4 DEF FieldTypeOK
  <2>6. FoundInv' /\ FieldsRightUntilReset'
    BY <2>1, <2>4 DEF FoundInv, FieldsRightUntilReset
  <2>7. QED
    BY <2>1, <2>5, <2>6
<1>5. CASE ReadFields
  <2>1. /\ lookup.step = "read" /\ index' = index
        /\ lookup' = [lookup EXCEPT !.step = "idle", !.readEpoch = epoch,
                                    !.read = Holders(lookup.id)]
        /\ documents' = documents /\ epoch' = epoch /\ IngestInv' /\ IngestTypeOK'
    BY <1>2, <1>5 DEF ReadFields, ingestVars
  <2>2. Holders(lookup.id) \subseteq Docs /\ epoch \in 0..epoch
    BY DEF Holders, IngestInv, IngestTypeOK
  <2>3. lookup \in [step : {"idle", "read"}, doc : Docs, id : 0..MaxId, epoch : 0..epoch,
                    read : SUBSET Docs, readEpoch : 0..epoch]
    BY DEF FieldTypeOK
  <2>4. /\ lookup' \in [step : {"idle", "read"}, doc : Docs, id : 0..MaxId, epoch : 0..epoch,
                        read : SUBSET Docs, readEpoch : 0..epoch]
        /\ lookup'.step = "idle" /\ lookup'.doc = lookup.doc /\ lookup'.readEpoch = epoch
        /\ lookup'.epoch = lookup.epoch /\ lookup'.read = Holders(lookup.id)
    BY <2>1, <2>2, <2>3
  <2>5. FieldTypeOK'
    BY <2>1, <2>4 DEF FieldTypeOK
  <2>6. FoundInv'
    BY <2>1, <2>4 DEF FoundInv
  <2>7. FieldsRightUntilReset'
    <3>1. SUFFICES ASSUME lookup.epoch = epoch PROVE Holders(lookup.id) \subseteq {lookup.doc}
      BY <2>4 DEF FieldsRightUntilReset
    <3>2. [id |-> lookup.id, doc |-> lookup.doc] \in documents
      BY <2>1, <3>1 DEF FoundInv
    <3>3. \A row \in documents : row.id = lookup.id => row.doc = lookup.doc
      BY <3>2 DEF IngestInv, NumbersInv
    <3>4. QED
      BY <3>3 DEF Holders
  <2>8. QED
    BY <2>1, <2>5, <2>6, <2>7
<1>6. CASE UNCHANGED fieldVars
  <2>1. UNCHANGED ingestVars /\ epoch' = epoch /\ documents' = documents
        /\ index' = index /\ lookup' = lookup
    BY <1>6 DEF fieldVars, ingestVars
  <2>2. QED
    BY <1>2, <2>1 DEF FieldTypeOK, FoundInv, FieldsRightUntilReset
<1>7. QED
  BY <1>1, <1>3, <1>4, <1>5, <1>6 DEF FieldNext

\* The invariant of the composition.
THEOREM FieldInvariant == FieldSpec => []FieldInv
<1>1. QED
  BY InitFieldInv, NextFieldInv, PTL DEF FieldSpec

\* Type correctness of tables, index and questions.
THEOREM FieldTypeCorrect == FieldSpec => []FieldTypeOK
<1>1. FieldInv => FieldTypeOK
  BY DEF FieldInv
<1>2. QED
  BY <1>1, FieldInvariant, PTL

\* Fields read before the next reset are those of the document asked about.
THEOREM FieldsStayRight == FieldSpec => []FieldsRightUntilReset
<1>1. FieldInv => FieldsRightUntilReset
  BY DEF FieldInv
<1>2. QED
  BY <1>1, FieldInvariant, PTL
=============================================================================
