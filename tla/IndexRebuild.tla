---------------------------- MODULE IndexRebuild ----------------------------
(***************************************************************************)
(* app/search/indexer.py: rebuild_index() copies the Postgres table        *)
(* `documents` into a new OpenSearch index and moves the alias to it; it   *)
(* is the body of scripts/build_index.py, which an operator may start at   *)
(* any time, and more than once at a time. Each OpenSearch call is a step  *)
(* of its own, so builders interleave with each other and with ingest.py.  *)
(***************************************************************************)
EXTENDS Naturals, Sequences, FiniteSets

CONSTANTS
  Builders,       \* processes running build_index
  Docs,           \* rows that can be in `documents`
  ChunkId,        \* the OpenSearch _id of each row: external_id::chunk_000
  KeepPrevious,   \* --keep-previous, default 1
  MaxCommits,     \* bound: committed states of the tables
  MaxTime         \* bound: int(time.time()), the suffix of index names

ASSUME RebuildAssumption ==
  /\ KeepPrevious \in Nat
  /\ MaxCommits \in Nat
  /\ MaxTime \in Nat \ {0}
  /\ IsFiniteSet(Docs)

VARIABLES
  clock,          \* the second shown by time.time()
  history,        \* committed states of `documents`, oldest first
  indices,        \* the OpenSearch indices, by timestamp
  alias,          \* the names the alias points at
  retired,        \* existing indices the alias pointed at once (history)
  job             \* the local state of each builder

vars == <<clock, history, indices, alias, retired, job>>

Names == 1..MaxTime

Absent == [exists |-> FALSE, ver |-> 0, docs |-> {}]

NoJob == [step |-> "idle", ver |-> 0, target |-> 0, pending |-> {},
          errors |-> FALSE, old |-> {}]

Init ==
  /\ clock = 1
  /\ history = <<{}>>
  /\ indices = [i \in Names |-> Absent]
  /\ alias = {}
  /\ retired = {}
  /\ job = [b \in Builders |-> NoJob]

At(b, s) == job[b].step = s

Goto(b, s) == job' = [job EXCEPT ![b].step = s]

\* The process ends, normally or by an exception; main() closes the connection.
EndJob(b) == job' = [job EXCEPT ![b] = NoJob]

\* What the target index becomes; everything else in the cluster is untouched.
PutTarget(b, body) == indices' = [indices EXCEPT ![job[b].target] = body]

\* OpenSearch takes an index it deletes out of the alias.
DeleteIndex(i) ==
  /\ indices' = [indices EXCEPT ![i] = Absent]
  /\ alias' = alias \ {i}
  /\ retired' = retired \ {i}

\* Mutant of HoldsReadLock: the SELECT runs in autocommit mode.
HoldsNoLock(b) == FALSE

\* build_index.py never commits: the transaction FETCH_DOCUMENTS_SQL opened
\* keeps its ACCESS SHARE lock on `documents` until the connection is closed.
HoldsReadLock(b) == ~At(b, "idle")

-----------------------------------------------------------------------------
(* ingest.py, as far as it changes what a rebuild reads *)

\* --reset: schema.sql drops and recreates the tables, in a commit of its own.
\* DROP TABLE waits for every reader's lock.
ResetSchema ==
  /\ \A b \in Builders : ~HoldsReadLock(b)
  /\ Len(history) < MaxCommits
  /\ history' = Append(history, {})
  /\ UNCHANGED <<clock, indices, alias, retired, job>>

\* load_documents() inserts every row and commits; run() refuses to start it
\* when the table is not empty. INSERT does not wait for readers.
LoadDocuments ==
  /\ history[Len(history)] = {}
  /\ Len(history) < MaxCommits
  /\ \E rows \in SUBSET Docs \ {{}} : history' = Append(history, rows)
  /\ UNCHANGED <<clock, indices, alias, retired, job>>

-----------------------------------------------------------------------------
(* rebuild_index(), call by call *)

\* From create() to update_aliases(): the new index exists and is not live.
Building(b) == job[b].step \in {"bulk", "count", "getAlias", "swap"}

\* fetch_documents_from_postgres(): one statement, one committed state.
FetchDocuments(b) ==
  /\ At(b, "idle")
  /\ job' = [job EXCEPT ![b].step = "name", ![b].ver = Len(history)]
  /\ UNCHANGED <<clock, history, indices, alias, retired>>

\* Mutant of NameIndex: the index has no name yet when it is to be created.
NameIsForgotten(b) ==
  /\ At(b, "name")
  /\ job' = [job EXCEPT ![b].step = "create"]
  /\ UNCHANGED <<clock, history, indices, alias, retired>>

\* new_index is called after the present second; by the time it is created the
\* clock may show a later one.
NameIndex(b) ==
  /\ At(b, "name")
  /\ job' = [job EXCEPT ![b].step = "create", ![b].target = clock]
  /\ UNCHANGED <<clock, history, indices, alias, retired>>

\* Mutant of CreateIndex: "already exists" is ignored, the old index is reused.
CreateIgnoresExisting(b) ==
  /\ At(b, "create")
  /\ PutTarget(b, [exists |-> TRUE, ver |-> job[b].ver, docs |-> {}])
  /\ job' = [job EXCEPT ![b].step = "bulk", ![b].pending = history[job[b].ver]]
  /\ UNCHANGED <<clock, history, alias, retired>>

CreateIndex(b) ==
  /\ At(b, "create")
  /\ ~indices[job[b].target].exists
  /\ PutTarget(b, [exists |-> TRUE, ver |-> job[b].ver, docs |-> {}])
  /\ job' = [job EXCEPT ![b].step = "bulk", ![b].pending = history[job[b].ver]]
  /\ UNCHANGED <<clock, history, alias, retired>>

\* An index of this name exists: create() raises and nothing is left behind.
CreateCollides(b) ==
  /\ At(b, "create")
  /\ indices[job[b].target].exists
  /\ EndJob(b)
  /\ UNCHANGED <<clock, history, indices, alias, retired>>

\* One action of helpers.bulk. A row with the _id of an earlier one replaces it,
\* and OpenSearch creates the index anew should someone have deleted it.
IndexRow(b) ==
  /\ At(b, "bulk")
  /\ \E d \in job[b].pending :
       /\ job' = [job EXCEPT ![b].pending = @ \ {d}]
       /\ PutTarget(b, [exists |-> TRUE, ver |-> job[b].ver,
            docs |-> {e \in indices[job[b].target].docs : ChunkId[e] # ChunkId[d]}
                       \union {d}])
  /\ UNCHANGED <<clock, history, alias, retired>>

\* raise_on_error=False: a rejected row is only collected in `errors`.
RejectRow(b) ==
  /\ At(b, "bulk")
  /\ \E d \in job[b].pending :
       job' = [job EXCEPT ![b].pending = @ \ {d}, ![b].errors = TRUE]
  /\ UNCHANGED <<clock, history, indices, alias, retired>>

\* Bulk raises (an embedding failed, the answer of the last request was lost),
\* or it reported errors: the new index is deleted and RuntimeError raised. With
\* no row to send there is no request that could fail.
AbortBulk(b) ==
  /\ At(b, "bulk")
  /\ history[job[b].ver] # {}
  /\ DeleteIndex(job[b].target)
  /\ EndJob(b)
  /\ UNCHANGED <<clock, history>>

FinishBulk(b) ==
  /\ At(b, "bulk")
  /\ job[b].pending = {}
  /\ ~job[b].errors
  /\ Goto(b, "count")
  /\ UNCHANGED <<clock, history, indices, alias, retired>>

\* Mutant of CountsAgree: the count is not verified.
CountsNotCompared(b) == TRUE

CountsAgree(b) ==
  /\ indices[job[b].target].exists
  /\ Cardinality(indices[job[b].target].docs) = Cardinality(history[job[b].ver])

\* refresh, then count: a mismatch deletes the new index and raises, and so does
\* a 404 of refresh() when the index is gone.
CountMismatch(b) ==
  /\ At(b, "count")
  /\ ~CountsAgree(b)
  /\ DeleteIndex(job[b].target)
  /\ EndJob(b)
  /\ UNCHANGED <<clock, history>>

CountMatches(b) ==
  /\ At(b, "count")
  /\ CountsAgree(b)
  /\ Goto(b, "getAlias")
  /\ UNCHANGED <<clock, history, indices, alias, retired>>

\* Mutant of GetAlias: the alias is removed in a request of its own, before the add.
GetAndRemoveAlias(b) ==
  /\ At(b, "getAlias")
  /\ job' = [job EXCEPT ![b].step = "swap", ![b].old = alias]
  /\ alias' = {}
  /\ retired' = retired \union alias
  /\ UNCHANGED <<clock, history, indices>>

\* old_indices: whatever the alias points at when it is asked.
GetAlias(b) ==
  /\ At(b, "getAlias")
  /\ job' = [job EXCEPT ![b].step = "swap", ![b].old = alias]
  /\ UNCHANGED <<clock, history, indices, alias, retired>>

\* Mutant of Excess: the loop runs over all of old_indices.
ExcessIgnoresKeep(old) == Cardinality(old)

\* How many of the old indices the slice old_indices[: max(0, n - keep)] takes.
Excess(old) ==
  IF Cardinality(old) > KeepPrevious THEN Cardinality(old) - KeepPrevious ELSE 0

\* Every index update_aliases() names, the new one and the old ones, exists.
SwapIsSound(b) == \A i \in job[b].old \union {job[b].target} : indices[i].exists

\* Mutant of SwapAlias: the old indices keep the alias.
SwapOnlyAdds(b) ==
  /\ At(b, "swap")
  /\ SwapIsSound(b)
  /\ alias' = alias \union {job[b].target}
  /\ \E drop \in SUBSET job[b].old :
       /\ Cardinality(drop) = Excess(job[b].old)
       /\ job' = [job EXCEPT ![b].step = "retire", ![b].old = drop]
  /\ UNCHANGED <<clock, history, indices, retired>>

\* update_aliases: add the new index and remove every old one, in one request.
\* Removing an alias an index no longer has is a no-op beside the add; get_alias
\* promises no order, so the slice may be any subset of the right size.
SwapAlias(b) ==
  /\ At(b, "swap")
  /\ SwapIsSound(b)
  /\ alias' = (alias \ job[b].old) \union {job[b].target}
  /\ retired' = retired \union (alias \ alias')
  /\ \E drop \in SUBSET job[b].old :
       /\ Cardinality(drop) = Excess(job[b].old)
       /\ job' = [job EXCEPT ![b].step = "retire", ![b].old = drop]
  /\ UNCHANGED <<clock, history, indices>>

\* Another builder deleted one of them: the whole request fails with a 404.
SwapFails(b) ==
  /\ At(b, "swap")
  /\ ~SwapIsSound(b)
  /\ EndJob(b)
  /\ UNCHANGED <<clock, history, indices, alias, retired>>

\* One turn of the retention loop.
DeleteRetired(b) ==
  /\ At(b, "retire")
  /\ \E i \in job[b].old :
       /\ indices[i].exists
       /\ DeleteIndex(i)
       /\ job' = [job EXCEPT ![b].old = @ \ {i}]
  /\ UNCHANGED <<clock, history>>

\* Another builder has deleted it already: the call raises, the loop ends.
DeleteFails(b) ==
  /\ At(b, "retire")
  /\ \E i \in job[b].old : ~indices[i].exists
  /\ EndJob(b)
  /\ UNCHANGED <<clock, history, indices, alias, retired>>

ReturnSummary(b) ==
  /\ At(b, "retire")
  /\ job[b].old = {}
  /\ EndJob(b)
  /\ UNCHANGED <<clock, history, indices, alias, retired>>

\* The process dies, or a call outside the try raises: nothing is cleaned up.
Crash(b) ==
  /\ ~At(b, "idle")
  /\ EndJob(b)
  /\ UNCHANGED <<clock, history, indices, alias, retired>>

Tick ==
  /\ clock < MaxTime
  /\ clock' = clock + 1
  /\ UNCHANGED <<history, indices, alias, retired, job>>

-----------------------------------------------------------------------------
Build(b) ==
  \/ FetchDocuments(b) \/ NameIndex(b) \/ CreateIndex(b) \/ CreateCollides(b)
  \/ IndexRow(b) \/ RejectRow(b) \/ AbortBulk(b) \/ FinishBulk(b)
  \/ CountMismatch(b) \/ CountMatches(b)
  \/ GetAlias(b) \/ SwapAlias(b) \/ SwapFails(b)
  \/ DeleteRetired(b) \/ DeleteFails(b) \/ ReturnSummary(b) \/ Crash(b)

Next == ResetSchema \/ LoadDocuments \/ Tick \/ \E b \in Builders : Build(b)

Spec == Init /\ [][Next]_vars
-----------------------------------------------------------------------------
(* Correctness *)

IndexType == [exists : BOOLEAN, ver : Nat, docs : SUBSET Docs]

JobType ==
  [step : {"idle", "name", "create", "bulk", "count", "getAlias", "swap", "retire"},
   ver : Nat, target : 0..MaxTime, pending : SUBSET Docs, errors : BOOLEAN,
   old : SUBSET Names]

\* Types; in particular a version number always denotes a committed state, and
\* a builder that creates its index or fills it knows the index's name.
TypeOK ==
  /\ clock \in Names
  /\ history \in Seq(SUBSET Docs) /\ Len(history) >= 1
  /\ indices \in [Names -> IndexType]
  /\ alias \in SUBSET Names /\ retired \in SUBSET Names
  /\ job \in [Builders -> JobType]
  /\ \A i \in Names : indices[i].ver <= Len(history)
  /\ \A b \in Builders :
       /\ job[b].ver <= Len(history)
       /\ ~At(b, "idle") => job[b].ver >= 1
       /\ At(b, "create") \/ Building(b) => job[b].target \in Names

\* "queries against the alias never see a half-populated index": whatever the
\* alias points at exists and holds every row of the committed state it was
\* built from, and no other (indexer.py:18-20, 190-192).
LiveIsComplete ==
  \A i \in alias : indices[i].exists /\ indices[i].docs = history[indices[i].ver]

\* "readers never see the alias unresolved" (indexer.py:236-238): once there is
\* a live index there always is one, whatever fails and whoever else rebuilds.
AliasNeverDropped == [][alias # {} => alias' # {}]_vars

\* With one builder at a time the alias never spans two indices, which would
\* show every document twice.
SingleLive == Cardinality(alias) <= 1

\* However many builders run, the alias never spans more indices than there are
\* builders: each leaves one at most.
OneLivePerBuilder == Cardinality(alias) <= Cardinality(Builders)

\* The indices "we keep around for exactly that reason" (indexer.py:20-22): once
\* a swap has retired an index, there always is one left to roll back to.
RollbackStaysPossible == [][retired # {} => retired' # {}]_vars

\* An index goes live with the newest committed rows, unless it is the empty one
\* a rebuild makes when it reads between the two commits of `ingest.py --reset`
\* (build_index.py:16-19); the read lock keeps every other reload out.
PublishedIsCurrentOrEmpty ==
  [][\A i \in alias' \ alias :
       indices[i].ver = Len(history) \/ indices[i].docs = {}]_vars

\* The index a builder is filling is its own: no other builder fills it, although
\* both name theirs by the second (indexer.py:205-206), none deletes it as an old
\* one, and no reader sees it yet.
TargetsArePrivate ==
  \A b \in Builders : Building(b) =>
    /\ indices[job[b].target].exists
    /\ job[b].target \notin alias
    /\ \A c \in Builders \ {b} : /\ Building(c) => job[c].target # job[b].target
                                /\ job[b].target \notin job[c].old

\* "keep the most recent `keep_previous` old indices, delete the rest"
\* (indexer.py:248-249): a rebuild that returns has left no more old ones.
RetentionBound ==
  [][\A b \in Builders : ReturnSummary(b) => Cardinality(retired) <= KeepPrevious]_vars

\* The reader's view of the cluster: the index behind the alias and its rows.
LiveView ==
  IF alias = {} THEN [index |-> 0, ver |-> 0, rows |-> {}]
  ELSE LET i == CHOOSE j \in alias : TRUE
       IN  [index |-> i, ver |-> indices[i].ver, rows |-> indices[i].docs]

LI == INSTANCE LiveIndex WITH live <- LiveView

\* Rebuilds by one builder at a time implement the atomic, never receding
\* replacement of complete indices that LiveIndex promises the readers.
ImplementsLiveIndex == LI!Spec
=============================================================================
