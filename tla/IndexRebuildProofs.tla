------------------------- MODULE IndexRebuildProofs -------------------------
(***************************************************************************)
(* Theorems about IndexRebuild: type correctness for any number of         *)
(* builders; and, for two of them, or for more that keep enough retired    *)
(* indices, what the readers of the alias and the other builders are       *)
(* promised.                                                               *)
(***************************************************************************)
EXTENDS IndexRebuild, FiniteSetTheorems, TLAPS

-----------------------------------------------------------------------------
(* Types *)

\* The parts of TypeOK that speak of one builder.
JobOK(b) ==
  /\ job[b].ver <= Len(history)
  /\ ~At(b, "idle") => job[b].ver >= 1
  /\ At(b, "create") \/ Building(b) => job[b].target \in Names

\* The record of a builder that is not running, and the index that is not there.
LEMMA EmptyRecords == NoJob \in JobType /\ Absent \in IndexType
<1>1. MaxTime \in Nat /\ 0 \in 0..MaxTime
  BY RebuildAssumption
<1>2. QED
  BY <1>1 DEF NoJob, JobType, Absent, IndexType

\* Nothing committed yet, nothing indexed.
LEMMA InitTypeOK == Init => TypeOK
<1> SUFFICES ASSUME Init PROVE TypeOK
  OBVIOUS
<1>1. clock \in Names
  BY RebuildAssumption DEF Init, Names
<1>2. history \in Seq(SUBSET Docs) /\ Len(history) = 1
  BY DEF Init
<1>3. indices \in [Names -> IndexType] /\ job \in [Builders -> JobType]
  BY EmptyRecords DEF Init
<1>4. \A i \in Names : indices[i].ver <= Len(history)
  BY <1>2 DEF Init, Absent
<1>5. \A b \in Builders : job[b] = NoJob
  BY DEF Init
<1>6. \A b \in Builders : JobOK(b)
  BY <1>2, <1>5 DEF JobOK, At, Building, NoJob
<1>7. QED
  BY <1>1, <1>2, <1>3, <1>4, <1>6 DEF TypeOK, JobOK, Init

\* A committed state is added and the builders go on as they were.
LEMMA CommitTypeOK ==
  ASSUME TypeOK, NEW rows \in SUBSET Docs, history' = Append(history, rows),
         UNCHANGED <<clock, indices, alias, retired, job>>
  PROVE  /\ TypeOK'
         /\ Len(history') = Len(history) + 1
         /\ \A v \in 1..Len(history) : history'[v] = history[v]
<1>1. /\ history \in Seq(SUBSET Docs)
      /\ history' \in Seq(SUBSET Docs) /\ Len(history') = Len(history) + 1
      /\ \A v \in 1..Len(history) : history'[v] = history[v]
  BY DEF TypeOK
<1>2. \A i \in Names : indices[i].ver \in Nat
  BY DEF TypeOK, IndexType
<1>3. \A b \in Builders : job[b].ver \in Nat
  BY DEF TypeOK, JobType
<1>4. Len(history) \in Nat
  BY <1>1
<1>5. \A i \in Names : indices'[i].ver <= Len(history')
  BY <1>1, <1>2, <1>4 DEF TypeOK
<1>6. \A b \in Builders : job[b].ver <= Len(history')
  BY <1>1, <1>3, <1>4 DEF TypeOK
<1>7. QED
  BY <1>1, <1>5, <1>6 DEF TypeOK, At, Building

\* A step of a builder that leaves it a well-formed record, and the cluster well
\* formed, keeps the types.
LEMMA BuilderTypeOK ==
  ASSUME TypeOK, NEW b \in Builders, NEW r \in JobType, job' = [job EXCEPT ![b] = r],
         UNCHANGED <<clock, history>>,
         indices' \in [Names -> IndexType],
         \A i \in Names : indices'[i].ver <= Len(history),
         alias' \in SUBSET Names, retired' \in SUBSET Names,
         r.ver <= Len(history),
         r.step # "idle" => r.ver >= 1,
         r.step \in {"create", "bulk", "count", "getAlias", "swap"} => r.target \in Names
  PROVE  TypeOK'
<1>1. job \in [Builders -> JobType] /\ job' \in [Builders -> JobType]
  BY DEF TypeOK
<1>2. job'[b] = r /\ \A c \in Builders \ {b} : job'[c] = job[c]
  BY <1>1
<1>3. \A c \in Builders : JobOK(c)'
  BY <1>2 DEF TypeOK, JobOK, At, Building
<1>4. QED
  BY <1>1, <1>3 DEF TypeOK, JobOK

\* So does the end of a builder, whose record is then the empty one.
LEMMA EndJobTypeOK ==
  ASSUME TypeOK, NEW b \in Builders, job' = [job EXCEPT ![b] = NoJob],
         UNCHANGED <<clock, history>>,
         indices' \in [Names -> IndexType],
         \A i \in Names : indices'[i].ver <= Len(history),
         alias' \in SUBSET Names, retired' \in SUBSET Names
  PROVE  TypeOK'
<1>1. PICK r \in JobType : r = NoJob
  BY EmptyRecords
<1>2. r.step = "idle" /\ r.ver = 0
  BY <1>1 DEF NoJob
<1>3. r.ver <= Len(history)
  BY <1>2 DEF TypeOK
<1>4. job' = [job EXCEPT ![b] = r]
  BY <1>1
<1>5. r.step \notin {"create", "bulk", "count", "getAlias", "swap"}
  BY <1>2
<1>6. QED
  BY <1>2, <1>3, <1>4, <1>5, BuilderTypeOK

\* Every call of rebuild_index() keeps the types.
LEMMA BuildTypeOK == ASSUME TypeOK, NEW b \in Builders, Build(b) PROVE TypeOK'
<1> DEFINE j == job[b]
<1>1. /\ job \in [Builders -> JobType] /\ indices \in [Names -> IndexType] /\ clock \in Names
      /\ history \in Seq(SUBSET Docs) /\ Len(history) \in Nat /\ Len(history) >= 1
      /\ alias \in SUBSET Names /\ retired \in SUBSET Names
      /\ \A i \in Names : indices[i].ver <= Len(history)
  BY DEF TypeOK
<1>2. j \in JobType /\ NoJob \in JobType /\ Absent \in IndexType
  BY <1>1, EmptyRecords
<1>3. JobOK(b)
  BY DEF TypeOK, JobOK
<1>4. CASE FetchDocuments(b)
  <2> DEFINE r == [j EXCEPT !.step = "name", !.ver = Len(history)]
  <2>1. r \in JobType /\ r.step = "name" /\ r.ver = Len(history)
    BY <1>1, <1>2 DEF JobType
  <2>2. job' = [job EXCEPT ![b] = r] /\ UNCHANGED <<clock, history, indices, alias, retired>>
    BY <1>4, <1>1 DEF FetchDocuments
  <2>3. /\ r.step \notin {"create", "bulk", "count", "getAlias", "swap"}
        /\ r.ver >= 1 /\ r.ver <= Len(history)
    BY <1>1, <2>1
  <2>4. /\ indices' \in [Names -> IndexType]
        /\ \A i \in Names : indices'[i].ver <= Len(history)
        /\ alias' \in SUBSET Names /\ retired' \in SUBSET Names
    BY <1>1, <2>2
  <2> HIDE DEF r
  <2>5. QED
    BY <2>1, <2>2, <2>3, <2>4, BuilderTypeOK
<1>5. CASE CreateIndex(b)
  <2> DEFINE r == [j EXCEPT !.step = "bulk", !.pending = history[j.ver]]
             body == [exists |-> TRUE, ver |-> j.ver, docs |-> {}]
  <2>1. j.ver \in Nat /\ j.ver >= 1 /\ j.ver <= Len(history) /\ j.target \in Names
    BY <1>2, <1>3, <1>5 DEF JobOK, CreateIndex, At, JobType
  <2>2. history[j.ver] \in SUBSET Docs
    BY <1>1, <2>1
  <2>3. r \in JobType /\ r.step = "bulk" /\ r.target = j.target /\ r.ver = j.ver
    BY <1>2, <2>2 DEF JobType
  <2>4. body \in IndexType /\ body.ver = j.ver
    BY <2>1 DEF IndexType
  <2>5. job' = [job EXCEPT ![b] = r] /\ indices' = [indices EXCEPT ![j.target] = body]
        /\ UNCHANGED <<clock, history, alias, retired>>
    BY <1>1, <1>5 DEF CreateIndex, PutTarget
  <2> HIDE DEF r, body
  <2>6. QED
    BY <1>1, <2>1, <2>3, <2>4, <2>5, BuilderTypeOK
<1>6. CASE IndexRow(b)
  <2>1. PICK d \in j.pending :
          /\ job' = [job EXCEPT ![b].pending = @ \ {d}]
          /\ PutTarget(b, [exists |-> TRUE, ver |-> j.ver,
               docs |-> {e \in indices[j.target].docs : ChunkId[e] # ChunkId[d]} \union {d}])
    BY <1>6 DEF IndexRow
  <2> DEFINE r == [j EXCEPT !.pending = @ \ {d}]
             body == [exists |-> TRUE, ver |-> j.ver,
               docs |-> {e \in indices[j.target].docs : ChunkId[e] # ChunkId[d]} \union {d}]
  <2>2. j.target \in Names /\ d \in Docs /\ At(b, "bulk")
    BY <1>2, <1>3, <1>6 DEF IndexRow, JobOK, Building, At, JobType
  <2>3. r \in JobType /\ r.step = j.step /\ r.ver = j.ver /\ r.target = j.target
    BY <1>2 DEF JobType
  <2>4. indices[j.target].docs \subseteq Docs /\ j.ver \in Nat
    BY <1>1, <1>2, <2>2 DEF IndexType, JobType
  <2>5. body \in IndexType /\ body.ver = j.ver
    BY <2>2, <2>4 DEF IndexType
  <2>6. job' = [job EXCEPT ![b] = r] /\ indices' = [indices EXCEPT ![j.target] = body]
        /\ UNCHANGED <<clock, history, alias, retired>>
    BY <1>1, <1>6, <2>1 DEF IndexRow, PutTarget
  <2> HIDE DEF r, body
  <2>7. QED
    BY <1>1, <1>3, <2>2, <2>3, <2>5, <2>6, BuilderTypeOK DEF JobOK, At, Building
<1>7. CASE RejectRow(b)
  <2>1. PICK d \in j.pending : job' = [job EXCEPT ![b].pending = @ \ {d}, ![b].errors = TRUE]
    BY <1>7 DEF RejectRow
  <2> DEFINE r == [j EXCEPT !.pending = @ \ {d}, !.errors = TRUE]
  <2>2. r \in JobType /\ r.step = j.step /\ r.ver = j.ver /\ r.target = j.target
    BY <1>2 DEF JobType
  <2>3. job' = [job EXCEPT ![b] = r]
    BY <1>1, <2>1
  <2> HIDE DEF r
  <2>4. QED
    BY <1>1, <1>3, <1>7, <2>2, <2>3, BuilderTypeOK DEF RejectRow, JobOK, At, Building
<1>8. CASE AbortBulk(b) \/ CountMismatch(b)
  <2>1. j.target \in Names
    BY <1>3, <1>8 DEF AbortBulk, CountMismatch, JobOK, Building, At
  <2>2. /\ job' = [job EXCEPT ![b] = NoJob] /\ UNCHANGED <<clock, history>>
        /\ indices' = [indices EXCEPT ![j.target] = Absent]
        /\ alias' = alias \ {j.target} /\ retired' = retired \ {j.target}
    BY <1>8 DEF AbortBulk, CountMismatch, DeleteIndex, EndJob
  <2>3. /\ indices' \in [Names -> IndexType]
        /\ \A i \in Names : indices'[i].ver <= Len(history)
        /\ alias' \in SUBSET Names /\ retired' \in SUBSET Names
    <3>1. Absent.ver = 0
      BY DEF Absent
    <3>2. QED
      BY <1>1, <1>2, <2>1, <2>2, <3>1
  <2>4. QED
    BY <2>2, <2>3, EndJobTypeOK
<1>9. CASE FinishBulk(b) \/ CountMatches(b)
  <2>1. PICK s \in {"count", "getAlias"} : Goto(b, s)
    BY <1>9 DEF FinishBulk, CountMatches
  <2> DEFINE r == [j EXCEPT !.step = s]
  <2>2. r \in JobType /\ r.step = s /\ r.ver = j.ver /\ r.target = j.target
    BY <1>2 DEF JobType
  <2>3. job' = [job EXCEPT ![b] = r]
    BY <1>1, <2>1 DEF Goto
  <2>4. UNCHANGED <<clock, history, indices, alias, retired>> /\ j.step \in {"bulk", "count"}
    BY <1>9 DEF FinishBulk, CountMatches, At
  <2> HIDE DEF r
  <2>5. QED
    BY <1>1, <1>3, <2>2, <2>3, <2>4, BuilderTypeOK DEF JobOK, At, Building
<1>10. CASE GetAlias(b)
  <2> DEFINE r == [j EXCEPT !.step = "swap", !.old = alias]
  <2>1. r \in JobType /\ r.step = "swap" /\ r.ver = j.ver /\ r.target = j.target
    BY <1>1, <1>2 DEF JobType
  <2>2. job' = [job EXCEPT ![b] = r]
    BY <1>1, <1>10 DEF GetAlias
  <2> HIDE DEF r
  <2>3. QED
    BY <1>1, <1>3, <1>10, <2>1, <2>2, BuilderTypeOK DEF GetAlias, JobOK, At, Building
<1>11. CASE SwapAlias(b)
  <2>1. PICK drop \in SUBSET j.old :
          job' = [job EXCEPT ![b].step = "retire", ![b].old = drop]
    BY <1>11 DEF SwapAlias
  <2> DEFINE r == [j EXCEPT !.step = "retire", !.old = drop]
  <2>2. r \in JobType /\ r.step = "retire" /\ r.ver = j.ver
    BY <1>2 DEF JobType
  <2>3. job' = [job EXCEPT ![b] = r]
    BY <1>1, <2>1
  <2>4. j.target \in Names /\ j.ver >= 1
    BY <1>3, <1>11 DEF SwapAlias, JobOK, At, Building
  <2>5. alias' \in SUBSET Names /\ retired' \in SUBSET Names
    BY <1>1, <1>11, <2>4 DEF SwapAlias
  <2> HIDE DEF r
  <2>6. QED
    BY <1>1, <1>3, <1>11, <2>2, <2>3, <2>4, <2>5, BuilderTypeOK DEF SwapAlias, JobOK
<1>12. CASE DeleteRetired(b)
  <2>1. PICK i \in j.old :
          /\ indices' = [indices EXCEPT ![i] = Absent]
          /\ alias' = alias \ {i} /\ retired' = retired \ {i}
          /\ job' = [job EXCEPT ![b].old = @ \ {i}]
    BY <1>12 DEF DeleteRetired, DeleteIndex
  <2> DEFINE r == [j EXCEPT !.old = @ \ {i}]
  <2>2. r \in JobType /\ r.step = j.step /\ r.ver = j.ver
    BY <1>2 DEF JobType
  <2>3. job' = [job EXCEPT ![b] = r]
    BY <1>1, <2>1
  <2>4. j.step = "retire" /\ UNCHANGED <<clock, history>>
    BY <1>12 DEF DeleteRetired, At
  <2>5. /\ indices' \in [Names -> IndexType]
        /\ \A n \in Names : indices'[n].ver <= Len(history)
        /\ alias' \in SUBSET Names /\ retired' \in SUBSET Names
    <3>1. Absent.ver = 0 /\ i \in Names
      BY <1>2 DEF Absent, JobType
    <3>2. QED
      BY <1>1, <1>2, <2>1, <3>1
  <2>6. j.ver >= 1 /\ j.ver <= Len(history)
    BY <1>3, <2>4 DEF JobOK, At
  <2> HIDE DEF r
  <2>7. QED
    BY <2>2, <2>3, <2>4, <2>5, <2>6, BuilderTypeOK
<1>13. CASE CreateCollides(b) \/ SwapFails(b) \/ DeleteFails(b) \/ ReturnSummary(b) \/ Crash(b)
  <2>1. /\ job' = [job EXCEPT ![b] = NoJob]
        /\ UNCHANGED <<clock, history, indices, alias, retired>>
    BY <1>13 DEF CreateCollides, SwapFails, DeleteFails, ReturnSummary, Crash, EndJob
  <2>2. /\ indices' \in [Names -> IndexType]
        /\ \A i \in Names : indices'[i].ver <= Len(history)
        /\ alias' \in SUBSET Names /\ retired' \in SUBSET Names
    BY <1>1, <2>1
  <2>3. QED
    BY <2>1, <2>2, EndJobTypeOK
<1>14. CASE NameIndex(b)
  <2> DEFINE r == [j EXCEPT !.step = "create", !.target = clock]
  <2>1. clock \in 0..MaxTime
    BY <1>1, RebuildAssumption DEF Names
  <2>2. r \in JobType /\ r.step = "create" /\ r.target = clock /\ r.ver = j.ver
    BY <1>2, <2>1 DEF JobType
  <2>3. job' = [job EXCEPT ![b] = r] /\ UNCHANGED <<clock, history, indices, alias, retired>>
    BY <1>1, <1>14 DEF NameIndex
  <2>4. j.ver >= 1 /\ j.ver <= Len(history)
    BY <1>3, <1>14 DEF JobOK, NameIndex, At
  <2> HIDE DEF r
  <2>5. QED
    BY <1>1, <2>2, <2>3, <2>4, BuilderTypeOK
<1>15. QED
  BY <1>4, <1>5, <1>6, <1>7, <1>8, <1>9, <1>10, <1>11, <1>12, <1>13, <1>14 DEF Build

\* Every step keeps the types.
LEMMA NextTypeOK == TypeOK /\ [Next]_vars => TypeOK'
<1> SUFFICES ASSUME TypeOK, [Next]_vars PROVE TypeOK'
  OBVIOUS
<1>1. CASE ResetSchema \/ LoadDocuments
  <2>1. PICK rows \in SUBSET Docs :
          history' = Append(history, rows) /\ UNCHANGED <<clock, indices, alias, retired, job>>
    BY <1>1 DEF ResetSchema, LoadDocuments
  <2>2. QED
    BY <2>1, CommitTypeOK
<1>2. CASE Tick
  <2>1. clock' \in Names
    BY <1>2, RebuildAssumption DEF Tick, TypeOK, Names
  <2>2. QED
    BY <1>2, <2>1 DEF Tick, TypeOK, At, Building
<1>3. CASE \E b \in Builders : Build(b)
  BY <1>3, BuildTypeOK
<1>4. CASE UNCHANGED vars
  BY <1>4 DEF vars, TypeOK, At, Building
<1>5. QED
  BY <1>1, <1>2, <1>3, <1>4 DEF Next

\* Any number of builders, whatever fails, whenever the tables are reloaded: no
\* version number denotes a state that was never committed, and every builder that
\* creates its index, or has, knows it by a name of the clock (rebuild_index()).
THEOREM RebuildTypeCorrect == Spec => []TypeOK
<1>1. QED
  BY InitTypeOK, NextTypeOK, PTL DEF Spec

-----------------------------------------------------------------------------
(* What builders may rely on, whoever else is rebuilding *)

\* What a builder knows of the index it fills: it holds some of the rows read,
\* once counted it holds them all, no reader sees it, and no builder has it on its
\* list of old indices.
TargetInv(b) ==
  LET target == indices[job[b].target]
      rows == history[job[b].ver]
  IN /\ target.exists /\ target.ver = job[b].ver
     /\ target.docs \subseteq rows
     /\ job[b].step \in {"getAlias", "swap"} => target.docs = rows
     /\ job[b].target \notin alias
     /\ \A c \in Builders : job[b].target \notin job[c].old

\* A list of old indices names no index still to come: what is on it and deleted is
\* not called after this second, and nobody is about to create it.
OldInv(b) ==
  \A i \in job[b].old :
    /\ i <= clock
    /\ ~indices[i].exists =>
         i # clock /\ \A c \in Builders : At(c, "create") => job[c].target # i

BuilderInv(b) ==
  /\ At(b, "create") => job[b].target <= clock
  /\ Building(b) => TargetInv(b)
  /\ At(b, "bulk") => job[b].pending \subseteq history[job[b].ver]
  /\ job[b].step \notin {"swap", "retire"} => job[b].old = {}
  /\ At(b, "retire") => job[b].old \cap alias = {}
  /\ OldInv(b)

\* Two builders fill two indices.
PrivateInv ==
  \A b \in Builders, c \in Builders :
    b # c /\ Building(b) /\ Building(c) => job[b].target # job[c].target

AliasInv ==
  /\ LiveIsComplete
  /\ \A i \in alias : indices[i].ver >= 1
  /\ \A i \in Names : indices[i].exists => i <= clock

RebuildInv ==
  TypeOK /\ AliasInv /\ PrivateInv /\ \A b \in Builders : BuilderInv(b)

\* No builder deletes an index that another one has on its list too, if it is called
\* after this second, or if a third builder has taken the name and not created the
\* index yet: the new one would be deleted as the old one. With three builders and a
\* small --keep-previous this fails, and the invariant with it; see below for when
\* it holds.
NoStaleDeletion ==
  \A b \in Builders, c \in Builders :
    b # c /\ At(b, "retire") =>
      \A i \in job[b].old \cap job[c].old :
        i # clock /\ \A d \in Builders : At(d, "create") => job[d].target # i

\* No index, no alias, no builder running.
LEMMA InitRebuildInv == Init => RebuildInv
<1> SUFFICES ASSUME Init PROVE RebuildInv
  OBVIOUS
<1>1. alias = {} /\ \A i \in Names : ~indices[i].exists
  BY DEF Init, Absent
<1>2. AliasInv
  BY <1>1 DEF AliasInv, LiveIsComplete
<1>3. \A b \in Builders : job[b].step = "idle" /\ job[b].old = {}
  BY DEF Init, NoJob
<1>4. PrivateInv /\ \A b \in Builders : BuilderInv(b)
  BY <1>3 DEF PrivateInv, BuilderInv, OldInv, At, Building
<1>5. QED
  BY <1>2, <1>4, InitTypeOK DEF RebuildInv

\* What TypeOK says of a builder that runs.
LEMMA TypedBuilder ==
  ASSUME TypeOK, NEW b \in Builders
  PROVE  /\ job[b] \in JobType /\ job \in [Builders -> JobType]
         /\ indices \in [Names -> IndexType] /\ clock \in Names /\ Names \subseteq Nat
         /\ alias \in SUBSET Names /\ job[b].old \in SUBSET Names
         /\ ~At(b, "idle") => job[b].ver \in 1..Len(history)
         /\ At(b, "create") \/ Building(b) => job[b].target \in Names
<1>1. Len(history) \in Nat /\ job[b] \in JobType
  BY DEF TypeOK
<1>2. job[b].ver \in Nat /\ job[b].old \in SUBSET Names
  BY <1>1 DEF JobType
<1>3. ~At(b, "idle") => job[b].ver \in 1..Len(history)
  BY <1>1, <1>2 DEF TypeOK
<1>4. Names \subseteq Nat
  BY DEF Names
<1>5. QED
  BY <1>1, <1>2, <1>3, <1>4 DEF TypeOK

\* What a step of a builder does to its record.
LEMMA OwnRecord ==
  ASSUME TypeOK, NEW b \in Builders, Build(b)
  PROVE  \/ job'[b].step = "idle" /\ job'[b].old = {}
         \/ /\ FetchDocuments(b) /\ job'[b].step = "name"
            /\ job'[b].ver = Len(history) /\ job'[b].old = job[b].old
         \/ /\ NameIndex(b) /\ job'[b].step = "create" /\ job'[b].target = clock
            /\ job'[b].ver = job[b].ver /\ job'[b].old = job[b].old
         \/ /\ CreateIndex(b) /\ job'[b].step = "bulk" /\ job'[b].target = job[b].target
            /\ job'[b].ver = job[b].ver /\ job'[b].pending = history[job[b].ver]
            /\ job'[b].old = job[b].old
         \/ /\ IndexRow(b) \/ RejectRow(b)
            /\ job'[b].step = "bulk" /\ job'[b].target = job[b].target
            /\ job'[b].ver = job[b].ver /\ job'[b].pending \subseteq job[b].pending
            /\ job'[b].old = job[b].old
         \/ /\ \/ FinishBulk(b) /\ job'[b].step = "count"
               \/ CountMatches(b) /\ job'[b].step = "getAlias"
            /\ job'[b].target = job[b].target
            /\ job'[b].ver = job[b].ver /\ job'[b].old = job[b].old
         \/ /\ GetAlias(b) /\ job'[b].step = "swap" /\ job'[b].target = job[b].target
            /\ job'[b].ver = job[b].ver /\ job'[b].old = alias
         \/ /\ SwapAlias(b) \/ DeleteRetired(b)
            /\ job'[b].step = "retire" /\ job'[b].target = job[b].target
            /\ job'[b].ver = job[b].ver /\ job'[b].old \subseteq job[b].old
<1>1. job \in [Builders -> JobType] /\ job[b] \in JobType
  BY DEF TypeOK
<1>2. CASE FetchDocuments(b)
  BY <1>1, <1>2 DEF FetchDocuments, JobType
<1>3. CASE EndJob(b)
  BY <1>1, <1>3 DEF EndJob, NoJob
<1>4. CASE CreateIndex(b)
  BY <1>1, <1>4 DEF CreateIndex, JobType
<1>5. CASE IndexRow(b)
  <2>1. PICK d \in job[b].pending : job' = [job EXCEPT ![b].pending = @ \ {d}]
    BY <1>5 DEF IndexRow
  <2>2. job[b].step = "bulk"
    BY <1>5 DEF IndexRow, At
  <2>3. QED
    BY <1>1, <1>5, <2>1, <2>2 DEF JobType
<1>6. CASE RejectRow(b)
  <2>1. PICK d \in job[b].pending :
          job' = [job EXCEPT ![b].pending = @ \ {d}, ![b].errors = TRUE]
    BY <1>6 DEF RejectRow
  <2>2. job[b].step = "bulk"
    BY <1>6 DEF RejectRow, At
  <2>3. QED
    BY <1>1, <1>6, <2>1, <2>2 DEF JobType
<1>7. CASE FinishBulk(b)
  BY <1>1, <1>7 DEF FinishBulk, Goto, JobType
<1>8. CASE CountMatches(b)
  BY <1>1, <1>8 DEF CountMatches, Goto, JobType
<1>9. CASE GetAlias(b)
  BY <1>1, <1>9 DEF GetAlias, JobType
<1>10. CASE SwapAlias(b)
  <2>1. PICK drop \in SUBSET job[b].old :
          job' = [job EXCEPT ![b].step = "retire", ![b].old = drop]
    BY <1>10 DEF SwapAlias
  <2>2. QED
    BY <1>1, <1>10, <2>1 DEF JobType
<1>11. CASE DeleteRetired(b)
  <2>1. PICK i \in job[b].old : job' = [job EXCEPT ![b].old = @ \ {i}]
    BY <1>11 DEF DeleteRetired
  <2>2. job[b].step = "retire"
    BY <1>11 DEF DeleteRetired, At
  <2>3. QED
    BY <1>1, <1>11, <2>1, <2>2 DEF JobType
<1>12. CASE NameIndex(b)
  BY <1>1, <1>12 DEF NameIndex, JobType
<1>13. QED
  BY <1>2, <1>3, <1>4, <1>5, <1>6, <1>7, <1>8, <1>9, <1>10, <1>11, <1>12
  DEF Build, CreateCollides, AbortBulk, CountMismatch, SwapFails, DeleteFails,
      ReturnSummary, Crash

\* It leaves the others' records, the clock and the tables alone.
LEMMA OtherRecords ==
  ASSUME TypeOK, NEW b \in Builders, Build(b)
  PROVE  UNCHANGED <<clock, history>> /\ \A c \in Builders \ {b} : job'[c] = job[c]
<1>1. job \in [Builders -> JobType]
  BY DEF TypeOK
<1>2. QED
  BY <1>1
  DEF Build, FetchDocuments, NameIndex, CreateIndex, CreateCollides, IndexRow, RejectRow,
      AbortBulk, FinishBulk, CountMismatch, CountMatches, GetAlias, SwapAlias, SwapFails,
      DeleteRetired, DeleteFails, ReturnSummary, Crash, EndJob, Goto

\* What RebuildInv says of the builders, ready to use.
LEMMA InvFacts ==
  ASSUME RebuildInv
  PROVE  /\ TypeOK /\ clock \in Names /\ Names \subseteq Nat /\ alias \in SUBSET Names
         /\ indices \in [Names -> IndexType]
         /\ \A i \in alias : indices[i].exists /\ i <= clock
         /\ \A c \in Builders : At(c, "create") =>
              job[c].target \in Names /\ job[c].target <= clock
         /\ \A c \in Builders : Building(c) =>
              /\ job[c].target \in Names /\ indices[job[c].target].exists
              /\ job[c].target <= clock /\ job[c].target \notin alias
              /\ \A d \in Builders : job[c].target \notin job[d].old
<1>1. TypeOK /\ AliasInv /\ \A c \in Builders : BuilderInv(c)
  BY DEF RebuildInv
<1>2. /\ clock \in Names /\ Names \subseteq Nat /\ alias \in SUBSET Names
      /\ indices \in [Names -> IndexType]
  BY <1>1 DEF TypeOK, Names
<1>3. \A i \in alias : indices[i].exists /\ i <= clock
  BY <1>1, <1>2 DEF AliasInv, LiveIsComplete
<1>4. ASSUME NEW c \in Builders, Building(c)
      PROVE  /\ job[c].target \in Names /\ indices[job[c].target].exists
             /\ job[c].target <= clock /\ job[c].target \notin alias
             /\ \A d \in Builders : job[c].target \notin job[d].old
  <2>1. TargetInv(c) /\ job[c].target \in Names
    BY <1>1, <1>4, TypedBuilder DEF BuilderInv
  <2>2. QED
    BY <1>1, <2>1 DEF TargetInv, AliasInv
<1>5. ASSUME NEW c \in Builders, At(c, "create")
      PROVE  job[c].target \in Names /\ job[c].target <= clock
  BY <1>1, <1>5, TypedBuilder DEF BuilderInv
<1>6. QED
  BY <1>1, <1>2, <1>3, <1>4, <1>5

\* What it does to the cluster: it changes at most one index, the one it creates or
\* fills, or one on its list; the alias only by the swap, or together with the index
\* it deletes.
LEMMA BuilderFrame ==
  ASSUME RebuildInv, NEW b \in Builders, Build(b)
  PROVE  \/ UNCHANGED <<indices, alias>>
         \/ /\ CreateIndex(b) /\ At(b, "create") /\ alias' = alias
            /\ ~indices[job[b].target].exists /\ indices'[job[b].target].exists
            /\ \A i \in Names \ {job[b].target} : indices'[i] = indices[i]
         \/ /\ IndexRow(b) \/ AbortBulk(b) \/ CountMismatch(b)
            /\ Building(b) /\ alias' = alias
            /\ \A i \in Names \ {job[b].target} : indices'[i] = indices[i]
         \/ /\ SwapAlias(b) /\ Building(b) /\ At(b, "swap") /\ UNCHANGED indices
            /\ alias' = (alias \ job[b].old) \union {job[b].target}
         \/ /\ DeleteRetired(b) /\ At(b, "retire")
            /\ \E k \in job[b].old :
                 /\ indices'[k] = Absent /\ alias' = alias \ {k}
                 /\ job'[b].old = job[b].old \ {k}
                 /\ \A i \in Names \ {k} : indices'[i] = indices[i]
<1>1. /\ indices \in [Names -> IndexType] /\ clock \in Names /\ job \in [Builders -> JobType]
      /\ At(b, "create") \/ Building(b) => job[b].target \in Names
      /\ job[b].old \in SUBSET Names
      /\ Building(b) => job[b].target \notin alias
  BY TypedBuilder, InvFacts
<1>2. CASE CreateIndex(b)
  BY <1>1, <1>2 DEF CreateIndex, PutTarget, At
<1>3. CASE IndexRow(b) \/ AbortBulk(b) \/ CountMismatch(b)
  <2>1. Building(b)
    BY <1>3 DEF IndexRow, AbortBulk, CountMismatch, Building, At
  <2>2. UNCHANGED alias
    BY <1>1, <1>3, <2>1 DEF IndexRow, AbortBulk, CountMismatch, DeleteIndex
  <2>3. PICK body : PutTarget(b, body)
    BY <1>3 DEF IndexRow, AbortBulk, CountMismatch, DeleteIndex, PutTarget
  <2>4. QED
    BY <1>1, <1>3, <2>1, <2>2, <2>3 DEF PutTarget
<1>4. CASE SwapAlias(b)
  BY <1>4 DEF SwapAlias, Building, At
<1>5. CASE DeleteRetired(b)
  <2>1. PICK k \in job[b].old : /\ indices' = [indices EXCEPT ![k] = Absent]
                                /\ alias' = alias \ {k}
                                /\ job' = [job EXCEPT ![b].old = @ \ {k}]
    BY <1>5 DEF DeleteRetired, DeleteIndex
  <2>2. job[b] \in JobType
    BY <1>1
  <2>3. k \in Names /\ job'[b].old = job[b].old \ {k}
    BY <1>1, <2>1, <2>2 DEF JobType
  <2>4. QED
    BY <1>1, <1>5, <2>1, <2>3 DEF DeleteRetired
<1>6. CASE UNCHANGED <<indices, alias>>
  BY <1>6
<1>7. QED
  BY <1>2, <1>3, <1>4, <1>5, <1>6
  DEF Build, FetchDocuments, NameIndex, CreateCollides, RejectRow, FinishBulk, CountMatches,
      GetAlias, SwapFails, DeleteFails, ReturnSummary, Crash

\* A step of a builder leaves what is behind the alias alone, and nothing joins the
\* alias but the target of a swap.
LEMMA LiveUntouched ==
  ASSUME RebuildInv, NEW b \in Builders, Build(b)
  PROVE  /\ \A i \in alias : indices'[i] = indices[i]
         /\ ~SwapAlias(b) => alias' = alias
         /\ \A i \in Names : indices'[i].exists => i <= clock
         /\ \A i \in alias' : i \in alias \/ (Building(b) /\ i = job[b].target)
<1>1. /\ TypeOK /\ clock \in Names /\ Names \subseteq Nat /\ alias \in SUBSET Names
      /\ \A i \in alias : indices[i].exists
      /\ At(b, "create") => job[b].target \in Names /\ job[b].target <= clock
      /\ Building(b) => /\ job[b].target \in Names /\ job[b].target <= clock
                        /\ job[b].target \notin alias
  BY InvFacts
<1>2. \A i \in Names : indices[i].exists => i <= clock
  BY DEF RebuildInv, AliasInv
<1>3. CASE UNCHANGED <<indices, alias>>
  BY <1>2, <1>3
<1>4. CASE /\ CreateIndex(b) /\ At(b, "create") /\ alias' = alias
           /\ ~indices[job[b].target].exists
           /\ \A i \in Names \ {job[b].target} : indices'[i] = indices[i]
  BY <1>1, <1>2, <1>4
<1>5. CASE /\ Building(b) /\ alias' = alias
           /\ \A i \in Names \ {job[b].target} : indices'[i] = indices[i]
  BY <1>1, <1>2, <1>5
<1>6. CASE /\ SwapAlias(b) /\ Building(b) /\ UNCHANGED indices
           /\ alias' = (alias \ job[b].old) \union {job[b].target}
  BY <1>1, <1>2, <1>6
<1>7. CASE /\ DeleteRetired(b) /\ At(b, "retire")
           /\ \E k \in job[b].old :
                /\ indices'[k] = Absent /\ alias' = alias \ {k}
                /\ job'[b].old = job[b].old \ {k}
                /\ \A i \in Names \ {k} : indices'[i] = indices[i]
  <2>1. job[b].old \cap alias = {}
    BY <1>7 DEF RebuildInv, BuilderInv
  <2>2. ~Absent.exists
    BY DEF Absent
  <2>3. QED
    BY <1>1, <1>2, <1>7, <2>1, <2>2
<1>8. QED
  BY <1>1, <1>3, <1>4, <1>5, <1>6, <1>7, BuilderFrame

\* It leaves the index another builder fills alone, and no list takes that one in.
LEMMA OtherTargets ==
  ASSUME RebuildInv, NEW b \in Builders, NEW c \in Builders, c # b, Build(b), Building(c)
  PROVE  /\ indices'[job[c].target] = indices[job[c].target]
         /\ job[c].target \notin alias'
         /\ \A d \in Builders : job[c].target \notin job'[d].old
         /\ Building(b)' => job'[b].target # job[c].target
<1> DEFINE t == job[c].target
<1>1. /\ TypeOK /\ t \in Names /\ indices[t].exists /\ t \notin alias
      /\ \A d \in Builders : t \notin job[d].old
  BY InvFacts
<1>2. Building(b) => job[b].target # t
  BY DEF RebuildInv, PrivateInv
<1>3. indices'[t] = indices[t]
  BY <1>1, <1>2, BuilderFrame
<1>4. t \notin alias'
  BY <1>1, <1>2, LiveUntouched
<1>5. \A d \in Builders : t \notin job'[d].old
  <2>1. \A d \in Builders \ {b} : t \notin job'[d].old
    BY <1>1, OtherRecords
  <2>2. t \notin job'[b].old
    BY <1>1, OwnRecord
  <2>3. QED
    BY <2>1, <2>2
<1>6. ASSUME Building(b)' PROVE job'[b].target # t
  <2>1. CASE CreateIndex(b)
    <3>1. ~indices[job[b].target].exists
      BY <2>1 DEF CreateIndex
    <3>2. job'[b].target = job[b].target
      BY <1>1, <2>1, TypedBuilder DEF CreateIndex, JobType
    <3>3. QED
      BY <1>1, <3>1, <3>2
  <2>2. CASE ~CreateIndex(b)
    <3>1. Building(b) /\ job'[b].target = job[b].target
      BY <1>1, <1>6, <2>2, OwnRecord
      DEF IndexRow, RejectRow, FinishBulk, CountMatches, GetAlias, At, Building
    <3>2. QED
      BY <1>2, <3>1
  <2>3. QED
    BY <2>1, <2>2
<1>7. QED
  BY <1>3, <1>4, <1>5, <1>6

\* Nobody is about to create an index but those that were before, and a builder that
\* has just named its own after this second.
LEMMA AboutToCreate ==
  ASSUME TypeOK, NEW b \in Builders, NEW d \in Builders, Build(b), At(d, "create")'
  PROVE  \/ At(d, "create") /\ job'[d].target = job[d].target
         \/ NameIndex(b) /\ d = b /\ job'[d].target = clock
<1>1. CASE d # b
  BY <1>1, OtherRecords DEF At
<1>2. CASE d = b
  BY <1>2, OwnRecord DEF At
<1>3. QED
  BY <1>1, <1>2

\* The lists of old indices stay harmless, if the deletion of an old index is.
LEMMA OldStepInv ==
  ASSUME RebuildInv, NoStaleDeletion, NEW b \in Builders, NEW c \in Builders, Build(b)
  PROVE  OldInv(c)'
<1>1. /\ TypeOK /\ clock \in Names /\ UNCHANGED clock /\ OldInv(c)
      /\ job[c].old \in SUBSET Names
      /\ \A d \in Builders \ {b} : job'[d] = job[d]
      /\ \A i \in alias : indices[i].exists /\ i <= clock
      /\ Building(b) => \A d \in Builders : job[b].target \notin job[d].old
  BY InvFacts, OtherRecords, TypedBuilder DEF RebuildInv, BuilderInv
<1>2. ASSUME NEW i \in job'[c].old, ~(GetAlias(b) /\ c = b)
      PROVE  i \in job[c].old
  BY <1>1, <1>2, OwnRecord
<1>3. ASSUME GetAlias(b), c = b PROVE job'[c].old = alias /\ UNCHANGED indices
  BY <1>1, <1>3, TypedBuilder DEF GetAlias, JobType
<1>4. ASSUME NEW i \in job'[c].old PROVE i <= clock
  BY <1>1, <1>2, <1>3 DEF OldInv
<1>5. ASSUME NEW i \in job'[c].old, ~indices'[i].exists, NEW d \in Builders
      PROVE  i # clock /\ (At(d, "create")' => job'[d].target # i)
  <2>1. ~(GetAlias(b) /\ c = b) /\ i \in job[c].old /\ i \in Names
    BY <1>1, <1>2, <1>3, <1>5
  <2>2. CASE ~indices[i].exists
    <3>1. i # clock /\ (At(d, "create") => job[d].target # i)
      BY <1>1, <2>1, <2>2 DEF OldInv
    <3>2. QED
      BY <1>1, <3>1, AboutToCreate
  <2>3. CASE indices[i].exists
    <3>1. At(b, "retire") /\ i \in job[b].old /\ c # b
      BY <1>1, <1>5, <2>1, <2>3, BuilderFrame
    <3>2. i # clock /\ (At(d, "create") => job[d].target # i)
      BY <2>1, <3>1 DEF NoStaleDeletion
    <3>3. ~NameIndex(b)
      BY <3>1 DEF NameIndex, At
    <3>4. QED
      BY <1>1, <3>2, <3>3, AboutToCreate
  <2>4. QED
    BY <2>2, <2>3
<1>6. QED
  BY <1>1, <1>4, <1>5 DEF OldInv

\* What the other builders know stays true, if the deletion of an old index is
\* harmless.
LEMMA OthersStepInv ==
  ASSUME RebuildInv, NoStaleDeletion, NEW b \in Builders, NEW c \in Builders, c # b, Build(b)
  PROVE  BuilderInv(c)'
<1>1. BuilderInv(c) /\ TypeOK /\ UNCHANGED <<clock, history>> /\ job'[c] = job[c]
  BY OtherRecords DEF RebuildInv
<1>2. OldInv(c)'
  BY OldStepInv
<1>3. Building(c) => TargetInv(c)'
  BY <1>1, OtherTargets DEF BuilderInv, TargetInv
<1>4. At(c, "retire") => job[c].old \cap alias' = {}
  <2>1. Building(b) => job[b].target \notin job[c].old
    BY InvFacts
  <2>2. QED
    BY <1>1, <2>1, LiveUntouched DEF BuilderInv
<1>5. QED
  BY <1>1, <1>2, <1>3, <1>4 DEF BuilderInv, At, Building

\* Past its count a builder's index holds all its rows: some of the rows, and as
\* many of them as there are.
LEMMA CountedIsComplete ==
  ASSUME RebuildInv, NEW b \in Builders, At(b, "count"), CountsAgree(b)
  PROVE  indices[job[b].target].docs = history[job[b].ver]
<1> DEFINE filled == indices[job[b].target].docs
           rows == history[job[b].ver]
<1>1. filled \subseteq rows /\ Cardinality(filled) = Cardinality(rows)
  BY DEF RebuildInv, BuilderInv, TargetInv, Building, At, CountsAgree
<1>2. rows \subseteq Docs
  <2>1. job[b].ver \in 1..Len(history)
    BY TypedBuilder DEF RebuildInv, At
  <2>2. QED
    BY <2>1 DEF RebuildInv, TypeOK
<1>3. IsFiniteSet(rows)
  BY <1>2, RebuildAssumption, FS_Subset
<1>4. QED
  BY <1>1, <1>3, FS_Subset

\* What a builder knows of itself stays true through every step of its own.
LEMMA OwnStepInv ==
  ASSUME RebuildInv, NoStaleDeletion, NEW b \in Builders, Build(b)
  PROVE  BuilderInv(b)'
<1> DEFINE j == job[b]
<1>1. BuilderInv(b) /\ TypeOK /\ AliasInv
  BY DEF RebuildInv
<1>2. /\ j \in JobType /\ job \in [Builders -> JobType]
      /\ indices \in [Names -> IndexType] /\ clock \in Names
      /\ Names \subseteq Nat /\ alias \in SUBSET Names
      /\ ~At(b, "idle") => j.ver \in 1..Len(history)
      /\ At(b, "create") \/ Building(b) => j.target \in Names
  BY <1>1, TypedBuilder
<1>3. UNCHANGED <<history, clock>> /\ \A d \in Builders \ {b} : job'[d] = job[d]
  BY <1>1, OtherRecords
<1>4. /\ Building(b) => \A d \in Builders : j.target \notin job[d].old
      /\ OldInv(b)'
  BY InvFacts, OldStepInv
<1>5. CASE FetchDocuments(b) \/ NameIndex(b)
  <2>1. /\ job'[b].step = "name" \/ (job'[b].step = "create" /\ job'[b].target = clock)
        /\ job'[b].old = j.old /\ j.step \in {"idle", "name"}
    BY <1>2, <1>5 DEF FetchDocuments, NameIndex, At, JobType
  <2>2. j.old = {} /\ clock <= clock
    BY <1>1, <1>2, <2>1 DEF BuilderInv
  <2>3. QED
    BY <1>3, <1>4, <2>1, <2>2 DEF BuilderInv, At, Building
<1>6. CASE CreateIndex(b)
  <2>1. /\ job'[b].step = "bulk" /\ job'[b].ver = j.ver /\ job'[b].target = j.target
        /\ job'[b].pending = history[j.ver] /\ job'[b].old = j.old /\ j.step = "create"
    BY <1>2, <1>6 DEF CreateIndex, At, JobType
  <2>2. /\ indices'[j.target] = [exists |-> TRUE, ver |-> j.ver, docs |-> {}]
        /\ ~indices[j.target].exists /\ alias' = alias
    BY <1>2, <1>6 DEF CreateIndex, PutTarget
  <2>3. j.target \notin alias /\ j.old = {}
    BY <1>1, <2>1, <2>2 DEF AliasInv, LiveIsComplete, BuilderInv
  <2>4. \A d \in Builders : j.target \notin job'[d].old
    <3>1. \A d \in Builders : OldInv(d)
      BY DEF RebuildInv, BuilderInv
    <3>2. QED
      BY <1>3, <2>1, <2>2, <2>3, <3>1 DEF OldInv, At
  <2>5. TargetInv(b)'
    BY <1>3, <2>1, <2>2, <2>3, <2>4 DEF TargetInv
  <2>6. QED
    BY <1>3, <1>4, <2>1, <2>3, <2>5 DEF BuilderInv, At
<1>7. CASE IndexRow(b)
  <2>1. PICK d \in j.pending :
          /\ job' = [job EXCEPT ![b].pending = @ \ {d}]
          /\ PutTarget(b, [exists |-> TRUE, ver |-> j.ver,
               docs |-> {e \in indices[j.target].docs : ChunkId[e] # ChunkId[d]} \union {d}])
    BY <1>7 DEF IndexRow
  <2>2. j.step = "bulk" /\ j.target \in Names /\ alias' = alias
    BY <1>2, <1>7 DEF IndexRow, At, Building
  <2>3. /\ job'[b].step = "bulk" /\ job'[b].ver = j.ver /\ job'[b].target = j.target
        /\ job'[b].pending = j.pending \ {d} /\ job'[b].old = j.old
    BY <1>2, <2>1, <2>2 DEF JobType
  <2>4. indices'[j.target] = [exists |-> TRUE, ver |-> j.ver,
          docs |-> {e \in indices[j.target].docs : ChunkId[e] # ChunkId[d]} \union {d}]
    BY <1>2, <2>1, <2>2 DEF PutTarget
  <2>5. /\ indices'[j.target].exists /\ indices'[j.target].ver = j.ver
        /\ indices'[j.target].docs \subseteq indices[j.target].docs \union {d}
    BY <2>4
  <2>6. TargetInv(b) /\ j.pending \subseteq history[j.ver] /\ j.old = {}
    BY <1>1, <2>2 DEF BuilderInv, At, Building
  <2>7. \A c \in Builders : job'[c].old = job[c].old
    BY <1>3, <2>3
  <2>8. TargetInv(b)'
    BY <1>3, <2>2, <2>3, <2>5, <2>6, <2>7 DEF TargetInv
  <2>9. QED
    BY <1>3, <1>4, <2>3, <2>6, <2>8 DEF BuilderInv, At
<1>8. CASE RejectRow(b) \/ FinishBulk(b) \/ CountMatches(b)
  <2>1. /\ UNCHANGED <<indices, alias>> /\ Building(b)
        /\ j.step \in {"bulk", "count"}
    BY <1>8 DEF RejectRow, FinishBulk, CountMatches, At, Building
  <2>2. /\ job'[b].step \in {"bulk", "count", "getAlias"}
        /\ job'[b].ver = j.ver /\ job'[b].target = j.target /\ job'[b].old = j.old
        /\ job'[b].step = "bulk" => j.step = "bulk" /\ job'[b].pending \subseteq j.pending
        /\ job'[b].step = "getAlias" => CountMatches(b)
    <3>1. CASE RejectRow(b)
      <4>1. PICK d \in j.pending :
              job' = [job EXCEPT ![b].pending = @ \ {d}, ![b].errors = TRUE]
        BY <3>1 DEF RejectRow
      <4>2. j.step = "bulk"
        BY <3>1 DEF RejectRow, At
      <4>3. QED
        BY <1>2, <4>1, <4>2 DEF JobType
    <3>2. CASE FinishBulk(b)
      BY <1>2, <3>2 DEF FinishBulk, Goto, JobType
    <3>3. CASE CountMatches(b)
      BY <1>2, <3>3 DEF CountMatches, Goto, JobType
    <3>4. QED
      BY <1>8, <3>1, <3>2, <3>3
  <2>3. job'[b].step = "getAlias" => indices[j.target].docs = history[j.ver]
    BY <2>2, CountedIsComplete DEF CountMatches
  <2>4. /\ \A c \in Builders : job'[c].old = job[c].old
        /\ TargetInv(b) /\ j.old = {}
    BY <1>1, <1>3, <2>1, <2>2 DEF BuilderInv
  <2>5. TargetInv(b)'
    BY <1>3, <2>1, <2>2, <2>3, <2>4 DEF TargetInv
  <2>6. QED
    BY <1>1, <1>3, <1>4, <2>2, <2>4, <2>5 DEF BuilderInv, At
<1>9. CASE GetAlias(b)
  <2>1. /\ job'[b].step = "swap" /\ job'[b].ver = j.ver /\ job'[b].target = j.target
        /\ job'[b].old = alias
    BY <1>2, <1>9 DEF GetAlias, JobType
  <2>2. j.step = "getAlias" /\ UNCHANGED <<indices, alias>> /\ Building(b)
    BY <1>9 DEF GetAlias, At, Building
  <2>3. TargetInv(b)
    BY <1>1, <2>2 DEF BuilderInv
  <2>4. \A d \in Builders : j.target \notin job'[d].old
    BY <1>3, <2>1, <2>3 DEF TargetInv
  <2>5. TargetInv(b)'
    BY <1>3, <2>1, <2>2, <2>3, <2>4 DEF TargetInv
  <2>6. QED
    BY <1>3, <1>4, <2>1, <2>2, <2>5 DEF BuilderInv, At
<1>10. CASE SwapAlias(b)
  <2>1. PICK drop \in SUBSET j.old : job' = [job EXCEPT ![b].step = "retire", ![b].old = drop]
    BY <1>10 DEF SwapAlias
  <2>2. job'[b].step = "retire" /\ job'[b].old \subseteq j.old
    BY <1>2, <2>1 DEF JobType
  <2>3. /\ UNCHANGED indices /\ Building(b)
        /\ alias' = (alias \ j.old) \union {j.target}
    BY <1>10 DEF SwapAlias, At, Building
  <2>4. j.target \notin j.old
    BY <1>4, <2>3
  <2>5. QED
    BY <1>1, <1>3, <1>4, <2>2, <2>3, <2>4 DEF BuilderInv, At, Building
<1>11. CASE DeleteRetired(b)
  <2>1. PICK k \in j.old : /\ indices' = [indices EXCEPT ![k] = Absent]
                           /\ alias' = alias \ {k}
                           /\ job' = [job EXCEPT ![b].old = @ \ {k}]
    BY <1>11 DEF DeleteRetired, DeleteIndex
  <2>2. job'[b].step = "retire" /\ job'[b].old = j.old \ {k} /\ j.step = "retire"
    BY <1>2, <1>11, <2>1 DEF DeleteRetired, At, JobType
  <2>3. QED
    BY <1>1, <1>3, <1>4, <2>1, <2>2 DEF BuilderInv, At, Building
<1>12. CASE EndJob(b)
  <2>1. job'[b].step = "idle" /\ job'[b].old = {}
    BY <1>2, <1>12 DEF EndJob, NoJob
  <2>2. QED
    BY <1>4, <2>1 DEF BuilderInv, At, Building
<1>13. QED
  BY <1>5, <1>6, <1>7, <1>8, <1>9, <1>10, <1>11, <1>12
  DEF Build, CreateCollides, AbortBulk, CountMismatch, SwapFails, DeleteFails,
      ReturnSummary, Crash

\* The committed states builders have read, and those behind the alias, are not
\* changed by a new one.
LEMMA CommitRebuildInv ==
  ASSUME RebuildInv, NEW rows \in SUBSET Docs, history' = Append(history, rows),
         UNCHANGED <<clock, indices, alias, retired, job>>
  PROVE  RebuildInv'
<1>1. TypeOK
  BY DEF RebuildInv
<1>2. TypeOK' /\ \A v \in 1..Len(history) : history'[v] = history[v]
  BY <1>1, CommitTypeOK
<1>3. \A i \in alias : indices[i].ver \in 1..Len(history)
  <2>1. \A i \in alias : indices[i].ver \in Nat /\ indices[i].ver <= Len(history)
    BY <1>1 DEF TypeOK, IndexType
  <2>2. Len(history) \in Nat
    BY <1>1 DEF TypeOK
  <2>3. QED
    BY <2>1, <2>2 DEF RebuildInv, AliasInv
<1>4. AliasInv' /\ PrivateInv'
  BY <1>2, <1>3 DEF RebuildInv, AliasInv, LiveIsComplete, PrivateInv, Building
<1>5. ASSUME NEW b \in Builders PROVE BuilderInv(b)'
  <2>1. BuilderInv(b)
    BY DEF RebuildInv
  <2>2. ~At(b, "idle") => history'[job[b].ver] = history[job[b].ver]
    BY <1>1, <1>2, TypedBuilder
  <2>3. Building(b) \/ At(b, "bulk") => ~At(b, "idle")
    BY DEF Building, At
  <2>4. QED
    BY <2>1, <2>2, <2>3 DEF BuilderInv, TargetInv, OldInv, At, Building
<1>6. QED
  BY <1>2, <1>4, <1>5 DEF RebuildInv

\* The next second leaves the names given so far behind.
LEMMA TickRebuildInv == ASSUME RebuildInv, Tick, TypeOK' PROVE RebuildInv'
<1>1. clock' = clock + 1 /\ UNCHANGED <<history, indices, alias, retired, job>>
  BY DEF Tick
<1>2. clock \in Nat /\ Names \subseteq Nat
  BY DEF RebuildInv, TypeOK, Names
<1>3. AliasInv' /\ PrivateInv'
  BY <1>1, <1>2 DEF RebuildInv, AliasInv, LiveIsComplete, PrivateInv, Building
<1>4. ASSUME NEW b \in Builders PROVE BuilderInv(b)'
  <2>1. BuilderInv(b) /\ job[b].old \in SUBSET Names
    BY TypedBuilder DEF RebuildInv
  <2>2. \A i \in job[b].old : i \in Nat /\ i <= clock
    BY <1>2, <2>1 DEF BuilderInv, OldInv
  <2>3. \A i \in job'[b].old : i <= clock' /\ i # clock'
    BY <1>1, <1>2, <2>2
  <2>4. OldInv(b)'
    BY <1>1, <2>1, <2>3 DEF BuilderInv, OldInv, At
  <2>5. At(b, "create") => job[b].target \in Nat /\ job[b].target <= clock
    BY <1>2, <2>1, TypedBuilder DEF RebuildInv, BuilderInv
  <2>6. At(b, "create")' => job'[b].target <= clock'
    BY <1>1, <1>2, <2>5 DEF At
  <2>7. QED
    BY <1>1, <2>1, <2>4, <2>6 DEF BuilderInv, TargetInv, At, Building
<1>5. QED
  BY <1>3, <1>4 DEF RebuildInv

\* What a swap makes live is complete: it holds the rows the builder has read.
LEMMA SwapPublishes ==
  ASSUME RebuildInv, NEW b \in Builders, SwapAlias(b)
  PROVE  /\ alias' = (alias \ job[b].old) \union {job[b].target}
         /\ UNCHANGED <<history, indices, clock>>
         /\ job[b].target \in Names /\ TargetInv(b) /\ job[b].ver \in 1..Len(history)
         /\ indices[job[b].target].docs = history[job[b].ver]
<1>1. BuilderInv(b) /\ TypeOK
  BY DEF RebuildInv
<1>2. At(b, "swap") /\ Building(b) /\ ~At(b, "idle")
  BY DEF SwapAlias, At, Building
<1>3. TargetInv(b) /\ job[b].target \in Names /\ job[b].ver \in 1..Len(history)
  BY <1>1, <1>2, TypedBuilder DEF BuilderInv
<1>4. QED
  BY <1>2, <1>3 DEF SwapAlias, TargetInv, At

\* Every step of any builder, and every reload, keeps the invariant as long as no
\* deletion is stale.
LEMMA NextRebuildInv ==
  RebuildInv /\ NoStaleDeletion /\ [Next]_vars => RebuildInv'
<1> SUFFICES ASSUME RebuildInv, NoStaleDeletion, [Next]_vars PROVE RebuildInv'
  OBVIOUS
<1>1. TypeOK'
  BY NextTypeOK DEF RebuildInv
<1>2. CASE ResetSchema \/ LoadDocuments
  <2>1. PICK rows \in SUBSET Docs :
          history' = Append(history, rows) /\ UNCHANGED <<clock, indices, alias, retired, job>>
    BY <1>2 DEF ResetSchema, LoadDocuments
  <2>2. QED
    BY <2>1, CommitRebuildInv
<1>3. CASE Tick
  BY <1>1, <1>3, TickRebuildInv
<1>4. ASSUME NEW b \in Builders, Build(b) PROVE RebuildInv'
  <2>1. UNCHANGED <<clock, history>> /\ \A c \in Builders \ {b} : job'[c] = job[c]
    BY <1>4, OtherRecords DEF RebuildInv
  <2>2. AliasInv'
    <3>1. /\ \A i \in alias : indices'[i] = indices[i]
          /\ ~SwapAlias(b) => alias' = alias
          /\ \A i \in Names : indices'[i].exists => i <= clock
      BY <1>4, LiveUntouched
    <3>2. CASE ~SwapAlias(b)
      BY <2>1, <3>1, <3>2 DEF RebuildInv, AliasInv, LiveIsComplete
    <3>3. CASE SwapAlias(b)
      <4>1. Len(history) \in Nat
        BY DEF RebuildInv, TypeOK
      <4>2. QED
        BY <2>1, <3>1, <3>3, <4>1, SwapPublishes
        DEF RebuildInv, AliasInv, LiveIsComplete, TargetInv
    <3>4. QED
      BY <3>2, <3>3
  <2>3. PrivateInv'
    <3>1. ASSUME NEW c \in Builders, c # b, Building(c)', Building(b)'
          PROVE  job'[c].target # job'[b].target
      BY <1>4, <2>1, <3>1, OtherTargets DEF Building
    <3>2. ASSUME NEW c \in Builders \ {b}, NEW d \in Builders \ {b}, c # d,
                 Building(c)', Building(d)'
          PROVE  job'[c].target # job'[d].target
      BY <2>1, <3>2 DEF RebuildInv, PrivateInv, Building
    <3>3. QED
      BY <3>1, <3>2 DEF PrivateInv
  <2>4. \A c \in Builders : BuilderInv(c)'
    BY <1>4, OwnStepInv, OthersStepInv
  <2>5. QED
    BY <1>1, <2>2, <2>3, <2>4 DEF RebuildInv
<1>5. CASE UNCHANGED vars
  BY <1>1, <1>5 DEF vars, RebuildInv, AliasInv, LiveIsComplete, PrivateInv, BuilderInv,
                    TargetInv, OldInv, At, Building
<1>6. QED
  BY <1>2, <1>3, <1>4, <1>5 DEF Next

-----------------------------------------------------------------------------
(* One live index per builder *)

\* Each builder has put at most one of the live indices there: it removes the one
\* it found before it adds the next.
PublishedBy(f) ==
  /\ f \in [alias -> Builders]
  /\ \A i \in alias, k \in alias : f[i] = f[k] => i = k
  /\ \A i \in alias : At(f[i], "swap") => i \in job[f[i]].old

PublishedInv == \E f : PublishedBy(f)

\* Nothing is live to begin with.
LEMMA InitPublishedInv == Init => PublishedInv
<1> SUFFICES ASSUME Init PROVE PublishedInv
  OBVIOUS
<1>1. alias = {}
  BY DEF Init
<1>2. PublishedBy([i \in {} |-> CHOOSE b \in Builders : TRUE])
  BY <1>1 DEF PublishedBy
<1>3. QED
  BY <1>2 DEF PublishedInv

\* The swap gives the new index to its builder, which has none left: the one it had
\* was on its list.
LEMMA SwapPublishedBy ==
  ASSUME RebuildInv, NEW f, PublishedBy(f), NEW b \in Builders, SwapAlias(b)
  PROVE  PublishedInv'
<1> DEFINE t == job[b].target
<1>1. alias' = (alias \ job[b].old) \union {t} /\ At(b, "swap")
  BY SwapPublishes DEF SwapAlias
<1>2. job'[b].step = "retire"
  <2>1. PICK drop \in SUBSET job[b].old :
          job' = [job EXCEPT ![b].step = "retire", ![b].old = drop]
    BY DEF SwapAlias
  <2>2. QED
    BY <2>1, TypedBuilder DEF RebuildInv, JobType
<1>3. f \in [alias -> Builders] /\ \A i \in alias \ job[b].old : f[i] # b
  BY <1>1 DEF PublishedBy
<1>4. \A c \in Builders \ {b} : job'[c] = job[c]
  BY OtherRecords DEF RebuildInv, Build
<1>5. PICK g : g = [i \in alias' |-> IF i = t THEN b ELSE f[i]]
  OBVIOUS
<1>6. g \in [alias' -> Builders]
  BY <1>1, <1>3, <1>5
<1>7. \A i \in alias', k \in alias' : g[i] = g[k] => i = k
  BY <1>1, <1>3, <1>5 DEF PublishedBy
<1>8. ASSUME NEW i \in alias', job'[g[i]].step = "swap" PROVE i \in job'[g[i]].old
  <2>1. i # t /\ i \in alias \ job[b].old
    BY <1>1, <1>2, <1>5, <1>8 DEF At
  <2>2. g[i] = f[i] /\ f[i] # b /\ f[i] \in Builders
    BY <1>3, <1>5, <2>1
  <2>3. job'[f[i]] = job[f[i]]
    BY <1>4, <2>2
  <2>4. QED
    BY <1>8, <2>1, <2>2, <2>3 DEF At, PublishedBy
<1>9. PublishedBy(g)'
  BY <1>6, <1>7, <1>8 DEF PublishedBy, At
<1>10. QED
  BY <1>9 DEF PublishedInv

\* Every step of any builder keeps it.
LEMMA NextPublishedInv == RebuildInv /\ PublishedInv /\ [Next]_vars => PublishedInv'
<1> SUFFICES ASSUME RebuildInv, PublishedInv, [Next]_vars PROVE PublishedInv'
  OBVIOUS
<1>1. PICK f : PublishedBy(f)
  BY DEF PublishedInv
<1>2. CASE UNCHANGED <<alias, job>>
  BY <1>1, <1>2 DEF PublishedInv, PublishedBy, At
<1>3. ASSUME NEW b \in Builders, SwapAlias(b) PROVE PublishedInv'
  BY <1>1, <1>3, SwapPublishedBy
<1>4. ASSUME NEW b \in Builders, Build(b), ~SwapAlias(b) PROVE PublishedInv'
  <2>1. alias' = alias /\ \A c \in Builders \ {b} : job'[c] = job[c]
    BY <1>4, LiveUntouched, OtherRecords DEF RebuildInv
  <2>2. job'[b].step = "swap" => job'[b].old = alias
    BY <1>4, OwnRecord DEF RebuildInv
  <2>3. PublishedBy(f)'
    BY <1>1, <2>1, <2>2 DEF PublishedBy, At
  <2>4. QED
    BY <2>3 DEF PublishedInv
<1>5. QED
  BY <1>2, <1>3, <1>4 DEF Next, ResetSchema, LoadDocuments, Tick, vars

\* So there are no more live indices than builders.
LEMMA AliasNoLarger ==
  ASSUME TypeOK, PublishedInv, IsFiniteSet(Builders)
  PROVE  IsFiniteSet(alias) /\ Cardinality(alias) <= Cardinality(Builders)
<1>1. IsFiniteSet(alias)
  <2>1. IsFiniteSet(Names)
    BY RebuildAssumption, FS_Interval DEF Names
  <2>2. QED
    BY <2>1, FS_Subset DEF TypeOK
<1>2. Cardinality(alias) \in Nat /\ Cardinality(Builders) \in Nat
  BY <1>1, FS_CardinalityType
<1>3. ~(Cardinality(Builders) < Cardinality(alias))
  BY <1>1, FS_PigeonHole DEF PublishedInv, PublishedBy
<1>4. QED
  BY <1>1, <1>2, <1>3

-----------------------------------------------------------------------------
(* Two builders at a time *)

AtMostTwo ==
  \A b \in Builders, c \in Builders, d \in Builders : b = c \/ c = d \/ b = d

\* The index of this second, if there is one, is the target of a builder that runs,
\* or some builder has not named its index yet: it will name it after this second.
SecondInv ==
  indices[clock].exists =>
    \E d \in Builders : job[d].step \in {"idle", "name"} \/ job[d].target = clock

\* A builder that has the index of this second on its list did not make it, and is
\* the only one to have it there.
ListedInv(b) ==
  clock \in job[b].old =>
    /\ job[b].target < clock
    /\ \A c \in Builders \ {b} : clock \notin job[c].old

ListsInv == SecondInv /\ \A b \in Builders : ListedInv(b)

\* Whoever makes the index of this second keeps it as its target until it ends.
LEMMA NextSecondInv == RebuildInv /\ SecondInv /\ [Next]_vars => SecondInv'
<1> SUFFICES ASSUME RebuildInv, SecondInv, [Next]_vars PROVE SecondInv'
  OBVIOUS
<1>1. /\ TypeOK /\ clock \in Names /\ Names \subseteq Nat
      /\ \A c \in Builders : Building(c) =>
           job[c].target \in Names /\ indices[job[c].target].exists
  BY InvFacts
<1>2. CASE ResetSchema \/ LoadDocuments \/ UNCHANGED vars
  BY <1>2 DEF ResetSchema, LoadDocuments, vars, SecondInv
<1>3. CASE Tick
  <2>1. clock' \in Names /\ clock' = clock + 1 /\ UNCHANGED indices
    BY <1>3, NextTypeOK, <1>1 DEF Tick, TypeOK
  <2>2. ~(clock + 1 <= clock)
    BY <1>1
  <2>3. ~indices[clock'].exists
    BY <2>1, <2>2 DEF RebuildInv, AliasInv
  <2>4. QED
    BY <2>1, <2>3 DEF SecondInv
<1>4. ASSUME NEW b \in Builders, Build(b) PROVE SecondInv'
  <2>1. UNCHANGED clock /\ \A c \in Builders \ {b} : job'[c] = job[c]
    BY <1>1, <1>4, OtherRecords
  <2>2. CASE CreateIndex(b) /\ job[b].target = clock
    BY <1>1, <2>1, <2>2, TypedBuilder DEF CreateIndex, JobType, SecondInv
  <2>3. CASE ~(CreateIndex(b) /\ job[b].target = clock) /\ indices'[clock].exists
    <3>1. indices[clock].exists
      <4>1. ~Absent.exists
        BY DEF Absent
      <4>2. QED
        BY <1>1, <1>4, <2>3, <4>1, BuilderFrame
    <3>2. PICK d \in Builders : job[d].step \in {"idle", "name"} \/ job[d].target = clock
      BY <3>1 DEF SecondInv
    <3>3. CASE d # b
      BY <2>1, <3>2, <3>3 DEF SecondInv
    <3>4. CASE d = b
      <4>1. job'[b].step \in {"idle", "name"} \/ job'[b].target = clock
        <5>1. \/ job'[b].step \in {"idle", "name"} \/ job'[b].target = clock
              \/ /\ job'[b].target = job[b].target
                 /\ \/ CreateIndex(b) \/ IndexRow(b) \/ RejectRow(b) \/ FinishBulk(b)
                    \/ CountMatches(b) \/ GetAlias(b) \/ SwapAlias(b) \/ DeleteRetired(b)
          BY <1>1, <1>4, OwnRecord
        <5>2. CreateIndex(b) \/ IndexRow(b) \/ RejectRow(b) \/ FinishBulk(b) \/ CountMatches(b)
              \/ GetAlias(b) \/ SwapAlias(b) \/ DeleteRetired(b) =>
                job[b].step \notin {"idle", "name"}
          BY DEF CreateIndex, IndexRow, RejectRow, FinishBulk, CountMatches, GetAlias,
                 SwapAlias, DeleteRetired, At
        <5>3. QED
          BY <3>2, <3>4, <5>1, <5>2
      <4>2. QED
        BY <2>1, <4>1 DEF SecondInv
    <3>5. QED
      BY <3>3, <3>4
  <2>4. QED
    BY <2>1, <2>2, <2>3 DEF SecondInv
<1>5. QED
  BY <1>2, <1>3, <1>4 DEF Next

\* Asking for the alias is what puts an index on a list: if the other builder has
\* the index of this second on its own, neither of the two has made it.
LEMMA GetAliasListedInv ==
  ASSUME AtMostTwo, RebuildInv, ListsInv, NEW b \in Builders, GetAlias(b), clock \in alias
  PROVE  job[b].target < clock /\ \A c \in Builders \ {b} : clock \notin job[c].old
<1>1. /\ TypeOK /\ clock \in Names /\ Names \subseteq Nat
      /\ Building(b) => /\ job[b].target \in Names /\ job[b].target <= clock
                        /\ job[b].target \notin alias
      /\ indices[clock].exists
  BY InvFacts
<1>2. job[b].step = "getAlias" /\ Building(b)
  BY DEF GetAlias, At, Building
<1>3. job[b].target < clock
  BY <1>1, <1>2
<1>4. ASSUME NEW c \in Builders \ {b}, clock \in job[c].old PROVE FALSE
  <2>1. job[c].target < clock
    BY <1>4 DEF ListsInv, ListedInv
  <2>2. job[c].step \in {"swap", "retire"}
    BY <1>4 DEF RebuildInv, BuilderInv
  <2>3. PICK d \in Builders : job[d].step \in {"idle", "name"} \/ job[d].target = clock
    BY <1>1 DEF ListsInv, SecondInv
  <2>4. d = b \/ d = c
    BY DEF AtMostTwo
  <2>5. \A n \in Nat : ~(n < n)
    OBVIOUS
  <2>6. QED
    BY <1>1, <1>2, <1>3, <2>1, <2>2, <2>3, <2>4, <2>5
<1>5. QED
  BY <1>3, <1>4

\* The lists of two builders keep apart where it matters.
LEMMA NextListsInv ==
  ASSUME AtMostTwo
  PROVE  RebuildInv /\ ListsInv /\ [Next]_vars => ListsInv'
<1> SUFFICES ASSUME RebuildInv, ListsInv, [Next]_vars PROVE ListsInv'
  OBVIOUS
<1>1. SecondInv'
  BY NextSecondInv DEF ListsInv
<1>2. TypeOK /\ clock \in Names /\ Names \subseteq Nat
  BY InvFacts
<1>3. CASE ResetSchema \/ LoadDocuments \/ UNCHANGED vars
  BY <1>1, <1>3 DEF ResetSchema, LoadDocuments, vars, ListsInv, ListedInv
<1>4. CASE Tick
  <2>1. clock' = clock + 1 /\ UNCHANGED job /\ ~(clock + 1 <= clock)
    BY <1>2, <1>4 DEF Tick
  <2>2. \A b \in Builders : clock' \notin job'[b].old
    BY <2>1 DEF RebuildInv, BuilderInv, OldInv
  <2>3. QED
    BY <1>1, <2>2 DEF ListsInv, ListedInv
<1>5. ASSUME NEW b \in Builders, Build(b) PROVE ListsInv'
  <2>1. UNCHANGED clock /\ \A c \in Builders \ {b} : job'[c] = job[c]
    BY <1>2, <1>5, OtherRecords
  <2>2. CASE GetAlias(b) /\ clock \in alias
    <3>1. job'[b].old = alias /\ job'[b].target = job[b].target
      BY <1>2, <2>2, TypedBuilder DEF GetAlias, JobType
    <3>2. job[b].target < clock /\ \A c \in Builders \ {b} : clock \notin job[c].old
      BY <2>2, GetAliasListedInv
    <3>3. QED
      BY <1>1, <2>1, <3>1, <3>2 DEF ListsInv, ListedInv
  <2>3. CASE ~(GetAlias(b) /\ clock \in alias)
    <3>1. clock \in job'[b].old =>
            clock \in job[b].old /\ job'[b].target = job[b].target
      <4>1. FetchDocuments(b) \/ NameIndex(b) => job[b].old = {}
        BY DEF FetchDocuments, NameIndex, RebuildInv, BuilderInv, At
      <4>2. QED
        BY <1>2, <1>5, <2>3, <4>1, OwnRecord
    <3>2. QED
      BY <1>1, <2>1, <3>1 DEF ListsInv, ListedInv
  <2>4. QED
    BY <2>2, <2>3
<1>6. QED
  BY <1>3, <1>4, <1>5 DEF Next

\* No index and no list to begin with.
LEMMA InitListsInv == Init => ListsInv
<1> SUFFICES ASSUME Init PROVE ListsInv
  OBVIOUS
<1>1. \A i \in Names : ~indices[i].exists
  BY DEF Init, Absent
<1>2. clock \in Names /\ \A b \in Builders : job[b].old = {}
  BY RebuildAssumption DEF Init, Names, NoJob
<1>3. QED
  BY <1>1, <1>2 DEF ListsInv, SecondInv, ListedInv

-----------------------------------------------------------------------------
(* As many builders as --keep-previous keeps indices *)

EnoughKept == IsFiniteSet(Builders) /\ Cardinality(Builders) <= KeepPrevious

\* No builder finds more old indices than it may keep, so that none is left over
\* for the retention loop.
KeptInv ==
  \A b \in Builders :
    /\ At(b, "swap") => Cardinality(job[b].old) <= KeepPrevious
    /\ At(b, "retire") => job[b].old = {}

\* A list no longer than --keep-previous loses nothing.
LEMMA NothingInExcess ==
  ASSUME TypeOK, NEW b \in Builders, SwapAlias(b), Cardinality(job[b].old) <= KeepPrevious
  PROVE  job'[b].old = {}
<1>1. job[b].old \in SUBSET Names /\ job \in [Builders -> JobType] /\ job[b] \in JobType
  BY TypedBuilder
<1>2. PICK drop \in SUBSET job[b].old :
        /\ Cardinality(drop) = Excess(job[b].old)
        /\ job' = [job EXCEPT ![b].step = "retire", ![b].old = drop]
  BY DEF SwapAlias
<1>3. IsFiniteSet(Names)
  BY RebuildAssumption, FS_Interval DEF Names
<1>4. IsFiniteSet(job[b].old) /\ IsFiniteSet(drop)
  BY <1>1, <1>3, FS_Subset
<1>5. Cardinality(job[b].old) \in Nat
  BY <1>4, FS_CardinalityType
<1>6. Excess(job[b].old) = 0
  BY <1>5, RebuildAssumption DEF Excess
<1>7. drop = {}
  BY <1>2, <1>4, <1>6, FS_EmptySet
<1>8. QED
  BY <1>1, <1>2, <1>7 DEF JobType

\* Every step keeps it, and nothing is ever deleted.
LEMMA NextKeptInv ==
  ASSUME EnoughKept
  PROVE  RebuildInv /\ PublishedInv /\ KeptInv /\ [Next]_vars => KeptInv'
<1> SUFFICES ASSUME RebuildInv, PublishedInv, KeptInv, [Next]_vars PROVE KeptInv'
  OBVIOUS
<1>1. TypeOK
  BY DEF RebuildInv
<1>2. CASE UNCHANGED job
  BY <1>2 DEF KeptInv, At
<1>3. ASSUME NEW b \in Builders, Build(b) PROVE KeptInv'
  <2>1. \A c \in Builders \ {b} : job'[c] = job[c]
    BY <1>1, <1>3, OtherRecords
  <2>2. CASE SwapAlias(b)
    <3>1. Cardinality(job[b].old) <= KeepPrevious
      BY <2>2 DEF SwapAlias, KeptInv
    <3>2. job'[b].old = {}
      BY <1>1, <2>2, <3>1, NothingInExcess
    <3>3. job'[b].step # "swap"
      <4>1. PICK drop \in SUBSET job[b].old :
              job' = [job EXCEPT ![b].step = "retire", ![b].old = drop]
        BY <2>2 DEF SwapAlias
      <4>2. QED
        BY <1>1, <4>1, TypedBuilder DEF JobType
    <3>4. QED
      BY <2>1, <3>2, <3>3 DEF KeptInv, At
  <2>3. CASE GetAlias(b)
    <3>1. job'[b].step = "swap" /\ job'[b].old = alias
      BY <1>1, <2>3, TypedBuilder DEF GetAlias, JobType
    <3>2. Cardinality(alias) <= KeepPrevious
      <4>1. IsFiniteSet(alias) /\ Cardinality(alias) <= Cardinality(Builders)
        BY <1>1, AliasNoLarger DEF EnoughKept
      <4>2. Cardinality(alias) \in Nat /\ Cardinality(Builders) \in Nat
        BY <4>1, FS_CardinalityType DEF EnoughKept
      <4>3. QED
        BY <4>1, <4>2, RebuildAssumption DEF EnoughKept
    <3>3. QED
      BY <2>1, <3>1, <3>2 DEF KeptInv, At
  <2>4. CASE ~SwapAlias(b) /\ ~GetAlias(b)
    <3>1. ~DeleteRetired(b)
      BY DEF DeleteRetired, KeptInv
    <3>2. job'[b].step \notin {"swap", "retire"}
      BY <1>1, <1>3, <2>4, <3>1, OwnRecord
    <3>3. QED
      BY <2>1, <3>2 DEF KeptInv, At
  <2>5. QED
    BY <2>2, <2>3, <2>4
<1>4. QED
  BY <1>2, <1>3 DEF Next, ResetSchema, LoadDocuments, Tick, vars

-----------------------------------------------------------------------------
(* The theorems for builders that run at the same time *)

\* Two builders, whatever --keep-previous is, or more of them, each with an index
\* to keep. (Three that keep fewer can delete each other's new index.)
Compatible == AtMostTwo \/ EnoughKept

\* In both cases the invariant holds: two builders do not list the index of this
\* second both, and those that keep enough delete nothing.
THEOREM RebuildInvariant == ASSUME Compatible PROVE Spec => []RebuildInv
<1>1. CASE AtMostTwo
  <2>1. RebuildInv /\ ListsInv => NoStaleDeletion
    <3> SUFFICES ASSUME RebuildInv, ListsInv, NEW b \in Builders, NEW c \in Builders, b # c,
                        At(b, "retire"), NEW i \in job[b].old \cap job[c].old,
                        NEW d \in Builders
                 PROVE  i # clock /\ ~At(d, "create")
      BY DEF NoStaleDeletion
    <3>1. i # clock
      BY DEF ListsInv, ListedInv
    <3>2. job[b].step \in {"swap", "retire"} /\ job[c].step \in {"swap", "retire"}
      BY DEF RebuildInv, BuilderInv
    <3>3. d = b \/ d = c
      BY <1>1 DEF AtMostTwo
    <3>4. QED
      BY <3>1, <3>2, <3>3 DEF At
  <2>2. RebuildInv /\ ListsInv /\ [Next]_vars => (RebuildInv /\ ListsInv)'
    BY <1>1, <2>1, NextRebuildInv, NextListsInv
  <2>3. QED
    BY <2>2, InitRebuildInv, InitListsInv, PTL DEF Spec
<1>2. CASE EnoughKept
  <2>1. KeptInv => NoStaleDeletion
    BY DEF KeptInv, NoStaleDeletion
  <2>2. Init => KeptInv
    BY DEF Init, KeptInv, At, NoJob
  <2>3. RebuildInv /\ PublishedInv /\ KeptInv /\ [Next]_vars =>
          (RebuildInv /\ PublishedInv /\ KeptInv)'
    BY <1>2, <2>1, NextRebuildInv, NextPublishedInv, NextKeptInv
  <2>4. QED
    BY <2>2, <2>3, InitRebuildInv, InitPublishedInv, PTL DEF Spec
<1>3. QED
  BY <1>1, <1>2 DEF Compatible

\* "queries against the alias never see a half-populated index" (indexer.py:18-20),
\* for any rows, any collisions of their _id, whatever call fails and whenever a
\* builder is killed: the count is enough to tell a complete index from another,
\* and no builder touches the index of another one.
THEOREM LiveAlwaysComplete == ASSUME Compatible PROVE Spec => []LiveIsComplete
<1>1. RebuildInv => LiveIsComplete
  BY DEF RebuildInv, AliasInv
<1>2. QED
  BY <1>1, RebuildInvariant, PTL

\* The index a builder fills is its own, although the builders name theirs by the
\* second and delete by the names they have read (indexer.py:205-206, 248-252).
THEOREM TargetsStayPrivate == ASSUME Compatible PROVE Spec => []TargetsArePrivate
<1>1. RebuildInv => TargetsArePrivate
  BY DEF RebuildInv, PrivateInv, BuilderInv, TargetInv, TargetsArePrivate
<1>2. QED
  BY <1>1, RebuildInvariant, PTL

\* Once there is a live index there always is one (indexer.py:236-238): what a
\* builder deletes is not behind the alias, and a swap leaves its target there.
THEOREM AliasIsNeverDropped == ASSUME Compatible PROVE Spec => AliasNeverDropped
<1>1. RebuildInv /\ [Next]_vars => (alias # {} => alias' # {}) \/ UNCHANGED vars
  <2> SUFFICES ASSUME RebuildInv, Next PROVE alias # {} => alias' # {}
    BY DEF vars
  <2>1. CASE ResetSchema \/ LoadDocuments \/ Tick
    BY <2>1 DEF ResetSchema, LoadDocuments, Tick
  <2>2. ASSUME NEW b \in Builders, Build(b) PROVE alias # {} => alias' # {}
    BY <2>2, LiveUntouched, SwapPublishes
  <2>3. QED
    BY <2>1, <2>2 DEF Next
<1>2. QED
  BY <1>1, RebuildInvariant, PTL DEF Spec, AliasNeverDropped

\* However their rebuilds interleave, builders never leave more than one live index
\* each, so that a query finds a document at most once per builder: update_aliases()
\* removes every index get_alias() named, its own last one among them.
THEOREM AliasSpansFew ==
  ASSUME Compatible, IsFiniteSet(Builders)
  PROVE  Spec => []OneLivePerBuilder
<1>1. Spec => []PublishedInv
  BY InitPublishedInv, NextPublishedInv, RebuildInvariant, PTL DEF Spec
<1>2. TypeOK /\ PublishedInv => OneLivePerBuilder
  BY AliasNoLarger DEF OneLivePerBuilder
<1>3. QED
  BY <1>1, <1>2, RebuildTypeCorrect, PTL

\* The read lock of a builder's transaction keeps resets out: what it has read is
\* the newest committed state, or the empty one that a load may follow.
LockInv ==
  \A b \in Builders :
    ~At(b, "idle") => job[b].ver = Len(history) \/ history[job[b].ver] = {}

\* No reset while a builder runs, and no load over rows.
LEMMA NextLockInv == TypeOK /\ LockInv /\ [Next]_vars => LockInv'
<1> SUFFICES ASSUME TypeOK, LockInv, [Next]_vars PROVE LockInv'
  OBVIOUS
<1>1. CASE ResetSchema
  BY <1>1 DEF ResetSchema, LockInv, HoldsReadLock, At
<1>2. CASE LoadDocuments
  <2>1. PICK rows \in SUBSET Docs :
          history' = Append(history, rows) /\ UNCHANGED <<clock, indices, alias, retired, job>>
    BY <1>2 DEF LoadDocuments
  <2>2. \A v \in 1..Len(history) : history'[v] = history[v]
    BY <2>1, CommitTypeOK
  <2>3. \A b \in Builders : ~At(b, "idle") =>
          job[b].ver \in 1..Len(history) /\ history[job[b].ver] = {}
    BY <1>2, TypedBuilder DEF LoadDocuments, LockInv
  <2>4. QED
    BY <2>1, <2>2, <2>3 DEF LockInv, At
<1>3. CASE Tick \/ UNCHANGED vars
  BY <1>3 DEF Tick, vars, LockInv, At
<1>4. ASSUME NEW b \in Builders, Build(b) PROVE LockInv'
  <2>1. UNCHANGED history /\ \A c \in Builders \ {b} : job'[c] = job[c]
    BY <1>4, OtherRecords
  <2>2. \/ job'[b].step = "idle"
        \/ job'[b].ver = Len(history)
        \/ ~At(b, "idle") /\ job'[b].ver = job[b].ver
    BY <1>4, OwnRecord
    DEF NameIndex, CreateIndex, IndexRow, RejectRow, FinishBulk, CountMatches, GetAlias,
        SwapAlias, DeleteRetired, At
  <2>3. QED
    BY <2>1, <2>2 DEF LockInv, At
<1>5. QED
  BY <1>1, <1>2, <1>3, <1>4 DEF Next

\* An index goes live with the newest committed rows, unless it is empty, however
\* many builders run beside it (build_index.py:61-85: one transaction from the
\* SELECT to the end).
THEOREM PublishedIsCurrent == ASSUME Compatible PROVE Spec => PublishedIsCurrentOrEmpty
<1>1. Init => LockInv
  BY DEF Init, LockInv, At, NoJob
<1>2. Spec => []LockInv
  BY <1>1, NextLockInv, RebuildTypeCorrect, PTL DEF Spec
<1>3. RebuildInv /\ LockInv /\ [Next]_vars =>
        (\A i \in alias' \ alias : indices[i].ver = Len(history) \/ indices[i].docs = {})
        \/ UNCHANGED vars
  <2> SUFFICES ASSUME RebuildInv, LockInv, Next, NEW i \in alias' \ alias
               PROVE  indices[i].ver = Len(history) \/ indices[i].docs = {}
    BY DEF vars
  <2>1. PICK b \in Builders : Build(b)
    BY DEF Next, ResetSchema, LoadDocuments, Tick
  <2>2. SwapAlias(b)
    BY <2>1, LiveUntouched
  <2>3. /\ i = job[b].target /\ indices[i].ver = job[b].ver
        /\ indices[i].docs = history[job[b].ver]
    BY <2>2, SwapPublishes DEF TargetInv
  <2>4. ~At(b, "idle")
    BY <2>2 DEF SwapAlias, At
  <2>5. QED
    BY <2>3, <2>4 DEF LockInv
<1>4. QED
  BY <1>2, <1>3, RebuildInvariant, PTL DEF Spec, PublishedIsCurrentOrEmpty

\* The retired indices exist, and none of them is being filled.
RetiredInv ==
  /\ \A i \in retired : indices[i].exists
  /\ \A b \in Builders : Building(b) => job[b].target \notin retired

\* An index is retired when it leaves the alias, and no longer when it is deleted.
LEMMA NextRetiredInv == RebuildInv /\ RetiredInv /\ [Next]_vars => RetiredInv'
<1> SUFFICES ASSUME RebuildInv, RetiredInv, [Next]_vars PROVE RetiredInv'
  OBVIOUS
<1>1. CASE UNCHANGED <<indices, retired, job>>
  BY <1>1 DEF RetiredInv, Building
<1>2. ASSUME NEW b \in Builders, Build(b) PROVE RetiredInv'
  <2>1. /\ TypeOK /\ retired \in SUBSET Names /\ alias \in SUBSET Names
        /\ indices \in [Names -> IndexType]
        /\ \A i \in alias : indices[i].exists
        /\ \A c \in Builders : Building(c) => job[c].target \notin alias
        /\ \A c \in Builders \ {b} : job'[c] = job[c]
    BY <1>2, InvFacts, OtherRecords DEF TypeOK
  <2>2. /\ retired' \subseteq retired \union alias
        /\ \A i \in retired \union alias : indices'[i].exists \/ i \notin retired'
    <3>1. CASE DeleteRetired(b) \/ AbortBulk(b) \/ CountMismatch(b)
      <4>1. PICK k \in Names : DeleteIndex(k)
        BY <1>2, <2>1, <3>1, TypedBuilder
        DEF DeleteRetired, AbortBulk, CountMismatch, Building, At
      <4>2. QED
        BY <2>1, <4>1 DEF DeleteIndex, RetiredInv
    <3>2. CASE SwapAlias(b)
      BY <2>1, <3>2 DEF SwapAlias, RetiredInv
    <3>3. CASE CreateIndex(b) \/ IndexRow(b)
      <4>1. job[b].target \in Names /\ UNCHANGED retired
        BY <2>1, <3>3, TypedBuilder DEF CreateIndex, IndexRow, Building, At
      <4>2. PICK rows : PutTarget(b, [exists |-> TRUE, ver |-> job[b].ver, docs |-> rows])
        BY <3>3 DEF CreateIndex, IndexRow
      <4>3. QED
        BY <2>1, <4>1, <4>2 DEF PutTarget, RetiredInv
    <3>4. CASE UNCHANGED <<indices, retired>>
      BY <2>1, <3>4 DEF RetiredInv
    <3>5. QED
      BY <1>2, <3>1, <3>2, <3>3, <3>4
      DEF Build, FetchDocuments, NameIndex, CreateCollides, RejectRow, FinishBulk,
          CountMatches, GetAlias, SwapFails, DeleteFails, ReturnSummary, Crash
  <2>3. ASSUME NEW c \in Builders, Building(c)' PROVE job'[c].target \notin retired \union alias
    <3>1. CASE Building(c) /\ job'[c].target = job[c].target
      BY <2>1, <3>1 DEF RetiredInv
    <3>2. CASE ~(Building(c) /\ job'[c].target = job[c].target)
      <4>1. c = b
        BY <2>1, <2>3, <3>2 DEF Building
      <4>2. CreateIndex(b) /\ job'[b].target = job[b].target
        BY <1>2, <2>1, <2>3, <3>2, <4>1, OwnRecord
        DEF IndexRow, RejectRow, FinishBulk, CountMatches, GetAlias, At, Building
      <4>3. ~indices[job[b].target].exists
        BY <4>2 DEF CreateIndex
      <4>4. QED
        BY <2>1, <4>1, <4>2, <4>3 DEF RetiredInv
    <3>3. QED
      BY <3>1, <3>2
  <2>4. QED
    BY <2>2, <2>3 DEF RetiredInv
<1>3. QED
  BY <1>1, <1>2 DEF Next, ResetSchema, LoadDocuments, Tick, vars

\* With no more builders than --keep-previous keeps indices (one, by default), an
\* index that was live and then replaced is there to roll back to for good
\* (indexer.py:20-22): nothing is ever deleted.
THEOREM RollbackStays == ASSUME EnoughKept PROVE Spec => RollbackStaysPossible
<1>1. Init => KeptInv /\ RetiredInv
  BY DEF Init, KeptInv, RetiredInv, At, Building, NoJob
<1>2. RebuildInv /\ PublishedInv /\ [Next]_vars => PublishedInv'
  BY NextPublishedInv
<1>3. RebuildInv /\ PublishedInv /\ KeptInv /\ [Next]_vars => KeptInv'
  BY NextKeptInv
<1>4. RebuildInv /\ RetiredInv /\ [Next]_vars => RetiredInv'
  BY NextRetiredInv
<1>5. Spec => [](RebuildInv /\ KeptInv /\ RetiredInv)
  BY <1>1, <1>2, <1>3, <1>4, InitPublishedInv, RebuildInvariant, PTL DEF Spec, Compatible
<1>6. RebuildInv /\ KeptInv /\ RetiredInv /\ [Next]_vars =>
        (retired # {} => retired' # {}) \/ UNCHANGED vars
  <2> SUFFICES ASSUME RebuildInv, KeptInv, RetiredInv, Next PROVE retired \subseteq retired'
    BY DEF vars
  <2>1. \A b \in Builders : ~DeleteRetired(b)
    BY DEF DeleteRetired, KeptInv
  <2>2. ASSUME NEW b \in Builders, AbortBulk(b) \/ CountMismatch(b) PROVE retired' = retired
    BY <2>2 DEF AbortBulk, CountMismatch, DeleteIndex, RetiredInv, Building, At
  <2>3. QED
    BY <2>1, <2>2
    DEF Next, ResetSchema, LoadDocuments, Tick, Build, FetchDocuments, NameIndex, CreateIndex,
        CreateCollides, IndexRow, RejectRow, FinishBulk, CountMatches, GetAlias, SwapAlias,
        SwapFails, DeleteFails, ReturnSummary, Crash
<1>7. QED
  BY <1>5, <1>6, PTL DEF Spec, RollbackStaysPossible

=============================================================================
