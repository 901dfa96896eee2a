---------------------------- MODULE LiveIndexProofs ----------------------------
(***************************************************************************)
(* Theorems about IndexRebuild with one builder at a time, the way         *)
(* build_index.py is meant to be run: the alias spans one index, and the   *)
(* rebuild implements LiveIndex.                                           *)
(***************************************************************************)
EXTENDS IndexRebuildProofs

OneBuilder == \A b \in Builders, c \in Builders : b = c

\* What holds of a builder that nobody runs beside: the alias stays what it was when
\* it was asked, the rows behind it are no newer than the ones read, and its index
\* is no later than the one being filled.
AloneInv(b) ==
  /\ At(b, "name") \/ At(b, "create") \/ Building(b) =>
       \A i \in alias : indices[i].ver <= job[b].ver
  /\ At(b, "create") => \A i \in alias : i <= job[b].target
  /\ Building(b) => \A i \in alias : i < job[b].target
  /\ At(b, "swap") => job[b].old = alias

SoleInv ==
  /\ \A i \in alias, k \in alias : i = k
  /\ \A b \in Builders : AloneInv(b)

\* One builder is among the cases RebuildInvariant is about.
LEMMA OneIsCompatible ==
  ASSUME OneBuilder
  PROVE  /\ Compatible
         /\ IsFiniteSet(Builders) /\ Cardinality(Builders) <= 1
         /\ KeepPrevious >= 1 => EnoughKept
<1>1. IsFiniteSet(Builders) /\ Cardinality(Builders) \in {0, 1}
  <2>1. CASE Builders = {}
    BY <2>1, FS_EmptySet
  <2>2. CASE Builders # {}
    <3>1. PICK b \in Builders : TRUE
      BY <2>2
    <3>2. Builders = {b}
      BY <3>1 DEF OneBuilder
    <3>3. QED
      BY <3>2, FS_Singleton
  <2>3. QED
    BY <2>1, <2>2
<1>2. QED
  BY <1>1, RebuildAssumption DEF OneBuilder, AtMostTwo, EnoughKept, Compatible

\* The swap puts the new index in the place of the old one, for all the alias had
\* when it was asked it still has.
LEMMA SwapReplaces ==
  ASSUME RebuildInv, SoleInv, NEW b \in Builders, SwapAlias(b)
  PROVE  /\ alias' = {job[b].target} /\ UNCHANGED <<history, indices, clock>>
         /\ job[b].target \in Names /\ TargetInv(b) /\ job[b].ver \in 1..Len(history)
         /\ indices[job[b].target].docs = history[job[b].ver]
         /\ \A i \in alias : i < job[b].target /\ indices[i].ver <= job[b].ver
<1>1. At(b, "swap") /\ Building(b)
  BY DEF SwapAlias, At, Building
<1>2. /\ job[b].old = alias
      /\ \A i \in alias : i < job[b].target /\ indices[i].ver <= job[b].ver
  BY <1>1 DEF SoleInv, AloneInv
<1>3. QED
  BY <1>2, SwapPublishes

\* Every step of the only builder keeps what it may rely on.
LEMMA BuildSoleInv ==
  ASSUME OneBuilder, RebuildInv, SoleInv, NEW b \in Builders, Build(b)
  PROVE  SoleInv'
<1> DEFINE j == job[b]
<1>1. AloneInv(b) /\ TypeOK
  BY DEF SoleInv, RebuildInv
<1>2. /\ j \in JobType /\ job \in [Builders -> JobType] /\ clock \in Names
      /\ Names \subseteq Nat /\ alias \in SUBSET Names
      /\ indices \in [Names -> IndexType]
  BY <1>1, TypedBuilder
<1>3. UNCHANGED <<clock, history>>
  BY <1>1, OtherRecords
<1>4. /\ \A i \in alias : indices'[i] = indices[i]
      /\ ~SwapAlias(b) => alias' = alias
  BY LiveUntouched
<1>5. CASE SwapAlias(b)
  <2>1. alias' = {j.target}
    BY <1>5, SwapReplaces
  <2>2. job'[b].step = "retire"
    <3>1. PICK drop \in SUBSET j.old :
            job' = [job EXCEPT ![b].step = "retire", ![b].old = drop]
      BY <1>5 DEF SwapAlias
    <3>2. QED
      BY <1>2, <3>1 DEF JobType
  <2>3. AloneInv(b)'
    BY <2>2 DEF AloneInv, At, Building
  <2>4. QED
    BY <2>1, <2>3 DEF SoleInv, OneBuilder
<1>6. CASE FetchDocuments(b)
  <2>1. job'[b].step = "name" /\ job'[b].ver = Len(history)
    BY <1>2, <1>6 DEF FetchDocuments, JobType
  <2>2. \A i \in alias : indices[i].ver <= Len(history)
    BY <1>1, <1>2 DEF TypeOK
  <2>3. alias' = alias /\ UNCHANGED indices
    BY <1>6 DEF FetchDocuments
  <2>4. AloneInv(b)'
    BY <2>1, <2>2, <2>3 DEF AloneInv, At, Building
  <2>5. QED
    BY <2>3, <2>4 DEF SoleInv, OneBuilder
<1>7. CASE NameIndex(b)
  <2>1. /\ job'[b].step = "create" /\ job'[b].ver = j.ver /\ job'[b].target = clock
        /\ j.step = "name" /\ UNCHANGED <<alias, indices>>
    BY <1>2, <1>7 DEF NameIndex, At, JobType
  <2>2. \A i \in alias : i <= clock
    BY InvFacts
  <2>3. AloneInv(b)'
    BY <1>1, <2>1, <2>2 DEF AloneInv, At, Building
  <2>4. QED
    BY <2>1, <2>3 DEF SoleInv, OneBuilder
<1>8. CASE CreateIndex(b)
  <2>1. /\ job'[b].step = "bulk" /\ job'[b].ver = j.ver /\ job'[b].target = j.target
        /\ j.step = "create" /\ alias' = alias /\ ~indices[j.target].exists
    BY <1>2, <1>8 DEF CreateIndex, At, JobType
  <2>2. j.target \in Names
    BY <2>1, InvFacts DEF At
  <2>3. \A i \in alias : indices[i].exists /\ i <= j.target
    BY <1>1, <2>1, InvFacts DEF AloneInv, At
  <2>4. \A i \in alias : i < j.target
    BY <1>2, <2>1, <2>2, <2>3
  <2>5. \A i \in alias : indices'[i].ver <= j.ver
    BY <1>1, <1>4, <2>1 DEF AloneInv, At
  <2>6. AloneInv(b)'
    BY <2>1, <2>4, <2>5 DEF AloneInv, At, Building
  <2>7. QED
    BY <2>1, <2>6 DEF SoleInv, OneBuilder
<1>9. CASE ~SwapAlias(b) /\ ~FetchDocuments(b) /\ ~NameIndex(b) /\ ~CreateIndex(b)
  <2>1. \/ job'[b].step \in {"idle", "retire"}
        \/ /\ Building(b) /\ job'[b].step \in {"bulk", "count", "getAlias", "swap"}
           /\ job'[b].ver = j.ver /\ job'[b].target = j.target
           /\ job'[b].step = "swap" => job'[b].old = alias
    BY <1>1, <1>9, OwnRecord
    DEF IndexRow, RejectRow, FinishBulk, CountMatches, GetAlias, At, Building
  <2>2. alias' = alias
    BY <1>4, <1>9
  <2>3. AloneInv(b)'
    BY <1>1, <1>4, <2>1, <2>2 DEF AloneInv, At, Building
  <2>4. QED
    BY <2>2, <2>3 DEF SoleInv, OneBuilder
<1>10. QED
  BY <1>5, <1>6, <1>7, <1>8, <1>9

\* So does every reload and every second.
LEMMA NextSoleInv ==
  ASSUME OneBuilder
  PROVE  RebuildInv /\ SoleInv /\ [Next]_vars => SoleInv'
<1> SUFFICES ASSUME RebuildInv, SoleInv, [Next]_vars PROVE SoleInv'
  OBVIOUS
<1>1. CASE UNCHANGED <<indices, alias, job>>
  BY <1>1 DEF SoleInv, AloneInv, At, Building
<1>2. CASE \E b \in Builders : Build(b)
  BY <1>2, BuildSoleInv
<1>3. QED
  BY <1>1, <1>2 DEF Next, ResetSchema, LoadDocuments, Tick, vars

\* The inductive invariant of one builder at a time.
THEOREM SoleInvariant == ASSUME OneBuilder PROVE Spec => [](RebuildInv /\ SoleInv)
<1>1. Init => SoleInv
  BY DEF Init, SoleInv, AloneInv, At, Building, NoJob
<1>2. RebuildInv /\ SoleInv /\ [Next]_vars => SoleInv'
  BY NextSoleInv
<1>3. Spec => []RebuildInv
  BY OneIsCompatible, RebuildInvariant
<1>4. QED
  BY <1>1, <1>2, <1>3, PTL DEF Spec

\* One index at a time is live: no query finds a document twice (update_aliases()
\* adds and removes in one request).
THEOREM AlwaysSingleLive == ASSUME OneBuilder PROVE Spec => []SingleLive
<1>1. TypeOK /\ PublishedInv => SingleLive
  <2> SUFFICES ASSUME TypeOK, PublishedInv PROVE SingleLive
    OBVIOUS
  <2>1. IsFiniteSet(alias) /\ Cardinality(alias) <= Cardinality(Builders)
    BY OneIsCompatible, AliasNoLarger
  <2>2. Cardinality(alias) \in Nat /\ Cardinality(Builders) \in Nat
    BY <2>1, FS_CardinalityType, OneIsCompatible
  <2>3. QED
    BY <2>1, <2>2, OneIsCompatible DEF SingleLive
<1>2. Spec => []PublishedInv
  BY OneIsCompatible, InitPublishedInv, NextPublishedInv, RebuildInvariant, PTL DEF Spec
<1>3. QED
  BY <1>1, <1>2, RebuildTypeCorrect, PTL

-----------------------------------------------------------------------------
(* The refinement of LiveIndex *)

\* What the readers see while the alias and what is behind it stay.
LEMMA ViewStays ==
  ASSUME alias' = alias, \A i \in alias : indices'[i] = indices[i]
  PROVE  LiveView' = LiveView
<1>1. CASE alias = {}
  BY <1>1 DEF LiveView
<1>2. CASE alias # {}
  <2> DEFINE i == CHOOSE k \in alias : TRUE
  <2>1. i \in alias
    BY <1>2
  <2>2. indices'[i] = indices[i]
    BY <2>1
  <2>3. QED
    BY <1>2, <2>2 DEF LiveView
<1>3. QED
  BY <1>1, <1>2

\* The view of an alias with one index.
LEMMA ViewOfOne ==
  ASSUME NEW i, alias = {i}
  PROVE  LiveView = [index |-> i, ver |-> indices[i].ver, rows |-> indices[i].docs]
<1>1. (CHOOSE k \in alias : TRUE) = i /\ alias # {}
  OBVIOUS
<1>2. QED
  BY <1>1 DEF LiveView

\* Every step of the only builder and of ingest.py is one of LiveIndex, or none:
\* the swap publishes, all that comes before and after it is invisible.
LEMMA NextImplements ==
  ASSUME RebuildInv, SoleInv, [Next]_vars
  PROVE  [LI!Next]_(LI!liveIndexVars)
<1>1. CASE ResetSchema \/ LoadDocuments
  <2>1. PICK rows \in SUBSET Docs :
          history' = Append(history, rows) /\ Len(history) < MaxCommits
          /\ UNCHANGED <<clock, indices, alias, retired, job>>
    BY <1>1 DEF ResetSchema, LoadDocuments
  <2>2. LiveView' = LiveView
    BY <2>1, ViewStays
  <2>3. QED
    BY <2>1, <2>2 DEF LI!Next, LI!Commit
<1>2. CASE Tick \/ UNCHANGED vars
  <2>1. UNCHANGED <<history, indices, alias>>
    BY <1>2 DEF Tick, vars
  <2>2. QED
    BY <2>1, ViewStays DEF LI!liveIndexVars
<1>3. ASSUME NEW b \in Builders, Build(b), ~SwapAlias(b) PROVE UNCHANGED LI!liveIndexVars
  BY <1>3, LiveUntouched, OtherRecords, ViewStays DEF LI!liveIndexVars, RebuildInv
<1>4. ASSUME NEW b \in Builders, SwapAlias(b) PROVE LI!Publish
  <2> DEFINE t == job[b].target
             v == job[b].ver
  <2>1. /\ alias' = {t} /\ UNCHANGED <<history, indices, clock>>
        /\ t \in Names /\ TargetInv(b) /\ v \in 1..Len(history)
        /\ indices[t].docs = history[v]
        /\ \A i \in alias : i < t /\ indices[i].ver <= v
    BY <1>4, SwapReplaces
  <2>2. LiveView' = [index |-> t, ver |-> v, rows |-> history[v]]
    <3>1. (CHOOSE k \in alias' : TRUE) = t /\ alias' # {}
      BY <2>1
    <3>2. indices'[t].ver = v /\ indices'[t].docs = history[v]
      BY <2>1 DEF TargetInv
    <3>3. QED
      BY <3>1, <3>2 DEF LiveView
  <2>3. t > LiveView.index /\ v >= LiveView.ver
    <3>1. CASE alias = {}
      BY <2>1, <3>1 DEF LiveView, Names
    <3>2. CASE alias # {}
      <4>1. PICK i \in alias : TRUE
        BY <3>2
      <4>2. alias = {i}
        BY <4>1 DEF SoleInv
      <4>3. LiveView.index = i /\ LiveView.ver = indices[i].ver
        BY <4>2, ViewOfOne
      <4>4. i < t /\ indices[i].ver <= v
        BY <2>1, <4>1
      <4>5. i \in Nat /\ t \in Nat /\ v \in Nat /\ indices[i].ver \in Nat
        BY <2>1, <4>1 DEF RebuildInv, TypeOK, Names, IndexType
      <4>6. QED
        BY <4>3, <4>4, <4>5
    <3>3. QED
      BY <3>1, <3>2
  <2>4. QED
    BY <2>1, <2>2, <2>3 DEF LI!Publish, Names
<1>5. QED
  BY <1>1, <1>2, <1>3, <1>4 DEF Next, LI!Next

\* One builder at a time, with any rows, failures and reloads, implements LiveIndex:
\* the atomic, never receding replacement of complete indices that AnswerCache, and
\* every reader of the alias, is built upon.
THEOREM ImplementsLive == ASSUME OneBuilder PROVE Spec => ImplementsLiveIndex
<1>1. Init => LI!Init
  <2> SUFFICES ASSUME Init PROVE LI!Init
    OBVIOUS
  <2>1. LiveView = [index |-> 0, ver |-> 0, rows |-> {}]
    BY DEF Init, LiveView
  <2>2. QED
    BY <2>1 DEF Init, LI!Init, LI!NoIndex
<1>2. RebuildInv /\ SoleInv /\ [Next]_vars => [LI!Next]_(LI!liveIndexVars)
  BY NextImplements
<1>3. QED
  BY <1>1, <1>2, SoleInvariant, PTL DEF Spec, ImplementsLiveIndex, LI!Spec

=============================================================================
