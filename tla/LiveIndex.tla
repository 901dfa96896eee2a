------------------------------ MODULE LiveIndex ------------------------------
(***************************************************************************)
(* What a reader of the alias `qa_documents` may rely on, with the way a   *)
(* rebuild works abstracted away: there is at most one live index, it      *)
(* holds exactly the rows of one committed state of Postgres, and a        *)
(* rebuild replaces it in one step by a newer one.                         *)
(*                                                                         *)
(* IndexRebuild implements this module; AnswerCache is built on top of it. *)
(***************************************************************************)
EXTENDS Naturals, Sequences

CONSTANTS
  Docs,         \* the documents a corpus can be made of
  MaxCommits,   \* bound: committed states of the tables
  MaxTime       \* bound: seconds on the builder's clock, hence index names

ASSUME LiveIndexAssumption == MaxCommits \in Nat /\ MaxTime \in Nat

VARIABLES
  history,      \* the committed states of table `documents`, oldest first
  live          \* the index behind the alias: its name, the committed state
                \* it was built from, and the rows it holds

liveIndexVars == <<history, live>>

\* The alias does not exist yet. Index names are timestamps, so 0 is not one.
NoIndex == [index |-> 0, ver |-> 0, rows |-> {}]

Init ==
  /\ history = <<{}>>
  /\ live = NoIndex

\* Postgres commits a new content of `documents`.
Commit ==
  /\ Len(history) < MaxCommits
  /\ \E rows \in SUBSET Docs : history' = Append(history, rows)
  /\ UNCHANGED live

\* The alias moves, in one step, to a newer index holding all the rows of a
\* committed state no older than the one it served so far.
Publish ==
  /\ \E i \in 1..MaxTime, v \in 1..Len(history) :
       /\ i > live.index
       /\ v >= live.ver
       /\ live' = [index |-> i, ver |-> v, rows |-> history[v]]
  /\ UNCHANGED history

Next == Commit \/ Publish

Spec == Init /\ [][Next]_liveIndexVars
=============================================================================
