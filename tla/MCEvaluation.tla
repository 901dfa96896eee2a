---------------------------- MODULE MCEvaluation ----------------------------
(***************************************************************************)
(* Three bugs and a test case. Before: two bugs that cite the test case,   *)
(* one a duplicate of the other and naming it in its title, their modules  *)
(* the same but for case. After: the test case gone and its citation       *)
(* dangling, a new bug related to the first, and one that stands alone. Or *)
(* all four, more than the pool of neighbours holds. Any of these may come *)
(* first, any other next.                                                  *)
(***************************************************************************)
EXTENDS Evaluation

CONSTANTS b1, b2, b3, t1

MCDocs == {b1, b2, b3, t1}
MCIdOrder == <<b1, b2, b3, t1>>

Bug(module, status, names) ==
  [doc_type |-> "bug_report", module |-> module, status |-> status, names |-> names]
Case(module) ==
  [doc_type |-> "test_case", module |-> module, status |-> "", names |-> <<>>]

Early ==
  [docs |-> [d \in {b1, b2, t1} |->
               IF d = b1 THEN Bug("Login", "Open", <<>>)
               ELSE IF d = b2 THEN Bug("login", "Open", <<b1>>) ELSE Case("Login")],
   refs |-> {<<b1, t1, "test_case_citation">>, <<b2, b1, "duplicate_of">>,
             <<b2, t1, "test_case_citation">>},
   coded |-> {b1, b2}]
Later ==
  [docs |-> [d \in {b1, b2, b3} |->
               IF d = b2 THEN Bug("Cart", "In Progress", <<>>)
               ELSE Bug("Login", "Resolved", <<>>)],
   refs |-> {<<b1, t1, "test_case_citation">>, <<b1, b3, "related_to">>},
   coded |-> {b1, b3}]
Full ==
  [docs |-> [d \in MCDocs |->
               IF d = t1 THEN Case("Cart")
               ELSE IF d = b1 THEN Bug("Cart", "", <<>>) ELSE Bug("Login", "Open", <<t1>>)],
   refs |-> {<<b1, t1, "test_case_citation">>, <<b2, t1, "test_case_citation">>},
   coded |-> {b3, t1}]
MCCorpora == {Early, Later, Full}

Asks(mentions, words, filter) ==
  [mentions |-> mentions, words |-> words, reasons |-> FALSE, code |-> FALSE,
   counts |-> FALSE, filter |-> filter]
Expects(q, expect) ==
  [question |-> q, type |-> "holdout", all |-> {}, any |-> {}, someOf |-> {},
   atLeast |-> 0, none |-> {}, expect |-> expect]

ForCases == [key \in {"doc_type"} |-> "test_case"]
InLogin == [key \in {"module"} |-> "Login"]
Vague == Expects(Asks(<<>>, {}, NoFilter), "reject_or_abstain")
Counting == [Expects([Asks(<<>>, {}, InLogin) EXCEPT !.counts = TRUE], "answer")
               EXCEPT !.any = {b1, b2}]
Naming == [Expects([Asks(<<b2, t1, b2>>, {}, InLogin) EXCEPT !.reasons = TRUE], "answer")
             EXCEPT !.all = {b2}]
Mixed == [Expects(Asks(<<t1>>, {"steps", "status"}, ForCases), "answer")
            EXCEPT !.someOf = {t1}, !.atLeast = 1]
Crossed == [Expects(Asks(<<b1>>, {"steps", "expected result"}, NoFilter), "abstain")
              EXCEPT !.none = {b3}]
MCHoldout == {Vague, Counting, Naming, Mixed, Crossed}
MCSelections == {<<Vague, Counting>>, <<Naming>>, <<Mixed>>, <<Crossed>>}

MCByHand == <<[question |-> Vague.question, type |-> "out_of_domain", requires |-> <<>>]>>
AskedByScripts ==
  {i.question : i \in MCHoldout}
    \cup UNION {UNION {{i.question : i \in Range(items)} : items \in BuildEvalSeed(c)} :
                  c \in MCCorpora}
MCAsked == AskedByScripts
MCReplies == {[mentions |-> {b1, b2, t1}, says |-> {"duplicate", "duplicate of", "not found"}],
              [mentions |-> {}, says |-> {"abstains"}]}
MCOneWord == {"Login", "login", "Cart", "Open", "Resolved", "unspecified-status"}
MCFold(word) == IF word = "Login" THEN "login" ELSE word
=============================================================================
