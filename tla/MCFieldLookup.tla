---------------------------- MODULE MCFieldLookup ----------------------------
\* Two bugs that mention each other and a test case, which one of them cites; the
\* other cites a test case no file describes. In one edition of the files the
\* first bug is gone, in another it is all there is, in a third it is there twice.
EXTENDS FieldLookup

CONSTANTS bug1, bug2, case, missing

MCCorpora ==
  {[docs |-> <<bug1, bug2, case>>,
    links |-> <<{<<bug1, case>>, <<bug2, missing>>}, {<<bug1, bug2>>}, {<<bug1, bug2>>}>>],
   [docs |-> <<bug2, case>>,
    links |-> <<{<<bug2, missing>>}, {}, {}>>],
   [docs |-> <<bug1>>,
    links |-> <<{<<bug1, case>>}, {<<bug1, bug2>>}, {}>>],
   [docs |-> <<bug1, bug1>>, links |-> <<{}, {}, {}>>]}
==============================================================================
