SPECIFICATION FairSpec
CONSTANTS
  r1 = r1
  r2 = r2
  r3 = r3
  NoRequest = NoRequest
  Requests = {r1, r2, r3}
  Answers = {r1, r2}
  LineMixes = {{"auto"}, {"manual"}, {"two_way"}, {"auto", "manual"}}
  FirstNumbers = {TRUE, FALSE}
  MaxCrashes = 2
INVARIANTS NumbersInSequence LateCallsOrderNothing StandsOnAnswers
PROPERTIES RequestsEnd
CHECK_DEADLOCK FALSE
