SPECIFICATION Spec
CONSTANTS
  Fields = {"user", "mail"}
  Static = {"user"}
  MaxLength = 2
  Markups <- MCMarkups
  Accepts <- MCAccepts
INVARIANTS TypeOK SentIsLegal NothingSentUnasked CountsPending MessagesFollowVerdicts
PROPERTIES HeldIsDecided RefusedIsIllegal
CHECK_DEADLOCK FALSE
