SPECIFICATION Spec
CONSTANTS
  Fields = {"user", "mail"}
  Static = {"user"}
  MaxLength = 2
  Markups <- MCMarkups
  Accepts <- MCAccepts
PROPERTIES ParseEnables
CHECK_DEADLOCK FALSE
