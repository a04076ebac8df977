SPECIFICATION Spec
CONSTANTS
  Clients = {c1, c2}
  Fields = {"duration", "meta", "tracks"}
  MaxVersion = 2
  MaxChanges = 2
INVARIANTS TypeOK OutdatedIsDropped ParsedOnce
PROPERTIES ParsingEnds
CHECK_DEADLOCK FALSE
