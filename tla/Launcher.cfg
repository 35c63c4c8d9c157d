\* Launches of a console that may be switched off, with a card that may fail.
CONSTANTS
  Buttons = {"A", "B"}
SPECIFICATION Spec
INVARIANTS AccessoryReleased StatusIsTrue PieceOnlyAfterPowerCut
PROPERTIES UserFileKept
