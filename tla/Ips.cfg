\* Two images, 64 sources, files of build_ips and of another generator made
\* from each of them.  Offset 2 reads "EOF"; three bytes make a record too long.
CONSTANTS
  Base = 2
  EofOffset = 2
  MaxOffset = 3
  MaxSize = 2
  Reach = 2
  Stocks <- Images
  Sources <- Texts
SPECIFICATION Spec
INVARIANTS BuiltFileApplies NoFalseAlarm MatchIsHonest
