----------------------------- MODULE MCScreens -----------------------------
(* Instances of Screens for TLC: packets that differ in what is drawn and  *)
(* in how long their lines are.                                            *)
EXTENDS Screens

Packet(pressed, cp, tp) == [pressed |-> pressed, cp |-> cp, tp |-> tp]
Idle == Packet({}, "rest", "origin")
Some == Packet({"A", "ZL"}, "tilted", "origin")
Busy == Packet({"A"}, "rest", "touched")
Sent == {Idle, Some, Busy}

Buttons == <<"A", "ZL">>
WithPlace == {"A"}

\* The words of "seq=7 cp=(0,0) ...", "buttons: ...", "IR: ...", "CS: ...", "WIFI: ...".
Texts ==
  [p \in Sent |->
     << IF p = Idle THEN <<5, 8, 8, 8>> ELSE <<7, 14, 12, 14>>,
        IF p = Some THEN <<8, 1, 2>> ELSE <<8, 1>>,
        IF p = Busy THEN <<3, 7, 2, 6, 7, 12>> ELSE <<3, 7, 8, 4, 3, 7, 4, 12>>,
        IF p = Some THEN <<3, 6, 7, 1, 4, 3, 5, 3, 2, 6, 12>> ELSE <<3, 7, 12>>,
        <<5, 7, 3, 10, 11, 2>> >>]

\* The first is less than MIN_WIDTH.
TerminalWidths == {12, 20, 60}

\* What Python's textwrap makes of them, for Cli's assumption to compare.
Block(p, w, lengths) == [packet |-> p, columns |-> w, lines |-> lengths]
Narrow(p, lengths) == {Block(p, 12, lengths), Block(p, 20, lengths)}
BlockTable ==
  UNION {
    Narrow(Idle, <<14, 17, 10, 11, 17, 15, 8, 16, 11, 16, 17, 14, 18>>),
    Narrow(Some, <<7, 14, 12, 14, 13, 11, 17, 15, 8, 16, 18, 14, 16, 10, 16, 17, 14, 18>>),
    Narrow(Busy, <<7, 14, 12, 14, 10, 14, 18, 16, 11, 16, 17, 14, 18>>),
    { Block(Idle, 60, <<32, 10, 55, 24, 43>>),
      Block(Some, 60, <<50, 13, 55, 49, 16, 43>>),
      Block(Busy, 60, <<50, 10, 42, 24, 43>>) } }
=============================================================================
