------------------------------ MODULE Overlay ------------------------------
(***************************************************************************)
(* viewer/main.py: a callback every millisecond takes one packet from Conn *)
(* and brings the labels and the canvas items up to date, one widget after *)
(* the other and call by call, since a Ctrl-C may come between any two; it *)
(* ends when Conn has, or when the window is closed.  Items of both        *)
(* canvases share one numbering here; Tk uses no number twice.             *)
(***************************************************************************)
EXTENDS Integers, Sequences, FiniteSets

CONSTANTS
  MaxLen,
  BTN,              \* the buttons, as a sequence
  Placed            \* those with a place in btn_cords

OverlayAssumption ==
  /\ BTN \in Seq({BTN[i] : i \in DOMAIN BTN})
  /\ \A b \in Placed : \E i \in DOMAIN BTN : BTN[i] = b

VARIABLES
  inputs, keepGoing, running, newest,  \* Conn
  ui, j, interrupted,          \* the step, nextInput, and history
  open,                        \* the window has not been closed
  scheduled, quitting,         \* after() is pending; quit() was called
  pos, part,                   \* the widget being drawn, and the call for it
  made,                        \* the item created and not yet the widget's
  labels,                      \* the packet each label shows
  held, nextId,                \* per widget, the item number it holds; Tk's next
  canvas                       \* the items: [id, widget, packet]

INSTANCE Conn

connVars == <<inputs, keepGoing, running, newest>>

widgets == <<labels, held, nextId, canvas>>
drawing == <<pos, part, made>>
overlay == <<open, scheduled, quitting, drawing, widgets>>

None == 0   \* no item

\* What update_lable brings up to date, in its order.
Order == BTN \o <<"cp", "tp", "cs", "wifi", "ir">>
Names == {Order[i] : i \in DOMAIN Order}
Drawn == Placed \cup {"cp", "tp"}   \* widgets that put an item on a canvas

WindowInit ==
  /\ open = TRUE /\ scheduled = TRUE /\ quitting = FALSE
  /\ pos = 1 /\ part = "label" /\ made = None
  /\ labels = [w \in Names |-> <<>>]
  /\ held = [w \in Drawn |-> None] /\ nextId = 1 /\ canvas = {}

-----------------------------------------------------------------------------
\* A press, a stick ten or more off the centre, a touch not at (0, 0).
Visible(w, p) ==
  CASE w = "cp" -> p.cp = "tilted"
    [] w = "tp" -> p.tp # "origin"
    [] OTHER -> w \in p.pressed

\* Mutant of Deletes: an arrow that is not drawn again is not deleted.
DeletesIfVisible(w) == held[w] # None /\ (w = "cp" => Visible(w, j))

\* Whatever is to be drawn, the item before it is deleted.
Deletes(w) == held[w] # None

Kept(w) == IF Deletes(w) THEN {i \in canvas : i.id # held[w]} ELSE canvas

Widget == Order[pos]

NextWidget ==
  /\ part' = "label"
  /\ IF pos < Len(Order) THEN pos' = pos + 1 /\ UNCHANGED ui
     ELSE ui' = "ended" /\ UNCHANGED pos

DrawVars == <<connVars, j, interrupted, open, scheduled, quitting>>

\* labels[...].config; a widget without an item is done with it.
SetLabel ==
  /\ ui = "draw" /\ part = "label"
  /\ labels' = [labels EXCEPT ![Widget] = j]
  /\ IF Widget \in Drawn THEN part' = "delete" /\ UNCHANGED <<ui, pos>> ELSE NextWidget
  /\ UNCHANGED <<DrawVars, made, held, nextId, canvas>>

\* Arrow.draw, ButtonPress.update and TouchScreen.draw: the item before is deleted.
\* If none follows, the arrow keeps the number of the one that is gone.
DeleteItem ==
  /\ ui = "draw" /\ part = "delete"
  /\ canvas' = Kept(Widget)
  /\ IF ~Visible(Widget, j) /\ Widget = "cp" THEN NextWidget
     ELSE /\ part' = IF Visible(Widget, j) THEN "create" ELSE "store"
          /\ UNCHANGED <<ui, pos>>
  /\ UNCHANGED <<DrawVars, made, labels, held, nextId>>

CreateItem ==
  /\ ui = "draw" /\ part = "create" /\ part' = "store"
  /\ canvas' = canvas \cup {[id |-> nextId, widget |-> Widget, packet |-> j]}
  /\ made' = nextId /\ nextId' = nextId + 1
  /\ UNCHANGED <<DrawVars, ui, pos, labels, held>>

\* self.arrow, self.press or self.touched, and on to the next widget.
StoreItem ==
  /\ ui = "draw" /\ part = "store"
  /\ held' = [held EXCEPT ![Widget] = made] /\ made' = None
  /\ NextWidget
  /\ UNCHANGED <<DrawVars, labels, nextId, canvas>>

Draw == SetLabel \/ DeleteItem \/ CreateItem \/ StoreItem

-----------------------------------------------------------------------------
\* update_lable.
Fire ==
  /\ ui = "loop" /\ open /\ scheduled /\ ~quitting
  /\ ui' = "has" /\ scheduled' = FALSE
  /\ UNCHANGED <<connVars, j, interrupted, open, quitting, drawing, widgets>>

Has ==
  /\ ui = "has"
  /\ ui' = IF HasInput THEN "get" ELSE "ended"
  /\ UNCHANGED <<connVars, j, interrupted, overlay>>

Get ==
  /\ ui = "get" /\ GetInput
  /\ j' = Head(inputs)
  /\ ui' = "draw" /\ pos' = 1 /\ part' = "label"
  /\ UNCHANGED <<interrupted, open, scheduled, quitting, made, widgets>>

\* Mutant of Quits: the end of the connection is not looked at.
QuitsNever == FALSE
Quits == ~keepGoing

\* Window.keepGoing is still true here: on_close only runs after the mainloop.
Reschedule ==
  /\ ui = "ended" /\ ui' = "loop"
  /\ quitting' = (quitting \/ Quits)
  /\ scheduled' = TRUE
  /\ UNCHANGED <<connVars, j, interrupted, open, drawing, widgets>>

-----------------------------------------------------------------------------
\* Closing the window destroys it and what was scheduled on it.
UserCloses ==
  /\ ui = "loop" /\ open
  /\ open' = FALSE /\ scheduled' = FALSE
  /\ UNCHANGED <<connVars, ui, j, interrupted, quitting, drawing, widgets>>

MainloopReturns ==
  /\ ui = "loop" /\ (quitting \/ ~open)
  /\ ui' = "stop"
  /\ UNCHANGED <<connVars, j, interrupted, overlay>>

\* on_close.
StopConn ==
  /\ ui = "stop" /\ ui' = "join"
  /\ Stop
  /\ UNCHANGED <<j, interrupted, overlay>>

Join ==
  /\ ui \in {"join", "unwound"} /\ ~running
  /\ ui' = "done"
  /\ UNCHANGED <<connVars, j, interrupted, overlay>>

\* Ctrl-C.  Tk reports what is raised in a callback and goes on, without the
\* rest of the callback and the rescheduling at its end; raised in the mainloop or
\* in on_close it ends main, and the interpreter waits for netThread.
Interrupt ==
  /\ \/ ui \in {"has", "get", "draw", "ended"} /\ ui' = "loop"
     \/ ui \in {"loop", "stop", "join"} /\ ui' = "unwound"
  /\ interrupted' = TRUE
  /\ UNCHANGED <<connVars, j, overlay>>

Main == Fire \/ Has \/ Get \/ Draw \/ Reschedule \/ MainloopReturns \/ StopConn \/ Join
OverlayNext == Main \/ UserCloses \/ Interrupt

-----------------------------------------------------------------------------
(* Between two callbacks every label shows the packet taken last, and the  *)
(* canvases hold one item for each pressed button with a place, for a      *)
(* tilted stick and for a touch, drawn for that packet, and no other, even *)
(* though the arrow keeps the number of an item that is gone.  At any time *)
(* an item is the one its widget will delete, or was created last and its  *)
(* number is about to be stored; a Ctrl-C right there leaves an item that  *)
(* no widget knows, but then no callback follows that would draw another.  *)
CanvasExact ==
  /\ ui = "loop" /\ ~interrupted /\ j # <<>> =>
       /\ labels = [w \in Names |-> j]
       /\ {<<i.widget, i.packet>> : i \in canvas}
            = {<<w, j>> : w \in {v \in Drawn : Visible(v, j)}}
  /\ \A i \in canvas : i.id \in {held[i.widget], made}
  /\ made # None => \/ ui = "draw" /\ part = "store"
                    \/ interrupted /\ ~scheduled /\ ui \notin {"has", "get", "draw", "ended"}
=============================================================================
