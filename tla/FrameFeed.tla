----------------------------- MODULE FrameFeed -----------------------------
(***************************************************************************)
(* What the TCP side of 3Input promises to the rest of the module, seen    *)
(* from the input loop: a set of subscribers, and frames published to      *)
(* them.  While a frame is being published, due holds the subscribers that *)
(* have not been offered it yet.  Each of them is served exactly once,     *)
(* being served is the only way to lose the subscription during a frame,   *)
(* and nobody joins in the middle of one.  NetServer, with its client      *)
(* array that swaps the last entry into the slot of a removed one, is      *)
(* shown to implement this.                                                *)
(***************************************************************************)
CONSTANT Subscriber

VARIABLES subs, due

feedVars == <<subs, due>>

Init == subs = {} /\ due = {}

Join(s) ==
  /\ due = {}
  /\ s \in Subscriber \ subs
  /\ subs' = subs \cup {s}
  /\ UNCHANGED due

Publish ==
  /\ due = {}
  /\ due' = subs
  /\ UNCHANGED subs

Serve(s) ==
  /\ s \in due
  /\ due' = due \ {s}
  /\ subs' \in {subs, subs \ {s}}

Disband ==
  /\ due = {}
  /\ subs' = {}
  /\ UNCHANGED due

Next ==
  \/ \E s \in Subscriber : Join(s) \/ Serve(s)
  \/ Publish
  \/ Disband

\* A frame that was started is finished: the input loop never blocks in it.
Spec == Init /\ [][Next]_feedVars /\ WF_feedVars(\E s \in Subscriber : Serve(s))
=============================================================================
