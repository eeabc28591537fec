------------------------ MODULE ConnectionLifecycle ------------------------
(***************************************************************************)
(* What a comms::connection promises the object that owns it, over TCP and *)
(* over SSL alike: which events it delivers, in which order, and when it   *)
(* takes a message.  Sockets, completions and flags are hidden.            *)
(*                                                                         *)
(*   - CONNECTED comes first, and once;                                    *)
(*   - data and SENT are delivered only between CONNECTED and DISCONNECTED,*)
(*     and never while the application is still in an earlier event;       *)
(*   - SENT follows a message that was taken, one SENT for one message;    *)
(*   - after DISCONNECTED nothing more is delivered, but DISCONNECTED      *)
(*     itself may be repeated inside the event that caused it.             *)
(***************************************************************************)
VARIABLES
  phase,   \* "fresh", then "up" from CONNECTED on, then "down"
  busy,    \* a message has been taken and SENT has not been delivered
  event    \* the event the application is being told of, or "none"

lvars == <<phase, busy, event>>

Init == phase = "fresh" /\ busy = FALSE /\ event = "none"

Connected ==
  /\ phase = "fresh" /\ event = "none"
  /\ phase' = "up" /\ event' = "connected" /\ UNCHANGED busy

Received ==
  /\ phase = "up" /\ event = "none"
  /\ event' = "received" /\ UNCHANGED <<phase, busy>>

Sent ==
  /\ phase = "up" /\ event = "none" /\ busy
  /\ busy' = FALSE /\ event' = "sent" /\ UNCHANGED phase

Returns ==
  /\ event # "none"
  /\ event' = "none" /\ UNCHANGED <<phase, busy>>

(* A message can be taken after DISCONNECTED, in the event that caused it; *)
(* no SENT follows.                                                        *)
Take ==
  /\ phase # "fresh" /\ ~busy
  /\ busy' = TRUE /\ UNCHANGED <<phase, event>>

Disconnected ==
  /\ phase = "up"
  /\ phase' = "down" /\ UNCHANGED <<busy, event>>

Next == Connected \/ Received \/ Sent \/ Returns \/ Take \/ Disconnected

Spec == Init /\ [][Next]_lvars
=============================================================================
