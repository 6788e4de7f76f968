-------------------------------- MODULE Pager --------------------------------
(***************************************************************************)
(* What the emergency chain promises per alarm, "als een pieper van de     *)
(* brandweer" (notify/pushover.py): the bell of an alarm rings for one     *)
(* emergency at a time; a new one is decided on only while the alarm is    *)
(* open and its bell is quiet, so that an acknowledgement is followed by   *)
(* at most one emergency that was already under way; and an alarm that was *)
(* confirmed on the phone never rings again.                               *)
(***************************************************************************)
CONSTANT Alarms

VARIABLES
  raised,  (* Alarms that happened.                                   *)
  acked,   (* Alarms acknowledged.                                    *)
  due,     (* Alarms with an emergency decided on but not accepted.   *)
  bell     (* Per alarm: quiet, ringing, or confirmed on the phone.   *)

vars == <<raised, acked, due, bell>>

Init ==
  /\ raised = {} /\ acked = {} /\ due = {}
  /\ bell = [a \in Alarms |-> "quiet"]

Raise(a) ==
  /\ a \notin raised
  /\ raised' = raised \cup {a}
  /\ due' = due \cup {a}
  /\ UNCHANGED <<acked, bell>>

(* The emergency before this one ended unconfirmed. *)
Decide(a) ==
  /\ a \in raised \ acked
  /\ bell[a] = "quiet"
  /\ due' = due \cup {a}
  /\ UNCHANGED <<raised, acked, bell>>

Ring(a) ==
  /\ a \in due
  /\ bell[a] = "quiet"
  /\ bell' = [bell EXCEPT ![a] = "ringing"]
  /\ due' = due \ {a}
  /\ UNCHANGED <<raised, acked>>

(* Pushover did not take it. *)
Drop(a) ==
  /\ a \in due
  /\ due' = due \ {a}
  /\ UNCHANGED <<raised, acked, bell>>

(* The emergency expires or is withdrawn. *)
Quieten(a) ==
  /\ bell[a] = "ringing"
  /\ bell' = [bell EXCEPT ![a] = "quiet"]
  /\ UNCHANGED <<raised, acked, due>>

Confirm(a) ==
  /\ bell[a] = "ringing"
  /\ bell' = [bell EXCEPT ![a] = "confirmed"]
  /\ UNCHANGED <<raised, acked, due>>

(* From the dashboard, one or all, or from the phone. *)
Acknowledge ==
  /\ \E S \in SUBSET raised : acked' = acked \cup S
  /\ UNCHANGED <<raised, due, bell>>

Next ==
  \/ \E a \in Alarms : Raise(a) \/ Decide(a) \/ Ring(a) \/ Drop(a) \/ Quieten(a) \/ Confirm(a)
  \/ Acknowledge

Spec == Init /\ [][Next]_vars
=============================================================================
