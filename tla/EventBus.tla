------------------------------ MODULE EventBus ------------------------------
(***************************************************************************)
(* bus.py: publish puts an event in the queue of every subscriber without  *)
(* waiting; a full queue gives up its oldest event.                        *)
(***************************************************************************)
EXTENDS Integers, Sequences

CONSTANTS
  Subscribers, (* The dispatcher, web sockets, the MQTT publisher.            *)
  Capacity,    (* queue_size of the bus.                                      *)
  Events,      (* What may be published.                                      *)
  NoEvent

ASSUME CapacityPositive == Capacity \in Nat \ {0}
ASSUME NoEventIsNone == NoEvent \notin Events

VARIABLES
  subscribed,  (* Who is inside subscribe().                                  *)
  inbox,       (* _subscribers: a queue each.                                 *)
  published,   (* History: every event ever published, in order.              *)
  heard        (* History: what each subscriber took from its queue last.     *)

busVars == <<subscribed, inbox, published, heard>>

BusTypeOK ==
  /\ subscribed \subseteq Subscribers
  /\ inbox \in [Subscribers -> Seq(Events)]
  /\ published \in Seq(Events)
  /\ heard \in [Subscribers -> Events \cup {NoEvent}]

BusInit ==
  /\ subscribed = {}
  /\ inbox = [s \in Subscribers |-> <<>>]
  /\ published = <<>>
  /\ heard = [s \in Subscribers |-> NoEvent]

(* Mutant: the new event overtakes those that wait. *)
PutInFront(waiting, e) ==
  <<e>> \o (IF Len(waiting) = Capacity THEN Tail(waiting) ELSE waiting)

Put(waiting, e) ==
  Append(IF Len(waiting) = Capacity THEN Tail(waiting) ELSE waiting, e)

Publish(e) ==
  /\ published' = Append(published, e)
  /\ inbox' = [s \in Subscribers |->
                 IF s \in subscribed THEN Put(inbox[s], e) ELSE inbox[s]]
  /\ UNCHANGED <<subscribed, heard>>

(* The queue is new: what was published before is not in it. *)
Subscribe(s) ==
  /\ s \notin subscribed
  /\ subscribed' = subscribed \cup {s}
  /\ inbox' = [inbox EXCEPT ![s] = <<>>]
  /\ UNCHANGED <<published, heard>>

Unsubscribe(gone) ==
  /\ subscribed' = subscribed \ gone
  /\ UNCHANGED <<inbox, published, heard>>

Take(s) ==
  /\ s \in subscribed
  /\ inbox[s] # <<>>
  /\ heard' = [heard EXCEPT ![s] = Head(inbox[s])]
  /\ inbox' = [inbox EXCEPT ![s] = Tail(@)]
  /\ UNCHANGED <<subscribed, published>>

-----------------------------------------------------------------------------
(* A queue holds the last events published: its reader's cursor stands      *)
(* before them.                                                             *)
Cursor == [s \in Subscribers |->
             IF s \in subscribed THEN Len(published) - Len(inbox[s]) ELSE -1]

F == INSTANCE Feed WITH Readers <- Subscribers, News <- Events, Nothing <- NoEvent,
                        news <- published, cursor <- Cursor
=============================================================================
