-------------------------------- MODULE Feed --------------------------------
(***************************************************************************)
(* What the event bus promises, without queues: one log of news that only  *)
(* grows and a cursor per reader.  A reader sees the news in order, never  *)
(* twice, and skips only what at least Capacity newer ones have overtaken. *)
(* A reader that is away reads nothing, and joins at the end of the log.   *)
(***************************************************************************)
EXTENDS Integers, Sequences

CONSTANTS Readers, News, Capacity, Nothing

VARIABLES news, cursor, heard

vars == <<news, cursor, heard>>

Away == -1

(* A cursor stands before the oldest news its reader may still get. *)
Kept(at, length) == IF at # Away /\ at < length - Capacity THEN length - Capacity ELSE at

Init ==
  /\ news = <<>>
  /\ cursor = [r \in Readers |-> Away]
  /\ heard = [r \in Readers |-> Nothing]

Publish(n) ==
  /\ news' = Append(news, n)
  /\ cursor' = [r \in Readers |-> Kept(cursor[r], Len(news) + 1)]
  /\ UNCHANGED heard

Join(r) ==
  /\ cursor' = [cursor EXCEPT ![r] = Len(news)]
  /\ UNCHANGED <<news, heard>>

Leave(gone) ==
  /\ cursor' = [r \in Readers |-> IF r \in gone THEN Away ELSE cursor[r]]
  /\ UNCHANGED <<news, heard>>

Read(r) ==
  /\ cursor[r] \in 0 .. Len(news) - 1
  /\ heard' = [heard EXCEPT ![r] = news[cursor[r] + 1]]
  /\ cursor' = [cursor EXCEPT ![r] = @ + 1]
  /\ UNCHANGED news

Next ==
  \/ \E n \in News : Publish(n)
  \/ \E r \in Readers : Join(r) \/ Read(r)
  \/ \E gone \in SUBSET Readers : Leave(gone)

Spec == Init /\ [][Next]_vars
=============================================================================
