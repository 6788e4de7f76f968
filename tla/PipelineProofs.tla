--------------------------- MODULE PipelineProofs ---------------------------
(***************************************************************************)
(* Proofs about Pipeline and EventBus, for every set of events and         *)
(* subscribers, every size of the queues and every number of failures.     *)
(***************************************************************************)
EXTENDS Pipeline, TLAPS

(* A process that is down holds nothing; one that runs has its dispatcher. *)
ModeFits ==
  /\ mode = "down" => /\ subscribed = {} /\ queue = <<>> /\ step = "idle"
                      /\ sending = {} /\ ~broken
  /\ mode # "down" => Dispatcher \in subscribed

(* The queue of a subscriber is the end of what was published. *)
Ends(w, p) ==
  /\ Len(w) <= Len(p)
  /\ \A i \in 1 .. Len(w) : w[i] = p[Len(p) - Len(w) + i]

QueuesFit ==
  \A s \in subscribed : Len(inbox[s]) <= Capacity /\ Ends(inbox[s], published)

(* The newest notice that is not applied yet, in the queue or in _process, *)
(* tells how the last call to the database ended; without one, the state   *)
(* tells it already.                                                       *)
Word(failed) == IF failed THEN "DBFAIL" ELSE "DBOK"

Quiet(from) == \A j \in from .. Len(queue) : queue[j] \notin Notices

OutageOnItsWay ==
  mode # "down" /\ steady =>
     \/ \E i \in 1 .. Len(queue) : queue[i] = Word(broken) /\ Quiet(i + 1)
     \/ Quiet(1) /\ cur = Word(broken)
     \/ Quiet(1) /\ cur \notin Notices /\ (trouble <=> broken)

IInv == TypeOK /\ ModeFits /\ QueuesFit /\ NoAlarmLost /\ OutageOnItsWay

-----------------------------------------------------------------------------
(***************************************************************************)
(* Sequences as queues.                                                    *)
(***************************************************************************)

LEMMA ToSetEmpty == ToSet(<<>>) = {}
  BY DEF ToSet

(* What is put at the end is in the queue, and all the rest stays. *)
LEMMA ToSetAppend ==
  ASSUME NEW S, NEW s \in Seq(S), NEW e \in S
  PROVE  ToSet(Append(s, e)) = ToSet(s) \cup {e}
  <1>1. ASSUME NEW x \in ToSet(Append(s, e)) PROVE x \in ToSet(s) \cup {e}
    BY <1>1 DEF ToSet
  <1>2. ASSUME NEW x \in ToSet(s) PROVE x \in ToSet(Append(s, e))
    <2>1. PICK i \in DOMAIN s : x = s[i]
      BY <1>2 DEF ToSet
    <2>2. i \in DOMAIN Append(s, e) /\ Append(s, e)[i] = x
      BY <2>1
    <2> QED
      BY <2>2 DEF ToSet
  <1>3. e \in ToSet(Append(s, e))
    <2>1. Len(s) + 1 \in DOMAIN Append(s, e) /\ Append(s, e)[Len(s) + 1] = e
      OBVIOUS
    <2> QED
      BY <2>1 DEF ToSet
  <1> QED
    BY <1>1, <1>2, <1>3

(* Taking the head leaves the others. *)
LEMMA ToSetTail ==
  ASSUME NEW S, NEW s \in Seq(S), s # <<>>
  PROVE  /\ Head(s) \in S /\ Tail(s) \in Seq(S)
         /\ ToSet(s) = {Head(s)} \cup ToSet(Tail(s))
  <1>1. ASSUME NEW x \in ToSet(s) PROVE x \in {Head(s)} \cup ToSet(Tail(s))
    <2>1. PICK i \in DOMAIN s : x = s[i]
      BY <1>1 DEF ToSet
    <2>2. CASE i = 1
      BY <2>1, <2>2
    <2>3. CASE i # 1
      <3>1. i - 1 \in DOMAIN Tail(s) /\ Tail(s)[i - 1] = x
        BY <2>1, <2>3
      <3> QED
        BY <3>1 DEF ToSet
    <2> QED
      BY <2>2, <2>3
  <1>2. ASSUME NEW x \in ToSet(Tail(s)) PROVE x \in ToSet(s)
    <2>1. PICK i \in DOMAIN Tail(s) : x = Tail(s)[i]
      BY <1>2 DEF ToSet
    <2>2. i + 1 \in DOMAIN s /\ s[i + 1] = x
      BY <2>1
    <2> QED
      BY <2>2 DEF ToSet
  <1>3. 1 \in DOMAIN s /\ Head(s) = s[1]
    OBVIOUS
  <1> QED
    BY <1>1, <1>2, <1>3 DEF ToSet

-----------------------------------------------------------------------------
(***************************************************************************)
(* The bus.                                                                *)
(***************************************************************************)

(* Nothing is the end of every sequence. *)
LEMMA EndsEmpty ==
  ASSUME NEW S, NEW p \in Seq(S)
  PROVE  Ends(<<>>, p) /\ Len(<<>>) = 0
  <1>1. Len(<<>>) = 0 /\ Len(p) \in Nat /\ 1 .. 0 = {}
    OBVIOUS
  <1> QED
    BY <1>1 DEF Ends

(* An end of a sequence stays one when both get the same element ... *)
LEMMA EndsAppend ==
  ASSUME NEW S, NEW w \in Seq(S), NEW p \in Seq(S), NEW e \in S, Ends(w, p)
  PROVE  Ends(Append(w, e), Append(p, e)) /\ Len(Append(w, e)) = Len(w) + 1
  <1>1. /\ Len(Append(w, e)) = Len(w) + 1 /\ Len(Append(p, e)) = Len(p) + 1
        /\ Len(w) \in Nat /\ Len(p) \in Nat /\ Len(w) <= Len(p)
    BY DEF Ends
  <1>2. ASSUME NEW i \in 1 .. Len(w) + 1
        PROVE  Append(w, e)[i] = Append(p, e)[Len(p) + 1 - (Len(w) + 1) + i]
    <2>1. CASE i = Len(w) + 1
      <3>1. Len(p) + 1 - (Len(w) + 1) + i = Len(p) + 1
        BY <1>1, <2>1
      <3>2. Append(w, e)[i] = e /\ Append(p, e)[Len(p) + 1] = e
        BY <2>1
      <3> QED
        BY <3>1, <3>2
    <2>2. CASE i # Len(w) + 1
      <3>1. /\ Len(p) + 1 - (Len(w) + 1) + i = Len(p) - Len(w) + i
            /\ i \in 1 .. Len(w) /\ Len(p) - Len(w) + i \in 1 .. Len(p)
        BY <1>1, <2>2
      <3>2. w[i] = p[Len(p) - Len(w) + i]
        BY <3>1 DEF Ends
      <3>3. Append(w, e)[i] = w[i]
        BY <3>1
      <3>4. Append(p, e)[Len(p) - Len(w) + i] = p[Len(p) - Len(w) + i]
        BY <3>1
      <3> QED
        BY <3>1, <3>2, <3>3, <3>4
    <2> QED
      BY <2>1, <2>2
  <1> DEFINE w1 == Append(w, e)
             p1 == Append(p, e)
  <1> HIDE DEF w1, p1
  <1>3. /\ Len(w1) = Len(w) + 1 /\ Len(p1) = Len(p) + 1
        /\ \A i \in 1 .. Len(w) + 1 : w1[i] = p1[Len(p) + 1 - (Len(w) + 1) + i]
    BY <1>1, <1>2, Zenon DEF w1, p1
  <1>4. Ends(w1, p1)
    BY <1>1, <1>3 DEF Ends
  <1> QED
    BY <1>1, <1>4 DEF w1, p1

(* ... and when it loses its head. *)
LEMMA EndsTail ==
  ASSUME NEW S, NEW w \in Seq(S), w # <<>>, NEW p \in Seq(S), Ends(w, p)
  PROVE  /\ Tail(w) \in Seq(S) /\ Ends(Tail(w), p) /\ Len(Tail(w)) = Len(w) - 1
         /\ Len(w) \in Nat \ {0} /\ Len(w) <= Len(p) /\ Len(p) \in Nat
         /\ Head(w) = p[Len(p) - Len(w) + 1]
  <1>1. /\ Tail(w) \in Seq(S) /\ Len(Tail(w)) = Len(w) - 1 /\ Len(w) \in Nat \ {0}
        /\ Len(p) \in Nat /\ Len(w) <= Len(p)
    BY DEF Ends
  <1>2. ASSUME NEW i \in 1 .. Len(w) - 1
        PROVE  Tail(w)[i] = p[Len(p) - (Len(w) - 1) + i]
    <2>1. i + 1 \in 1 .. Len(w) /\ Len(p) - Len(w) + (i + 1) = Len(p) - (Len(w) - 1) + i
      BY <1>1
    <2>2. w[i + 1] = p[Len(p) - Len(w) + (i + 1)]
      BY <2>1 DEF Ends
    <2>3. Tail(w)[i] = w[i + 1]
      BY <1>1
    <2> QED
      BY <2>1, <2>2, <2>3
  <1>3. Head(w) = w[1] /\ 1 \in 1 .. Len(w)
    BY <1>1
  <1>4. w[1] = p[Len(p) - Len(w) + 1]
    BY <1>3 DEF Ends
  <1> QED
    BY <1>1, <1>2, <1>3, <1>4 DEF Ends

LEMMA PutTyped ==
  ASSUME NEW w \in Seq(Events), NEW e \in Events
  PROVE  Put(w, e) \in Seq(Events)
  BY CapacityPositive DEF Put

(* Every operation of the bus keeps the types. *)
LEMMA BusTyped ==
  ASSUME BusTypeOK
  PROVE  /\ \A e \in Events : Publish(e) => BusTypeOK'
         /\ \A s \in Subscribers : Subscribe(s) \/ Take(s) => BusTypeOK'
         /\ \A gone : Unsubscribe(gone) => BusTypeOK'
  <1>1. ASSUME NEW e \in Events, Publish(e) PROVE BusTypeOK'
    BY <1>1, PutTyped DEF BusTypeOK, Publish
  <1>2. ASSUME NEW s \in Subscribers, Subscribe(s) PROVE BusTypeOK'
    BY <1>2 DEF BusTypeOK, Subscribe
  <1>3. ASSUME NEW s \in Subscribers, Take(s) PROVE BusTypeOK'
    <2>1. inbox[s] \in Seq(Events) /\ inbox[s] # <<>>
      BY <1>3 DEF BusTypeOK, Take
    <2>2. Head(inbox[s]) \in Events /\ Tail(inbox[s]) \in Seq(Events)
      BY <2>1
    <2> QED
      BY <1>3, <2>2 DEF BusTypeOK, Take
  <1>4. ASSUME NEW gone, Unsubscribe(gone) PROVE BusTypeOK'
    BY <1>4 DEF BusTypeOK, Unsubscribe
  <1> QED
    BY <1>1, <1>2, <1>3, <1>4

(* How far the cursor of a reader with n events waiting is from a longer log. *)
LEMMA KeptIs ==
  ASSUME NEW l \in Nat, NEW n \in Nat, n <= l, n <= Capacity
  PROVE  F!Kept(l - n, l + 1) = IF n = Capacity THEN (l + 1) - Capacity ELSE l - n
  <1>1. Capacity \in Nat /\ l - n \in Nat /\ l - n # -1
    BY CapacityPositive
  <1>2. CASE n = Capacity
    <2>1. l - n < (l + 1) - Capacity
      BY <1>1, <1>2
    <2> QED
      BY <1>1, <1>2, <2>1 DEF F!Kept, F!Away
  <1>3. CASE n # Capacity
    <2>1. ~(l - n < (l + 1) - Capacity)
      BY <1>1, <1>3
    <2> QED
      BY <1>1, <1>3, <2>1 DEF F!Kept, F!Away
  <1> QED
    BY <1>2, <1>3

(* publish: every subscriber has the end of the longer log, and its cursor     *)
(* moves only when its queue was full.                                         *)
LEMMA PublishIsPublish ==
  ASSUME BusTypeOK, QueuesFit, NEW e \in Events, Publish(e)
  PROVE  QueuesFit' /\ F!Publish(e)
  <1>0. /\ published \in Seq(Events) /\ published' = Append(published, e)
        /\ Len(published) \in Nat /\ Len(published') = Len(published) + 1
        /\ subscribed' = subscribed /\ subscribed \subseteq Subscribers
    BY DEF BusTypeOK, Publish
  <1>1. ASSUME NEW s \in subscribed
        PROVE  /\ Ends(inbox'[s], published')
               /\ Len(inbox[s]) \in Nat /\ Len(inbox[s]) <= Capacity
               /\ Len(inbox[s]) <= Len(published)
               /\ Len(inbox'[s]) = IF Len(inbox[s]) = Capacity THEN Capacity ELSE Len(inbox[s]) + 1
    <2>1. inbox[s] \in Seq(Events) /\ inbox'[s] = Put(inbox[s], e)
      BY <1>0 DEF BusTypeOK, Publish
    <2>2. Ends(inbox[s], published) /\ Len(inbox[s]) <= Capacity
      BY DEF QueuesFit
    <2>3. Len(inbox[s]) \in Nat /\ Len(inbox[s]) <= Len(published)
      BY <2>1, <2>2 DEF Ends
    <2>4. CASE Len(inbox[s]) = Capacity
      <3>1. inbox[s] # <<>> /\ inbox'[s] = Append(Tail(inbox[s]), e)
        BY <2>1, <2>4, CapacityPositive DEF Put
      <3>2. /\ Tail(inbox[s]) \in Seq(Events) /\ Ends(Tail(inbox[s]), published)
            /\ Len(Tail(inbox[s])) = Capacity - 1
        BY <2>1, <2>2, <2>4, <3>1, <1>0, EndsTail
      <3>3. /\ Ends(Append(Tail(inbox[s]), e), Append(published, e))
            /\ Len(Append(Tail(inbox[s]), e)) = Len(Tail(inbox[s])) + 1
        BY <3>2, <1>0, EndsAppend
      <3>4. Len(Tail(inbox[s])) + 1 = Capacity
        BY <3>2, CapacityPositive
      <3> QED
        BY <3>1, <3>3, <3>4, <2>2, <2>3, <2>4, <1>0
    <2>5. CASE Len(inbox[s]) # Capacity
      <3>1. inbox'[s] = Append(inbox[s], e)
        BY <2>1, <2>5 DEF Put
      <3>2. /\ Ends(Append(inbox[s], e), Append(published, e))
            /\ Len(Append(inbox[s], e)) = Len(inbox[s]) + 1
        BY <2>1, <2>2, <1>0, EndsAppend
      <3> QED
        BY <3>1, <3>2, <2>2, <2>3, <2>5, <1>0
    <2> QED
      BY <2>4, <2>5
  <1>2. QueuesFit'
    <2> SUFFICES ASSUME NEW s \in subscribed
                 PROVE  Len(inbox'[s]) <= Capacity /\ Ends(inbox'[s], published')
      BY <1>0 DEF QueuesFit
    <2>1. inbox[s] \in Seq(Events)
      BY <1>0 DEF BusTypeOK
    <2> QED
      BY <1>1, <2>1, CapacityPositive
  <1>3. ASSUME NEW s \in Subscribers
        PROVE  Cursor'[s] = F!Kept(Cursor[s], Len(published) + 1)
    <2>1. CASE s \in subscribed
      <3>1. /\ Cursor[s] = Len(published) - Len(inbox[s])
            /\ Cursor'[s] = (Len(published) + 1) - Len(inbox'[s])
        BY <1>0, <2>1 DEF Cursor
      <3>2. F!Kept(Cursor[s], Len(published) + 1) =
              IF Len(inbox[s]) = Capacity THEN (Len(published) + 1) - Capacity
              ELSE Len(published) - Len(inbox[s])
        BY <1>0, <1>1, <2>1, <3>1, KeptIs
      <3>3. (Len(published) + 1) - (Len(inbox[s]) + 1) = Len(published) - Len(inbox[s])
        BY <1>0, <1>1, <2>1
      <3> QED
        BY <1>1, <2>1, <3>1, <3>2, <3>3
    <2>2. CASE s \notin subscribed
      BY <1>0, <2>2 DEF Cursor, F!Kept, F!Away
    <2> QED
      BY <2>1, <2>2
  <1>4. Cursor' = [s \in Subscribers |-> F!Kept(Cursor[s], Len(published) + 1)]
    BY <1>3 DEF Cursor
  <1> QED
    BY <1>2, <1>4 DEF F!Publish, Publish

LEMMA SubscribeIsJoin ==
  ASSUME BusTypeOK, QueuesFit, NEW s \in Subscribers, Subscribe(s)
  PROVE  QueuesFit' /\ F!Join(s)
  <1>0. /\ published' = published /\ subscribed' = subscribed \cup {s}
        /\ inbox \in [Subscribers -> Seq(Events)] /\ s \notin subscribed
        /\ inbox' = [inbox EXCEPT ![s] = <<>>] /\ subscribed \subseteq Subscribers
        /\ published \in Seq(Events)
    BY DEF BusTypeOK, Subscribe
  <1>1. QueuesFit'
    <2>1. inbox'[s] = <<>>
      BY <1>0
    <2>2. \A r \in subscribed : inbox'[r] = inbox[r]
      BY <1>0
    <2>3. Ends(<<>>, published) /\ Len(<<>>) <= Capacity
      BY <1>0, EndsEmpty, CapacityPositive
    <2>4. Ends(inbox'[s], published) /\ Len(inbox'[s]) <= Capacity
      BY <2>1, <2>3
    <2> QED
      BY <1>0, <2>2, <2>4 DEF QueuesFit
  <1>2. Cursor' = [Cursor EXCEPT ![s] = Len(published)]
    <2>1. Cursor'[s] = Len(published) - Len(inbox'[s])
      BY <1>0 DEF Cursor
    <2>2. Len(inbox'[s]) = 0 /\ Len(published) \in Nat
      BY <1>0, EndsEmpty
    <2>3. Cursor'[s] = Len(published)
      BY <2>1, <2>2
    <2>4. \A r \in Subscribers : r # s => Cursor'[r] = Cursor[r]
      BY <1>0 DEF Cursor
    <2>5. /\ DOMAIN Cursor = Subscribers
          /\ Cursor' = [r \in Subscribers |-> Cursor'[r]]
      BY DEF Cursor
    <2> QED
      BY <2>3, <2>4, <2>5
  <1> QED
    BY <1>1, <1>2 DEF F!Join, Subscribe

LEMMA UnsubscribeIsLeave ==
  ASSUME BusTypeOK, QueuesFit, NEW gone, Unsubscribe(gone)
  PROVE  QueuesFit' /\ F!Leave(gone \cap Subscribers)
  <1>1. QueuesFit'
    BY DEF QueuesFit, Unsubscribe
  <1>2. Cursor' = [r \in Subscribers |-> IF r \in gone \cap Subscribers THEN F!Away ELSE Cursor[r]]
    BY DEF Cursor, Unsubscribe, F!Away
  <1> QED
    BY <1>1, <1>2 DEF F!Leave, Unsubscribe

LEMMA TakeIsRead ==
  ASSUME BusTypeOK, QueuesFit, NEW s \in Subscribers, Take(s)
  PROVE  QueuesFit' /\ F!Read(s)
  <1> DEFINE L == Len(published)  n == Len(inbox[s])
  <1>0. /\ published' = published /\ subscribed' = subscribed /\ s \in subscribed
        /\ inbox \in [Subscribers -> Seq(Events)] /\ inbox[s] # <<>> /\ inbox[s] \in Seq(Events)
        /\ inbox' = [inbox EXCEPT ![s] = Tail(inbox[s])] /\ subscribed \subseteq Subscribers
        /\ published \in Seq(Events)
        /\ heard' = [heard EXCEPT ![s] = Head(inbox[s])]
    BY DEF BusTypeOK, Take
  <1>1. Ends(inbox[s], published) /\ n <= Capacity
    BY <1>0 DEF QueuesFit
  <1>2. /\ Ends(Tail(inbox[s]), published) /\ Len(Tail(inbox[s])) = n - 1
        /\ n \in Nat \ {0} /\ n <= L /\ L \in Nat
        /\ Head(inbox[s]) = published[L - n + 1]
    BY <1>0, <1>1, EndsTail
  <1>3. inbox'[s] = Tail(inbox[s]) /\ \A r \in Subscribers : r # s => inbox'[r] = inbox[r]
    BY <1>0
  <1>4. QueuesFit'
    <2>1. n - 1 <= Capacity
      BY <1>1, <1>2, CapacityPositive
    <2>2. ASSUME NEW r \in subscribed
          PROVE  Len(inbox'[r]) <= Capacity /\ Ends(inbox'[r], published)
      <3>1. CASE r = s
        BY <3>1, <1>2, <1>3, <2>1
      <3>2. CASE r # s
        BY <3>2, <1>0, <1>3 DEF QueuesFit
      <3> QED
        BY <3>1, <3>2
    <2> QED
      BY <1>0, <2>2 DEF QueuesFit
  <1>5. Cursor[s] = L - n /\ L - n \in 0 .. L - 1
    BY <1>0, <1>2 DEF Cursor
  <1>6. Cursor' = [Cursor EXCEPT ![s] = @ + 1]
    <2>1. Cursor'[s] = L - (n - 1)
      BY <1>0, <1>2, <1>3 DEF Cursor
    <2>2. \A r \in Subscribers : r # s => Cursor'[r] = Cursor[r]
      BY <1>0, <1>3 DEF Cursor
    <2>3. L - (n - 1) = (L - n) + 1
      BY <1>2
    <2> QED
      BY <1>5, <2>1, <2>2, <2>3 DEF Cursor
  <1>7. Head(inbox[s]) = published[Cursor[s] + 1]
    BY <1>2, <1>5
  <1> QED
    BY <1>0, <1>4, <1>5, <1>6, <1>7 DEF F!Read

-----------------------------------------------------------------------------
(***************************************************************************)
(* The types.                                                              *)
(***************************************************************************)

LEMMA EnqueueTyped ==
  ASSUME queue \in Seq(Events), Len(queue) <= QueueSize, NEW e \in Events
  PROVE  Enqueue(e) \in Seq(Events) /\ Len(Enqueue(e)) <= QueueSize
  <1>1. CASE Room
    <2>1. Len(Append(queue, e)) = Len(queue) + 1 /\ Append(queue, e) \in Seq(Events)
      OBVIOUS
    <2>2. Len(queue) \in Nat /\ Len(queue) < QueueSize /\ QueueSize \in Nat
      BY <1>1, SizesAreNatural DEF Room
    <2> QED
      BY <1>1, <2>1, <2>2 DEF Enqueue
  <1>2. CASE ~Room
    BY <1>2 DEF Enqueue
  <1> QED
    BY <1>1, <1>2

LEMMA NoticesAreEvents == Notices \subseteq Events
  BY EventsAreTyped

LEMMA OvertakenAreAlarms == Overtaken \subseteq Alarms
  BY DEF Overtaken

LEMMA RestoredIsBoolean == RestoredTrouble \in BOOLEAN
  BY Zenon DEF RestoredTrouble

(* Publishing the event in hand keeps the types of all that Spread changes. *)
LEMMA SpreadTyped ==
  ASSUME TypeOK, step # "idle", Spread
  PROVE  /\ BusTypeOK' /\ trouble' \in BOOLEAN /\ skipped' \subseteq Alarms
         /\ cur' = NoEvent /\ step' = "idle"
  <1>1. BusTypeOK /\ cur \in Events
    BY DEF TypeOK
  <1>2. BusTypeOK'
    BY <1>1, BusTyped DEF Spread
  <1>3. trouble' \in BOOLEAN
    BY DEF Spread, Apply, TypeOK
  <1> QED
    BY <1>2, <1>3, OvertakenAreAlarms DEF Spread, TypeOK

LEMMA InitTyped == ASSUME Init PROVE TypeOK
  <1>1. BusTypeOK
    BY DEF Init, BusInit, BusTypeOK
  <1>2. queue \in Seq(Events) /\ Len(queue) <= QueueSize
    BY SizesAreNatural DEF Init
  <1>3. log \in Seq(Events) /\ failures \in 0 .. MaxFailures
    BY SizesAreNatural DEF Init
  <1> QED
    BY <1>1, <1>2, <1>3 DEF Init, TypeOK

LEMMA TypeStep ==
  ASSUME TypeOK, [Next]_vars
  PROVE  TypeOK'
  <1>0. BusTypeOK
    BY DEF TypeOK
  <1>1. ASSUME NEW e \in HubEvents, HubSubmits(e) PROVE TypeOK'
    <2>1. queue' \in Seq(Events) /\ Len(queue') <= QueueSize
      BY <1>1, EnqueueTyped, EventsAreTyped DEF HubSubmits, TypeOK
    <2>2. BusTypeOK'
      BY <1>0, <1>1 DEF HubSubmits, BusTypeOK, busVars
    <2> QED
      BY <1>1, <2>1, <2>2 DEF HubSubmits, TypeOK
  <1>2. ASSUME NEW e \in HubEvents, SendEnds(e) PROVE TypeOK'
    <2>1. BusTypeOK'
      BY <1>0, <1>2 DEF SendEnds, BusTypeOK, busVars
    <2> QED
      BY <1>2, <2>1 DEF SendEnds, TypeOK, workVars
  <1>3. ASSUME NEW e \in HubEvents, Acknowledge(e) PROVE TypeOK'
    <2>1. BusTypeOK'
      BY <1>0, <1>3 DEF Acknowledge, BusTypeOK, busVars
    <2> QED
      BY <1>3, <2>1 DEF Acknowledge, TypeOK, workVars, history
  <1>4. CASE Get
    <2>1. BusTypeOK'
      BY <1>0, <1>4 DEF Get, BusTypeOK, busVars
    <2>2. Head(queue) \in Events /\ Tail(queue) \in Seq(Events) /\ Len(Tail(queue)) <= QueueSize
      BY <1>4, SizesAreNatural DEF Get, TypeOK
    <2> QED
      BY <1>4, <2>1, <2>2, NoEventIsNone DEF Get, TypeOK, history
  <1>5. CASE Commit
    <2>1. BusTypeOK'
      BY <1>0, <1>5 DEF Commit, BusTypeOK, busVars
    <2>2. cur \in Events
      BY <1>5 DEF Commit, TypeOK
    <2> QED
      BY <1>5, <2>1, <2>2, NoEventIsNone DEF Commit, TypeOK, history
  <1>6. CASE Stored
    <2>1. queue' \in Seq(Events) /\ Len(queue') <= QueueSize /\ steady' \in BOOLEAN
      BY <1>6, EnqueueTyped, NoticesAreEvents DEF Stored, Notify, TypeOK, Notices
    <2>2. /\ BusTypeOK' /\ trouble' \in BOOLEAN /\ skipped' \subseteq Alarms
          /\ cur' = NoEvent /\ step' = "idle"
      BY <1>6, SpreadTyped DEF Stored
    <2> QED
      BY <1>6, <2>1, <2>2 DEF Stored, TypeOK
  <1>7. CASE StoreFailed
    <2>1. queue' \in Seq(Events) /\ Len(queue') <= QueueSize /\ steady' \in BOOLEAN
      BY <1>7, EnqueueTyped, NoticesAreEvents DEF StoreFailed, Notify, TypeOK, Notices
    <2>2. /\ BusTypeOK' /\ trouble' \in BOOLEAN /\ skipped' \subseteq Alarms
          /\ cur' = NoEvent /\ step' = "idle"
      BY <1>7, SpreadTyped DEF StoreFailed
    <2>3. failures' \in 0 .. MaxFailures
      BY <1>7, SizesAreNatural DEF StoreFailed, TypeOK
    <2> QED
      BY <1>7, <2>1, <2>2, <2>3 DEF StoreFailed, TypeOK
  <1>8. CASE Dispatch
    <2>1. BusTypeOK'
      BY <1>0, <1>8, BusTyped, DispatcherSubscribes DEF Dispatch
    <2> QED
      BY <1>8, <2>1 DEF Dispatch, TypeOK, workVars, history
  <1>9. ASSUME NEW s \in Subscribers, Watches(s) PROVE TypeOK'
    <2>1. BusTypeOK'
      BY <1>0, <1>9, BusTyped DEF Watches
    <2> QED
      BY <1>9, <2>1 DEF Watches, TypeOK, workVars, history
  <1>10. CASE Start
    <2>1. BusTypeOK'
      BY <1>0, <1>10, BusTyped, DispatcherSubscribes DEF Start
    <2>2. trouble' \in BOOLEAN /\ steady' \in BOOLEAN
      BY <1>10, RestoredIsBoolean DEF Start
    <2>3. sending' \subseteq Alarms
      BY <1>10, EventsAreTyped DEF Start
    <2> QED
      BY <1>10, <2>1, <2>2, <2>3 DEF Start, TypeOK, history
  <1>11. CASE BeginStop
    <2>1. BusTypeOK'
      BY <1>0, <1>11, BusTyped DEF BeginStop
    <2> QED
      BY <1>11, <2>1 DEF BeginStop, TypeOK, workVars, history
  <1>12. ASSUME Down, lost' \subseteq Alarms PROVE TypeOK'
    <2>1. BusTypeOK'
      BY <1>0, <1>12, BusTyped DEF Down
    <2>2. queue' \in Seq(Events) /\ Len(queue') <= QueueSize
      BY <1>12, SizesAreNatural DEF Down
    <2> QED
      BY <1>12, <2>1, <2>2 DEF Down, TypeOK
  <1>13. CASE StopDrained
    <2>1. lost' \subseteq Alarms
      BY <1>13 DEF StopDrained, TypeOK
    <2> QED
      BY <1>12, <1>13, <2>1 DEF StopDrained
  <1>14. CASE Crash
    <2>1. lost' \subseteq Alarms
      BY <1>14 DEF Crash, TypeOK
    <2> QED
      BY <1>12, <1>14, <2>1 DEF Crash
  <1>15. CASE UNCHANGED vars
    BY <1>15 DEF vars, busVars, workVars, history, TypeOK, BusTypeOK
  <1> QED
    BY <1>1, <1>2, <1>3, <1>4, <1>5, <1>6, <1>7, <1>8, <1>9, <1>10, <1>11,
       <1>13, <1>14, <1>15 DEF Next

-----------------------------------------------------------------------------
(***************************************************************************)
(* Nothing is held while the process is down.                              *)
(***************************************************************************)

LEMMA ModeStep ==
  ASSUME TypeOK, ModeFits, [Next]_vars
  PROVE  ModeFits'
  <1>1. ASSUME NEW e \in HubEvents, HubSubmits(e) \/ Acknowledge(e) PROVE ModeFits'
    BY <1>1 DEF HubSubmits, Acknowledge, ModeFits, busVars, workVars
  <1>2. ASSUME NEW e \in HubEvents, SendEnds(e) PROVE ModeFits'
    BY <1>2 DEF SendEnds, ModeFits, busVars, workVars
  <1>3. CASE Get \/ Commit
    BY <1>3 DEF Get, Commit, ModeFits, TypeOK, busVars
  <1>4. CASE Stored \/ StoreFailed
    BY <1>4 DEF Stored, StoreFailed, Spread, Publish, ModeFits, TypeOK
  <1>5. CASE Dispatch
    BY <1>5 DEF Dispatch, Take, ModeFits, TypeOK, workVars
  <1>6. ASSUME NEW s \in Subscribers, Watches(s) PROVE ModeFits'
    BY <1>6 DEF Watches, Subscribe, Take, Unsubscribe, ModeFits, workVars
  <1>7. CASE Start
    BY <1>7 DEF Start, Subscribe, ModeFits
  <1>8. CASE BeginStop
    BY <1>8 DEF BeginStop, Unsubscribe, ModeFits, workVars
  <1>9. CASE StopDrained \/ Crash
    BY <1>9 DEF StopDrained, Crash, Down, Unsubscribe, ModeFits, TypeOK, BusTypeOK
  <1>10. CASE UNCHANGED vars
    BY <1>10 DEF vars, busVars, workVars, ModeFits
  <1> QED
    BY <1>1, <1>2, <1>3, <1>4, <1>5, <1>6, <1>7, <1>8, <1>9, <1>10 DEF Next

-----------------------------------------------------------------------------
(***************************************************************************)
(* No alarm is lost.  Known is who may have an alarm while the process     *)
(* runs; a step of the running process keeps the invariant when it takes   *)
(* no alarm from Known and what it accepts is known.                       *)
(***************************************************************************)

Known == Pending \cup Held \cup handled \cup skipped \cup lost \cup acked
Accepted == (Alarms \cap submitted) \ refused

LEMMA KnownWhileUp ==
  ASSUME NoAlarmLost, mode # "down"
  PROVE  Accepted \subseteq Known
  BY DEF NoAlarmLost, Accepted, Known

LEMMA StillKnown ==
  ASSUME NoAlarmLost, mode # "down",
         Known \cap Alarms \subseteq Known', Accepted' \subseteq Accepted \cup Known'
  PROVE  NoAlarmLost'
  <1>1. Accepted' \subseteq Known'
    BY KnownWhileUp DEF Accepted
  <1> QED
    BY <1>1 DEF NoAlarmLost, Accepted, Known

(* submit keeps what is queued and adds the event unless it refuses it. *)
LEMMA EnqueueKeeps ==
  ASSUME queue \in Seq(Events), NEW e \in Events, queue' = Enqueue(e)
  PROVE  ToSet(queue) \subseteq ToSet(queue') /\ (Room => e \in ToSet(queue'))
  <1>1. CASE Room
    BY <1>1, ToSetAppend DEF Enqueue
  <1>2. CASE ~Room
    BY <1>2 DEF Enqueue
  <1> QED
    BY <1>1, <1>2

(* What put takes from a full queue is its head. *)
LEMMA ToSetPut ==
  ASSUME NEW w \in Seq(Events), NEW e \in Events
  PROVE  /\ e \in ToSet(Put(w, e))
         /\ \A x \in ToSet(w) : x \in ToSet(Put(w, e)) \/ (Len(w) = Capacity /\ x = Head(w))
  <1>1. CASE Len(w) = Capacity
    <2>1. w # <<>>
      BY <1>1, CapacityPositive
    <2>2. Tail(w) \in Seq(Events) /\ ToSet(w) = {Head(w)} \cup ToSet(Tail(w))
      BY <2>1, ToSetTail
    <2>3. \A v \in Seq(Events) : ToSet(Append(v, e)) = ToSet(v) \cup {e}
      BY ToSetAppend
    <2>4. ToSet(Append(Tail(w), e)) = ToSet(Tail(w)) \cup {e}
      BY <2>2, <2>3, Zenon
    <2> QED
      BY <1>1, <2>2, <2>4 DEF Put
  <1>2. CASE Len(w) # Capacity
    <2>1. ToSet(Append(w, e)) = ToSet(w) \cup {e}
      BY ToSetAppend
    <2> QED
      BY <1>2, <2>1 DEF Put
  <1> QED
    BY <1>1, <1>2

(* The event in hand goes to the dispatcher, whatever the storage did. *)
LEMMA SpreadKeepsKnown ==
  ASSUME TypeOK, ModeFits, mode # "down", step # "idle", Spread,
         queue' = queue \/ (\E e \in Notices : queue' = Enqueue(e)),
         UNCHANGED <<mode, sending, handled, lost, acked, submitted, refused>>
  PROVE  Known \cap Alarms \subseteq Known' /\ Accepted' = Accepted
  <1>1. /\ Dispatcher \in subscribed /\ subscribed' = subscribed /\ cur \in Events
        /\ inbox[Dispatcher] \in Seq(Events)
        /\ inbox'[Dispatcher] = Put(inbox[Dispatcher], cur)
    BY DispatcherSubscribes DEF ModeFits, TypeOK, BusTypeOK, Spread, Publish
  <1>2. ToSet(queue) \subseteq ToSet(queue')
    BY EnqueueKeeps, NoticesAreEvents DEF TypeOK
  <1>3. cur \in ToSet(inbox'[Dispatcher])
    BY <1>1, ToSetPut
  <1>4. \A x \in ToSet(inbox[Dispatcher]) \cap Alarms :
          x \in ToSet(inbox'[Dispatcher]) \/ x \in Overtaken
    BY <1>1, ToSetPut DEF Overtaken
  <1>5. skipped' = skipped \cup Overtaken
    BY DEF Spread
  <1>6. /\ Held = sending \cup ToSet(inbox[Dispatcher])
        /\ Held' = sending \cup ToSet(inbox'[Dispatcher])
    BY <1>1 DEF Held
  <1> QED
    BY <1>2, <1>3, <1>4, <1>5, <1>6 DEF Known, Pending, Accepted

(* The end of the process: what is queued stays known as lost, unless the next *)
(* start resumes it.                                                           *)
LEMMA DownKeepsLog ==
  ASSUME Down, Accepted \subseteq Known,
         (Known \cap Alarms) \ (handled \cup skipped \cup lost \cup acked \cup Resumable)
            \subseteq lost',
         lost \subseteq lost'
  PROVE  NoAlarmLost'
  <1>1. /\ Resumable' = Resumable /\ mode' = "down" /\ handled' = handled
        /\ skipped' = skipped /\ acked' = acked /\ Accepted' = Accepted
    BY DEF Down, Resumable, Rows, Accepted
  <1>2. ASSUME NEW e \in Accepted
        PROVE  e \in handled' \cup skipped' \cup lost' \cup acked' \cup Resumable'
    BY <1>1, <1>2 DEF Accepted
  <1> QED
    BY <1>1, <1>2 DEF NoAlarmLost, Accepted

LEMMA NoAlarmLostStep ==
  ASSUME TypeOK, ModeFits, NoAlarmLost, [Next]_vars
  PROVE  NoAlarmLost'
  <1>1. ASSUME NEW e \in HubEvents, HubSubmits(e) PROVE NoAlarmLost'
    <2>1. ToSet(queue) \subseteq ToSet(queue') /\ (Room => e \in ToSet(queue'))
      BY <1>1, EnqueueKeeps, EventsAreTyped DEF HubSubmits, TypeOK
    <2>2. Held' = Held
      BY <1>1 DEF HubSubmits, Held, busVars
    <2>3. Known \subseteq Known'
      BY <1>1, <2>1, <2>2 DEF HubSubmits, Known, Pending
    <2>4. Accepted' \subseteq Accepted \cup Known'
      BY <1>1, <2>1 DEF HubSubmits, Accepted, Known, Pending
    <2> QED
      BY <1>1, <2>3, <2>4, StillKnown DEF HubSubmits
  <1>2. ASSUME NEW e \in HubEvents, SendEnds(e) PROVE NoAlarmLost'
    <2>1. mode # "down"
      BY <1>2 DEF SendEnds, ModeFits
    <2>2. Pending' = Pending /\ Accepted' = Accepted /\ Held \subseteq Held' \cup handled'
      BY <1>2 DEF SendEnds, Pending, Held, Accepted, busVars, workVars
    <2>3. Known \subseteq Known'
      BY <1>2, <2>2 DEF SendEnds, Known
    <2> QED
      BY <2>1, <2>2, <2>3, StillKnown
  <1>3. ASSUME NEW e \in HubEvents, Acknowledge(e) PROVE NoAlarmLost'
    <2>1. Pending' = Pending /\ Accepted' = Accepted /\ Held' = Held
      BY <1>3 DEF Acknowledge, Pending, Held, Accepted, busVars, workVars, history
    <2>2. Known \subseteq Known'
      BY <1>3, <2>1 DEF Acknowledge, Known, history
    <2> QED
      BY <1>3, <2>1, <2>2, StillKnown DEF Acknowledge
  <1>4. CASE Get
    <2>1. Head(queue) \in Events /\ ToSet(queue) = {Head(queue)} \cup ToSet(Tail(queue))
      BY <1>4, ToSetTail DEF Get, TypeOK
    <2>2. Pending' = Pending
      BY <1>4, <2>1, NoEventIsNone DEF Get, Pending, TypeOK
    <2>3. Held' = Held /\ Accepted' = Accepted
      BY <1>4 DEF Get, Held, Accepted, busVars, history
    <2>4. Known' = Known
      BY <1>4, <2>2, <2>3 DEF Get, Known, history
    <2> QED
      BY <1>4, <2>3, <2>4, StillKnown DEF Get
  <1>5. CASE Commit
    <2>1. Pending' = Pending /\ Held' = Held /\ Accepted' = Accepted
      BY <1>5 DEF Commit, Pending, Held, Accepted, busVars, history
    <2>2. Known' = Known
      BY <1>5, <2>1 DEF Commit, Known, history
    <2> QED
      BY <1>5, <2>1, <2>2, StillKnown DEF Commit, ModeFits
  <1>6. CASE Stored \/ StoreFailed
    <2>1. step # "idle" /\ mode # "down" /\ Spread
      BY <1>6 DEF Stored, StoreFailed, ModeFits
    <2>2. /\ queue' = queue \/ \E e \in Notices : queue' = Enqueue(e)
          /\ UNCHANGED <<mode, sending, handled, lost, acked, submitted, refused>>
      BY <1>6 DEF Stored, StoreFailed, Notify, Notices
    <2>3. Known \cap Alarms \subseteq Known' /\ Accepted' = Accepted
      BY <2>1, <2>2, SpreadKeepsKnown
    <2> QED
      BY <2>1, <2>3, StillKnown
  <1>7. CASE Dispatch
    <2>1. /\ Dispatcher \in subscribed /\ subscribed' = subscribed /\ mode # "down"
          /\ inbox[Dispatcher] \in Seq(Events) /\ inbox[Dispatcher] # <<>>
          /\ inbox'[Dispatcher] = Tail(inbox[Dispatcher])
      BY <1>7, DispatcherSubscribes DEF Dispatch, Take, ModeFits, TypeOK, BusTypeOK
    <2>2. ToSet(inbox[Dispatcher]) = {Head(inbox[Dispatcher])} \cup ToSet(Tail(inbox[Dispatcher]))
      BY <2>1, ToSetTail
    <2>3. Held \cap Alarms \subseteq Held'
      BY <1>7, <2>1, <2>2 DEF Dispatch, Held
    <2>4. Pending' = Pending /\ Accepted' = Accepted
      BY <1>7 DEF Dispatch, Pending, Accepted, workVars, history
    <2>5. Known \cap Alarms \subseteq Known'
      BY <1>7, <2>3, <2>4 DEF Dispatch, Known, history
    <2> QED
      BY <2>1, <2>4, <2>5, StillKnown
  <1>8. ASSUME NEW s \in Subscribers, Watches(s) PROVE NoAlarmLost'
    <2>1. /\ mode # "down" /\ inbox'[Dispatcher] = inbox[Dispatcher]
          /\ Dispatcher \in subscribed /\ Dispatcher \in subscribed'
      BY <1>8, DispatcherSubscribes
      DEF Watches, Subscribe, Take, Unsubscribe, ModeFits, TypeOK, BusTypeOK
    <2>2. Held' = Held /\ Pending' = Pending /\ Accepted' = Accepted
      BY <1>8, <2>1 DEF Watches, Held, Pending, Accepted, workVars, history
    <2>3. Known' = Known
      BY <1>8, <2>2 DEF Watches, Known, history
    <2> QED
      BY <2>1, <2>2, <2>3, StillKnown
  <1>9. CASE Start
    <2>1. Pending = {} /\ Held = {}
      BY <1>9, ToSetEmpty DEF Start, ModeFits, TypeOK, Pending, Held
    <2>2. Resumable \subseteq Held'
      BY <1>9 DEF Start, Resumable, Held
    <2>3. Accepted' = Accepted
      BY <1>9 DEF Start, Accepted, history
    <2>4. Accepted' \subseteq Known'
      BY <1>9, <2>1, <2>2, <2>3 DEF Start, NoAlarmLost, Known, Accepted, history
    <2> QED
      BY <2>4 DEF NoAlarmLost, Known, Accepted
  <1>10. CASE BeginStop
    <2>1. Held' = Held /\ Pending' = Pending /\ Accepted' = Accepted /\ mode # "down"
      BY <1>10 DEF BeginStop, Unsubscribe, Held, Pending, Accepted, workVars, history
    <2>2. Known' = Known
      BY <1>10, <2>1 DEF BeginStop, Known, history
    <2> QED
      BY <2>1, <2>2, StillKnown
  <1>11. CASE StopDrained
    <2>1. Pending = {}
      BY <1>11, ToSetEmpty DEF StopDrained, TypeOK, Pending
    <2>2. Accepted \subseteq Known /\ Down /\ lost' = lost \cup ((Held \cap Alarms) \ Resumable)
      BY <1>11, KnownWhileUp DEF StopDrained
    <2> QED
      BY <2>1, <2>2, DownKeepsLog DEF Known
  <1>12. CASE Crash
    <2>1. /\ Accepted \subseteq Known /\ Down
          /\ lost' = lost \cup (((Held \cup Pending) \cap Alarms) \ Resumable)
      BY <1>12, KnownWhileUp DEF Crash
    <2> QED
      BY <2>1, DownKeepsLog DEF Known
  <1>13. CASE UNCHANGED vars
    <2>1. /\ Pending' = Pending /\ Held' = Held /\ Resumable' = Resumable
          /\ UNCHANGED <<mode, submitted, refused, handled, skipped, lost, acked>>
      BY <1>13 DEF vars, busVars, workVars, history, Pending, Held, Resumable, Rows
    <2> QED
      BY <2>1 DEF NoAlarmLost
  <1> QED
    BY <1>1, <1>2, <1>3, <1>4, <1>5, <1>6, <1>7, <1>8, <1>9, <1>10, <1>11,
       <1>12, <1>13 DEF Next

-----------------------------------------------------------------------------
(***************************************************************************)
(* The outage of the storage.                                              *)
(***************************************************************************)

(* An event at the end of the queue: the same events are before it. *)
LEMMA AppendIs ==
  ASSUME queue \in Seq(Events), NEW e \in Events, queue' = Append(queue, e)
  PROVE  /\ Len(queue) \in Nat /\ Len(queue') = Len(queue) + 1
         /\ queue'[Len(queue) + 1] = e
         /\ \A i \in 1 .. Len(queue) : queue'[i] = queue[i]
  OBVIOUS

(* The head of the queue goes: every other event moves one place up. *)
LEMMA TailIs ==
  ASSUME queue \in Seq(Events), queue # <<>>, queue' = Tail(queue)
  PROVE  /\ Len(queue) \in Nat \ {0} /\ Len(queue') = Len(queue) - 1
         /\ Head(queue) = queue[1]
         /\ \A i \in 1 .. Len(queue) - 1 : queue'[i] = queue[i + 1]
  OBVIOUS

(* _store reports a change: a notice that finds room is the newest one. *)
LEMMA NoticeIsNewest ==
  ASSUME queue \in Seq(Events), NEW e \in Notices, Notify(e), steady'
  PROVE  \E i \in 1 .. Len(queue') : queue'[i] = e /\ Quiet(i + 1)'
  <1>1. queue' = Append(queue, e) /\ e \in Events
    BY NoticesAreEvents DEF Notify, Enqueue
  <1>2. Len(queue) \in Nat /\ Len(queue') = Len(queue) + 1 /\ queue'[Len(queue) + 1] = e
    BY <1>1, AppendIs
  <1>3. PICK n \in Nat \ {0} : n = Len(queue')
    BY <1>2
  <1>4. n \in 1 .. Len(queue') /\ queue'[n] = e
    BY <1>2, <1>3
  <1>5. Quiet(n + 1)'
    BY <1>3 DEF Quiet
  <1> QED
    BY <1>4, <1>5

(* What does not touch the notices in the queue leaves the report on its way. *)
LEMMA OrdinaryStillOnItsWay ==
  ASSUME OutageOnItsWay, queue \in Seq(Events), NEW e \in HubEvents, queue' = Enqueue(e),
         UNCHANGED <<mode, steady, broken, trouble, cur>>
  PROVE  OutageOnItsWay'
  <1>1. CASE Room
    <2>1. e \in Events /\ e \notin Notices /\ queue' = Append(queue, e)
      BY <1>1, EventsAreTyped DEF Enqueue
    <2>2. /\ Len(queue) \in Nat /\ Len(queue') = Len(queue) + 1
          /\ queue'[Len(queue) + 1] = e
          /\ \A i \in 1 .. Len(queue) : queue'[i] = queue[i]
      BY <2>1, AppendIs
    <2>3. ASSUME NEW i \in 1 .. Len(queue) + 1, Quiet(i) PROVE Quiet(i)'
      <3>1. ASSUME NEW j \in i .. Len(queue) + 1 PROVE queue'[j] \notin Notices
        <4>1. CASE j = Len(queue) + 1
          BY <4>1, <2>1, <2>2
        <4>2. CASE j # Len(queue) + 1
          <5>1. j \in i .. Len(queue) /\ j \in 1 .. Len(queue)
            BY <4>2, <2>2
          <5> QED
            BY <5>1, <2>2, <2>3 DEF Quiet
        <4> QED
          BY <4>1, <4>2
      <3> QED
        BY <3>1, <2>2 DEF Quiet
    <2>4. Quiet(1) => Quiet(1)'
      BY <2>2, <2>3
    <2>5. ASSUME NEW i \in 1 .. Len(queue), queue[i] = Word(broken), Quiet(i + 1)
          PROVE  i \in 1 .. Len(queue') /\ queue'[i] = Word(broken) /\ Quiet(i + 1)'
      BY <2>2, <2>3, <2>5
    <2> QED
      BY <2>4, <2>5 DEF OutageOnItsWay, Word
  <1>2. CASE ~Room
    <2>1. queue' = queue
      BY <1>2 DEF Enqueue
    <2> QED
      BY <2>1 DEF OutageOnItsWay, Word, Quiet
  <1> QED
    BY <1>1, <1>2

(* get takes a notice into _process, or moves it up. *)
LEMMA GetStillOnItsWay ==
  ASSUME OutageOnItsWay, TypeOK, Get
  PROVE  OutageOnItsWay'
  <1>1. /\ Len(queue) \in Nat \ {0} /\ Len(queue') = Len(queue) - 1 /\ cur' = queue[1]
        /\ \A i \in 1 .. Len(queue) - 1 : queue'[i] = queue[i + 1]
    BY TailIs DEF Get, TypeOK
  <1>2. cur = NoEvent /\ cur \notin Notices
    BY NoEventIsNone, NoticesAreEvents DEF Get, TypeOK
  <1>3. ASSUME NEW i \in Nat \ {0}, Quiet(i + 1) PROVE Quiet(i)'
    <2>1. ASSUME NEW j \in i .. Len(queue) - 1 PROVE queue'[j] \notin Notices
      <3>1. j + 1 \in (i + 1) .. Len(queue) /\ j \in 1 .. Len(queue) - 1
        BY <1>1
      <3> QED
        BY <3>1, <1>1, <1>3 DEF Quiet
    <2> QED
      BY <1>1, <2>1 DEF Quiet
  <1>4. UNCHANGED <<mode, steady, broken, trouble>>
    BY DEF Get
  <1>5. ASSUME mode # "down", steady PROVE OutageOnItsWay'
    <2>1. CASE Quiet(1)
      <3>1. cur' \notin Notices /\ (trouble <=> broken)
        BY <1>1, <1>2, <1>5, <2>1 DEF OutageOnItsWay, Quiet, Word, Notices
      <3>2. Quiet(1 + 1)
        BY <1>1, <2>1 DEF Quiet
      <3>3. Quiet(1)'
        BY <3>2, <1>3
      <3> QED
        BY <3>1, <3>3, <1>4 DEF OutageOnItsWay
    <2>2. CASE ~Quiet(1)
      <3>1. PICK i \in 1 .. Len(queue) : queue[i] = Word(broken) /\ Quiet(i + 1)
        BY <1>5, <2>2 DEF OutageOnItsWay
      <3>2. CASE i = 1
        <4>1. cur' = Word(broken) /\ Quiet(1)'
          BY <3>1, <3>2, <1>1, <1>3
        <4> QED
          BY <4>1, <1>4 DEF OutageOnItsWay, Word
      <3>3. CASE i # 1
        <4>1. /\ i - 1 \in 1 .. Len(queue') /\ i - 1 \in Nat \ {0}
              /\ queue'[i - 1] = Word(broken) /\ (i - 1) + 1 = i /\ i \in Nat \ {0}
          BY <3>1, <3>3, <1>1
        <4>2. Quiet(i)'
          BY <4>1, <3>1, <1>3
        <4> QED
          BY <4>1, <4>2, <1>4 DEF OutageOnItsWay, Word
      <3> QED
        BY <3>2, <3>3
    <2> QED
      BY <2>1, <2>2
  <1> QED
    BY <1>4, <1>5 DEF OutageOnItsWay

(* The event in hand is applied: a notice now stands in the state. *)
LEMMA AppliedStillOnItsWay ==
  ASSUME OutageOnItsWay, TypeOK, Spread, UNCHANGED <<mode, queue, steady, broken>>
  PROVE  OutageOnItsWay'
  <1>1. cur' \notin Notices
    BY NoEventIsNone, NoticesAreEvents DEF Spread
  <1>2. CASE cur = Word(broken)
    <2>1. trouble' <=> broken'
      BY <1>2 DEF Spread, Apply, Word, Notices, TypeOK
    <2> QED
      BY <1>1, <2>1 DEF OutageOnItsWay, Quiet, Word
  <1>3. CASE cur \notin Notices
    <2>1. trouble' = trouble
      BY <1>3 DEF Spread, Apply
    <2> QED
      BY <1>1, <1>3, <2>1 DEF OutageOnItsWay, Quiet, Word, Notices
  <1>4. CASE cur \in Notices /\ cur # Word(broken)
    BY <1>1, <1>4 DEF OutageOnItsWay, Quiet, Word
  <1> QED
    BY <1>2, <1>3, <1>4

LEMMA OutageStep ==
  ASSUME TypeOK, ModeFits, OutageOnItsWay, [Next]_vars
  PROVE  OutageOnItsWay'
  <1>0. ASSUME UNCHANGED <<mode, queue, cur, steady, broken, trouble>>
        PROVE  OutageOnItsWay'
    BY <1>0 DEF OutageOnItsWay, Quiet, Word
  <1>1. ASSUME NEW e \in HubEvents, HubSubmits(e) PROVE OutageOnItsWay'
    BY <1>1, OrdinaryStillOnItsWay DEF HubSubmits, TypeOK
  <1>2. ASSUME NEW e \in HubEvents, SendEnds(e) \/ Acknowledge(e) PROVE OutageOnItsWay'
    BY <1>0, <1>2 DEF SendEnds, Acknowledge, workVars
  <1>3. CASE Get
    BY <1>3, GetStillOnItsWay
  <1>4. CASE Commit
    BY <1>0, <1>4 DEF Commit
  <1>5. CASE Stored
    <2>1. CASE broken
      <3>1. Notify("DBOK") /\ ~broken' /\ "DBOK" \in Notices /\ queue \in Seq(Events)
        BY <1>5, <2>1 DEF Stored, Notices, TypeOK
      <3>2. steady' => \E i \in 1 .. Len(queue') : queue'[i] = "DBOK" /\ Quiet(i + 1)'
        BY <3>1, NoticeIsNewest
      <3> QED
        BY <3>1, <3>2 DEF OutageOnItsWay, Word
    <2>2. CASE ~broken
      <3>1. Spread /\ UNCHANGED <<mode, queue, steady, broken>>
        BY <1>5, <2>2 DEF Stored, TypeOK
      <3> QED
        BY <3>1, AppliedStillOnItsWay
    <2> QED
      BY <2>1, <2>2
  <1>6. CASE StoreFailed
    <2>1. CASE ~broken
      <3>1. Notify("DBFAIL") /\ broken' /\ "DBFAIL" \in Notices /\ queue \in Seq(Events)
        BY <1>6, <2>1 DEF StoreFailed, Notices, TypeOK
      <3>2. steady' => \E i \in 1 .. Len(queue') : queue'[i] = "DBFAIL" /\ Quiet(i + 1)'
        BY <3>1, NoticeIsNewest
      <3> QED
        BY <3>1, <3>2 DEF OutageOnItsWay, Word
    <2>2. CASE broken
      <3>1. Spread /\ UNCHANGED <<mode, queue, steady, broken>>
        BY <1>6, <2>2 DEF StoreFailed, TypeOK
      <3> QED
        BY <3>1, AppliedStillOnItsWay
    <2> QED
      BY <2>1, <2>2
  <1>7. CASE Dispatch
    BY <1>0, <1>7 DEF Dispatch, workVars
  <1>8. ASSUME NEW s \in Subscribers, Watches(s) PROVE OutageOnItsWay'
    BY <1>0, <1>8 DEF Watches, workVars
  <1>9. CASE Start
    <2>1. queue' = <<>> /\ cur' = NoEvent /\ ~broken'
      BY <1>9 DEF Start, ModeFits, TypeOK
    <2>2. Quiet(1)' /\ cur' \notin Notices
      BY <2>1, NoEventIsNone, NoticesAreEvents DEF Quiet
    <2>3. steady' => ~trouble'
      BY <1>9 DEF Start
    <2> QED
      BY <2>1, <2>2, <2>3 DEF OutageOnItsWay
  <1>10. CASE BeginStop
    <2>1. UNCHANGED <<queue, cur, steady, broken, trouble>> /\ mode # "down"
      BY <1>10 DEF BeginStop, workVars
    <2> QED
      BY <2>1 DEF OutageOnItsWay, Quiet, Word
  <1>11. CASE StopDrained \/ Crash
    BY <1>11 DEF StopDrained, Crash, Down, OutageOnItsWay
  <1>12. CASE UNCHANGED vars
    BY <1>0, <1>12 DEF vars, workVars
  <1> QED
    BY <1>1, <1>2, <1>3, <1>4, <1>5, <1>6, <1>7, <1>8, <1>9, <1>10, <1>11, <1>12 DEF Next

(* Without a notice in the queue or in hand, the state tells the outage. *)
LEMMA OnItsWayIsShown ==
  ASSUME TypeOK, OutageOnItsWay
  PROVE  OutageShown
  <1>1. SUFFICES ASSUME mode # "down", steady, Pending \cap Notices = {}
                 PROVE  trouble <=> broken
    BY DEF OutageShown
  <1>2. \A i \in 1 .. Len(queue) : queue[i] \notin Notices
    BY <1>1 DEF Pending, ToSet, TypeOK
  <1>3. cur \notin Notices
    BY <1>1, NoEventIsNone, NoticesAreEvents DEF Pending
  <1>4. Word(broken) \in Notices
    BY DEF Word, Notices
  <1> QED
    BY <1>1, <1>2, <1>3, <1>4 DEF OutageOnItsWay

-----------------------------------------------------------------------------
(***************************************************************************)
(* The bus implements Feed: every step of the pipeline, the dispatcher and *)
(* the web sockets is one of Feed's, or leaves it alone.                   *)
(***************************************************************************)

LEMMA InitFeed == ASSUME Init PROVE F!Init /\ QueuesFit
  <1>1. Cursor = [s \in Subscribers |-> F!Away]
    BY DEF Init, BusInit, Cursor, F!Away
  <1>2. QueuesFit
    BY DEF Init, BusInit, QueuesFit
  <1> QED
    BY <1>1, <1>2 DEF Init, BusInit, F!Init

LEMMA BusIdle ==
  ASSUME QueuesFit, UNCHANGED busVars
  PROVE  QueuesFit' /\ UNCHANGED F!vars
  <1>1. Cursor' = Cursor
    BY DEF Cursor, busVars
  <1> QED
    BY <1>1 DEF QueuesFit, Ends, F!vars, busVars

LEMMA FeedStep ==
  ASSUME TypeOK, QueuesFit, [Next]_vars
  PROVE  QueuesFit' /\ [F!Next]_(F!vars)
  <1>0. BusTypeOK
    BY DEF TypeOK
  <1>1. ASSUME UNCHANGED busVars PROVE QueuesFit' /\ [F!Next]_(F!vars)
    BY <1>1, BusIdle
  <1>2. ASSUME NEW e \in Events, Publish(e) PROVE QueuesFit' /\ [F!Next]_(F!vars)
    BY <1>0, <1>2, PublishIsPublish DEF F!Next
  <1>3. ASSUME NEW s \in Subscribers, Subscribe(s) PROVE QueuesFit' /\ [F!Next]_(F!vars)
    BY <1>0, <1>3, SubscribeIsJoin DEF F!Next
  <1>4. ASSUME NEW s \in Subscribers, Take(s) PROVE QueuesFit' /\ [F!Next]_(F!vars)
    BY <1>0, <1>4, TakeIsRead DEF F!Next
  <1>5. ASSUME NEW gone, Unsubscribe(gone) PROVE QueuesFit' /\ [F!Next]_(F!vars)
    <2>1. QueuesFit' /\ F!Leave(gone \cap Subscribers)
      BY <1>0, <1>5, UnsubscribeIsLeave
    <2>2. gone \cap Subscribers \in SUBSET Subscribers
      OBVIOUS
    <2> QED
      BY <2>1, <2>2 DEF F!Next
  <1>6. ASSUME NEW e \in HubEvents, HubSubmits(e) \/ SendEnds(e) \/ Acknowledge(e)
        PROVE  UNCHANGED busVars
    BY <1>6 DEF HubSubmits, SendEnds, Acknowledge
  <1>7. CASE Get \/ Commit
    BY <1>1, <1>7 DEF Get, Commit
  <1>8. CASE Stored \/ StoreFailed
    <2>1. cur \in Events /\ Publish(cur)
      BY <1>8 DEF Stored, StoreFailed, Spread, TypeOK
    <2> QED
      BY <1>2, <2>1
  <1>9. CASE Dispatch
    BY <1>4, <1>9, DispatcherSubscribes DEF Dispatch
  <1>10. ASSUME NEW s \in Subscribers, Watches(s) PROVE QueuesFit' /\ [F!Next]_(F!vars)
    BY <1>3, <1>4, <1>5, <1>10 DEF Watches
  <1>11. CASE Start
    BY <1>3, <1>11, DispatcherSubscribes DEF Start
  <1>12. CASE BeginStop
    BY <1>5, <1>12 DEF BeginStop
  <1>13. CASE StopDrained \/ Crash
    BY <1>5, <1>13 DEF StopDrained, Crash, Down
  <1>14. CASE UNCHANGED vars
    BY <1>1, <1>14 DEF vars
  <1> QED
    BY <1>1, <1>6, <1>7, <1>8, <1>9, <1>10, <1>11, <1>12, <1>13, <1>14 DEF Next

-----------------------------------------------------------------------------
LEMMA InitIInv == ASSUME Init PROVE IInv
  <1>1. TypeOK /\ QueuesFit
    BY InitTyped, InitFeed
  <1>2. ModeFits /\ NoAlarmLost /\ OutageOnItsWay
    BY DEF Init, BusInit, ModeFits, NoAlarmLost, OutageOnItsWay
  <1> QED
    BY <1>1, <1>2 DEF IInv

(* The inductive invariant of the pipeline and its bus. *)
THEOREM Invariant == Spec => []IInv
  <1>1. Init => IInv
    BY InitIInv
  <1>2. IInv /\ [Next]_vars => IInv'
    BY TypeStep, ModeStep, NoAlarmLostStep, OutageStep, FeedStep DEF IInv
  <1> QED
    BY <1>1, <1>2, PTL DEF Spec

(* Queues never exceed their sizes, and a step of _process has an event. *)
THEOREM TypeCorrect == Spec => []TypeOK
  BY Invariant, PTL DEF IInv

(* An accepted alarm is in somebody's hands, or knowingly given up: through *)
(* full queues, failing storage, stops and crashes.                         *)
THEOREM NoneLost == Spec => []NoAlarmLost
  BY Invariant, PTL DEF IInv

(* The storage trouble on the dashboard follows the last call to the database. *)
THEOREM OutageTold == Spec => []OutageShown
  <1>1. IInv => OutageShown
    BY OnItsWayIsShown DEF IInv
  <1> QED
    BY <1>1, Invariant, PTL

(* Every subscriber reads the events in the order of publication, none twice, *)
(* and skips only what Capacity newer ones have overtaken in its queue.       *)
THEOREM BusIsFeed == Spec => IsFeed
  <1>1. Init => F!Init
    BY InitFeed
  <1>2. IInv /\ [Next]_vars => [F!Next]_(F!vars)
    BY FeedStep DEF IInv
  <1> QED
    BY <1>1, <1>2, Invariant, PTL DEF Spec, IsFeed, F!Spec
=============================================================================
