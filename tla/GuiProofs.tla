------------------------------ MODULE GuiProofs ------------------------------
(***************************************************************************)
(* Proofs about Gui for any publishers, applications and capacities of the *)
(* queues: no event is stranded in the GUI thread's queue, what an         *)
(* application handles is in the order in which it was published, the      *)
(* screen is what the applications last made of it, and no callback        *)
(* reaches a view port that was freed.                                     *)
(***************************************************************************)
EXTENDS Gui, WellFoundedInduction, TLAPS

-----------------------------------------------------------------------------
(* How the events of a queue lie to an event and to another queue.  A zero *)
(* is the Stop message, which has no place in the order.                   *)
Before(q, x) == \A i \in 1..Len(q) : q[i] < x
After(q, x) == \A i \in 1..Len(q) : q[i] # Stop => x < q[i]
Ascending(q) ==
  \A i, j \in 1..Len(q) : i < j /\ q[i] # Stop /\ q[j] # Stop => q[i] < q[j]
Events(q) == \A i \in 1..Len(q) : q[i] # Stop
Precedes(q, r) == \A i \in 1..Len(q), j \in 1..Len(r) : q[i] < r[j]

(* What Append and Tail do to a queue of numbers.                          *)
LEMMA AppendEvent ==
  ASSUME NEW q \in Seq(Nat), NEW e \in Nat
  PROVE  /\ Append(q, e) \in Seq(Nat) /\ Len(Append(q, e)) = Len(q) + 1 /\ Len(q) \in Nat
         /\ \A i \in 1..Len(q) : Append(q, e)[i] = q[i] /\ q[i] \in Nat
         /\ Append(q, e)[Len(q) + 1] = e
OBVIOUS

LEMMA TailEvent ==
  ASSUME NEW q \in Seq(Nat), q # <<>>
  PROVE  /\ Tail(q) \in Seq(Nat) /\ Len(Tail(q)) = Len(q) - 1 /\ Len(q) \in Nat \ {0}
         /\ Head(q) = q[1] /\ q[1] \in Nat
         /\ \A i \in 1..Len(Tail(q)) :
              Tail(q)[i] = q[i + 1] /\ i + 1 \in 1..Len(q) /\ q[i + 1] \in Nat
OBVIOUS

(* An appended event keeps the order if it is later than what is there.    *)
LEMMA AppendOrder ==
  ASSUME NEW q \in Seq(Nat), NEW e \in Nat, NEW x \in Nat
  PROVE  /\ Before(q, x) /\ e < x => Before(Append(q, e), x)
         /\ After(q, x) /\ (e # Stop => x < e) => After(Append(q, e), x)
         /\ Ascending(q) /\ (e # Stop => Before(q, e)) => Ascending(Append(q, e))
         /\ Events(q) /\ e # Stop => Events(Append(q, e))
<1> DEFINE r == Append(q, e)
<1>1. /\ Len(r) = Len(q) + 1 /\ Len(q) \in Nat
      /\ \A i \in 1..Len(q) : r[i] = q[i] /\ q[i] \in Nat
      /\ r[Len(q) + 1] = e
  BY AppendEvent
<1> HIDE DEF r
<1>2. \A i \in 1..Len(r) : i \in 1..Len(q) \/ i = Len(q) + 1
  BY <1>1
<1>3. Before(q, x) /\ e < x => Before(r, x)
  BY <1>1, <1>2 DEF Before
<1>4. After(q, x) /\ (e # Stop => x < e) => After(r, x)
  BY <1>1, <1>2 DEF After
<1>5. Ascending(q) /\ (e # Stop => Before(q, e)) => Ascending(r)
  BY SMTT(60), <1>1, <1>2 DEF Ascending, Before
<1>6. Events(q) /\ e # Stop => Events(r)
  BY <1>1, <1>2 DEF Events
<1>7. QED
  BY <1>3, <1>4, <1>5, <1>6 DEF r

LEMMA AppendPrecedes ==
  ASSUME NEW q \in Seq(Nat), NEW r \in Seq(Nat), NEW e \in Nat, Precedes(q, r)
  PROVE  /\ Before(q, e) => Precedes(q, Append(r, e))
         /\ After(r, e) /\ Events(r) => Precedes(Append(q, e), r)
<1>1. Before(q, e) => Precedes(q, Append(r, e))
  <2> DEFINE s == Append(r, e)
  <2>1. /\ Len(s) = Len(r) + 1 /\ Len(r) \in Nat
        /\ \A i \in 1..Len(r) : s[i] = r[i]
        /\ s[Len(r) + 1] = e
    BY AppendEvent
  <2> HIDE DEF s
  <2>2. \A i \in 1..Len(s) : i \in 1..Len(r) \/ i = Len(r) + 1
    BY <2>1
  <2>3. QED
    BY <2>1, <2>2 DEF Precedes, Before, s
<1>2. After(r, e) /\ Events(r) => Precedes(Append(q, e), r)
  <2> DEFINE s == Append(q, e)
  <2>1. /\ Len(s) = Len(q) + 1 /\ Len(q) \in Nat
        /\ \A i \in 1..Len(q) : s[i] = q[i]
        /\ s[Len(q) + 1] = e
    BY AppendEvent
  <2> HIDE DEF s
  <2>2. \A i \in 1..Len(s) : i \in 1..Len(q) \/ i = Len(q) + 1
    BY <2>1
  <2>3. QED
    BY <2>1, <2>2 DEF Precedes, After, Events, s
<1>3. QED
  BY <1>1, <1>2

(* The head of a queue in order is earlier than the rest.                  *)
LEMMA TailOrder ==
  ASSUME NEW q \in Seq(Nat), q # <<>>
  PROVE  /\ \A x \in Nat : Before(q, x) => Before(Tail(q), x) /\ Head(q) < x
         /\ \A x \in Nat : After(q, x) => After(Tail(q), x) /\ (Head(q) # Stop => x < Head(q))
         /\ Ascending(q) => Ascending(Tail(q)) /\ (Head(q) # Stop => After(Tail(q), Head(q)))
         /\ Events(q) => Events(Tail(q)) /\ Head(q) # Stop
<1> DEFINE r == Tail(q)
<1>1. /\ Len(r) = Len(q) - 1 /\ Len(q) \in Nat \ {0}
      /\ Head(q) = q[1] /\ q[1] \in Nat
      /\ \A i \in 1..Len(r) : r[i] = q[i + 1] /\ i + 1 \in 1..Len(q) /\ q[i + 1] \in Nat
  BY TailEvent
<1> HIDE DEF r
<1>2. \A x \in Nat : Before(q, x) => Before(r, x) /\ Head(q) < x
  <2>1. SUFFICES ASSUME NEW x \in Nat, Before(q, x) PROVE Before(r, x) /\ Head(q) < x
    OBVIOUS
  <2>2. ASSUME NEW i \in 1..Len(r) PROVE r[i] < x
    BY <1>1, <2>1 DEF Before
  <2>3. 1 \in 1..Len(q)
    BY <1>1
  <2>4. QED
    BY <1>1, <2>1, <2>2, <2>3 DEF Before
<1>3. \A x \in Nat : After(q, x) => After(r, x) /\ (Head(q) # Stop => x < Head(q))
  <2>1. SUFFICES ASSUME NEW x \in Nat, After(q, x)
                 PROVE  After(r, x) /\ (Head(q) # Stop => x < Head(q))
    OBVIOUS
  <2>2. After(r, x)
    BY <1>1, <2>1 DEF After
  <2>3. 1 \in 1..Len(q)
    BY <1>1
  <2>4. QED
    BY <1>1, <2>1, <2>2, <2>3 DEF After
<1>4. Ascending(q) => Ascending(r) /\ (Head(q) # Stop => After(r, Head(q)))
  <2>1. Ascending(q) => Ascending(r)
    <3>1. SUFFICES ASSUME Ascending(q), NEW i \in 1..Len(r), NEW j \in 1..Len(r),
                          i < j, r[i] # Stop, r[j] # Stop
                   PROVE  r[i] < r[j]
      BY DEF Ascending
    <3>2. i + 1 \in 1..Len(q) /\ j + 1 \in 1..Len(q) /\ i + 1 < j + 1
      BY <1>1, <3>1
    <3>3. QED
      BY <1>1, <3>1, <3>2 DEF Ascending
  <2>2. Ascending(q) /\ Head(q) # Stop => After(r, Head(q))
    <3>1. SUFFICES ASSUME Ascending(q), Head(q) # Stop, NEW i \in 1..Len(r), r[i] # Stop
                   PROVE  Head(q) < r[i]
      BY DEF After
    <3>2. 1 \in 1..Len(q) /\ i + 1 \in 1..Len(q) /\ 1 < i + 1
      BY <1>1
    <3>3. QED
      BY <1>1, <3>1, <3>2 DEF Ascending
  <2>3. QED
    BY <2>1, <2>2
<1>5. Events(q) => Events(r) /\ Head(q) # Stop
  BY <1>1 DEF Events
<1>6. QED
  BY <1>2, <1>3, <1>4, <1>5 DEF r

LEMMA TailPrecedes ==
  ASSUME NEW q \in Seq(Nat), NEW r \in Seq(Nat), Precedes(q, r)
  PROVE  /\ q # <<>> => Precedes(Tail(q), r)
         /\ r # <<>> => Precedes(q, Tail(r)) /\ Before(q, Head(r))
<1>1. q # <<>> => Precedes(Tail(q), r)
  BY TailEvent DEF Precedes
<1>2. r # <<>> => Precedes(q, Tail(r)) /\ Before(q, Head(r))
  BY TailEvent DEF Precedes, Before
<1>3. QED
  BY <1>1, <1>2

-----------------------------------------------------------------------------
(* The inductive invariant.                                                *)

(* The types the order needs.                                              *)
PathTypes ==
  /\ published \in Nat
  /\ hand \in [Publishers -> Nat]
  /\ publisher \in [Publishers -> {"idle", "put", "flag"}]
  /\ input_queue \in Seq(Nat) /\ event \in Nat
  /\ queue \in [Apps -> Seq(Nat)] /\ handled \in [Apps -> Nat]

(* The PubSub's mutex.                                                     *)
OnePublisher ==
  \A p, q \in Publishers : publisher[p] # "idle" /\ publisher[q] # "idle" => p = q

(* Everything on its way is earlier than x.                                *)
Reached(x) ==
  /\ Before(input_queue, x) /\ event < x
  /\ \A a \in Apps : Before(queue[a], x) /\ handled[a] < x

(* The event about to be queued is the last of all.                        *)
LastInHand ==
  /\ Reached(published + 1)
  /\ \A p \in Publishers : publisher[p] = "put" => hand[p] # 0 /\ hand[p] <= published /\ Reached(hand[p])

(* The GUI thread's queue is in order, behind the event it took from it.   *)
GuiOrder ==
  /\ Ascending(input_queue) /\ Events(input_queue)
  /\ After(input_queue, event)
  /\ gui \in {"dispatch", "callback"} <=> event # 0

(* So is an application's, ahead of all that the GUI thread still has.     *)
AppOrder(a) ==
  /\ Ascending(queue[a]) /\ After(queue[a], handled[a])
  /\ After(input_queue, handled[a]) /\ Precedes(queue[a], input_queue)
  /\ event # 0 => Before(queue[a], event) /\ handled[a] < event

OrderIInv ==
  /\ PathTypes /\ OnePublisher /\ LastInHand /\ GuiOrder
  /\ \A a \in Apps : AppOrder(a)

order == <<published, publisher, hand, input_queue, event, queue, handled>>

-----------------------------------------------------------------------------
(* Most steps move no event.                                               *)
LEMMA MovesNothing ==
  ASSUME OrderIInv, UNCHANGED order,
         gui' \in {"dispatch", "callback"} <=> gui \in {"dispatch", "callback"}
  PROVE  OrderIInv'
BY DEF OrderIInv, PathTypes, OnePublisher, Reached, LastInHand, GuiOrder, AppOrder, order

(* A publisher takes the mutex and the next number.                        *)
LEMMA PublishStep ==
  ASSUME OrderIInv, NEW p \in Publishers, Publish(p)
  PROVE  OrderIInv'
<1>1. /\ \A q \in Publishers : publisher[q] = "idle"
      /\ published' = published + 1
      /\ hand' = [hand EXCEPT ![p] = published + 1]
      /\ publisher' = [publisher EXCEPT ![p] = "put"]
      /\ UNCHANGED <<input_queue, event, queue, handled, gui>>
  BY DEF Publish, PubSubFree, guiVars, appVars
<1>2. PathTypes'
  BY <1>1 DEF OrderIInv, PathTypes
<1>3. OnePublisher'
  BY <1>1 DEF OrderIInv, PathTypes, OnePublisher
<1>4. /\ Before(input_queue', published + 1) /\ event' < published + 1
      /\ \A a \in Apps : Before(queue'[a], published + 1) /\ handled'[a] < published + 1
  BY <1>1 DEF OrderIInv, LastInHand, Reached
<1>5. LastInHand'
  <2>1. (Reached(published + 1))'
    <3>1. \A q \in Seq(Nat) : Before(q, published + 1) => Before(q, published + 1 + 1)
      <4>1. SUFFICES ASSUME NEW q \in Seq(Nat), Before(q, published + 1), NEW i \in 1..Len(q)
                     PROVE  q[i] < published + 1 + 1
        BY DEF Before
      <4>2. q[i] \in Nat /\ q[i] < published + 1 /\ published \in Nat
        BY <4>1 DEF Before, OrderIInv, PathTypes
      <4>3. QED
        BY <4>2
    <3>2. Before(input_queue', published' + 1)
      BY <1>1, <3>1 DEF OrderIInv, PathTypes, LastInHand, Reached
    <3>3. event' < published' + 1
      BY <1>1 DEF OrderIInv, PathTypes, LastInHand, Reached
    <3>4. ASSUME NEW a \in Apps
          PROVE  Before(queue'[a], published' + 1) /\ handled'[a] < published' + 1
      <4>1. queue[a] \in Seq(Nat) /\ handled[a] \in Nat /\ published \in Nat
        BY DEF OrderIInv, PathTypes
      <4>2. Before(queue[a], published + 1) /\ handled[a] < published + 1
        BY DEF OrderIInv, LastInHand, Reached
      <4>3. QED
        BY <1>1, <3>1, <4>1, <4>2
    <3>5. QED
      BY <3>2, <3>3, <3>4 DEF Reached
  <2>2. \A q \in Publishers : publisher'[q] = "put" => hand'[q] = published + 1 /\ q = p
    BY <1>1 DEF OrderIInv, PathTypes
  <2>3. published \in Nat
    BY DEF OrderIInv, PathTypes
  <2>4. ASSUME NEW q \in Publishers, publisher'[q] = "put"
        PROVE  hand'[q] # 0 /\ hand'[q] <= published' /\ (Reached(hand[q]))'
    <3>1. hand'[q] = published + 1
      BY <2>2, <2>4
    <3>2. (Reached(hand[q]))'
      BY <1>1, <1>4, <3>1 DEF Reached
    <3>3. QED
      BY <1>1, <2>3, <3>1, <3>2
  <2>5. QED
    BY <2>1, <2>4 DEF LastInHand
<1>6. GuiOrder' /\ \A a \in Apps : AppOrder(a)'
  BY <1>1 DEF OrderIInv, GuiOrder, AppOrder
<1>7. QED
  BY <1>2, <1>3, <1>5, <1>6 DEF OrderIInv

(* The event in hand, the last of all, is queued.                          *)
LEMMA PutEvent ==
  ASSUME OrderIInv, NEW p \in Publishers, Put(p)
  PROVE  OrderIInv'
<1>1. /\ publisher[p] = "put"
      /\ input_queue' = Append(input_queue, hand[p])
      /\ publisher' = [publisher EXCEPT ![p] = "flag"]
      /\ UNCHANGED <<published, hand, event, queue, handled, gui>>
  BY DEF Put, guiVars, appVars
<1>2. /\ input_queue \in Seq(Nat) /\ hand[p] \in Nat \ {0} /\ hand[p] <= published
      /\ published \in Nat /\ event \in Nat /\ Reached(hand[p])
      /\ \A a \in Apps : handled[a] \in Nat /\ queue[a] \in Seq(Nat)
  BY <1>1 DEF OrderIInv, PathTypes, LastInHand
<1>3. PathTypes'
  BY <1>1, <1>2, AppendEvent DEF OrderIInv, PathTypes
<1>4. OnePublisher' /\ \A q \in Publishers : publisher'[q] # "put"
  BY <1>1 DEF OrderIInv, PathTypes, OnePublisher
<1>5. LastInHand'
  <2>1. Before(input_queue, published + 1) /\ hand[p] < published + 1
    BY <1>2 DEF OrderIInv, LastInHand, Reached
  <2>2. Before(input_queue', published + 1)
    BY <1>1, <1>2, <2>1, published + 1 \in Nat, AppendOrder
  <2>3. QED
    BY <1>1, <1>4, <2>2 DEF OrderIInv, LastInHand, Reached
<1>6. GuiOrder'
  <2>1. Before(input_queue, hand[p]) /\ event < hand[p] /\ hand[p] # Stop
    BY <1>2 DEF Reached, Stop
  <2>2. Ascending(input_queue') /\ Events(input_queue') /\ After(input_queue', event)
    BY <1>1, <1>2, <2>1, AppendOrder DEF OrderIInv, GuiOrder
  <2>3. QED
    BY <1>1, <2>2 DEF OrderIInv, GuiOrder
<1>7. ASSUME NEW a \in Apps
      PROVE  AppOrder(a)'
  <2>1. Before(queue[a], hand[p]) /\ handled[a] < hand[p]
    BY <1>2 DEF Reached
  <2>2. After(input_queue', handled[a])
    BY <1>1, <1>2, <2>1, AppendOrder DEF OrderIInv, AppOrder
  <2>3. Precedes(queue[a], input_queue')
    BY <1>1, <1>2, <2>1, AppendPrecedes DEF OrderIInv, AppOrder
  <2>4. QED
    BY <1>1, <2>2, <2>3 DEF OrderIInv, AppOrder
<1>8. QED
  BY <1>3, <1>4, <1>5, <1>6, <1>7 DEF OrderIInv

(* The mutex is released.                                                  *)
LEMMA SetInputStep ==
  ASSUME OrderIInv, NEW p \in Publishers, SetInput(p)
  PROVE  OrderIInv'
<1>1. /\ hand' = [hand EXCEPT ![p] = 0]
      /\ publisher' = [publisher EXCEPT ![p] = "idle"]
      /\ UNCHANGED <<published, input_queue, event, queue, handled, gui>>
  BY DEF SetInput, guiVars, appVars
<1>2. PathTypes' /\ OnePublisher'
  BY <1>1 DEF OrderIInv, PathTypes, OnePublisher
<1>3. \A q \in Publishers : publisher'[q] = "put" => hand'[q] = hand[q] /\ publisher[q] = "put"
  BY <1>1 DEF OrderIInv, PathTypes
<1>4. LastInHand'
  BY <1>1, <1>3 DEF OrderIInv, LastInHand, Reached
<1>5. QED
  BY <1>1, <1>2, <1>4 DEF OrderIInv, GuiOrder, AppOrder

-----------------------------------------------------------------------------
(* The GUI thread takes an event.                                          *)
LEMMA GetEvent ==
  ASSUME OrderIInv, Get
  PROVE  OrderIInv'
<1>1. /\ gui = "drain" /\ gui' = "dispatch"
      /\ input_queue # <<>> /\ event' = Head(input_queue) /\ input_queue' = Tail(input_queue)
      /\ UNCHANGED <<published, publisher, hand, queue, handled>>
  BY DEF Get, pubVars, appVars
<1>2. input_queue \in Seq(Nat) /\ published \in Nat /\ Events(input_queue) /\ Ascending(input_queue)
  BY DEF OrderIInv, PathTypes, GuiOrder
<1>3. PathTypes' /\ OnePublisher'
  BY <1>1, <1>2, TailEvent DEF OrderIInv, PathTypes, OnePublisher
<1>4. ASSUME NEW x \in Nat, Reached(x)
      PROVE  Before(input_queue', x) /\ event' < x
  BY <1>1, <1>2, <1>4, TailOrder DEF Reached
<1>5. LastInHand'
  BY <1>1, <1>2, <1>4, published + 1 \in Nat
     DEF OrderIInv, PathTypes, LastInHand, Reached
<1>6. event' # Stop /\ event' \in Nat /\ After(input_queue', event')
  BY <1>1, <1>2, TailOrder, TailEvent
<1>7. GuiOrder'
  BY <1>1, <1>2, <1>6, TailOrder DEF GuiOrder, Stop
<1>8. ASSUME NEW a \in Apps
      PROVE  AppOrder(a)'
  <2>1. queue[a] \in Seq(Nat) /\ handled[a] \in Nat /\ AppOrder(a)
    BY DEF OrderIInv, PathTypes
  <2>2. After(input_queue', handled[a]) /\ handled[a] < event'
    BY <1>1, <1>2, <1>6, <2>1, TailOrder DEF AppOrder
  <2>3. Precedes(queue[a], input_queue') /\ Before(queue[a], event')
    BY <1>1, <1>2, <2>1, TailPrecedes DEF AppOrder
  <2>4. QED
    BY <1>1, <2>1, <2>2, <2>3 DEF AppOrder
<1>9. QED
  BY <1>3, <1>5, <1>7, <1>8 DEF OrderIInv

(* It finds the view port, or nobody to give the event to.                 *)
LEMMA DispatchStep ==
  ASSUME OrderIInv, Dispatch
  PROVE  OrderIInv'
<1>1. /\ UNCHANGED <<published, publisher, hand, input_queue, queue, handled>>
      /\ \/ event' = 0 /\ gui' = "drain"
         \/ event' = event /\ gui = "dispatch" /\ gui' = "callback"
  BY DEF Dispatch, pubVars, appVars
<1>2. CASE event' = event /\ gui = "dispatch" /\ gui' = "callback"
  BY <1>1, <1>2, MovesNothing DEF order
<1>3. CASE event' = 0 /\ gui' = "drain"
  <2>1. ASSUME NEW x \in Nat, Reached(x)
        PROVE  0 < x
    BY <2>1 DEF Reached, OrderIInv, PathTypes
  <2>2. LastInHand'
    BY <1>1, <1>3, <2>1, published + 1 \in Nat
       DEF OrderIInv, PathTypes, LastInHand, Reached
  <2>3. After(input_queue, 0)
    BY DEF After, OrderIInv, PathTypes, Stop
  <2>4. QED
    BY <1>1, <1>3, <2>2, <2>3 DEF OrderIInv, PathTypes, OnePublisher, GuiOrder, AppOrder
<1>4. QED
  BY <1>1, <1>2, <1>3

(* The event goes to the application's queue, behind all that is there.    *)
LEMMA InputCallbackStep ==
  ASSUME OrderIInv, InputCallback
  PROVE  OrderIInv'
<1>1. /\ gui = "callback" /\ gui' = "drain" /\ event' = 0
      /\ queue' = [queue EXCEPT ![port] = Append(queue[port], event)]
      /\ UNCHANGED <<published, publisher, hand, input_queue, handled>>
  BY DEF InputCallback, pubVars, appVars
<1>2. /\ event \in Nat \ {0} /\ published \in Nat /\ input_queue \in Seq(Nat)
      /\ Events(input_queue) /\ After(input_queue, event)
      /\ \A a \in Apps : queue[a] \in Seq(Nat) /\ handled[a] \in Nat
  BY <1>1 DEF OrderIInv, PathTypes, GuiOrder
<1>3. \A a \in Apps : \/ queue'[a] = queue[a]
                        \/ queue'[a] = Append(queue[a], event)
  BY <1>1 DEF OrderIInv, PathTypes
<1>4. queue' \in [Apps -> Seq(Nat)]
  <2>1. \A a \in Apps : queue'[a] \in Seq(Nat)
    <3>1. \A a \in Apps : Append(queue[a], event) \in Seq(Nat)
      BY <1>2
    <3>2. QED
      BY <1>2, <1>3, <3>1
  <2>2. QED
    BY <1>1, <2>1 DEF OrderIInv, PathTypes
<1>5. PathTypes' /\ OnePublisher'
  BY <1>1, <1>4 DEF OrderIInv, PathTypes, OnePublisher
<1>6. ASSUME NEW x \in Nat, Reached(x)
      PROVE  0 < x /\ \A a \in Apps : Before(queue'[a], x)
  <2>1. event < x /\ \A a \in Apps : Before(queue[a], x)
    BY <1>6 DEF Reached
  <2>2. ASSUME NEW a \in Apps
        PROVE  Before(queue'[a], x)
    BY <1>2, <1>3, <2>1, AppendOrder
  <2>3. QED
    BY <1>2, <2>1, <2>2
<1>7. LastInHand'
  BY <1>1, <1>6, published + 1 \in Nat DEF OrderIInv, PathTypes, LastInHand, Reached
<1>8. GuiOrder'
  <2>1. After(input_queue, 0)
    BY <1>2 DEF After, Stop
  <2>2. QED
    BY <1>1, <2>1 DEF OrderIInv, GuiOrder
<1>9. ASSUME NEW a \in Apps
      PROVE  AppOrder(a)'
  <2>1. AppOrder(a) /\ Before(queue[a], event) /\ handled[a] < event
    BY <1>2 DEF OrderIInv, AppOrder
  <2>2. Ascending(queue'[a]) /\ After(queue'[a], handled[a])
    BY <1>2, <1>3, <2>1, AppendOrder DEF AppOrder
  <2>3. Precedes(queue'[a], input_queue)
    BY <1>2, <1>3, <2>1, AppendPrecedes DEF AppOrder
  <2>4. QED
    BY <1>1, <2>1, <2>2, <2>3 DEF AppOrder
<1>10. QED
  BY <1>5, <1>7, <1>8, <1>9 DEF OrderIInv

-----------------------------------------------------------------------------
(* An application takes an event.                                          *)
LEMMA ReceiveStep ==
  ASSUME OrderIInv, NEW a \in Apps, Receive(a),
         UNCHANGED <<published, publisher, hand, input_queue, event, gui>>
  PROVE  /\ OrderIInv'
         /\ \A b \in Apps : handled'[b] # handled[b] => handled'[b] > handled[b]
<1>1. /\ queue[a] # <<>> /\ Head(queue[a]) # Stop
      /\ queue' = [queue EXCEPT ![a] = Tail(queue[a])]
      /\ handled' = [handled EXCEPT ![a] = Head(queue[a])]
  BY DEF Receive
<1>2. /\ queue[a] \in Seq(Nat) /\ handled[a] \in Nat /\ published \in Nat /\ event \in Nat
      /\ input_queue \in Seq(Nat) /\ Events(input_queue) /\ AppOrder(a)
  BY DEF OrderIInv, PathTypes, GuiOrder
<1>3. /\ queue'[a] = Tail(queue[a]) /\ handled'[a] = Head(queue[a])
      /\ \A b \in Apps : b # a => queue'[b] = queue[b] /\ handled'[b] = handled[b]
  BY <1>1 DEF OrderIInv, PathTypes
<1>4. Tail(queue[a]) \in Seq(Nat) /\ Head(queue[a]) \in Nat
  BY <1>1, <1>2, TailEvent
<1>5. PathTypes' /\ OnePublisher'
  BY <1>1, <1>4 DEF OrderIInv, PathTypes, OnePublisher
<1>6. ASSUME NEW x \in Nat, Reached(x)
      PROVE  (Before(input_queue, x) /\ event < x)
             /\ \A b \in Apps : Before(queue'[b], x) /\ handled'[b] < x
  BY <1>1, <1>2, <1>3, <1>6, TailOrder DEF Reached
<1>7. LastInHand'
  BY <1>6, published + 1 \in Nat DEF OrderIInv, PathTypes, LastInHand, Reached
<1>8. AppOrder(a)'
  <2>1. Ascending(queue'[a]) /\ After(queue'[a], handled'[a])
    BY <1>1, <1>2, <1>3, TailOrder DEF AppOrder
  <2>2. Precedes(queue'[a], input_queue)
    BY <1>1, <1>2, <1>3, TailPrecedes DEF AppOrder
  <2>3. After(input_queue, handled'[a])
    <3>1. 1 \in 1..Len(queue[a]) /\ handled'[a] = queue[a][1]
      BY <1>1, <1>2, <1>3, TailEvent
    <3>2. QED
      BY <1>2, <3>1 DEF AppOrder, Precedes, After
  <2>4. event # 0 => Before(queue'[a], event) /\ handled'[a] < event
    BY <1>1, <1>2, <1>3, TailOrder DEF AppOrder
  <2>5. QED
    BY <2>1, <2>2, <2>3, <2>4 DEF AppOrder
<1>9. \A b \in Apps : AppOrder(b)'
  BY <1>3, <1>8 DEF OrderIInv, AppOrder
<1>10. handled'[a] > handled[a]
  BY <1>1, <1>2, <1>3, TailOrder DEF AppOrder
<1>11. GuiOrder'
  BY DEF OrderIInv, GuiOrder
<1>12. QED
  BY <1>3, <1>5, <1>7, <1>9, <1>10, <1>11 DEF OrderIInv

(* The queue of an application loses its first message, gets a Stop or is  *)
(* freed: none of its events changes place.                                *)
LEMMA QueueStep ==
  ASSUME OrderIInv, NEW a \in Apps, PutStop(a) \/ TakeStop(a) \/ Free(a)
  PROVE  OrderIInv'
<1>1. UNCHANGED <<published, publisher, hand, input_queue, event, handled, gui>>
  BY DEF PutStop, TakeStop, Free, pubVars, guiVars, appVars
<1>2. /\ queue[a] \in Seq(Nat) /\ handled[a] \in Nat /\ published \in Nat /\ event \in Nat
      /\ input_queue \in Seq(Nat) /\ Events(input_queue) /\ AppOrder(a)
  BY DEF OrderIInv, PathTypes, GuiOrder
<1>3. /\ \/ queue'[a] = Append(queue[a], Stop)
         \/ queue[a] # <<>> /\ queue'[a] = Tail(queue[a])
         \/ queue'[a] = <<>>
      /\ \A b \in Apps : b # a => queue'[b] = queue[b]
      /\ queue' = [queue EXCEPT ![a] = queue'[a]]
  BY DEF PutStop, TakeStop, Free, OrderIInv, PathTypes
<1>4. queue'[a] \in Seq(Nat)
  <2>1. Append(queue[a], Stop) \in Seq(Nat) /\ <<>> \in Seq(Nat)
    BY <1>2 DEF Stop
  <2>2. queue[a] # <<>> => Tail(queue[a]) \in Seq(Nat)
    BY <1>2
  <2>3. QED
    BY <1>3, <2>1, <2>2
<1>5. PathTypes' /\ OnePublisher'
  BY <1>1, <1>3, <1>4 DEF OrderIInv, PathTypes, OnePublisher
<1>6. ASSUME NEW x \in Nat, Before(queue[a], x), 0 < x
      PROVE  Before(queue'[a], x)
  <2>1. CASE queue'[a] = Append(queue[a], Stop)
    BY <1>2, <1>6, <2>1, AppendOrder DEF Stop
  <2>2. CASE queue[a] # <<>> /\ queue'[a] = Tail(queue[a])
    BY <1>2, <1>6, <2>2, TailOrder
  <2>3. CASE queue'[a] = <<>>
    BY <2>3 DEF Before
  <2>4. QED
    BY <1>3, <2>1, <2>2, <2>3
<1>7. ASSUME NEW x \in Nat, Reached(x)
      PROVE  \A b \in Apps : Before(queue'[b], x)
  BY <1>2, <1>3, <1>6, <1>7 DEF Reached
<1>8. LastInHand'
  BY <1>1, <1>7, published + 1 \in Nat DEF OrderIInv, PathTypes, LastInHand, Reached
<1>9. Ascending(queue'[a]) /\ After(queue'[a], handled[a])
  <2>1. CASE queue'[a] = Append(queue[a], Stop)
    BY <1>2, <2>1, AppendOrder DEF AppOrder, Stop
  <2>2. CASE queue[a] # <<>> /\ queue'[a] = Tail(queue[a])
    BY <1>2, <2>2, TailOrder DEF AppOrder
  <2>3. CASE queue'[a] = <<>>
    BY <2>3 DEF Ascending, After
  <2>4. QED
    BY <1>3, <2>1, <2>2, <2>3
<1>10. Precedes(queue'[a], input_queue)
  <2>1. CASE queue'[a] = Append(queue[a], Stop)
    <3>1. After(input_queue, Stop) /\ Stop \in Nat
      BY <1>2 DEF After, Stop
    <3>2. QED
      BY <1>2, <2>1, <3>1, AppendPrecedes DEF AppOrder
  <2>2. CASE queue[a] # <<>> /\ queue'[a] = Tail(queue[a])
    BY <1>2, <2>2, TailPrecedes DEF AppOrder
  <2>3. CASE queue'[a] = <<>>
    BY <2>3 DEF Precedes
  <2>4. QED
    BY <1>3, <2>1, <2>2, <2>3
<1>11. AppOrder(a)'
  BY <1>1, <1>2, <1>6, <1>9, <1>10 DEF AppOrder
<1>12. GuiOrder' /\ \A b \in Apps : AppOrder(b)'
  BY <1>1, <1>3, <1>11 DEF OrderIInv, GuiOrder, AppOrder
<1>13. QED
  BY <1>5, <1>8, <1>12 DEF OrderIInv

-----------------------------------------------------------------------------
LEMMA OrderInit == Init => OrderIInv
BY DEF Init, OrderIInv, PathTypes, OnePublisher, Reached, LastInHand, GuiOrder, AppOrder,
       Before, After, Ascending, Events, Precedes

(* Every step keeps the order, and what an application handles next was    *)
(* published later than what it handled before.                            *)
LEMMA OrderNext ==
  ASSUME OrderIInv, [Next]_vars
  PROVE  /\ OrderIInv'
         /\ \A a \in Apps : handled'[a] # handled[a] => handled'[a] > handled[a]
<1>1. CASE UNCHANGED vars
  BY <1>1, MovesNothing DEF vars, order, pubVars, guiVars, appVars
<1>2. ASSUME NEW p \in Publishers, Publisher(p)
      PROVE  OrderIInv' /\ handled' = handled
  <2>1. handled' = handled
    BY <1>2 DEF Publisher, Publish, Put, SetInput, appVars
  <2>2. QED
    BY <1>2, <2>1, PublishStep, PutEvent, SetInputStep DEF Publisher
<1>3. CASE GuiThread
  <2>1. handled' = handled
    BY <1>3 DEF GuiThread, Wake, Get, Drained, Dispatch, InputCallback, ClearDraw, Redraw,
                DrawCallback, appVars
  <2>2. CASE Wake \/ Drained \/ ClearDraw \/ Redraw \/ DrawCallback
    BY <2>2, MovesNothing
       DEF Wake, Drained, ClearDraw, Redraw, DrawCallback, order, pubVars, appVars
  <2>3. QED
    BY <1>3, <2>1, <2>2, GetEvent, DispatchStep, InputCallbackStep DEF GuiThread
<1>4. ASSUME NEW a \in Apps, App(a)
      PROVE  /\ OrderIInv'
             /\ \A b \in Apps : handled'[b] # handled[b] => handled'[b] > handled[b]
  <2>1. CASE Attach(a) \/ Show(a) \/ Update(a) \/ Hide(a)
    BY <2>1, MovesNothing DEF Attach, Show, Update, Hide, order, pubVars, guiVars
  <2>2. CASE Ignore(a) \/ Change(a) \/ Leave(a) \/ LeaveAgain(a)
    BY <2>2, ReceiveStep DEF Ignore, Change, Leave, LeaveAgain, pubVars, guiVars
  <2>3. CASE PutStop(a) \/ TakeStop(a) \/ Free(a)
    <3>1. handled' = handled
      BY <2>3 DEF PutStop, TakeStop, Free
    <3>2. QED
      BY <2>3, <3>1, QueueStep
  <2>4. QED
    BY <1>4, <2>1, <2>2, <2>3 DEF App
<1>5. QED
  BY <1>1, <1>2, <1>3, <1>4 DEF Next

(* The path of the events stays in order.                                  *)
THEOREM OrderInvariance == Spec => []OrderIInv
<1>1. OrderIInv /\ [Next]_vars => OrderIInv'
  BY OrderNext
<1>2. QED
  BY OrderInit, <1>1, PTL DEF Spec

(* An application handles events in the order in which they were           *)
(* published, whichever threads published them, through both queues.       *)
THEOREM EventsInOrder == Spec => HandledInOrder
<1>1. OrderIInv /\ [Next]_vars =>
        [\A a \in Apps : handled'[a] # handled[a] => handled'[a] > handled[a]]_vars
  BY OrderNext
<1>2. QED
  BY <1>1, OrderInvariance, PTL DEF Spec, HandledInOrder

-----------------------------------------------------------------------------
(* While events are in the queue the GUI thread is emptying it, or its     *)
(* flag is raised, or a publisher is about to raise it.                    *)
InputIsSignalled ==
  input_queue # <<>> =>
    \/ gui \in {"drain", "dispatch", "callback"}
    \/ "input" \in flags
    \/ \E p \in Publishers : publisher[p] = "flag"

SignalIInv ==
  /\ publisher \in [Publishers -> {"idle", "put", "flag"}]
  /\ InputIsSignalled

(* Who queues an event raises the flag before anyone forgets it.           *)
LEMMA SignalNext ==
  ASSUME SignalIInv, [Next]_vars
  PROVE  SignalIInv'
<1>1. CASE UNCHANGED vars
  BY <1>1 DEF vars, SignalIInv, InputIsSignalled, pubVars, guiVars
<1>2. ASSUME NEW p \in Publishers, Publish(p)
      PROVE  SignalIInv'
  BY <1>2 DEF Publish, PubSubFree, SignalIInv, InputIsSignalled, guiVars
<1>3. ASSUME NEW p \in Publishers, Put(p)
      PROVE  SignalIInv'
  BY <1>3 DEF Put, SignalIInv, InputIsSignalled
<1>4. ASSUME NEW p \in Publishers, SetInput(p)
      PROVE  SignalIInv'
  BY <1>4 DEF SetInput, SignalIInv, InputIsSignalled
<1>5. CASE GuiThread
  <2>1. publisher' = publisher
    BY <1>5 DEF GuiThread, Wake, Get, Drained, Dispatch, InputCallback, ClearDraw, Redraw,
                DrawCallback, pubVars
  <2>2. InputIsSignalled'
    BY <1>5, <2>1
       DEF GuiThread, Wake, Get, Drained, Dispatch, InputCallback, ClearDraw, Redraw,
           DrawCallback, SignalIInv, InputIsSignalled
  <2>3. QED
    BY <2>1, <2>2 DEF SignalIInv
<1>6. ASSUME NEW a \in Apps, App(a)
      PROVE  SignalIInv'
  <2>1. UNCHANGED <<publisher, input_queue, gui>> /\ flags \subseteq flags'
    BY <1>6 DEF App, Attach, Show, Update, Ignore, Change, Leave, LeaveAgain, Receive, Hide,
                PutStop, TakeStop, Free, pubVars, guiVars
  <2>2. QED
    BY <2>1 DEF SignalIInv, InputIsSignalled
<1>7. QED
  BY <1>1, <1>2, <1>3, <1>4, <1>5, <1>6 DEF Next, Publisher

(* No event is left in the queue of a GUI thread that waits for a flag     *)
(* nobody is to set.                                                       *)
THEOREM InputIsNotStranded == Spec => []NoStrandedInput
<1>1. Init => SignalIInv
  BY DEF Init, SignalIInv, InputIsSignalled
<1>2. SignalIInv /\ [Next]_vars => SignalIInv'
  BY SignalNext
<1>3. SignalIInv => NoStrandedInput
  BY DEF SignalIInv, InputIsSignalled, NoStrandedInput
<1>4. QED
  BY <1>1, <1>2, <1>3, PTL DEF Spec

-----------------------------------------------------------------------------
(* Numbers.                                                                *)
LEMMA SmallestOf ==
  ASSUME NEW S \in SUBSET Nat, S # {}
  PROVE  \E m \in S : \A k \in S : m <= k
<1> DEFINE R == {ss \in Nat \X Nat : ss[1] < ss[2]}
<1>1. IsWellFoundedOn(R, Nat)
  BY NatLessThanWellFounded, Zenon DEF OpToRel
<1> HIDE DEF R
<1>2. \E m \in S : \A k \in S : ~(<<k, m>> \in R)
  BY <1>1, WFMin
<1>3. \E m \in S : \A k \in S : ~(k < m)
  BY <1>2 DEF R
<1>4. QED
  BY <1>3

LEMMA MinIs ==
  ASSUME NEW S \in SUBSET Nat, S # {}
  PROVE  Min(S) \in S /\ \A k \in S : Min(S) <= k
BY SmallestOf DEF Min

LEMMA MaxIs ==
  ASSUME NEW n \in Nat, NEW S \in SUBSET (1..n), S # {}
  PROVE  Max(S) \in S /\ \A k \in S : Max(S) >= k
<1> DEFINE T == {m \in Nat : \E k \in S : m + k = n}
<1>1. T # {}
  <2>1. PICK k \in S : TRUE
    OBVIOUS
  <2>2. n - k \in Nat /\ (n - k) + k = n
    BY <2>1
  <2>3. QED
    BY <2>1, <2>2
<1>2. PICK m \in T : \A o \in T : m <= o
  BY <1>1, SmallestOf
<1>3. PICK k \in S : m + k = n
  BY <1>2
<1>4. ASSUME NEW j \in S PROVE k >= j
  <2>1. n - j \in T
    OBVIOUS
  <2>2. m <= n - j
    BY <1>2, <2>1
  <2>3. QED
    BY <1>3, <2>2
<1>5. QED
  BY <1>4 DEF Max

LEMMA MaxUnique ==
  ASSUME NEW n \in Nat, NEW S \in SUBSET (1..n), NEW m \in S, \A k \in S : m >= k
  PROVE  Max(S) = m
<1>1. Max(S) \in S /\ Max(S) >= m
  BY MaxIs
<1>2. m >= Max(S)
  BY <1>1
<1>3. m \in 1..n /\ Max(S) \in 1..n
  BY <1>1
<1> DEFINE x == Max(S)
<1> HIDE DEF x
<1>4. x >= m /\ m >= x /\ x \in 1..n /\ m \in 1..n
  BY <1>1, <1>2, <1>3 DEF x
<1>5. x = m
  BY <1>4
<1>6. QED
  BY <1>5 DEF x

-----------------------------------------------------------------------------
(* Where the view ports are.                                               *)
LayerNames == ToSet(Layers)

PlaceTypes ==
  /\ layers \in [LayerNames -> Seq(Apps)]
  /\ app \in [Apps -> {"out", "attached", "update", "run", "hide", "stop", "free"}]
  /\ enabled \in [Apps -> BOOLEAN]

(* A view port is in no layer but its own, there once, and only while its  *)
(* application has it.                                                     *)
Placed ==
  /\ \A l \in LayerNames : \A i \in DOMAIN layers[l] :
       app[layers[l][i]] # "out" /\ Layer[layers[l][i]] = l
  /\ \A l \in LayerNames : \A i, j \in DOMAIN layers[l] : layers[l][i] = layers[l][j] => i = j
  /\ \A a \in Apps : app[a] # "out" => \E j \in DOMAIN layers[Layer[a]] : layers[Layer[a]][j] = a

(* Nobody frees the view port whose callback the GUI thread is in.         *)
PortPlaced == Locked /\ port # NoApp => port \in Apps /\ app[port] # "out"

PlaceIInv == PlaceTypes /\ Placed /\ PortPlaced

LEMMA LayersAre ==
  /\ LayerNames = {"Fullscreen", "Main", "None"}
  /\ DOMAIN Layers = 1..3 /\ \A i \in 1..3 : Layers[i] \in LayerNames
  /\ \A a \in Apps : Layer[a] \in LayerNames
<1>1. Layers = <<"Fullscreen", "Main", "None">>
  BY DEF Layers
<1>2. DOMAIN Layers = {1, 2, 3}
  BY <1>1
<1>3. LayerNames = {Layers[1], Layers[2], Layers[3]}
  BY <1>2 DEF LayerNames, ToSet
<1>4. QED
  BY <1>1, <1>2, <1>3, GuiAssumption DEF LayerNames

(* What Top finds: the topmost enabled view port of a layer.               *)
LEMMA TopIs ==
  ASSUME PlaceTypes
  PROVE  \/ Top = NoApp /\ \A l \in LayerNames : Enabled(l) = {}
         \/ \E l \in LayerNames : \E j \in DOMAIN layers[l] : Top = layers[l][j] /\ Enabled(l) # {}
<1> DEFINE found == {i \in DOMAIN Layers : Enabled(Layers[i]) # {}}
<1>1. CASE found = {}
  <2>1. Top = NoApp
    BY <1>1 DEF Top
  <2>2. \A l \in LayerNames : \E i \in DOMAIN Layers : l = Layers[i]
    BY DEF LayerNames, ToSet
  <2>3. QED
    BY <1>1, <2>1, <2>2
<1>2. CASE found # {}
  <2>1. Top = Topmost(Layers[Min(found)])
    BY <1>2 DEF Top
  <2>2. found \in SUBSET Nat
    BY LayersAre
  <2>3. Min(found) \in found
    BY <1>2, <2>2, MinIs
  <2> DEFINE l == Layers[Min(found)]
  <2>4. l \in LayerNames /\ Enabled(l) # {}
    BY <2>3, LayersAre
  <2>5. Top = layers[l][Max(Enabled(l))]
    BY <2>1 DEF Topmost
  <2> HIDE DEF l
  <2>6. layers[l] \in Seq(Apps) /\ Len(layers[l]) \in Nat /\ DOMAIN layers[l] = 1..Len(layers[l])
    BY <2>4 DEF PlaceTypes
  <2>7. Enabled(l) \in SUBSET (1..Len(layers[l]))
    BY <2>6 DEF Enabled
  <2>8. Max(Enabled(l)) \in DOMAIN layers[l]
    BY <2>4, <2>6, <2>7, MaxIs
  <2>9. QED
    BY <2>4, <2>5, <2>8
<1>3. QED
  BY <1>1, <1>2

LEMMA TopIsAttached ==
  ASSUME PlaceTypes, Placed, Top # NoApp
  PROVE  Top \in Apps /\ app[Top] # "out"
<1>1. PICK l \in LayerNames : \E j \in DOMAIN layers[l] : Top = layers[l][j]
  BY TopIs
<1>2. PICK j \in DOMAIN layers[l] : Top = layers[l][j]
  BY <1>1
<1>3. layers[l] \in Seq(Apps)
  BY DEF PlaceTypes
<1>4. QED
  BY <1>2, <1>3 DEF Placed

(* What is left of a layer without a view port that is in one place of it. *)
LEMMA Removed ==
  ASSUME NEW s \in Seq(Apps), NEW k \in 1..Len(s), \A j \in 1..Len(s) : s[j] = s[k] => j = k
  PROVE  /\ RemoveFirst(s, s[k]) \in Seq(Apps)
         /\ Len(RemoveFirst(s, s[k])) = Len(s) - 1
         /\ \A j \in 1..(Len(s) - 1) :
              RemoveFirst(s, s[k])[j] = IF j < k THEN s[j] ELSE s[j + 1]
<1>1. {i \in 1..Len(s) : s[i] = s[k]} = {k}
  OBVIOUS
<1>2. Min({k}) = k
  BY DEF Min
<1>3. RemoveFirst(s, s[k]) = RemoveAt(s, k)
  BY <1>1, <1>2 DEF RemoveFirst, SelectInSeq
<1> DEFINE p == SubSeq(s, 1, k - 1)
           q == SubSeq(s, k + 1, Len(s))
<1>4. p \in Seq(Apps) /\ Len(p) = k - 1 /\ \A j \in 1..(k - 1) : p[j] = s[j]
  OBVIOUS
<1>5. q \in Seq(Apps) /\ Len(q) = Len(s) - k /\ \A j \in 1..(Len(s) - k) : q[j] = s[k + j]
  OBVIOUS
<1>6. RemoveAt(s, k) = p \o q
  BY DEF RemoveAt
<1> HIDE DEF p, q
<1>7. /\ p \o q \in Seq(Apps) /\ Len(p \o q) = Len(s) - 1
      /\ \A j \in 1..(Len(s) - 1) : (p \o q)[j] = IF j < k THEN p[j] ELSE q[j - (k - 1)]
  <2>1. /\ p \o q \in Seq(Apps) /\ Len(p \o q) = Len(p) + Len(q)
        /\ \A j \in 1..(Len(p) + Len(q)) :
             (p \o q)[j] = IF j <= Len(p) THEN p[j] ELSE q[j - Len(p)]
    <3>1. p \in Seq(Apps) /\ q \in Seq(Apps)
      BY <1>4, <1>5
    <3>2. QED
      BY <3>1
  <2> DEFINE r == p \o q
  <2> HIDE DEF r
  <2>2. Len(p) + Len(q) = Len(s) - 1 /\ Len(p) = k - 1
    BY <1>4, <1>5
  <2>3. \A j \in 1..(Len(s) - 1) : j <= k - 1 <=> j < k
    OBVIOUS
  <2>4. QED
    BY <2>1, <2>2, <2>3
<1>8. ASSUME NEW j \in 1..(Len(s) - 1), ~(j < k)
      PROVE  q[j - (k - 1)] = s[j + 1]
  <2>1. j - (k - 1) \in 1..(Len(s) - k) /\ k + (j - (k - 1)) = j + 1
    BY <1>8
  <2>2. QED
    BY <1>5, <2>1
<1>9. \A j \in 1..(Len(s) - 1) : j < k => p[j] = s[j]
  BY <1>4
<1>10. QED
  BY <1>3, <1>6, <1>7, <1>8, <1>9

(* Adding a view port that is nowhere yet, and removing one.               *)
LEMMA AttachPlaces ==
  ASSUME PlaceIInv, NEW a \in Apps, Attach(a)
  PROVE  PlaceIInv'
<1> DEFINE L == Layer[a]
<1>1. /\ app[a] = "out" /\ app' = [app EXCEPT ![a] = "attached"]
      /\ layers' = [layers EXCEPT ![L] = Append(layers[L], a)]
      /\ enabled' = enabled /\ port' = port /\ gui' = gui
  BY DEF Attach, At, Goto, guiVars
<1>2. L \in LayerNames
  BY LayersAre
<1> HIDE DEF L
<1>3. layers \in [LayerNames -> Seq(Apps)] /\ layers[L] \in Seq(Apps)
  BY <1>2 DEF PlaceIInv, PlaceTypes
<1> DEFINE s == layers[L]
           t == Append(s, a)
<1>4. /\ t \in Seq(Apps) /\ Len(t) = Len(s) + 1 /\ Len(s) \in Nat
      /\ \A i \in 1..Len(s) : t[i] = s[i] /\ s[i] \in Apps
      /\ t[Len(s) + 1] = a
      /\ DOMAIN s = 1..Len(s) /\ DOMAIN t = 1..Len(t)
  BY <1>3
<1>5. layers'[L] = t /\ \A l \in LayerNames : l # L => layers'[l] = layers[l]
  BY <1>1, <1>2, <1>3
<1>6. layers' \in [LayerNames -> Seq(Apps)]
  BY <1>1, <1>3, <1>4
<1>7. PlaceTypes'
  BY <1>1, <1>6 DEF PlaceIInv, PlaceTypes
<1>8. app'[a] = "attached" /\ \A b \in Apps : b # a => app'[b] = app[b]
  BY <1>1 DEF PlaceIInv, PlaceTypes
<1> HIDE DEF t
<1>9. \A i \in DOMAIN t : (i \in DOMAIN s /\ t[i] = s[i]) \/ (i = Len(s) + 1 /\ t[i] = a)
  BY <1>4
<1>10. \A i \in DOMAIN s : s[i] # a
  BY <1>1, <1>2 DEF PlaceIInv, Placed
<1>11. \A l \in LayerNames : \A i \in DOMAIN layers'[l] :
         app'[layers'[l][i]] # "out" /\ Layer[layers'[l][i]] = l
  <2>1. SUFFICES ASSUME NEW l \in LayerNames, NEW i \in DOMAIN layers'[l]
                 PROVE  app'[layers'[l][i]] # "out" /\ Layer[layers'[l][i]] = l
    OBVIOUS
  <2>2. CASE l # L
    <3>1. layers[l] \in Seq(Apps) /\ layers'[l] = layers[l]
      BY <1>3, <1>5, <2>2
    <3>2. i \in DOMAIN layers[l] /\ layers[l][i] \in Apps
      BY <3>1
    <3>3. QED
      BY <1>8, <3>1, <3>2 DEF PlaceIInv, Placed
  <2>3. CASE l = L
    <3>1. i \in DOMAIN t /\ layers'[l] = t
      BY <1>5, <2>3
    <3>2. CASE i \in DOMAIN s /\ t[i] = s[i]
      BY <1>2, <1>4, <1>8, <2>3, <3>1, <3>2 DEF PlaceIInv, Placed
    <3>3. CASE t[i] = a
      BY <1>8, <2>3, <3>1, <3>3 DEF L
    <3>4. QED
      BY <1>9, <3>1, <3>2, <3>3
  <2>4. QED
    BY <2>2, <2>3
<1>12. \A l \in LayerNames : \A i, j \in DOMAIN layers'[l] : layers'[l][i] = layers'[l][j] => i = j
  <2>1. SUFFICES ASSUME NEW l \in LayerNames
                 PROVE  \A i, j \in DOMAIN layers'[l] : layers'[l][i] = layers'[l][j] => i = j
    OBVIOUS
  <2>2. CASE l # L
    BY <1>5, <2>2 DEF PlaceIInv, Placed
  <2>3. CASE l = L
    <3>1. \A i, j \in DOMAIN s : s[i] = s[j] => i = j
      BY <1>2 DEF PlaceIInv, Placed
    <3>2. \A i, j \in DOMAIN t : t[i] = t[j] => i = j
      BY <1>9, <1>10, <3>1
    <3>3. QED
      BY <1>5, <2>3, <3>2
  <2>4. QED
    BY <2>2, <2>3
<1>13. \A b \in Apps : app'[b] # "out" => \E j \in DOMAIN layers'[Layer[b]] : layers'[Layer[b]][j] = b
  <2>1. SUFFICES ASSUME NEW b \in Apps, app'[b] # "out"
                 PROVE  \E j \in DOMAIN layers'[Layer[b]] : layers'[Layer[b]][j] = b
    OBVIOUS
  <2>2. CASE b = a
    <3>1. Len(s) + 1 \in DOMAIN t /\ t[Len(s) + 1] = b
      BY <1>4, <2>2
    <3>2. layers'[Layer[b]] = t
      BY <1>5, <2>2 DEF L
    <3>3. QED
      BY <3>1, <3>2
  <2>3. CASE b # a
    <3>1. PICK j \in DOMAIN layers[Layer[b]] : layers[Layer[b]][j] = b
      BY <1>8, <2>1, <2>3 DEF PlaceIInv, Placed
    <3>2. CASE Layer[b] # L
      BY <1>5, <3>1, <3>2, LayersAre
    <3>3. CASE Layer[b] = L
      <4>1. j \in DOMAIN t /\ t[j] = b
        BY <1>4, <3>1, <3>3
      <4>2. QED
        BY <1>5, <3>3, <4>1
    <3>4. QED
      BY <3>2, <3>3
  <2>4. QED
    BY <2>2, <2>3
<1>14. PortPlaced'
  BY <1>1, <1>8 DEF PlaceIInv, PortPlaced, Locked
<1>15. QED
  BY <1>7, <1>11, <1>12, <1>13, <1>14 DEF PlaceIInv, Placed

(* The sequence t is s without its element a, which was at k.              *)
LosesAt(s, t, k, a) ==
  /\ k \in 1..Len(s) /\ s[k] = a /\ Len(t) = Len(s) - 1
  /\ \A j \in 1..(Len(s) - 1) : t[j] = IF j < k THEN s[j] ELSE s[j + 1]

(* How the layers look without a.                                          *)
LEMMA Without ==
  ASSUME PlaceIInv, NEW a \in Apps, app[a] # "out", NEW L, L = Layer[a],
         layers' = [layers EXCEPT ![L] = RemoveFirst(layers[L], a)]
  PROVE  /\ L \in LayerNames /\ layers[L] \in Seq(Apps) /\ layers' \in [LayerNames -> Seq(Apps)]
         /\ \A l \in LayerNames : l # L => layers'[l] = layers[l]
         /\ \E k : LosesAt(layers[L], layers'[L], k, a)
<1>1. L \in LayerNames /\ layers \in [LayerNames -> Seq(Apps)] /\ layers[L] \in Seq(Apps)
  BY LayersAre DEF PlaceIInv, PlaceTypes
<1>2. DOMAIN layers[L] = 1..Len(layers[L])
  BY <1>1
<1>3. PICK k \in 1..Len(layers[L]) : layers[L][k] = a
  BY <1>2 DEF PlaceIInv, Placed
<1>4. \A j \in 1..Len(layers[L]) : layers[L][j] = layers[L][k] => j = k
  BY <1>1, <1>2 DEF PlaceIInv, Placed
<1> DEFINE s == layers[L]
<1>5. s \in Seq(Apps) /\ k \in 1..Len(s) /\ s[k] = a /\ \A j \in 1..Len(s) : s[j] = s[k] => j = k
  BY <1>1, <1>3, <1>4
<1> HIDE DEF s
<1>6. /\ RemoveFirst(s, a) \in Seq(Apps) /\ Len(RemoveFirst(s, a)) = Len(s) - 1
      /\ \A j \in 1..(Len(s) - 1) :
           RemoveFirst(s, a)[j] = IF j < k THEN s[j] ELSE s[j + 1]
  BY <1>5, Removed
<1>7. /\ layers' \in [LayerNames -> Seq(Apps)] /\ layers'[L] = RemoveFirst(s, a)
      /\ \A l \in LayerNames : l # L => layers'[l] = layers[l]
  BY <1>1, <1>6 DEF s
<1>8. LosesAt(s, RemoveFirst(s, a), k, a)
  BY <1>5, <1>6 DEF LosesAt
<1>9. QED
  BY <1>1, <1>7, <1>8 DEF s

LEMMA FreePlaces ==
  ASSUME PlaceIInv, NEW a \in Apps, Free(a)
  PROVE  PlaceIInv'
<1> DEFINE L == Layer[a]
<1>1. /\ app[a] = "free" /\ app' = [app EXCEPT ![a] = "out"] /\ ~Locked
      /\ layers' = [layers EXCEPT ![L] = RemoveFirst(layers[L], a)]
      /\ enabled' = enabled /\ port' = port /\ gui' = gui
  BY DEF Free, At, Goto, guiVars
<1>2. L = Layer[a]
  OBVIOUS
<1> HIDE DEF L
<1>3. /\ L \in LayerNames /\ layers[L] \in Seq(Apps) /\ layers' \in [LayerNames -> Seq(Apps)]
      /\ \A l \in LayerNames : l # L => layers'[l] = layers[l]
  BY <1>1, <1>2, Without
<1> DEFINE s == layers[L]
           t == layers'[L]
<1>0. PICK k : LosesAt(s, t, k, a)
  BY <1>1, <1>2, Without
<1>4. /\ k \in 1..Len(s) /\ s[k] = a /\ Len(t) = Len(s) - 1
      /\ \A j \in 1..(Len(s) - 1) : t[j] = IF j < k THEN s[j] ELSE s[j + 1]
  BY <1>0 DEF LosesAt
<1>5. app'[a] = "out" /\ \A b \in Apps : b # a => app'[b] = app[b]
  BY <1>1 DEF PlaceIInv, PlaceTypes
<1>6. PlaceTypes'
  BY <1>1, <1>3 DEF PlaceIInv, PlaceTypes
<1>7. /\ s \in Seq(Apps) /\ t \in Seq(Apps) /\ Len(s) \in Nat
      /\ DOMAIN s = 1..Len(s) /\ DOMAIN t = 1..Len(t)
  BY <1>3
<1>8. \A i, j \in DOMAIN s : s[i] = s[j] => i = j
  BY <1>3 DEF PlaceIInv, Placed
<1>9. \A i \in DOMAIN s : s[i] \in Apps /\ app[s[i]] # "out" /\ Layer[s[i]] = L
  BY <1>3, <1>7 DEF PlaceIInv, Placed
<1>10. layers'[L] = t
  OBVIOUS
<1> HIDE DEF s, t
<1>11. \A i \in DOMAIN t : \/ i < k /\ t[i] = s[i] /\ i \in DOMAIN s
                           \/ ~(i < k) /\ t[i] = s[i + 1] /\ i + 1 \in DOMAIN s /\ i + 1 # k
  BY <1>4, <1>7
<1>12. \A i \in DOMAIN t : t[i] \in Apps /\ t[i] # a /\ app[t[i]] # "out" /\ Layer[t[i]] = L
  <2>1. SUFFICES ASSUME NEW i \in DOMAIN t
                 PROVE  t[i] \in Apps /\ t[i] # a /\ app[t[i]] # "out" /\ Layer[t[i]] = L
    OBVIOUS
  <2>2. PICK h \in DOMAIN s : h # k /\ t[i] = s[h]
    BY <1>4, <1>7, <1>11
  <2>3. s[h] # s[k]
    BY <1>4, <1>7, <1>8, <2>2
  <2>4. QED
    BY <1>4, <1>9, <2>2, <2>3
<1>13. \A i, j \in DOMAIN t : t[i] = t[j] => i = j
  <2>1. SUFFICES ASSUME NEW i \in DOMAIN t, NEW j \in DOMAIN t, t[i] = t[j]
                 PROVE  i = j
    OBVIOUS
  <2>2. i \in Nat /\ j \in Nat /\ k \in Nat
    BY <1>4, <1>7
  <2>3. QED
    BY <1>8, <1>11, <2>1, <2>2
<1>14. \A l \in LayerNames : \A i \in DOMAIN layers'[l] :
         app'[layers'[l][i]] # "out" /\ Layer[layers'[l][i]] = l
  <2>1. SUFFICES ASSUME NEW l \in LayerNames, NEW i \in DOMAIN layers'[l]
                 PROVE  app'[layers'[l][i]] # "out" /\ Layer[layers'[l][i]] = l
    OBVIOUS
  <2>2. CASE l # L
    <3>1. layers[l] \in Seq(Apps) /\ layers'[l] = layers[l]
      BY <1>3, <2>2 DEF PlaceIInv, PlaceTypes
    <3>2. i \in DOMAIN layers[l] /\ layers[l][i] \in Apps
      BY <3>1
    <3>3. layers[l][i] # a /\ app[layers[l][i]] # "out" /\ Layer[layers[l][i]] = l
      BY <1>2, <2>2, <3>2 DEF PlaceIInv, Placed
    <3>4. QED
      BY <1>5, <3>1, <3>2, <3>3
  <2>3. CASE l = L
    BY <1>5, <1>10, <1>12, <2>3
  <2>4. QED
    BY <2>2, <2>3
<1>15. \A l \in LayerNames : \A i, j \in DOMAIN layers'[l] : layers'[l][i] = layers'[l][j] => i = j
  <2>1. SUFFICES ASSUME NEW l \in LayerNames
                 PROVE  \A i, j \in DOMAIN layers'[l] : layers'[l][i] = layers'[l][j] => i = j
    OBVIOUS
  <2>2. CASE l # L
    BY <1>3, <2>2 DEF PlaceIInv, Placed
  <2>3. CASE l = L
    BY <1>10, <1>13, <2>3
  <2>4. QED
    BY <2>2, <2>3
<1>16. \A b \in Apps : app'[b] # "out" => \E j \in DOMAIN layers'[Layer[b]] : layers'[Layer[b]][j] = b
  <2>1. SUFFICES ASSUME NEW b \in Apps, app'[b] # "out"
                 PROVE  \E j \in DOMAIN layers'[Layer[b]] : layers'[Layer[b]][j] = b
    OBVIOUS
  <2>2. b # a /\ app[b] # "out"
    BY <1>5, <2>1
  <2>3. PICK j \in DOMAIN layers[Layer[b]] : layers[Layer[b]][j] = b
    BY <2>2 DEF PlaceIInv, Placed
  <2>4. CASE Layer[b] # L
    BY <1>3, <2>3, <2>4, LayersAre
  <2>5. CASE Layer[b] = L
    <3>1. j \in DOMAIN s /\ s[j] = b /\ j # k
      BY <1>4, <2>2, <2>3, <2>5 DEF s
    <3>2. j < k => j \in DOMAIN t /\ t[j] = b
      BY <1>4, <1>7, <3>1
    <3>3. ~(j < k) => j - 1 \in DOMAIN t /\ t[j - 1] = b
      <4>1. SUFFICES ASSUME ~(j < k) PROVE j - 1 \in DOMAIN t /\ t[j - 1] = b
        OBVIOUS
      <4>2. j - 1 \in 1..(Len(s) - 1) /\ ~(j - 1 < k) /\ (j - 1) + 1 = j
        BY <1>4, <1>7, <3>1, <4>1
      <4>3. QED
        BY <1>4, <1>7, <3>1, <4>2
    <3>4. QED
      BY <1>10, <2>5, <3>2, <3>3
  <2>6. QED
    BY <2>4, <2>5
<1>17. PortPlaced'
  BY <1>1 DEF PortPlaced, Locked
<1>18. QED
  BY <1>6, <1>14, <1>15, <1>16, <1>17 DEF PlaceIInv, Placed

(* The other steps leave the layers alone.                                 *)
LEMMA PlaceNext ==
  ASSUME PlaceIInv, [Next]_vars
  PROVE  PlaceIInv'
<1>1. CASE UNCHANGED vars
  BY <1>1 DEF vars, guiVars, appVars, PlaceIInv, PlaceTypes, Placed, PortPlaced, Locked
<1>2. ASSUME NEW p \in Publishers, Publisher(p)
      PROVE  PlaceIInv'
  <2>1. UNCHANGED <<layers, app, enabled, gui, port>>
    BY <1>2 DEF Publisher, Publish, Put, SetInput, guiVars, appVars
  <2>2. QED
    BY <2>1 DEF PlaceIInv, PlaceTypes, Placed, PortPlaced, Locked
<1>3. CASE GuiThread
  <2>1. UNCHANGED <<layers, app, enabled>>
    BY <1>3 DEF GuiThread, Wake, Get, Drained, Dispatch, InputCallback, ClearDraw, Redraw,
                DrawCallback, appVars
  <2>2. PortPlaced'
    <3>1. CASE Dispatch \/ Redraw
      <4>1. port' = Top /\ app' = app
        BY <2>1, <3>1 DEF Dispatch, Redraw
      <4>2. QED
        BY <4>1, TopIsAttached DEF PlaceIInv, PortPlaced
    <3>2. CASE Wake \/ Get \/ Drained \/ InputCallback \/ ClearDraw \/ DrawCallback
      BY <3>2 DEF Wake, Get, Drained, InputCallback, ClearDraw, DrawCallback, PortPlaced, Locked
    <3>3. QED
      BY <1>3, <3>1, <3>2 DEF GuiThread
  <2>3. QED
    BY <2>1, <2>2 DEF PlaceIInv, PlaceTypes, Placed
<1>4. ASSUME NEW a \in Apps, App(a)
      PROVE  PlaceIInv'
  <2>1. CASE Show(a) \/ Update(a) \/ Ignore(a) \/ Change(a) \/ Leave(a) \/ LeaveAgain(a)
             \/ Hide(a) \/ PutStop(a) \/ TakeStop(a)
    <3>1. /\ UNCHANGED <<layers, gui, port>>
          /\ enabled' \in [Apps -> BOOLEAN]
          /\ app' \in [Apps -> {"out", "attached", "update", "run", "hide", "stop", "free"}]
          /\ \A b \in Apps : app'[b] # "out" <=> app[b] # "out"
      BY <2>1 DEF Show, Update, Ignore, Change, Leave, LeaveAgain, Receive, Hide, PutStop, TakeStop,
                  At, Goto, guiVars, PlaceIInv, PlaceTypes
    <3>2. PlaceTypes'
      BY <3>1 DEF PlaceIInv, PlaceTypes
    <3>3. \A l \in LayerNames : \A i \in DOMAIN layers[l] : layers[l][i] \in Apps
      <4>1. \A l \in LayerNames : layers[l] \in Seq(Apps)
        BY DEF PlaceIInv, PlaceTypes
      <4>2. QED
        BY <4>1
    <3>4. Placed'
      BY <3>1, <3>3 DEF PlaceIInv, Placed
    <3>5. PortPlaced'
      BY <3>1 DEF PlaceIInv, PortPlaced, Locked
    <3>6. QED
      BY <3>2, <3>4, <3>5 DEF PlaceIInv
  <2>2. QED
    BY <1>4, <2>1, AttachPlaces, FreePlaces DEF App
<1>5. QED
  BY <1>1, <1>2, <1>3, <1>4 DEF Next

LEMMA PlaceInit == Init => PlaceIInv
<1>1. SUFFICES ASSUME Init PROVE PlaceIInv
  OBVIOUS
<1>2. /\ layers = [l \in LayerNames |-> <<>>] /\ app = [a \in Apps |-> "out"]
      /\ enabled = [a \in Apps |-> FALSE] /\ gui = "wait"
  BY <1>1 DEF Init, LayerNames
<1>3. \A l \in LayerNames : layers[l] = <<>> /\ DOMAIN layers[l] = {}
  BY <1>2
<1>4. PlaceTypes
  BY <1>2 DEF PlaceTypes
<1>5. Placed
  BY <1>2, <1>3 DEF Placed
<1>6. QED
  BY <1>2, <1>4, <1>5 DEF PlaceIInv, PortPlaced, Locked

(* View ports are where their applications put them.                       *)
THEOREM PlaceInvariance == Spec => []PlaceIInv
<1>1. PlaceIInv /\ [Next]_vars => PlaceIInv'
  BY PlaceNext
<1>2. QED
  BY PlaceInit, <1>1, PTL DEF Spec

(* The GUI thread is never in a callback of an application that has freed  *)
(* its view port and its queue.                                            *)
THEOREM CallbacksAreLive == Spec => []CallbackIsLive
<1>1. PlaceIInv => CallbackIsLive
  BY DEF PlaceIInv, PortPlaced, Placed, CallbackIsLive
<1>2. QED
  BY <1>1, PlaceInvariance, PTL

-----------------------------------------------------------------------------
(* The screen.                                                             *)

EnabledIn(s) == {j \in DOMAIN s : enabled[s[j]]}

(* A removed view port that was not enabled does not change what is on top. *)
LEMMA TopmostKept ==
  ASSUME NEW s \in Seq(Apps), NEW t \in Seq(Apps), NEW k, NEW a, LosesAt(s, t, k, a),
         ~enabled[a]
  PROVE  /\ EnabledIn(t) = {} <=> EnabledIn(s) = {}
         /\ EnabledIn(s) # {} => t[Max(EnabledIn(t))] = s[Max(EnabledIn(s))]
<1> DEFINE E == EnabledIn(s)
           F == EnabledIn(t)
<1>0. E = {j \in DOMAIN s : enabled[s[j]]} /\ F = {j \in DOMAIN t : enabled[t[j]]}
  BY DEF EnabledIn
<1> HIDE DEF E, F
<1>1. /\ k \in 1..Len(s) /\ s[k] = a /\ Len(t) = Len(s) - 1 /\ Len(s) \in Nat /\ Len(t) \in Nat
      /\ \A j \in 1..(Len(s) - 1) : t[j] = IF j < k THEN s[j] ELSE s[j + 1]
      /\ DOMAIN s = 1..Len(s) /\ DOMAIN t = 1..Len(t)
  BY DEF LosesAt
<1>2. \A j \in E : j \in 1..Len(s) /\ enabled[s[j]] /\ j # k
  BY <1>0, <1>1
<1>3. \A j \in F : j < k => j \in E /\ t[j] = s[j]
  BY <1>0, <1>1
<1>4. \A j \in F : ~(j < k) => j + 1 \in E /\ t[j] = s[j + 1]
  BY <1>0, <1>1
<1>5. \A j \in E : j < k => j \in F /\ t[j] = s[j]
  BY <1>0, <1>1
<1>6. \A j \in E : ~(j < k) => j - 1 \in F /\ t[j - 1] = s[j]
  <2>1. SUFFICES ASSUME NEW j \in E, ~(j < k)
                 PROVE  j - 1 \in F /\ t[j - 1] = s[j]
    OBVIOUS
  <2>2. j - 1 \in 1..(Len(s) - 1) /\ ~(j - 1 < k) /\ (j - 1) + 1 = j
    BY <1>1, <1>2, <2>1
  <2>3. t[j - 1] = s[j]
    BY <1>1, <2>2
  <2>4. QED
    BY <1>0, <1>1, <1>2, <2>1, <2>2, <2>3
<1>7. F = {} <=> E = {}
  BY <1>3, <1>4, <1>5, <1>6
<1>8. ASSUME E # {} PROVE t[Max(F)] = s[Max(E)]
  <2> DEFINE m == Max(E)
  <2>1. m \in E /\ \A j \in E : m >= j
    <3>1. E \in SUBSET (1..Len(s))
      BY <1>0, <1>1
    <3>2. QED
      BY <1>1, <1>8, <3>1, MaxIs
  <2> HIDE DEF m
  <2>2. m \in Nat /\ k \in Nat /\ E \subseteq Nat /\ F \subseteq Nat
    BY <1>0, <1>1, <2>1
  <2>3. F \in SUBSET (1..Len(t))
    BY <1>0, <1>1
  <2>4. CASE m < k
    <3>1. \A j \in F : m >= j
      BY <1>3, <1>4, <2>1, <2>2, <2>4
    <3>2. Max(F) = m
      BY <1>1, <1>5, <2>1, <2>3, <2>4, <3>1, MaxUnique
    <3>3. QED
      BY <1>5, <2>1, <2>4, <3>2 DEF m
  <2>5. CASE ~(m < k)
    <3>1. \A j \in F : m - 1 >= j
      BY <1>2, <1>3, <1>4, <2>1, <2>2, <2>5
    <3>2. m - 1 \in F
      BY <1>6, <2>1, <2>5
    <3>3. Max(F) = m - 1
      BY <1>1, <2>3, <3>1, <3>2, MaxUnique
    <3>4. QED
      BY <1>6, <2>1, <2>5, <3>3 DEF m
  <2>6. QED
    BY <2>4, <2>5
<1>9. QED
  BY <1>7, <1>8 DEF E, F

LEMMA TopKept ==
  ASSUME PlaceIInv, NEW a \in Apps, Free(a), ~enabled[a]
  PROVE  Top' = Top
<1> DEFINE L == Layer[a]
<1>1. /\ app[a] # "out" /\ layers' = [layers EXCEPT ![L] = RemoveFirst(layers[L], a)]
      /\ enabled' = enabled
  BY DEF Free, At
<1>2. L = Layer[a]
  OBVIOUS
<1> HIDE DEF L
<1>3. /\ L \in LayerNames /\ layers[L] \in Seq(Apps) /\ layers' \in [LayerNames -> Seq(Apps)]
      /\ \A l \in LayerNames : l # L => layers'[l] = layers[l]
  BY <1>1, <1>2, Without
<1>4. PICK k : LosesAt(layers[L], layers'[L], k, a)
  BY <1>1, <1>2, Without
<1>5. layers'[L] \in Seq(Apps)
  BY <1>3
<1>6. \A l \in LayerNames :
        /\ Enabled(l)' = {} <=> Enabled(l) = {}
        /\ Enabled(l) # {} => Topmost(l)' = Topmost(l)
  <2>1. SUFFICES ASSUME NEW l \in LayerNames
                 PROVE  /\ Enabled(l)' = {} <=> Enabled(l) = {}
                        /\ Enabled(l) # {} => Topmost(l)' = Topmost(l)
    OBVIOUS
  <2>2. CASE l # L
    BY <1>1, <1>3, <2>2 DEF Enabled, Topmost
  <2>3. CASE l = L
    <3>1. Enabled(l) = EnabledIn(layers[L]) /\ Enabled(l)' = EnabledIn(layers'[L])
      BY <1>1, <2>3 DEF Enabled, EnabledIn
    <3>2. /\ Topmost(l) = layers[L][Max(EnabledIn(layers[L]))]
          /\ Topmost(l)' = layers'[L][Max(EnabledIn(layers'[L]))]
      BY <2>3, <3>1 DEF Topmost
    <3>3. /\ EnabledIn(layers'[L]) = {} <=> EnabledIn(layers[L]) = {}
          /\ EnabledIn(layers[L]) # {} =>
               layers'[L][Max(EnabledIn(layers'[L]))] = layers[L][Max(EnabledIn(layers[L]))]
      BY <1>3, <1>4, <1>5, TopmostKept
    <3>4. QED
      BY <3>1, <3>2, <3>3
  <2>4. QED
    BY <2>2, <2>3
<1> DEFINE found == {i \in DOMAIN Layers : Enabled(Layers[i]) # {}}
<1>7. found' = found
  BY <1>6, LayersAre
<1>8. CASE found = {}
  BY <1>7, <1>8 DEF Top
<1>9. CASE found # {}
  <2>1. Top = Topmost(Layers[Min(found)]) /\ Top' = (Topmost(Layers[Min(found)]))'
    BY <1>7, <1>9 DEF Top
  <2>2. found \in SUBSET Nat
    BY LayersAre
  <2>3. Min(found) \in found
    BY <1>9, <2>2, MinIs
  <2>4. PICK i : i = Min(found)
    OBVIOUS
  <2>5. Layers[i] \in LayerNames /\ Enabled(Layers[i]) # {}
    BY <2>3, <2>4, LayersAre
  <2>6. Top = Topmost(Layers[i]) /\ Top' = (Topmost(Layers[i]))'
    BY <1>7, <2>1, <2>4
  <2>7. QED
    BY <1>6, <2>5, <2>6
<1>10. QED
  BY <1>8, <1>9

(* An application on its way out is disabled, and its Stop is in its queue *)
(* only then.                                                              *)
Leaving ==
  /\ \A a \in Apps : app[a] \in {"hide", "stop", "free", "out", "attached"} => ~enabled[a]
  /\ \A a \in Apps : ~Events(queue[a]) => ~enabled[a] /\ app[a] \in {"run", "free"}

(* No redraw is due, and nobody is about to ask for one.                   *)
Quiet == "draw" \notin flags /\ \A a \in Apps : app[a] \notin {"update", "hide"}

(* Then the screen is as it should be, or is about to be.                  *)
ScreenOrder ==
  /\ Quiet /\ (gui = "wait" \/ (gui \in {"drain", "dispatch", "callback"} /\ "draw" \notin taken))
       => screen = Top /\ Top \notin stale
  /\ Quiet /\ gui = "drawing" => port = Top
  /\ NoApp \notin stale

ScreenIInv == Leaving /\ ScreenOrder

LEMMA LeavingNext ==
  ASSUME OrderIInv, PlaceTypes, Leaving, [Next]_vars
  PROVE  Leaving'
<1>1. \A a \in Apps : queue[a] \in Seq(Nat)
  BY DEF OrderIInv, PathTypes
<1>2. CASE UNCHANGED <<app, enabled, queue>>
  BY <1>2 DEF Leaving
<1>3. CASE InputCallback
  <2>1. /\ UNCHANGED <<app, enabled>> /\ event \in Nat /\ event # Stop
        /\ queue' = [queue EXCEPT ![port] = Append(queue[port], event)]
    BY <1>3 DEF InputCallback, appVars, OrderIInv, PathTypes, GuiOrder, Stop
  <2>2. \A a \in Apps : queue'[a] = queue[a] \/ queue'[a] = Append(queue[a], event)
    BY <2>1 DEF OrderIInv, PathTypes
  <2>3. \A a \in Apps : Events(queue[a]) => Events(queue'[a])
    BY <1>1, <2>1, <2>2, AppendOrder
  <2>4. QED
    BY <2>1, <2>3 DEF Leaving
<1>4. ASSUME NEW a \in Apps, App(a)
      PROVE  Leaving'
  <2> SUFFICES ASSUME NEW b \in Apps
               PROVE  /\ app'[b] \in {"hide", "stop", "free", "out", "attached"} => ~enabled'[b]
                      /\ ~Events(queue'[b]) => ~enabled'[b] /\ app'[b] \in {"run", "free"}
    BY DEF Leaving
  <2>1. /\ app[b] \in {"hide", "stop", "free", "out", "attached"} => ~enabled[b]
        /\ ~Events(queue[b]) => ~enabled[b] /\ app[b] \in {"run", "free"}
    BY DEF Leaving
  <2>2. CASE b # a
    <3>1. app'[b] = app[b] /\ enabled'[b] = enabled[b] /\ queue'[b] = queue[b]
      BY <1>4, <2>2
         DEF App, Attach, Show, Update, Ignore, Change, Leave, LeaveAgain, Receive, Hide, PutStop,
             TakeStop, Free, At, Goto, OrderIInv, PathTypes, PlaceTypes
    <3>2. QED
      BY <2>1, <3>1
  <2>3. CASE b = a
    <3>1. queue[a] # <<>> =>
            (Events(queue[a]) => Events(Tail(queue[a])) /\ Head(queue[a]) # Stop)
      BY <1>1, TailOrder
    <3>2. CASE Attach(a) \/ Show(a) \/ Update(a) \/ Hide(a)
      BY <2>1, <2>3, <3>2
         DEF Attach, Show, Update, Hide, At, Goto, PlaceTypes
    <3>3. CASE Ignore(a) \/ Change(a) \/ Leave(a) \/ LeaveAgain(a)
      <4>1. /\ queue[a] # <<>> /\ app[a] = "run" /\ queue'[a] = Tail(queue[a])
            /\ \/ app'[a] = "run" /\ enabled'[a] = enabled[a]
               \/ app'[a] = "update" /\ enabled[a] /\ enabled'[a] = enabled[a]
               \/ app'[a] = "hide" /\ enabled[a] /\ ~enabled'[a]
        BY <3>3
           DEF Ignore, Change, Leave, LeaveAgain, Receive, At, Goto, OrderIInv, PathTypes, PlaceTypes
      <4>2. QED
        BY <2>1, <2>3, <3>1, <4>1
    <3>4. CASE PutStop(a)
      BY <2>1, <2>3, <3>4 DEF PutStop, At, Goto, PlaceTypes
    <3>5. CASE TakeStop(a)
      <4>1. /\ queue[a] # <<>> /\ Head(queue[a]) = Stop /\ app'[a] = "free" /\ enabled'[a] = enabled[a]
        BY <3>5 DEF TakeStop, At, Goto, PlaceTypes
      <4>2. QED
        BY <2>1, <2>3, <3>1, <4>1
    <3>6. CASE Free(a)
      <4>1. app[a] = "free" /\ app'[a] = "out" /\ enabled'[a] = enabled[a] /\ queue'[a] = <<>>
        BY <3>6 DEF Free, At, Goto, PlaceTypes, OrderIInv, PathTypes
      <4>2. Events(<<>>)
        BY DEF Events
      <4>3. QED
        BY <2>1, <2>3, <4>1, <4>2
    <3>7. QED
      BY <1>4, <3>2, <3>3, <3>4, <3>5, <3>6 DEF App
  <2>4. QED
    BY <2>2, <2>3
<1>5. QED
  <2>1. CASE UNCHANGED vars
    BY <1>2, <2>1 DEF vars, appVars
  <2>2. ASSUME NEW p \in Publishers, Publisher(p) PROVE Leaving'
    BY <1>2, <2>2 DEF Publisher, Publish, Put, SetInput, appVars
  <2>3. CASE GuiThread
    BY <1>2, <1>3, <2>3 DEF GuiThread, Wake, Get, Drained, Dispatch, ClearDraw, Redraw, DrawCallback, appVars
  <2>4. QED
    BY <1>4, <2>1, <2>2, <2>3 DEF Next

LEMMA TopUnchanged == ASSUME UNCHANGED <<layers, enabled>> PROVE Top' = Top
BY DEF Top, Topmost, Enabled

(* Whoever changes what is to be seen has asked for a redraw, or is going  *)
(* to, and a request is forgotten only before the drawing.                 *)
LEMMA ScreenNext ==
  ASSUME PlaceIInv, Leaving, ScreenOrder, [Next]_vars
  PROVE  ScreenOrder'
<1>1. CASE UNCHANGED <<layers, enabled, app, stale, screen, port, gui, taken>> /\ flags \subseteq flags'
  BY <1>1, TopUnchanged DEF ScreenOrder, Quiet
<1>2. ASSUME NEW p \in Publishers, Publisher(p)
      PROVE  ScreenOrder'
  BY <1>1, <1>2 DEF Publisher, Publish, Put, SetInput, guiVars, appVars
<1>3. CASE GuiThread
  <2>1. UNCHANGED <<layers, enabled, app>> /\ Top' = Top
    BY <1>3, TopUnchanged
       DEF GuiThread, Wake, Get, Drained, Dispatch, InputCallback, ClearDraw, Redraw, DrawCallback, appVars
  <2>2. CASE Wake
    BY <2>1, <2>2 DEF Wake, ScreenOrder, Quiet
  <2>3. CASE Get \/ Drained \/ Dispatch \/ InputCallback
    BY <2>1, <2>3 DEF Get, Drained, Dispatch, InputCallback, ScreenOrder, Quiet
  <2>4. CASE ClearDraw \/ Redraw
    BY <2>1, <2>4 DEF ClearDraw, Redraw, ScreenOrder, Quiet
  <2>5. CASE DrawCallback
    BY <2>1, <2>5 DEF DrawCallback, ScreenOrder, Quiet
  <2>6. QED
    BY <1>3, <2>2, <2>3, <2>4, <2>5 DEF GuiThread
<1>4. ASSUME NEW a \in Apps, App(a)
      PROVE  ScreenOrder'
  <2>1. UNCHANGED <<gui, taken, port, screen>> /\ NoApp \notin stale'
    BY <1>4, GuiAssumption
       DEF App, Attach, Show, Update, Ignore, Change, Leave, LeaveAgain, Receive, Hide, PutStop,
           TakeStop, Free, guiVars, ScreenOrder
  <2>2. CASE Attach(a) \/ Update(a) \/ Hide(a)
    BY <2>1, <2>2 DEF Attach, Update, Hide, ScreenOrder, Quiet
  <2>3. CASE Show(a) \/ Change(a) \/ Leave(a)
    <3>1. app'[a] \in {"update", "hide"}
      BY <2>3 DEF Show, Change, Leave, Receive, Goto, PlaceIInv, PlaceTypes
    <3>2. QED
      BY <2>1, <3>1 DEF ScreenOrder, Quiet
  <2>4. CASE Ignore(a) \/ LeaveAgain(a) \/ PutStop(a) \/ TakeStop(a) \/ Free(a)
    <3>1. /\ UNCHANGED <<stale, flags>> /\ app[a] \in {"run", "stop", "free"}
          /\ \A b \in Apps : app'[b] = app[b] \/ b = a
      BY <2>4
         DEF Ignore, LeaveAgain, Receive, PutStop, TakeStop, Free, At, Goto, PlaceIInv, PlaceTypes
    <3>2. Quiet' => Quiet
      BY <3>1 DEF Quiet
    <3>3. Top' = Top
      <4>1. CASE Free(a)
        BY <4>1, TopKept DEF Leaving, Free, At
      <4>2. CASE ~Free(a)
        BY <2>4, <4>2, TopUnchanged DEF Ignore, LeaveAgain, PutStop, TakeStop
      <4>3. QED
        BY <4>1, <4>2
    <3>4. QED
      BY <2>1, <3>1, <3>2, <3>3 DEF ScreenOrder
  <2>5. QED
    BY <1>4, <2>2, <2>3, <2>4 DEF App
<1>5. CASE UNCHANGED vars
  BY <1>1, <1>5 DEF vars, guiVars, appVars
<1>6. QED
  BY <1>2, <1>3, <1>4, <1>5 DEF Next

LEMMA ScreenInit == Init => ScreenIInv
<1>1. SUFFICES ASSUME Init PROVE ScreenIInv
  OBVIOUS
<1>2. Leaving
  BY <1>1 DEF Init, Leaving, Events
<1>3. \A l \in LayerNames : layers[l] = <<>>
  BY <1>1 DEF Init, LayerNames
<1>4. Top = NoApp
  <2>1. \A l \in LayerNames : Enabled(l) = {}
    BY <1>3 DEF Enabled
  <2>2. {i \in DOMAIN Layers : Enabled(Layers[i]) # {}} = {}
    BY <2>1, LayersAre
  <2>3. QED
    BY <2>2 DEF Top
<1>5. QED
  BY <1>1, <1>2, <1>4 DEF ScreenIInv, ScreenOrder, Init

(* No request to redraw gets lost between a flag, a callback and a change. *)
THEOREM ScreenInvariance == Spec => []ScreenIInv
<1>1. OrderIInv /\ PlaceIInv /\ ScreenIInv /\ [Next]_vars => ScreenIInv'
  BY LeavingNext, ScreenNext DEF PlaceIInv, ScreenIInv
<1>2. QED
  BY <1>1, ScreenInit, OrderInvariance, PlaceInvariance, PTL DEF Spec

(* When nothing is under way the screen shows the application that would   *)
(* get the input, as its model is now.                                     *)
THEOREM ScreenStaysCurrent == Spec => []ScreenIsCurrent
<1>1. ScreenIInv => ScreenIsCurrent
  BY DEF ScreenIInv, ScreenOrder, Quiet, ScreenIsCurrent
<1>2. QED
  BY <1>1, ScreenInvariance, PTL
-----------------------------------------------------------------------------
(* The types and the capacities of the queues.  Who is about to put an     *)
(* event has one, as 0 means Stop in an application's queue.               *)
TypeIInv ==
  /\ TypeOK
  /\ \A p \in Publishers : publisher[p] = "put" => hand[p] # 0

LEMMA PutType ==
  ASSUME NEW T, NEW q \in Seq(T), NEW e \in T
  PROVE  Append(q, e) \in Seq(T) /\ Len(Append(q, e)) = Len(q) + 1 /\ Len(q) \in Nat
OBVIOUS

LEMMA TakeType ==
  ASSUME NEW T, NEW q \in Seq(T), q # <<>>
  PROVE  Tail(q) \in Seq(T) /\ Len(Tail(q)) = Len(q) - 1 /\ Len(q) \in Nat /\ Head(q) \in T
OBVIOUS

LEMMA PublisherTypes ==
  ASSUME TypeIInv, NEW p \in Publishers, Publisher(p)
  PROVE  TypeIInv'
<1>1. CASE Publish(p)
  <2>1. published + 1 \in 0..MaxEvents /\ published + 1 # 0
    BY <1>1, GuiAssumption DEF Publish, TypeIInv, TypeOK
  <2>2. QED
    BY <1>1, <2>1 DEF Publish, TypeIInv, TypeOK, guiVars, appVars
<1>2. CASE Put(p)
  <2>1. hand[p] \in 1..MaxEvents
    BY <1>2, GuiAssumption DEF Put, TypeIInv, TypeOK
  <2>2. input_queue' \in Seq(1..MaxEvents) /\ Len(input_queue') = Len(input_queue) + 1
    <3>1. input_queue \in Seq(1..MaxEvents) /\ input_queue' = Append(input_queue, hand[p])
      BY <1>2 DEF Put, TypeIInv, TypeOK
    <3>2. /\ Append(input_queue, hand[p]) \in Seq(1..MaxEvents)
          /\ Len(Append(input_queue, hand[p])) = Len(input_queue) + 1
      BY <2>1, <3>1, PutType, Zenon
    <3>3. QED
      BY <3>1, <3>2
  <2>3. Len(input_queue') <= GuiQueue
    <3>1. Len(input_queue) \in Nat /\ Len(input_queue) < GuiQueue
      BY <1>2 DEF Put, TypeIInv, TypeOK
    <3>2. QED
      BY <2>2, <3>1, GuiAssumption
  <2>4. QED
    BY <1>2, <2>2, <2>3 DEF Put, TypeIInv, TypeOK, guiVars, appVars
<1>3. CASE SetInput(p)
  BY <1>3, GuiAssumption DEF SetInput, TypeIInv, TypeOK, guiVars, appVars
<1>4. QED
  BY <1>1, <1>2, <1>3 DEF Publisher

LEMMA GuiThreadTypes ==
  ASSUME TypeIInv, PlaceIInv, GuiThread
  PROVE  TypeIInv'
<1>1. CASE Wake \/ Drained \/ ClearDraw \/ DrawCallback
  BY <1>1 DEF Wake, Drained, ClearDraw, DrawCallback, TypeIInv, TypeOK, pubVars, appVars
<1>2. CASE Get
  <2>1. /\ Tail(input_queue) \in Seq(1..MaxEvents) /\ Head(input_queue) \in 1..MaxEvents
        /\ Len(Tail(input_queue)) = Len(input_queue) - 1 /\ Len(input_queue) \in Nat
    BY <1>2, TakeType, Zenon DEF Get, TypeIInv, TypeOK
  <2>2. event' \in 0..MaxEvents /\ Len(input_queue') <= GuiQueue
    BY <1>2, <2>1, GuiAssumption DEF Get, TypeIInv, TypeOK
  <2>3. input_queue' \in Seq(1..MaxEvents)
    BY <1>2, <2>1 DEF Get
  <2>4. QED
    BY <1>2, <2>2, <2>3 DEF Get, TypeIInv, TypeOK, pubVars, appVars
<1>3. CASE Dispatch \/ Redraw
  <2>1. port' \in Apps \union {NoApp}
    BY <1>3, TopIsAttached DEF Dispatch, Redraw, PlaceIInv
  <2>2. event' \in 0..MaxEvents
    BY <1>3, GuiAssumption DEF Dispatch, Redraw, TypeIInv, TypeOK
  <2>3. QED
    BY <1>3, <2>1, <2>2 DEF Dispatch, Redraw, TypeIInv, TypeOK, pubVars, appVars
<1>4. CASE InputCallback
  <2>1. ASSUME NEW a \in Apps
        PROVE  queue'[a] \in Seq(0..MaxEvents) /\ Len(queue'[a]) <= AppQueue
    <3>1. queue[a] \in Seq(0..MaxEvents) /\ Len(queue[a]) <= AppQueue /\ event \in 0..MaxEvents
      BY DEF TypeIInv, TypeOK
    <3>2. queue'[a] = IF a = port THEN Append(queue[a], event) ELSE queue[a]
      BY <1>4 DEF InputCallback, TypeIInv, TypeOK
    <3>3. /\ Append(queue[a], event) \in Seq(0..MaxEvents) /\ Len(queue[a]) \in Nat
          /\ Len(Append(queue[a], event)) = Len(queue[a]) + 1
      BY <3>1, PutType, Zenon
    <3>4. a = port => Len(queue[a]) + 1 <= AppQueue
      BY <1>4, <3>3, GuiAssumption DEF InputCallback
    <3>5. QED
      BY <3>1, <3>2, <3>3, <3>4
  <2>2. queue' \in [Apps -> Seq(0..MaxEvents)]
    <3>1. queue' = [a \in Apps |-> queue'[a]]
      BY <1>4 DEF InputCallback, TypeIInv, TypeOK
    <3>2. QED
      BY <2>1, <3>1
  <2>3. 0 \in 0..MaxEvents
    BY GuiAssumption
  <2>4. QED
    BY <1>4, <2>1, <2>2, <2>3 DEF InputCallback, TypeIInv, TypeOK, pubVars, appVars
<1>5. QED
  BY <1>1, <1>2, <1>3, <1>4 DEF GuiThread

LEMMA AppTypes ==
  ASSUME TypeIInv, PlaceIInv', NEW a \in Apps, App(a)
  PROVE  TypeIInv'
<1>1. /\ layers' \in [ToSet(Layers) -> Seq(Apps)] /\ enabled' \in [Apps -> BOOLEAN]
      /\ app' \in [Apps -> {"out", "attached", "update", "run", "hide", "stop", "free"}]
  BY DEF PlaceIInv, PlaceTypes, LayerNames
<1>2. /\ queue[a] \in Seq(0..MaxEvents) /\ Len(queue[a]) <= AppQueue /\ Len(queue[a]) \in Nat
      /\ queue \in [Apps -> Seq(0..MaxEvents)] /\ handled \in [Apps -> 0..MaxEvents]
      /\ AppQueue \in Nat /\ Stop \in 0..MaxEvents
  BY GuiAssumption DEF TypeIInv, TypeOK, Stop
<1>3. CASE Attach(a) \/ Show(a) \/ Update(a) \/ Hide(a)
  BY <1>1, <1>3 DEF Attach, Show, Update, Hide, TypeIInv, TypeOK, pubVars, guiVars
<1>4. ASSUME queue[a] # <<>>
      PROVE  /\ Tail(queue[a]) \in Seq(0..MaxEvents) /\ Head(queue[a]) \in 0..MaxEvents
             /\ Len(Tail(queue[a])) <= AppQueue
  <2>1. /\ Tail(queue[a]) \in Seq(0..MaxEvents) /\ Head(queue[a]) \in 0..MaxEvents
        /\ Len(Tail(queue[a])) = Len(queue[a]) - 1
    BY <1>2, <1>4, TakeType, Zenon
  <2>2. QED
    BY <1>2, <2>1
<1>5. CASE Ignore(a) \/ Change(a) \/ Leave(a) \/ LeaveAgain(a)
  <2>1. Receive(a)
    BY <1>5 DEF Ignore, Change, Leave, LeaveAgain
  <2>2. /\ queue' \in [Apps -> Seq(0..MaxEvents)] /\ handled' \in [Apps -> 0..MaxEvents]
        /\ \A b \in Apps : Len(queue'[b]) <= AppQueue
    BY <1>2, <1>4, <2>1 DEF Receive, TypeIInv, TypeOK
  <2>3. stale' \subseteq Apps /\ failed' \in BOOLEAN
    BY <1>5 DEF Ignore, Change, Leave, LeaveAgain, TypeIInv, TypeOK
  <2>4. UNCHANGED <<pubVars, input_queue, flags, guiVars>>
    BY <1>5 DEF Ignore, Change, Leave, LeaveAgain
  <2>5. QED
    BY <1>1, <2>2, <2>3, <2>4 DEF TypeIInv, TypeOK, pubVars, guiVars
<1>6. CASE PutStop(a)
  <2>1. /\ Append(queue[a], Stop) \in Seq(0..MaxEvents)
        /\ Len(Append(queue[a], Stop)) = Len(queue[a]) + 1
    BY <1>2, PutType, Zenon
  <2>2. Len(Append(queue[a], Stop)) <= AppQueue
    BY <1>2, <1>6, <2>1 DEF PutStop
  <2>3. queue' \in [Apps -> Seq(0..MaxEvents)] /\ \A b \in Apps : Len(queue'[b]) <= AppQueue
    BY <1>2, <1>6, <2>1, <2>2 DEF PutStop, TypeIInv, TypeOK
  <2>4. QED
    BY <1>1, <1>6, <2>3 DEF PutStop, TypeIInv, TypeOK, pubVars, guiVars
<1>7. CASE TakeStop(a)
  <2>1. queue' \in [Apps -> Seq(0..MaxEvents)] /\ \A b \in Apps : Len(queue'[b]) <= AppQueue
    BY <1>2, <1>4, <1>7 DEF TakeStop, TypeIInv, TypeOK
  <2>2. QED
    BY <1>1, <1>7, <2>1 DEF TakeStop, TypeIInv, TypeOK, pubVars, guiVars
<1>8. CASE Free(a)
  <2>1. <<>> \in Seq(0..MaxEvents) /\ Len(<<>>) <= AppQueue
    BY <1>2
  <2>2. queue' \in [Apps -> Seq(0..MaxEvents)] /\ \A b \in Apps : Len(queue'[b]) <= AppQueue
    BY <1>2, <1>8, <2>1 DEF Free, TypeIInv, TypeOK
  <2>3. QED
    BY <1>1, <1>8, <2>2 DEF Free, TypeIInv, TypeOK, pubVars, guiVars
<1>9. QED
  BY <1>3, <1>5, <1>6, <1>7, <1>8 DEF App

(* Every variable keeps its type: no queue outgrows its capacity, what the *)
(* GUI thread calls is an application's view port, and no event of a       *)
(* publisher looks like a Stop message.                                    *)
THEOREM TypeCorrect == Spec => []TypeOK
<1>1. Init => TypeIInv
  <2>1. GuiQueue \in Nat /\ AppQueue \in Nat /\ MaxEvents \in Nat /\ Len(<<>>) = 0
    BY GuiAssumption
  <2> SUFFICES ASSUME Init PROVE TypeIInv
    OBVIOUS
  <2>2. /\ published \in 0..MaxEvents /\ event \in 0..MaxEvents
        /\ hand \in [Publishers -> 0..MaxEvents] /\ handled \in [Apps -> 0..MaxEvents]
    BY <2>1 DEF Init
  <2>3. /\ input_queue \in Seq(1..MaxEvents) /\ Len(input_queue) <= GuiQueue
        /\ queue \in [Apps -> Seq(0..MaxEvents)] /\ \A a \in Apps : Len(queue[a]) <= AppQueue
        /\ layers \in [ToSet(Layers) -> Seq(Apps)]
    BY <2>1 DEF Init
  <2>4. /\ publisher \in [Publishers -> {"idle", "put", "flag"}]
        /\ \A p \in Publishers : publisher[p] # "put"
        /\ enabled \in [Apps -> BOOLEAN]
        /\ app \in [Apps -> {"out", "attached", "update", "run", "hide", "stop", "free"}]
    BY DEF Init
  <2>5. /\ gui = "wait" /\ flags = {} /\ taken = {} /\ stale = {} /\ failed = FALSE
        /\ port = NoApp /\ screen = NoApp
    BY DEF Init
  <2>6. QED
    BY <2>2, <2>3, <2>4, <2>5 DEF TypeIInv, TypeOK
<1>2. TypeIInv /\ PlaceIInv /\ PlaceIInv' /\ [Next]_vars => TypeIInv'
  <2> SUFFICES ASSUME TypeIInv, PlaceIInv, PlaceIInv', [Next]_vars PROVE TypeIInv'
    OBVIOUS
  <2>1. CASE UNCHANGED vars
    BY <2>1 DEF vars, pubVars, guiVars, appVars, TypeIInv, TypeOK
  <2>2. QED
    BY <2>1, PublisherTypes, GuiThreadTypes, AppTypes DEF Next
<1>3. TypeIInv => TypeOK
  BY DEF TypeIInv
<1>4. QED
  BY <1>1, <1>2, <1>3, PlaceInvariance, PTL DEF Spec
=============================================================================
