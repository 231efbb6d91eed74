------------------------- MODULE ComponentLoopProofs -------------------------
(***************************************************************************)
(* Proofs about ComponentLoop, for any set of receivers, any number of     *)
(* messages and both forms of the wait for readiness.                      *)
(***************************************************************************)
EXTENDS ComponentLoop, TLAPS

(* Where the dispatch thread of a receiver is tells whether the one-place   *)
(* field is occupied, and the message in it is the last one dispatched.     *)
FieldGuarded ==
    \A r \in Receivers :
        /\ session[r] = "idle" => message[r] = Null
        /\ session[r] \in {"set", "waiting"} => message[r] # Null
        /\ message[r] # Null => message[r] = dispatched[r]

(* The local variables of run() where the loop uses them. *)
LocalsSet ==
    /\ pc \in {"get", "react"} => current \in Receivers
    /\ pc = "react" => held # Null

(* The inductive invariant of the hand-off. *)
HandOff == TypeOK /\ AlertedOnce /\ FieldGuarded /\ LocalsSet

USE ReceiversAssumption, MaxMessagesAssumption, TimedReadyWaitsAssumption

(* What Append and Tail do to the places of a sequence. *)
LEMMA AppendPlaces ==
  ASSUME NEW S, NEW s \in Seq(S), NEW e \in S
  PROVE  /\ Len(s) \in Nat /\ Len(Append(s, e)) = Len(s) + 1
         /\ \A i \in 1..Len(s) : Append(s, e)[i] = s[i]
         /\ Append(s, e)[Len(s) + 1] = e
  OBVIOUS

(* What taking the head off a sequence does to its places. *)
LEMMA TailPlaces ==
  ASSUME NEW S, NEW s \in Seq(S), s # << >>
  PROVE  /\ Len(s) \in Nat \ {0} /\ Len(Tail(s)) = Len(s) - 1
         /\ \A i \in 1..(Len(s) - 1) : Tail(s)[i] = s[i + 1]
         /\ Head(s) = s[1]
  OBVIOUS

(* The initial state has the right types. *)
LEMMA InitTypeOK == Init => TypeOK /\ LocalsSet
<1> SUFFICES ASSUME Init PROVE TypeOK /\ LocalsSet
  OBVIOUS
<1>1. << >> \in Seq(Receivers) /\ << >> \in Seq(Receivers \X (1..MaxMessages))
  OBVIOUS
<1>2. inputWaiting \in Seq(Receivers) /\ delivered \in Seq(Receivers \X (1..MaxMessages))
  BY <1>1 DEF Init
<1>3. /\ published \in [Receivers -> 0..MaxMessages]
      /\ dispatched \in [Receivers -> 0..MaxMessages]
      /\ message \in [Receivers -> 0..MaxMessages]
      /\ \A r \in Receivers : message[r] <= dispatched[r] /\ dispatched[r] <= published[r]
  BY DEF Init, Null
<1>4. session \in [Receivers -> SessionStates]
  BY DEF Init, SessionStates
<1>5. /\ held \in 0..MaxMessages
      /\ overrun \in 0..2
      /\ pc \in ThreadStates
      /\ state \in States
  BY DEF Init, Null, ThreadStates, States
<1>6. /\ listening \in SUBSET Receivers
      /\ current \in Receivers \cup {NoReceiver}
  BY DEF Init
<1>7. /\ exitRequested \in BOOLEAN
      /\ systemReady \in BOOLEAN
      /\ justReady \in BOOLEAN
      /\ timedReadyWait \in TimedReadyWaits
  BY DEF Init
<1>8. LocalsSet
  BY DEF Init, LocalsSet
<1> QED
  BY <1>2, <1>3, <1>4, <1>5, <1>6, <1>7, <1>8 DEF TypeOK

(* A receiver that has alerted the component has a message. *)
LEMMA AlertsAnswered == HandOff => AlertHasMessage
  BY DEF HandOff, AlertHasMessage, LocalsSet, AlertedOnce, Alerted

(* Every step keeps the types. *)
LEMMA NextTypeOK == HandOff /\ [Next]_vars => TypeOK'
<1> SUFFICES ASSUME HandOff, [Next]_vars PROVE TypeOK'
  OBVIOUS
<1>a. TypeOK /\ LocalsSet /\ FieldGuarded /\ AlertHasMessage
  BY AlertsAnswered DEF HandOff
<1> USE DEF TypeOK, Null, SessionStates, ThreadStates, States
<1>1. ASSUME NEW r \in Receivers, Publish(r) PROVE TypeOK'
  BY <1>a, <1>1 DEF Publish, loopVars, readyVars
<1>2. ASSUME NEW r \in Receivers, StoreMessage(r) PROVE TypeOK'
  BY <1>a, <1>2 DEF StoreMessage, FieldGuarded, loopVars, readyVars
<1>3. ASSUME NEW r \in Receivers, DropMessage(r) PROVE TypeOK'
  <2>1. dispatched[r] + 1 \in 0..MaxMessages
    BY <1>a, <1>3, MaxMessagesAssumption DEF DropMessage
  <2>2. dispatched' \in [Receivers -> 0..MaxMessages]
    BY <1>a, <1>3, <2>1 DEF DropMessage
  <2> QED
    BY <1>a, <1>3, <2>2 DEF DropMessage, loopVars, readyVars
<1>4. ASSUME NEW r \in Receivers, MessageAvailableFrom(r) PROVE TypeOK'
  BY <1>a, <1>4 DEF MessageAvailableFrom, loopVars, readyVars
<1>5. ASSUME NEW r \in Receivers, AwaitPickUp(r) PROVE TypeOK'
  BY <1>a, <1>5 DEF AwaitPickUp, loopVars, readyVars
<1>6. ASSUME NEW ready \in BOOLEAN, SetSystemReady(ready) PROVE TypeOK'
  BY <1>a, <1>6 DEF SetSystemReady, receiverVars
<1>7. CASE RequestExit
  BY <1>a, <1>7 DEF RequestExit, receiverVars, readyVars
<1>8. ASSUME NEW r \in Receivers, SetMessageListener(r) PROVE TypeOK'
  BY <1>a, <1>8 DEF SetMessageListener, receiverVars, readyVars
<1>9. CASE StartIODone
  BY <1>a, <1>9 DEF StartIODone, receiverVars, readyVars
<1>10. CASE StartIOFails
  BY <1>a, <1>10 DEF StartIOFails, receiverVars, readyVars
<1>11. CASE LoopHead
  BY <1>a, <1>11 DEF LoopHead, receiverVars
<1>12. CASE CheckSystemReady
  BY <1>a, <1>12 DEF CheckSystemReady, receiverVars, readyVars
<1>13. CASE ReadyWaitTimeout
  BY <1>a, <1>13 DEF ReadyWaitTimeout, receiverVars, readyVars
<1>14. CASE RecheckSystemReady
  BY <1>a, <1>14 DEF RecheckSystemReady, receiverVars
<1>15. CASE Act
  BY <1>a, <1>15 DEF Act, receiverVars, readyVars
<1>16. CASE ActFails
  BY <1>a, <1>16 DEF ActFails, receiverVars, readyVars
<1>17. CASE PollInput
  BY <1>a, <1>17 DEF PollInput, receiverVars, readyVars
<1>18. CASE PollTimeout
  BY <1>a, <1>18 DEF PollTimeout, receiverVars, readyVars
<1>19. CASE GetMessage
  BY <1>a, <1>19 DEF GetMessage, LocalsSet, AlertHasMessage, readyVars
<1>20. CASE React
  BY <1>a, <1>20 DEF React, receiverVars
<1>21. CASE ReactFails
  BY <1>a, <1>21 DEF ReactFails, receiverVars, readyVars
<1>22. CASE UNCHANGED vars
  BY <1>a, <1>22 DEF vars, receiverVars, loopVars, readyVars
<1> QED
  BY <1>1, <1>2, <1>3, <1>4, <1>5, <1>6, <1>7, <1>8, <1>9, <1>10, <1>11,
     <1>12, <1>13, <1>14, <1>15, <1>16, <1>17, <1>18, <1>19, <1>20, <1>21,
     <1>22 DEF Next, Session, Run

(* The steps that touch the queue, the one-place fields or the locals of    *)
(* run(), apart; every other step leaves them as they are.                  *)
QuietStep ==
    /\ UNCHANGED <<inputWaiting, message, session, dispatched, current>>
    /\ pc' = "get" <=> pc = "get"

(* The steps that concern neither the alerts nor the fields. *)
LEMMA QuietCases ==
  ASSUME [Next]_vars
  PROVE  \/ QuietStep /\ published' = published
         \/ \E r \in Receivers : \/ Publish(r) \/ StoreMessage(r)
                                 \/ DropMessage(r) \/ MessageAvailableFrom(r)
                                 \/ AwaitPickUp(r)
         \/ PollInput \/ PollTimeout \/ GetMessage
  BY DEF Next, Session, Run, QuietStep, vars, receiverVars, loopVars, SetSystemReady,
         RequestExit, SetMessageListener, StartIODone, StartIOFails, LoopHead,
         CheckSystemReady, ReadyWaitTimeout, RecheckSystemReady, Act, ActFails,
         React, ReactFails

(* Which steps enter or leave the two places where run() holds a receiver.  *)
LEMMA LocalsStep ==
  ASSUME HandOff, [Next]_vars PROVE LocalsSet'
<1> USE DEF LocalsSet
<1>1. CASE PollInput
  <2>1. inputWaiting \in Seq(Receivers) /\ inputWaiting # << >>
    BY <1>1 DEF PollInput, HandOff, TypeOK
  <2>2. Head(inputWaiting) \in Receivers
    BY <2>1
  <2> QED
    BY <1>1, <2>2 DEF PollInput
<1>2. CASE GetMessage
  <2>1. Alerted(current)
    BY <1>2 DEF GetMessage, Alerted
  <2>2. message[current] # Null
    BY <1>2, <2>1 DEF GetMessage, HandOff, AlertedOnce
  <2> QED
    BY <1>2, <2>2 DEF GetMessage, HandOff
<1>3. CASE ~PollInput /\ ~GetMessage
  BY <1>3 DEF HandOff, Next, Session, Run, vars, receiverVars, loopVars, SetSystemReady,
         RequestExit, SetMessageListener, StartIODone, StartIOFails, LoopHead,
         CheckSystemReady, ReadyWaitTimeout, RecheckSystemReady, Act, ActFails,
         React, ReactFails, PollTimeout, Publish, StoreMessage, DropMessage,
         MessageAvailableFrom, AwaitPickUp
<1> QED
  BY <1>1, <1>2, <1>3

(* Every step keeps the guard of the one-place field of a receiver. *)
LEMMA FieldStep ==
  ASSUME HandOff, [Next]_vars PROVE FieldGuarded'
<1> USE DEF HandOff, TypeOK, FieldGuarded, Null, SessionStates
<1>1. ASSUME NEW r \in Receivers, Publish(r) PROVE FieldGuarded'
  BY <1>1 DEF Publish
<1>2. ASSUME NEW r \in Receivers, StoreMessage(r) PROVE FieldGuarded'
  BY <1>2 DEF StoreMessage
<1>3. ASSUME NEW r \in Receivers, DropMessage(r) PROVE FieldGuarded'
  BY <1>3 DEF DropMessage
<1>4. ASSUME NEW r \in Receivers, MessageAvailableFrom(r) PROVE FieldGuarded'
  BY <1>4 DEF MessageAvailableFrom
<1>5. ASSUME NEW r \in Receivers, AwaitPickUp(r) PROVE FieldGuarded'
  BY <1>5 DEF AwaitPickUp
<1>6. CASE GetMessage
  <2>1. current \in Receivers
    BY <1>6 DEF GetMessage, LocalsSet
  <2>2. Alerted(current)
    BY <1>6 DEF GetMessage, Alerted
  <2>3. session[current] \in {"check", "waiting"}
    BY <2>1, <2>2 DEF AlertedOnce
  <2> QED
    BY <1>6, <2>1, <2>3 DEF GetMessage
<1>7. CASE PollInput \/ PollTimeout
  BY <1>7 DEF PollInput, PollTimeout, receiverVars
<1>8. CASE QuietStep /\ published' = published
  BY <1>8 DEF QuietStep
<1> QED
  BY <1>1, <1>2, <1>3, <1>4, <1>5, <1>6, <1>7, <1>8, QuietCases

(* Every step keeps the bookkeeping of alerts. *)
LEMMA AlertStep ==
  ASSUME HandOff, [Next]_vars PROVE AlertedOnce'
<1> USE DEF HandOff, TypeOK, Null, SessionStates
<1>1. ASSUME NEW r \in Receivers, MessageAvailableFrom(r) PROVE AlertedOnce'
  <2>1. ~Alerted(r) /\ message[r] # Null
    BY <1>1 DEF MessageAvailableFrom, AlertedOnce, FieldGuarded
  <2>2. /\ inputWaiting' = Append(inputWaiting, r)
        /\ pc' = pc /\ current' = current /\ message' = message
    BY <1>1 DEF MessageAvailableFrom, loopVars
  <2>a. /\ Len(inputWaiting) \in Nat
        /\ Len(inputWaiting') = Len(inputWaiting) + 1
        /\ \A i \in 1..Len(inputWaiting) : inputWaiting'[i] = inputWaiting[i]
        /\ inputWaiting'[Len(inputWaiting) + 1] = r
    BY <2>2, AppendPlaces
  <2>b. /\ \A i \in 1..Len(inputWaiting') :
              i \in 1..Len(inputWaiting) \/ i = Len(inputWaiting) + 1
        /\ \A i \in 1..Len(inputWaiting) : i \in 1..Len(inputWaiting')
        /\ Len(inputWaiting) + 1 \in 1..Len(inputWaiting')
    BY <2>a
  <2> HIDE DEF HandOff, TypeOK
  <2>3. \A x : Queued(x)' <=> (Queued(x) \/ x = r)
    BY <2>a, <2>b DEF Queued
  <2>4. \A i, j \in 1..Len(inputWaiting') :
          inputWaiting'[i] = inputWaiting'[j] => i = j
    BY <2>1, <2>a, <2>b DEF Alerted, Queued, AlertedOnce, HandOff
  <2>5. pc' = "get" => ~Queued(current)'
    BY <2>1, <2>2, <2>3 DEF AlertedOnce, Alerted, HandOff
  <2>6. \A x \in Receivers :
          Alerted(x)' <=> (message'[x] # Null /\ session'[x] \in {"check", "waiting"})
    BY <1>1, <2>1, <2>2, <2>3
       DEF MessageAvailableFrom, AlertedOnce, Alerted, HandOff, TypeOK
  <2> QED
    BY <2>4, <2>5, <2>6 DEF AlertedOnce
<1>2. CASE PollInput
  <2>1. /\ inputWaiting # << >> /\ pc = "poll" /\ pc' = "get"
        /\ current' = Head(inputWaiting) /\ inputWaiting' = Tail(inputWaiting)
        /\ message' = message /\ session' = session
    BY <1>2 DEF PollInput, receiverVars
  <2>2. /\ Len(inputWaiting') = Len(inputWaiting) - 1
        /\ \A i \in 1..Len(inputWaiting') : inputWaiting'[i] = inputWaiting[i + 1]
        /\ Head(inputWaiting) = inputWaiting[1]
        /\ Len(inputWaiting) \in Nat \ {0}
    BY <2>1, TailPlaces
  <2>a. /\ \A i \in 1..Len(inputWaiting') : i + 1 \in 1..Len(inputWaiting) /\ i + 1 # 1
        /\ 1 \in 1..Len(inputWaiting)
    BY <2>2
  <2>b. \A i, j \in 1..Len(inputWaiting) :
          inputWaiting[i] = inputWaiting[j] => i = j
    BY DEF AlertedOnce
  <2> HIDE DEF HandOff, TypeOK
  <2>3. ~Queued(current)'
    BY <2>1, <2>2, <2>a, <2>b DEF Queued
  <2>4. \A i, j \in 1..Len(inputWaiting') :
          inputWaiting'[i] = inputWaiting'[j] => i = j
    <3> TAKE i, j \in 1..Len(inputWaiting')
    <3>1. inputWaiting[i + 1] = inputWaiting[j + 1] => i + 1 = j + 1
      BY <2>a, <2>b
    <3> QED
      BY <3>1, <2>2
  <2>5. \A x : Alerted(x)' <=> Alerted(x)
    <3> TAKE x
    <3>1. Alerted(x)' => Alerted(x)
      BY <2>1, <2>2 DEF Alerted, Queued
    <3>2. ASSUME Alerted(x) PROVE Alerted(x)'
      <4>1. PICK i \in 1..Len(inputWaiting) : inputWaiting[i] = x
        BY <3>2, <2>1 DEF Alerted, Queued
      <4>2. CASE i = 1
        BY <4>1, <4>2, <2>1, <2>2 DEF Alerted
      <4>3. CASE i # 1
        <5>1. i - 1 \in 1..Len(inputWaiting') /\ inputWaiting'[i - 1] = x
          <6>1. i - 1 \in 1..Len(inputWaiting') /\ (i - 1) + 1 = i
            BY <4>1, <4>3, <2>2
          <6> QED
            BY <6>1, <4>1, <2>2
        <5> QED
          BY <5>1 DEF Alerted, Queued
      <4> QED
        BY <4>2, <4>3
    <3> QED
      BY <3>1, <3>2
  <2> QED
    BY <2>1, <2>3, <2>4, <2>5 DEF AlertedOnce, HandOff
<1>3. CASE GetMessage
  <2>1. /\ current \in Receivers /\ ~Queued(current)
        /\ inputWaiting' = inputWaiting /\ pc = "get" /\ pc' = "react"
        /\ current' = current
    BY <1>3 DEF GetMessage, LocalsSet, AlertedOnce
  <2>2. \A x \in Receivers : Alerted(x)' <=> (Alerted(x) /\ x # current)
    BY <2>1 DEF Alerted, Queued
  <2>3. \A x \in Receivers :
          (message'[x] # Null /\ session'[x] \in {"check", "waiting"})
            <=> (x # current /\ message[x] # Null
                  /\ session[x] \in {"check", "waiting"})
    BY <1>3, <2>1 DEF GetMessage
  <2> QED
    BY <2>1, <2>2, <2>3 DEF AlertedOnce
<1>4. CASE PollTimeout
  BY <1>4 DEF PollTimeout, receiverVars, AlertedOnce, Alerted, Queued
<1>5. ASSUME NEW r \in Receivers,
             Publish(r) \/ StoreMessage(r) \/ DropMessage(r) \/ AwaitPickUp(r)
      PROVE  AlertedOnce'
  <2>1. UNCHANGED <<inputWaiting, pc, current>>
    BY <1>5 DEF Publish, StoreMessage, DropMessage, AwaitPickUp, loopVars
  <2>2. \A x \in Receivers :
          (message'[x] # Null /\ session'[x] \in {"check", "waiting"})
            <=> (message[x] # Null /\ session[x] \in {"check", "waiting"})
    BY <1>5 DEF Publish, StoreMessage, DropMessage, AwaitPickUp, FieldGuarded
  <2> QED
    BY <2>1, <2>2 DEF AlertedOnce, Alerted, Queued
<1>6. CASE QuietStep
  BY <1>6 DEF QuietStep, AlertedOnce, Alerted, Queued
<1> QED
  BY <1>1, <1>2, <1>3, <1>4, <1>5, <1>6, QuietCases

(* The hand-off invariant holds initially. *)
LEMMA InitHandOff == Init => HandOff
<1> SUFFICES ASSUME Init PROVE HandOff
  OBVIOUS
<1>1. AlertedOnce
  <2>1. 1..Len(inputWaiting) = {} /\ pc # "get"
    BY DEF Init
  <2>2. \A r \in Receivers : message[r] = Null
    BY DEF Init
  <2> QED
    BY <2>1, <2>2 DEF AlertedOnce, Alerted, Queued
<1>2. FieldGuarded
  <2>1. \A r \in Receivers : session[r] = "idle" /\ message[r] = Null
    BY DEF Init
  <2>2. "idle" \notin {"set", "waiting"}
    OBVIOUS
  <2> QED
    BY <2>1, <2>2, Zenon DEF FieldGuarded
<1> QED
  BY <1>1, <1>2, InitTypeOK DEF HandOff

(* Every step keeps the hand-off invariant. *)
LEMMA NextHandOff == HandOff /\ [Next]_vars => HandOff'
  BY NextTypeOK, LocalsStep, FieldStep, AlertStep DEF HandOff

(* The inductive invariant of the hand-off between dispatch threads and    *)
(* component thread (Receiver.onMessage, Component.run) always holds.      *)
THEOREM HandOffInvariant == Spec => []HandOff
  BY InitHandOff, NextHandOff, PTL DEF Spec

(* Type correctness of the component loop. *)
THEOREM TypeCorrect == Spec => []TypeOK
<1>1. HandOff => TypeOK
  BY DEF HandOff
<1> QED
  BY <1>1, HandOffInvariant, PTL

(* The assertions of Component.run() never fail: a receiver that alerted    *)
(* the component is one of its receivers and has a message.                 *)
THEOREM AlertsAreGood == Spec => []AlertHasMessage
  BY AlertsAnswered, HandOffInvariant, PTL

(* A receiver is in inputWaiting at most once, exactly while its message is *)
(* waiting to be fetched.                                                   *)
THEOREM AlertsAreUnique == Spec => []AlertedOnce
<1>1. HandOff => AlertedOnce
  BY DEF HandOff
<1> QED
  BY <1>1, HandOffInvariant, PTL

(* A dispatch thread sleeps in onMessage only while its message is there.   *)
THEOREM WakeupsAreKept == Spec => []NoLostWakeup
<1>1. HandOff => NoLostWakeup
  BY DEF HandOff, FieldGuarded, NoLostWakeup
<1> QED
  BY <1>1, HandOffInvariant, PTL

------------------------------------------------------------------------------
(* Not ready any more: at most one message is still reacted to.             *)

(* A react() call after the system stopped being ready leaves the thread    *)
(* between the end of react() and the wait for readiness.                   *)
OverrunSpent ==
    /\ TypeOK
    /\ overrun <= 1
    /\ ~systemReady /\ overrun = 1
          => pc \in {"loop", "check", "waiting", "woken", "exited"}

(* Every step keeps the strengthened bound on overruns. *)
LEMMA OverrunStep ==
  ASSUME OverrunSpent, HandOff, [Next]_vars PROVE OverrunSpent'
<1>1. TypeOK'
  BY NextTypeOK DEF OverrunSpent
<1> USE DEF OverrunSpent, TypeOK
<1>2. CASE React
  BY <1>1, <1>2 DEF React
<1>3. ASSUME NEW ready \in BOOLEAN, SetSystemReady(ready) PROVE OverrunSpent'
  BY <1>1, <1>3 DEF SetSystemReady
<1>4. CASE UNCHANGED <<systemReady, overrun>> /\ ~React
  <2>1. CASE systemReady \/ overrun = 0
    <3>1. overrun' = overrun /\ overrun' <= 1
      BY <1>4
    <3>2. systemReady' \/ overrun' # 1
      BY <2>1, <1>4, <3>1
    <3> QED
      BY <1>1, <3>1, <3>2
  <2>2. CASE ~systemReady /\ overrun = 1
    <3>1. pc \in {"loop", "check", "waiting", "woken", "exited"}
      BY <2>2
    <3>2. pc' \in {"loop", "check", "waiting", "woken", "exited"}
      BY <3>1, <2>2, <1>4
         DEF Next, Session, Run, vars, receiverVars, loopVars, SetSystemReady,
             RequestExit, SetMessageListener, StartIODone, StartIOFails,
             LoopHead, CheckSystemReady, ReadyWaitTimeout, RecheckSystemReady,
             Act, ActFails, ReactFails, PollInput, PollTimeout, Publish,
             StoreMessage, DropMessage, MessageAvailableFrom, AwaitPickUp,
             GetMessage
    <3>3. overrun' = 1
      BY <2>2, <1>4
    <3> HIDE DEF TypeOK
    <3> QED
      BY <1>1, <3>2, <3>3
  <2>3. overrun = 0 \/ overrun = 1
    OBVIOUS
  <2> HIDE DEF TypeOK
  <2> QED
    BY <2>1, <2>2, <2>3
<1>5. \/ React
      \/ \E ready \in BOOLEAN : SetSystemReady(ready)
      \/ UNCHANGED <<systemReady, overrun>>
  BY DEF Next, Session, Run, vars, readyVars, RequestExit, SetMessageListener,
         StartIODone, StartIOFails, LoopHead, CheckSystemReady,
         ReadyWaitTimeout, RecheckSystemReady, Act, ActFails, ReactFails,
         PollInput, PollTimeout, Publish, StoreMessage, DropMessage,
         MessageAvailableFrom, AwaitPickUp, GetMessage
<1> QED
  BY <1>2, <1>3, <1>4, <1>5

(* Once the system has stopped being ready, the component reacts to at most *)
(* one more message before it waits for readiness again.                    *)
THEOREM OverrunBounded == Spec => []AtMostOneOverrun
<1>1. Init => OverrunSpent
  BY InitTypeOK DEF Init, OverrunSpent
<1>2. OverrunSpent /\ HandOff /\ [Next]_vars => OverrunSpent'
  BY OverrunStep
<1>3. OverrunSpent => AtMostOneOverrun
  BY DEF OverrunSpent, AtMostOneOverrun
<1> QED
  BY <1>1, <1>2, <1>3, HandOffInvariant, PTL DEF Spec

------------------------------------------------------------------------------
(* The hand-off implements in-order delivery.                               *)

(* The initial states are initial states of OrderedDelivery. *)
LEMMA DeliveryInit == Init => Delivery!Init
<1> SUFFICES ASSUME Init PROVE Delivery!Init
  OBVIOUS
<1>1. \A r \in Receivers : message[r] = Null /\ dispatched[r] = 0
  BY DEF Init
<1>2. Taken = [r \in Receivers |-> 0]
  BY <1>1 DEF Taken
<1> QED
  BY <1>2 DEF Init, Delivery!Init

(* Every step is a step of OrderedDelivery, or changes nothing there. *)
LEMMA DeliveryStep ==
  ASSUME HandOff, [Next]_vars PROVE [Delivery!Next]_(Delivery!vars)
<1> USE DEF HandOff, TypeOK, Null, Delivery!vars
<1>1. ASSUME NEW r \in Receivers, Publish(r) PROVE Delivery!Publish(r)
  BY <1>1 DEF Publish, Delivery!Publish, Taken
<1>2. ASSUME NEW r \in Receivers, StoreMessage(r) PROVE UNCHANGED Delivery!vars
  <2>1. message[r] = Null
    BY <1>2 DEF StoreMessage, FieldGuarded
  <2>2. Taken' = Taken
    BY <1>2, <2>1 DEF StoreMessage, Taken
  <2> QED
    BY <1>2, <2>2 DEF StoreMessage
<1>3. ASSUME NEW r \in Receivers, DropMessage(r) PROVE Delivery!Discard(r)
  <2>1. message[r] = Null
    BY <1>3 DEF DropMessage, FieldGuarded
  <2>2. Taken[r] < published[r]
    BY <1>3, <2>1 DEF DropMessage, Taken
  <2>3. Taken' = [Taken EXCEPT ![r] = @ + 1]
    BY <1>3, <2>1 DEF DropMessage, Taken
  <2> QED
    BY <1>3, <2>2, <2>3 DEF DropMessage, Delivery!Discard
<1>4. ASSUME NEW r \in Receivers, MessageAvailableFrom(r) \/ AwaitPickUp(r)
      PROVE  UNCHANGED Delivery!vars
  BY <1>4 DEF MessageAvailableFrom, AwaitPickUp, Taken
<1>5. CASE GetMessage
  <2>1. /\ current \in Receivers /\ message[current] # Null
        /\ message[current] = dispatched[current]
        /\ dispatched[current] <= published[current]
    BY <1>5 DEF GetMessage, LocalsSet, AlertedOnce, Alerted, FieldGuarded
  <2>2. Taken[current] = dispatched[current] - 1
    BY <2>1 DEF Taken
  <2>a. dispatched[current] \in Nat /\ published[current] \in Nat
    BY <2>1
  <2>3. Taken[current] < published[current] /\ Taken[current] + 1 = message[current]
    <3> HIDE DEF HandOff, TypeOK
    <3> QED
      BY <2>1, <2>2, <2>a
  <2>4. Taken' = [Taken EXCEPT ![current] = @ + 1]
    <3>1. message' = [message EXCEPT ![current] = Null] /\ dispatched' = dispatched
      BY <1>5 DEF GetMessage
    <3>2. Taken' = [r \in Receivers |->
                     IF r = current THEN dispatched[r] ELSE Taken[r]]
      BY <2>1, <3>1 DEF Taken
    <3>3. dispatched[current] = Taken[current] + 1
      BY <2>2, <2>a
    <3> QED
      BY <2>1, <3>2, <3>3 DEF Taken
  <2>5. Delivery!Take(current)
    BY <1>5, <2>3, <2>4 DEF GetMessage, Delivery!Take
  <2> QED
    BY <2>1, <2>5 DEF Delivery!Next
<1>6. CASE PollInput \/ PollTimeout
  BY <1>6 DEF PollInput, PollTimeout, receiverVars, Taken
<1>7. CASE QuietStep /\ published' = published
  <2>1. Taken' = Taken
    BY <1>7 DEF QuietStep, Taken
  <2>2. delivered' = delivered \/ GetMessage
    BY DEF Next, Session, Run, vars, receiverVars, SetSystemReady,
         RequestExit, SetMessageListener, StartIODone, StartIOFails, LoopHead,
         CheckSystemReady, ReadyWaitTimeout, RecheckSystemReady, Act, ActFails,
         React, ReactFails, PollInput, PollTimeout, Publish, StoreMessage,
         DropMessage, MessageAvailableFrom, AwaitPickUp
  <2> QED
    BY <1>5, <1>7, <2>1, <2>2
<1> QED
  BY <1>1, <1>2, <1>3, <1>4, <1>5, <1>6, <1>7, QuietCases DEF Delivery!Next

(* Refinement: whatever the threads do, a component sees every topic in     *)
(* order, each message at most once, skipping only malformed ones.          *)
THEOREM DeliveryRefined == Spec => DeliverySpec
  BY DeliveryInit, DeliveryStep, HandOffInvariant, PTL
     DEF Spec, DeliverySpec, Delivery!Spec
==============================================================================
