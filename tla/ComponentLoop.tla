---------------------------- MODULE ComponentLoop ----------------------------
(***************************************************************************)
(* One SEMAINE component: the loop of its thread (Component.run), and the  *)
(* hand-off of messages from its receivers, each of which has a JMS        *)
(* session with a dispatch thread of its own, to that loop.                *)
(*                                                                         *)
(*   broker --onMessage--> Receiver.message --inputWaiting--> run() loop   *)
(*                                                                         *)
(* Receiver.onMessage puts the message in the one-place field `message`,   *)
(* alerts the component through its queue of waiting receivers, and then   *)
(* keeps its dispatch thread until the component has picked it up.  The    *)
(* component thread only runs act() and react() after it has seen the      *)
(* system ready; the flag is set by the meta messenger's thread.           *)
(*                                                                         *)
(* The Java and the C++ implementations have the same structure; they      *)
(* differ in the wait for readiness (timedReadyWait).                      *)
(***************************************************************************)
EXTENDS Naturals, Sequences

CONSTANTS Receivers,        \* the receivers the component created
          MaxMessages,      \* bound: messages published per topic
          TimedReadyWaits,  \* the implementations considered: TRUE for C++,
                            \* FALSE for Java
          NoReceiver        \* the null reference

ASSUME ReceiversAssumption == NoReceiver \notin Receivers
ASSUME MaxMessagesAssumption == MaxMessages \in Nat
ASSUME TimedReadyWaitsAssumption == TimedReadyWaits \subseteq BOOLEAN

VARIABLES
    published,      \* published[r]: messages r's topic has carried so far
    dispatched,     \* dispatched[r]: how many of them onMessage has been given
    message,        \* message[r]: Receiver.message, 0 for null
    session,        \* session[r]: where r's dispatch thread is in onMessage
    listening,      \* the receivers whose message listener has been set
    inputWaiting,   \* Component.inputWaiting, the queue of alerted receivers
    pc,             \* where the component thread is in run()
    current,        \* the local variable r of run()
    held,           \* the local variable message of run(), 0 for null
    exitRequested,
    systemReady,    \* MetaMessenger.systemReady
    justReady,      \* Component.hasSystemJustBecomeReady
    timedReadyWait, \* the component's wait for readiness, which never
                    \* changes; C++: wait(1000), looking at exitRequested;
                    \* Java: wait(), which only notify() ends
    state,          \* Component.state
    delivered,      \* history: every <<r, n>> that getMessage() returned
    overrun         \* history: react() calls since the system last stopped
                    \* being ready, counted up to 2

receiverVars == <<published, dispatched, message, session, delivered>>
loopVars == <<listening, pc, current, held, exitRequested, state>>
readyVars == <<systemReady, justReady, timedReadyWait, overrun>>
vars == <<receiverVars, inputWaiting, loopVars, readyVars>>

Null == 0

SessionStates == {"idle", "set", "check", "waiting"}
ThreadStates == {"startIO", "loop", "check", "waiting", "woken", "act",
                 "poll", "get", "react", "exited"}
States == {"starting", "ready", "failure"}

Init ==
    /\ published = [r \in Receivers |-> 0]
    /\ dispatched = [r \in Receivers |-> 0]
    /\ message = [r \in Receivers |-> Null]
    /\ session = [r \in Receivers |-> "idle"]
    /\ listening = {}
    /\ inputWaiting = << >>
    /\ pc = "startIO"
    /\ current = NoReceiver
    /\ held = Null
    /\ exitRequested = FALSE
    /\ systemReady = FALSE
    /\ justReady = FALSE
    /\ timedReadyWait \in TimedReadyWaits
    /\ state = "starting"
    /\ delivered = << >>
    /\ overrun = 0

------------------------------------------------------------------------------
(* The environment: other components, and the meta messenger's thread.      *)

(* Some sender publishes on r's topic; the consumer exists since the       *)
(* receiver was constructed, so the message is kept for it.                *)
Publish(r) ==
    /\ published[r] < MaxMessages
    /\ published' = [published EXCEPT ![r] = @ + 1]
    /\ UNCHANGED <<dispatched, message, session, delivered,
                   inputWaiting, loopVars, readyVars>>

(* MetaMessenger.setSystemReady: store the flag, notify the waiting loop. *)
SetSystemReady(ready) ==
    /\ systemReady' = ready
    /\ pc' = IF pc = "waiting" THEN "woken" ELSE pc
    /\ overrun' = IF systemReady THEN 0 ELSE overrun
    /\ UNCHANGED <<receiverVars, inputWaiting, listening, current, held,
                   exitRequested, state, justReady, timedReadyWait>>

(* Component.requestExit, called from another thread; its notify() is on    *)
(* the component, on which nobody waits.                                    *)
RequestExit ==
    /\ ~exitRequested
    /\ exitRequested' = TRUE
    /\ UNCHANGED <<receiverVars, inputWaiting, listening, pc, current, held,
                   state, readyVars>>

------------------------------------------------------------------------------
(* Receiver.onMessage, run by the dispatch thread of r's session.           *)

(* The message is converted and stored ...                                  *)
StoreMessage(r) ==
    /\ session[r] = "idle" /\ r \in listening
    /\ dispatched[r] < published[r]
    /\ dispatched' = [dispatched EXCEPT ![r] = @ + 1]
    /\ message' = [message EXCEPT ![r] = dispatched[r] + 1]
    /\ session' = [session EXCEPT ![r] = "set"]
    /\ UNCHANGED <<published, delivered, inputWaiting, loopVars, readyVars>>

(* ... or createSEMAINEMessage throws a MessageFormatException: a warning.  *)
DropMessage(r) ==
    /\ session[r] = "idle" /\ r \in listening
    /\ dispatched[r] < published[r]
    /\ dispatched' = [dispatched EXCEPT ![r] = @ + 1]
    /\ UNCHANGED <<published, message, session, delivered, inputWaiting,
                   loopVars, readyVars>>

(* Mutant: the alert is forgotten. *)
MessageAvailableFrom_NoPut(r) ==
    /\ session[r] = "set"
    /\ session' = [session EXCEPT ![r] = "check"]
    /\ UNCHANGED <<published, dispatched, message, delivered, inputWaiting,
                   loopVars, readyVars>>

(* Component.messageAvailableFrom(r). *)
MessageAvailableFrom(r) ==
    /\ session[r] = "set"
    /\ inputWaiting' = Append(inputWaiting, r)
    /\ session' = [session EXCEPT ![r] = "check"]
    /\ UNCHANGED <<published, dispatched, message, delivered, loopVars,
                   readyVars>>

(* Mutant: onMessage returns without waiting for the pick-up. *)
AwaitPickUp_NoWait(r) ==
    /\ session[r] = "check"
    /\ session' = [session EXCEPT ![r] = "idle"]
    /\ UNCHANGED <<published, dispatched, message, delivered, inputWaiting,
                   loopVars, readyVars>>

(* Mutant: the dispatch thread waits without looking whether the message   *)
(* has been picked up already.                                              *)
AwaitPickUp_NoLook(r) ==
    /\ session[r] = "check"
    /\ session' = [session EXCEPT ![r] = "waiting"]
    /\ UNCHANGED <<published, dispatched, message, delivered, inputWaiting,
                   loopVars, readyVars>>

(* while (notPickedUp()) wait(): either sleep, or return from onMessage.    *)
AwaitPickUp(r) ==
    /\ session[r] = "check"
    /\ session' = [session EXCEPT ![r] =
                      IF message[r] # Null THEN "waiting" ELSE "idle"]
    /\ UNCHANGED <<published, dispatched, message, delivered, inputWaiting,
                   loopVars, readyVars>>

Session(r) == StoreMessage(r) \/ DropMessage(r) \/ MessageAvailableFrom(r)
                 \/ AwaitPickUp(r)

------------------------------------------------------------------------------
(* Component.run                                                            *)

(* startIO: one receiver after the other gets its listener. *)
SetMessageListener(r) ==
    /\ pc = "startIO" /\ r \notin listening
    /\ listening' = listening \cup {r}
    /\ UNCHANGED <<receiverVars, inputWaiting, pc, current, held,
                   exitRequested, state, readyVars>>

(* startIO: everything started; the ready state is reported. *)
StartIODone ==
    /\ pc = "startIO" /\ listening = Receivers
    /\ state' = "ready"
    /\ pc' = "loop"
    /\ UNCHANGED <<receiverVars, inputWaiting, listening, current, held,
                   exitRequested, readyVars>>

(* An exception ends startIO: report failure, requestExit. *)
StartIOFails ==
    /\ pc = "startIO"
    /\ state' = "failure"
    /\ exitRequested' = TRUE
    /\ pc' = "loop"
    /\ UNCHANGED <<receiverVars, inputWaiting, listening, current, held,
                   readyVars>>

(* while (!exitRequested()): IamAlive, clear hasSystemJustBecomeReady.      *)
LoopHead ==
    /\ pc = "loop"
    /\ IF exitRequested
       THEN pc' = "exited" /\ UNCHANGED justReady
       ELSE pc' = "check" /\ justReady' = FALSE
    /\ UNCHANGED <<receiverVars, inputWaiting, listening, current, held,
                   exitRequested, state, systemReady, timedReadyWait, overrun>>

(* The first look at the flag: go on at once, or wait on the messenger.    *)
CheckSystemReady ==
    /\ pc = "check"
    /\ pc' = IF systemReady THEN "act" ELSE "waiting"
    /\ UNCHANGED <<receiverVars, inputWaiting, listening, current, held,
                   exitRequested, state, readyVars>>

(* C++ only: wait(1000) times out. *)
ReadyWaitTimeout ==
    /\ timedReadyWait
    /\ pc = "waiting"
    /\ pc' = "woken"
    /\ UNCHANGED <<receiverVars, inputWaiting, listening, current, held,
                   exitRequested, state, readyVars>>

(* Mutant: the woken thread never looks at exitRequested. *)
RecheckSystemReady_NoExit ==
    /\ pc = "woken"
    /\ pc' = IF systemReady THEN "act" ELSE "waiting"
    /\ justReady' = (systemReady \/ justReady)
    /\ UNCHANGED <<receiverVars, inputWaiting, listening, current, held,
                   exitRequested, state, systemReady, timedReadyWait, overrun>>

(* wait() returned: look at the flag again, and in C++ at exitRequested.    *)
(* The C++ component has no counterpart of hasSystemJustBecomeReady.        *)
RecheckSystemReady ==
    /\ pc = "woken"
    /\ pc' = IF timedReadyWait /\ exitRequested THEN "exited"
             ELSE IF systemReady THEN "act" ELSE "waiting"
    /\ justReady' = (systemReady \/ justReady)
    /\ UNCHANGED <<receiverVars, inputWaiting, listening, current, held,
                   exitRequested, state, systemReady, timedReadyWait, overrun>>

(* act() returns; a subclass does its proactive work here. *)
Act ==
    /\ pc = "act"
    /\ pc' = "poll"
    /\ UNCHANGED <<receiverVars, inputWaiting, listening, current, held,
                   exitRequested, state, readyVars>>

(* act() throws: report failure, requestExit, return. *)
ActFails ==
    /\ pc = "act"
    /\ state' = "failure"
    /\ exitRequested' = TRUE
    /\ pc' = "exited"
    /\ UNCHANGED <<receiverVars, inputWaiting, listening, current, held,
                   readyVars>>

(* Mutant: the receiver is looked at (peek) and stays in the queue. *)
PollInput_Peek ==
    /\ pc = "poll" /\ inputWaiting # << >>
    /\ current' = Head(inputWaiting)
    /\ pc' = "get"
    /\ UNCHANGED <<receiverVars, inputWaiting, listening, held, exitRequested,
                   state, readyVars>>

(* inputWaiting.poll(waitingTime) yields the receiver that waited longest. *)
PollInput ==
    /\ pc = "poll" /\ inputWaiting # << >>
    /\ current' = Head(inputWaiting)
    /\ inputWaiting' = Tail(inputWaiting)
    /\ pc' = "get"
    /\ UNCHANGED <<receiverVars, listening, held, exitRequested, state,
                   readyVars>>

(* No receiver within waitingTime: next round. *)
PollTimeout ==
    /\ pc = "poll" /\ inputWaiting = << >>
    /\ pc' = "loop"
    /\ current' = NoReceiver
    /\ UNCHANGED <<receiverVars, inputWaiting, listening, held, exitRequested,
                   state, readyVars>>

(* Mutant: getMessage does not notify the dispatch thread. *)
GetMessage_NoNotify ==
    /\ pc = "get"
    /\ held' = message[current]
    /\ message' = [message EXCEPT ![current] = Null]
    /\ delivered' = Append(delivered, <<current, message[current]>>)
    /\ pc' = "react"
    /\ UNCHANGED <<published, dispatched, session, inputWaiting, listening,
                   current, exitRequested, state, readyVars>>

(* Receiver.getMessage: empty the field, notify the dispatch thread. *)
GetMessage ==
    /\ pc = "get"
    /\ held' = message[current]
    /\ message' = [message EXCEPT ![current] = Null]
    /\ session' = [session EXCEPT ![current] =
                      IF @ = "waiting" THEN "check" ELSE @]
    /\ delivered' = Append(delivered, <<current, message[current]>>)
    /\ pc' = "react"
    /\ UNCHANGED <<published, dispatched, inputWaiting, listening, current,
                   exitRequested, state, readyVars>>

(* Mutant: after react() the loop goes on to the next input directly,       *)
(* without a new look at the system's readiness.                            *)
React_NoRecheck ==
    /\ pc = "react"
    /\ overrun' = IF systemReady \/ overrun = 2 THEN overrun ELSE overrun + 1
    /\ pc' = "act"
    /\ held' = Null
    /\ UNCHANGED <<receiverVars, inputWaiting, listening, current,
                   exitRequested, state, systemReady, justReady, timedReadyWait>>

(* react(message) is called and returns ... *)
React ==
    /\ pc = "react"
    /\ overrun' = IF systemReady \/ overrun = 2 THEN overrun ELSE overrun + 1
    /\ pc' = "loop"
    /\ held' = Null
    /\ UNCHANGED <<receiverVars, inputWaiting, listening, current,
                   exitRequested, state, systemReady, justReady, timedReadyWait>>

(* ... or throws: report failure, requestExit, return. *)
ReactFails ==
    /\ pc = "react"
    /\ state' = "failure"
    /\ exitRequested' = TRUE
    /\ pc' = "exited"
    /\ held' = Null
    /\ UNCHANGED <<receiverVars, inputWaiting, listening, current, readyVars>>

Run == \/ \E r \in Receivers : SetMessageListener(r)
       \/ StartIODone \/ StartIOFails
       \/ LoopHead \/ CheckSystemReady \/ ReadyWaitTimeout
       \/ RecheckSystemReady
       \/ Act \/ ActFails
       \/ PollInput \/ PollTimeout
       \/ GetMessage \/ React \/ ReactFails

------------------------------------------------------------------------------
Next ==
    \/ \E r \in Receivers : Publish(r) \/ Session(r)
    \/ \E ready \in BOOLEAN : SetSystemReady(ready)
    \/ RequestExit
    \/ Run

Spec == Init /\ [][Next]_vars

(* Threads that can run do run: the component thread and the dispatch      *)
(* threads.  Nothing is assumed of other components or of the manager.     *)
Fairness == WF_vars(Run) /\ \A r \in Receivers : WF_vars(Session(r))

FairSpec == Spec /\ Fairness

------------------------------------------------------------------------------
(* Properties                                                               *)

(* Every variable has its type; in particular no receiver is given, holds   *)
(* or hands over more messages than its topic has carried, and getMessage() *)
(* never hands over null.                                                   *)
TypeOK ==
    /\ published \in [Receivers -> 0..MaxMessages]
    /\ dispatched \in [Receivers -> 0..MaxMessages]
    /\ message \in [Receivers -> 0..MaxMessages]
    /\ \A r \in Receivers : message[r] <= dispatched[r] /\ dispatched[r] <= published[r]
    /\ session \in [Receivers -> SessionStates]
    /\ listening \in SUBSET Receivers
    /\ inputWaiting \in Seq(Receivers)
    /\ pc \in ThreadStates
    /\ current \in Receivers \cup {NoReceiver}
    /\ held \in 0..MaxMessages
    /\ exitRequested \in BOOLEAN
    /\ systemReady \in BOOLEAN
    /\ justReady \in BOOLEAN
    /\ timedReadyWait \in TimedReadyWaits
    /\ state \in States
    /\ delivered \in Seq(Receivers \X (1..MaxMessages))
    /\ overrun \in 0..2

(* The assertions of run(): the receiver taken from the queue is one of     *)
(* ours, and "Receiver alerted me but has no message" never happens.        *)
AlertHasMessage ==
    /\ pc = "get" => current \in Receivers /\ message[current] # Null
    /\ pc = "react" => held # Null

(* A receiver is in the queue at most once, and it is there, or just taken  *)
(* from it, exactly while its dispatch thread guards an unfetched message:  *)
(* the queue never outgrows the number of receivers, no alert is lost.      *)
Queued(r) == \E i \in 1..Len(inputWaiting) : inputWaiting[i] = r

Alerted(r) == Queued(r) \/ (pc = "get" /\ current = r)

AlertedOnce ==
    /\ \A i, j \in 1..Len(inputWaiting) :
          inputWaiting[i] = inputWaiting[j] => i = j
    /\ pc = "get" => ~Queued(current)
    /\ \A r \in Receivers :
          Alerted(r) <=> (message[r] # Null /\ session[r] \in {"check", "waiting"})

(* The wait/notify of onMessage and getMessage loses no wake-up: a dispatch *)
(* thread only sleeps while its message is still there to be fetched.       *)
NoLostWakeup == \A r \in Receivers : session[r] = "waiting" => message[r] # Null

(* Once the system has stopped being ready, the component reacts to at most *)
(* one more message before it blocks on the readiness check at the head of  *)
(* its loop.                                                                *)
AtMostOneOverrun == overrun <= 1

(* The number of messages of r's topic the component is done with. *)
Taken == [r \in Receivers |->
            IF message[r] # Null THEN dispatched[r] - 1 ELSE dispatched[r]]

Delivery == INSTANCE OrderedDelivery WITH taken <- Taken

(* Seen from the component, every topic is delivered in order, each message *)
(* at most once, none skipped except the malformed ones.                    *)
DeliverySpec == Delivery!Spec

(* While the system stays ready and the component's own code does not fail, *)
(* every message published on one of its topics is eventually dealt with.   *)
EveryMessageTaken ==
    <>[]systemReady =>
        \A r \in Receivers : \A n \in 1..MaxMessages :
            published[r] >= n ~> (Taken[r] >= n \/ pc = "exited")

(* "Ask this component to exit as soon as possible": a component that was   *)
(* asked to exit does exit.                                                 *)
ExitHonoured == exitRequested ~> pc = "exited"

(* With the timed wait of the C++ component this holds, also while the      *)
(* system is not ready and the component waits for it.                      *)
TimedExitHonoured == timedReadyWait => ExitHonoured
==============================================================================
