--------------------------- MODULE SystemReadiness ---------------------------
(***************************************************************************)
(* The life-cycle protocol of a SEMAINE system over the topic              *)
(* semaine.meta: every component reports its state through its             *)
(* MetaMessenger, the SystemManager announces to all of them whether the   *)
(* system as a whole is ready, pings them, and looks for components that   *)
(* have stalled.                                                           *)
(*                                                                         *)
(* Threads: in each component process the component thread (Component.run) *)
(* and the dispatch thread of the meta session (MetaMessenger.onMessage),  *)
(* which share the fields of the messenger; in the manager its own thread  *)
(* (SystemManager.run) and its dispatch thread (SystemManager.onMessage),  *)
(* which share the component infos.                                        *)
(*                                                                         *)
(* Time is not counted.  Any thread may be held up for any time between    *)
(* two of its steps, and lastSeenAlive starts at 0, so whenever a messenger*)
(* or the manager compares a time stamp with its clock, either outcome is  *)
(* possible; only a dead component's is sure to be too old in the end.     *)
(*                                                                         *)
(* The reports of topics and statistics that share the topic only feed the *)
(* manager's display and are left out.                                     *)
(***************************************************************************)
EXTENDS Naturals, Sequences

CONSTANTS Components,       \* the components of the system
          Hidden,           \* those the manager does not look at
                            \* (MessageLogComponent, and configured ones)
          Cpp,              \* those with the C++ messenger
          IgnoreStalled,    \* semaine.systemmanager.ignorestalled
          PingBound,        \* bound: messages to or from one component that may
                            \* be under way when the manager pings
          MayFail,          \* components whose own code may throw
          MayCrash,         \* components whose process may die
          MaxStarts         \* bound: component process starts, in total

ASSUME HiddenAssumption == Hidden \subseteq Components
ASSUME CppAssumption == Cpp \subseteq Components
ASSUME IgnoreAssumption == IgnoreStalled \subseteq Components
ASSUME MayAssumption == MayFail \subseteq Components /\ MayCrash \subseteq Components
ASSUME BoundsAssumption == PingBound \in Nat \ {0} /\ MaxStarts \in Nat

VARIABLES
    \* the component process
    pc,             \* pc[c]: where the component thread is
    lastSeenState,  \* MetaMessenger.lastSeenState, "null" at first
    systemReady,    \* MetaMessenger.systemReady
    handler,        \* where MetaMessenger.onMessage is: idle, about to mark
                    \* the component stalled, or about to send a reply with
                    \* this state
    inbox,          \* messages from the manager, not yet handled
    outbox,         \* messages to the manager, not yet handled
    \* the manager
    managerUp,      \* the SystemManager listens
    managerPc,      \* where SystemManager.run is
    dispatch,       \* where SystemManager.onMessage is: idle, about to look
                    \* at all components, or about to announce that all are
                    \* ready
    known,          \* the keys of componentInfos
    infoState,      \* ComponentInfo.state, "null" at first
    lastReportSystemReady,
    \* the environment
    starts          \* how many component processes were started

messengerVars == <<lastSeenState, systemReady>>
infoVars == <<known, infoState>>
managerVars == <<managerUp, managerPc, dispatch, infoVars, lastReportSystemReady>>
vars == <<pc, messengerVars, handler, inbox, outbox, managerVars, starts>>

States == {"starting", "ready", "failure", "stalled"}
Null == "null"

(* What a message can say: a state, or the empty string that the C++        *)
(* messenger has for a state at first.                                      *)
Empty == "empty"
Reports == States \cup {Empty}

ThreadStates == {"down", "built", "starting", "loop", "check", "waiting", "busy",
                 "failed"}
HandlerStates == {"idle", "mark"} \cup Reports
InMessages == {"ready", "notready", "ping"}

(* Broker: a message sent while the manager is not listening is lost. *)
Send(c, m) == outbox' = IF managerUp THEN [outbox EXCEPT ![c] = Append(@, m)]
                                     ELSE outbox

(* Broker: the components listening now get the message m. *)
Broadcast(m) ==
    inbox' = [c \in Components |->
                IF pc[c] = "down" THEN inbox[c] ELSE Append(inbox[c], m)]

Init ==
    /\ pc = [c \in Components |-> "down"]
    /\ lastSeenState = [c \in Components |-> Null]
    /\ systemReady = [c \in Components |-> FALSE]
    /\ handler = [c \in Components |-> "idle"]
    /\ inbox = [c \in Components |-> << >>]
    /\ outbox = [c \in Components |-> << >>]
    /\ managerUp = FALSE
    /\ managerPc = "wait"
    /\ dispatch = "idle"
    /\ known = {}
    /\ infoState = [c \in Components |-> Null]
    /\ lastReportSystemReady = FALSE
    /\ starts = 0

------------------------------------------------------------------------------
(* The component thread.                                                    *)

(* The constructor creates the MetaMessenger, which listens from now on. *)
Construct(c) ==
    /\ pc[c] = "down" /\ starts < MaxStarts
    /\ starts' = starts + 1
    /\ pc' = [pc EXCEPT ![c] = "built"]
    /\ lastSeenState' = [lastSeenState EXCEPT ![c] = Null]
    /\ systemReady' = [systemReady EXCEPT ![c] = FALSE]
    /\ UNCHANGED <<handler, inbox, outbox, managerVars>>

(* MetaMessenger.reportState, by the component thread. *)
ReportState(c, s) ==
    /\ lastSeenState' = [lastSeenState EXCEPT ![c] = s]
    /\ Send(c, s)

(* Mutant: the constructor does not report the starting state. *)
ReportStarting_Silent(c) ==
    /\ pc[c] = "built"
    /\ pc' = [pc EXCEPT ![c] = "starting"]
    /\ lastSeenState' = [lastSeenState EXCEPT ![c] = "starting"]
    /\ UNCHANGED <<systemReady, handler, inbox, outbox, managerVars, starts>>

(* The last statement of the constructor. *)
ReportStarting(c) ==
    /\ pc[c] = "built"
    /\ pc' = [pc EXCEPT ![c] = "starting"]
    /\ ReportState(c, "starting")
    /\ UNCHANGED <<systemReady, handler, inbox, managerVars, starts>>

(* startIO starts everything and reports ready. *)
StartIODone(c) ==
    /\ pc[c] = "starting"
    /\ pc' = [pc EXCEPT ![c] = "loop"]
    /\ ReportState(c, "ready")
    /\ UNCHANGED <<systemReady, handler, inbox, managerVars, starts>>

(* Mutant: the failure is sent, but not kept for the replies to pings. *)
Fail_NotKept(c) ==
    /\ c \in MayFail /\ pc[c] \in {"starting", "busy"}
    /\ pc' = [pc EXCEPT ![c] = "failed"]
    /\ Send(c, "failure")
    /\ UNCHANGED <<messengerVars, handler, inbox, managerVars, starts>>

(* startIO throws, or act() or react() does: the failure is reported and    *)
(* the component thread ends; the messenger stays.                          *)
Fail(c) ==
    /\ c \in MayFail /\ pc[c] \in {"starting", "busy"}
    /\ pc' = [pc EXCEPT ![c] = "failed"]
    /\ ReportState(c, "failure")
    /\ UNCHANGED <<systemReady, handler, inbox, managerVars, starts>>

(* Head of the loop, for the first time or after act(), the wait for input  *)
(* and react() have taken their time: MetaMessenger.IamAlive.               *)
IamAlive(c) ==
    /\ pc[c] \in {"loop", "busy"}
    /\ pc' = [pc EXCEPT ![c] = "check"]
    /\ lastSeenState' = [lastSeenState EXCEPT ![c] = "ready"]
    /\ UNCHANGED <<systemReady, handler, inbox, outbox, managerVars, starts>>

(* The readiness check, at first and after each wait(). *)
CheckSystemReady(c) ==
    /\ pc[c] = "check"
    /\ pc' = [pc EXCEPT ![c] = IF systemReady[c] THEN "busy" ELSE "waiting"]
    /\ UNCHANGED <<messengerVars, handler, inbox, outbox, managerVars,
                   starts>>

------------------------------------------------------------------------------
(* MetaMessenger.onMessage.                                                 *)

TakeIn(c) == inbox' = [inbox EXCEPT ![c] = Tail(@)]

HeadIn(c, m) == /\ handler[c] = "idle" /\ pc[c] # "down"
                /\ inbox[c] # << >> /\ Head(inbox[c]) = m

(* setSystemReady, which wakes the component thread, and setTime. *)
OnSystemReady(c, ready) ==
    /\ HeadIn(c, IF ready THEN "ready" ELSE "notready")
    /\ TakeIn(c)
    /\ systemReady' = [systemReady EXCEPT ![c] = ready]
    /\ pc' = [pc EXCEPT ![c] = IF @ = "waiting" THEN "check" ELSE @]
    /\ UNCHANGED <<lastSeenState, handler, outbox, managerVars, starts>>

(* The state that goes into a reply before the first reportState: in Java   *)
(* lastSeenState is null, toString() throws, and there is no reply; in C++  *)
(* it is the empty string, which is sent.                                   *)
NoState(c) == IF c \in Cpp THEN Empty ELSE "idle"

(* Mutant: a Java messenger replies even if there is no state yet. *)
OnPing_NoNullCheck(c) ==
    /\ HeadIn(c, "ping")
    /\ TakeIn(c)
    /\ handler' = [handler EXCEPT ![c] = lastSeenState[c]]
    /\ UNCHANGED <<pc, messengerVars, outbox, managerVars, starts>>

(* Mutant: a component that is not too late is taken for a ready one. *)
OnPing_AliveIsReady(c) ==
    /\ HeadIn(c, "ping")
    /\ TakeIn(c)
    /\ handler' = [handler EXCEPT ![c] =
           IF lastSeenState[c] = Null THEN NoState(c) ELSE "ready"]
    /\ UNCHANGED <<pc, messengerVars, outbox, managerVars, starts>>

(* PING: the component seems alive, its state goes into the reply. *)
OnPing(c) ==
    /\ HeadIn(c, "ping")
    /\ TakeIn(c)
    /\ handler' = [handler EXCEPT ![c] =
           IF lastSeenState[c] = Null THEN NoState(c) ELSE lastSeenState[c]]
    /\ UNCHANGED <<pc, messengerVars, outbox, managerVars, starts>>

(* PING: in a ready system a ready component was last seen alive too long   *)
(* ago.  This is decided on the fields as they are now ...                  *)
OnPingTooLate(c) ==
    /\ HeadIn(c, "ping")
    /\ TakeIn(c)
    /\ lastSeenState[c] = "ready" /\ systemReady[c]
    /\ handler' = [handler EXCEPT ![c] = "mark"]
    /\ UNCHANGED <<pc, messengerVars, outbox, managerVars, starts>>

(* ... and recorded a moment later: lastSeenState = stalled. *)
MarkStalled(c) ==
    /\ handler[c] = "mark"
    /\ lastSeenState' = [lastSeenState EXCEPT ![c] = "stalled"]
    /\ handler' = [handler EXCEPT ![c] = "stalled"]
    /\ UNCHANGED <<pc, systemReady, inbox, outbox, managerVars, starts>>

(* The reply is sent. *)
SendReply(c) ==
    /\ handler[c] \in Reports
    /\ Send(c, handler[c])
    /\ handler' = [handler EXCEPT ![c] = "idle"]
    /\ UNCHANGED <<pc, messengerVars, inbox, managerVars, starts>>

------------------------------------------------------------------------------
(* The SystemManager.                                                       *)

(* The constructor: from here on it hears the components. *)
StartManager ==
    /\ ~managerUp
    /\ managerUp' = TRUE
    /\ UNCHANGED <<pc, messengerVars, handler, inbox, outbox, managerPc,
                   dispatch, infoVars, lastReportSystemReady, starts>>

(* Bound: the manager pings only while few messages are under way, and none *)
(* is being handled.                                                        *)
Calm == /\ dispatch = "idle"
        /\ \A c \in Components : /\ Len(inbox[c]) + Len(outbox[c]) < PingBound
                                  /\ handler[c] = "idle"

(* pingComponents: PING to everyone. *)
PingComponents ==
    /\ managerUp /\ managerPc = "wait"
    /\ Calm
    /\ Broadcast("ping")
    /\ managerPc' = "flag"
    /\ UNCHANGED <<pc, messengerVars, handler, outbox, managerUp, dispatch,
                   infoVars, lastReportSystemReady, starts>>

(* if (lastReportSystemReady) ... *)
ReadFlag ==
    /\ managerPc = "flag"
    /\ managerPc' = IF lastReportSystemReady THEN "checkAlive" ELSE "wait"
    /\ UNCHANGED <<pc, messengerVars, handler, inbox, outbox, managerUp,
                   dispatch, infoVars, lastReportSystemReady, starts>>

(* Mutant: components that are late are not recorded as stalled. *)
CheckComponentsAlive_NoMark(late) ==
    /\ managerPc = "checkAlive"
    /\ late \subseteq known \ IgnoreStalled
    /\ managerPc' = "wait"
    /\ UNCHANGED <<pc, messengerVars, handler, inbox, outbox, managerUp,
                   dispatch, infoVars, lastReportSystemReady, starts>>

(* ... checkComponentsAlive(), which finds the components of late not seen  *)
(* alive for too long.  Nothing is announced here.                          *)
CheckComponentsAlive(late) ==
    /\ managerPc = "checkAlive"
    /\ late \subseteq known \ IgnoreStalled
    /\ infoState' = [c \in Components |->
                        IF c \in late THEN "stalled" ELSE infoState[c]]
    /\ managerPc' = "wait"
    /\ UNCHANGED <<pc, messengerVars, handler, inbox, outbox, managerUp,
                   dispatch, known, lastReportSystemReady, starts>>

(* reportSystemReady, if the value is a new one. *)
ReportSystemReady(ready) ==
    IF ready = lastReportSystemReady
    THEN UNCHANGED <<inbox, lastReportSystemReady>>
    ELSE /\ Broadcast(IF ready THEN "ready" ELSE "notready")
         /\ lastReportSystemReady' = ready

(* SystemManager.onMessage, on the dispatch thread of the manager's one     *)
(* session, has no lock in common with checkComponentsAlive: it is split    *)
(* where the manager thread can make a difference by coming in between.     *)
(* Only the dispatch thread writes lastReportSystemReady, and the manager   *)
(* thread only ever marks components as stalled; so a look at all           *)
(* components that finds each one ready, or one that is not, can be taken   *)
(* as done at one moment.                                                   *)

(* ci.setState for the head of c's reports: the info is created if there is *)
(* none; a state the manager does not know counts as a failure.             *)
Record(c) ==
    /\ dispatch = "idle" /\ c \notin Hidden
    /\ outbox[c] # << >>
    /\ outbox' = [outbox EXCEPT ![c] = Tail(@)]
    /\ known' = known \cup {c}
    /\ infoState' = [infoState EXCEPT ![c] =
           IF Head(outbox[c]) \in States THEN Head(outbox[c]) ELSE "failure"]

(* The component is not ready: neither is the system. *)
OnNotReady(c) ==
    /\ Record(c)
    /\ infoState'[c] # "ready"
    /\ ReportSystemReady(FALSE)
    /\ UNCHANGED <<pc, messengerVars, handler, managerUp, managerPc, dispatch,
                   starts>>

(* This component is ready, how about the others? *)
OnReady(c) ==
    /\ Record(c)
    /\ infoState'[c] = "ready"
    /\ dispatch' = "survey"
    /\ UNCHANGED <<pc, messengerVars, handler, inbox, managerUp, managerPc,
                   lastReportSystemReady, starts>>

(* Mutant: the other components are not looked at. *)
SurveyComponents_SenderOnly ==
    /\ dispatch = "survey"
    /\ dispatch' = IF lastReportSystemReady THEN "idle" ELSE "announce"
    /\ UNCHANGED <<pc, messengerVars, handler, inbox, outbox, managerUp,
                   managerPc, infoVars, lastReportSystemReady, starts>>

(* allReady is found out; FALSE is announced at once if it is news ...      *)
SurveyComponents ==
    /\ dispatch = "survey"
    /\ IF \A d \in known : infoState[d] = "ready"
       THEN /\ dispatch' = IF lastReportSystemReady THEN "idle" ELSE "announce"
            /\ UNCHANGED <<inbox, lastReportSystemReady>>
       ELSE dispatch' = "idle" /\ ReportSystemReady(FALSE)
    /\ UNCHANGED <<pc, messengerVars, handler, outbox, managerUp, managerPc,
                   infoVars, starts>>

(* ... TRUE a moment later, whatever the manager thread has marked since.   *)
AnnounceReady ==
    /\ dispatch = "announce"
    /\ dispatch' = "idle"
    /\ ReportSystemReady(TRUE)
    /\ UNCHANGED <<pc, messengerVars, handler, outbox, managerUp, managerPc,
                   infoVars, starts>>

(* onMessage for a hidden component: an early return. *)
OnHiddenReport(c) ==
    /\ dispatch = "idle" /\ c \in Hidden
    /\ outbox[c] # << >>
    /\ outbox' = [outbox EXCEPT ![c] = Tail(@)]
    /\ UNCHANGED <<pc, messengerVars, handler, inbox, managerVars, starts>>

------------------------------------------------------------------------------
(* Time and failures.                                                       *)

(* A component process dies, and with it the messenger's fields and what    *)
(* was sent to it; what it has sent is with the broker.  Construct starts   *)
(* it again.                                                                *)
Crash(c) ==
    /\ c \in MayCrash /\ pc[c] # "down"
    /\ pc' = [pc EXCEPT ![c] = "down"]
    /\ lastSeenState' = [lastSeenState EXCEPT ![c] = Null]
    /\ systemReady' = [systemReady EXCEPT ![c] = FALSE]
    /\ inbox' = [inbox EXCEPT ![c] = << >>]
    /\ handler' = [handler EXCEPT ![c] = "idle"]
    /\ UNCHANGED <<outbox, managerVars, starts>>

------------------------------------------------------------------------------
Thread(c) == ReportStarting(c) \/ StartIODone(c)
                \/ Fail(c) \/ IamAlive(c)
                \/ CheckSystemReady(c)

Handler(c) == OnSystemReady(c, TRUE) \/ OnSystemReady(c, FALSE) \/ OnPing(c)
                \/ OnPingTooLate(c) \/ MarkStalled(c) \/ SendReply(c)

Manager == PingComponents \/ ReadFlag
             \/ \E late \in SUBSET Components : CheckComponentsAlive(late)

OnMessage ==
    \/ \E c \in Components : OnNotReady(c) \/ OnReady(c) \/ OnHiddenReport(c)
    \/ SurveyComponents \/ AnnounceReady

Next ==
    \/ \E c \in Components : Construct(c) \/ Thread(c) \/ Handler(c) \/ Crash(c)
    \/ StartManager
    \/ Manager
    \/ OnMessage

Spec == Init /\ [][Next]_vars

(* The check that finds c, which is down, too late. *)
FindDead(c) ==
    /\ pc[c] = "down"
    /\ \E late \in SUBSET Components : c \in late /\ CheckComponentsAlive(late)

(* Threads that can run do run, act() and react() return, and the broker    *)
(* delivers.  The last time stamp of a dead component grows old, so the     *)
(* checks made again and again do find it.  Nothing is assumed of processes *)
(* that are not started.                                                    *)
Fairness ==
    /\ WF_vars(Manager)
    /\ WF_vars(OnMessage)
    /\ \A c \in Components : WF_vars(Thread(c)) /\ WF_vars(Handler(c))
    /\ \A c \in MayCrash : SF_vars(FindDead(c))

FairSpec == Spec /\ Fairness

------------------------------------------------------------------------------
(* Properties                                                               *)

(* Every variable has its type; a reply without a state is sent by C++      *)
(* messengers only, as an empty one, and never recorded as a state.         *)
TypeOK ==
    /\ pc \in [Components -> ThreadStates]
    /\ lastSeenState \in [Components -> States \cup {Null}]
    /\ systemReady \in [Components -> BOOLEAN]
    /\ handler \in [Components -> HandlerStates]
    /\ inbox \in [Components -> Seq(InMessages)]
    /\ outbox \in [Components -> Seq(Reports)]
    /\ managerUp \in BOOLEAN
    /\ managerPc \in {"wait", "flag", "checkAlive"}
    /\ dispatch \in {"idle", "survey", "announce"}
    /\ known \in SUBSET Components
    /\ infoState \in [Components -> States \cup {Null}]
    /\ lastReportSystemReady \in BOOLEAN
    /\ starts \in 0..MaxStarts
    /\ \A c \in Components : handler[c] = Empty => c \in Cpp

Visible == Components \ Hidden

Announcement(ready) == IF ready THEN "ready" ELSE "notready"
Announcements == {"ready", "notready"}

(* What a component whose flag systemReady is flag takes the readiness of   *)
(* the system to be once it has handled the messages q.                     *)
WillBelieve(q, flag, ready) ==
    \/ \E i \in 1..Len(q) :
          /\ q[i] = Announcement(ready)
          /\ \A j \in 1..Len(q) : j > i => q[j] \notin Announcements
    \/ /\ \A i \in 1..Len(q) : q[i] \notin Announcements
       /\ flag = ready

Believes(c, ready) == WillBelieve(inbox[c], systemReady[c], ready)

(* c's report that it is starting has not reached the manager yet. *)
StartUnderWay(c) ==
    pc[c] = "built" \/ \E i \in 1..Len(outbox[c]) : outbox[c][i] = "starting"

(* Manager and components agree on readiness, up to messages under way: a   *)
(* running component will believe what the manager announced last, unless   *)
(* it started after that; then it takes the system for not ready, and its   *)
(* start report, still under way, will make the manager announce anew.      *)
Agreement ==
    \A c \in Visible : pc[c] # "down" =>
        \/ Believes(c, lastReportSystemReady)
        \/ Believes(c, FALSE) /\ StartUnderWay(c)

(* The manager never takes the system for ready while a component it knows  *)
(* is starting, except for the time the component's report takes to arrive. *)
NoReadyWhileStarting ==
    \A c \in Visible :
        lastReportSystemReady /\ pc[c] = "starting" /\ c \in known => StartUnderWay(c)

(* c is out of service and the manager knows, and nothing under way says    *)
(* otherwise: no ready report of c, no such reply about to be sent, and no  *)
(* verdict that all are ready, reached before c was marked.                 *)
OutOfService(c) ==
    /\ c \in known /\ infoState[c] # "ready" /\ ~lastReportSystemReady
    /\ dispatch # "announce"
    /\ \A i \in 1..Len(outbox[c]) : outbox[c][i] # "ready"
    /\ \/ pc[c] = "down"
       \/ pc[c] = "failed" /\ lastSeenState[c] # "ready" /\ handler[c] # "ready"

(* Once the outage of a component has come through, only a new start of it  *)
(* ends it: no reply to a ping, no report of another component and no check *)
(* of the manager revokes it, and the system is not announced as ready.     *)
OutageLasts ==
    [][\A c \in Visible : OutOfService(c) => OutOfService(c)' \/ pc'[c] = "built"]_vars

(* A component that has failed for good keeps the system from being ready:  *)
(* late replies of its messenger may revoke the failure report, but only    *)
(* for a while.                                                             *)
FailureAnnounced ==
    \A c \in Visible :
        <>[](pc[c] = "failed" /\ c \in known) => <>[]~lastReportSystemReady

(* A component that has crashed for good keeps the system from being ready, *)
(* provided another one is there and well: the check that finds the crashed *)
(* one announces nothing itself, the next report of another component does. *)
CrashDetected ==
    \A c \in Visible \ IgnoreStalled :
        <>[](/\ pc[c] = "down" /\ c \in known
             /\ \E d \in Visible : pc[d] # "down" /\ lastSeenState[d] = "ready")
          => <>[]~lastReportSystemReady

(* "Report that we are alive before we check system ready status, (in case  *)
(* we were stalled ... this means we report back to the rest of the         *)
(* system)": a component that waits for readiness counts as ready itself.   *)
WaitingComponentReportedBack ==
    \A c \in Components : pc[c] = "waiting" => lastSeenState[c] = "ready"
==============================================================================
