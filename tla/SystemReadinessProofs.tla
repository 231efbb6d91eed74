------------------------ MODULE SystemReadinessProofs ------------------------
(***************************************************************************)
(* Proofs about SystemReadiness, for any set of components, any number of  *)
(* starts and crashes and any number of messages under way.                *)
(***************************************************************************)
EXTENDS SystemReadiness, TLAPS

USE HiddenAssumption, CppAssumption, IgnoreAssumption, MayAssumption, BoundsAssumption

(* The empty sequence is a sequence over any set. *)
LEMMA EmptySeq == \A S : << >> \in Seq(S)
  OBVIOUS

(* The initial state has the right types. *)
LEMMA InitTypeOK == Init => TypeOK
<1> SUFFICES ASSUME Init PROVE TypeOK
  OBVIOUS
<1>1. /\ pc \in [Components -> ThreadStates]
      /\ lastSeenState \in [Components -> States \cup {Null}]
      /\ handler \in [Components -> HandlerStates]
      /\ infoState \in [Components -> States \cup {Null}]
  BY DEF Init, ThreadStates, HandlerStates
<1>2. systemReady \in [Components -> BOOLEAN]
  BY DEF Init
<1>3. /\ inbox \in [Components -> Seq(InMessages)]
      /\ outbox \in [Components -> Seq(Reports)]
  BY EmptySeq DEF Init
<1>4. /\ managerUp \in BOOLEAN /\ lastReportSystemReady \in BOOLEAN
      /\ known \in SUBSET Components
      /\ managerPc \in {"wait", "flag", "checkAlive"}
      /\ dispatch \in {"idle", "survey", "announce"}
      /\ \A c \in Components : handler[c] # Empty
  BY DEF Init, Empty
<1>5. starts \in 0..MaxStarts
  BY DEF Init
<1> QED
  BY <1>1, <1>2, <1>3, <1>4, <1>5 DEF TypeOK

(* What the two ends of the broker do to the channels. *)
LEMMA BroadcastType ==
  ASSUME TypeOK, NEW m \in InMessages, Broadcast(m)
  PROVE  inbox' \in [Components -> Seq(InMessages)]
  BY DEF TypeOK, Broadcast

(* A report that is sent keeps the outbox a channel. *)
LEMMA SendType ==
  ASSUME TypeOK, NEW c \in Components, NEW m \in Reports, Send(c, m)
  PROVE  outbox' \in [Components -> Seq(Reports)]
  BY DEF TypeOK, Send

(* Taking a message in keeps the inbox a channel. *)
LEMMA TakeInType ==
  ASSUME TypeOK, NEW c \in Components, inbox[c] # << >>, TakeIn(c)
  PROVE  inbox' \in [Components -> Seq(InMessages)]
<1>1. Tail(inbox[c]) \in Seq(InMessages)
  BY DEF TypeOK
<1> QED
  BY <1>1 DEF TypeOK, TakeIn

(* Every step keeps the types. *)
LEMMA NextTypeOK == TypeOK /\ [Next]_vars => TypeOK'
<1> SUFFICES ASSUME TypeOK, [Next]_vars PROVE TypeOK'
  OBVIOUS
<1> USE DEF TypeOK
<1> DEFINE ReadyMessage == "ready" \in InMessages /\ "notready" \in InMessages
                             /\ "ping" \in InMessages
<1>a. ReadyMessage
  BY DEF InMessages
<1>b. /\ "starting" \in States /\ "ready" \in States /\ "failure" \in States
      /\ "stalled" \in States /\ States \subseteq Reports /\ Reports \subseteq HandlerStates
      /\ Empty \notin {"idle", "mark", "stalled"}
      /\ Empty \notin States /\ Null \notin Reports
  BY DEF States, Reports, HandlerStates, Empty, Null
<1>1. ASSUME NEW c \in Components, Construct(c) PROVE TypeOK'
  BY <1>1 DEF Construct, managerVars, infoVars, ThreadStates
<1>2. ASSUME NEW c \in Components, ReportStarting(c) PROVE TypeOK'
  <2>1. Send(c, "starting")
    BY <1>2 DEF ReportStarting, ReportState
  <2>2. outbox' \in [Components -> Seq(Reports)]
    BY <2>1, <1>b, SendType
  <2> QED
    BY <1>2, <2>2, <1>b DEF ReportStarting, ReportState, managerVars, infoVars, ThreadStates
<1>3. ASSUME NEW c \in Components, StartIODone(c) PROVE TypeOK'
  <2>1. Send(c, "ready")
    BY <1>3 DEF StartIODone, ReportState
  <2>2. outbox' \in [Components -> Seq(Reports)]
    BY <2>1, <1>b, SendType
  <2> QED
    BY <1>3, <2>2, <1>b DEF StartIODone, ReportState, managerVars, infoVars, ThreadStates
<1>4. ASSUME NEW c \in Components, Fail(c) PROVE TypeOK'
  <2>1. Send(c, "failure")
    BY <1>4 DEF Fail, ReportState
  <2>2. outbox' \in [Components -> Seq(Reports)]
    BY <2>1, <1>b, SendType
  <2> QED
    BY <1>4, <2>2, <1>b DEF Fail, ReportState, managerVars, infoVars, ThreadStates
<1>5. ASSUME NEW c \in Components, IamAlive(c) PROVE TypeOK'
  BY <1>5, <1>b DEF IamAlive, managerVars, infoVars, ThreadStates
<1>6. ASSUME NEW c \in Components, CheckSystemReady(c) PROVE TypeOK'
  BY <1>6 DEF CheckSystemReady, messengerVars, managerVars, infoVars, ThreadStates
<1>8. ASSUME NEW c \in Components, NEW b \in BOOLEAN, OnSystemReady(c, b) PROVE TypeOK'
  <2>1. inbox' \in [Components -> Seq(InMessages)]
    BY <1>8, TakeInType DEF OnSystemReady, HeadIn
  <2> QED
    BY <1>8, <2>1 DEF OnSystemReady, managerVars, infoVars, ThreadStates
<1>9. ASSUME NEW c \in Components, OnPing(c) PROVE TypeOK'
  <2>1. inbox' \in [Components -> Seq(InMessages)]
    BY <1>9, TakeInType DEF OnPing, HeadIn
  <2>2. handler' \in [Components -> HandlerStates]
    BY <1>9, <1>b DEF OnPing, NoState, HandlerStates, Reports
  <2>3. \A d \in Components : handler'[d] = Empty => d \in Cpp
    BY <1>9, <1>b DEF OnPing, NoState
  <2> QED
    BY <1>9, <2>1, <2>2, <2>3 DEF OnPing, messengerVars, managerVars, infoVars
<1>10. ASSUME NEW c \in Components, OnPingTooLate(c) PROVE TypeOK'
  <2>1. inbox' \in [Components -> Seq(InMessages)]
    BY <1>10, TakeInType DEF OnPingTooLate, HeadIn
  <2> QED
    BY <1>10, <2>1, <1>b DEF OnPingTooLate, messengerVars, managerVars, infoVars, HandlerStates
<1>11. ASSUME NEW c \in Components, MarkStalled(c) PROVE TypeOK'
  BY <1>11, <1>b DEF MarkStalled, managerVars, infoVars, HandlerStates
<1>12. ASSUME NEW c \in Components, SendReply(c) PROVE TypeOK'
  <2>1. outbox' \in [Components -> Seq(Reports)]
    BY <1>12, SendType DEF SendReply
  <2> QED
    BY <1>12, <2>1, <1>b DEF SendReply, messengerVars, managerVars, infoVars, HandlerStates
<1>13. CASE StartManager
  BY <1>13 DEF StartManager, messengerVars, infoVars
<1>14. CASE PingComponents
  <2>1. inbox' \in [Components -> Seq(InMessages)]
    BY <1>14, <1>a, BroadcastType DEF PingComponents
  <2> QED
    BY <1>14, <2>1 DEF PingComponents, messengerVars, infoVars
<1>15. CASE ReadFlag
  BY <1>15 DEF ReadFlag, messengerVars, infoVars
<1>16. ASSUME NEW late \in SUBSET Components, CheckComponentsAlive(late) PROVE TypeOK'
  BY <1>16, <1>b DEF CheckComponentsAlive, messengerVars
<1>17. ASSUME NEW c \in Components, Record(c)
       PROVE  /\ outbox' \in [Components -> Seq(Reports)]
              /\ infoState' \in [Components -> States \cup {Null}]
              /\ known' \in SUBSET Components
  <2>1. Head(outbox[c]) \in Reports /\ Tail(outbox[c]) \in Seq(Reports)
    BY <1>17 DEF Record
  <2> QED
    BY <1>17, <2>1, <1>b DEF Record
<1>c. ASSUME NEW ready \in BOOLEAN, ReportSystemReady(ready)
      PROVE  inbox' \in [Components -> Seq(InMessages)] /\ lastReportSystemReady' \in BOOLEAN
  <2>1. CASE ready = lastReportSystemReady
    BY <1>c, <2>1 DEF ReportSystemReady
  <2>2. CASE ready # lastReportSystemReady
    <3>1. Broadcast(IF ready THEN "ready" ELSE "notready")
      BY <1>c, <2>2 DEF ReportSystemReady
    <3>2. (IF ready THEN "ready" ELSE "notready") \in InMessages
      BY <1>a
    <3>3. inbox' \in [Components -> Seq(InMessages)]
      BY <3>1, <3>2, BroadcastType
    <3> QED
      BY <3>3, <1>c, <2>2 DEF ReportSystemReady
  <2> QED
    BY <2>1, <2>2
<1>20. ASSUME NEW c \in Components, OnNotReady(c) PROVE TypeOK'
  BY <1>20, <1>17, <1>c DEF OnNotReady, messengerVars
<1>21. ASSUME NEW c \in Components, OnReady(c) PROVE TypeOK'
  BY <1>21, <1>17 DEF OnReady, messengerVars
<1>22. CASE SurveyComponents
  <2>1. inbox' \in [Components -> Seq(InMessages)] /\ lastReportSystemReady' \in BOOLEAN
    BY <1>22, <1>c DEF SurveyComponents
  <2>2. dispatch' \in {"idle", "survey", "announce"}
    BY <1>22 DEF SurveyComponents
  <2> QED
    BY <1>22, <2>1, <2>2 DEF SurveyComponents, messengerVars, infoVars
<1>23. CASE AnnounceReady
  <2>1. inbox' \in [Components -> Seq(InMessages)] /\ lastReportSystemReady' \in BOOLEAN
    BY <1>23, <1>c DEF AnnounceReady
  <2> QED
    BY <1>23, <2>1 DEF AnnounceReady, messengerVars, infoVars
<1>18. ASSUME NEW c \in Components, OnHiddenReport(c) PROVE TypeOK'
  <2>1. outbox' \in [Components -> Seq(Reports)]
    BY <1>18 DEF OnHiddenReport
  <2> QED
    BY <1>18, <2>1 DEF OnHiddenReport, messengerVars, managerVars, infoVars
<1>19. ASSUME NEW c \in Components, Crash(c) PROVE TypeOK'
  <2>1. inbox' \in [Components -> Seq(InMessages)]
    BY <1>19, EmptySeq DEF Crash
  <2>2. /\ pc' \in [Components -> ThreadStates]
        /\ lastSeenState' \in [Components -> States \cup {Null}]
        /\ handler' \in [Components -> HandlerStates]
        /\ \A d \in Components : handler'[d] = Empty => d \in Cpp
    BY <1>19, <1>b DEF Crash, ThreadStates, HandlerStates
  <2>3. systemReady' \in [Components -> BOOLEAN]
    BY <1>19 DEF Crash
  <2> QED
    BY <1>19, <2>1, <2>2, <2>3 DEF Crash, managerVars, infoVars
<1>24. CASE UNCHANGED vars
  BY <1>24 DEF vars, messengerVars, managerVars, infoVars
<1> QED
  BY <1>1, <1>2, <1>3, <1>4, <1>5, <1>6, <1>8, <1>9, <1>10, <1>11,
     <1>12, <1>13, <1>14, <1>15, <1>16, <1>17, <1>18, <1>19, <1>20, <1>21, <1>22,
     <1>23, <1>24 DEF Next, Thread, Handler, Manager, OnMessage

(* Type correctness of the life-cycle protocol. *)
THEOREM ReadinessTypeCorrect == Spec => []TypeOK
  BY InitTypeOK, NextTypeOK, PTL DEF Spec

------------------------------------------------------------------------------
(* What a component will believe, as messages come and are handled.         *)

(* What Append does to the places of a sequence. *)
LEMMA AppendPlaces ==
  ASSUME NEW S, NEW s \in Seq(S), NEW e \in S
  PROVE  /\ Len(s) \in Nat /\ Len(Append(s, e)) = Len(s) + 1
         /\ \A i \in 1..Len(s) : Append(s, e)[i] = s[i]
         /\ Append(s, e)[Len(s) + 1] = e
         /\ \A i \in 1..(Len(s) + 1) : i \in 1..Len(s) \/ i = Len(s) + 1
         /\ \A i \in 1..Len(s) : i \in 1..(Len(s) + 1)
         /\ Len(s) + 1 \in 1..(Len(s) + 1)
         /\ \A i \in 1..Len(s) : ~(i > Len(s) + 1) /\ Len(s) + 1 > i
         /\ ~(Len(s) + 1 > Len(s) + 1)
  OBVIOUS

(* What taking the head off a sequence does to its places. *)
LEMMA TailPlaces ==
  ASSUME NEW S, NEW s \in Seq(S), s # << >>
  PROVE  /\ Len(s) \in Nat \ {0} /\ Len(Tail(s)) = Len(s) - 1
         /\ \A i \in 1..(Len(s) - 1) : Tail(s)[i] = s[i + 1] /\ i + 1 \in 1..Len(s)
         /\ Head(s) = s[1]
         /\ \A i \in 1..Len(s) : i = 1 \/ (i - 1 \in 1..(Len(s) - 1) /\ (i - 1) + 1 = i)
         /\ 1 \in 1..Len(s)
  OBVIOUS

(* A ping changes nothing. *)
LEMMA BelieveAfterPing ==
  ASSUME NEW q \in Seq(InMessages), NEW flag, NEW ready, WillBelieve(q, flag, ready)
  PROVE  WillBelieve(Append(q, "ping"), flag, ready)
<1> DEFINE n == Len(q)
           r == Append(q, "ping")
<1>1. /\ n \in Nat /\ Len(r) = n + 1 /\ r[n + 1] = "ping"
      /\ \A i \in 1..n : r[i] = q[i] /\ i \in 1..(n + 1)
      /\ \A i \in 1..(n + 1) : i \in 1..n \/ i = n + 1
  BY AppendPlaces DEF InMessages
<1>2. "ping" \notin Announcements
  BY DEF Announcements
<1> HIDE DEF n, r
<1>3. CASE \E i \in 1..n : /\ q[i] = Announcement(ready)
                           /\ \A j \in 1..n : j > i => q[j] \notin Announcements
  <2>1. PICK i \in 1..n : /\ q[i] = Announcement(ready)
                          /\ \A j \in 1..n : j > i => q[j] \notin Announcements
    BY <1>3
  <2>2. r[i] = Announcement(ready) /\ i \in 1..Len(r)
    BY <2>1, <1>1
  <2>3. \A j \in 1..Len(r) : j > i => r[j] \notin Announcements
    BY <2>1, <1>1, <1>2
  <2> QED
    BY <2>2, <2>3 DEF WillBelieve, r
<1>4. CASE (\A i \in 1..n : q[i] \notin Announcements) /\ flag = ready
  <2>1. \A i \in 1..Len(r) : r[i] \notin Announcements
    BY <1>4, <1>1, <1>2
  <2> QED
    BY <2>1, <1>4 DEF WillBelieve, r
<1> QED
  BY <1>3, <1>4 DEF WillBelieve, n

(* An announcement settles it. *)
LEMMA BelieveAfterAnnouncement ==
  ASSUME NEW q \in Seq(InMessages), NEW flag, NEW ready \in BOOLEAN
  PROVE  WillBelieve(Append(q, Announcement(ready)), flag, ready)
<1> DEFINE n == Len(q)
           r == Append(q, Announcement(ready))
<1>1. Announcement(ready) \in InMessages
  BY DEF Announcement, InMessages
<1>2. /\ n \in Nat /\ Len(r) = n + 1 /\ r[n + 1] = Announcement(ready)
      /\ n + 1 \in 1..(n + 1)
  BY <1>1, AppendPlaces
<1> HIDE DEF n, r
<1>3. \A j \in 1..Len(r) : ~(j > n + 1)
  BY <1>2
<1> QED
  BY <1>2, <1>3 DEF WillBelieve, r

(* Handling a ping changes nothing. *)
LEMMA BelieveTailPing ==
  ASSUME NEW q \in Seq(InMessages), q # << >>, Head(q) = "ping",
         NEW flag, NEW ready, WillBelieve(q, flag, ready)
  PROVE  WillBelieve(Tail(q), flag, ready)
<1> DEFINE n == Len(q)
           r == Tail(q)
<1>1. /\ n \in Nat \ {0} /\ Len(r) = n - 1
      /\ \A i \in 1..(n - 1) : r[i] = q[i + 1] /\ i + 1 \in 1..n
      /\ q[1] = "ping"
      /\ \A i \in 1..n : i = 1 \/ (i - 1 \in 1..(n - 1) /\ (i - 1) + 1 = i)
  BY TailPlaces
<1>2. "ping" \notin Announcements /\ Announcement(ready) # "ping"
  BY DEF Announcements, Announcement
<1> HIDE DEF n, r
<1>3. CASE \E i \in 1..n : /\ q[i] = Announcement(ready)
                           /\ \A j \in 1..n : j > i => q[j] \notin Announcements
  <2>1. PICK i \in 1..n : /\ q[i] = Announcement(ready)
                          /\ \A j \in 1..n : j > i => q[j] \notin Announcements
    BY <1>3
  <2>2. i - 1 \in 1..Len(r) /\ (i - 1) + 1 = i
    BY <2>1, <1>1, <1>2
  <2>3. r[i - 1] = Announcement(ready)
    BY <2>1, <2>2, <1>1
  <2>4. \A j \in 1..Len(r) : j > i - 1 => r[j] \notin Announcements
    BY <2>1, <1>1
  <2> QED
    BY <2>2, <2>3, <2>4 DEF WillBelieve, r
<1>4. CASE (\A i \in 1..n : q[i] \notin Announcements) /\ flag = ready
  <2>1. \A i \in 1..Len(r) : r[i] \notin Announcements
    BY <1>4, <1>1
  <2> QED
    BY <2>1, <1>4 DEF WillBelieve, r
<1> QED
  BY <1>3, <1>4 DEF WillBelieve, n

(* Handling an announcement makes it the flag. *)
LEMMA BelieveTailAnnouncement ==
  ASSUME NEW q \in Seq(InMessages), q # << >>,
         NEW value \in BOOLEAN, Head(q) = Announcement(value),
         NEW flag \in BOOLEAN, NEW ready \in BOOLEAN, WillBelieve(q, flag, ready)
  PROVE  WillBelieve(Tail(q), value, ready)
<1> DEFINE n == Len(q)
           r == Tail(q)
<1>1. /\ n \in Nat \ {0} /\ Len(r) = n - 1
      /\ \A i \in 1..(n - 1) : r[i] = q[i + 1] /\ i + 1 \in 1..n
      /\ q[1] = Announcement(value) /\ 1 \in 1..n
      /\ \A i \in 1..n : i = 1 \/ (i - 1 \in 1..(n - 1) /\ (i - 1) + 1 = i)
  BY TailPlaces
<1>2. /\ Announcement(value) \in Announcements
      /\ Announcement(value) = Announcement(ready) => value = ready
  BY DEF Announcements, Announcement
<1> HIDE DEF n, r
<1>3. \E i \in 1..n : /\ q[i] = Announcement(ready)
                      /\ \A j \in 1..n : j > i => q[j] \notin Announcements
  BY <1>1, <1>2 DEF WillBelieve, n
<1>4. PICK i \in 1..n : /\ q[i] = Announcement(ready)
                        /\ \A j \in 1..n : j > i => q[j] \notin Announcements
  BY <1>3
<1>5. CASE i = 1
  <2>1. \A j \in 1..Len(r) : j + 1 \in 1..n /\ j + 1 > 1 /\ r[j] = q[j + 1]
    BY <1>1
  <2>2. \A j \in 1..Len(r) : r[j] \notin Announcements
    BY <2>1, <1>4, <1>5
  <2>3. value = ready
    BY <1>1, <1>2, <1>4, <1>5
  <2> QED
    BY <2>2, <2>3 DEF WillBelieve, r
<1>6. CASE i # 1
  <2>1. i - 1 \in 1..Len(r) /\ (i - 1) + 1 = i /\ r[i - 1] = Announcement(ready)
    BY <1>1, <1>4, <1>6
  <2>2. \A j \in 1..Len(r) : j > i - 1 => r[j] \notin Announcements
    BY <1>1, <1>4
  <2> QED
    BY <2>1, <2>2 DEF WillBelieve, r
<1> QED
  BY <1>5, <1>6

------------------------------------------------------------------------------
(* The inductive invariant.                                                 *)

(* Before the manager listens nobody has anything from it or for it. *)
ManagerSilent ==
    ~managerUp => /\ ~lastReportSystemReady /\ known = {} /\ dispatch = "idle"
                  /\ \A c \in Components : outbox[c] = << >>

(* A start report under way. *)
HasStart(q) == \E i \in 1..Len(q) : q[i] = "starting"

(* Reports of an earlier life are followed by a start report. *)
Settled(q) ==
    \A i \in 1..Len(q) : \/ q[i] \in {"starting", Empty}
                         \/ \E j \in 1..Len(q) : j > i /\ q[j] = "starting"

(* What the messenger of a component can say in the early stages of its     *)
(* life, and what of its earlier lives can still be under way.              *)
EarlyLife ==
    \A c \in Components :
        /\ pc[c] = "down" => inbox[c] = << >> /\ handler[c] = "idle"
        /\ pc[c] = "built" => lastSeenState[c] = Null /\ handler[c] \in {"idle", Empty}
        /\ pc[c] = "starting" => /\ lastSeenState[c] = "starting"
                                 /\ handler[c] \in {"idle", "starting", Empty}
                                 /\ Settled(outbox[c])

(* Once the manager has the start report of a component, it does not take   *)
(* the system for ready and cannot be brought to do so by anyone else.      *)
StartRespected ==
    \A c \in Visible :
        pc[c] = "starting" /\ c \in known /\ ~StartUnderWay(c)
          => infoState[c] # "ready" /\ ~lastReportSystemReady /\ dispatch # "announce"

Inv == TypeOK /\ ManagerSilent /\ EarlyLife /\ StartRespected /\ Agreement

(* The part about one component, to be shown for each. *)
AgreementOf(c) ==
    pc[c] # "down" => \/ Believes(c, lastReportSystemReady)
                      \/ Believes(c, FALSE) /\ StartUnderWay(c)

(* A start report that is appended is under way. *)
LEMMA StartAppended ==
  ASSUME NEW q \in Seq(Reports), NEW m \in Reports, HasStart(q) \/ m = "starting"
  PROVE  HasStart(Append(q, m))
<1> DEFINE n == Len(q)
           r == Append(q, m)
<1>1. /\ Len(r) = n + 1 /\ r[n + 1] = m /\ n + 1 \in 1..(n + 1)
      /\ \A i \in 1..n : r[i] = q[i] /\ i \in 1..(n + 1)
  BY AppendPlaces
<1> HIDE DEF n, r
<1>2. HasStart(q) => \E i \in 1..Len(r) : r[i] = "starting"
  BY <1>1 DEF HasStart, n
<1>3. m = "starting" => \E i \in 1..Len(r) : r[i] = "starting"
  BY <1>1
<1> QED
  BY <1>2, <1>3 DEF HasStart, r

(* A start report stays under way while others are taken before it. *)
LEMMA StartBehind ==
  ASSUME NEW q \in Seq(Reports), q # << >>, HasStart(q), Head(q) # "starting"
  PROVE  HasStart(Tail(q))
<1> DEFINE n == Len(q)
           r == Tail(q)
<1>1. /\ Len(r) = n - 1 /\ q[1] = Head(q)
      /\ \A i \in 1..(n - 1) : r[i] = q[i + 1]
      /\ \A i \in 1..n : i = 1 \/ (i - 1 \in 1..(n - 1) /\ (i - 1) + 1 = i)
  BY TailPlaces
<1>2. PICK i \in 1..n : q[i] = "starting"
  BY DEF HasStart
<1> HIDE DEF n, r
<1>3. i - 1 \in 1..Len(r) /\ r[i - 1] = q[i]
  BY <1>1, <1>2
<1> QED
  BY <1>2, <1>3 DEF HasStart, r

(* Appending a start report settles all that is before it, and what a       *)
(* starting component sends behind it changes nothing.                      *)
LEMMA SettledAppend ==
  ASSUME NEW q \in Seq(Reports), NEW m \in {"starting", Empty},
         Settled(q) \/ m = "starting"
  PROVE  Settled(Append(q, m))
<1> DEFINE n == Len(q)
           r == Append(q, m)
<1>1. m \in Reports
  BY DEF Reports, States
<1>2. /\ n \in Nat /\ Len(r) = n + 1 /\ r[n + 1] = m /\ n + 1 \in 1..(n + 1)
      /\ \A i \in 1..n : r[i] = q[i] /\ i \in 1..(n + 1) /\ n + 1 > i
      /\ \A i \in 1..(n + 1) : i \in 1..n \/ i = n + 1
  BY <1>1, AppendPlaces
<1> HIDE DEF n, r
<1>3. ASSUME NEW i \in 1..n
      PROVE  r[i] \in {"starting", Empty} \/ \E j \in 1..(n + 1) : j > i /\ r[j] = "starting"
  BY <1>2 DEF Settled, n
<1> QED
  BY <1>2, <1>3 DEF Settled, r

(* Taking the head of settled reports leaves them settled, and a head of an *)
(* earlier life has a start report behind it.                               *)
LEMMA SettledTail ==
  ASSUME NEW q \in Seq(Reports), q # << >>, Settled(q)
  PROVE  /\ Settled(Tail(q))
         /\ Head(q) \in {"starting", Empty} \/ HasStart(Tail(q))
<1> DEFINE n == Len(q)
           r == Tail(q)
<1>1. /\ n \in Nat \ {0} /\ Len(r) = n - 1 /\ q[1] = Head(q) /\ 1 \in 1..n
      /\ \A i \in 1..(n - 1) : r[i] = q[i + 1] /\ i + 1 \in 1..n
      /\ \A i \in 1..n : i = 1 \/ (i - 1 \in 1..(n - 1) /\ (i - 1) + 1 = i)
  BY TailPlaces
<1>2. \A i \in 1..n : \/ q[i] \in {"starting", Empty}
                      \/ \E j \in 1..n : j > i /\ q[j] = "starting"
  BY DEF Settled
<1> HIDE DEF n, r
<1>3. ASSUME NEW i \in 1..(n - 1)
      PROVE  r[i] \in {"starting", Empty} \/ \E j \in 1..(n - 1) : j > i /\ r[j] = "starting"
  <2>1. CASE q[i + 1] \in {"starting", Empty}
    BY <1>1, <2>1
  <2>2. CASE \E j \in 1..n : j > i + 1 /\ q[j] = "starting"
    <3>1. PICK j \in 1..n : j > i + 1 /\ q[j] = "starting"
      BY <2>2
    <3>2. j - 1 \in 1..(n - 1) /\ j - 1 > i /\ r[j - 1] = "starting"
      BY <1>1, <3>1
    <3> QED
      BY <3>2
  <2> QED
    BY <1>1, <1>2, <2>1, <2>2
<1>4. ASSUME q[1] \notin {"starting", Empty} PROVE \E j \in 1..(n - 1) : r[j] = "starting"
  <2>1. PICK j \in 1..n : j > 1 /\ q[j] = "starting"
    BY <1>1, <1>2, <1>4
  <2>2. j - 1 \in 1..(n - 1) /\ r[j - 1] = "starting"
    BY <1>1, <2>1
  <2> QED
    BY <2>2
<1> QED
  BY <1>1, <1>3, <1>4 DEF Settled, HasStart, r

(* The inductive invariant holds initially. *)
LEMMA InitInv == Init => Inv
<1> SUFFICES ASSUME Init PROVE Inv
  OBVIOUS
<1>1. \A c \in Components : /\ pc[c] = "down" /\ inbox[c] = << >>
                            /\ outbox[c] = << >> /\ handler[c] = "idle"
  BY DEF Init
<1>2. ManagerSilent
  BY <1>1 DEF Init, ManagerSilent
<1>3. EarlyLife /\ StartRespected /\ Agreement
  BY <1>1 DEF EarlyLife, StartRespected, Agreement, Visible
<1> QED
  BY <1>2, <1>3, InitTypeOK DEF Inv

(* Steps that leave the manager's side alone. *)
ManagerSideKept == UNCHANGED <<managerUp, known, infoState, lastReportSystemReady>>

(* A manager that is not up has neither messages nor knowledge. *)
LEMMA SilentStep ==
  ASSUME Inv, [Next]_vars PROVE ManagerSilent'
<1> USE DEF Inv, ManagerSilent
<1> SUFFICES ASSUME ~managerUp'
             PROVE  /\ ~lastReportSystemReady' /\ known' = {} /\ dispatch' = "idle"
                    /\ \A c \in Components : outbox'[c] = << >>
  OBVIOUS
<1>1. ~managerUp
  BY DEF Next, Thread, Handler, Manager, vars, managerVars, infoVars, Construct,
         ReportStarting, StartIODone, Fail, IamAlive, CheckSystemReady,
         OnSystemReady, OnPing, OnPingTooLate, MarkStalled, SendReply,
         StartManager, PingComponents, ReadFlag, CheckComponentsAlive,
         OnMessage, OnNotReady, OnReady, SurveyComponents, AnnounceReady,
         OnHiddenReport, Crash
<1>2. dispatch = "idle" /\ \A c \in Components : outbox[c] = << >>
  BY <1>1
<1>3. UNCHANGED <<outbox, known, lastReportSystemReady, dispatch>>
  <2>1. ASSUME NEW c \in Components,
               Construct(c) \/ Thread(c) \/ Handler(c) \/ Crash(c)
        PROVE  UNCHANGED <<outbox, known, lastReportSystemReady, dispatch>>
    BY <1>1, <2>1
       DEF Thread, Handler, managerVars, infoVars, Construct, ReportStarting,
           StartIODone, Fail, IamAlive, CheckSystemReady, OnSystemReady,
           OnPing, OnPingTooLate, MarkStalled, SendReply, Crash, Send,
           ReportState
  <2>2. CASE OnMessage
    BY <1>2, <2>2 DEF OnMessage, OnNotReady, OnReady, Record, OnHiddenReport,
         SurveyComponents, AnnounceReady
  <2>3. CASE StartManager
    BY <2>3 DEF StartManager
  <2>4. CASE Manager
    BY <2>4 DEF Manager, PingComponents, ReadFlag, CheckComponentsAlive, infoVars
  <2>5. CASE UNCHANGED vars
    BY <2>5 DEF vars, managerVars, infoVars
  <2> QED
    BY <2>1, <2>2, <2>3, <2>4, <2>5 DEF Next
<1> QED
  BY <1>1, <1>2, <1>3

(* A component that has not reported itself has an empty life. *)
LEMMA EarlyStep ==
  ASSUME Inv, [Next]_vars PROVE EarlyLife'
<1> USE DEF Inv, EarlyLife, TypeOK
<1>a. \A c \in Components : Len(outbox[c]) \in Nat /\ outbox[c] \in Seq(Reports)
  OBVIOUS
<1>1. ASSUME NEW c \in Components, Construct(c) PROVE EarlyLife'
  BY <1>1 DEF Construct
<1>2. ASSUME NEW c \in Components, ReportStarting(c) PROVE EarlyLife'
  <2>1. /\ handler[c] \in {"idle", Empty} /\ handler' = handler /\ inbox' = inbox
        /\ pc' = [pc EXCEPT ![c] = "starting"]
        /\ lastSeenState' = [lastSeenState EXCEPT ![c] = "starting"]
        /\ Send(c, "starting")
    BY <1>2 DEF ReportStarting, ReportState
  <2>2. Settled(outbox'[c])
    <3>1. CASE managerUp
      <4>1. outbox'[c] = Append(outbox[c], "starting")
        BY <2>1, <3>1 DEF Send
      <4> QED
        BY <4>1, <1>a, SettledAppend
    <3>2. CASE ~managerUp
      <4>1. outbox'[c] = << >>
        BY <2>1, <3>2 DEF Send, ManagerSilent
      <4>2. 1..Len(<< >>) = {}
        OBVIOUS
      <4> QED
        BY <4>1, <4>2, Zenon DEF Settled
    <3> QED
      BY <3>1, <3>2
  <2>3. \A d \in Components \ {c} : outbox'[d] = outbox[d]
    BY <2>1 DEF Send
  <2> QED
    BY <2>1, <2>2, <2>3
<1>3. ASSUME NEW c \in Components, StartIODone(c) \/ Fail(c) PROVE EarlyLife'
  <2>1. /\ handler' = handler /\ inbox' = inbox
        /\ \A d \in Components \ {c} : /\ pc'[d] = pc[d] /\ outbox'[d] = outbox[d]
                                       /\ lastSeenState'[d] = lastSeenState[d]
        /\ pc'[c] \in {"loop", "failed"}
    BY <1>3 DEF StartIODone, Fail, ReportState, Send
  <2> QED
    BY <2>1
<1>4. ASSUME NEW c \in Components, IamAlive(c) \/ CheckSystemReady(c)
      PROVE  EarlyLife'
  <2>1. /\ handler' = handler /\ inbox' = inbox /\ outbox' = outbox
        /\ \A d \in Components \ {c} : /\ pc'[d] = pc[d]
                                       /\ lastSeenState'[d] = lastSeenState[d]
        /\ pc'[c] \notin {"down", "built", "starting"}
    BY <1>4 DEF IamAlive, CheckSystemReady, messengerVars
  <2> QED
    BY <2>1
<1>5. ASSUME NEW c \in Components, NEW b \in BOOLEAN, OnSystemReady(c, b)
      PROVE  EarlyLife'
  <2>1. /\ handler' = handler /\ outbox' = outbox /\ lastSeenState' = lastSeenState
        /\ \A d \in Components \ {c} : pc'[d] = pc[d] /\ inbox'[d] = inbox[d]
        /\ pc[c] # "down" /\ (pc'[c] = pc[c] \/ pc'[c] = "check")
    BY <1>5 DEF OnSystemReady, HeadIn, TakeIn
  <2> QED
    BY <2>1
<1>6. ASSUME NEW c \in Components, OnPing(c) \/ OnPingTooLate(c) PROVE EarlyLife'
  <2>1. /\ pc' = pc /\ outbox' = outbox /\ lastSeenState' = lastSeenState
        /\ \A d \in Components \ {c} : handler'[d] = handler[d] /\ inbox'[d] = inbox[d]
        /\ pc[c] # "down"
        /\ pc[c] = "built" => handler'[c] \in {"idle", Empty}
        /\ pc[c] = "starting" => handler'[c] = "starting"
    BY <1>6 DEF OnPing, OnPingTooLate, HeadIn, TakeIn, messengerVars, Null, NoState
  <2> QED
    BY <2>1
<1>7. ASSUME NEW c \in Components, MarkStalled(c) PROVE EarlyLife'
  <2>1. /\ pc' = pc /\ outbox' = outbox /\ inbox' = inbox
        /\ \A d \in Components \ {c} : /\ handler'[d] = handler[d]
                                       /\ lastSeenState'[d] = lastSeenState[d]
        /\ pc[c] \notin {"down", "built", "starting"}
    BY <1>7 DEF MarkStalled, Empty
  <2> QED
    BY <2>1
<1>8. ASSUME NEW c \in Components, SendReply(c) PROVE EarlyLife'
  <2>1. /\ pc' = pc /\ inbox' = inbox /\ lastSeenState' = lastSeenState
        /\ handler' = [handler EXCEPT ![c] = "idle"]
        /\ Send(c, handler[c]) /\ handler[c] \in Reports
    BY <1>8 DEF SendReply, messengerVars
  <2>2. \A d \in Components \ {c} : outbox'[d] = outbox[d]
    BY <2>1 DEF Send
  <2>3. pc[c] # "down"
    BY <2>1 DEF Reports, States, Empty
  <2>4. ASSUME pc[c] = "starting" PROVE Settled(outbox'[c])
    <3>1. CASE managerUp
      <4>1. outbox'[c] = Append(outbox[c], handler[c]) /\ handler[c] \in {"starting", Empty}
        BY <2>1, <2>4, <3>1 DEF Send, Reports, States, Empty
      <4> QED
        BY <4>1, <2>4, <1>a, SettledAppend
    <3>2. CASE ~managerUp
      BY <2>1, <2>4, <3>2 DEF Send
    <3> QED
      BY <3>1, <3>2
  <2> QED
    BY <2>1, <2>2, <2>3, <2>4
<1>9. CASE StartManager \/ ReadFlag \/ \E late \in SUBSET Components : CheckComponentsAlive(late)
  BY <1>9 DEF StartManager, ReadFlag, CheckComponentsAlive, messengerVars
<1>10. ASSUME NEW m, Broadcast(m), UNCHANGED <<pc, lastSeenState, handler, outbox>>
       PROVE  EarlyLife'
  BY <1>10 DEF Broadcast
<1>11. ASSUME NEW c \in Components, OnNotReady(c) \/ OnReady(c) \/ OnHiddenReport(c)
       PROVE  EarlyLife'
  <2>1. /\ pc' = pc /\ lastSeenState' = lastSeenState /\ handler' = handler
        /\ outbox[c] # << >> /\ outbox' = [outbox EXCEPT ![c] = Tail(@)]
    BY <1>11 DEF OnNotReady, OnReady, Record, OnHiddenReport, messengerVars
  <2>2. inbox' = inbox \/ \E m : Broadcast(m)
    BY <1>11 DEF OnNotReady, OnReady, OnHiddenReport, ReportSystemReady
  <2>3. \A d \in Components : pc[d] = "down" => inbox'[d] = << >>
    BY <2>2 DEF Broadcast
  <2>4. ASSUME pc[c] = "starting" PROVE Settled(outbox'[c])
    <3>1. outbox'[c] = Tail(outbox[c])
      BY <2>1
    <3> QED
      BY <3>1, <2>1, <2>4, <1>a, SettledTail
  <2> QED
    BY <2>1, <2>3, <2>4
<1>15. CASE SurveyComponents \/ AnnounceReady
  <2>1. UNCHANGED <<pc, lastSeenState, handler, outbox>>
    BY <1>15 DEF SurveyComponents, AnnounceReady, messengerVars
  <2>2. inbox' = inbox \/ \E m : Broadcast(m)
    BY <1>15 DEF SurveyComponents, AnnounceReady, ReportSystemReady
  <2>3. \A d \in Components : pc[d] = "down" => inbox'[d] = << >>
    BY <2>2 DEF Broadcast
  <2> QED
    BY <2>1, <2>3
<1>12. ASSUME NEW c \in Components, Crash(c) PROVE EarlyLife'
  BY <1>12 DEF Crash, messengerVars
<1>13. CASE UNCHANGED vars
  BY <1>13 DEF vars, messengerVars
<1>14. CASE PingComponents
  BY <1>10, <1>14 DEF PingComponents, messengerVars
<1> QED
  BY <1>1, <1>2, <1>3, <1>4, <1>5, <1>6, <1>7, <1>8, <1>9, <1>11, <1>12,
     <1>13, <1>14, <1>15 DEF Next, Thread, Handler, Manager, OnMessage

(* reportSystemReady settles the flag, and announces what is new. *)
LEMMA ReportCases ==
  ASSUME TypeOK, NEW ready \in BOOLEAN, ReportSystemReady(ready)
  PROVE  /\ lastReportSystemReady' = ready
         /\ \/ UNCHANGED <<inbox, lastReportSystemReady>>
            \/ Broadcast(Announcement(lastReportSystemReady'))
  BY DEF TypeOK, ReportSystemReady, Announcement

(* Taking a report of c: what it does to the reports and to the infos. *)
LEMMA RecordCases ==
  ASSUME TypeOK, NEW c \in Components, Record(c)
  PROVE  /\ outbox[c] # << >> /\ outbox[c] \in Seq(Reports) /\ c \notin Hidden
         /\ outbox'[c] = Tail(outbox[c]) /\ c \in known' /\ known \subseteq known'
         /\ infoState'[c] = "ready" <=> Head(outbox[c]) = "ready"
         /\ \A d \in Components \ {c} : /\ outbox'[d] = outbox[d]
                                        /\ infoState'[d] = infoState[d]
                                        /\ d \in known' <=> d \in known
  BY DEF TypeOK, Record, States

(* A start report that is not under way after a report of c was taken was   *)
(* that report, or was not under way before; then c was not found ready.    *)
LEMMA StartRecorded ==
  ASSUME Inv, NEW c \in Components, Record(c), pc[c] = "starting", pc'[c] = pc[c],
         ~StartUnderWay(c)'
  PROVE  infoState'[c] # "ready"
<1>1. /\ outbox[c] \in Seq(Reports) /\ outbox[c] # << >> /\ Settled(outbox[c])
      /\ outbox'[c] = Tail(outbox[c])
  BY RecordCases DEF Inv, EarlyLife
<1>2. ~HasStart(Tail(outbox[c]))
  BY <1>1 DEF StartUnderWay, HasStart
<1>3. Head(outbox[c]) \in {"starting", Empty}
  BY <1>1, <1>2, SettledTail
<1> QED
  BY <1>3, RecordCases DEF Inv, Empty

(* The manager does not count as ready what it knows to be starting. *)
LEMMA StartRespectedStep ==
  ASSUME Inv, [Next]_vars PROVE StartRespected'
<1> SUFFICES ASSUME NEW d \in Visible, pc'[d] = "starting", d \in known',
                    ~StartUnderWay(d)'
             PROVE  /\ infoState'[d] # "ready" /\ ~lastReportSystemReady'
                    /\ dispatch' # "announce"
  BY DEF StartRespected
<1> USE DEF Inv
<1>a. d \in Components /\ TypeOK /\ outbox[d] \in Seq(Reports)
  BY DEF Visible, TypeOK
<1>b. /\ infoState[d] = "ready" \/ lastReportSystemReady \/ dispatch = "announce"
         => pc[d] # "starting" \/ d \notin known \/ StartUnderWay(d)
  BY DEF StartRespected
<1>1. ASSUME pc[d] = "starting", UNCHANGED <<known, infoState, lastReportSystemReady, dispatch>>,
             outbox'[d] = outbox[d] \/ \E m \in Reports : outbox'[d] = Append(outbox[d], m)
      PROVE  /\ infoState'[d] # "ready" /\ ~lastReportSystemReady'
             /\ dispatch' # "announce"
  <2>1. ~HasStart(outbox'[d])
    BY <1>1 DEF StartUnderWay, HasStart
  <2>2. ~HasStart(outbox[d])
    BY <1>1, <1>a, <2>1, StartAppended
  <2>3. ~StartUnderWay(d)
    BY <1>1, <2>2 DEF StartUnderWay, HasStart
  <2> QED
    BY <1>1, <1>b, <2>3
<1>2. ASSUME NEW c \in Components, ReportStarting(c), c = d PROVE FALSE
  <2>1. CASE managerUp
    <3>1. outbox'[d] = Append(outbox[d], "starting") /\ "starting" \in Reports
      BY <1>2, <1>a, <2>1 DEF ReportStarting, ReportState, Send, TypeOK, Reports, States
    <3>2. HasStart(outbox'[d])
      BY <3>1, <1>a, StartAppended
    <3> QED
      BY <3>2 DEF StartUnderWay, HasStart
  <2>2. CASE ~managerUp
    BY <1>2, <2>2 DEF ManagerSilent, ReportStarting, managerVars, infoVars
  <2> QED
    BY <2>1, <2>2
<1>3. ASSUME NEW c \in Components,
             \/ Construct(c) \/ Thread(c) \/ Handler(c) \/ OnHiddenReport(c) \/ Crash(c)
      PROVE  /\ infoState'[d] # "ready" /\ ~lastReportSystemReady'
             /\ dispatch' # "announce"
  <2>1. UNCHANGED <<known, infoState, lastReportSystemReady, dispatch>>
    BY <1>3 DEF Construct, Thread, Handler, OnHiddenReport, Crash, ReportStarting,
         StartIODone, Fail, IamAlive, CheckSystemReady, OnSystemReady, OnPing,
         OnPingTooLate, MarkStalled, SendReply, managerVars, infoVars
  <2>2. CASE c # d
    <3>1. pc'[d] = pc[d] /\ outbox'[d] = outbox[d]
      BY <1>3, <1>a, <2>2
         DEF Construct, Thread, Handler, OnHiddenReport, Crash, ReportStarting,
             StartIODone, Fail, IamAlive, CheckSystemReady, OnSystemReady, OnPing,
             OnPingTooLate, MarkStalled, SendReply, ReportState, Send, TypeOK
    <3> QED
      BY <1>1, <2>1, <3>1
  <2>3. CASE c = d /\ (Construct(c) \/ Crash(c) \/ Thread(c))
    BY <1>2, <1>a, <2>3 DEF Construct, Crash, Thread, StartIODone, Fail, IamAlive,
         CheckSystemReady, TypeOK
  <2>4. CASE c = d /\ OnHiddenReport(c)
    BY <2>4 DEF OnHiddenReport, Visible
  <2>5. CASE c = d /\ Handler(c)
    <3>1. pc[d] = "starting"
      BY <1>a, <2>5 DEF Handler, OnSystemReady, OnPing, OnPingTooLate, MarkStalled,
           SendReply, TypeOK
    <3>2. outbox'[d] = outbox[d] \/ \E m \in Reports : outbox'[d] = Append(outbox[d], m)
      BY <1>a, <2>5 DEF Handler, OnSystemReady, OnPing, OnPingTooLate, MarkStalled,
           SendReply, Send, TypeOK
    <3> QED
      BY <1>1, <2>1, <3>1, <3>2
  <2> QED
    BY <1>3, <2>2, <2>3, <2>4, <2>5
<1>4. ASSUME NEW c \in Components, OnNotReady(c) \/ OnReady(c)
      PROVE  /\ infoState'[d] # "ready" /\ ~lastReportSystemReady'
             /\ dispatch' # "announce"
  <2>1. /\ Record(c) /\ pc' = pc /\ dispatch = "idle"
        /\ dispatch' \in {"idle", "survey"}
    BY <1>4 DEF OnNotReady, OnReady, Record
  <2>2. infoState'[d] # "ready"
    <3>1. CASE c = d
      BY <2>1, <3>1, StartRecorded
    <3>2. CASE c # d
      BY <1>a, <1>b, <2>1, <3>2, RecordCases DEF StartUnderWay
    <3> QED
      BY <3>1, <3>2
  <2>3. ~lastReportSystemReady'
    <3>1. CASE OnNotReady(c)
      BY <1>a, <3>1, ReportCases DEF OnNotReady
    <3>2. CASE OnReady(c)
      <4>1. c # d /\ lastReportSystemReady' = lastReportSystemReady
        BY <2>2, <3>2 DEF OnReady
      <4> QED
        BY <1>a, <1>b, <2>1, <4>1, RecordCases DEF StartUnderWay
    <3> QED
      BY <1>4, <3>1, <3>2
  <2> QED
    BY <2>1, <2>2, <2>3
<1>5. CASE SurveyComponents
  <2>1. UNCHANGED <<pc, outbox, known, infoState>>
    BY <1>5 DEF SurveyComponents, infoVars
  <2>2. infoState[d] # "ready" /\ d \in known
    BY <1>b, <2>1 DEF StartUnderWay
  <2>3. ReportSystemReady(FALSE) /\ dispatch' = "idle"
    BY <1>5, <2>2 DEF SurveyComponents
  <2> QED
    BY <1>a, <2>1, <2>2, <2>3, ReportCases
<1>6. CASE AnnounceReady
  BY <1>6, <1>b DEF AnnounceReady, StartUnderWay, infoVars
<1>7. ASSUME NEW late \in SUBSET Components, CheckComponentsAlive(late)
      PROVE  /\ infoState'[d] # "ready" /\ ~lastReportSystemReady'
             /\ dispatch' # "announce"
  BY <1>7, <1>a, <1>b DEF CheckComponentsAlive, StartUnderWay
<1>8. CASE StartManager \/ PingComponents \/ ReadFlag
  BY <1>8, <1>1 DEF StartManager, PingComponents, ReadFlag, infoVars
<1>9. CASE UNCHANGED vars
  BY <1>9, <1>1 DEF vars, managerVars, infoVars
<1> QED
  BY <1>3, <1>4, <1>5, <1>6, <1>7, <1>8, <1>9 DEF Next, Manager, OnMessage

(* A step that leaves c's readiness and the announcements alone. *)
LEMMA KeptAgreement ==
  ASSUME NEW c \in Components, AgreementOf(c), pc'[c] # "down" => pc[c] # "down",
         inbox'[c] = inbox[c], systemReady'[c] = systemReady[c],
         lastReportSystemReady' = lastReportSystemReady,
         StartUnderWay(c) => StartUnderWay(c)'
  PROVE  AgreementOf(c)'
  BY DEF AgreementOf, Believes, WillBelieve

(* Every step keeps the agreement of components and manager. *)
LEMMA AgreementStep ==
  ASSUME Inv, [Next]_vars PROVE Agreement'
<1> USE DEF Inv
<1> SUFFICES ASSUME NEW d \in Visible PROVE AgreementOf(d)'
  BY DEF Agreement, AgreementOf
<1>a. d \in Components /\ AgreementOf(d)
  BY DEF Visible, Agreement, AgreementOf
<1>b. /\ inbox[d] \in Seq(InMessages) /\ outbox[d] \in Seq(Reports)
      /\ systemReady[d] \in BOOLEAN /\ lastReportSystemReady \in BOOLEAN
  BY <1>a DEF TypeOK
<1>1. ASSUME NEW c \in Components, Construct(c) PROVE AgreementOf(d)'
  <2>1. CASE c = d
    <3>1. /\ inbox'[d] = << >> /\ systemReady'[d] = FALSE /\ pc'[d] = "built"
      BY <1>1, <1>a, <2>1 DEF Construct, EarlyLife, TypeOK
    <3>2. WillBelieve(<< >>, FALSE, FALSE)
      <4>1. 1..Len(<< >>) = {}
        OBVIOUS
      <4> QED
        BY <4>1 DEF WillBelieve
    <3> QED
      BY <3>1, <3>2, Zenon DEF AgreementOf, Believes, StartUnderWay
  <2>2. CASE c # d
    <3>1. /\ pc'[d] = pc[d] /\ inbox'[d] = inbox[d] /\ outbox'[d] = outbox[d]
          /\ systemReady'[d] = systemReady[d]
          /\ lastReportSystemReady' = lastReportSystemReady
      BY <1>1, <1>a, <2>2 DEF Construct, TypeOK, managerVars
    <3> QED
      BY <1>a, <3>1, KeptAgreement DEF StartUnderWay
  <2> QED
    BY <2>1, <2>2
<1>2. ASSUME NEW c \in Components, NEW m \in Reports, Send(c, m),
             UNCHANGED <<systemReady, inbox, lastReportSystemReady>>,
             \A e \in Components \ {c} : pc'[e] = pc[e],
             pc[c] # "down", pc'[c] = pc[c] \/ pc[c] # "built" \/ m = "starting"
      PROVE  AgreementOf(d)'
  <2>1. CASE c # d
    <3>1. outbox'[d] = outbox[d] /\ pc'[d] = pc[d]
      BY <1>2, <1>a, <2>1 DEF Send, TypeOK
    <3> QED
      BY <1>2, <1>a, <3>1, KeptAgreement DEF StartUnderWay
  <2>2. CASE c = d /\ managerUp
    <3>1. outbox'[d] = Append(outbox[d], m)
      BY <1>2, <1>a, <2>2 DEF Send, TypeOK
    <3>2. StartUnderWay(d) => StartUnderWay(d)'
      BY <1>2, <1>b, <2>2, <3>1, StartAppended DEF StartUnderWay, HasStart
    <3> QED
      BY <1>2, <1>a, <2>2, <3>2, KeptAgreement
  <2>3. CASE c = d /\ ~managerUp
    <3>1. Believes(d, FALSE) /\ ~lastReportSystemReady
      BY <1>2, <1>a, <1>b, <2>3 DEF ManagerSilent, AgreementOf
    <3>2. (Believes(d, FALSE))' /\ lastReportSystemReady' = FALSE
      BY <1>2, <1>b, <3>1 DEF Believes, WillBelieve
    <3> QED
      BY <3>2 DEF AgreementOf
  <2> QED
    BY <2>1, <2>2, <2>3
<1>3. ASSUME NEW c \in Components,
             ReportStarting(c) \/ StartIODone(c) \/ Fail(c) \/ SendReply(c)
      PROVE  AgreementOf(d)'
  <2>1. CASE ReportStarting(c)
    BY <1>2, <2>1 DEF ReportStarting, ReportState, managerVars, TypeOK, States, Reports
  <2>2. CASE StartIODone(c)
    BY <1>2, <2>2 DEF StartIODone, ReportState, managerVars, TypeOK, States, Reports
  <2>3. CASE Fail(c)
    BY <1>2, <2>3 DEF Fail, ReportState, managerVars, TypeOK, States, Reports
  <2>4. CASE SendReply(c)
    <3>1. /\ handler[c] \in Reports /\ Send(c, handler[c]) /\ pc' = pc
          /\ UNCHANGED <<systemReady, inbox, lastReportSystemReady>>
      BY <2>4 DEF SendReply, messengerVars, managerVars
    <3>2. pc[c] # "down"
      BY <3>1 DEF EarlyLife, Reports, States, Empty
    <3> QED
      BY <1>2, <3>1, <3>2
  <2> QED
    BY <1>3, <2>1, <2>2, <2>3, <2>4
<1>4. ASSUME NEW c \in Components,
             IamAlive(c) \/ CheckSystemReady(c) \/ MarkStalled(c)
      PROVE  AgreementOf(d)'
  <2>1. /\ UNCHANGED <<systemReady, inbox, outbox, lastReportSystemReady>>
        /\ pc[d] # "built" => pc[d] # "down" \/ pc'[d] = pc[d]
        /\ pc[d] = "built" => pc'[d] = "built"
    BY <1>4, <1>a DEF IamAlive, CheckSystemReady, MarkStalled, messengerVars,
                      managerVars, TypeOK
  <2> QED
    BY <1>a, <2>1, KeptAgreement DEF StartUnderWay
<1>5. ASSUME NEW c \in Components, NEW b \in BOOLEAN, OnSystemReady(c, b)
      PROVE  AgreementOf(d)'
  <2>1. CASE c # d
    <3>1. /\ pc'[d] = pc[d] /\ inbox'[d] = inbox[d] /\ outbox'[d] = outbox[d]
          /\ systemReady'[d] = systemReady[d]
          /\ lastReportSystemReady' = lastReportSystemReady
      BY <1>5, <1>a, <2>1 DEF OnSystemReady, TakeIn, TypeOK, managerVars
    <3> QED
      BY <1>a, <3>1, KeptAgreement DEF StartUnderWay
  <2>2. CASE c = d
    <3>1. /\ inbox[d] # << >> /\ Head(inbox[d]) = Announcement(b)
          /\ inbox'[d] = Tail(inbox[d]) /\ systemReady'[d] = b
          /\ outbox' = outbox /\ lastReportSystemReady' = lastReportSystemReady
          /\ pc[d] # "down" /\ (pc[d] = "built" => pc'[d] = "built")
      BY <1>5, <1>a, <2>2
         DEF OnSystemReady, HeadIn, TakeIn, Announcement, TypeOK, managerVars
    <3>2. \A r \in BOOLEAN : Believes(d, r) => (Believes(d, r))'
      <4> TAKE r \in BOOLEAN
      <4>1. ASSUME Believes(d, r) PROVE WillBelieve(Tail(inbox[d]), b, r)
        BY <1>b, <3>1, <4>1, BelieveTailAnnouncement DEF Believes
      <4> QED
        BY <4>1, <3>1 DEF Believes
    <3>3. StartUnderWay(d) => StartUnderWay(d)'
      BY <3>1 DEF StartUnderWay
    <3> QED
      BY <1>a, <1>b, <3>1, <3>2, <3>3 DEF AgreementOf
  <2> QED
    BY <2>1, <2>2
<1>6. ASSUME NEW c \in Components, OnPing(c) \/ OnPingTooLate(c)
      PROVE  AgreementOf(d)'
  <2>1. /\ UNCHANGED <<pc, systemReady, outbox, lastReportSystemReady>>
        /\ inbox[c] # << >> /\ Head(inbox[c]) = "ping" /\ TakeIn(c)
    BY <1>6 DEF OnPing, OnPingTooLate, HeadIn, messengerVars, managerVars
  <2>2. CASE c # d
    <3>1. inbox'[d] = inbox[d]
      BY <1>a, <2>1, <2>2 DEF TakeIn, TypeOK
    <3> QED
      BY <1>a, <2>1, <3>1, KeptAgreement DEF StartUnderWay
  <2>3. CASE c = d
    <3>1. inbox'[d] = Tail(inbox[d])
      BY <1>a, <2>1, <2>3 DEF TakeIn, TypeOK
    <3>2. \A r : Believes(d, r) => (Believes(d, r))'
      BY <1>b, <2>1, <2>3, <3>1, BelieveTailPing DEF Believes
    <3>3. StartUnderWay(d) => StartUnderWay(d)'
      BY <2>1 DEF StartUnderWay
    <3> QED
      BY <1>a, <2>1, <3>2, <3>3 DEF AgreementOf
  <2> QED
    BY <2>2, <2>3
<1>7. CASE PingComponents
  <2>1. /\ UNCHANGED <<pc, systemReady, outbox, lastReportSystemReady>>
        /\ Broadcast("ping")
    BY <1>7 DEF PingComponents, messengerVars
  <2>2. pc[d] # "down" => inbox'[d] = Append(inbox[d], "ping")
    BY <1>a, <2>1 DEF Broadcast
  <2>3. ASSUME pc[d] # "down", NEW r, Believes(d, r) PROVE (Believes(d, r))'
    BY <1>b, <2>1, <2>2, <2>3, BelieveAfterPing DEF Believes
  <2>4. StartUnderWay(d) => StartUnderWay(d)'
    BY <2>1 DEF StartUnderWay
  <2> QED
    BY <1>a, <2>1, <2>3, <2>4 DEF AgreementOf
<1>8. CASE StartManager \/ ReadFlag \/ \E late \in SUBSET Components : CheckComponentsAlive(late)
  <2>1. UNCHANGED <<pc, systemReady, inbox, outbox, lastReportSystemReady>>
    BY <1>8 DEF StartManager, ReadFlag, CheckComponentsAlive, messengerVars
  <2> QED
    BY <1>a, <2>1, KeptAgreement DEF StartUnderWay
<1>c. ASSUME Broadcast(Announcement(lastReportSystemReady')),
             lastReportSystemReady' \in BOOLEAN, pc' = pc, systemReady' = systemReady
      PROVE  AgreementOf(d)'
  <2>1. pc[d] # "down" => inbox'[d] = Append(inbox[d], Announcement(lastReportSystemReady'))
    BY <1>a, <1>c DEF Broadcast
  <2>2. pc[d] # "down" => (Believes(d, lastReportSystemReady))'
    BY <1>b, <1>c, <2>1, BelieveAfterAnnouncement DEF Believes
  <2> QED
    BY <1>c, <2>2 DEF AgreementOf
<1>d. ASSUME lastReportSystemReady = FALSE, UNCHANGED <<pc, systemReady, inbox, lastReportSystemReady>>
      PROVE  AgreementOf(d)'
  <2>1. pc[d] # "down" => Believes(d, FALSE)
    BY <1>a, <1>d DEF AgreementOf
  <2> QED
    BY <1>d, <2>1 DEF AgreementOf, Believes, WillBelieve
<1>9. ASSUME NEW c \in Components, OnNotReady(c) PROVE AgreementOf(d)'
  <2>1. pc' = pc /\ systemReady' = systemReady /\ ReportSystemReady(FALSE)
    BY <1>9 DEF OnNotReady, messengerVars
  <2> QED
    BY <1>c, <1>d, <2>1, ReportCases
<1>13. ASSUME NEW c \in Components, OnReady(c) PROVE AgreementOf(d)'
  <2>1. /\ UNCHANGED <<pc, systemReady, inbox, lastReportSystemReady>>
        /\ Record(c) /\ infoState'[c] = "ready"
    BY <1>13 DEF OnReady, messengerVars
  <2>2. StartUnderWay(d) => StartUnderWay(d)'
    <3>1. CASE c = d
      <4>1. Head(outbox[d]) = "ready" /\ outbox'[d] = Tail(outbox[d]) /\ outbox[d] # << >>
        BY <2>1, <3>1, RecordCases
      <4>2. HasStart(outbox[d]) => HasStart(Tail(outbox[d]))
        BY <1>b, <4>1, StartBehind
      <4> QED
        BY <2>1, <4>1, <4>2 DEF StartUnderWay, HasStart
    <3>2. CASE c # d
      BY <1>a, <2>1, <3>2, RecordCases DEF StartUnderWay
    <3> QED
      BY <3>1, <3>2
  <2> QED
    BY <1>a, <2>1, <2>2, KeptAgreement
<1>14. CASE SurveyComponents \/ AnnounceReady
  <2>1. UNCHANGED <<pc, systemReady, outbox>>
    BY <1>14 DEF SurveyComponents, AnnounceReady, messengerVars
  <2>2. \/ UNCHANGED <<inbox, lastReportSystemReady>>
        \/ \E ready \in BOOLEAN : ReportSystemReady(ready)
    BY <1>14 DEF SurveyComponents, AnnounceReady
  <2>3. \/ UNCHANGED <<inbox, lastReportSystemReady>>
        \/ /\ Broadcast(Announcement(lastReportSystemReady'))
           /\ lastReportSystemReady' \in BOOLEAN
    BY <2>2, ReportCases
  <2>4. CASE UNCHANGED <<inbox, lastReportSystemReady>>
    BY <1>a, <2>1, <2>4, KeptAgreement DEF StartUnderWay
  <2> QED
    BY <1>c, <2>1, <2>3, <2>4
<1>10. ASSUME NEW c \in Components, OnHiddenReport(c) PROVE AgreementOf(d)'
  <2>1. /\ UNCHANGED <<pc, systemReady, inbox, lastReportSystemReady>>
        /\ outbox'[d] = outbox[d]
    BY <1>10, <1>a DEF OnHiddenReport, Visible, TypeOK, messengerVars, managerVars
  <2> QED
    BY <1>a, <2>1, KeptAgreement DEF StartUnderWay
<1>11. ASSUME NEW c \in Components, Crash(c) PROVE AgreementOf(d)'
  <2>1. CASE c = d
    BY <1>11, <1>a, <2>1 DEF Crash, TypeOK, AgreementOf
  <2>2. CASE c # d
    <3>1. /\ pc'[d] = pc[d] /\ inbox'[d] = inbox[d] /\ outbox'[d] = outbox[d]
          /\ systemReady'[d] = systemReady[d]
          /\ lastReportSystemReady' = lastReportSystemReady
      BY <1>11, <1>a, <2>2 DEF Crash, TypeOK, messengerVars, managerVars
    <3> QED
      BY <1>a, <3>1, KeptAgreement DEF StartUnderWay
  <2> QED
    BY <2>1, <2>2
<1>12. CASE UNCHANGED vars
  <2>1. UNCHANGED <<pc, systemReady, inbox, outbox, lastReportSystemReady>>
    BY <1>12 DEF vars, messengerVars, managerVars
  <2> QED
    BY <1>a, <2>1, KeptAgreement DEF StartUnderWay
<1> QED
  BY <1>1, <1>3, <1>4, <1>5, <1>6, <1>7, <1>8, <1>9, <1>10, <1>11, <1>12,
     <1>13, <1>14 DEF Next, Thread, Handler, Manager, OnMessage

------------------------------------------------------------------------------
(* The inductive invariant of the life-cycle protocol (MetaMessenger,      *)
(* SystemManager) always holds.                                            *)
THEOREM InvInvariant == Spec => []Inv
<1>1. Inv /\ [Next]_vars => Inv'
  BY NextTypeOK, SilentStep, EarlyStep, StartRespectedStep, AgreementStep DEF Inv
<1> QED
  BY <1>1, InitInv, PTL DEF Spec

(* Manager and components agree on the readiness of the system, up to the   *)
(* messages under way, whatever crashes and restarts.                       *)
THEOREM ReadinessAgreement == Spec => []Agreement
<1>1. Inv => Agreement
  BY DEF Inv
<1> QED
  BY <1>1, InvInvariant, PTL

(* The manager never announces a ready system while a component whose start *)
(* it has heard of is still starting.                                       *)
THEOREM StartsAreRespected == Spec => []NoReadyWhileStarting
<1>1. Inv => NoReadyWhileStarting
  <2> SUFFICES ASSUME Inv, NEW c \in Visible, lastReportSystemReady,
                      pc[c] = "starting", c \in known
               PROVE  StartUnderWay(c)
    BY DEF NoReadyWhileStarting
  <2> QED
    BY DEF Inv, StartRespected
<1> QED
  BY <1>1, InvInvariant, PTL

------------------------------------------------------------------------------
(* Outages.                                                                 *)

(* c is not looked at by a step that leaves its side and what the manager   *)
(* knows of it alone.                                                       *)
LEMMA OutageKept ==
  ASSUME NEW c \in Components, OutOfService(c),
         pc'[c] = pc[c], lastSeenState'[c] = lastSeenState[c],
         handler'[c] = handler[c], outbox'[c] = outbox[c],
         c \in known', infoState'[c] # "ready", ~lastReportSystemReady',
         dispatch' # "announce"
  PROVE  OutOfService(c)'
  BY DEF OutOfService

(* A report other than "ready" in the outbox of c. *)
LEMMA OutageReported ==
  ASSUME TypeOK, NEW c \in Components, OutOfService(c), NEW m \in Reports,
         m # "ready", Send(c, m)
  PROVE  \A i \in 1..Len(outbox'[c]) : outbox'[c][i] # "ready"
<1>1. outbox[c] \in Seq(Reports)
  BY DEF TypeOK
<1>2. CASE outbox' = outbox
  BY <1>2 DEF OutOfService
<1>3. CASE outbox' = [outbox EXCEPT ![c] = Append(@, m)]
  <2>1. outbox'[c] = Append(outbox[c], m)
    BY <1>3 DEF TypeOK
  <2> QED
    BY <1>1, <2>1, AppendPlaces DEF OutOfService
<1> QED
  BY <1>2, <1>3 DEF Send

(* What a step of another component does to c. *)
LEMMA OtherComponentStep ==
  ASSUME TypeOK, NEW c \in Components, NEW d \in Components, d # c,
         Construct(d) \/ Thread(d) \/ Handler(d) \/ OnHiddenReport(d) \/ Crash(d)
  PROVE  /\ pc'[c] = pc[c] /\ lastSeenState'[c] = lastSeenState[c]
         /\ handler'[c] = handler[c] /\ outbox'[c] = outbox[c]
         /\ UNCHANGED <<known, infoState, lastReportSystemReady, dispatch>>
<1> USE DEF TypeOK, messengerVars, managerVars, infoVars
<1>1. CASE Construct(d) \/ Crash(d) \/ OnHiddenReport(d)
  BY <1>1 DEF Construct, Crash, OnHiddenReport
<1>2. CASE Thread(d)
  BY <1>2 DEF Thread, ReportStarting, StartIODone, Fail, IamAlive,
       CheckSystemReady, ReportState, Send
<1>3. CASE Handler(d)
  BY <1>3 DEF Handler, OnSystemReady, OnPing, OnPingTooLate, MarkStalled,
       SendReply, Send
<1> QED
  BY <1>1, <1>2, <1>3

(* Every step leaves c out of service, unless c is started again. *)
LEMMA OutageStep ==
  ASSUME Inv, [Next]_vars, NEW c \in Visible, OutOfService(c)
  PROVE  OutOfService(c)' \/ pc'[c] = "built"
<1>a. TypeOK /\ c \in Components /\ c \notin Hidden
  BY DEF Inv, Visible
<1>b. /\ c \in known /\ infoState[c] # "ready" /\ ~lastReportSystemReady
      /\ dispatch # "announce"
  BY DEF OutOfService
<1>c. \/ pc[c] = "down" /\ handler[c] = "idle"
      \/ pc[c] = "failed" /\ lastSeenState[c] # "ready" /\ handler[c] # "ready"
  BY <1>a DEF OutOfService, Inv, EarlyLife
<1>1. ASSUME NEW d \in Components, d # c,
             Construct(d) \/ Thread(d) \/ Handler(d) \/ OnHiddenReport(d) \/ Crash(d)
      PROVE  OutOfService(c)'
  BY <1>1, <1>a, <1>b, OtherComponentStep, OutageKept
<1>2. CASE Construct(c)
  BY <1>2, <1>a DEF Construct, TypeOK
<1>3. CASE Thread(c)
  BY <1>3, <1>c DEF Thread, ReportStarting, StartIODone, Fail, IamAlive,
       CheckSystemReady
<1>4. CASE \E ready \in BOOLEAN : OnSystemReady(c, ready)
  BY <1>4, <1>a, <1>b, <1>c, OutageKept
     DEF OnSystemReady, HeadIn, TypeOK, managerVars, infoVars
<1>5. CASE OnPing(c)
  BY <1>5, <1>a, <1>c DEF OnPing, NoState, Empty, HeadIn, OutOfService, TypeOK, messengerVars,
       managerVars, infoVars
<1>6. CASE OnPingTooLate(c)
  BY <1>6, <1>c DEF OnPingTooLate, HeadIn
<1>7. CASE MarkStalled(c)
  BY <1>7, <1>a, <1>c DEF MarkStalled, OutOfService, TypeOK, managerVars, infoVars
<1>8. CASE SendReply(c)
  <2>1. pc[c] = "failed" /\ lastSeenState[c] # "ready"
    BY <1>8, <1>c DEF SendReply, Reports, States, Empty
  <2>2. handler[c] \in Reports /\ handler[c] # "ready" /\ Send(c, handler[c])
    BY <1>8, <1>c DEF SendReply
  <2>3. \A i \in 1..Len(outbox'[c]) : outbox'[c][i] # "ready"
    BY <1>a, <2>2, OutageReported
  <2>4. /\ UNCHANGED <<pc, lastSeenState, known, infoState, lastReportSystemReady, dispatch>>
        /\ handler'[c] = "idle"
    BY <1>8, <1>a DEF SendReply, TypeOK, messengerVars, managerVars, infoVars
  <2> QED
    BY <1>b, <2>1, <2>3, <2>4 DEF OutOfService
<1>9. ASSUME NEW d \in Components, OnNotReady(d) \/ OnReady(d) PROVE OutOfService(c)'
  <2>1. /\ Record(d) /\ outbox[d] # << >> /\ outbox[d] \in Seq(Reports)
        /\ outbox'[d] = Tail(outbox[d]) /\ c \in known'
    BY <1>9, <1>a, <1>b, RecordCases DEF OnNotReady, OnReady
  <2>2. /\ infoState'[c] # "ready"
        /\ \A i \in 1..Len(outbox'[c]) : outbox'[c][i] # "ready"
    <3>1. CASE d = c
      <4>1. Head(outbox[c]) # "ready"
        BY <2>1, <3>1, TailPlaces DEF OutOfService
      <4>2. \A i \in 1..Len(outbox'[c]) : outbox'[c][i] # "ready"
        <5> DEFINE q == outbox[c]
                   n == Len(q)
        <5>1. /\ n \in Nat \ {0} /\ Len(Tail(q)) = n - 1
              /\ \A i \in 1..(n - 1) : Tail(q)[i] = q[i + 1] /\ i + 1 \in 1..n
          BY <2>1, <3>1, TailPlaces
        <5>2. outbox'[c] = Tail(q) /\ \A i \in 1..n : q[i] # "ready"
          BY <2>1, <3>1 DEF OutOfService
        <5> QED
          BY <5>1, <5>2
      <4> QED
        BY <1>a, <2>1, <3>1, <4>1, <4>2, RecordCases
    <3>2. CASE d # c
      BY <1>a, <1>b, <2>1, <3>2, RecordCases DEF OutOfService
    <3> QED
      BY <3>1, <3>2
  <2>3. ~lastReportSystemReady' /\ dispatch' # "announce"
    <3>1. CASE OnNotReady(d)
      BY <3>1, <1>a, <1>b, ReportCases DEF OnNotReady
    <3>2. CASE OnReady(d)
      BY <3>2, <1>b DEF OnReady
    <3> QED
      BY <1>9, <3>1, <3>2
  <2>4. UNCHANGED <<pc, lastSeenState, handler>>
    BY <1>9 DEF OnNotReady, OnReady, messengerVars
  <2> QED
    BY <1>c, <2>1, <2>2, <2>3, <2>4 DEF OutOfService
<1>15. CASE SurveyComponents \/ AnnounceReady
  <2>1. SurveyComponents
    BY <1>15, <1>b DEF AnnounceReady
  <2>2. ReportSystemReady(FALSE) /\ dispatch' = "idle"
    BY <1>b, <2>1 DEF SurveyComponents
  <2>3. UNCHANGED <<pc, lastSeenState, handler, outbox, known, infoState>>
    BY <2>1 DEF SurveyComponents, messengerVars, infoVars
  <2> QED
    BY <1>a, <1>b, <2>2, <2>3, ReportCases, OutageKept
<1>10. CASE OnHiddenReport(c)
  BY <1>10, <1>a DEF OnHiddenReport
<1>11. CASE Crash(c)
  <2>1. pc'[c] = "down"
    BY <1>11, <1>a DEF Crash, TypeOK
  <2>2. UNCHANGED <<outbox, known, infoState, lastReportSystemReady, dispatch>>
    BY <1>11 DEF Crash, managerVars, infoVars
  <2> QED
    BY <2>1, <2>2 DEF OutOfService
<1>12. CASE StartManager \/ PingComponents \/ ReadFlag
  BY <1>12, <1>b, <1>a, OutageKept DEF StartManager, PingComponents, ReadFlag,
       messengerVars, infoVars
<1>13. ASSUME NEW late \in SUBSET Components, CheckComponentsAlive(late)
       PROVE  OutOfService(c)'
  <2>1. infoState'[c] # "ready"
    BY <1>13, <1>a, <1>b DEF CheckComponentsAlive
  <2> QED
    BY <1>13, <1>a, <1>b, <2>1, OutageKept DEF CheckComponentsAlive, messengerVars
<1>14. CASE UNCHANGED vars
  BY <1>14, <1>a, <1>b, OutageKept DEF vars, messengerVars, managerVars, infoVars
<1> QED
  BY <1>1, <1>2, <1>3, <1>4, <1>5, <1>6, <1>7, <1>8, <1>9, <1>10, <1>11, <1>12,
     <1>13, <1>14, <1>15 DEF Next, Handler, Manager, OnMessage

(* Once the failure or the death of a component has come through to the     *)
(* manager, it stays so, and the system is not announced as ready, until    *)
(* that component is started again: late replies of the messengers and the  *)
(* manager's own checks cannot revoke it.                                   *)
THEOREM OutagesLast == Spec => OutageLasts
<1> DEFINE Lasts == \A c \in Visible :
                      OutOfService(c) => OutOfService(c)' \/ pc'[c] = "built"
<1>1. Inv /\ [Next]_vars => Lasts
  BY OutageStep
<1>2. Inv /\ [Next]_vars => [Lasts]_vars
  BY <1>1
<1> QED
  BY <1>2, InvInvariant, PTL DEF Spec, OutageLasts
==============================================================================
