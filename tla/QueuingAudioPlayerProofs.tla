---------------------- MODULE QueuingAudioPlayerProofs ----------------------
(***************************************************************************)
(* Proofs about QueuingAudioPlayer, for any set of content IDs, any set of *)
(* kinds of data, any faults and any number of messages.                   *)
(***************************************************************************)
EXTENDS QueuingAudioPlayer, SequenceTheorems, TLAPS

USE IdsAssumption, KindsAssumption, FaultsAssumption, MaxMessagesAssumption

Distinct(q) == \A i, j \in 1 .. Len(q) : q[i] = q[j] => i = j
Elements(q) == {q[i] : i \in 1 .. Len(q)}

(* What an append does to the elements of a queue of different elements. *)
LEMMA AppendElements ==
  ASSUME NEW S, NEW q \in Seq(S), NEW e \in S
  PROVE  /\ Append(q, e) \in Seq(S)
         /\ Elements(Append(q, e)) = Elements(q) \cup {e}
         /\ (Distinct(q) /\ e \notin Elements(q)) => Distinct(Append(q, e))
<1> DEFINE n == Len(q)
           r == Append(q, e)
<1>1. n \in Nat /\ r \in Seq(S) /\ Len(r) = n + 1
  OBVIOUS
<1>2. \A i \in 1 .. n : r[i] = q[i]
  OBVIOUS
<1>3. r[n + 1] = e
  OBVIOUS
<1> HIDE DEF n, r
<1>4. Elements(r) = {q[i] : i \in 1 .. n} \cup {e}
  BY <1>1, <1>2, <1>3 DEF Elements
<1>5. (Distinct(q) /\ e \notin Elements(q)) => Distinct(r)
  <2> SUFFICES ASSUME Distinct(q), e \notin Elements(q),
                      NEW i \in 1 .. n + 1, NEW j \in 1 .. n + 1, r[i] = r[j]
               PROVE  i = j
    BY <1>1 DEF Distinct
  <2>1. \A k \in 1 .. n : q[k] # e
    BY DEF Elements, n
  <2>2. CASE i = n + 1 \/ j = n + 1
    BY <2>1, <2>2, <1>1, <1>2, <1>3
  <2>3. CASE i \in 1 .. n /\ j \in 1 .. n
    BY <2>3, <1>2 DEF Distinct, n
  <2> QED BY <2>2, <2>3, <1>1
<1> QED BY <1>1, <1>4, <1>5 DEF n, r, Elements

(* What taking the head off does to them. *)
LEMMA TailElements ==
  ASSUME NEW S, NEW q \in Seq(S), q # << >>
  PROVE  /\ Tail(q) \in Seq(S)
         /\ Head(q) \in Elements(q) /\ Head(q) \in S
         /\ Elements(Tail(q)) \subseteq Elements(q)
         /\ Distinct(q) => Distinct(Tail(q)) /\ Head(q) \notin Elements(Tail(q))
<1> DEFINE n == Len(q)
           t == Tail(q)
<1>1. n \in Nat /\ n # 0 /\ t \in Seq(S) /\ Len(t) = n - 1
  OBVIOUS
<1>2. \A i \in 1 .. n - 1 : t[i] = q[i + 1]
  OBVIOUS
<1>3. Head(q) = q[1] /\ Head(q) \in S
  OBVIOUS
<1> HIDE DEF n, t
<1>4. Head(q) \in Elements(q)
  BY <1>1, <1>3 DEF Elements, n
<1>5. Elements(t) \subseteq Elements(q)
  <2> SUFFICES ASSUME NEW i \in 1 .. n - 1 PROVE t[i] \in Elements(q)
    BY <1>1 DEF Elements
  <2>1. i + 1 \in 1 .. n
    BY <1>1
  <2> QED BY <2>1, <1>2 DEF Elements, n
<1>6. ASSUME Distinct(q) PROVE Distinct(t)
  <2> SUFFICES ASSUME NEW i \in 1 .. n - 1, NEW j \in 1 .. n - 1, t[i] = t[j]
               PROVE  i = j
    BY <1>1 DEF Distinct
  <2>1. i + 1 \in 1 .. n /\ j + 1 \in 1 .. n /\ q[i + 1] = q[j + 1]
    BY <1>1, <1>2
  <2>2. i + 1 = j + 1
    BY <2>1, <1>6 DEF Distinct, n
  <2> QED BY <2>2
<1>7. ASSUME Distinct(q) PROVE Head(q) \notin Elements(t)
  <2> SUFFICES ASSUME NEW i \in 1 .. n - 1, t[i] = q[1] PROVE FALSE
    BY <1>1, <1>3 DEF Elements
  <2>1. i + 1 \in 1 .. n /\ 1 \in 1 .. n /\ q[i + 1] = q[1]
    BY <1>1, <1>2
  <2>2. i + 1 = 1
    BY <2>1, <1>7 DEF Distinct, n
  <2> QED BY <2>2
<1> QED BY <1>1, <1>3, <1>4, <1>5, <1>6, <1>7 DEF t

------------------------------------------------------------------------------
(* The inductive invariant.                                                 *)

(* An animation is at one place, and what was announced about it follows   *)
(* from the place; what it needs is everything or what dataInfo said.      *)
OnePlace(id) ==
    /\ needs[id] \in {Kinds, info[id]}
    /\ "audio" \in data[id] => id \in typed
    /\ ~Known(id) => callbacks[id] = << >> /\ id \notin available
                     /\ id \notin Handed
    /\ id \in available =>
           /\ id \notin Handed
           /\ \/ animationStates[id] = "CREATED" /\ callbacks[id] = << >>
              \/ animationStates[id] = "READY" /\ callbacks[id] = <<"ready">>
                 /\ IsReady(id)
    /\ id \in Handed => id \in commanded /\ IsReady(id)
    /\ id \in Queued => callbacks[id] = <<"ready">>

PlayerInv ==
    /\ playloop \in {"open", "announce"} => callbacks[playing] = <<"ready">>
    /\ playloop = "join" => callbacks[playing] = <<"ready", "start">>
    /\ playloop # "poll" => playing \notin Queued
    /\ Distinct(playerQueue)

ReactorInv ==
    reactor = "enqueue" /\ IsReady(reacting) => animationStates[reacting] = "READY"

SoundInv ==
    \A id \in sounding :
        \/ <<"start", id>> \in unsent
        \/ playloop \in {"announce", "join"} /\ id = playing

Inv ==
    /\ TypeOK
    /\ \A id \in Ids : OnePlace(id)
    /\ PlayerInv
    /\ ReactorInv
    /\ SoundInv

(* The callbacks of an animation grow from one stage to the next. *)
LEMMA NextCallback ==
    /\ Append(<<"ready">>, "start") = <<"ready", "start">>
    /\ Append(<<"ready", "start">>, "end") = <<"ready", "start", "end">>
<1> DEFINE T == {"ready", "start", "end"}
           two == <<"ready", "start">>
           three == <<"ready", "start", "end">>
<1>1. Append(<<"ready">>, "start") = two
  <2>1. Append(<<"ready">>, "start") \in Seq(T) /\ two \in Seq(T)
    OBVIOUS
  <2>2. Len(Append(<<"ready">>, "start")) = 2 /\ Len(two) = 2
    OBVIOUS
  <2>3. \A i \in 1 .. 2 : Append(<<"ready">>, "start")[i] = two[i]
    OBVIOUS
  <2> QED BY <2>1, <2>2, <2>3, SeqEqual
<1>2. Append(two, "end") = three
  <2>1. Append(two, "end") \in Seq(T) /\ three \in Seq(T)
    OBVIOUS
  <2>2. Len(Append(two, "end")) = 3 /\ Len(three) = 3
    OBVIOUS
  <2>3. \A i \in 1 .. 3 : Append(two, "end")[i] = three[i]
    OBVIOUS
  <2> QED BY <2>1, <2>2, <2>3, SeqEqual
<1> QED BY <1>1, <1>2

------------------------------------------------------------------------------
(* The invariant holds initially. *)
LEMMA InitInv == Init => Inv
<1> SUFFICES ASSUME Init PROVE Inv
  OBVIOUS
<1> USE DEF Init
<1>1. TypeOK
  <2>1. /\ info \in [Ids -> SUBSET Kinds]
        /\ received \in [Ids -> 0 .. MaxMessages]
        /\ data \in [Ids -> SUBSET Kinds]
        /\ needs \in [Ids -> SUBSET Kinds]
    OBVIOUS
  <2>2. animationStates \in [Ids -> AnimationStates \cup {"unknown"}]
    OBVIOUS
  <2>3. callbacks \in [Ids -> Seq({"ready", "start", "end"})]
    OBVIOUS
  <2>4. unsent \subseteq {"ready", "start", "end"} \X Ids
    OBVIOUS
  <2>5. playerQueue \in Seq(Ids)
    OBVIOUS
  <2> QED BY <2>1, <2>2, <2>3, <2>4, <2>5 DEF TypeOK
<1>2. Queued = {} /\ Handed = {}
  BY DEF Queued, Handed
<1>3. \A id \in Ids : OnePlace(id)
  BY <1>2 DEF OnePlace, Known
<1>4. PlayerInv
  BY DEF PlayerInv, Distinct
<1>5. ReactorInv /\ SoundInv
  BY DEF ReactorInv, SoundInv
<1> QED BY <1>1, <1>3, <1>4, <1>5 DEF Inv

(* Every step keeps the types. *)
LEMMA NextTypeOK ==
  ASSUME TypeOK, [Next]_vars PROVE TypeOK'
<1> USE DEF TypeOK
<1>1. ASSUME NEW id \in Ids, Discard(id) PROVE TypeOK'
  BY <1>1 DEF Discard, NextMessage, player
<1>2. ASSUME NEW id \in Ids, SoundEnds(id) PROVE TypeOK'
  BY <1>2 DEF SoundEnds, assembly
<1>3. ASSUME NEW id \in Ids, NEW m \in Messages, File(id, m) PROVE TypeOK'
  BY <1>3 DEF File, NextMessage, player, AnimationStates, Messages, Commands
<1>4. CASE AnnounceReady
  BY <1>4 DEF AnnounceReady, SendCallback, assembly, player, AnimationStates
<1>5. CASE AnnounceFails
  BY <1>5 DEF AnnounceFails, SendFails, assembly, player
<1>6. CASE NotJustReady
  BY <1>6 DEF NotJustReady, assembly, player
<1>7. CASE Enqueue
  <2>1. playerQueue' \in Seq(Ids)
    BY <1>7, AppendElements DEF Enqueue
  <2> QED BY <1>7, <2>1 DEF Enqueue
<1>8. CASE KeepForLater
  BY <1>8 DEF KeepForLater, assembly, player
<1>9. CASE TakeAnimation
  <2>1. playerQueue' \in Seq(Ids) /\ Head(playerQueue) \in Ids
    BY <1>9, TailElements DEF TakeAnimation
  <2> QED BY <1>9, <2>1 DEF TakeAnimation, assembly
<1>10. CASE StartSound
  BY <1>10 DEF StartSound, assembly
<1>11. CASE UnsupportedAudio
  BY <1>11 DEF UnsupportedAudio, assembly
<1>12. CASE SendStart
  BY <1>12 DEF SendStart, SendCallback, PutState, assembly, AnimationStates
<1>13. CASE SendStartFails
  BY <1>13 DEF SendStartFails, SendFails, assembly
<1>14. CASE SendEnd
  <2>1. playing \in Ids
    BY <1>14 DEF SendEnd
  <2>2. Append(callbacks[playing], "end") \in Seq({"ready", "start", "end"})
    BY <2>1
  <2>3. callbacks' \in [Ids -> Seq({"ready", "start", "end"})]
    BY <1>14, <2>1, <2>2 DEF SendEnd, SendCallback
  <2>4. animationStates' \in [Ids -> AnimationStates \cup {"unknown"}]
    BY <1>14, <2>1 DEF SendEnd, PutState, AnimationStates
  <2> QED BY <1>14, <2>3, <2>4 DEF SendEnd, SendCallback, assembly
<1>15. CASE SendEndFails
  BY <1>15 DEF SendEndFails, SendFails, assembly
<1>16. CASE UNCHANGED vars
  BY <1>16 DEF vars, assembly, player
<1> QED
  BY <1>1, <1>2, <1>3, <1>4, <1>5, <1>6, <1>7, <1>8, <1>9, <1>10, <1>11,
     <1>12, <1>13, <1>14, <1>15, <1>16 DEF Next, ReactOn, Playloop

------------------------------------------------------------------------------
(* Every step keeps every animation at one place.                          *)
LEMMA OnePlaceStep ==
  ASSUME Inv, [Next]_vars, NEW a \in Ids PROVE OnePlace(a)'
<1> USE DEF Inv
<1>0. OnePlace(a) /\ TypeOK
  OBVIOUS
<1>q. Queued = Elements(playerQueue) /\ Queued' = Elements(playerQueue')
  BY DEF Queued, Elements
<1>1. ASSUME NEW id \in Ids, Discard(id) PROVE OnePlace(a)'
  BY <1>0, <1>1 DEF Discard, NextMessage, player, OnePlace, Known, IsReady,
                    Handed, Queued
<1>2. ASSUME NEW id \in Ids, SoundEnds(id) PROVE OnePlace(a)'
  BY <1>0, <1>2 DEF SoundEnds, assembly, OnePlace, Known, IsReady, Handed, Queued
<1>3. ASSUME NEW id \in Ids, NEW m \in Messages, File(id, m) PROVE OnePlace(a)'
  <2>1. Handed' = Handed /\ Queued' = Queued
    BY <1>3 DEF File, player, Handed, Queued
  <2>2. CASE a # id
    BY <1>0, <1>3, <2>1, <2>2
       DEF File, OnePlace, Known, IsReady, TypeOK
  <2>3. CASE a = id
    <3>1. needs'[a] \in {Kinds, info'[a]} /\ info' = info
      BY <1>0, <1>3, <2>3 DEF File, OnePlace, TypeOK
    <3>2. ("audio" \in data'[a] => a \in typed')
      BY <1>0, <1>3, <2>3 DEF File, OnePlace, TypeOK
    <3>3. a \notin Handed'
      BY <1>0, <1>3, <2>1, <2>3 DEF File, OnePlace
    <3>4. a \in available' /\ Known(a)'
      BY <1>0, <1>3, <2>3 DEF File, Known, TypeOK, OnePlace
    <3>5. \/ animationStates'[a] = "CREATED" /\ callbacks'[a] = << >>
          \/ /\ animationStates'[a] = "READY" /\ callbacks'[a] = <<"ready">>
             /\ a \in available /\ IsReady(a)
      BY <1>0, <1>3, <2>3 DEF File, OnePlace, TypeOK, Known
    <3>6. data[a] \subseteq data'[a] /\ (needs'[a] = needs[a] \/ needs'[a] = info[a])
      BY <1>0, <1>3, <2>3 DEF File, TypeOK
    <3>7. IsReady(a) => IsReady(a)'
      <4>1. CASE needs'[a] = needs[a]
        BY <3>6, <4>1 DEF IsReady
      <4>2. CASE needs'[a] = info[a]
        <5>1. info[a] \subseteq Kinds
          BY <1>0 DEF TypeOK
        <5>2. needs[a] = Kinds \/ needs[a] = info[a]
          BY <1>0 DEF OnePlace
        <5> QED BY <3>6, <4>2, <5>1, <5>2 DEF IsReady
      <4> QED BY <3>6, <4>1, <4>2
    <3>8. a \notin Queued'
      BY <3>3 DEF Handed
    <3> QED BY <3>1, <3>2, <3>3, <3>4, <3>5, <3>7, <3>8 DEF OnePlace
  <2> QED BY <2>2, <2>3
<1>4. CASE AnnounceReady
  <2>1. Handed' = Handed /\ Queued' = Queued
    BY <1>4 DEF AnnounceReady, player, Handed, Queued
  <2>2. CASE a # reacting
    BY <1>0, <1>4, <2>1, <2>2
       DEF AnnounceReady, SendCallback, assembly, OnePlace, Known, IsReady, TypeOK
  <2>3. CASE a = reacting
    <3>1. a \in available /\ animationStates[a] = "CREATED" /\ IsReady(a)
      BY <1>0, <1>4, <2>3 DEF AnnounceReady, JustReady, TypeOK
    <3>2. callbacks[a] = << >> /\ a \notin Handed
      BY <1>0, <3>1 DEF OnePlace
    <3>3. callbacks'[a] = <<"ready">> /\ animationStates'[a] = "READY"
      BY <1>0, <1>4, <2>3, <3>2 DEF AnnounceReady, SendCallback, TypeOK
    <3>4. UNCHANGED <<info, needs, data, typed, commanded, available>>
      BY <1>4 DEF AnnounceReady, assembly
    <3>5. a \notin Queued'
      BY <2>1, <3>2 DEF Handed
    <3> QED BY <1>0, <2>1, <3>1, <3>2, <3>3, <3>4, <3>5 DEF OnePlace, Known, IsReady
  <2> QED BY <2>2, <2>3
<1>5. CASE AnnounceFails
  BY <1>0, <1>5 DEF AnnounceFails, SendFails, assembly, player, OnePlace, Known,
                    IsReady, Handed, Queued
<1>6. CASE NotJustReady
  BY <1>0, <1>6 DEF NotJustReady, assembly, player, OnePlace, Known, IsReady,
                    Handed, Queued
<1>7. CASE Enqueue
  <2>1. reacting \in available /\ reacting \in Ids
    BY <1>0, <1>7 DEF Enqueue, TypeOK
  <2>2. Queued' = Queued \cup {reacting}
    BY <1>0, <1>7, <2>1, <1>q, AppendElements DEF Enqueue, TypeOK
  <2>3. Handed' = Handed \cup {reacting}
    BY <1>7, <2>2 DEF Enqueue, Handed
  <2>4. animationStates[reacting] = "READY" /\ OnePlace(reacting)
    BY <1>7, <2>1 DEF Enqueue, ReactorInv
  <2> QED
    BY <1>0, <1>7, <2>1, <2>2, <2>3, <2>4 DEF Enqueue, OnePlace, Known, IsReady
<1>8. CASE KeepForLater
  BY <1>0, <1>8 DEF KeepForLater, assembly, player, OnePlace, Known, IsReady,
                    Handed, Queued
<1>9. CASE TakeAnimation
  <2>1. /\ Head(playerQueue) \in Queued
        /\ Queued' \subseteq Queued
    BY <1>0, <1>9, <1>q, TailElements DEF TakeAnimation, TypeOK
  <2>2. Handed' \subseteq Handed
    BY <1>9, <2>1 DEF TakeAnimation, Handed
  <2>3. UNCHANGED <<assembly, animationStates, callbacks>>
    BY <1>9 DEF TakeAnimation
  <2> QED
    BY <1>0, <2>1, <2>2, <2>3 DEF assembly, OnePlace, Known, IsReady
<1>10. CASE StartSound
  BY <1>0, <1>10 DEF StartSound, assembly, OnePlace, Known, IsReady, Handed, Queued
<1>11. CASE UnsupportedAudio
  BY <1>0, <1>11 DEF UnsupportedAudio, assembly, OnePlace, Known, IsReady, Handed,
                     Queued
<1>12. CASE SendStart
  BY <1>0, <1>12 DEF SendStart, SendCallback, PutState, assembly, OnePlace, Known,
                     IsReady, Handed, Queued, TypeOK, PlayerInv
<1>13. CASE SendStartFails
  BY <1>0, <1>13 DEF SendStartFails, SendFails, assembly, OnePlace, Known, IsReady,
                     Handed, Queued
<1>14. CASE SendEnd
  BY <1>0, <1>14 DEF SendEnd, SendCallback, PutState, assembly, OnePlace, Known,
                     IsReady, Handed, Queued, TypeOK, PlayerInv
<1>15. CASE SendEndFails
  BY <1>0, <1>15 DEF SendEndFails, SendFails, assembly, OnePlace, Known, IsReady,
                     Handed, Queued
<1>16. CASE UNCHANGED vars
  BY <1>0, <1>16 DEF vars, assembly, player, OnePlace, Known, IsReady, Handed, Queued
<1> QED
  BY <1>1, <1>2, <1>3, <1>4, <1>5, <1>6, <1>7, <1>8, <1>9, <1>10, <1>11,
     <1>12, <1>13, <1>14, <1>15, <1>16 DEF Next, ReactOn, Playloop

(* Every step keeps what the player thread relies on. *)
LEMMA PlayerStep ==
  ASSUME Inv, [Next]_vars PROVE PlayerInv'
<1> USE DEF Inv
<1>0. PlayerInv /\ TypeOK
  OBVIOUS
<1>q. Queued = Elements(playerQueue) /\ Queued' = Elements(playerQueue')
  BY DEF Queued, Elements
<1>k. Handed = Queued \cup (IF playloop = "poll" THEN {} ELSE {playing})
  BY DEF Handed
<1>1. ASSUME NEW id \in Ids, Discard(id) PROVE PlayerInv'
  BY <1>0, <1>1 DEF Discard, player, PlayerInv, Distinct, Queued
<1>2. ASSUME NEW id \in Ids, SoundEnds(id) PROVE PlayerInv'
  BY <1>0, <1>2 DEF SoundEnds, PlayerInv, Distinct, Queued
<1>3. ASSUME NEW id \in Ids, NEW m \in Messages, File(id, m) PROVE PlayerInv'
  BY <1>0, <1>3 DEF File, player, PlayerInv, Distinct, Queued
<1>4. CASE AnnounceReady
  <2>1. reacting \in available /\ reacting \in Ids
    BY <1>0, <1>4 DEF AnnounceReady, TypeOK
  <2>2. reacting \notin Handed
    BY <2>1 DEF OnePlace
  <2>3. playloop # "poll" => callbacks'[playing] = callbacks[playing]
    BY <1>0, <1>4, <2>2, <1>k DEF AnnounceReady, SendCallback, TypeOK
  <2> QED
    BY <1>0, <1>4, <2>3 DEF AnnounceReady, player, PlayerInv, Distinct, Queued
<1>5. CASE AnnounceFails
  BY <1>0, <1>5 DEF AnnounceFails, SendFails, player, PlayerInv, Distinct, Queued
<1>6. CASE NotJustReady
  BY <1>0, <1>6 DEF NotJustReady, player, PlayerInv, Distinct, Queued
<1>7. CASE Enqueue
  <2>1. reacting \in available /\ reacting \in Ids
    BY <1>0, <1>7 DEF Enqueue, TypeOK
  <2>2. reacting \notin Handed
    BY <2>1 DEF OnePlace
  <2>3. Queued' = Queued \cup {reacting} /\ Distinct(playerQueue')
    BY <1>0, <1>7, <2>1, <2>2, <1>q, <1>k, AppendElements
       DEF Enqueue, TypeOK, PlayerInv
  <2> QED BY <1>0, <1>7, <2>2, <2>3, <1>k DEF Enqueue, PlayerInv
<1>8. CASE KeepForLater
  BY <1>0, <1>8 DEF KeepForLater, player, PlayerInv, Distinct, Queued
<1>9. CASE TakeAnimation
  <2>1. /\ Head(playerQueue) \in Queued /\ Head(playerQueue) \in Ids
        /\ Head(playerQueue) \notin Queued'
        /\ Distinct(playerQueue')
    BY <1>0, <1>9, <1>q, TailElements DEF TakeAnimation, TypeOK, PlayerInv
  <2>2. callbacks[Head(playerQueue)] = <<"ready">>
    BY <2>1 DEF OnePlace
  <2> QED BY <1>0, <1>9, <2>1, <2>2 DEF TakeAnimation, PlayerInv
<1>10. CASE StartSound
  BY <1>0, <1>10 DEF StartSound, PlayerInv, Distinct, Queued
<1>11. CASE UnsupportedAudio
  BY <1>0, <1>11 DEF UnsupportedAudio, PlayerInv, Distinct, Queued
<1>12. CASE SendStart
  <2>1. callbacks'[playing] = <<"ready", "start">>
    BY <1>0, <1>12, NextCallback DEF SendStart, SendCallback, PlayerInv, TypeOK
  <2> QED BY <1>0, <1>12, <2>1 DEF SendStart, PlayerInv, Distinct, Queued
<1>13. CASE SendStartFails
  BY <1>0, <1>13 DEF SendStartFails, PlayerInv, Distinct, Queued
<1>14. CASE SendEnd
  BY <1>0, <1>14 DEF SendEnd, PlayerInv, Distinct, Queued
<1>15. CASE SendEndFails
  BY <1>0, <1>15 DEF SendEndFails, PlayerInv, Distinct, Queued
<1>16. CASE UNCHANGED vars
  BY <1>0, <1>16 DEF vars, player, PlayerInv, Distinct, Queued
<1> QED
  BY <1>1, <1>2, <1>3, <1>4, <1>5, <1>6, <1>7, <1>8, <1>9, <1>10, <1>11,
     <1>12, <1>13, <1>14, <1>15, <1>16 DEF Next, ReactOn, Playloop

(* Every step keeps what react() relies on when it hands over. *)
LEMMA ReactorStep ==
  ASSUME Inv, [Next]_vars PROVE ReactorInv'
<1> USE DEF Inv
<1>0. ReactorInv /\ TypeOK
  OBVIOUS
<1>1. ASSUME NEW id \in Ids, Discard(id) PROVE ReactorInv'
  BY <1>0, <1>1 DEF Discard, NextMessage, ReactorInv, IsReady
<1>2. ASSUME NEW id \in Ids, SoundEnds(id) PROVE ReactorInv'
  BY <1>0, <1>2 DEF SoundEnds, assembly, ReactorInv, IsReady
<1>3. ASSUME NEW id \in Ids, NEW m \in Messages, File(id, m) PROVE ReactorInv'
  BY <1>0, <1>3 DEF File, ReactorInv
<1>4. CASE AnnounceReady
  BY <1>0, <1>4 DEF AnnounceReady, ReactorInv, TypeOK
<1>5. CASE AnnounceFails
  BY <1>5 DEF AnnounceFails, ReactorInv
<1>6. CASE NotJustReady
  <2>1. reacting \in available /\ reacting \in Ids
    BY <1>0, <1>6 DEF NotJustReady, TypeOK
  <2>2. animationStates[reacting] \in {"CREATED", "READY"}
    BY <2>1 DEF OnePlace
  <2> QED
    BY <1>0, <1>6, <2>2 DEF NotJustReady, JustReady, assembly, ReactorInv, IsReady
<1>7. CASE Enqueue
  BY <1>7 DEF Enqueue, ReactorInv
<1>8. CASE KeepForLater
  BY <1>8 DEF KeepForLater, ReactorInv
<1>9. CASE TakeAnimation
  BY <1>0, <1>9 DEF TakeAnimation, assembly, ReactorInv, IsReady
<1>10. CASE StartSound
  BY <1>0, <1>10 DEF StartSound, assembly, ReactorInv, IsReady
<1>11. CASE UnsupportedAudio
  BY <1>0, <1>11 DEF UnsupportedAudio, assembly, ReactorInv, IsReady
<1>p. ASSUME playloop # "poll", reactor = "enqueue" PROVE reacting # playing
  BY <1>0, <1>p DEF TypeOK, OnePlace, Handed
<1>12. CASE SendStart
  BY <1>0, <1>12, <1>p DEF SendStart, PutState, assembly, ReactorInv, IsReady, TypeOK
<1>13. CASE SendStartFails
  BY <1>0, <1>13 DEF SendStartFails, assembly, ReactorInv, IsReady
<1>14. CASE SendEnd
  BY <1>0, <1>14, <1>p DEF SendEnd, PutState, assembly, ReactorInv, IsReady, TypeOK
<1>15. CASE SendEndFails
  BY <1>0, <1>15 DEF SendEndFails, assembly, ReactorInv, IsReady
<1>16. CASE UNCHANGED vars
  BY <1>0, <1>16 DEF vars, assembly, ReactorInv, IsReady
<1> QED
  BY <1>1, <1>2, <1>3, <1>4, <1>5, <1>6, <1>7, <1>8, <1>9, <1>10, <1>11,
     <1>12, <1>13, <1>14, <1>15, <1>16 DEF Next, ReactOn, Playloop

(* Every step keeps the sounds in step with the player thread. *)
LEMMA SoundStep ==
  ASSUME Inv, [Next]_vars PROVE SoundInv'
<1> USE DEF Inv, SoundInv
<1>1. ASSUME NEW id \in Ids, Discard(id) PROVE SoundInv'
  BY <1>1 DEF Discard, player
<1>2. ASSUME NEW id \in Ids, SoundEnds(id) PROVE SoundInv'
  BY <1>2 DEF SoundEnds
<1>3. ASSUME NEW id \in Ids, NEW m \in Messages, File(id, m) PROVE SoundInv'
  BY <1>3 DEF File, player
<1>4. CASE ReactOn
  <2>1. unsent \subseteq unsent'
    BY <1>4 DEF ReactOn, AnnounceReady, AnnounceFails, NotJustReady, Enqueue,
                KeepForLater, SendCallback, SendFails
  <2>2. UNCHANGED <<sounding, playloop, playing>>
    BY <1>4 DEF ReactOn, AnnounceReady, AnnounceFails, NotJustReady, Enqueue,
                KeepForLater, player
  <2> QED BY <2>1, <2>2
<1>5. CASE TakeAnimation
  BY <1>5 DEF TakeAnimation
<1>6. CASE StartSound \/ UnsupportedAudio
  <2>1. \A id \in sounding : <<"start", id>> \in unsent
    BY <1>6 DEF StartSound, UnsupportedAudio
  <2>2. unsent' = unsent /\ playing' = playing
    BY <1>6 DEF StartSound, UnsupportedAudio
  <2>3. \/ sounding' = sounding \cup {playing} /\ playloop' = "announce"
        \/ sounding' = sounding
    BY <1>6 DEF StartSound, UnsupportedAudio
  <2>4. \A id \in sounding' :
          \/ <<"start", id>> \in unsent
          \/ playloop' = "announce" /\ id = playing
    <3> TAKE id \in sounding'
    <3>1. CASE id \in sounding
      BY <2>1, <3>1
    <3>2. CASE id \notin sounding
      BY <2>3, <3>2
    <3> QED BY <3>1, <3>2
  <2> QED BY <2>2, <2>4
<1>7. CASE SendStart \/ SendStartFails
  <2>1. sounding' = sounding /\ playing' = playing /\ playloop = "announce"
    BY <1>7 DEF SendStart, SendStartFails
  <2>2. \/ unsent' = unsent /\ playloop' = "join"
        \/ unsent' = unsent \cup {<<"start", playing>>}
    BY <1>7 DEF SendStart, SendStartFails, SendCallback, SendFails
  <2> QED BY <2>1, <2>2
<1>8. CASE SendEnd \/ SendEndFails
  BY <1>8 DEF SendEnd, SendEndFails, SendCallback, SendFails
<1>9. CASE UNCHANGED vars
  BY <1>9 DEF vars, player
<1> QED
  BY <1>1, <1>2, <1>3, <1>4, <1>5, <1>6, <1>7, <1>8, <1>9 DEF Next, Playloop

(* The invariant of the player: holds initially, and every step of either  *)
(* thread keeps it.                                                        *)
THEOREM PlayerInvariant == Spec => []Inv
<1>1. Inv /\ [Next]_vars => Inv'
  <2> SUFFICES ASSUME Inv, [Next]_vars PROVE Inv'
    OBVIOUS
  <2>1. TypeOK'
    BY NextTypeOK DEF Inv
  <2>2. (\A a \in Ids : OnePlace(a))'
    BY OnePlaceStep
  <2> QED BY <2>1, <2>2, PlayerStep, ReactorStep, SoundStep DEF Inv
<1> QED BY <1>1, InitInv, PTL DEF Spec

------------------------------------------------------------------------------
(* Types, and that react() only works on an animation that is being put    *)
(* together.                                                               *)
THEOREM PlayerTypeCorrect == Spec => []TypeOK
<1>1. Inv => TypeOK
  BY DEF Inv
<1> QED BY <1>1, PlayerInvariant, PTL

(* Whatever the player thread holds or will take from its queue is         *)
(* complete, triggered, and has a content type if it has audio.            *)
THEOREM HandedAnimationsAreComplete == Spec => []HandedIsComplete
<1>1. Inv => HandedIsComplete
  <2> SUFFICES ASSUME Inv, NEW id \in Handed
               PROVE  /\ id \in commanded /\ IsReady(id)
                      /\ "audio" \in needs[id] => id \in typed
    BY DEF HandedIsComplete
  <2>1. id \in Ids
    BY DEF Inv, TypeOK, Handed, Queued
  <2>2. OnePlace(id)
    BY <2>1 DEF Inv
  <2> QED BY <2>1, <2>2 DEF OnePlace, IsReady
<1> QED BY <1>1, PlayerInvariant, PTL

(* An animation is given to the player once, and is at one place.          *)
THEOREM AnimationsArePlayedOnce == Spec => []PlayedOnce
<1>1. Inv => PlayedOnce
  <2> SUFFICES ASSUME Inv PROVE PlayedOnce
    OBVIOUS
  <2>1. available \cap Handed = {}
    BY DEF Inv, TypeOK, OnePlace
  <2>2. \A i, j \in 1 .. Len(playerQueue) :
            playerQueue[i] = playerQueue[j] => i = j
    BY DEF Inv, PlayerInv, Distinct
  <2>3. playloop # "poll" => playing \notin Queued
    BY DEF Inv, PlayerInv
  <2>4. ASSUME NEW id \in Handed, NEW i \in 1 .. Len(callbacks[id]),
               callbacks[id][i] = "end"
        PROVE  FALSE
    <3>1. id \in Ids
      BY DEF Inv, TypeOK, Handed, Queued
    <3>2. callbacks[id] \in {<<"ready">>, <<"ready", "start">>}
      BY <3>1 DEF Inv, OnePlace, Handed, PlayerInv, TypeOK
    <3> QED BY <3>2, <2>4
  <2> QED BY <2>1, <2>2, <2>3, <2>4 DEF PlayedOnce
<1> QED BY <1>1, PlayerInvariant, PTL

(* An animation announced as ready can be triggered from then on.          *)
THEOREM ReadinessIsStable == Spec => []ReadyIsStable
<1>1. Inv => ReadyIsStable
  BY DEF Inv, ReadyIsStable, OnePlace, TypeOK
<1> QED BY <1>1, PlayerInvariant, PTL

(* Two sounds overlap only if the start callback of one of them could not  *)
(* be sent.                                                                *)
THEOREM SoundsDoNotOverlap == Spec => []OneSoundAtATime
<1>1. Inv => OneSoundAtATime
  BY DEF OneSoundAtATime, Inv, SoundInv
<1> QED BY <1>1, PlayerInvariant, PTL

(* What the two threads announce is what AnimationLife allows: ready,      *)
(* start, end, in this order, once each, one animation after the other.    *)
THEOREM LifeRefined == Spec => LifeSpec
<1> DEFINE cur == IF playloop = "join" THEN playing ELSE NoAnimation
<1>1. Init => Life!Init
  BY DEF Init, Life!Init
<1>2. Inv /\ [Next]_vars => [Life!Next]_<<callbacks, cur>>
  <2> SUFFICES ASSUME Inv, [Next]_vars PROVE [Life!Next]_<<callbacks, cur>>
    OBVIOUS
  <2> USE DEF Inv
  <2>1. ASSUME NEW id \in Ids, Discard(id) \/ SoundEnds(id)
        PROVE  UNCHANGED <<callbacks, cur>>
    BY <2>1 DEF Discard, SoundEnds, player
  <2>2. ASSUME NEW id \in Ids, NEW m \in Messages, File(id, m)
        PROVE  UNCHANGED <<callbacks, cur>>
    BY <2>2 DEF File, player
  <2>3. CASE AnnounceReady
    <3>1. reacting \in Ids /\ callbacks[reacting] = << >>
      BY <2>3 DEF AnnounceReady, JustReady, TypeOK, OnePlace
    <3>2. callbacks' = [callbacks EXCEPT ![reacting] = <<"ready">>]
      BY <2>3, <3>1 DEF AnnounceReady, SendCallback
    <3>3. cur' = cur
      BY <2>3 DEF AnnounceReady, player
    <3>4. Life!Ready(reacting)
      BY <3>1, <3>2, <3>3 DEF Life!Ready
    <3> QED BY <3>1, <3>4 DEF Life!Next
  <2>4. CASE AnnounceFails \/ NotJustReady \/ Enqueue \/ KeepForLater
    BY <2>4 DEF AnnounceFails, NotJustReady, Enqueue, KeepForLater, SendFails, player
  <2>5. CASE TakeAnimation
    BY <2>5 DEF TakeAnimation
  <2>6. CASE StartSound \/ UnsupportedAudio \/ SendStartFails
    BY <2>6 DEF StartSound, UnsupportedAudio, SendStartFails, SendFails
  <2>7. CASE SendStart
    <3>1. playing \in Ids /\ callbacks[playing] = <<"ready">> /\ cur = NoAnimation
      BY <2>7 DEF SendStart, TypeOK, PlayerInv
    <3>2. callbacks' = [callbacks EXCEPT ![playing] = <<"ready", "start">>]
      BY <2>7, <3>1, NextCallback DEF SendStart, SendCallback
    <3>3. cur' = playing
      BY <2>7 DEF SendStart
    <3>4. Life!Start(playing)
      BY <3>1, <3>2, <3>3 DEF Life!Start
    <3> QED BY <3>1, <3>4 DEF Life!Next
  <2>8. CASE SendEnd
    <3>1. /\ playing \in Ids /\ callbacks[playing] = <<"ready", "start">>
          /\ cur = playing
      BY <2>8 DEF SendEnd, TypeOK, PlayerInv
    <3>2. callbacks' = [callbacks EXCEPT ![playing] = <<"ready", "start", "end">>]
      BY <2>8, <3>1, NextCallback DEF SendEnd, SendCallback
    <3>3. cur' = NoAnimation
      BY <2>8 DEF SendEnd
    <3>4. Life!End(playing)
      BY <3>1, <3>2, <3>3 DEF Life!End
    <3> QED BY <3>1, <3>4 DEF Life!Next
  <2>9. CASE SendEndFails
    <3>1. cur = playing /\ playing \in Ids /\ cur' = NoAnimation
      BY <2>9 DEF SendEndFails, TypeOK
    <3>2. Life!GiveUp
      BY <2>9, <3>1 DEF SendEndFails, SendFails, Life!GiveUp
    <3> QED BY <3>2 DEF Life!Next
  <2>10. CASE UNCHANGED vars
    BY <2>10 DEF vars, player
  <2> QED
    BY <2>1, <2>2, <2>3, <2>4, <2>5, <2>6, <2>7, <2>8, <2>9, <2>10
       DEF Next, ReactOn, Playloop
<1> QED
  BY <1>1, <1>2, PlayerInvariant, PTL DEF Spec, LifeSpec, Life!Spec

==============================================================================
