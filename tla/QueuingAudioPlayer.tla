------------------------- MODULE QueuingAudioPlayer -------------------------
(***************************************************************************)
(* The audio player at the end of the output pipeline.  The parts of an    *)
(* animation (its audio, its FAPs, its BAPs), the dataInfo command that    *)
(* says which parts it has, and the playCommand that triggers it come in   *)
(* on four topics, in any order; react() puts them together under their    *)
(* content ID, and hands a complete and triggered animation to the thread  *)
(* of Playloop, which plays one after the other and reports the start and  *)
(* the end of each on the callback topic.                                  *)
(*                                                                         *)
(* react() runs on the component's thread.  It is split where the player   *)
(* thread can come in between: after the message has been filed, and       *)
(* between the ready callback and the hand-over.                           *)
(***************************************************************************)
EXTENDS Naturals, Sequences

CONSTANTS Ids,            \* content IDs
          NoAnimation,    \* the null reference
          Kinds,          \* kinds of data: "audio", "FAP", "BAP"
          Faults,         \* what may go wrong: "send", "audio"
          MaxMessages     \* bound: messages received for one content ID

Commands == {"dataInfo", "playCommand", "malformed"}
Messages == Kinds \cup Commands

ASSUME IdsAssumption == NoAnimation \notin Ids
ASSUME KindsAssumption == "audio" \in Kinds /\ Kinds \cap Commands = {}
ASSUME FaultsAssumption == Faults \subseteq {"send", "audio"}
ASSUME MaxMessagesAssumption == MaxMessages \in Nat

VARIABLES
    info,             \* info[id]: the parts the BML realiser gave id, which
                      \* its dataInfo command announces
    received,         \* received[id]: messages with that content ID so far
    available,        \* availableAnimations: the IDs being put together
    animationStates,  \* animationStates, "unknown" for no entry
    data,             \* Animation.audioData, fapData, bapData: parts not null
    needs,            \* Animation.needsAudio, needsFAP, needsBAP
    typed,            \* the animations whose contentType is not null
    commanded,        \* Animation.haveReceivedPlayCommand
    reactor,          \* where the component thread is in react()
    reacting,         \* the local variable anim of react()
    playerQueue,
    playloop,         \* where the player thread is in Playloop.run()
    playing,          \* the local variable anim of Playloop.run()
    sounding,         \* the animations whose AudioPlayer thread is running
    callbacks,        \* callbacks[id]: types of the callbacks sent, in order
    unsent            \* history: every <<type, id>> of a callback that could
                      \* not be sent

assembly == <<info, received, available, data, needs, typed, commanded>>
player == <<playerQueue, playloop, playing, sounding>>
vars == <<assembly, animationStates, reactor, reacting, player, callbacks,
          unsent>>

AnimationStates == {"CREATED", "READY", "PLAYING", "FINISHED"}

Known(id) == animationStates[id] # "unknown"

(* Animation.isReady: all parts that are needed are present. *)
IsReady(id) == needs[id] \subseteq data[id]

(* Mutant: without a dataInfo command, nothing is needed. *)
Init_NeedsNothing ==
    /\ info \in [Ids -> SUBSET Kinds]
    /\ received = [id \in Ids |-> 0]
    /\ available = {}
    /\ animationStates = [id \in Ids |-> "unknown"]
    /\ data = [id \in Ids |-> {}]
    /\ needs = [id \in Ids |-> {}]
    /\ typed = {}
    /\ commanded = {}
    /\ reactor = "idle"
    /\ reacting = NoAnimation
    /\ playerQueue = << >>
    /\ playloop = "poll"
    /\ playing = NoAnimation
    /\ sounding = {}
    /\ callbacks = [id \in Ids |-> << >>]
    /\ unsent = {}

(* Animation(): without a dataInfo command, everything is needed. *)
Init ==
    /\ info \in [Ids -> SUBSET Kinds]
    /\ received = [id \in Ids |-> 0]
    /\ available = {}
    /\ animationStates = [id \in Ids |-> "unknown"]
    /\ data = [id \in Ids |-> {}]
    /\ needs = [id \in Ids |-> Kinds]
    /\ typed = {}
    /\ commanded = {}
    /\ reactor = "idle"
    /\ reacting = NoAnimation
    /\ playerQueue = << >>
    /\ playloop = "poll"
    /\ playing = NoAnimation
    /\ sounding = {}
    /\ callbacks = [id \in Ids |-> << >>]
    /\ unsent = {}

SendCallback(type, id) ==
    /\ callbacks' = [callbacks EXCEPT ![id] = Append(@, type)]
    /\ UNCHANGED unsent

(* The sender throws a JMSException. *)
SendFails(type, id) ==
    /\ "send" \in Faults
    /\ unsent' = unsent \cup {<<type, id>>}
    /\ UNCHANGED callbacks

------------------------------------------------------------------------------
(* QueuingAudioPlayer.react, on the component thread.                       *)

NextMessage(id) ==
    /\ reactor = "idle"
    /\ received[id] < MaxMessages
    /\ received' = [received EXCEPT ![id] = @ + 1]

(* A message for an animation that was already given to the player. *)
Discard(id) ==
    /\ NextMessage(id)
    /\ id \notin available /\ Known(id)
    /\ UNCHANGED <<info, available, data, needs, typed, commanded,
                   animationStates, reactor, reacting, player, callbacks,
                   unsent>>

(* Mutant: a new animation is not put into availableAnimations. *)
File_NotKept(id, m) ==
    /\ NextMessage(id)
    /\ id \in available \/ ~Known(id)
    /\ animationStates' = [animationStates EXCEPT
           ![id] = IF id \in available THEN @ ELSE "CREATED"]
    /\ data' = [data EXCEPT ![id] = IF m \in Kinds THEN @ \cup {m} ELSE @]
    /\ reactor' = "announce"
    /\ reacting' = id
    /\ UNCHANGED <<info, available, typed, needs, commanded, player, callbacks,
                   unsent>>

(* Find or create the animation, and file what the message brings.  Data   *)
(* messages carry a content type, commands do not.  A command without the  *)
(* features it must have throws, which ends the component.                 *)
File(id, m) ==
    /\ NextMessage(id)
    /\ id \in available \/ ~Known(id)
    /\ available' = available \cup {id}
    /\ animationStates' = [animationStates EXCEPT
           ![id] = IF id \in available THEN @ ELSE "CREATED"]
    /\ data' = [data EXCEPT ![id] = IF m \in Kinds THEN @ \cup {m} ELSE @]
    /\ typed' = IF m \in Kinds THEN typed \cup {id} ELSE typed
    /\ needs' = [needs EXCEPT ![id] = IF m = "dataInfo" THEN info[id] ELSE @]
    /\ commanded' = IF m = "playCommand" THEN commanded \cup {id} ELSE commanded
    /\ reactor' = IF m = "malformed" THEN "failed" ELSE "announce"
    /\ reacting' = id
    /\ UNCHANGED <<info, player, callbacks, unsent>>

JustReady == animationStates[reacting] = "CREATED" /\ IsReady(reacting)

(* Mutant: the ready callback is sent whenever the animation is ready. *)
AnnounceReady_EveryTime ==
    /\ reactor = "announce" /\ IsReady(reacting)
    /\ SendCallback("ready", reacting)
    /\ animationStates' = [animationStates EXCEPT ![reacting] = "READY"]
    /\ reactor' = "enqueue"
    /\ UNCHANGED <<assembly, reacting, player>>

(* "Have we just got ready?" *)
AnnounceReady ==
    /\ reactor = "announce" /\ JustReady
    /\ SendCallback("ready", reacting)
    /\ animationStates' = [animationStates EXCEPT ![reacting] = "READY"]
    /\ reactor' = "enqueue"
    /\ UNCHANGED <<assembly, reacting, player>>

AnnounceFails ==
    /\ reactor = "announce" /\ JustReady
    /\ SendFails("ready", reacting)
    /\ reactor' = "failed"
    /\ UNCHANGED <<assembly, animationStates, reacting, player>>

NotJustReady ==
    /\ reactor = "announce" /\ ~JustReady
    /\ reactor' = "enqueue"
    /\ UNCHANGED <<assembly, animationStates, reacting, player, callbacks,
                   unsent>>

(* Mutant: the animation is not taken out of availableAnimations. *)
Enqueue_NotRemoved ==
    /\ reactor = "enqueue" /\ IsReady(reacting) /\ reacting \in commanded
    /\ playerQueue' = Append(playerQueue, reacting)
    /\ reactor' = "idle"
    /\ UNCHANGED <<assembly, animationStates, reacting,
                   playloop, playing, sounding, callbacks, unsent>>

(* Mutant: a triggered animation is played whether or not it is complete. *)
Enqueue_Incomplete ==
    /\ reactor = "enqueue" /\ reacting \in commanded
    /\ playerQueue' = Append(playerQueue, reacting)
    /\ available' = available \ {reacting}
    /\ reactor' = "idle"
    /\ UNCHANGED <<info, received, data, needs, typed, commanded,
                   animationStates, reacting, playloop, playing, sounding,
                   callbacks, unsent>>

(* The animation is complete and triggered: give it to the player. *)
Enqueue ==
    /\ reactor = "enqueue" /\ IsReady(reacting) /\ reacting \in commanded
    /\ playerQueue' = Append(playerQueue, reacting)
    /\ available' = available \ {reacting}
    /\ reactor' = "idle"
    /\ UNCHANGED <<info, received, data, needs, typed, commanded,
                   animationStates, reacting, playloop, playing, sounding,
                   callbacks, unsent>>

KeepForLater ==
    /\ reactor = "enqueue" /\ ~(IsReady(reacting) /\ reacting \in commanded)
    /\ reactor' = "idle"
    /\ UNCHANGED <<assembly, animationStates, reacting, player, callbacks,
                   unsent>>

------------------------------------------------------------------------------
(* Playloop.run, on the player thread.                                      *)

(* animationStates is a HashMap without a lock: what the player thread     *)
(* puts may be lost when react() inserts another ID at the same time.      *)
PutState(s) ==
    \/ animationStates' = [animationStates EXCEPT ![playing] = s]
    \/ UNCHANGED animationStates

(* Take the next animation; one without audio is dropped. *)
TakeAnimation ==
    /\ playloop = "poll" /\ playerQueue # << >>
    /\ playerQueue' = Tail(playerQueue)
    /\ IF "audio" \in needs[Head(playerQueue)]
       THEN playloop' = "open" /\ playing' = Head(playerQueue)
       ELSE UNCHANGED <<playloop, playing>>
    /\ UNCHANGED <<assembly, animationStates, reactor, reacting, sounding,
                   callbacks, unsent>>

(* AudioPlayer.start(): the sound has a thread of its own. *)
StartSound ==
    /\ playloop = "open"
    /\ sounding' = sounding \cup {playing}
    /\ playloop' = "announce"
    /\ UNCHANGED <<assembly, animationStates, reactor, reacting, playerQueue,
                   playing, callbacks, unsent>>

(* The bytes are not audio: the exception is logged. *)
UnsupportedAudio ==
    /\ playloop = "open" /\ "audio" \in Faults
    /\ playloop' = "poll"
    /\ UNCHANGED <<assembly, animationStates, reactor, reacting, playerQueue,
                   playing, sounding, callbacks, unsent>>

(* Mutant: the player goes on to the next animation at once. *)
SendStart_DontWait ==
    /\ playloop = "announce"
    /\ SendCallback("start", playing)
    /\ PutState("PLAYING")
    /\ playloop' = "poll"
    /\ UNCHANGED <<assembly, reactor, reacting, playerQueue, playing, sounding>>

SendStart ==
    /\ playloop = "announce"
    /\ SendCallback("start", playing)
    /\ PutState("PLAYING")
    /\ playloop' = "join"
    /\ UNCHANGED <<assembly, reactor, reacting, playerQueue, playing, sounding>>

(* The sound, once started, is not stopped, and nobody waits for it. *)
SendStartFails ==
    /\ playloop = "announce"
    /\ SendFails("start", playing)
    /\ playloop' = "poll"
    /\ UNCHANGED <<assembly, animationStates, reactor, reacting, playerQueue,
                   playing, sounding>>

(* The thread of the AudioPlayer ends. *)
SoundEnds(id) ==
    /\ id \in sounding
    /\ sounding' = sounding \ {id}
    /\ UNCHANGED <<assembly, animationStates, reactor, reacting, playerQueue,
                   playloop, playing, callbacks, unsent>>

(* Mutant: the end is reported without waiting for the sound to end. *)
SendEnd_NoJoin ==
    /\ playloop = "join"
    /\ SendCallback("end", playing)
    /\ PutState("FINISHED")
    /\ playloop' = "poll"
    /\ UNCHANGED <<assembly, reactor, reacting, playerQueue, playing, sounding>>

(* player.join() has returned. *)
SendEnd ==
    /\ playloop = "join" /\ playing \notin sounding
    /\ SendCallback("end", playing)
    /\ PutState("FINISHED")
    /\ playloop' = "poll"
    /\ UNCHANGED <<assembly, reactor, reacting, playerQueue, playing, sounding>>

SendEndFails ==
    /\ playloop = "join" /\ playing \notin sounding
    /\ SendFails("end", playing)
    /\ playloop' = "poll"
    /\ UNCHANGED <<assembly, animationStates, reactor, reacting, playerQueue,
                   playing, sounding>>

------------------------------------------------------------------------------
ReactOn ==
    \/ AnnounceReady \/ AnnounceFails \/ NotJustReady
    \/ Enqueue \/ KeepForLater

Playloop ==
    \/ TakeAnimation \/ StartSound \/ UnsupportedAudio
    \/ SendStart \/ SendStartFails \/ SendEnd \/ SendEndFails

Next ==
    \/ \E id \in Ids : Discard(id) \/ SoundEnds(id)
    \/ \E id \in Ids, m \in Messages : File(id, m)
    \/ ReactOn
    \/ Playloop

Spec == Init /\ [][Next]_vars

(* Both threads run, and a sound that was started ends. *)
Fairness ==
    /\ WF_vars(ReactOn)
    /\ WF_vars(Playloop)
    /\ \A id \in Ids : WF_vars(SoundEnds(id))

FairSpec == Spec /\ Fairness

------------------------------------------------------------------------------
(* Properties                                                               *)

(* Every variable has its type; react() works on an animation that is kept  *)
(* in availableAnimations, and the player on one that it has taken.         *)
TypeOK ==
    /\ info \in [Ids -> SUBSET Kinds]
    /\ received \in [Ids -> 0 .. MaxMessages]
    /\ available \subseteq Ids
    /\ animationStates \in [Ids -> AnimationStates \cup {"unknown"}]
    /\ data \in [Ids -> SUBSET Kinds]
    /\ needs \in [Ids -> SUBSET Kinds]
    /\ typed \subseteq Ids
    /\ commanded \subseteq Ids
    /\ reactor \in {"idle", "announce", "enqueue", "failed"}
    /\ reacting \in Ids \cup {NoAnimation}
    /\ reactor \in {"announce", "enqueue"} => reacting \in available
    /\ playerQueue \in Seq(Ids)
    /\ playloop \in {"poll", "open", "announce", "join"}
    /\ playing \in Ids \cup {NoAnimation}
    /\ playloop # "poll" => playing \in Ids
    /\ sounding \subseteq Ids
    /\ callbacks \in [Ids -> Seq({"ready", "start", "end"})]
    /\ unsent \subseteq {"ready", "start", "end"} \X Ids

(* The animations the player thread has or will get. *)
Queued == {playerQueue[i] : i \in 1 .. Len(playerQueue)}
Handed == Queued \cup (IF playloop = "poll" THEN {} ELSE {playing})

(* What the player thread gets is complete: it was triggered, its audio    *)
(* data is not null when the player reads it outside its try block         *)
(* (a null would end the thread), and its callbacks will carry a content   *)
(* type.  Nothing react() does later takes that away.                      *)
HandedIsComplete ==
    \A id \in Handed :
        /\ id \in commanded
        /\ IsReady(id)
        /\ "audio" \in needs[id] => id \in typed

(* An animation is given to the player once: however many messages with    *)
(* its content ID follow, it is not put together a second time, and is at  *)
(* one place only of assembly, queue and player.                           *)
PlayedOnce ==
    /\ available \cap Handed = {}
    /\ \A i, j \in 1 .. Len(playerQueue) :
           playerQueue[i] = playerQueue[j] => i = j
    /\ playloop # "poll" => playing \notin Queued
    /\ \A id \in Handed : ~(\E i \in 1 .. Len(callbacks[id]) : callbacks[id][i] = "end")

(* Once announced as ready, an animation stays ready to be triggered: a    *)
(* dataInfo command that comes after the data does not undo it.            *)
ReadyIsStable ==
    \A id \in available : animationStates[id] = "READY" => IsReady(id)

(* Two sounds never overlap, unless the start callback of one of them could *)
(* not be sent: then the player goes on to the next animation while that    *)
(* sound goes on.  No other callback that fails excuses an overlap.         *)
OneSoundAtATime ==
    \A a, b \in sounding :
        a # b => <<"start", a>> \in unsent \/ <<"start", b>> \in unsent

(* The promise of the player to the listeners of its callbacks. *)
Life == INSTANCE AnimationLife WITH
            Animations <- Ids, None <- NoAnimation,
            current <- IF playloop = "join" THEN playing ELSE NoAnimation
LifeSpec == Life!Spec

Ended(id) == Len(callbacks[id]) = 3
Refused(id) == id \notin available \cup Handed /\ callbacks[id] = <<"ready">>

(* An animation with audio that is complete and triggered is reported as   *)
(* ended, unless a callback about it could not be sent, or its audio is    *)
(* such that it cannot even be started.                                    *)
TriggeredIsPlayed ==
    \A id \in Ids :
        (id \in available /\ IsReady(id) /\ id \in commanded
            /\ "audio" \in needs[id]) ~>
        \/ Ended(id) \/ Refused(id)
        \/ \E type \in {"ready", "start", "end"} : <<type, id>> \in unsent

==============================================================================
