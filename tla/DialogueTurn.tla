---------------------------- MODULE DialogueTurn ----------------------------
(***************************************************************************)
(* The turn-taking interpreter and the utterance action proposer together, *)
(* the proposer as its abstract specification AgentTurn, which it          *)
(* implements.  The interpreter asks for the turn, the proposer takes it;  *)
(* the proposer publishes when the agent speaks and when it listens again, *)
(* and the interpreter goes by that.  The messages are under way in the    *)
(* topics semaine.data.state.agent and semaine.data.state.dialog, in       *)
(* order.  Neither side knows what the other has missed: the proposer      *)
(* drops a request for the turn unless the agent is listening, and the     *)
(* interpreter publishes that the agent listens when an answer is overdue. *)
(***************************************************************************)
EXTENDS AgentTurn, TurnTaking

CONSTANTS MaxTurns,    \* bound: turns that the agent takes
          MaxResets,   \* bound: times that each side finds the clock set
                       \* back
          AfterFailure \* bound: whether one side is followed any further
                       \* when the other has failed

ASSUME BoundsAssumption ==
    MaxTurns \in Nat /\ MaxResets \in Nat /\ AfterFailure \in BOOLEAN

VARIABLES turns, resets

interpreterVars == <<agentSpeakingState, userSpeakingState,
                     agentSpeakingIntention, agentAge, userAge, together,
                     evaluated, heldUp, interpreterFailed, userEvents>>
vars == <<agentTurnVars, turnTakingVars, turns, resets>>

Init ==
    /\ InitTurn /\ InitTurnTaking
    /\ turns = 0
    /\ resets = [side \in {"agent", "interpreter"} |-> 0]

------------------------------------------------------------------------------
(* sendData("agentTurnState", ...) *)
PublishTurnState(states) ==
    /\ Len(dialogQueue) < MaxQueue
    /\ dialogQueue' = dialogQueue \o states
    /\ UNCHANGED <<interpreterVars, agentQueue>>

(* A turnTakingIntention arrives; the agent hears it or not. *)
ReceiveIntention ==
    /\ ~failed
    /\ agentQueue # << >>
    /\ agentQueue' = Tail(agentQueue)
    /\ IF Head(agentQueue) = "startSpeaking" /\ speakingState = "listening"
       THEN WantTurn
       ELSE UNCHANGED agentTurnVars
    /\ UNCHANGED <<interpreterVars, dialogQueue, turns, resets>>

AgentTakes ==
    /\ turns < MaxTurns
    /\ turns' = turns + 1
    /\ TakeTurn
    /\ UNCHANGED <<turnTakingVars, resets>>

AgentStarts ==
    /\ StartTurn
    /\ PublishTurnState(<<"speaking">>)
    /\ UNCHANGED <<turns, resets>>

(* Mutant: a turn that ends with a question is not announced to be over. *)
AgentGives_NotTold ==
    /\ GiveTurn
    /\ IF turnState' = "listening" THEN PublishTurnState(<<"listening">>)
       ELSE UNCHANGED turnTakingVars
    /\ UNCHANGED <<turns, resets>>

(* That an answer is expected is said after the end of the turn. *)
AgentGives ==
    /\ GiveTurn
    /\ PublishTurnState(IF turnState' = "listening" THEN <<"listening">>
                        ELSE <<"listening", "expectingAnswer">>)
    /\ UNCHANGED <<turns, resets>>

AgentResets ==
    /\ resets["agent"] < MaxResets
    /\ resets' = [resets EXCEPT !["agent"] = @ + 1]
    /\ ResetTurn
    /\ PublishTurnState(<<"listening">>)
    /\ UNCHANGED turns

(* Nothing is published any more, or not all that should be. *)
AgentFails ==
    /\ FailTurn
    /\ \/ turnState' = turnState /\ UNCHANGED turnTakingVars
       \/ /\ speakingState' = "listening" /\ turnState' \in Listening
          /\ PublishTurnState(IF turnState' = "listening" THEN <<"listening">>
                              ELSE <<"listening", "expectingAnswer">>)
    /\ UNCHANGED <<turns, resets>>

Agent == \/ ReceiveIntention \/ AgentTakes \/ AgentStarts \/ AgentGives
         \/ AgentResets \/ AgentFails

Quiet == UNCHANGED <<agentTurnVars, turns, resets>>

Interpreter ==
    /\ ActTurnTaking \/ OnDialogState \/ OnUserState \/ TurnTakingTime
    /\ Quiet

InterpreterResets ==
    /\ resets["interpreter"] < MaxResets
    /\ resets' = [resets EXCEPT !["interpreter"] = @ + 1]
    /\ TurnTakingClockReset
    /\ UNCHANGED <<agentTurnVars, turns>>

Next ==
    /\ AfterFailure \/ ~(failed \/ interpreterFailed)
    /\ Agent \/ Interpreter \/ InterpreterResets

Spec == Init /\ [][Next]_vars

(* An act() of the interpreter that no choice of the model decides. *)
DecidedAct ==
    /\ \E wants \in BOOLEAN :
          Wants(agentSpeakingState, userSpeakingState, agentAge, userAge,
                together) = {wants}
    /\ ActTurnTaking
    /\ Quiet

(* The components' loops run: act() is called again and again, messages are *)
(* taken, time passes, and a turn that was taken is given back (AgentTurn). *)
(* The user need not do anything, and what act() makes of a situation where *)
(* it may want the turn or not is not up to fairness.                       *)
FairSpec ==
    /\ Spec
    /\ WF_vars(AgentGives)
    /\ WF_vars(ReceiveIntention)
    /\ WF_vars(DecidedAct)
    /\ WF_vars(~evaluated /\ ActTurnTaking /\ Quiet)
    /\ WF_vars(OnDialogState /\ Quiet)
    /\ WF_vars(TurnTakingTime /\ Quiet)

------------------------------------------------------------------------------
(* Properties                                                               *)

(* When everything that was published has arrived, the interpreter does not *)
(* take an agent that listens for one that speaks: it could not ask for the *)
(* turn any more.  Only a proposer that fails in telling can mislead it.    *)
NotTakenForSpeaking ==
    ~failed /\ dialogQueue = << >> /\ agentSpeakingState = "SPEAKING"
        => speakingState # "listening"

(* The interpreter does not ask twice.  So if it has asked, the agent is    *)
(* listening and no message is under way, the proposer knows of it: a       *)
(* request that was dropped has been withdrawn by then.  The exception: the *)
(* loop of the interpreter was held up for a second after the news that the *)
(* agent listens, and found that it wanted the turn at once.                *)
RequestKept ==
    (/\ agentSpeakingIntention = "SPEAKING" /\ evaluated
     /\ dialogQueue = << >> /\ agentQueue = << >>
     /\ speakingState = "listening"
     /\ ~heldUp /\ ~failed /\ ~interpreterFailed)
        => speakingIntention # "null"

(* The dialogue goes on: when the user does not speak, an agent that        *)
(* listens comes to want the turn, whichever messages crossed before,       *)
(* unless a component fails or the interpreter was held up (RequestKept).   *)
SilenceEnds ==
    speakingState = "listening"
        ~> \/ speakingIntention # "null"
           \/ speakingState # "listening"
           \/ userSpeakingState = "SPEAKING"
           \/ failed \/ interpreterFailed \/ heldUp
==============================================================================
