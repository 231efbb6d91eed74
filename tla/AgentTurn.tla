------------------------------ MODULE AgentTurn ------------------------------
(***************************************************************************)
(* What the utterance action proposer promises about the agent's turns,    *)
(* whatever it keeps of responses, callbacks and times: the agent listens, *)
(* may be asked to take the turn, takes it, is heard to speak, and gives   *)
(* the turn back; those who follow the dialogue are told when it speaks    *)
(* and when it listens again.  UtteranceActionProposer implements this     *)
(* specification, and DialogueTurn composes it with the interpreter.       *)
(***************************************************************************)
VARIABLES speakingState,      \* "null" until the first turn
          speakingIntention,  \* what the agent was asked to do
          turnState,          \* the agentTurnState published last
          taken,              \* the agent has taken a turn before
          failed              \* the component has ended with an exception

agentTurnVars == <<speakingState, speakingIntention, turnState, taken, failed>>

Listening == {"listening", "expectingAnswer"}

InitTurn ==
    /\ speakingState = "null"
    /\ speakingIntention = "null"
    /\ turnState = "none"
    /\ taken = FALSE
    /\ failed = FALSE

(* The agent is asked to take the turn; only a listening one hears it. *)
WantTurn ==
    /\ ~failed
    /\ speakingState = "listening"
    /\ speakingIntention' \in {"want_turn", "retake_turn"}
    /\ UNCHANGED <<speakingState, turnState, taken, failed>>

(* A response is executed, asked for or not.  Nobody is told. *)
TakeTurn ==
    /\ ~failed
    /\ speakingState' = "preparing"
    /\ speakingIntention' = "null"
    /\ taken' = TRUE
    /\ UNCHANGED <<turnState, failed>>

(* An utterance is heard, of this turn or of an earlier one. *)
StartTurn ==
    /\ ~failed
    /\ taken
    /\ speakingState # "speaking"
    /\ speakingState' = "speaking"
    /\ turnState' = "speaking"
    /\ UNCHANGED <<speakingIntention, taken, failed>>

(* It has ended, or it took too long. *)
GiveTurn ==
    /\ ~failed
    /\ speakingState \in {"preparing", "speaking"}
    /\ speakingState' = "listening"
    /\ turnState' \in Listening
    /\ UNCHANGED <<speakingIntention, taken, failed>>

(* The clock was set back. *)
ResetTurn ==
    /\ ~failed
    /\ speakingState' = "listening"
    /\ turnState' = "listening"
    /\ UNCHANGED <<speakingIntention, taken, failed>>

(* The component fails in the middle of any of these, when it cannot tell   *)
(* the others: its state is the new one by then, and what it has to tell at *)
(* the end of a turn may be told in part.                                   *)
FailTurn ==
    /\ ~failed
    /\ failed' = TRUE
    /\ \/ UNCHANGED <<speakingState, turnState>>
       \/ taken /\ speakingState' = "speaking" /\ UNCHANGED turnState
       \/ speakingState' = "listening" /\ turnState' \in Listening \cup {turnState}
    /\ UNCHANGED <<speakingIntention, taken>>

NextTurn == WantTurn \/ TakeTurn \/ StartTurn \/ GiveTurn \/ ResetTurn \/ FailTurn

TurnSpec == InitTurn /\ [][NextTurn]_agentTurnVars

(* A turn that was taken is given back. *)
FairTurn == TurnSpec /\ WF_agentTurnVars(GiveTurn)
==============================================================================
