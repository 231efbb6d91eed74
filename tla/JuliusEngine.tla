---------------------------- MODULE JuliusEngine ----------------------------
(***************************************************************************)
(* The recognition loop of the modified Julius engine, fed with feature    *)
(* vectors by an external program (SP_EXTERN): j_recognize_stream, the     *)
(* on-the-fly first pass, and the requests an application makes to pause,  *)
(* terminate and resume recognition or to change what is recognised.       *)
(*                                                                         *)
(* The engine runs on one thread.  Requests are made in its callbacks,     *)
(* which it calls in between all the steps below, or by another thread;    *)
(* they only set flags.  What the decoder makes of a frame is a free       *)
(* choice.  The build has no decoder-based voice detection (BACKEND_VAD);  *)
(* there is one feature stream.                                            *)
(***************************************************************************)
EXTENDS Integers, FiniteSets

CONSTANTS Processes,    \* recognition process instances
          Grammars,     \* those that use a grammar (LM_DFA)
          MaxFrames,    \* bound: frames of one segment
          MaxRequests,  \* bound: requests by the application
          MaxStreams    \* bound: calls of j_recognize_stream

ASSUME ProcessesAssumption == Grammars \subseteq Processes
ASSUME FramesAssumption == MaxFrames \in Nat \ {0}
ASSUME RequestsAssumption == MaxRequests \in Nat /\ MaxStreams \in Nat \ {0}

VARIABLES
    pc,               \* where the engine is
    segment,          \* jconf->decodeopt.segment: short-pause segmentation
    processActive, wantTerminate, wantReload,   \* the requests
    processOnline,    \* what the application was told last
    live, active,     \* RecogProcess.live, and the change booked for it
    processSegment,   \* the last segment ended at a short pause
    triggered,        \* the first pass of this segment has begun
    segmented,        \* RealBeam.last_is_segmented
    spStart,          \* mfcc->sparea_start: where the pause began; 0 when
                      \* it has been used, for it is not looked at again
    f,                \* frames of this segment decoded
    param,            \* frames kept from the last segment, in param ...
    rest,             \* ... and, until its end, in rest_param (0: NULL)
    input,            \* what mfc_module_read returned last
    pending,          \* mfcc_go: new_f - f
    ret,              \* the result of the first pass
    result,           \* the result of j_recognize_stream
    recOpen,          \* history: RECOGNITION_BEGIN was called, END not yet
    owed,             \* history: PASS1_BEGIN was called, RESULT not yet
    overrun,          \* history: frames of this segment decoded since
                      \* termination was wanted
    crossed,          \* history: the engine was paused by a request in
                      \* between its last look at process_active and what
                      \* it then told the application
    grammarPending,   \* history: the input is to be discarded for a change
                      \* of grammar, and the lexicon was not rebuilt yet
    streams, requests

requestVars == <<processActive, wantTerminate, wantReload>>
processVars == <<processOnline, live, active>>
pass1Vars == <<triggered, segmented, spStart, f, input, pending, ret>>
restVars == <<processSegment, param, rest>>
eventVars == <<recOpen, owed, overrun, crossed, grammarPending>>
vars == <<pc, segment, requestVars, processVars, pass1Vars, restVars,
          eventVars, result, streams, requests>>

Init ==
    /\ pc = "stopped"
    /\ segment \in BOOLEAN
    /\ processActive = TRUE /\ wantTerminate = FALSE /\ wantReload = FALSE
    /\ processOnline = FALSE
    /\ live = [p \in Processes |-> FALSE]
    /\ active = [p \in Processes |-> 1]
    /\ processSegment = FALSE /\ param = 0 /\ rest = 0
    /\ triggered = FALSE /\ segmented = FALSE /\ spStart = 0 /\ f = 0
    /\ input = "none" /\ pending = 0 /\ ret = 0
    /\ result = 0
    /\ recOpen = FALSE /\ owed = FALSE /\ overrun = 0
    /\ crossed = FALSE /\ grammarPending = FALSE
    /\ streams = 0 /\ requests = 0

------------------------------------------------------------------------------
(* Requests of the application.                                             *)

Request ==
    /\ requests < MaxRequests
    /\ requests' = requests + 1
    /\ UNCHANGED <<pc, segment, processOnline, live, pass1Vars, restVars,
                   recOpen, owed, result, streams>>
    /\ overrun' = IF wantTerminate' THEN overrun ELSE 0
    /\ crossed' = (crossed \/ (pc = "online" /\ ~processActive'))

(* An engine that is paused already ignores it. *)
j_request_pause ==
    /\ IF processActive
       THEN wantTerminate' = FALSE /\ wantReload' = TRUE /\ processActive' = FALSE
       ELSE UNCHANGED requestVars
    /\ UNCHANGED <<active, grammarPending>>
    /\ Request

(* So it does this: the input that is recognised is not cancelled then. *)
j_request_terminate ==
    /\ IF processActive
       THEN wantTerminate' = TRUE /\ wantReload' = TRUE /\ processActive' = FALSE
       ELSE UNCHANGED requestVars
    /\ UNCHANGED <<active, grammarPending>>
    /\ Request

j_request_resume ==
    /\ IF processActive
       THEN UNCHANGED requestVars
       ELSE wantTerminate' = FALSE /\ processActive' = TRUE /\ UNCHANGED wantReload
    /\ UNCHANGED <<active, grammarPending>>
    /\ Request

(* The engine is to rebuild its lexicon: after discarding the input         *)
(* (SM_TERMINATE), segmenting it (SM_PAUSE), or recognising it (SM_WAIT).   *)
schedule_grammar_update ==
    /\ IF processActive
       THEN \E method \in {"terminate", "pause", "wait"} :
               /\ wantTerminate' = (method = "terminate")
               /\ wantReload' = (method # "wait")
               /\ grammarPending' = (method = "terminate")
       ELSE UNCHANGED <<wantTerminate, wantReload, grammarPending>>
    /\ UNCHANGED <<processActive, active>>
    /\ Request

(* j_process_activate and j_process_deactivate, by name or by ID. *)
BookProcess(p, change) ==
    /\ active' = [active EXCEPT ![p] = change]
    /\ wantReload' = TRUE
    /\ UNCHANGED <<processActive, wantTerminate, grammarPending>>
    /\ Request

------------------------------------------------------------------------------
(* j_recognize_stream_core: the head of the loop.                           *)

Goto(label) ==
    /\ pc' = label
    /\ UNCHANGED <<segment, streams, requests>>

(* j_open_stream and the call of j_recognize_stream.  Whatever is left in   *)
(* param is dropped.                                                        *)
OpenStream ==
    /\ pc = "stopped" /\ streams < MaxStreams
    /\ streams' = streams + 1
    /\ pc' = "head"
    /\ param' = 0
    /\ UNCHANGED <<segment, requestVars, processVars, pass1Vars,
                   processSegment, rest, eventVars, result, requests>>

(* Booked changes are made; without a live process the engine is paused. *)
StartRecog ==
    /\ pc = "head"
    /\ Goto("announce")
    /\ live' = [p \in Processes |->
                 IF active[p] = 0 THEN live[p] ELSE active[p] = 1]
    /\ active' = [p \in Processes |-> 0]
    /\ IF processActive /\ \A p \in Processes : ~live'[p]
       THEN /\ wantTerminate' = FALSE /\ wantReload' = TRUE
            /\ processActive' = FALSE
       ELSE UNCHANGED requestVars
    /\ crossed' = FALSE
    /\ UNCHANGED <<processOnline, pass1Vars, restVars, recOpen, owed, overrun,
                   grammarPending, result>>

(* Mutant: the application is not told again after the check. *)
Announce_Once(from, to) ==
    /\ pc = from
    /\ Goto(to)
    /\ processOnline' = IF from = "announce" THEN processActive ELSE processOnline
    /\ UNCHANGED <<requestVars, live, active, pass1Vars, restVars, eventVars,
                   result>>

(* The application is told that the engine is online or offline, if it has  *)
(* not been told so last.                                                   *)
Announce(from, to) ==
    /\ pc = from
    /\ Goto(to)
    /\ processOnline' = processActive
    /\ UNCHANGED <<requestVars, live, active, pass1Vars, restVars, eventVars,
                   result>>

(* After the poll callback. *)
j_reset_reload ==
    /\ pc = "reset"
    /\ Goto("check")
    /\ wantReload' = FALSE
    /\ UNCHANGED <<processActive, wantTerminate, processVars, pass1Vars,
                   restVars, eventVars, result>>

(* Mutant: a pause is not noticed here. *)
CheckActive_NoPause ==
    /\ pc = "check"
    /\ Goto("online")
    /\ UNCHANGED <<requestVars, processVars, pass1Vars, restVars, eventVars,
                   result>>

(* Paused: return 1. *)
CheckActive ==
    /\ pc = "check"
    /\ Goto(IF processActive THEN "online" ELSE "paused")
    /\ UNCHANGED <<requestVars, processVars, pass1Vars, restVars, eventVars,
                   result>>

(* The lexicon is rebuilt; processes without a grammar are booked to be     *)
(* inactive, and the loop starts again.                                     *)
UpdateGrammars ==
    /\ pc = "grammar"
    /\ grammarPending' = FALSE
    /\ \/ Goto("pass1") /\ UNCHANGED active
       \/ /\ \E empty \in SUBSET {p \in Grammars : live[p]} \ {{}} :
                active' = [p \in Processes |-> IF p \in empty THEN -1 ELSE active[p]]
          /\ Goto("head")
    /\ UNCHANGED <<requestVars, processOnline, live, pass1Vars, restVars,
                   recOpen, owed, overrun, crossed, result>>

(* The pause callbacks of the application return, and the loop is entered   *)
(* again: param is initialised.                                             *)
PauseFunction ==
    /\ pc = "paused"
    /\ Goto("head")
    /\ param' = 0
    /\ UNCHANGED <<requestVars, processVars, pass1Vars, processSegment, rest,
                   eventVars, result>>

------------------------------------------------------------------------------
(* The first pass.                                                          *)

(* The decoder ends the segment at the frame that ends a pause.  The pause  *)
(* that an input begins with does not count (first_sparea), so it began     *)
(* after the first frame, and before this one.                              *)
Segmented(n) ==
    /\ segment
    /\ spStart' \in 1 .. n - 1
    /\ segmented' = TRUE

(* A new input. *)
RealTimePipeLinePrepare ==
    /\ pc = "pass1" /\ ~processSegment
    /\ Goto("read")
    /\ f' = 0 /\ triggered' = FALSE
    /\ input' = "none"
    /\ overrun' = 0
    /\ UNCHANGED <<requestVars, processVars, segmented, spStart, pending, ret,
                   restVars, recOpen, owed, crossed, grammarPending, result>>

(* The input goes on after a short pause, with the frames kept from the     *)
(* last segment.                                                            *)
RealTimeResume ==
    /\ pc = "pass1" /\ processSegment
    /\ Goto("resume")
    /\ f' = 0 /\ triggered' = (param > 0)
    /\ owed' = (param > 0 \/ owed)
    /\ input' = "none"
    /\ overrun' = 0
    /\ UNCHANGED <<requestVars, processVars, segmented, spStart, pending, ret,
                   restVars, recOpen, crossed, grammarPending, result>>

(* Frames decoded although termination is wanted. *)
CountFrame == overrun' = IF wantTerminate THEN overrun + 1 ELSE 0

(* They are all decoded before anything else is read or looked at; the      *)
(* decoder may fail, or end the segment again, with f + 1 of them.          *)
ResumeFrame ==
    /\ pc = "resume" /\ f < param
    /\ CountFrame
    /\ \/ /\ Goto("stopped") /\ result' = -1
          /\ UNCHANGED <<f, ret, segmented, spStart>>
       \/ /\ Segmented(f)
          /\ Goto("pass1end") /\ ret' = 1
          /\ UNCHANGED <<f, result>>
       \/ /\ f' = f + 1
          /\ Goto("resume")
          /\ UNCHANGED <<ret, segmented, spStart, result>>
    /\ UNCHANGED <<requestVars, processVars, triggered, input, pending,
                   restVars, recOpen, owed, crossed, grammarPending>>

ResumeDone ==
    /\ pc = "resume" /\ f = param
    /\ Goto("read")
    /\ UNCHANGED <<requestVars, processVars, pass1Vars, restVars, eventVars,
                   result>>

(* mfc_module_read.  On an error new_f is not set, and it is not            *)
(* initialised: at the first read it may be anything.                       *)
mfc_module_read ==
    /\ pc = "read"
    /\ Goto("poll")
    /\ input' \in {"frame", "end", "segment", "error"}
    /\ input' = "frame" => f < MaxFrames
    /\ \/ pending' = IF input' = "frame" THEN 1 ELSE 0
       \/ input' = "error" /\ input = "none" /\ pending' \in 1 .. MaxFrames - f
    /\ segmented' = FALSE
    /\ UNCHANGED <<requestVars, processVars, triggered, spStart, f, ret,
                   restVars, eventVars, result>>

(* Mutant: a request to terminate is taken for one to pause. *)
callback_check_in_adin_NoTerminate ==
    IF wantReload THEN -1 ELSE 0

callback_check_in_adin ==
    CASE wantTerminate -> -2 [] ~wantTerminate /\ wantReload -> -1 [] OTHER -> 0

(* A pause is heard only before the first frame. *)
PollCallback ==
    /\ pc = "poll"
    /\ IF \/ callback_check_in_adin = -2
          \/ callback_check_in_adin = -1 /\ f = 0
       THEN Goto("pass1end") /\ ret' = -2
       ELSE Goto("frame") /\ UNCHANGED ret
    /\ UNCHANGED <<requestVars, processVars, triggered, segmented, spStart, f,
                   input, pending, restVars, eventVars, result>>

(* The callbacks at the first frame of an input, or of a segment that has   *)
(* no frames from before.                                                   *)
BeginCallbacks ==
    IF f = 0
    THEN /\ triggered' = TRUE
         /\ owed' = TRUE
         /\ recOpen' = (recOpen \/ ~segment \/ ~processSegment)
    ELSE UNCHANGED <<triggered, owed, recOpen>>

(* Where mfcc_go goes on, by what was read. *)
EndOfInput ==
    IF input = "frame" THEN Goto("read") /\ UNCHANGED ret
    ELSE /\ Goto("pass1end")
         /\ ret' = CASE input = "end" -> 0 [] input = "error" -> -1
                     [] input = "segment" -> 1

(* proceed_one_frame: the decoder fails, ends the segment, or goes on. *)
proceed_one_frame ==
    /\ pc = "frame" /\ pending > 0
    /\ BeginCallbacks
    /\ CountFrame
    /\ \/ /\ Goto("pass1end") /\ ret' = -1 /\ pending' = 0
          /\ UNCHANGED <<f, segmented, spStart>>
       \/ /\ Segmented(f)
          /\ Goto("pass1end") /\ ret' = 2 /\ pending' = 0
          /\ UNCHANGED f
       \/ /\ f' = f + 1 /\ pending' = pending - 1
          /\ IF pending > 1 THEN Goto("frame") /\ UNCHANGED ret ELSE EndOfInput
          /\ UNCHANGED <<segmented, spStart>>
    /\ UNCHANGED <<requestVars, processVars, input, restVars, crossed,
                   grammarPending, result>>

NoFrame ==
    /\ pc = "frame" /\ pending = 0
    /\ EndOfInput
    /\ UNCHANGED <<requestVars, processVars, triggered, segmented, spStart, f,
                   input, pending, restVars, eventVars, result>>

------------------------------------------------------------------------------
(* The end of the first pass, the second pass, the end of the segment.      *)

(* result_error: the segment is rejected, if it had any input. *)
result_error == owed' = (owed /\ f = 0)

(* Mutant: nothing is reported of an input that is cancelled. *)
Cancel_Silent ==
    /\ pc = "pass1end" /\ ret < 0
    /\ ret = -2 \/ wantTerminate
    /\ Goto("end")
    /\ param' = 0 /\ rest' = 0
    /\ UNCHANGED <<requestVars, processVars, pass1Vars, processSegment,
                   eventVars, result>>

(* The input is cancelled (RealTimeTerminate); no rest is left of it. *)
Cancel ==
    /\ pc = "pass1end" /\ ret < 0
    /\ ret = -2 \/ wantTerminate
    /\ Goto("end")
    /\ param' = 0 /\ rest' = 0
    /\ IF triggered THEN result_error ELSE UNCHANGED owed
    /\ UNCHANGED <<requestVars, processVars, pass1Vars, processSegment,
                   recOpen, overrun, crossed, grammarPending, result>>

(* An error: return -1. *)
Pass1Error ==
    /\ pc = "pass1end" /\ ret = -1 /\ ~wantTerminate
    /\ Goto("stopped")
    /\ result' = -1
    /\ UNCHANGED <<requestVars, processVars, pass1Vars, restVars, eventVars>>

(* Mutant: the frame after the last one counts. *)
RealTimeParam_OneTooMany ==
    /\ pc = "pass1end" /\ ret >= 0
    /\ Goto("decide")
    /\ rest' = IF segmented THEN (f + 2) - spStart ELSE 0
    /\ param' = 0 /\ spStart' = 0
    /\ UNCHANGED <<requestVars, processVars, triggered, segmented, f, input,
                   pending, ret, processSegment, eventVars, result>>

(* RealTimeParam and finalize_segment: a segmented input has f + 1 frames,  *)
(* and those from spStart on are kept as the rest.                          *)
RealTimeParam ==
    /\ pc = "pass1end" /\ ret >= 0
    /\ Goto("decide")
    /\ rest' = IF segmented THEN (f + 1) - spStart ELSE 0
    /\ param' = 0 /\ spStart' = 0
    /\ UNCHANGED <<requestVars, processVars, triggered, segmented, f, input,
                   pending, ret, processSegment, eventVars, result>>

(* The input is cancelled, or rejected (-rejectshort, GMM). *)
Reject ==
    /\ pc = "decide"
    /\ Goto("end")
    /\ result_error
    /\ UNCHANGED <<requestVars, processVars, pass1Vars, restVars, recOpen,
                   overrun, crossed, grammarPending, result>>

(* The second pass is about to start. *)
Accept ==
    /\ pc = "decide" /\ ~wantTerminate
    /\ Goto("pass2")
    /\ UNCHANGED <<requestVars, processVars, pass1Vars, restVars, eventVars,
                   result>>

(* The second pass, and the result. *)
Pass2 ==
    /\ pc = "pass2"
    /\ Goto("end")
    /\ owed' = FALSE
    /\ UNCHANGED <<requestVars, processVars, pass1Vars, restVars, recOpen,
                   overrun, crossed, grammarPending, result>>

(* Mutant: RECOGNITION_END is called at the end of every segment. *)
EndRecog_EndsAll ==
    /\ pc = "end"
    /\ processSegment' = (segment /\ rest > 0)
    /\ param' = rest /\ rest' = 0
    /\ recOpen' = FALSE
    /\ IF processSegment' \/ ret > 0 \/ ret = -1
       THEN Goto("head") /\ UNCHANGED result
       ELSE Goto("stopped") /\ result' = 0
    /\ overrun' = 0
    /\ UNCHANGED <<requestVars, processVars, pass1Vars, owed, crossed,
                   grammarPending>>

(* With a rest the recognition goes on; without, it has ended, and the loop *)
(* is left, returning 0, if the input has ended or was cancelled.           *)
EndRecog ==
    /\ pc = "end"
    /\ processSegment' = (segment /\ rest > 0)
    /\ param' = rest /\ rest' = 0
    /\ recOpen' = (recOpen /\ processSegment')
    /\ IF processSegment' \/ ret > 0 \/ ret = -1
       THEN Goto("head") /\ UNCHANGED result
       ELSE Goto("stopped") /\ result' = 0
    /\ overrun' = 0
    /\ UNCHANGED <<requestVars, processVars, pass1Vars, owed, crossed,
                   grammarPending>>

------------------------------------------------------------------------------
Application ==
    \/ j_request_pause \/ j_request_terminate \/ j_request_resume
    \/ schedule_grammar_update
    \/ \E p \in Processes : BookProcess(p, 1) \/ BookProcess(p, -1)
    \/ OpenStream

Engine ==
    \/ StartRecog \/ Announce("announce", "reset") \/ j_reset_reload
    \/ CheckActive \/ Announce("online", "grammar") \/ UpdateGrammars
    \/ RealTimePipeLinePrepare \/ RealTimeResume \/ ResumeFrame \/ ResumeDone
    \/ mfc_module_read \/ PollCallback \/ proceed_one_frame \/ NoFrame
    \/ Cancel \/ Pass1Error \/ RealTimeParam \/ Reject \/ Accept \/ Pass2
    \/ EndRecog

Next == Application \/ Engine \/ PauseFunction

Spec == Init /\ [][Next]_vars

(* The engine's thread runs and the feeder returns from every read.  No     *)
(* input goes on for ever (MaxFrames).  Pause functions need not return.    *)
FairSpec == Spec /\ WF_vars(Engine)

------------------------------------------------------------------------------
(* Properties                                                               *)

Places == {"stopped", "head", "announce", "reset", "check", "online", "grammar",
           "paused", "pass1", "resume", "read", "poll", "frame", "pass1end",
           "decide", "pass2", "end"}

(* Every variable has its type; fewer frames are kept for the next segment  *)
(* than this one had, so that segments of what is kept come to an end.      *)
TypeOK ==
    /\ pc \in Places
    /\ {segment, processActive, wantTerminate, wantReload, processOnline,
        processSegment, triggered, segmented, recOpen, owed, crossed,
        grammarPending} \subseteq BOOLEAN
    /\ live \in [Processes -> BOOLEAN]
    /\ active \in [Processes -> -1 .. 1]
    /\ f \in 0 .. MaxFrames /\ param \in 0 .. MaxFrames /\ spStart \in Nat
    /\ rest \in 0 .. f /\ pending \in 0 .. MaxFrames
    /\ input \in {"none", "frame", "end", "segment", "error"}
    /\ ret \in -2 .. 2 /\ result \in -1 .. 0
    /\ overrun \in Nat /\ streams \in Nat /\ requests \in Nat

(* In between two segments; "stopped" if j_recognize_stream has returned.   *)
BetweenSegments == pc \in {"stopped", "head", "announce", "reset", "check",
                           "online", "grammar", "paused"}

(* Every segment whose first pass was announced and that got past its first *)
(* frame gets a result, recognised or rejected, before the next one begins  *)
(* and before the engine pauses or stops, whatever was requested meanwhile; *)
(* only an error forfeits it.  A segment cancelled in its first frame gets  *)
(* PASS1_BEGIN and no result.                                               *)
SegmentAnswered == BetweenSegments /\ result # -1 /\ f > 0 => ~owed

(* In between two segments the application has seen RECOGNITION_BEGIN       *)
(* without RECOGNITION_END just if the engine will go on with the same      *)
(* input; so no recognition begins twice, and none is left open by a        *)
(* cancelled input or a pause.  Only an error leaves it open.               *)
BracketsMatch == BetweenSegments /\ result # -1 => recOpen = processSegment

FirstPass == pc \in {"resume", "read", "poll", "frame", "pass1end"}

(* "it will stop immediately": once a request to terminate was taken, no    *)
(* more of the input is decoded than the frame at hand or, in a segment     *)
(* that goes on after a pause, what was kept for it.  Only a read error may *)
(* come with more.                                                          *)
StopsAtOnce ==
    FirstPass /\ input # "error"
        => overrun <= IF param > 1 THEN param ELSE 1

(* While it recognises, the application has been told that the engine is    *)
(* online, even if a resume came in during the head of the loop; the one    *)
(* exception is a request to pause or terminate that came in right in       *)
(* between the last look at process_active and the announcement.            *)
OnlineWhileRecognising == ~BetweenSegments /\ ~processOnline => crossed

(* A request to pause or to terminate stops the engine, unless it is        *)
(* revoked, wherever in the loop it comes in.                               *)
StopHonoured ==
    ~processActive ~> pc \in {"paused", "stopped"} \/ processActive

(* "After the update, recognition will restart": an input is cancelled for  *)
(* a change of grammar only until the lexicon is rebuilt.                   *)
RestartsAfterUpdate ==
    pc = "pass1end" /\ ret = -2 /\ processActive /\ wantTerminate
        => grammarPending
==============================================================================
