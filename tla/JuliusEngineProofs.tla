--------------------------- MODULE JuliusEngineProofs ---------------------------
(***************************************************************************)
(* The safety properties of JuliusEngine, for any set of processes, any    *)
(* length of the segments and any number of requests and streams.          *)
(***************************************************************************)
EXTENDS JuliusEngine, TLAPS

(* The first pass of this segment has begun: f and triggered are its own. *)
InSegment == pc \in {"resume", "read", "poll", "frame", "pass1end", "decide",
                     "pass2", "end"}

Flags ==
    /\ segment \in BOOLEAN /\ processActive \in BOOLEAN
    /\ wantTerminate \in BOOLEAN /\ wantReload \in BOOLEAN
    /\ processOnline \in BOOLEAN /\ processSegment \in BOOLEAN
    /\ triggered \in BOOLEAN /\ segmented \in BOOLEAN
    /\ recOpen \in BOOLEAN /\ owed \in BOOLEAN
    /\ crossed \in BOOLEAN /\ grammarPending \in BOOLEAN

Types ==
    /\ pc \in Places
    /\ live \in [Processes -> BOOLEAN]
    /\ active \in [Processes -> -1 .. 1]
    /\ input \in {"none", "frame", "end", "segment", "error"}
    /\ ret \in -2 .. 2 /\ result \in -1 .. 0
    /\ streams \in Nat /\ requests \in Nat

(* Frames: a frame is only begun where there is room for it, a rest is kept *)
(* only until the end of its segment, and a segment that ended at a pause   *)
(* has frames before the pause.                                             *)
Frames ==
    /\ f \in 0 .. MaxFrames /\ param \in 0 .. MaxFrames
    /\ rest \in 0 .. f /\ pending \in 0 .. MaxFrames /\ spStart \in Nat
    /\ pc \notin {"decide", "pass2", "end"} => rest = 0
    /\ pc = "resume" => f <= param /\ input = "none"
    /\ pc = "read" => input \in {"none", "frame"}
    /\ pc \in {"poll", "frame"} =>
          /\ f + pending <= MaxFrames
          /\ input # "none" /\ ~segmented
          /\ input # "error" => pending <= 1
    /\ pc = "pass1end" /\ segmented => spStart \in 1 .. f - 1

(* Frames decoded since termination was wanted: none when mfcc_go begins a  *)
(* frame, and while it resumes no more than it has decoded.                 *)
Overrun ==
    /\ overrun \in Nat
    /\ FirstPass /\ overrun > 0 => wantTerminate
    /\ pc = "resume" => overrun <= f
    /\ pc = "frame" /\ input # "error" => overrun = 0
    /\ StopsAtOnce

(* The engine is active when it passes the check, or a request has come in  *)
(* since; after the announcement the application knows.                     *)
Online ==
    /\ pc = "online" /\ ~processActive => crossed
    /\ pc = "grammar" /\ ~processOnline => crossed
    /\ OnlineWhileRecognising

(* RECOGNITION_BEGIN was called for what is being recognised. *)
Brackets ==
    /\ pc = "resume" => processSegment
    /\ result # -1 =>
          /\ ~InSegment => recOpen = processSegment
          /\ InSegment /\ (f > 0 \/ processSegment) => recOpen

(* PASS1_BEGIN was called for what is being decoded, and answered. *)
Answers ==
    /\ InSegment /\ f > 0 => triggered
    /\ pc = "resume" /\ param > 0 => triggered
    /\ pc = "end" /\ f > 0 => ~owed
    /\ SegmentAnswered

EngineInv ==
    Flags /\ Types /\ Frames /\ Overrun /\ Online /\ Brackets /\ Answers

------------------------------------------------------------------------------
(* A request sets flags and nothing else. *)
LEMMA RequestStep ==
    ASSUME EngineInv, Request, active' \in [Processes -> -1 .. 1],
           processActive' \in BOOLEAN, wantTerminate' \in BOOLEAN,
           wantReload' \in BOOLEAN, grammarPending' \in BOOLEAN
    PROVE  EngineInv'
  <1> USE DEF EngineInv, Request, pass1Vars, restVars
  <1>1. Flags'
    BY DEF Flags
  <1>2. Types' /\ Frames'
    BY DEF Types, Frames
  <1>3. Overrun'
    <2>1. /\ overrun \in Nat /\ param \in Nat /\ f \in Nat
          /\ (overrun' = overrun /\ wantTerminate') \/ overrun' = 0
      BY DEF Overrun, Frames
    <2>2. CASE overrun' = overrun /\ wantTerminate'
      BY <2>1, <2>2 DEF Overrun, StopsAtOnce, FirstPass
    <2>3. CASE overrun' = 0
      BY <2>1, <2>3 DEF Overrun, StopsAtOnce, FirstPass
    <2> QED
      BY <2>1, <2>2, <2>3
  <1>4. Online'
    BY DEF Flags, Online, OnlineWhileRecognising, BetweenSegments
  <1>5. Brackets'
    BY DEF Brackets, InSegment
  <1>6. Answers'
    BY DEF Answers, SegmentAnswered, BetweenSegments, InSegment
  <1> QED
    BY <1>1, <1>2, <1>3, <1>4, <1>5, <1>6

------------------------------------------------------------------------------
(* One lemma for each other step. *)

LEMMA OpenStreamStep ==
    ASSUME EngineInv, OpenStream
    PROVE  EngineInv'
  <1> USE DEF EngineInv, requestVars, processVars, pass1Vars, restVars, eventVars
  <1>1. Flags'
    BY DEF Flags, OpenStream
  <1>2. Types'
    BY DEF Flags, Types, Places, OpenStream
  <1>3. Frames'
    BY FramesAssumption DEF Flags, Types, Frames, OpenStream
  <1>4. Overrun'
    BY DEF Flags, Types, Frames, Overrun, StopsAtOnce, FirstPass, OpenStream
  <1>5. Online'
    BY DEF Flags, Types, Places, Online, OnlineWhileRecognising,
         BetweenSegments, OpenStream
  <1>6. Brackets'
    BY DEF Flags, Types, Frames, Brackets, InSegment, OpenStream
  <1>7. Answers'
    BY DEF Flags, Types, Frames, Answers, SegmentAnswered, BetweenSegments,
         InSegment, OpenStream
  <1> QED
    BY <1>1, <1>2, <1>3, <1>4, <1>5, <1>6, <1>7

LEMMA StartRecogStep ==
    ASSUME EngineInv, StartRecog
    PROVE  EngineInv'
  <1> USE DEF EngineInv, requestVars, processVars, pass1Vars, restVars, eventVars
  <1>1. Flags'
    BY DEF Flags, StartRecog, Goto
  <1>2. Types'
    <2>1. /\ \A p \in Processes :
                (IF active[p] = 0 THEN live[p] ELSE active[p] = 1) \in BOOLEAN
          /\ live' = [p \in Processes |->
                       IF active[p] = 0 THEN live[p] ELSE active[p] = 1]
      BY DEF Types, StartRecog
    <2>2. live' \in [Processes -> BOOLEAN]
      BY <2>1
    <2>3. active' \in [Processes -> -1 .. 1]
      BY DEF StartRecog
    <2> QED
      BY <2>2, <2>3 DEF Types, Places, StartRecog, Goto
  <1>3. Frames'
    BY FramesAssumption DEF Flags, Types, Frames, StartRecog, Goto
  <1>4. Overrun'
    BY DEF Flags, Types, Frames, Overrun, StopsAtOnce, FirstPass, StartRecog,
         Goto
  <1>5. Online'
    BY DEF Flags, Types, Places, Online, OnlineWhileRecognising,
         BetweenSegments, StartRecog, Goto
  <1>6. Brackets'
    BY DEF Flags, Types, Frames, Brackets, InSegment, StartRecog, Goto
  <1>7. Answers'
    BY DEF Flags, Types, Frames, Answers, SegmentAnswered, BetweenSegments,
         InSegment, StartRecog, Goto
  <1> QED
    BY <1>1, <1>2, <1>3, <1>4, <1>5, <1>6, <1>7

LEMMA AnnounceStep ==
    ASSUME EngineInv, Announce("announce", "reset")
    PROVE  EngineInv'
  <1> USE DEF EngineInv, requestVars, processVars, pass1Vars, restVars, eventVars
  <1>1. Flags'
    BY DEF Flags, Announce, Goto
  <1>2. Types'
    BY DEF Flags, Types, Places, Announce, Goto
  <1>3. Frames'
    BY FramesAssumption DEF Flags, Types, Frames, Announce, Goto
  <1>4. Overrun'
    BY DEF Flags, Types, Frames, Overrun, StopsAtOnce, FirstPass, Announce,
         Goto
  <1>5. Online'
    BY DEF Flags, Types, Places, Online, OnlineWhileRecognising,
         BetweenSegments, Announce, Goto
  <1>6. Brackets'
    BY DEF Flags, Types, Frames, Brackets, InSegment, Announce, Goto
  <1>7. Answers'
    BY DEF Flags, Types, Frames, Answers, SegmentAnswered, BetweenSegments,
         InSegment, Announce, Goto
  <1> QED
    BY <1>1, <1>2, <1>3, <1>4, <1>5, <1>6, <1>7

LEMMA AnnounceAgainStep ==
    ASSUME EngineInv, Announce("online", "grammar")
    PROVE  EngineInv'
  <1> USE DEF EngineInv, requestVars, processVars, pass1Vars, restVars, eventVars
  <1>1. Flags'
    BY DEF Flags, Announce, Goto
  <1>2. Types'
    BY DEF Flags, Types, Places, Announce, Goto
  <1>3. Frames'
    BY FramesAssumption DEF Flags, Types, Frames, Announce, Goto
  <1>4. Overrun'
    BY DEF Flags, Types, Frames, Overrun, StopsAtOnce, FirstPass, Announce,
         Goto
  <1>5. Online'
    BY DEF Flags, Types, Places, Online, OnlineWhileRecognising,
         BetweenSegments, Announce, Goto
  <1>6. Brackets'
    BY DEF Flags, Types, Frames, Brackets, InSegment, Announce, Goto
  <1>7. Answers'
    BY DEF Flags, Types, Frames, Answers, SegmentAnswered, BetweenSegments,
         InSegment, Announce, Goto
  <1> QED
    BY <1>1, <1>2, <1>3, <1>4, <1>5, <1>6, <1>7

LEMMA JResetReloadStep ==
    ASSUME EngineInv, j_reset_reload
    PROVE  EngineInv'
  <1> USE DEF EngineInv, requestVars, processVars, pass1Vars, restVars, eventVars
  <1>1. Flags'
    BY DEF Flags, j_reset_reload, Goto
  <1>2. Types'
    BY DEF Flags, Types, Places, j_reset_reload, Goto
  <1>3. Frames'
    BY FramesAssumption DEF Flags, Types, Frames, j_reset_reload, Goto
  <1>4. Overrun'
    BY DEF Flags, Types, Frames, Overrun, StopsAtOnce, FirstPass,
         j_reset_reload, Goto
  <1>5. Online'
    BY DEF Flags, Types, Places, Online, OnlineWhileRecognising,
         BetweenSegments, j_reset_reload, Goto
  <1>6. Brackets'
    BY DEF Flags, Types, Frames, Brackets, InSegment, j_reset_reload, Goto
  <1>7. Answers'
    BY DEF Flags, Types, Frames, Answers, SegmentAnswered, BetweenSegments,
         InSegment, j_reset_reload, Goto
  <1> QED
    BY <1>1, <1>2, <1>3, <1>4, <1>5, <1>6, <1>7

LEMMA CheckActiveStep ==
    ASSUME EngineInv, CheckActive
    PROVE  EngineInv'
  <1> USE DEF EngineInv, requestVars, processVars, pass1Vars, restVars, eventVars
  <1>1. Flags'
    BY DEF Flags, CheckActive, Goto
  <1>2. Types'
    BY DEF Flags, Types, Places, CheckActive, Goto
  <1>3. Frames'
    BY FramesAssumption DEF Flags, Types, Frames, CheckActive, Goto
  <1>4. Overrun'
    BY DEF Flags, Types, Frames, Overrun, StopsAtOnce, FirstPass,
         CheckActive, Goto
  <1>5. Online'
    BY DEF Flags, Types, Places, Online, OnlineWhileRecognising,
         BetweenSegments, CheckActive, Goto
  <1>6. Brackets'
    BY DEF Flags, Types, Frames, Brackets, InSegment, CheckActive, Goto
  <1>7. Answers'
    BY DEF Flags, Types, Frames, Answers, SegmentAnswered, BetweenSegments,
         InSegment, CheckActive, Goto
  <1> QED
    BY <1>1, <1>2, <1>3, <1>4, <1>5, <1>6, <1>7

LEMMA UpdateGrammarsStep ==
    ASSUME EngineInv, UpdateGrammars
    PROVE  EngineInv'
  <1> USE DEF EngineInv, requestVars, processVars, pass1Vars, restVars, eventVars
  <1>1. Flags'
    BY DEF Flags, UpdateGrammars, Goto
  <1>2. Types'
    BY DEF Flags, Types, Places, UpdateGrammars, Goto
  <1>3. Frames'
    BY FramesAssumption DEF Flags, Types, Frames, UpdateGrammars, Goto
  <1>4. Overrun'
    BY DEF Flags, Types, Frames, Overrun, StopsAtOnce, FirstPass,
         UpdateGrammars, Goto
  <1>5. Online'
    BY DEF Flags, Types, Places, Online, OnlineWhileRecognising,
         BetweenSegments, UpdateGrammars, Goto
  <1>6. Brackets'
    BY DEF Flags, Types, Frames, Brackets, InSegment, UpdateGrammars, Goto
  <1>7. Answers'
    BY DEF Flags, Types, Frames, Answers, SegmentAnswered, BetweenSegments,
         InSegment, UpdateGrammars, Goto
  <1> QED
    BY <1>1, <1>2, <1>3, <1>4, <1>5, <1>6, <1>7

LEMMA PauseFunctionStep ==
    ASSUME EngineInv, PauseFunction
    PROVE  EngineInv'
  <1> USE DEF EngineInv, requestVars, processVars, pass1Vars, restVars, eventVars
  <1>1. Flags'
    BY DEF Flags, PauseFunction, Goto
  <1>2. Types'
    BY DEF Flags, Types, Places, PauseFunction, Goto
  <1>3. Frames'
    BY FramesAssumption DEF Flags, Types, Frames, PauseFunction, Goto
  <1>4. Overrun'
    BY DEF Flags, Types, Frames, Overrun, StopsAtOnce, FirstPass,
         PauseFunction, Goto
  <1>5. Online'
    BY DEF Flags, Types, Places, Online, OnlineWhileRecognising,
         BetweenSegments, PauseFunction, Goto
  <1>6. Brackets'
    BY DEF Flags, Types, Frames, Brackets, InSegment, PauseFunction, Goto
  <1>7. Answers'
    BY DEF Flags, Types, Frames, Answers, SegmentAnswered, BetweenSegments,
         InSegment, PauseFunction, Goto
  <1> QED
    BY <1>1, <1>2, <1>3, <1>4, <1>5, <1>6, <1>7

LEMMA RealTimePipeLinePrepareStep ==
    ASSUME EngineInv, RealTimePipeLinePrepare
    PROVE  EngineInv'
  <1> USE DEF EngineInv, requestVars, processVars, pass1Vars, restVars, eventVars
  <1>1. Flags'
    BY DEF Flags, RealTimePipeLinePrepare, Goto
  <1>2. Types'
    BY DEF Flags, Types, Places, RealTimePipeLinePrepare, Goto
  <1>3. Frames'
    BY FramesAssumption DEF Flags, Types, Frames, RealTimePipeLinePrepare,
         Goto
  <1>4. Overrun'
    BY DEF Flags, Types, Frames, Overrun, StopsAtOnce, FirstPass,
         RealTimePipeLinePrepare, Goto
  <1>5. Online'
    BY DEF Flags, Types, Places, Online, OnlineWhileRecognising,
         BetweenSegments, RealTimePipeLinePrepare, Goto
  <1>6. Brackets'
    BY DEF Flags, Types, Frames, Brackets, InSegment,
         RealTimePipeLinePrepare, Goto
  <1>7. Answers'
    BY DEF Flags, Types, Frames, Answers, SegmentAnswered, BetweenSegments,
         InSegment, RealTimePipeLinePrepare, Goto
  <1> QED
    BY <1>1, <1>2, <1>3, <1>4, <1>5, <1>6, <1>7

LEMMA RealTimeResumeStep ==
    ASSUME EngineInv, RealTimeResume
    PROVE  EngineInv'
  <1> USE DEF EngineInv, requestVars, processVars, pass1Vars, restVars, eventVars
  <1>1. Flags'
    BY DEF Flags, RealTimeResume, Goto
  <1>2. Types'
    BY DEF Flags, Types, Places, RealTimeResume, Goto
  <1>3. Frames'
    BY FramesAssumption DEF Flags, Types, Frames, RealTimeResume, Goto
  <1>4. Overrun'
    BY DEF Flags, Types, Frames, Overrun, StopsAtOnce, FirstPass,
         RealTimeResume, Goto
  <1>5. Online'
    BY DEF Flags, Types, Places, Online, OnlineWhileRecognising,
         BetweenSegments, RealTimeResume, Goto
  <1>6. Brackets'
    BY DEF Flags, Types, Frames, Brackets, InSegment, RealTimeResume, Goto
  <1>7. Answers'
    <2>1. /\ pc' = "resume" /\ f' = 0 /\ param' = param
          /\ triggered' = (param > 0)
      BY DEF RealTimeResume, Goto
    <2>2. ~(f' > 0)
      BY <2>1
    <2>3. param' > 0 => triggered'
      BY <2>1
    <2> QED
      BY <2>1, <2>2, <2>3 DEF Answers, SegmentAnswered, BetweenSegments
  <1> QED
    BY <1>1, <1>2, <1>3, <1>4, <1>5, <1>6, <1>7

LEMMA ResumeFrameStep ==
    ASSUME EngineInv, ResumeFrame
    PROVE  EngineInv'
  <1> USE DEF EngineInv, requestVars, processVars, pass1Vars, restVars, eventVars
  <1>1. Flags'
    BY DEF Flags, ResumeFrame, Goto, CountFrame, Segmented
  <1>2. Types'
    BY DEF Flags, Types, Places, ResumeFrame, Goto, CountFrame, Segmented
  <1>3. Frames'
    BY FramesAssumption DEF Flags, Types, Frames, ResumeFrame, Goto,
         CountFrame, Segmented
  <1>4. Overrun'
    BY DEF Flags, Types, Frames, Overrun, StopsAtOnce, FirstPass,
         ResumeFrame, Goto, CountFrame, Segmented
  <1>5. Online'
    BY DEF Flags, Types, Places, Online, OnlineWhileRecognising,
         BetweenSegments, ResumeFrame, Goto, CountFrame, Segmented
  <1>6. Brackets'
    <2>1. pc = "resume" /\ processSegment' = processSegment /\ recOpen' = recOpen
      BY DEF ResumeFrame
    <2>2. processSegment /\ (result # -1 => recOpen)
      BY <2>1 DEF Brackets, InSegment
    <2>3. \/ pc' = "stopped" /\ result' = -1
          \/ pc' \in {"pass1end", "resume"} /\ result' = result
      BY DEF ResumeFrame, Goto
    <2> QED
      BY <2>1, <2>2, <2>3 DEF Brackets, InSegment
  <1>7. Answers'
    BY DEF Flags, Types, Frames, Answers, SegmentAnswered, BetweenSegments,
         InSegment, ResumeFrame, Goto, CountFrame, Segmented
  <1> QED
    BY <1>1, <1>2, <1>3, <1>4, <1>5, <1>6, <1>7

LEMMA ResumeDoneStep ==
    ASSUME EngineInv, ResumeDone
    PROVE  EngineInv'
  <1> USE DEF EngineInv, requestVars, processVars, pass1Vars, restVars, eventVars
  <1>1. Flags'
    BY DEF Flags, ResumeDone, Goto
  <1>2. Types'
    BY DEF Flags, Types, Places, ResumeDone, Goto
  <1>3. Frames'
    BY FramesAssumption DEF Flags, Types, Frames, ResumeDone, Goto
  <1>4. Overrun'
    BY DEF Flags, Types, Frames, Overrun, StopsAtOnce, FirstPass, ResumeDone,
         Goto
  <1>5. Online'
    BY DEF Flags, Types, Places, Online, OnlineWhileRecognising,
         BetweenSegments, ResumeDone, Goto
  <1>6. Brackets'
    BY DEF Flags, Types, Frames, Brackets, InSegment, ResumeDone, Goto
  <1>7. Answers'
    BY DEF Flags, Types, Frames, Answers, SegmentAnswered, BetweenSegments,
         InSegment, ResumeDone, Goto
  <1> QED
    BY <1>1, <1>2, <1>3, <1>4, <1>5, <1>6, <1>7

LEMMA MfcModuleReadStep ==
    ASSUME EngineInv, mfc_module_read
    PROVE  EngineInv'
  <1> USE DEF EngineInv, requestVars, processVars, pass1Vars, restVars, eventVars
  <1>1. Flags'
    BY DEF Flags, mfc_module_read, Goto
  <1>2. Types'
    BY DEF Flags, Types, Places, mfc_module_read, Goto
  <1>3. Frames'
    BY FramesAssumption DEF Flags, Types, Frames, mfc_module_read, Goto
  <1>4. Overrun'
    BY DEF Flags, Types, Frames, Overrun, StopsAtOnce, FirstPass,
         mfc_module_read, Goto
  <1>5. Online'
    BY DEF Flags, Types, Places, Online, OnlineWhileRecognising,
         BetweenSegments, mfc_module_read, Goto
  <1>6. Brackets'
    BY DEF Flags, Types, Frames, Brackets, InSegment, mfc_module_read, Goto
  <1>7. Answers'
    BY DEF Flags, Types, Frames, Answers, SegmentAnswered, BetweenSegments,
         InSegment, mfc_module_read, Goto
  <1> QED
    BY <1>1, <1>2, <1>3, <1>4, <1>5, <1>6, <1>7

LEMMA PollCallbackStep ==
    ASSUME EngineInv, PollCallback
    PROVE  EngineInv'
  <1> USE DEF EngineInv, requestVars, processVars, pass1Vars, restVars, eventVars
  <1>1. Flags'
    BY DEF Flags, PollCallback, Goto, callback_check_in_adin
  <1>2. Types'
    BY DEF Flags, Types, Places, PollCallback, Goto, callback_check_in_adin
  <1>3. Frames'
    BY FramesAssumption DEF Flags, Types, Frames, PollCallback, Goto,
         callback_check_in_adin
  <1>4. Overrun'
    BY DEF Flags, Types, Frames, Overrun, StopsAtOnce, FirstPass,
         PollCallback, Goto, callback_check_in_adin
  <1>5. Online'
    BY DEF Flags, Types, Places, Online, OnlineWhileRecognising,
         BetweenSegments, PollCallback, Goto, callback_check_in_adin
  <1>6. Brackets'
    BY DEF Flags, Types, Frames, Brackets, InSegment, PollCallback, Goto,
         callback_check_in_adin
  <1>7. Answers'
    BY DEF Flags, Types, Frames, Answers, SegmentAnswered, BetweenSegments,
         InSegment, PollCallback, Goto, callback_check_in_adin
  <1> QED
    BY <1>1, <1>2, <1>3, <1>4, <1>5, <1>6, <1>7

LEMMA ProceedOneFrameStep ==
    ASSUME EngineInv, proceed_one_frame
    PROVE  EngineInv'
  <1> USE DEF EngineInv, requestVars, processVars, pass1Vars, restVars, eventVars
  <1>1. Flags'
    BY DEF Flags, proceed_one_frame, Goto, BeginCallbacks, CountFrame,
         Segmented, EndOfInput
  <1>2. Types'
    BY DEF Flags, Types, Frames, Places, proceed_one_frame, Goto, BeginCallbacks,
         CountFrame, Segmented, EndOfInput
  <1>3. Frames'
    BY FramesAssumption DEF Flags, Types, Frames, proceed_one_frame, Goto,
         BeginCallbacks, CountFrame, Segmented, EndOfInput
  <1>4. Overrun'
    BY DEF Flags, Types, Frames, Overrun, StopsAtOnce, FirstPass,
         proceed_one_frame, Goto, BeginCallbacks, CountFrame, Segmented,
         EndOfInput
  <1>5. Online'
    BY DEF Flags, Types, Places, Online, OnlineWhileRecognising,
         BetweenSegments, proceed_one_frame, Goto, BeginCallbacks,
         CountFrame, Segmented, EndOfInput
  <1>6. Brackets'
    <2>1. /\ result' = result /\ processSegment' = processSegment
          /\ InSegment' /\ pc' # "resume"
      BY DEF proceed_one_frame, Goto, EndOfInput, InSegment
    <2>2. result # -1 /\ processSegment => recOpen
      BY DEF Brackets, InSegment, proceed_one_frame
    <2>3. result # -1 /\ f > 0 => recOpen
      BY DEF Brackets, InSegment, proceed_one_frame
    <2>4. f > 0 \/ f = 0
      BY DEF Frames
    <2>5. CASE f = 0
      BY <2>1, <2>2, <2>5 DEF Flags, proceed_one_frame, BeginCallbacks, Brackets
    <2>6. CASE f > 0
      BY <2>1, <2>3, <2>6 DEF proceed_one_frame, BeginCallbacks, Brackets
    <2> QED
      BY <2>4, <2>5, <2>6
  <1>7. Answers'
    BY DEF Flags, Types, Frames, Answers, SegmentAnswered, BetweenSegments,
         InSegment, proceed_one_frame, Goto, BeginCallbacks, CountFrame,
         Segmented, EndOfInput
  <1> QED
    BY <1>1, <1>2, <1>3, <1>4, <1>5, <1>6, <1>7

LEMMA NoFrameStep ==
    ASSUME EngineInv, NoFrame
    PROVE  EngineInv'
  <1> USE DEF EngineInv, requestVars, processVars, pass1Vars, restVars, eventVars
  <1>1. Flags'
    BY DEF Flags, NoFrame, Goto, EndOfInput
  <1>2. Types'
    BY DEF Flags, Types, Frames, Places, NoFrame, Goto, EndOfInput
  <1>3. Frames'
    BY FramesAssumption DEF Flags, Types, Frames, NoFrame, Goto, EndOfInput
  <1>4. Overrun'
    BY DEF Flags, Types, Frames, Overrun, StopsAtOnce, FirstPass, NoFrame,
         Goto, EndOfInput
  <1>5. Online'
    BY DEF Flags, Types, Places, Online, OnlineWhileRecognising,
         BetweenSegments, NoFrame, Goto, EndOfInput
  <1>6. Brackets'
    BY DEF Flags, Types, Frames, Brackets, InSegment, NoFrame, Goto,
         EndOfInput
  <1>7. Answers'
    BY DEF Flags, Types, Frames, Answers, SegmentAnswered, BetweenSegments,
         InSegment, NoFrame, Goto, EndOfInput
  <1> QED
    BY <1>1, <1>2, <1>3, <1>4, <1>5, <1>6, <1>7

LEMMA CancelStep ==
    ASSUME EngineInv, Cancel
    PROVE  EngineInv'
  <1> USE DEF EngineInv, requestVars, processVars, pass1Vars, restVars, eventVars
  <1>1. Flags'
    BY DEF Flags, Cancel, Goto, result_error
  <1>2. Types'
    BY DEF Flags, Types, Places, Cancel, Goto, result_error
  <1>3. Frames'
    BY FramesAssumption DEF Flags, Types, Frames, Cancel, Goto, result_error
  <1>4. Overrun'
    BY DEF Flags, Types, Frames, Overrun, StopsAtOnce, FirstPass, Cancel,
         Goto, result_error
  <1>5. Online'
    BY DEF Flags, Types, Places, Online, OnlineWhileRecognising,
         BetweenSegments, Cancel, Goto, result_error
  <1>6. Brackets'
    BY DEF Flags, Types, Frames, Brackets, InSegment, Cancel, Goto,
         result_error
  <1>7. Answers'
    <2>1. f > 0 => triggered
      BY DEF Answers, InSegment, Cancel
    <2>2. f > 0 => f # 0
      BY DEF Frames
    <2>3. triggered => owed' = (owed /\ f = 0)
      BY DEF Cancel, result_error
    <2>4. f > 0 => ~owed'
      BY <2>1, <2>2, <2>3
    <2> QED
      BY <2>1, <2>4 DEF Answers, SegmentAnswered, BetweenSegments, InSegment,
           Cancel, Goto
  <1> QED
    BY <1>1, <1>2, <1>3, <1>4, <1>5, <1>6, <1>7

LEMMA Pass1ErrorStep ==
    ASSUME EngineInv, Pass1Error
    PROVE  EngineInv'
  <1> USE DEF EngineInv, requestVars, processVars, pass1Vars, restVars, eventVars
  <1>1. Flags'
    BY DEF Flags, Pass1Error, Goto
  <1>2. Types'
    BY DEF Flags, Types, Places, Pass1Error, Goto
  <1>3. Frames'
    BY FramesAssumption DEF Flags, Types, Frames, Pass1Error, Goto
  <1>4. Overrun'
    BY DEF Flags, Types, Frames, Overrun, StopsAtOnce, FirstPass, Pass1Error,
         Goto
  <1>5. Online'
    BY DEF Flags, Types, Places, Online, OnlineWhileRecognising,
         BetweenSegments, Pass1Error, Goto
  <1>6. Brackets'
    BY DEF Flags, Types, Frames, Brackets, InSegment, Pass1Error, Goto
  <1>7. Answers'
    BY DEF Flags, Types, Frames, Answers, SegmentAnswered, BetweenSegments,
         InSegment, Pass1Error, Goto
  <1> QED
    BY <1>1, <1>2, <1>3, <1>4, <1>5, <1>6, <1>7

LEMMA RealTimeParamStep ==
    ASSUME EngineInv, RealTimeParam
    PROVE  EngineInv'
  <1> USE DEF EngineInv, requestVars, processVars, pass1Vars, restVars, eventVars
  <1>1. Flags'
    BY DEF Flags, RealTimeParam, Goto
  <1>2. Types'
    BY DEF Flags, Types, Places, RealTimeParam, Goto
  <1>3. Frames'
    BY FramesAssumption DEF Flags, Types, Frames, RealTimeParam, Goto
  <1>4. Overrun'
    BY DEF Flags, Types, Frames, Overrun, StopsAtOnce, FirstPass,
         RealTimeParam, Goto
  <1>5. Online'
    BY DEF Flags, Types, Places, Online, OnlineWhileRecognising,
         BetweenSegments, RealTimeParam, Goto
  <1>6. Brackets'
    BY DEF Flags, Types, Frames, Brackets, InSegment, RealTimeParam, Goto
  <1>7. Answers'
    BY DEF Flags, Types, Frames, Answers, SegmentAnswered, BetweenSegments,
         InSegment, RealTimeParam, Goto
  <1> QED
    BY <1>1, <1>2, <1>3, <1>4, <1>5, <1>6, <1>7

LEMMA RejectStep ==
    ASSUME EngineInv, Reject
    PROVE  EngineInv'
  <1> USE DEF EngineInv, requestVars, processVars, pass1Vars, restVars, eventVars
  <1>1. Flags'
    BY DEF Flags, Reject, Goto, result_error
  <1>2. Types'
    BY DEF Flags, Types, Places, Reject, Goto, result_error
  <1>3. Frames'
    BY FramesAssumption DEF Flags, Types, Frames, Reject, Goto, result_error
  <1>4. Overrun'
    BY DEF Flags, Types, Frames, Overrun, StopsAtOnce, FirstPass, Reject,
         Goto, result_error
  <1>5. Online'
    BY DEF Flags, Types, Places, Online, OnlineWhileRecognising,
         BetweenSegments, Reject, Goto, result_error
  <1>6. Brackets'
    BY DEF Flags, Types, Frames, Brackets, InSegment, Reject, Goto,
         result_error
  <1>7. Answers'
    <2>1. f > 0 => triggered
      BY DEF Answers, InSegment, Reject
    <2>2. f > 0 => f # 0
      BY DEF Frames
    <2>3. owed' = (owed /\ f = 0)
      BY DEF Reject, result_error
    <2>4. f > 0 => ~owed'
      BY <2>1, <2>2, <2>3
    <2> QED
      BY <2>1, <2>4 DEF Answers, SegmentAnswered, BetweenSegments, InSegment,
           Reject, Goto
  <1> QED
    BY <1>1, <1>2, <1>3, <1>4, <1>5, <1>6, <1>7

LEMMA AcceptStep ==
    ASSUME EngineInv, Accept
    PROVE  EngineInv'
  <1> USE DEF EngineInv, requestVars, processVars, pass1Vars, restVars, eventVars
  <1>1. Flags'
    BY DEF Flags, Accept, Goto
  <1>2. Types'
    BY DEF Flags, Types, Places, Accept, Goto
  <1>3. Frames'
    BY FramesAssumption DEF Flags, Types, Frames, Accept, Goto
  <1>4. Overrun'
    BY DEF Flags, Types, Frames, Overrun, StopsAtOnce, FirstPass, Accept,
         Goto
  <1>5. Online'
    BY DEF Flags, Types, Places, Online, OnlineWhileRecognising,
         BetweenSegments, Accept, Goto
  <1>6. Brackets'
    BY DEF Flags, Types, Frames, Brackets, InSegment, Accept, Goto
  <1>7. Answers'
    BY DEF Flags, Types, Frames, Answers, SegmentAnswered, BetweenSegments,
         InSegment, Accept, Goto
  <1> QED
    BY <1>1, <1>2, <1>3, <1>4, <1>5, <1>6, <1>7

LEMMA Pass2Step ==
    ASSUME EngineInv, Pass2
    PROVE  EngineInv'
  <1> USE DEF EngineInv, requestVars, processVars, pass1Vars, restVars, eventVars
  <1>1. Flags'
    BY DEF Flags, Pass2, Goto
  <1>2. Types'
    BY DEF Flags, Types, Places, Pass2, Goto
  <1>3. Frames'
    BY FramesAssumption DEF Flags, Types, Frames, Pass2, Goto
  <1>4. Overrun'
    BY DEF Flags, Types, Frames, Overrun, StopsAtOnce, FirstPass, Pass2, Goto
  <1>5. Online'
    BY DEF Flags, Types, Places, Online, OnlineWhileRecognising,
         BetweenSegments, Pass2, Goto
  <1>6. Brackets'
    BY DEF Flags, Types, Frames, Brackets, InSegment, Pass2, Goto
  <1>7. Answers'
    BY DEF Flags, Types, Frames, Answers, SegmentAnswered, BetweenSegments,
         InSegment, Pass2, Goto
  <1> QED
    BY <1>1, <1>2, <1>3, <1>4, <1>5, <1>6, <1>7

LEMMA EndRecogStep ==
    ASSUME EngineInv, EndRecog
    PROVE  EngineInv'
  <1> USE DEF EngineInv, requestVars, processVars, pass1Vars, restVars, eventVars
  <1>1. Flags'
    BY DEF Flags, EndRecog, Goto
  <1>2. Types'
    BY DEF Flags, Types, Places, EndRecog, Goto
  <1>3. Frames'
    BY FramesAssumption DEF Flags, Types, Frames, EndRecog, Goto
  <1>4. Overrun'
    BY DEF Flags, Types, Frames, Overrun, StopsAtOnce, FirstPass, EndRecog,
         Goto
  <1>5. Online'
    BY DEF Flags, Types, Places, Online, OnlineWhileRecognising,
         BetweenSegments, EndRecog, Goto
  <1>6. Brackets'
    <2>1. /\ processSegment' = (segment /\ rest > 0)
          /\ recOpen' = (recOpen /\ processSegment')
          /\ result' = result \/ ~processSegment'
      BY DEF EndRecog, Goto
    <2>2. ~InSegment' /\ pc' # "resume"
      BY DEF EndRecog, Goto, InSegment
    <2>3. result # -1 /\ processSegment' => recOpen
      <3>1. rest > 0 => f > 0
        BY DEF Frames
      <3>2. result # -1 /\ f > 0 => recOpen
        BY DEF Brackets, InSegment, EndRecog
      <3> QED
        BY <2>1, <3>1, <3>2
    <2>4. recOpen \in BOOLEAN /\ processSegment' \in BOOLEAN
      BY <1>1 DEF Flags
    <2>5. result' # -1 => recOpen' = processSegment'
      BY <2>1, <2>3, <2>4
    <2> QED
      BY <2>2, <2>5 DEF Brackets
  <1>7. Answers'
    BY DEF Flags, Types, Frames, Answers, SegmentAnswered, BetweenSegments,
         InSegment, EndRecog, Goto
  <1> QED
    BY <1>1, <1>2, <1>3, <1>4, <1>5, <1>6, <1>7

LEMMA StutterStep ==
    ASSUME EngineInv, UNCHANGED vars
    PROVE  EngineInv'
  <1> USE DEF EngineInv, vars, requestVars, processVars, pass1Vars, restVars, eventVars
  <1>1. Flags' /\ Types' /\ Frames'
    BY DEF Flags, Types, Frames
  <1>2. Overrun' /\ Online' /\ Brackets' /\ Answers'
    BY DEF Overrun, StopsAtOnce, FirstPass, Online, OnlineWhileRecognising,
           Brackets, Answers, SegmentAnswered, BetweenSegments, InSegment
  <1> QED
    BY <1>1, <1>2

------------------------------------------------------------------------------
LEMMA EngineInvInit == Init => EngineInv
  <1> SUFFICES ASSUME Init PROVE EngineInv
    OBVIOUS
  <1>1. Flags
    BY DEF Init, Flags
  <1>2. Types
    <2>1. live \in [Processes -> BOOLEAN] /\ active \in [Processes -> -1 .. 1]
      BY DEF Init
    <2> QED
      BY <2>1 DEF Init, Types, Places
  <1>3. Frames
    BY FramesAssumption DEF Init, Frames
  <1>4. Overrun /\ Online
    BY DEF Init, Overrun, StopsAtOnce, FirstPass, Online, BetweenSegments,
           OnlineWhileRecognising
  <1>5. Brackets /\ Answers
    BY DEF Init, Brackets, Answers, SegmentAnswered, InSegment
  <1> QED
    BY <1>1, <1>2, <1>3, <1>4, <1>5 DEF EngineInv

LEMMA ApplicationStep ==
    ASSUME EngineInv, Application
    PROVE  EngineInv'
  <1>0. /\ processActive \in BOOLEAN /\ wantTerminate \in BOOLEAN
        /\ wantReload \in BOOLEAN /\ grammarPending \in BOOLEAN
        /\ active \in [Processes -> -1 .. 1]
    BY DEF EngineInv, Flags, Types
  <1>1. CASE j_request_pause
    BY <1>0, <1>1, RequestStep DEF j_request_pause, requestVars
  <1>2. CASE j_request_terminate
    BY <1>0, <1>2, RequestStep DEF j_request_terminate, requestVars
  <1>3. CASE j_request_resume
    BY <1>0, <1>3, RequestStep DEF j_request_resume, requestVars
  <1>4. CASE schedule_grammar_update
    <2>1. /\ wantTerminate' \in BOOLEAN /\ wantReload' \in BOOLEAN
          /\ grammarPending' \in BOOLEAN
      BY <1>0, <1>4 DEF schedule_grammar_update
    <2> QED
      BY <1>0, <1>4, <2>1, RequestStep DEF schedule_grammar_update
  <1>5. ASSUME NEW p \in Processes, NEW change \in {-1, 1}, BookProcess(p, change)
        PROVE  EngineInv'
    <2>1. active' \in [Processes -> -1 .. 1]
      BY <1>0, <1>5 DEF BookProcess
    <2> QED
      BY <1>0, <1>5, <2>1, RequestStep DEF BookProcess
  <1>6. CASE OpenStream
    BY <1>6, OpenStreamStep
  <1> QED
    BY <1>1, <1>2, <1>3, <1>4, <1>5, <1>6 DEF Application

LEMMA EngineInvNext == EngineInv /\ [Next]_vars => EngineInv'
  <1> SUFFICES ASSUME EngineInv, [Next]_vars PROVE EngineInv'
    OBVIOUS
  <1>1. CASE Application
    BY <1>1, ApplicationStep
  <1>2. CASE Engine
    BY <1>2, StartRecogStep, AnnounceStep, AnnounceAgainStep, JResetReloadStep,
       CheckActiveStep, UpdateGrammarsStep, RealTimePipeLinePrepareStep,
       RealTimeResumeStep, ResumeFrameStep, ResumeDoneStep,
       MfcModuleReadStep, PollCallbackStep, ProceedOneFrameStep,
       NoFrameStep, CancelStep, Pass1ErrorStep, RealTimeParamStep,
       RejectStep, AcceptStep, Pass2Step, EndRecogStep
       DEF Engine
  <1>3. CASE PauseFunction
    BY <1>3, PauseFunctionStep
  <1>4. CASE UNCHANGED vars
    BY <1>4, StutterStep
  <1> QED
    BY <1>1, <1>2, <1>3, <1>4 DEF Next

LEMMA EngineInvAlways == Spec => []EngineInv
  BY EngineInvInit, EngineInvNext, PTL DEF Spec

------------------------------------------------------------------------------
(* The theorems.                                                            *)

(* Every variable of the engine keeps its type, and what is kept of a       *)
(* segment for the next is less than the segment had: f + 1 frames, of      *)
(* which one at least comes before the pause.                               *)
THEOREM EngineTypeCorrect == Spec => []TypeOK
  <1>1. EngineInv => TypeOK
    <2> SUFFICES ASSUME EngineInv PROVE TypeOK
      OBVIOUS
    <2>1. {segment, processActive, wantTerminate, wantReload, processOnline,
           processSegment, triggered, segmented, recOpen, owed, crossed,
           grammarPending} \subseteq BOOLEAN
      BY DEF EngineInv, Flags
    <2>2. overrun \in Nat
      BY DEF EngineInv, Overrun
    <2> QED
      BY <2>1, <2>2 DEF EngineInv, Frames, Types, TypeOK
  <1> QED
    BY <1>1, EngineInvAlways, PTL

(* Cancelled, rejected, segmented or recognised: result_error and the       *)
(* second pass answer every segment of which a frame was decoded.           *)
THEOREM SegmentsAreAnswered == Spec => []SegmentAnswered
  <1>1. EngineInv => SegmentAnswered
    BY DEF EngineInv, Answers
  <1> QED
    BY <1>1, EngineInvAlways, PTL

(* RECOGNITION_BEGIN in proceed_one_frame and RECOGNITION_END at end_recog  *)
(* match, in whatever way a segment ends.                                   *)
THEOREM CallbacksMatch == Spec => []BracketsMatch
  <1>1. EngineInv => BracketsMatch
    BY DEF EngineInv, Brackets, BracketsMatch, BetweenSegments, InSegment
  <1> QED
    BY <1>1, EngineInvAlways, PTL

(* When a request to terminate was taken, mfcc_go decodes at most the frame *)
(* at hand, and RealTimeResume what was kept from the last segment, which   *)
(* it decodes without a look at the flag; a read error, with new_f not      *)
(* initialised, is left out.                                                *)
THEOREM TerminationIsImmediate == Spec => []StopsAtOnce
  <1>1. EngineInv => StopsAtOnce
    BY DEF EngineInv, Overrun, StopsAtOnce
  <1> QED
    BY <1>1, EngineInvAlways, PTL

(* The engine recognises while it is announced as offline only if it was    *)
(* paused in between its last check and the announcement; wherever else     *)
(* requests fall into the head of the loop, the application knows.          *)
THEOREM AnnouncedOnline == Spec => []OnlineWhileRecognising
  <1>1. EngineInv => OnlineWhileRecognising
    BY DEF EngineInv, Online
  <1> QED
    BY <1>1, EngineInvAlways, PTL
==============================================================================
