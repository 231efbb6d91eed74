---------------------------- MODULE AnimationLife ----------------------------
(***************************************************************************)
(* What a player of animations promises to those who listen to its         *)
(* callbacks: each animation is announced as ready, then as started, then  *)
(* as ended, each at most once, and no animation is announced as started   *)
(* while another one is between its start and its end.  The end of an      *)
(* animation may fail to be announced; it is then given up.                *)
(***************************************************************************)
EXTENDS Sequences

CONSTANTS Animations,
          None          \* no animation is under way

VARIABLES callbacks,    \* callbacks[a]: the events announced about a, in order
          current       \* the animation between its start and its end

Init ==
    /\ callbacks = [a \in Animations |-> << >>]
    /\ current = None

Ready(a) ==
    /\ callbacks[a] = << >>
    /\ callbacks' = [callbacks EXCEPT ![a] = <<"ready">>]
    /\ UNCHANGED current

Start(a) ==
    /\ current = None
    /\ callbacks[a] = <<"ready">>
    /\ callbacks' = [callbacks EXCEPT ![a] = <<"ready", "start">>]
    /\ current' = a

End(a) ==
    /\ current = a
    /\ callbacks[a] = <<"ready", "start">>
    /\ callbacks' = [callbacks EXCEPT ![a] = <<"ready", "start", "end">>]
    /\ current' = None

GiveUp ==
    /\ current # None
    /\ current' = None
    /\ UNCHANGED callbacks

Next == GiveUp \/ \E a \in Animations : Ready(a) \/ Start(a) \/ End(a)

Spec == Init /\ [][Next]_<<callbacks, current>>

==============================================================================
