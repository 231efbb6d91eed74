--------------------------- MODULE OrderedDelivery ---------------------------
(***************************************************************************)
(* What the receivers of a component promise to the component's code: the  *)
(* messages of one topic reach react() one after the other, in the order   *)
(* in which the topic carries them, each at most once.  A message that     *)
(* cannot be turned into a SEMAINEMessage is discarded in its turn.        *)
(*                                                                         *)
(* The n-th message of the topic of receiver r is represented by n.        *)
(***************************************************************************)
EXTENDS Naturals, Sequences

CONSTANT Receivers

VARIABLES published,    \* published[r]: how many messages r's topic has carried
          taken,        \* taken[r]: how many of them the component is done with
          delivered     \* the sequence of <<r, n>> handed to the component

vars == <<published, taken, delivered>>

Init ==
    /\ published = [r \in Receivers |-> 0]
    /\ taken = [r \in Receivers |-> 0]
    /\ delivered = << >>

(* A sender publishes the next message of r's topic. *)
Publish(r) ==
    /\ published' = [published EXCEPT ![r] = @ + 1]
    /\ UNCHANGED <<taken, delivered>>

(* The oldest message not yet dealt with goes to the component. *)
Take(r) ==
    /\ taken[r] < published[r]
    /\ taken' = [taken EXCEPT ![r] = @ + 1]
    /\ delivered' = Append(delivered, <<r, taken[r] + 1>>)
    /\ UNCHANGED published

(* The oldest message not yet dealt with is malformed, and is dropped. *)
Discard(r) ==
    /\ taken[r] < published[r]
    /\ taken' = [taken EXCEPT ![r] = @ + 1]
    /\ UNCHANGED <<published, delivered>>

Next == \E r \in Receivers : Publish(r) \/ Take(r) \/ Discard(r)

Spec == Init /\ [][Next]_vars
==============================================================================
