--------------------------- MODULE TopicRuntimeMC ---------------------------
(* Instances of TopicRuntime for TLC. *)
EXTENDS TopicRuntime, TLC

CONSTANTS h1, h2, t1, t2

\* Two handles of one topic: the second can only follow the first.
OneTopic == [h \in Handles |-> t1]

\* Two channels.
TwoTopics == h1 :> t1 @@ h2 :> t2

=============================================================================
