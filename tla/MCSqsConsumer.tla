--------------------------- MODULE MCSqsConsumer ---------------------------
(* Instances of SqsConsumer for TLC: a message, and another on its wallet *)
(* that bears its messageId with another body.                              *)
EXTENDS SqsConsumer

CONSTANTS m1, reused, c1, c2

MCEnvelope == [m \in {m1, reused} |->
    [group |-> "w1", id |-> m1, body |-> m]]
=============================================================================
