------------------------------ MODULE MCChatTurn ------------------------------
(* Constants for the run of ChatTurn: a request of each kind. *)
EXTENDS ChatTurn

CONSTANTS chat, stream, complete, completeStream

OfEachKind ==
    [t \in Turns |-> CASE t = chat           -> "chat"
                       [] t = stream         -> "stream"
                       [] t = complete       -> "complete"
                       [] t = completeStream -> "stream complete"]
=============================================================================
