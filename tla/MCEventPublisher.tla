--------------------------- MODULE MCEventPublisher ---------------------------
(* Constants for the runs of EventPublisher: routing keys, default binding. *)
EXTENDS EventPublisher

CONSTANTS e1, e2, e3

ChatCompleted   == <<"chat", "completed">>
StreamCompleted == <<"chat", "stream", "completed">>

\* MQ_BINDING_KEY's default.
ChatStar == <<"chat", "*">>

\* A chat, an event a client posts under a key of its own, a streamed chat.
MixedEvents ==
    [e \in Events |-> CASE e = e1 -> ChatCompleted
                        [] e = e2 -> <<"chat", "rated">>
                        [] e = e3 -> StreamCompleted]

\* The posted event of the README's example, and a streamed chat.
LongKeys == [e \in Events |-> IF e = e2 THEN <<"coze", "intent", "detected">> ELSE StreamCompleted]
=============================================================================
