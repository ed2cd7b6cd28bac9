----------------------------- MODULE MCAsyncChat -----------------------------
(* Constants for the runs of AsyncChat: which faults happen, how often.     *)
EXTENDS AsyncChat

Once(kinds) == [k \in FaultKinds |-> IF k \in kinds THEN 1 ELSE 0]

\* One worker that comes back each time: crashes and lost connections on
\* both sides of the queue.
QueueFaults == Once({"publisher", "crash", "disconnect"})

\* Two workers: those after which a task may be delivered again.
RedeliveryFaults == Once({"db", "timeout", "crash", "disconnect", "stop"})

\* What the lifecycle the client sees must survive.
LifecycleFaults ==
    [Once({"send", "nack", "api", "stop"})
        EXCEPT !["db"] = 2, !["crash"] = 2, !["disconnect"] = 0]

\* One late confirmation and nothing else.
Timeout == Once({"timeout"})
=============================================================================
