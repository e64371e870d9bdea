------------------------------ MODULE QueueOps ------------------------------
(***************************************************************************)
(* The eight blocking operations every queue of                           *)
(* boost-asio-queue-extension offers, and how they are classified.  The    *)
(* same interface is implemented by simple_queue, polldir_queue, the fd    *)
(* queues and the socket queues, and called by queue_sender and            *)
(* queue_listener.                                                         *)
(***************************************************************************)

\* Operations that put an item in the queue, and those that only wait until
\* that would be possible.
PushOps    == {"enq", "timed_enq"}
WaitEnqOps == {"wait_enq", "timed_wait_enq"}

\* Operations that take an item out, and those that only wait for one.
PopOps     == {"deq", "timed_deq"}
WaitDeqOps == {"wait_deq", "timed_wait_deq"}

EnqOps      == PushOps \cup WaitEnqOps
DeqOps      == PopOps \cup WaitDeqOps
BlockingOps == EnqOps \cup DeqOps

\* Operations that take a timeout (the parameter ms).
TimedOps == {"timed_enq", "timed_wait_enq", "timed_deq", "timed_wait_deq"}

\* The error codes an operation can leave in ec.
Codes == {"success", "operation_aborted", "timed_out"}
=============================================================================
