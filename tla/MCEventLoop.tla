----------------------------- MODULE MCEventLoop -----------------------------
(* EventLoop, alone and in an EventLoopThread, with two foreign threads.   *)
EXTENDS EventLoopThread

CONSTANTS t1, t2, f1, f2, c1
=============================================================================
