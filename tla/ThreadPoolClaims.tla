-------------------------- MODULE ThreadPoolClaims --------------------------
(***************************************************************************)
(* What the end of main says of a fatal error, and the shutdown of the     *)
(* pool does not keep.                                                     *)
(***************************************************************************)
EXTENDS ThreadPool

(* main.cpp:88-97: a fatal error, such as a model that fails to load, is    *)
(* caught and the program goes on to stop.  On the way ~GrpcServer destroys *)
(* pool_, whose workers have just started: one that has tested stop_ and    *)
(* not yet blocked misses a notification sent without the mutex             *)
(* (thread_pool.cpp:15-17, 58-59), and join waits for it for ever.          *)
ShutdownTerminates == closer = "notify" ~> closer = "closed"
=============================================================================
