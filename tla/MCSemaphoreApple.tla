-------------------------- MODULE MCSemaphoreApple --------------------------
(* Model values for the threads of the Apple semaphore runs. *)
EXTENDS SemaphoreApple

CONSTANTS w1, w2, n1

=============================================================================
