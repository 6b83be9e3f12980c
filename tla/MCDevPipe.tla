----------------------------- MODULE MCDevPipe ------------------------------
(***************************************************************************)
(* Model checking of the pipe between the device monitor and the agent.    *)
(* DevPipe.cfg has a pipe with room for one message, which a read() takes  *)
(* whole: the pipe is full as soon as something is in it, and the liveness *)
(* properties, which do not hold otherwise, hold.  DevPipeLost.cfg has the *)
(* real 313 and 1024 bytes, so that one read() takes several messages and  *)
(* may end inside one; the theorems are for all sizes.  DevPipeAgain.cfg   *)
(* asks what a process reads that is active a second time.  MaxRetry is at *)
(* most 1: one round of drbdHealth() that helps, or that does not.         *)
(***************************************************************************)
EXTENDS DevPipeInv
=============================================================================
