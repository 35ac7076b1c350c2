------------------------------ MODULE MCBridge ------------------------------
(* A small instance of Bridge for TLC: one frame of each type, the unknown  *)
(* one being a lock frame that is a byte too long.                          *)
EXTENDS Bridge

MCUnlock == <<15, 78, 1, 3, 4, 128, 10, 0>>
MCPlaintexts ==
  {FrameLock, MCUnlock, Append(FrameStatePollPrefix, 2), FrameDoorbell, Append(FrameLock, 0)}
=============================================================================
