----------------------------- MODULE MCTwiSlave -----------------------------
(* TwiSlave with FrameLife on small instances: the constants are given in the *)
(* .cfg file.                                                                *)
EXTENDS FrameLife
=============================================================================
