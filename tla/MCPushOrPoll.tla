---------------------------- MODULE MCPushOrPoll ----------------------------
(* Instances of PushOrPoll for TLC.                                          *)
EXTENDS PushOrPoll, TLC
=============================================================================
