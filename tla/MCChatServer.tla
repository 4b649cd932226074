---------------------------- MODULE MCChatServer ----------------------------
(* Two clients, whose connections come in either order of their addresses,  *)
(* and three frames.                                                        *)
EXTENDS ChatServer

MCConn == 1 .. 2
=============================================================================
