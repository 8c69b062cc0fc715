----------------------------- MODULE MCChatHub -----------------------------
(* Instance of ChatHub for TLC: two sockets and a REST request, channels of *)
(* one message, three messages.                                             *)
EXTENDS ChatHub

CONSTANTS c1, c2, p1

MCConn   == {c1, c2}
MCPoster == {p1}
=============================================================================
