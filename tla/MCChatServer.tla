---------------------------- MODULE MCChatServer ----------------------------
\* Who writes how much in the run of ChatServer.
EXTENDS ChatServer

MCWrites == <<1, 1, 0>>
=============================================================================
