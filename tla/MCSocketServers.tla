-------------------------- MODULE MCSocketServers --------------------------
EXTENDS SocketServers
=============================================================================
