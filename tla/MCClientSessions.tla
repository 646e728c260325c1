-------------------------- MODULE MCClientSessions --------------------------
EXTENDS ClientSessions
=============================================================================
