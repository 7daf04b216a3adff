--------------------------- MODULE MCSocketServer ----------------------------
EXTENDS SocketServer

CONSTANTS t1, t2

=============================================================================
