------------------------------ MODULE MCDbgUart -----------------------------
EXTENDS DbgUart
=============================================================================
