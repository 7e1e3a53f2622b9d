------------------------------ MODULE MCKTimer ------------------------------
EXTENDS KTimer
=============================================================================
