------------------------------- MODULE MCNtp -------------------------------
EXTENDS Ntp
=============================================================================
