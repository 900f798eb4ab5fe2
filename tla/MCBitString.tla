---------------------------- MODULE MCBitString ----------------------------
EXTENDS BitString
=============================================================================
