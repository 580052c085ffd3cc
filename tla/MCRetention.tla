---------------------------- MODULE MCRetention ----------------------------
EXTENDS RetentionInv
=============================================================================
