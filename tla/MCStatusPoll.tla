---------------------------- MODULE MCStatusPoll ----------------------------
EXTENDS StatusPoll

MCTimeouts == 1..7
=============================================================================
