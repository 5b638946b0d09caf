---------------------------- MODULE MCChatHandler ----------------------------
EXTENDS ChatHandler

CONSTANTS r1, r2, text, multimodal

OneEach == [k \in Keys |-> 1]
=============================================================================
