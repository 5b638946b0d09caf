----------------------------- MODULE MCLlamaSync -----------------------------
EXTENDS LlamaSync

CONSTANTS j1, j2, cmake, readme, server

=============================================================================
