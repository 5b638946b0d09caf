------------------------------ MODULE MCAccounts ------------------------------
EXTENDS Accounts

CONSTANTS c1, u1, k1, b1, admin, guest

=============================================================================
