--------------------------- MODULE MCPs2Keyboard ---------------------------
EXTENDS Ps2Keyboard
\* A key with a one-byte make and a two-byte break code, as most keys have.
MCCodeLen == [k \in Keys |-> [d \in BOOLEAN |-> IF d THEN 1 ELSE 2]]
MCLedArgs == {{}, {"caps"}}
=============================================================================
