------------------------------ MODULE MCDialer ------------------------------
(* Three concurrent Dial calls, two addresses; the bus knows both.         *)
EXTENDS Dialer, TLC

CONSTANTS ip1, ip2

MCBusAddrs == <<ip1, ip2>>

=============================================================================
