-------------------------------- MODULE MCCircle --------------------------------
EXTENDS Circle
MCInit == Init /\ rows["p1"].kind = "in"
MCSpec == MCInit /\ [][Next]_vars
=============================================================================
