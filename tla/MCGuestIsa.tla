------------------------------ MODULE MCGuestIsa ------------------------------
EXTENDS GuestIsa

AllArm == 0 .. 4095
AllThumb == 0 .. 1023
SomeLists == {{}, {1}, {2, 5}, {1, 3}, {0, 9, 13}, {14, 15}, {1, 13, 15}}
=============================================================================
