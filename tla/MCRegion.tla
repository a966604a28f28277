------------------------------ MODULE MCRegion ------------------------------
EXTENDS Region

AllShifts == (-1 .. 1) \X (-2 .. 2)
=============================================================================
