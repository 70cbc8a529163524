----------------------------- MODULE MCLegDrive -----------------------------
EXTENDS LegDrive
=============================================================================
