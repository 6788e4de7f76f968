---------------------------- MODULE MCDashboard ----------------------------
EXTENDS Dashboard
CONSTANTS a1, a2
=============================================================================
