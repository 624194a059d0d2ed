------------------------------ MODULE MCDashboard ------------------------------
\* A tab two accounts sign in with, and an administration page of one item.
EXTENDS Dashboard
=============================================================================
