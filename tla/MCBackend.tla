------------------------------ MODULE MCBackend ------------------------------
\* Constants for the runs of Backend.
EXTENDS Backend, TLC

\* *:*, which managers hold, and a code that lets nobody manage users.
MCCodes == {<<"*", "*">>, <<"uploads", "*">>}

\* Slots and providers may be exchanged.
MCSymmetry == Permutations(Slots) \cup Permutations(Providers)
=============================================================================
