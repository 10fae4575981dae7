------------------------------ MODULE MCFetch ------------------------------
EXTENDS Fetch

\* Every mail has a name of its own.
OwnNames == [m \in Mails |-> m]
=============================================================================
