---------------------------- MODULE MCLifeCycle ------------------------------
\* Instances of LifeCycle.
EXTENDS LifeCycle
=============================================================================
