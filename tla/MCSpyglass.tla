------------------------------ MODULE MCSpyglass ------------------------------
\* A small instance of Spyglass for TLC.
EXTENDS Spyglass
===============================================================================
