------------------------------ MODULE MCBreeding ------------------------------
\* A small instance of Breeding for TLC.
EXTENDS Breeding
===============================================================================
