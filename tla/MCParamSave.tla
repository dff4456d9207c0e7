---------------------------- MODULE MCParamSave ----------------------------
\* Two threads that set and save parameters.  They run the same code, so that
\* they may be exchanged.
EXTENDS ParamSave, TLC

Symmetry == Permutations(Tasks)
=============================================================================
