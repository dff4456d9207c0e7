------------------------------ MODULE MCShell -------------------------------
EXTENDS ShellSession

=============================================================================
