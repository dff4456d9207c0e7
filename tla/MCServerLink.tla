---------------------------- MODULE MCServerLink ----------------------------
\* Model checking of ServerLink.
EXTENDS ServerLink
=============================================================================
