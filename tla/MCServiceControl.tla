-------------------------- MODULE MCServiceControl --------------------------
EXTENDS ServiceControl
=============================================================================
