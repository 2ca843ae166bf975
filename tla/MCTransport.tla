---------------------------- MODULE MCTransport -----------------------------
EXTENDS Transport
=============================================================================
