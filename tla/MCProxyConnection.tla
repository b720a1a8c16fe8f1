-------------------------- MODULE MCProxyConnection --------------------------
\* ProxyConnection for TLC.
EXTENDS ProxyConnection

CONSTANTS c1
=============================================================================
