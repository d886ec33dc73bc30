-------------------------- MODULE MCProxyRequests --------------------------
EXTENDS ProxyRequests

=============================================================================
