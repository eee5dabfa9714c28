-------------------------- MODULE MCTrustRotation ---------------------------
EXTENDS TrustRotation
=============================================================================
