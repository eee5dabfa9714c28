------------------------------- MODULE MCCRL --------------------------------
EXTENDS CRL
CONSTANTS s1, s2, i1, i2

MCIssuerOf(s) == i1
MCBefore(i, j) == i = i1
=============================================================================
