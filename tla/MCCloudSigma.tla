---------------------------- MODULE MCCloudSigma ----------------------------
EXTENDS CloudSigma, TLC

CONSTANTS n1, n2, x1

Symmetric == Permutations({n1, n2})
=============================================================================
