------------------------------ MODULE MCDeployment ------------------------------
EXTENDS Deployment

CONSTANTS v0, v1, v2, a, b, portal

\* The first deployment has the configuration of the host, the second may be
\* a drill.
MCCandidate == (a :> v1) @@ (b :> v2)
=============================================================================
