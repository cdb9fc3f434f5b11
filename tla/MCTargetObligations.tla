------------------------- MODULE MCTargetObligations --------------------------
EXTENDS TargetObligations

MCLeaders == {"leader"}
MCWeb == {"web1", "web2"}
================================================================================
