---------------------------- MODULE MCRatePacing ----------------------------
EXTENDS RatePacing
=============================================================================
