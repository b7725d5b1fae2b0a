---------------------------- MODULE MCAttenuate ----------------------------
EXTENDS Attenuate, TLC
=============================================================================
