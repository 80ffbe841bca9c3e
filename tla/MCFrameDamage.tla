---------------------------- MODULE MCFrameDamage ----------------------------
EXTENDS FrameDamage
=============================================================================
