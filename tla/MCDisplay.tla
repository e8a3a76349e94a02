------------------------------ MODULE MCDisplay ------------------------------
EXTENDS Display
CONSTANT w1
=============================================================================
