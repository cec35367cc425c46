------------------------------ MODULE MCTenancy ------------------------------
EXTENDS Tenancy, TLC
=============================================================================
