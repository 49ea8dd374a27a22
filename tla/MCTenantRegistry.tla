-------------------------- MODULE MCTenantRegistry --------------------------
(* Model values of the instances TLC checks of TenantRegistry.             *)
EXTENDS TenantRegistry

CONSTANTS t1, d1
OneTenant == {t1}
OneDevice == {d1}
OneRegion == {"us"}
TwoRegions == {"us", "eu"}
HomeUS == [d \in OneDevice |-> "us"]
=============================================================================
