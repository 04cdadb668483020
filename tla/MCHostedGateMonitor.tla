-------------------------- MODULE MCHostedGateMonitor --------------------------
(* Monitor calls of one pull request with one or two heads.                *)
EXTENDS HostedGateMonitor

CONSTANT s1
=============================================================================
