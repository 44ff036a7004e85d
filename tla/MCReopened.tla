------------------------------ MODULE MCReopened ------------------------------
(* One plan, of the playbook library, and two alerts of the incident.      *)
EXTENDS Reopened

CONSTANTS p1

MCPlans == {p1}
===============================================================================
