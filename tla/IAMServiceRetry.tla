--------------------------- MODULE IAMServiceRetry ---------------------------
(***************************************************************************)
(* IAMService when jobs are retried: what a job leads to in the end.       *)
(*                                                                         *)
(* Failed calls, lost answers, restarts and the doings of others come at   *)
(* any time but only MaxFaults times, so that there is an end to them; the *)
(* bound is part of the model and not of the code.  Under it the fairness  *)
(* is weak: controller-runtime puts an object whose reconciliation failed  *)
(* back in its queue and starts it again, and a goroutine that is waiting  *)
(* for an answer gets one.                                                 *)
(***************************************************************************)
EXTENDS IAMService

CONSTANT MaxFaults

ASSUME MaxFaults \in Nat

VARIABLE faults

retryVars == <<vars, faults>>

Works(w) == Reads(w) \/ Writes(w, FALSE)

\* A worker has one object, whose job it starts again whenever it ended.
Retries(w) == Start(w, job[w])

Fault == \/ \E w \in Worker : CallFails(w) \/ Writes(w, TRUE)
         \/ Crash
         \/ \E r \in Role : Elsewhere(r)

RetryInit == Init /\ faults = 0

RetryNext == \/ /\ \E w \in Worker : Retries(w) \/ Works(w)
                /\ UNCHANGED faults
             \/ /\ Fault /\ faults < MaxFaults
                /\ faults' = faults + 1

RetrySpec == /\ RetryInit /\ [][RetryNext]_retryVars
             /\ \A w \in Worker : /\ WF_retryVars(Retries(w) /\ UNCHANGED faults)
                                  /\ WF_retryVars(Works(w) /\ UNCHANGED faults)

-----------------------------------------------------------------------------
\* Whatever fails or is lost on the way, retried reconciliation ends with
\* the roles of its job in place, with their trust and inline policies, and
\* they stay so: there is no state from which createRole, applyAssumePolicyRole
\* and attachInlinePolicy cannot recover.
ReconciliationConverges ==
    \A w \in Worker : Makes(job[w]) => <>[]Satisfied(job[w])

\* Whatever fails or is lost on the way, retried deletion ends with every
\* role gone or Crossplane's, unless it stops at one whose owner is unknown:
\* no half-done deleteRole is in the way of the next.
OfUnknownOwner(r) == Exists(r) /\ ~Owned(r) /\ ~OfCrossplane(r)
DeletionConverges ==
    \A w \in Worker : MayDelete(job[w]) =>
        <>[](\/ \A r \in RolesOf(job[w]) : Spared(r)
            \/ \E r \in RolesOf(job[w]) : OfUnknownOwner(r))

\* Where there was no role, retried reconciliation also ends with the role
\* in its instance profile ("The controller is not idempotent to this extent,
\* but should be", controllers/awsmachinetemplate_controller_test.go).
InstanceProfileConverges ==
    (\A r \in Role : ~Exists(r) /\ profile[r] = "none") =>
        <>[](\A w \in Worker : \A r \in RolesOf(job[w]) : profile[r] = "holds")
=============================================================================
