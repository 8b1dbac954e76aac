-------------------------- MODULE KubernetesObject --------------------------
(***************************************************************************)
(* The life of one object in the Kubernetes API, as far as finalizers and  *)
(* deletion go.  Outside the repository.                                   *)
(***************************************************************************)

Life == {"absent", "live", "deleting", "gone"}

There(life) == life \in {"live", "deleting"}

\* An object that is being deleted goes when its last finalizer does.
LifeWith(life, finalizers) ==
    IF life = "deleting" /\ finalizers = {} THEN "gone" ELSE life

\* A request to delete it: it stays until nobody holds it any more.
Deleted(life, finalizers) ==
    IF life = "live" THEN LifeWith("deleting", finalizers) ELSE life

\* While an object is being deleted, the API server takes no new finalizer.
Accepts(life, finalizers, new) == life = "live" \/ new \subseteq finalizers
=============================================================================
