------------------------ MODULE MCTemplateController ------------------------
(***************************************************************************)
(* Small instances of TemplateController.                                  *)
(***************************************************************************)
EXTENDS TemplateController, TLC

CONSTANTS t1, t2, bastion,   \* templates
          p1, p2             \* profiles

OneTemplate == {t1}
TwoTemplates == {t1, t2}

WithBastion == {t1, t2, bastion}
OneAndBastion == {t1, bastion}

\* The control plane's templates have one profile, the bastion's another.
ProfileOf == [t \in Template |-> IF t = bastion THEN p2 ELSE p1]

\* The two templates of the control plane are interchangeable.
ControlPlaneSymmetry == Permutations({t1, t2})
=============================================================================
