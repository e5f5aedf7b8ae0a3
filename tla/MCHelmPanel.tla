---------------------------- MODULE MCHelmPanel ----------------------------
(* Instances of HelmPanel: one or two engines, one of them with CAP_STOP. *)
EXTENDS HelmPanel

OneEngine == {0}
TwoEngines == {0, 1}
SecondStops == {1}
FirstStops == {0}
=============================================================================
