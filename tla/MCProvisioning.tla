--------------------------- MODULE MCProvisioning ---------------------------
(* Codes and inputs for the run of Provisioning: a code, the next one of   *)
(* the same device, and one of another device.                             *)
EXTENDS Provisioning

CONSTANTS k1, k2, k3, d1, d2

TwoDevices == [c \in {k1, k2, k3} |-> IF c = k3 THEN d2 ELSE d1]

MCInput(c, e, l) == [code |-> c, endpoint |-> e, login |-> l]

FewInputs == {MCInput(k1, 0, 0), MCInput(k2, 1, 1), MCInput(k3, 0, 0)}
=============================================================================
