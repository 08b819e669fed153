---------------------------- MODULE MCAuthorizer ----------------------------
(* Two calls, each for a device of its own: a saved device, an unknown one  *)
(* and one whose name or mac was read halfway all meet.                     *)
EXTENDS Authorizer

CONSTANTS r1, r2, d1, d2, n1, n2, m1, m2

MCDeviceOf == [r \in Requests |-> IF r = r2 THEN d2 ELSE d1]
MCNameOf == [d \in Devices |-> IF d = d1 THEN n1 ELSE n2]
MCMacOf == [d \in Devices |-> IF d = d1 THEN m1 ELSE m2]
=============================================================================
