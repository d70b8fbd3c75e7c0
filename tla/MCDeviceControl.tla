-------------------------- MODULE MCDeviceControl --------------------------
(* DeviceControl with two lamps whose names contain each other, so that each *)
(* name fits both, and a reference that fits one of them only.               *)
EXTENDS DeviceControl

CONSTANTS lamp1, lamp2

MCDevices == {lamp1, lamp2}
MCRefs == {"lamp", "desk lamp", "desk"}
MCMatches == {<<r, d>> \in MCRefs \X MCDevices : r # "desk" \/ d = lamp2}
MCNameOf == [d \in MCDevices |-> IF d = lamp1 THEN "lamp" ELSE "desk lamp"]
=============================================================================
