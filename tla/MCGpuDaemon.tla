---------------------------- MODULE MCGpuDaemon ----------------------------
(* Instances of GpuDaemon for TLC.                                         *)
EXTENDS GpuDaemon

CONSTANTS yolo, seg

TwoNodes == {yolo, seg}

With(t) == [n \in TwoNodes |-> IF n = yolo THEN {} ELSE t]

(* a node of the user next to another one, one that launch_wrap starts as  *)
(* it is, a node and a container that it starts under nsys, a node the     *)
(* daemon may not signal                                                   *)
EveryKind == {With({}), With({"launch"}), With({"launch", "wrapped"}),
              With({"container", "launch", "wrapped"}), With({"denied"})}
UserAndLaunch == {With({"launch"})}

FromLinked == {"linked", "context"}
Ready == {"context"}
=============================================================================
