-------------------------- MODULE MCDeviceResources --------------------------
(***************************************************************************)
(* DeviceResources with two members, a pipeline of three resources and     *)
(* states of three, of which cleanup forgets the middle one.               *)
(***************************************************************************)
EXTENDS DeviceResources

MCForgotten == {2}
MCGpu == {0, 1}
=============================================================================
