----------------------------- MODULE MCGpuLane -----------------------------
(* Three tasks, two sd-servers and two warm children, in the order started.  *)
EXTENDS GpuLane
=============================================================================
