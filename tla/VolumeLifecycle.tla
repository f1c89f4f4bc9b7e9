--------------------------- MODULE VolumeLifecycle ---------------------------
(***************************************************************************)
(* What a CSI controller promises to the orchestrator, whatever backs its  *)
(* volumes: a volume handed out is backed by a usable resource at least as *)
(* large as the orchestrator was told, until its deletion is asked for; a  *)
(* volume reported as deleted has nothing left.  The controllers are shown *)
(* to implement it with a refinement mapping of their cloud state.         *)
(***************************************************************************)
EXTENDS Naturals

CONSTANT Vols

VARIABLES phase,    \* what the orchestrator knows: wanted, bound, released, deleted
          told,     \* the size it was told
          state,    \* of the backing resource: none, partial, usable
          capacity  \* of the backing resource

vars == <<phase, told, state, capacity>>

Backed(v) == state[v] = "usable" /\ capacity[v] >= told[v]

Init == \A v \in Vols : \/ phase[v] = "wanted" /\ state[v] = "none"
                        \/ phase[v] = "bound" /\ Backed(v)

Becomes(v, from, to) == phase[v] = from /\ phase'[v] = to
SameTold(v) == told'[v] = told[v]

\* CreateVolume, ControllerExpandVolume and DeleteVolume answer success.
Bind(v) == Becomes(v, "wanted", "bound") /\ Backed(v)'
Grow(v) == Becomes(v, "bound", "bound") /\ told'[v] > told[v] /\ Backed(v)'
Delete(v) == Becomes(v, "released", "deleted") /\ state'[v] = "none" /\ SameTold(v)

\* The resource is set up, resized, repaired and taken down in between.
Provision(v) == Becomes(v, "wanted", "wanted") /\ SameTold(v)
Change(v) == Becomes(v, "bound", "bound") /\ Backed(v)' /\ SameTold(v)
Release(v) == Becomes(v, "bound", "released") /\ SameTold(v)
Reclaim(v) == Becomes(v, "released", "released")  \* a late answer may change what is told
RemainDeleted(v) == Becomes(v, "deleted", "deleted") /\ state'[v] = "none" /\ SameTold(v)

\* A step may be about several volumes: what happens to an instance happens to
\* every volume on it.
Next == \A v \in Vols :
  \/ Bind(v) \/ Grow(v) \/ Delete(v)
  \/ Provision(v) \/ Change(v) \/ Release(v) \/ Reclaim(v) \/ RemainDeleted(v)

Spec == Init /\ [][Next]_vars
=============================================================================
