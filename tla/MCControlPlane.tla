--------------------------- MODULE MCControlPlane ---------------------------
(***************************************************************************)
(* Instances of ControlPlane for TLC.                                      *)
(***************************************************************************)
EXTENDS ControlPlane

CONSTANT c1

\* The client has described its agents first, which used up message id 1.
MCFirstId == [c \in Clients |-> 2]
=============================================================================
