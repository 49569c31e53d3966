---------------------------- MODULE MCDeployment ----------------------------
(***************************************************************************)
(* Instances of Deployment for TLC.                                        *)
(***************************************************************************)
EXTENDS Deployment, TLC

Symmetry == Permutations(Deployments) \cup Permutations(Workers)
                \cup Permutations(Tasks) \cup Permutations(Containers)
                \cup Permutations(Clients) \cup Permutations(Projects)
=============================================================================
