-------------------------------- MODULE Packages --------------------------------
(* What the solvers and the planning that calls them have in common: packages in  *)
(* versions that have an order.                                                   *)
EXTENDS Naturals

CONSTANTS
    Pkg,
    MaxVersion,   \* versions are 1 .. MaxVersion
    None

Version == 1 .. MaxVersion

ASSUME PackagesAssumption == MaxVersion \in Nat \ {0} /\ None \notin Version

=============================================================================
