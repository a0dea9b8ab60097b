-------------------------- MODULE MCPackageInstall --------------------------
(***************************************************************************)
(* Two ranges of one package, the second of which needs another package.    *)
(***************************************************************************)
EXTENDS PackageInstall

CONSTANTS tool, lib, packageJson, index

MCNameOf == [id \in Ids |-> IF id <= 2 THEN tool ELSE lib]
MCDeps == [id \in Ids |-> IF id = 2 THEN {3} \cap Ids ELSE {}]
=============================================================================
