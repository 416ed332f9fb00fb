-------------------------- MODULE MCPortfolioSync --------------------------
(***************************************************************************)
(* Instances of PortfolioSync for TLC: a Gateway and a Flex connection to  *)
(* the same accounts.                                                      *)
(***************************************************************************)
EXTENDS PortfolioSync, TLC

CONSTANTS gateway, flex, a1

MCResources == <<"cash", "positions">>
MCPositions == <<"positions">>
MCKeys == {<<gateway, a1>>}
=============================================================================
