---------------------------- MODULE MCPortfolio ----------------------------
(* Instances of PortfolioFiles for TLC. *)
EXTENDS PortfolioFiles
=============================================================================
