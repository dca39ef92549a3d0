---------------------------- MODULE MCWeb3Client ----------------------------
(***************************************************************************)
(* An instance of Web3Client for TLC: the jobs are numbered so that which  *)
(* chain a job uses and whether it blocks can be given as functions.       *)
(***************************************************************************)
EXTENDS Web3Client

CONSTANTS sepolia, arbitrum

TwoChains == {sepolia, arbitrum}
FourJobs == 1 .. 4
HalfOnEach == [j \in Jobs |-> IF j <= 2 THEN sepolia ELSE arbitrum]
OneBlocksOnEach == {1, 3}
OnlySepolia == {sepolia}
OnlyArbitrum == {arbitrum}
=============================================================================
