------------------------------ MODULE MCPacks ------------------------------
(***************************************************************************)
(* One pack directory, two install processes and two threads of a host.     *)
(***************************************************************************)
EXTENDS LanguageBundles, TLC

MCSymmetry == Permutations(Version) \cup Permutations(Thread) \cup Permutations(Installer)

=============================================================================
