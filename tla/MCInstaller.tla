----------------------------- MODULE MCInstaller -----------------------------
(***************************************************************************)
(* Installer for TLC: installers and files are model values, and installers*)
(* are interchangeable.  Symmetry is used for the safety run only.         *)
(***************************************************************************)
EXTENDS Installer, TLC

Symmetric == Permutations(Installers) \cup Permutations(Files)
=============================================================================
