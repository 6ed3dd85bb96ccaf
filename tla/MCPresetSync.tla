---------------------------- MODULE MCPresetSync ----------------------------
(***************************************************************************)
(* Instances of PresetSync for TLC: one or two speakers, two slots, one or *)
(* two presets, and the environments the runs combine.                     *)
(***************************************************************************)
EXTENDS PresetSync, TLC

CONSTANTS d1, d2, k1, k2, x, y

\* Everything the gates are there for.
Hardened == {"nofit", "corrupt"}

\* Every event but a marker that does not fit.
Everything == PossibleEnv \ {"nomarker"}

\* Edits of a speaker whose slice is in doubt.
Gated == {"nofit", "editGated"}

Symmetry == Permutations({d1, d2}) \cup Permutations({k1, k2}) \cup Permutations({x, y})
=============================================================================
