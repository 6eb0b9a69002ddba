----------------------------- MODULE RenderingMC -----------------------------
(* Rendering for TLC: textures are model values that nothing tells apart.   *)
EXTENDS Rendering, TLC

TextureSymmetry == Permutations(Textures)
=============================================================================
