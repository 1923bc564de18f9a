-------------------------- MODULE MCPokemonGame --------------------------
(* PokemonGame for TLC.  Every player has the account named like the       *)
(* connection; players are alike, and so are addresses.                    *)
EXTENDS PokemonGame
CONSTANTS Players
Symmetry == Permutations(Players) \cup Permutations(Ptrs)
=============================================================================
