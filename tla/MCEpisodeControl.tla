-------------------------- MODULE MCEpisodeControl --------------------------
(***************************************************************************)
(* EpisodeControl for TLC: what is checked but not proved.                 *)
(***************************************************************************)
EXTENDS EpisodeRefinement

\* `q` shuts the station down, whatever gesture is being collected or handled.
QuitLeadsToShutdown == quit_key ~> phase = "down"

\* README.md: "Pressing q at any point after launching the modpack command will
\* shutdown ModPack code."  So a `q` that is read leaves the loop.
QuitAtAnyPointShutsDown == [][quit_key /\ ~quit_key' => phase' # "loop"]_vars

=============================================================================
