------------------------------- MODULE MCRamFS -------------------------------
(* RamFS with a handful of paths. *)
EXTENDS RamFS

\* Relative, through "..", "." and a doubled slash, and absolute.
SlashPaths ==
    { <<"a">>, <<"..">>, <<"a", "/", "b">>, <<"..", "/", "a">>, <<".", "/", "b", "/">>,
      <<"ram:", "/">>, <<"ram:", "/", "a", "/", "/", "b">> }

\* Paths with a backslash, which only some of the calls take for a separator.
MixedPaths == SlashPaths \cup { <<"ram:", "/", "a", "\\", "b">>, <<"a", "\\">> }
=============================================================================
