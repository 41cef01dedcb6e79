--------------------------- MODULE MCNetworkState ---------------------------
(***************************************************************************)
(* A network object and the file it is saved to, for TLC.  NetworkState    *)
(* has a save happen at once; ArtifactFile is how it happens.  Neither     *)
(* reads the other's state, so one of them is taken away from where it     *)
(* begins at a time.  Dates, factor vectors, bindings, processes and saved *)
(* artifacts are only ever compared, so their model values are             *)
(* interchangeable.                                                        *)
(***************************************************************************)
EXTENDS NetworkState, ArtifactFile, TLC

Symmetry ==
  Permutations(Dates) \cup Permutations(Factors) \cup Permutations(Bindings)

OneInit == Init /\ PathInit
OneNext ==
  \/ PathInit /\ Next /\ UNCHANGED pathVars
  \/ Init /\ PathNext /\ UNCHANGED vars
OneSpec == OneInit /\ [][OneNext]_<<vars, pathVars>>
=============================================================================
