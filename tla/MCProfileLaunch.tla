-------------------------- MODULE MCProfileLaunch --------------------------
(* Small instances of ProfileLaunch for TLC.                                *)
EXTENDS ProfileLaunch

\* Nothing reads the file once AppDeck has ended for the last time.
View ==
  <<process, bridge, up, memory, IF ends = MaxEnds THEN <<>> ELSE saved, app,
    launching, pending, bounds>>
=============================================================================
