------------------------------- MODULE MCWebLink -------------------------------
(* Instances of WebLink for TLC.                                            *)
EXTENDS WebLink

\* Either event, or both.
AllEndings == {{"error"}, {"end"}, {"error", "end"}}
=============================================================================
