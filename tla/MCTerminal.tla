----------------------------- MODULE MCTerminal -----------------------------
(***************************************************************************)
(* The terminal on a screen of six columns and a partial one, eight lines  *)
(* and a partial one, with a line buffer of four characters.  A full line  *)
(* reaches the right edge with its cursor bar.                             *)
(***************************************************************************)
EXTENDS Terminal

MCKeys == {"a", "b", "nl", "bs"}
MCFetchName == <<"a", "b">>
MCLogText == <<"[", "]", "nl">>
MCBanner == <<"nl", "#", "nl">>
MCFetchText == <<"nl", "#", "nl", "nl">>
=============================================================================
