--------------------------- MODULE MCReceiveLoop ---------------------------
(***************************************************************************)
(* Instances of ReceiveLoop for TLC, and what a comment in AppMain says of *)
(* the rest it keeps, which the code does not do.                          *)
(***************************************************************************)
EXTENDS ReceiveLoop

\* ircbot.c: the unparsed string is buffered.  No character in it was parsed.
OnlyUnparsed ==
    pc = "loop" => \A i \in DOMAIN parsed : ToSet(rest) \cap ToSet(parsed[i]) = {}
=============================================================================
