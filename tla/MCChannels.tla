------------------------------- MODULE MCChannels -------------------------------
(***************************************************************************)
(* Instances of Channels small enough for TLC.                             *)
(***************************************************************************)
EXTENDS Channels

CONSTANTS j1, j2, j3

(* A call of one job and calls of two: together more than the channel holds.*)
SmallRequests ==
    {<<"apply_async", <<j1>>>>}
    \cup ({"map", "map_async", "imap", "imap_unordered"} \X {<<j2, j3>>})
=============================================================================
