--------------------------- MODULE MCSequencerFeed ---------------------------
(* The feed of a partition, for TLC: its constants are numbers, given in the cfg. *)
EXTENDS SequencerFeedProperties
=============================================================================
