-------------------------- MODULE MCFeedChannels ----------------------------
(* Small instances of FeedChannels. *)
EXTENDS FeedChannels
=============================================================================
