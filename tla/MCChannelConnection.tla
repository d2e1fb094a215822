------------------------ MODULE MCChannelConnection ------------------------
(* Instances of ChannelConnection for TLC: see the .cfg files. *)
EXTENDS ChannelConnection, TLC
CONSTANTS c1, c2, k1, k2

OwnTokens == c1 :> k1 @@ c2 :> k2
SharedToken == c1 :> k1 @@ c2 :> k1
=============================================================================
