----------------------------- MODULE MCFriendsNet -----------------------------
(* FriendsNet for TLC: two clients, two texts, two tries. *)
EXTENDS FriendsNet, TLC

=============================================================================
