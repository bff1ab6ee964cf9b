---------------------------- MODULE MatchedStatus ---------------------------
(***************************************************************************)
(* RemoteServerMatchedStatus and RemoteClientMatchedStatus of              *)
(* app_utils.hpp: which of the two endpoints of every remote participant   *)
(* are matched.  The code keeps a map from GUID prefixes to a bitset<2>;   *)
(* here a status is a function from peers to sets of endpoints, and a peer *)
(* that is not in the map has the empty set: no query of the two classes   *)
(* tells an absent entry from one with both bits reset.                    *)
(***************************************************************************)

\* The endpoints of a client, seen by a server, and those of a server, seen
\* by a client (the two "position" constants of each class).
ClientEndpoints == {"request_writer", "reply_reader"}
ServerEndpoints == {"request_reader", "reply_writer"}

NoneMatched(peers) == [p \in peers |-> {}]

\* Bug: the positions of the other class are used.
MatchWrongPosition(status, peer, endpoint, value) ==
    [status EXCEPT ![peer] = IF value THEN @ \cup {"reply_writer"} ELSE @ \ {"reply_writer"}]

\* match_request_writer, match_reply_reader, match_request_reader and
\* match_reply_writer: set or reset one bit of one peer.
Match(status, peer, endpoint, value) ==
    [status EXCEPT ![peer] = IF value THEN @ \cup {endpoint} ELSE @ \ {endpoint}]

\* bitset::all, of a client and of a server.
is_client_matched(status, peer) == status[peer] = ClientEndpoints
is_server_matched(status, peer) == status[peer] = ServerEndpoints

\* Bug: all() for any().
is_fully_matched(status, peer) == status[peer] = ClientEndpoints

\* Despite its name this is true of a client with SOME endpoint matched: the
\* code returns !none().  Its only caller negates it.
is_fully_unmatched(status, peer) == status[peer] # {}

\* Bug: one client without matches is enough.
some_client_unmatched(status) == \E p \in DOMAIN status : status[p] = {}

no_client_matched(status) == \A p \in DOMAIN status : status[p] = {}

is_any_server_matched(status) == \E p \in DOMAIN status : is_server_matched(status, p)
=============================================================================
