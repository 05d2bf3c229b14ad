------------------------- MODULE MCRequestResponse -------------------------
(***************************************************************************)
(* RequestResponse on short feeds that mix messages with items that cannot *)
(* be decoded, an error of the relay and malformed bytes; claims with keys *)
(* of both parities, without a key, and of a root that is no CID.          *)
(***************************************************************************)
EXTENDS RequestResponse

MCFeeds ==
    {<<"message", "message", "message">>,
     <<"message", "foreign", "message", "message">>,
     <<"foreign", "foreign", "message", "error">>,
     <<"message", "foreign", "foreign", "foreign", "message">>,
     <<"message", "broken", "message">>,
     <<"error">>}

MCRequests ==
    {[op |-> op, key |-> 0, root |-> 1] : op \in {"query", "download"}}
    \cup {[op |-> "claim", key |-> k, root |-> r] : k \in {0, 1, Order - 1}, r \in {0, 1}}
=============================================================================
