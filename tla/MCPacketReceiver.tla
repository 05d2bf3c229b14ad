-------------------------- MODULE MCPacketReceiver --------------------------
(***************************************************************************)
(* PacketReceiver with a peer that may send any of a few hundred messages: *)
(* all combinations of counters, markers, owners and leaf lists, most of   *)
(* them invalid at most points of a transfer.                              *)
(***************************************************************************)
EXTENDS PacketReceiver

CONSTANTS
    a, b, other,  \* two more leaves, and another root
    k1, k2        \* two owners

MCLeaves == {<<Root>>, <<Root, a>>, <<a>>, <<b>>, <<a, b>>, <<a, a>>,
             <<b, NoHash>>, <<>>}

\* The relationships that go with a list of leaves: complete, with a leaf
\* omitted, and with a non-root leaf that has no parent.
MCParents(leaves) ==
    LET hs == {leaves[i] : i \in DOMAIN leaves}
    IN  {[h \in hs |-> IF h = Root THEN NoHash ELSE Root],
         [h \in hs \ {a} |-> IF h = Root THEN NoHash ELSE Root],
         [h \in hs |-> IF h \in {Root, b} THEN NoHash ELSE Root]}

MCRootLeaf(leaves, parents) ==
    IF \E i \in DOMAIN leaves : /\ leaves[i] \in DOMAIN parents
                                /\ parents[leaves[i]] = NoHash
    THEN LET first == CHOOSE i \in DOMAIN leaves :
                          /\ leaves[i] \in DOMAIN parents
                          /\ parents[leaves[i]] = NoHash
         IN  leaves[first]
    ELSE NoHash

MCOwners == {<<k1, k1>>, <<k2, k2>>, <<k1, k2>>, <<NoKey, NoKey>>, <<k1, NoKey>>}

MCMessage(root, owner, final, index, tot, ls, ps) ==
    [root |-> root, publicKey |-> owner[1], signature |-> owner[2],
     final |-> final, index |-> index, total |-> tot, leaves |-> ls,
     parents |-> ps, rootLeaf |-> MCRootLeaf(ls, ps)]

MCMessages ==
    UNION {{MCMessage(Root, o, f, i, t, ls, ps) :
                o \in MCOwners, f \in BOOLEAN, i \in 0..2, t \in {-1, 0, 2, 3},
                ps \in MCParents(ls)} : ls \in MCLeaves}
    \cup {MCMessage(other, <<k1, k1>>, FALSE, i, 2, <<b>>, [h \in {b} |-> Root]) :
                i \in 0..1}

MCHashes == {Root, a, b, other}
MCKeys == {k1, k2}
=============================================================================
