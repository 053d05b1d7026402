------------------------- MODULE MCBlockDataAnalytics -------------------------
(***************************************************************************)
(* A small chain for BlockDataAnalytics: an empty block, a block with a    *)
(* known type, blocks that bring a new one.                                *)
(***************************************************************************)
EXTENDS BlockDataAnalytics, Sequences

CONSTANTS send, vote

MCMessageType == {send, vote}
AllTypes == << {send}, {send}, {}, {send, vote}, {vote} >>
MCTypes == [h \in Heights |-> AllTypes[h]]

===============================================================================
