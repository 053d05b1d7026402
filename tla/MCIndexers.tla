------------------------------ MODULE MCIndexers ------------------------------
(***************************************************************************)
(* A small chain for Indexers.  Block 2 is the first to bring rows; block  *)
(* 3 brings a second key, two reporters, finality votes that come in bit   *)
(* by bit; block 4 a second committee member, a late poll vote and one     *)
(* that repeats a vote of block 3.                                         *)
(***************************************************************************)
EXTENDS Indexers

CONSTANTS k1, k2

MCKey == {k1, k2}
Ev(type, key) == [type |-> type, key |-> key]
Upto(list) == [h \in Heights |-> list[h]]

MCCovenantEvents ==
  Upto(<< {}, {Ev("signature", k1), Ev("delegation", k1)},
          {Ev("delegation", k1), Ev("other", k1)},
          {Ev("signature", k1), Ev("signature", k2)}, {}, {} >>)
MCMembers == Upto(<< {k1}, {k1}, {k1}, {k1, k2}, {k1, k2}, {k1, k2} >>)

MCInsertEvents ==
  Upto(<< << >>, << Ev("insert", k1), Ev("forward", k1) >>,
          << Ev("insert", k1), Ev("forward", k1),
             Ev("insert", k2), Ev("back", k2), Ev("forward", k2) >>,
          << Ev("forward", k1), Ev("insert", k1), Ev("back", k1) >>, << >>, << >> >>)

MCActiveFPs == Upto(<< {k1}, {k1}, {k1, k2}, {k1, k2}, {k1}, {k1} >>)
MCFPVotes == Upto(<< {k1}, {k1}, {k1, k2}, {k1, k2}, {}, {k1} >>)
LiveFPVotes == Upto(<< {k1}, {k1}, {k1, k2}, {k2}, {k1}, {k1} >>)
MCEarlyVotes == Upto(<< {}, {k1}, {k1}, {}, {}, {} >>)

MCValidators == Upto(<< {k1}, {k1, k2}, {k1, k2}, {k2}, {k2}, {k2} >>)
MCExtended == Upto(<< {}, {k1}, {k1}, {k2}, {k2}, {k2} >>)

MCPolls == Upto(<< {}, {k1, k2}, {k1, k2}, {}, {}, {} >>)
PV(poll, key) == [poll |-> poll, key |-> key]
MCPollVotes ==
  Upto(<< {}, {}, {PV(2, k1), PV(3, k2)}, {PV(2, k2), PV(3, k2)},
          {PV(3, k1)}, {} >>)

MCEpochValidators == Upto(<< {k1}, {k1}, {k1, k2}, {k2}, {k2}, {k2} >>)
MCEpochVotes == Upto(<< {k1}, {}, {k1}, {k2}, {k2}, {k2} >>)

===============================================================================
