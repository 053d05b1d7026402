----------------------------- MODULE Heartbeats -----------------------------
(***************************************************************************)
(* The collector of Axelar's heartbeats (axelar/vald/heartbeats).  Every   *)
(* Period blocks each validator's broadcaster sends a heartbeat, in one of *)
(* the PollingSize blocks of a window; the collector looks for it once the *)
(* window is over and counts a success or a miss.                          *)
(***************************************************************************)
EXTENDS Collector

CONSTANTS
  Period,      \* 50 blocks
  PollingSize, \* pollingSize
  Beats        \* whose heartbeats each block holds

ASSUME HeartbeatsConstants ==
  /\ Period \in Nat \ {0}
  /\ PollingSize \in 1..Period
  /\ Beats \in [Heights -> SUBSET Key]

\* Bound: counters stop at two, which tells once from more than once.
CountCap == 2

VARIABLES
  latestHeartbeatsHeight, \* of loop
  counted,                \* how often loop has counted a validator's window
  missed                  \* the windows that it counted as missed

heartbeatsVars == <<latestHeartbeatsHeight, counted, missed>>

Windows == {w \in Heights : \E q \in 0..MaxHeight : w = q * Period + 1}
WindowKeys == Windows \X Key

HeartbeatsInit ==
  /\ latestHeartbeatsHeight = 0
  /\ counted = [w \in WindowKeys |-> 0]
  /\ missed = {}

\* Mutant: a window that is not over yet.
findHeartbeatsHeightNext(h) == (h \div Period + 1) * Period + 1

\* The first block of the window that the reported height belongs to.
findHeartbeatsHeight(h) == (h \div Period) * Period + 1

\* Mutant: looks before the window is over.
SkipHeartbeatsLate(h) == latestHeartbeatsHeight >= findHeartbeatsHeight(h)

\* The window is not over, or was looked at in the last poll.
SkipHeartbeats(h) ==
  \/ h % Period < PollingSize
  \/ latestHeartbeatsHeight >= findHeartbeatsHeight(h)

\* GetAxelarHeartbeatsStatus up to the decision to skip.  A skipped poll
\* returns an empty status, whose height 0 loop stores.
HeartbeatsStatus ==
  /\ pc = "loop"
  /\ \E h \in Heights :
       /\ Answers("rpc", h)
       /\ IF SkipHeartbeats(h)
          THEN /\ PollDone({})
               /\ latestHeartbeatsHeight' = 0
               /\ UNCHANGED at
          ELSE /\ pc' = "validators"
               /\ at' = findHeartbeatsHeight(h)
               /\ UNCHANGED <<health, published, latestHeartbeatsHeight>>
  /\ UNCHANGED <<package, height, up, api, rpc, list, seen, gauge, kept, left,
                 counted, missed>>

HeartbeatsValidators ==
  /\ pc = "validators"
  /\ \E h \in Heights : Answers("api", h) /\ list' = Bonded[h]
  /\ pc' = "blocks"
  /\ UNCHANGED <<package, height, up, api, rpc, seen, at, metrics, published,
                 left, heartbeatsVars>>

\* findHeartbeats reads the window's blocks.  GetBlockAndTxs takes the error for
\* a height that the node does not have yet for a block without transactions.
FindHeartbeats ==
  /\ pc = "blocks"
  /\ \E h \in Heights :
       /\ Answers("api", h)
       /\ seen' = UNION {Beats[b] : b \in at..(at + PollingSize - 1) \cap 1..h}
  /\ pc' = "proxies"
  /\ UNCHANGED <<package, height, up, api, rpc, list, at, metrics, published,
                 left, heartbeatsVars>>

\* Its error is dropped: the poll succeeds without any validator.
FindHeartbeatsError ==
  /\ pc = "blocks"
  /\ Fails("api")
  /\ PollDone({})
  /\ latestHeartbeatsHeight' = at
  /\ list' = {}
  /\ at' = 0
  /\ UNCHANGED <<package, height, up, api, rpc, seen, gauge, kept, left, misled,
                 counted, missed>>

\* The broadcaster of each validator, by RPC; loop counts the results.
CountHeartbeats ==
  /\ pc = "proxies"
  /\ rpc \in up["rpc"]
  /\ PollDone(Wanted(list))
  /\ latestHeartbeatsHeight' = at
  /\ counted' = [w \in WindowKeys |->
       IF w[1] = at /\ w[2] \in Wanted(list) /\ counted[w] < CountCap
       THEN counted[w] + 1 ELSE counted[w]]
  /\ missed' = missed \cup ({at} \X (Wanted(list) \ seen))
  /\ kept' = kept \cup Wanted(list)
  /\ list' = {}
  /\ seen' = {}
  /\ at' = 0
  /\ UNCHANGED <<package, network, api, rpc, gauge, left, misled>>

\* loop keeps its endpoints after an error: it never sets isUnhealth.
HeartbeatsError ==
  /\ \/ pc \in {"loop", "proxies"} /\ Fails("rpc")
     \/ pc = "validators" /\ Fails("api")
  /\ health' = 0
  /\ pc' = "loop"
  /\ list' = {}
  /\ seen' = {}
  /\ at' = 0
  /\ published' = {}
  /\ UNCHANGED <<package, height, up, api, rpc, gauge, kept, left, misled,
                 heartbeatsVars>>

\* The counters and loop's variables die with the process.
HeartbeatsDie ==
  IF pc' = "down"
  THEN /\ latestHeartbeatsHeight' = 0
       /\ counted' = [w \in WindowKeys |-> 0]
       /\ missed' = {}
  ELSE UNCHANGED heartbeatsVars

HeartbeatsLoop ==
  \/ HeartbeatsStatus
  \/ HeartbeatsValidators
  \/ FindHeartbeats
  \/ FindHeartbeatsError
  \/ CountHeartbeats
  \/ HeartbeatsError

-----------------------------------------------------------------------------

HeartbeatsTypeOK ==
  /\ latestHeartbeatsHeight \in 0..MaxHeight
  /\ counted \in [WindowKeys -> 0..CountCap]
  /\ missed \in SUBSET WindowKeys

\* A heartbeat is counted as missed only when none of the window's blocks holds
\* it, late ones included, unless a node was behind.
HeartbeatsMissedTruly ==
  ~misled => \A w \in missed :
               \A b \in Heights \cap w[1]..(w[1] + PollingSize - 1) :
                  w[2] \notin Beats[b]

\* Each window is counted once for each validator, as the comment on
\* GetAxelarHeartbeatsStatus says.
HeartbeatsCountedOnce == \A w \in WindowKeys : counted[w] <= 1

=============================================================================
