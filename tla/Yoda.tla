-------------------------------- MODULE Yoda --------------------------------
(***************************************************************************)
(* The collector of Band's oracle requests (duty/yoda).  A poll collects   *)
(* the requests that have not expired and who has not reported to them; a  *)
(* request that is gone from the next poll's result is finished, and how   *)
(* long the validator took is observed once.                               *)
(***************************************************************************)
EXTENDS Collector, Sequences

CONSTANTS
  RequestAt,   \* the height of each request, the ids being 1, 2, ...
  Requested,   \* whom each request asks
  ReportAt,    \* the height of each validator's report to each request
  SlashWindow, \* the chain's slash window
  BatchSize    \* batchSize

Ids == DOMAIN RequestAt
Misses == Key \X Ids

ASSUME YodaConstants ==
  /\ RequestAt \in Seq(Nat)
  /\ \A i, j \in Ids : i < j => RequestAt[i] <= RequestAt[j]
  /\ Requested \in [Ids -> SUBSET Key]
  /\ ReportAt \in [Misses -> Nat]
  /\ SlashWindow \in Nat
  /\ BatchSize \in Nat \ {0}

VARIABLES
  request,           \* the highest id of the next batch
  nonExpired,        \* the open misses of this poll so far
  yodaRequestMisses, \* the misses of the last successful poll
  observed           \* how often each miss was observed (bound: at most 2)

yodaVars == <<request, nonExpired, yodaRequestMisses, observed>>

YodaInit ==
  /\ request = 0
  /\ nonExpired = {}
  /\ yodaRequestMisses = {}
  /\ observed = [m \in Misses |-> 0]

RequestCount(h) == Cardinality({i \in Ids : RequestAt[i] <= h})

\* What the chain says at height h: the requests' validators without a report.
Unreported(h) ==
  {m \in Misses : /\ RequestAt[m[2]] <= h
                  /\ m[1] \in Requested[m[2]]
                  /\ ReportAt[m] > h}

Expired(i, h) == RequestAt[i] + SlashWindow < h

\* The validators, the number of requests and the parameters.
YodaRequests ==
  /\ pc = "loop"
  /\ \E h \in Heights :
       /\ Answers("api", h)
       /\ list' = Bonded[h]
       /\ request' = RequestCount(h)
  /\ nonExpired' = {}
  /\ pc' = "height"
  /\ UNCHANGED <<package, height, up, api, rpc, seen, at, metrics, published,
                 left, yodaRequestMisses, observed>>

\* The current height.  The batches run while i > 1: with one request there is
\* none.
YodaHeight ==
  /\ pc = "height"
  /\ \E h \in Heights : Answers("rpc", h) /\ at' = h
  /\ pc' = IF request > 1 THEN "requests" ELSE "reporters"
  /\ UNCHANGED <<package, height, up, api, rpc, list, seen, metrics, published,
                 left, yodaVars>>

\* A batch of requests.  A failed one is passed over; after a batch with an
\* expired request there is no other.  When request 1 is all that is left it is
\* not asked for, though it was in the last result.
YodaBatch ==
  /\ pc = "requests"
  /\ \E h \in Heights :
     \E lost \in SUBSET ((request - BatchSize + 1)..request \cap Ids) :
       LET ids  == ((request - BatchSize + 1)..request \cap 1..RequestCount(h))
                     \ lost
           more == request - BatchSize > 1 /\ \A i \in ids : ~Expired(i, at)
           over == /\ request - BatchSize = 1
                   /\ \A i \in ids : ~Expired(i, at)
                   /\ \E v \in Key : <<v, 1>> \in yodaRequestMisses
       IN /\ h = height \/ Behind(h)
          /\ \/ /\ api \in up["api"]
                /\ lost = {}
                /\ IF h = height THEN UNCHANGED faults ELSE Fault("lag")
             \/ /\ api \in up["api"]
                /\ lost # {} /\ h = height
                /\ Fault("rpc")
             \/ /\ api \notin up["api"]
                /\ h = height
                /\ lost = (request - BatchSize + 1)..request \cap Ids
                /\ UNCHANGED faults
          /\ misled' = (misled \/ h < height \/ lost # {} \/ over)
          /\ nonExpired' = nonExpired \cup
               {m \in Unreported(h) : /\ m[2] \in ids
                                      /\ ~Expired(m[2], at)
                                      /\ RequestAt[m[2]] <= at}
          /\ request' = IF more THEN request - BatchSize ELSE 0
          /\ pc' = IF more THEN "requests" ELSE "reporters"
  /\ UNCHANGED <<package, height, up, api, rpc, poll, metrics, published, left,
                 yodaRequestMisses, observed>>

\* Mutant: does not ask whether the miss is still open.
ProcessYodaMissesAll(old, new, found) == {m \in old : m[1] \in found}

\* The misses that are gone, of validators that this poll found.
ProcessYodaMisses(old, new, found) ==
  {m \in old : m[1] \in found /\ m \notin new}

\* Whether each validator is active; a panic leaves one out, with its misses.
\* loop observes what has finished.
YodaReporters ==
  /\ pc = "reporters"
  /\ api \in up["api"]
  /\ \E lost \in SUBSET list :
       LET found == list \ lost
           new == {m \in nonExpired : m[1] \in found}
           finished == ProcessYodaMisses(yodaRequestMisses, new, found)
       IN /\ IF lost = {} THEN UNCHANGED faults ELSE Fault("panic")
          /\ left' = lost
          /\ observed' = [m \in Misses |->
               IF m \in finished /\ observed[m] < 2
               THEN observed[m] + 1 ELSE observed[m]]
          /\ yodaRequestMisses' = new
          /\ PollDone(Wanted(found))
          /\ kept' = kept \cup Wanted(found)
  /\ list' = {}
  /\ at' = 0
  /\ request' = 0
  /\ nonExpired' = {}
  /\ UNCHANGED <<package, height, up, api, rpc, seen, gauge, misled>>

YodaError ==
  /\ \/ pc \in {"loop", "reporters"} /\ Fails("api")
     \/ pc = "height" /\ Fails("rpc")
  /\ PollError
  /\ request' = 0
  /\ nonExpired' = {}
  /\ UNCHANGED <<yodaRequestMisses, observed>>

YodaDie ==
  IF pc' = "down"
  THEN /\ request' = 0
       /\ nonExpired' = {}
       /\ yodaRequestMisses' = {}
       /\ observed' = [m \in Misses |-> 0]
  ELSE UNCHANGED yodaVars

YodaLoop ==
  \/ YodaRequests
  \/ YodaHeight
  \/ YodaBatch
  \/ YodaReporters
  \/ YodaError
  \/ HealthCheckAPI /\ UNCHANGED yodaVars

-----------------------------------------------------------------------------

YodaTypeOK ==
  /\ request \in Nat
  /\ nonExpired \in SUBSET Misses
  /\ yodaRequestMisses \in SUBSET Misses
  /\ observed \in [Misses -> 0..2]

\* A miss is observed at most once, and only when the validator has reported or
\* the request has expired, whatever was read at which height and whichever
\* polls failed, unless a node was behind, a request's answer was dropped or
\* request 1 was passed over.
YodaFinishedOnly ==
  ~misled => \A m \in Misses :
               /\ observed[m] <= 1
               /\ observed[m] = 1 => \/ ReportAt[m] <= height
                                     \/ Expired(m[2], height)

=============================================================================
