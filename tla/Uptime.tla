------------------------------- MODULE Uptime -------------------------------
(***************************************************************************)
(* The uptime collector (consensus/uptime).  On a chain of its own it      *)
(* reads the bonded validators from the API and the consensus validators   *)
(* from the RPC, at two different moments, and matches them by the number  *)
(* of consensus validators and by public key.  On a consumer chain it      *)
(* reads the validators from the provider chain.                           *)
(***************************************************************************)
EXTENDS Collector

CONSTANTS
  Consensus,  \* the consensus validators at each height
  Tokens,     \* the tokens of each validator
  Opted       \* the validators of the consumer chain at each height

ASSUME UptimeConstants ==
  /\ Consensus \in [Heights -> SUBSET Key]
  /\ Tokens \in [Key -> Nat]
  /\ Opted \in [Heights -> SUBSET Key]

\* 1. the bonded validators.
GetStakingValidators ==
  /\ pc = "loop"
  /\ \E h \in Heights : Answers("api", h) /\ list' = Bonded[h]
  /\ pc' = "consensus"
  /\ UNCHANGED <<package, height, up, api, rpc, seen, at, metrics, published,
                 left>>

\* 2. the consensus validators.
GetValidators ==
  /\ pc = "consensus"
  /\ \E h \in Heights : Answers("rpc", h) /\ seen' = Consensus[h]
  /\ pc' = "items"
  /\ UNCHANGED <<package, height, up, api, rpc, list, at, metrics, published,
                 left>>

\* s are as many bonded validators as there are consensus validators, those
\* with the most tokens.
sliceStakingValidatorByVP(s) ==
  /\ s \subseteq list
  /\ Cardinality(s) = Cardinality(seen)
  /\ \A v \in s, w \in list \ s : Tokens[v] >= Tokens[w]

\* More consensus than bonded validators: the slice expression is out of the
\* list's range, which panics, or only out of its length, which makes empty
\* items whose requests fail.
SlicePanic ==
  /\ pc = "items"
  /\ Cardinality(seen) > Cardinality(list)
  /\ \/ Die
     \/ PollError
  /\ UNCHANGED faults

\* A validator that is not in the consensus set has no consensus address, and
\* the request for its signing info fails.
UnknownAddress ==
  /\ pc = "items"
  /\ \E s \in SUBSET list : sliceStakingValidatorByVP(s) /\ ~(s \subseteq seen)
  /\ PollError
  /\ UNCHANGED faults

\* Mutant: takes the request without an address for an answer.
getValidatorUptimeStatusAny ==
  /\ pc = "items"
  /\ api \in up["api"]
  /\ \E s, lost \in SUBSET list :
       /\ sliceStakingValidatorByVP(s)
       /\ lost \subseteq s
       /\ IF lost = {} THEN UNCHANGED faults ELSE Fault("panic")
       /\ left' = lost
       /\ PollDone(Wanted(s \ lost))
       /\ kept' = kept \cup Wanted(s \ lost)
  /\ list' = {}
  /\ UNCHANGED <<package, height, up, api, rpc, seen, at, gauge, misled>>

\* 3. the signing info of each of them, 4. the parameters; loop publishes.
getValidatorUptimeStatus ==
  /\ pc = "items"
  /\ api \in up["api"]
  /\ \E s, lost \in SUBSET list :
       /\ sliceStakingValidatorByVP(s)
       /\ s \subseteq seen
       /\ lost \subseteq s
       /\ IF lost = {} THEN UNCHANGED faults ELSE Fault("panic")
       /\ left' = lost
       /\ PollDone(Wanted(s \ lost))
       /\ kept' = kept \cup Wanted(s \ lost)
  /\ list' = {}
  /\ UNCHANGED <<package, height, up, api, rpc, seen, at, gauge, misled>>

UptimeError ==
  /\ \/ pc \in {"loop", "items"} /\ Fails("api")
     \/ pc = "consensus" /\ Fails("rpc")
  /\ PollError

UptimeLoop ==
  \/ GetStakingValidators
  \/ GetValidators
  \/ SlicePanic
  \/ UnknownAddress
  \/ getValidatorUptimeStatus
  \/ UptimeError
  \/ HealthCheckBoth

-----------------------------------------------------------------------------
\* A consumer chain.

\* 1. the consumer's id and 2. its validators, both from the provider chain.
\* An answer of GetProviderValidators with a strange status code is taken for
\* an empty list: errors.Wrapf of a nil error is nil.
GetProviderValidators ==
  /\ pc = "loop"
  /\ \/ \E h \in Heights : Answers("provider", h) /\ list' = Opted[h]
     \/ /\ 1 \in up["provider"]
        /\ Fault("rpc")
        /\ list' = {}
        /\ misled' = TRUE
  /\ pc' = "items"
  /\ UNCHANGED <<package, height, up, api, rpc, seen, at, metrics, published,
                 left>>

\* 3. the address prefix, 4. the signing info of each of them and 5. the
\* parameters, from the consumer chain; loop publishes.
getConsumerValidatorUptimeStatus ==
  /\ pc = "items"
  /\ api \in up["api"]
  /\ \E lost \in SUBSET list :
       /\ IF lost = {} THEN UNCHANGED faults ELSE Fault("panic")
       /\ left' = lost
       /\ PollDone(Wanted(list \ lost))
       /\ kept' = kept \cup Wanted(list \ lost)
  /\ list' = {}
  /\ UNCHANGED <<package, height, up, api, rpc, seen, at, gauge, misled>>

\* The provider chain's endpoint is not replaced.
ConsumerError ==
  /\ \/ pc = "loop" /\ Fails("provider")
     \/ pc = "items" /\ Fails("api")
  /\ PollError

ConsumerLoop ==
  \/ GetProviderValidators
  \/ getConsumerValidatorUptimeStatus
  \/ ConsumerError
  \/ HealthCheckBoth

-----------------------------------------------------------------------------

\* A poll that succeeds publishes exactly the (tracked) consensus validators,
\* though the bonded and the consensus set are read at different heights and
\* only their sizes are compared; a recovered panic leaves out its validator.
UptimeComplete ==
  package = "uptime" /\ pc = "loop" /\ health = 1
    => published = Wanted(seen \ left)

=============================================================================
