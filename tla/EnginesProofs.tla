---------------------------- MODULE EnginesProofs ----------------------------
(***************************************************************************)
(* Proofs about the engines that drive work forward in one process besides *)
(* the scheduler: the relay loop of the Streaming_Engine, the single-flight*)
(* cache and the executor of workflows.                                    *)
(***************************************************************************)
EXTENDS StreamingEngine, WebCache, WorkflowExecutor, SequenceTheorems, TLAPS

-----------------------------------------------------------------------------
(* StreamingEngine: the relay loop implements the contract of a stream, for*)
(* streams of any length and whatever fails.                               *)

\* Where the loop stands tells how what was accumulated and what was delivered differ:
\* by one token at most, the one that is at the sink or that failed there.
LastToken == text[Len(text)]
OneAhead == /\ yielded = text /\ text = Append(delivered, LastToken)
            /\ LastToken \in Chunks

StreamInv ==
    /\ relayAt \in {"start", "pulling", "head", "emitting", "completing", "persisting", "returning", "done"}
    /\ pulled \in Nat /\ yielded \in Seq(Chunks) /\ text \in Seq(Chunks) /\ delivered \in Seq(Chunks)
    /\ relayAt # "done" => outcome = "streaming"
    /\ relayAt \notin {"returning", "done"} => persisted = None
    /\ relayAt \in {"start", "pulling", "head", "emitting"} => iterator # "exhausted"
    /\ relayAt = "completing" => iterator = "exhausted"
    /\ relayAt \in {"start", "pulling", "head", "completing"} => yielded = text /\ delivered = text
    /\ relayAt = "emitting" => OneAhead
    /\ relayAt = "persisting" => delivered = text \/ (reason = "disconnected" /\ OneAhead)
    /\ relayAt = "returning" => /\ persisted = text
                                /\ reason = "disconnected" \/ delivered = text
    /\ relayAt \in {"persisting", "returning"} => reason \in {"cancelled", "disconnected"}

\* An empty stream has no last token, an appended one its own.
LEMMA Appended ==
    ASSUME NEW s \in Seq(Chunks), NEW t \in Chunks
    PROVE  /\ Append(s, t) \in Seq(Chunks) /\ Append(s, t)[Len(Append(s, t))] = t
BY AppendProperties

\* The token the client does not have is the contract's next one.
LEMMA AheadIsNext ==
    ASSUME OneAhead, delivered \in Seq(Chunks)
    PROVE  ContractSpec!Undelivered /\ ContractSpec!NextToken = LastToken
<1>1. PICK t \in Chunks : t = LastToken
  BY DEF OneAhead
<1>2. yielded = Append(delivered, t)
  BY <1>1 DEF OneAhead
<1>3. Len(Append(delivered, t)) = Len(delivered) + 1 /\ Append(delivered, t)[Len(delivered) + 1] = t
  BY AppendProperties
<1>4. Len(delivered) \in Nat
  BY LenProperties
<1> QED  BY <1>1, <1>2, <1>3, <1>4 DEF ContractSpec!Undelivered, ContractSpec!NextToken

LEMMA StreamInvInit == StreamInit => StreamInv
BY DEF StreamInit, StreamInv

\* A pull is the source's next token, or nothing to the contract.
LEMMA PullMaps ==
    ASSUME StreamAssumption, StreamInv, Pull
    PROVE  StreamInv' /\ [ContractSpec!Next]_(ContractSpec!contractVars)
<1>1. /\ pulled' \in Chunks /\ pulled' \in Nat /\ relayAt = "pulling"
      /\ yielded' \in {yielded, Append(yielded, pulled')}
      /\ UNCHANGED <<delivered, persisted, outcome>>
  BY DEF Pull, PullChunk, StreamInv, StreamAssumption, Chunks
<1>2. /\ text \in Seq(Chunks) /\ yielded = text /\ delivered = text
      /\ persisted = None /\ outcome = "streaming" /\ iterator # "exhausted"
  BY <1>1 DEF StreamInv
<1>3. yielded' \in Seq(Chunks)
  BY <1>1, <1>2, Appended
<1>4. /\ iterator' # "exhausted"
      /\ \/ text' = text /\ relayAt' = "persisting" /\ reason' = "cancelled"
         \/ yielded' = yielded /\ text' = text /\ relayAt' = "head"
         \/ yielded' = Append(yielded, pulled') /\ text' = Append(text, pulled') /\ relayAt' = "emitting"
  BY <1>1, <1>2 DEF Pull, SettlePartial, CloseIterator, NoToken, AddToken
<1>5. [ContractSpec!Next]_(ContractSpec!contractVars)
  <2>1. CASE yielded' = yielded
    BY <1>1, <1>2, <1>4, <2>1 DEF ContractSpec!contractVars
  <2>2. CASE yielded' = Append(yielded, pulled')
    <3>1. ContractSpec!Yield
      BY <1>1, <1>2, <1>4, <2>2 DEF ContractSpec!Yield
    <3> QED  BY <3>1 DEF ContractSpec!Next
  <2> QED  BY <1>1, <2>1, <2>2
<1>6. StreamInv'
  <2>1. CASE text' = text /\ relayAt' = "persisting" /\ reason' = "cancelled"
    BY <1>1, <1>2, <1>3, <2>1 DEF StreamInv
  <2>2. CASE yielded' = yielded /\ text' = text /\ relayAt' = "head"
    BY <1>1, <1>2, <1>3, <1>4, <2>2 DEF StreamInv
  <2>3. CASE yielded' = Append(yielded, pulled') /\ text' = Append(text, pulled') /\ relayAt' = "emitting"
    <3>1. text' \in Seq(Chunks) /\ text'[Len(text')] = pulled'
      BY <1>1, <1>2, <2>3, Appended
    <3>2. OneAhead'
      BY <1>1, <1>2, <2>3, <3>1 DEF OneAhead, LastToken
    <3> QED  BY <1>1, <1>2, <1>3, <1>4, <2>3, <3>1, <3>2 DEF StreamInv
  <2> QED  BY <1>4, <2>1, <2>2, <2>3
<1> QED  BY <1>5, <1>6

\* The sink takes the token in flight, or throws before or after the client has it.
LEMMA EmitMaps ==
    ASSUME StreamInv, Emit \/ EmitFails
    PROVE  StreamInv' /\ [ContractSpec!Next]_(ContractSpec!contractVars)
<1>1. /\ relayAt = "emitting" /\ OneAhead /\ delivered \in Seq(Chunks) /\ text \in Seq(Chunks)
      /\ iterator # "exhausted" /\ iterator' # "exhausted"
      /\ outcome = "streaming" /\ persisted = None
      /\ delivered' \in {delivered, Append(delivered, LastToken)}
      /\ UNCHANGED <<pulled, yielded, text, persisted, outcome>>
  BY DEF Emit, EmitFails, CloseIterator, StreamInv, LastToken
<1>2. \/ relayAt' = "head" /\ delivered' = Append(delivered, LastToken) /\ UNCHANGED reason
      \/ relayAt' = "persisting" /\ reason' = "disconnected"
  BY DEF Emit, EmitFails, SettlePartial, LastToken
<1>3. CASE delivered' = delivered /\ relayAt' = "persisting" /\ reason' = "disconnected"
  <2>1. OneAhead'
    BY <1>1, <1>3 DEF OneAhead, LastToken
  <2>2. UNCHANGED ContractSpec!contractVars
    BY <1>1, <1>3 DEF ContractSpec!contractVars
  <2> QED  BY <1>1, <1>3, <2>1, <2>2 DEF StreamInv
<1>4. CASE delivered' = Append(delivered, LastToken)
  <2>1. ContractSpec!Deliver
    BY <1>1, <1>4, AheadIsNext DEF ContractSpec!Deliver
  <2>2. delivered' = text' /\ yielded' = text'
    BY <1>1, <1>4 DEF OneAhead
  <2>3. StreamInv'
    BY <1>1, <1>2, <2>2 DEF StreamInv
  <2> QED  BY <2>1, <2>3 DEF ContractSpec!Next
<1>5. CASE delivered' = delivered /\ relayAt' = "head" /\ delivered' = Append(delivered, LastToken)
  BY <1>4, <1>5
<1> QED  BY <1>1, <1>2, <1>3, <1>4, <1>5

\* A step of the loop keeps the invariant, and is a step of the contract or none.
LEMMA StreamStepMaps ==
    ASSUME StreamAssumption, StreamInv, [StreamNext]_streamVars
    PROVE  StreamInv' /\ [ContractSpec!Next]_(ContractSpec!contractVars)
<1> DEFINE Same == /\ UNCHANGED <<yielded, delivered, persisted, outcome>>
                   /\ iterator' = iterator \/ (iterator # "exhausted" /\ iterator' # "exhausted")
<1>0. Same => UNCHANGED ContractSpec!contractVars
  BY DEF ContractSpec!contractVars
<1>1. CASE UNCHANGED streamVars
  BY <1>0, <1>1 DEF streamVars, StreamInv, OneAhead, LastToken
<1>2. CASE Start
  BY <1>0, <1>2 DEF Start, SettlePartial, StreamInv
<1>3. CASE Pull
  BY <1>3, PullMaps
<1>4. CASE Exhaust
  <2>1. StreamInv'
    BY <1>4 DEF Exhaust, StreamInv
  <2>2. ContractSpec!End
    BY <1>4 DEF Exhaust, StreamInv, ContractSpec!End
  <2> QED  BY <2>1, <2>2 DEF ContractSpec!Next
<1>5. CASE SourceFails
  <2>1. StreamInv'
    BY <1>5 DEF SourceFails, StreamInv
  <2>2. ContractSpec!Fail
    BY <1>5 DEF SourceFails, CloseIterator, StreamInv, ContractSpec!Fail
  <2> QED  BY <2>1, <2>2 DEF ContractSpec!Next
<1>6. CASE Emit \/ EmitFails
  BY <1>6, EmitMaps
<1>8. CASE LoopHead
  BY <1>0, <1>8 DEF LoopHead, CloseIterator, SettlePartial, StreamInv
<1>9. CASE EmitCompletion
  <2>1. /\ UNCHANGED <<pulled, yielded, text, iterator, persisted, delivered>> /\ relayAt = "completing"
    BY <1>9 DEF EmitCompletion
  <2>2. CASE outcome' = "completed" /\ relayAt' = "done"
    <3>1. ContractSpec!Complete
      BY <2>1, <2>2 DEF StreamInv, ContractSpec!Complete
    <3> QED  BY <2>1, <2>2, <3>1 DEF StreamInv, ContractSpec!Next
  <2>3. CASE relayAt' = "persisting" /\ reason' = "disconnected" /\ UNCHANGED outcome
    BY <1>0, <2>1, <2>3 DEF StreamInv
  <2> QED  BY <1>9, <2>2, <2>3 DEF EmitCompletion, SettlePartial
<1>10. CASE Persist
  <2>1. UNCHANGED <<pulled, yielded, text, iterator, reason, delivered>> /\ relayAt = "persisting"
    BY <1>10 DEF Persist
  <2>2. CASE persisted' = text /\ relayAt' = "returning" /\ UNCHANGED outcome
    <3>1. text = delivered \/ (ContractSpec!Undelivered /\ text = Append(delivered, ContractSpec!NextToken))
      <4>1. CASE OneAhead
        BY <4>1, AheadIsNext DEF StreamInv, OneAhead
      <4> QED  BY <2>1, <4>1 DEF StreamInv
    <3>2. ContractSpec!Keep
      BY <2>1, <2>2, <3>1 DEF StreamInv, ContractSpec!Keep
    <3>3. StreamInv'
      BY <2>1, <2>2 DEF StreamInv
    <3> QED  BY <3>2, <3>3 DEF ContractSpec!Next
  <2>3. CASE outcome' = "failed" /\ relayAt' = "done" /\ UNCHANGED persisted
    <3>1. ContractSpec!Fail
      BY <2>1, <2>3 DEF StreamInv, ContractSpec!Fail
    <3> QED  BY <2>1, <2>3, <3>1 DEF StreamInv, ContractSpec!Next
  <2> QED  BY <1>10, <2>2, <2>3 DEF Persist
<1>11. CASE ReturnPartial
  <2>1. /\ UNCHANGED <<pulled, yielded, text, iterator, persisted, delivered>>
        /\ relayAt = "returning" /\ relayAt' = "done" /\ outcome' = reason
    BY <1>11 DEF ReturnPartial
  <2>2. persisted # None
    BY <2>1 DEF StreamInv, StreamAssumption, Chunks
  <2>3. ContractSpec!Interrupt
    BY <2>1, <2>2 DEF StreamInv, ContractSpec!Interrupt
  <2> QED  BY <2>1, <2>3 DEF StreamInv, ContractSpec!Next
<1>12. CASE Abort
  BY <1>0, <1>12 DEF Abort, StreamInv, OneAhead, LastToken
<1> QED
  BY <1>1, <1>2, <1>3, <1>4, <1>5, <1>6, <1>8, <1>9, <1>10, <1>11, <1>12 DEF StreamNext, Engine

\* However long the stream, wherever the user cancels, the client drops or the source
\* fails: the client has a prefix of the tokens the source yielded, a stream that
\* completes has delivered every one of them and its source had no more, and one cut
\* short keeps what the client has, with the source's next token at most.
THEOREM ImplementsContract == ASSUME StreamAssumption PROVE StreamSpec => KeepsContract
<1>1. StreamInit => StreamInv
  BY StreamInvInit
<1>2. StreamInit => ContractSpec!Init
  BY DEF StreamInit, ContractSpec!Init
<1>3. StreamInv /\ [StreamNext]_streamVars => StreamInv' /\ [ContractSpec!Next]_(ContractSpec!contractVars)
  BY StreamStepMaps
<1> QED  BY <1>1, <1>2, <1>3, PTL DEF StreamSpec, KeepsContract, ContractSpec!Spec

-----------------------------------------------------------------------------
\* From the completion event on, and on every way out, the source is not open.
ReleaseInv ==
    /\ relayAt # "done" => outcome = "streaming"
    /\ relayAt = "start" => iterator = "none"
    /\ relayAt \in {"completing", "persisting", "returning", "done"} => iterator # "open"

\* A provider stream is never left running, however the relay ends.
THEOREM SourceIsReleased == StreamSpec => []SourceReleased
<1>1. StreamInit => ReleaseInv
  BY DEF StreamInit, ReleaseInv
<1>2. ReleaseInv /\ [StreamNext]_streamVars => ReleaseInv'
  <2> SUFFICES ASSUME ReleaseInv, [StreamNext]_streamVars PROVE ReleaseInv'
    OBVIOUS
  <2>1. CASE Start \/ Pull \/ LoopHead
    BY <2>1 DEF Start, Pull, NoToken, AddToken, LoopHead, SettlePartial, CloseIterator, ReleaseInv
  <2>2. CASE Exhaust \/ SourceFails \/ Emit \/ EmitFails
    BY <2>2 DEF Exhaust, SourceFails, Emit, EmitFails, SettlePartial, CloseIterator, ReleaseInv
  <2>3. CASE EmitCompletion \/ Persist \/ ReturnPartial
    BY <2>3 DEF EmitCompletion, Persist, ReturnPartial, SettlePartial, ReleaseInv
  <2>4. CASE Abort \/ UNCHANGED streamVars
    BY <2>4 DEF Abort, streamVars, ReleaseInv
  <2> QED  BY <2>1, <2>2, <2>3, <2>4 DEF StreamNext, Engine
<1>3. ReleaseInv => SourceReleased
  <2>1. ASSUME ReleaseInv, outcome # "streaming" PROVE iterator # "open"
    BY <2>1 DEF ReleaseInv
  <2> QED  BY <2>1 DEF SourceReleased
<1> QED  BY <1>1, <1>2, <1>3, PTL DEF StreamSpec

\* Only a pull that saw no abort hands a token to the sink.
THEOREM AbortStopsTokens == StreamSpec => NothingSentAfterAbort
<1>1. [StreamNext]_streamVars => [(relayAt # "emitting" /\ relayAt' = "emitting") => ~ aborted]_streamVars
  <2> SUFFICES ASSUME StreamNext, relayAt # "emitting", relayAt' = "emitting" PROVE ~ aborted
    OBVIOUS
  <2>1. CASE Pull
    BY <2>1 DEF Pull, NoToken, SettlePartial
  <2>2. CASE Start \/ Exhaust \/ SourceFails \/ Emit \/ EmitFails \/ LoopHead
    BY <2>2 DEF Start, Exhaust, SourceFails, Emit, EmitFails, LoopHead, SettlePartial
  <2>3. CASE EmitCompletion \/ Persist \/ ReturnPartial \/ Abort
    BY <2>3 DEF EmitCompletion, Persist, ReturnPartial, Abort, SettlePartial
  <2> QED  BY <2>1, <2>2, <2>3 DEF StreamNext, Engine
<1> QED  BY <1>1, PTL DEF StreamSpec, NothingSentAfterAbort

-----------------------------------------------------------------------------
(* WebCache, for any number of calls, keys, puts and expiries.             *)

Busy == {"computing", "writing"}
Settled == {"resolved", "rejected"}

CacheTypeInv ==
    /\ inFlight \in [Keys -> Calls \cup {None}]
    /\ callAt \in [Calls -> {"idle", "looking", "awaiting", "done"}]
    /\ key \in [Calls -> Keys]
    /\ joined \in [Calls -> Calls \cup {None}]
    /\ comp \in [Calls -> {"none"} \cup Busy \cup Settled]
    /\ overAtStart \in [Calls -> SUBSET Calls]

\* The registry names the one computation of a key that is under way.
RegistryInv ==
    /\ \A c \in Calls : comp[c] \in Busy => inFlight[key[c]] = c
    /\ \A k \in Keys : inFlight[k] # None => comp[inFlight[k]] \in Busy /\ key[inFlight[k]] = k

\* What was over stays over, and no call joins it afterwards.
JoinInv ==
    \A c \in Calls :
        /\ overAtStart[c] \subseteq Over
        /\ joined[c] \notin overAtStart[c]
        /\ callAt[c] \in {"idle", "looking"} => comp[c] = "none" /\ joined[c] = None

CacheInv == CacheTypeInv /\ RegistryInv /\ JoinInv

LEMMA CacheInvInit == ASSUME WebCacheAssumption, CacheInit PROVE CacheInv
BY DEF CacheInit, CacheInv, CacheTypeInv, RegistryInv, JoinInv, WebCacheAssumption, Busy, Settled, Over

\* Coming in records what is over by then.
LEMMA LookupStep ==
    ASSUME WebCacheAssumption, CacheInv, NEW c \in Calls, Lookup(c) PROVE CacheInv'
<1>1. /\ UNCHANGED <<inFlight, key, joined, comp>>
      /\ callAt' = [callAt EXCEPT ![c] = "looking"] /\ overAtStart' = [overAtStart EXCEPT ![c] = Over]
      /\ callAt[c] = "idle"
  BY DEF Lookup
<1>2. Over \subseteq Calls /\ Over' = Over
  BY <1>1 DEF Over
<1>3. CacheTypeInv'
  BY <1>1, <1>2 DEF CacheInv, CacheTypeInv
<1>4. RegistryInv'
  BY <1>1 DEF CacheInv, RegistryInv
<1>5. ASSUME NEW d \in Calls
      PROVE  /\ overAtStart'[d] \subseteq Over /\ joined[d] \notin overAtStart'[d]
             /\ callAt'[d] \in {"idle", "looking"} => comp[d] = "none" /\ joined[d] = None
  <2>1. CASE d = c
    BY <1>1, <1>2, <2>1 DEF CacheInv, CacheTypeInv, JoinInv, WebCacheAssumption
  <2>2. CASE d # c
    BY <1>1, <2>2 DEF CacheInv, CacheTypeInv, JoinInv
  <2> QED  BY <2>1, <2>2
<1> QED  BY <1>1, <1>2, <1>3, <1>4, <1>5 DEF CacheInv, JoinInv

\* The store's answer: a hit, a computation to share, or one to start.
LEMMA AnswerStep ==
    ASSUME WebCacheAssumption, CacheInv, NEW c \in Calls, Answer(c) PROVE CacheInv'
<1>0. /\ callAt[c] = "looking" /\ comp[c] = "none" /\ UNCHANGED <<key, overAtStart>>
      /\ key[c] \in Keys
  BY DEF Answer, CacheInv, JoinInv, CacheTypeInv
<1>1. CASE seen[c] # None
  <2>1. UNCHANGED <<inFlight, joined, comp>> /\ callAt' = [callAt EXCEPT ![c] = "done"]
    BY <1>1 DEF Answer, Receive
  <2>2. Over' = Over
    BY <2>1 DEF Over
  <2> QED  BY <1>0, <2>1, <2>2 DEF CacheInv, CacheTypeInv, RegistryInv, JoinInv
<1>2. CASE seen[c] = None /\ inFlight[key[c]] # None
  <2> DEFINE d == inFlight[key[c]]
  <2>1. /\ UNCHANGED <<inFlight, comp>> /\ callAt' = [callAt EXCEPT ![c] = "awaiting"]
        /\ joined' = [joined EXCEPT ![c] = d]
    BY <1>2 DEF Answer, Receive
  <2>2. d \in Calls /\ comp[d] \in Busy
    BY <1>0, <1>2 DEF CacheInv, CacheTypeInv, RegistryInv
  <2>3. d \notin Over /\ Over' = Over
    BY <2>1, <2>2 DEF Over, Busy
  <2>4. CacheTypeInv' /\ RegistryInv'
    BY <1>0, <2>1, <2>2 DEF CacheInv, CacheTypeInv, RegistryInv
  <2>5. JoinInv'
    BY <1>0, <2>1, <2>3 DEF CacheInv, CacheTypeInv, JoinInv
  <2> QED  BY <2>4, <2>5 DEF CacheInv
<1>3. CASE seen[c] = None /\ inFlight[key[c]] = None
  <2>1. /\ callAt' = [callAt EXCEPT ![c] = "awaiting"]
        /\ joined' = [joined EXCEPT ![c] = c]
        /\ comp' = [comp EXCEPT ![c] = "computing"]
        /\ inFlight' = [inFlight EXCEPT ![key[c]] = c]
    BY <1>3 DEF Answer, Receive
  <2>2. c \notin Over /\ Over' = Over
    BY <1>0, <2>1 DEF Over, CacheInv, CacheTypeInv
  <2>3. CacheTypeInv'
    BY <1>0, <2>1 DEF CacheInv, CacheTypeInv, Busy
  <2>4. \A b \in Calls : key[b] = key[c] => comp[b] \notin Busy
    BY <1>3, WebCacheAssumption DEF CacheInv, CacheTypeInv, RegistryInv, WebCacheAssumption
  <2>5. RegistryInv'
    <3>1. ASSUME NEW b \in Calls, comp'[b] \in Busy PROVE inFlight'[key[b]] = b
      BY <1>0, <2>1, <2>4, <3>1 DEF CacheInv, CacheTypeInv, RegistryInv
    <3>2. ASSUME NEW k \in Keys, inFlight'[k] # None
          PROVE  comp'[inFlight'[k]] \in Busy /\ key[inFlight'[k]] = k
      <4>1. CASE k = key[c]
        BY <1>0, <2>1, <4>1 DEF CacheInv, CacheTypeInv, Busy
      <4>2. CASE k # key[c]
        <5>1. inFlight'[k] = inFlight[k] /\ inFlight[k] \in Calls
          BY <2>1, <3>2, <4>2 DEF CacheInv, CacheTypeInv
        <5>2. comp[inFlight[k]] \in Busy /\ key[inFlight[k]] = k
          BY <3>2, <5>1 DEF CacheInv, RegistryInv
        <5>3. inFlight[k] # c
          BY <4>2, <5>2
        <5> QED  BY <2>1, <5>1, <5>2, <5>3 DEF CacheInv, CacheTypeInv
      <4> QED  BY <4>1, <4>2
    <3> QED  BY <1>0, <3>1, <3>2 DEF RegistryInv
  <2>6. JoinInv'
    BY <1>0, <2>1, <2>2 DEF CacheInv, CacheTypeInv, JoinInv
  <2> QED  BY <2>3, <2>5, <2>6 DEF CacheInv
<1> QED  BY <1>1, <1>2, <1>3

\* A computation that is over leaves the registry in the same step.
LEMMA FinishStep ==
    ASSUME WebCacheAssumption, CacheInv, NEW c \in Calls, comp[c] \in Busy,
           NEW end \in Settled, Finish(c, end), UNCHANGED <<callAt, key, joined, overAtStart>>
    PROVE  CacheInv'
<1>1. /\ comp' = [comp EXCEPT ![c] = end] /\ inFlight' = [inFlight EXCEPT ![key[c]] = None]
      /\ key[c] \in Keys /\ inFlight[key[c]] = c
  BY DEF Finish, CacheInv, CacheTypeInv, RegistryInv
<1>2. CacheTypeInv'
  BY <1>1 DEF CacheInv, CacheTypeInv
<1>3. Over \subseteq Over' /\ callAt[c] \notin {"idle", "looking"}
  BY <1>1 DEF Over, Settled, CacheInv, CacheTypeInv, JoinInv, Busy
<1>4. JoinInv'
  BY <1>1, <1>3 DEF CacheInv, CacheTypeInv, JoinInv
<1>5. RegistryInv'
  <2>1. ASSUME NEW b \in Calls, comp'[b] \in Busy PROVE inFlight'[key[b]] = b
    <3>1. b # c /\ comp[b] \in Busy
      BY <1>1, <2>1 DEF CacheInv, CacheTypeInv, Busy, Settled
    <3>2. inFlight[key[b]] = b /\ key[b] # key[c]
      BY <1>1, <3>1 DEF CacheInv, RegistryInv
    <3> QED  BY <1>1, <3>2 DEF CacheInv, CacheTypeInv
  <2>2. ASSUME NEW k \in Keys, inFlight'[k] # None
        PROVE  comp'[inFlight'[k]] \in Busy /\ key[inFlight'[k]] = k
    <3>1. k # key[c] /\ inFlight'[k] = inFlight[k]
      BY <1>1, <2>2 DEF CacheInv, CacheTypeInv
    <3>2. comp[inFlight[k]] \in Busy /\ key[inFlight[k]] = k /\ inFlight[k] \in Calls
      BY <2>2, <3>1 DEF CacheInv, CacheTypeInv, RegistryInv
    <3>3. inFlight[k] # c
      BY <3>1, <3>2
    <3> QED  BY <1>1, <3>1, <3>2, <3>3 DEF CacheInv, CacheTypeInv
  <2> QED  BY <2>1, <2>2 DEF RegistryInv
<1> QED  BY <1>2, <1>4, <1>5 DEF CacheInv

LEMMA ComputeStep ==
    ASSUME WebCacheAssumption, CacheInv, NEW c \in Calls, Compute(c) \/ Write(c) PROVE CacheInv'
<1>1. comp[c] \in Busy /\ UNCHANGED <<callAt, key, joined, overAtStart>>
  BY DEF Compute, Write, Busy
<1>2. CASE \E end \in Settled : Finish(c, end)
  BY <1>1, <1>2, FinishStep
<1>3. CASE comp' = [comp EXCEPT ![c] = "writing"] /\ UNCHANGED inFlight
  <2>1. Over' = Over
    BY <1>1, <1>3 DEF Over, Busy, CacheInv, CacheTypeInv
  <2>2. \A b \in Calls : comp'[b] \in Busy <=> comp[b] \in Busy
    BY <1>1, <1>3 DEF CacheInv, CacheTypeInv, Busy
  <2>3. CacheTypeInv'
    BY <1>1, <1>3 DEF CacheInv, CacheTypeInv, Busy
  <2>4. RegistryInv'
    BY <1>1, <1>3, <2>2 DEF CacheInv, CacheTypeInv, RegistryInv
  <2>5. JoinInv'
    BY <1>1, <1>3, <2>1 DEF CacheInv, CacheTypeInv, JoinInv, Busy
  <2> QED  BY <2>3, <2>4, <2>5 DEF CacheInv
<1> QED  BY <1>2, <1>3 DEF Compute, Write, Settled

LEMMA OtherSteps ==
    ASSUME CacheInv, UNCHANGED <<inFlight, key, joined, comp, overAtStart>>,
           \/ UNCHANGED callAt
           \/ \E c \in Calls : callAt[c] = "awaiting" /\ callAt' = [callAt EXCEPT ![c] = "done"]
    PROVE  CacheInv'
<1>1. Over' = Over
  BY DEF Over
<1> QED  BY <1>1 DEF CacheInv, CacheTypeInv, RegistryInv, JoinInv

LEMMA CacheInvStep == ASSUME WebCacheAssumption, CacheInv, [CacheNext]_cacheVars PROVE CacheInv'
<1>1. ASSUME NEW c \in Calls, CallStep(c) PROVE CacheInv'
  <2>1. CASE Settle(c)
    BY <2>1, OtherSteps DEF Settle
  <2> QED  BY <1>1, <2>1, LookupStep, AnswerStep, ComputeStep DEF CallStep
<1>2. ASSUME NEW k \in Keys, Put(k) \/ Expire(k) PROVE CacheInv'
  BY <1>2, OtherSteps DEF Put, Expire
<1>3. CASE UNCHANGED cacheVars
  BY <1>3, OtherSteps DEF cacheVars
<1> QED  BY <1>1, <1>2, <1>3 DEF CacheNext

\* However calls overlap, fail and expire: of one key, never two computations are
\* under way, so that the provider is asked once for what many ask at a time.
THEOREM OneFlight == ASSUME WebCacheAssumption PROVE CacheSpec => []SingleFlight
<1>1. CacheInit => CacheInv
  BY CacheInvInit
<1>2. CacheInv /\ [CacheNext]_cacheVars => CacheInv'
  BY CacheInvStep
<1>3. CacheInv => SingleFlight
  BY DEF CacheInv, CacheTypeInv, RegistryInv, SingleFlight, Busy
<1> QED  BY <1>1, <1>2, <1>3, PTL DEF CacheSpec

\* A call is rejected only by a computation that was still open as it came in: a
\* failure is never reused.
THEOREM FailureSpent == ASSUME WebCacheAssumption PROVE CacheSpec => []FailureNotReused
<1>1. CacheInit => CacheInv
  BY CacheInvInit
<1>2. CacheInv /\ [CacheNext]_cacheVars => CacheInv'
  BY CacheInvStep
<1>3. CacheInv => FailureNotReused
  BY DEF CacheInv, JoinInv, FailureNotReused
<1> QED  BY <1>1, <1>2, <1>3, PTL DEF CacheSpec

-----------------------------------------------------------------------------
(* WorkflowExecutor, for every workflow.                                   *)

\* While the run is in its loop every step before the current one has its output.
ExecutorInv ==
    /\ workflow \in Graphs /\ outcomes \in Seq(Range(outcomes))
    /\ pc = "called" => outcomes = <<>> /\ outputs = {}
    /\ pc \in {"stepping", "executing"} =>
           /\ ordered \in Seq(Range(ordered)) /\ WellFormed(ordered)
           /\ Len(outcomes) <= Len(ordered)
           /\ outputs = Earlier(ordered, Len(outcomes) + 1)
    /\ pc = "executing" => Len(outcomes) < Len(ordered)
    /\ pc # "inputMissing"

\* A sequence is one over its own elements, and so is one with an element more.
LEMMA OwnElements ==
    ASSUME NEW S, NEW s \in Seq(S)
    PROVE  s \in Seq(Range(s))
<1>1. Len(s) \in Nat /\ DOMAIN s = 1..Len(s) /\ s = [i \in 1..Len(s) |-> s[i]]
  OBVIOUS
<1>2. s \in [1..Len(s) -> Range(s)]
  BY <1>1 DEF Range
<1> QED  BY <1>1, <1>2

LEMMA AppendOwn ==
    ASSUME NEW s, s \in Seq(Range(s)), NEW e
    PROVE  /\ Append(s, e) \in Seq(Range(Append(s, e)))
           /\ Len(Append(s, e)) = Len(s) + 1 /\ Len(s) \in Nat
<1> DEFINE S == Range(s) \cup {e}
           t == Append(s, e)
<1>1. s \in Seq(S)
  <2>1. Len(s) \in Nat /\ DOMAIN s = 1..Len(s) /\ s = [i \in 1..Len(s) |-> s[i]]
    OBVIOUS
  <2>2. s \in [1..Len(s) -> S]
    BY <2>1
  <2> QED  BY <2>1, <2>2
<1>2. e \in S
  OBVIOUS
<1> HIDE DEF S
<1>3. t \in Seq(S) /\ Len(t) = Len(s) + 1 /\ Len(s) \in Nat
  BY <1>1, <1>2
<1> HIDE DEF t
<1>4. t \in Seq(Range(t))
  BY <1>3, OwnElements
<1> QED  BY <1>3, <1>4 DEF t

\* Sorting keeps the number of the steps.
LEMMA OrderedType ==
    ASSUME NEW w, w \in Seq(Range(w))
    PROVE  Ordered(w) \in Seq(Range(Ordered(w)))
<1> DEFINE o == Ordered(w)
<1>1. Len(w) \in Nat /\ DOMAIN w = 1..Len(w)
  OBVIOUS
<1>2. DOMAIN o = 1..Len(w) /\ o = [p \in 1..Len(w) |-> o[p]]
  BY <1>1 DEF Ordered
<1> HIDE DEF o
<1>3. o \in [1..Len(w) -> Range(o)]
  BY <1>2 DEF Range
<1>4. o \in Seq(Range(o))
  BY <1>1, <1>3
<1> QED  BY <1>4 DEF o

\* One more step has run: its id is the one more that later steps may refer to.
LEMMA EarlierGrows ==
    ASSUME NEW steps, NEW n \in Nat
    PROVE  Earlier(steps, n + 2) = Earlier(steps, n + 1) \cup {steps[n + 1].id}
<1>1. 1..((n + 2) - 1) = 1..((n + 1) - 1) \cup {n + 1}
  OBVIOUS
<1> QED  BY <1>1 DEF Earlier

LEMMA ExecutorStep == ASSUME ExecutorAssumption, ExecutorInv, [RunNext]_runVars PROVE ExecutorInv'
<1>1. CASE Validate
  <2>1. /\ pc = "called" /\ UNCHANGED <<workflow, outputs, outcomes>> /\ ordered' = Ordered(workflow)
        /\ pc' = IF WellFormed(ordered') THEN "stepping" ELSE "invalid"
        /\ outcomes = <<>> /\ outputs = {} /\ workflow \in Seq(Range(workflow))
    BY <1>1 DEF Validate, ExecutorInv, ExecutorAssumption
  <2>2. ordered' \in Seq(Range(ordered'))
    BY <2>1, OrderedType
  <2>3. Len(outcomes) = 0 /\ Earlier(ordered', 1) = {} /\ Len(ordered') >= 0
    BY <2>1, <2>2 DEF Earlier
  <2>4. outputs' = Earlier(ordered', Len(outcomes') + 1) /\ Len(outcomes') <= Len(ordered')
    BY <2>1, <2>3
  <2>5. outcomes' \in Seq(Range(outcomes')) /\ workflow' \in Graphs
    BY <2>1 DEF ExecutorInv
  <2>6. CASE WellFormed(ordered')
    BY <2>1, <2>2, <2>4, <2>5, <2>6 DEF ExecutorInv
  <2>7. CASE ~ WellFormed(ordered')
    BY <2>1, <2>5, <2>7 DEF ExecutorInv
  <2> QED  BY <2>6, <2>7
<1>2. CASE ResolveInputs
  <2>1. /\ pc = "stepping" /\ Len(outcomes) < Len(ordered) /\ UNCHANGED <<workflow, ordered, outputs, outcomes>>
        /\ pc' = IF Current.refs \subseteq outputs THEN "executing" ELSE "inputMissing"
    BY <1>2 DEF ResolveInputs
  <2>2. Len(outcomes) \in Nat /\ Len(ordered) \in Nat /\ DOMAIN ordered = 1..Len(ordered)
    BY <2>1 DEF ExecutorInv
  <2>3. Len(outcomes) + 1 \in DOMAIN ordered
    BY <2>1, <2>2
  <2>4. Current.refs \subseteq outputs
    BY <2>1, <2>3 DEF ExecutorInv, WellFormed, Current
  <2> QED  BY <2>1, <2>4 DEF ExecutorInv
<1>3. CASE StepSucceeds
  <2> DEFINE success == [id |-> Current.id, status |-> "succeeded"]
  <2>1. /\ pc = "executing" /\ pc' = "stepping" /\ UNCHANGED <<workflow, ordered>>
        /\ outputs' = outputs \cup {Current.id} /\ outcomes' = Append(outcomes, success)
    BY <1>3 DEF StepSucceeds
  <2> HIDE DEF success
  <2>2. /\ outcomes' \in Seq(Range(outcomes')) /\ Len(outcomes') = Len(outcomes) + 1
        /\ Len(outcomes) \in Nat /\ Len(ordered) \in Nat
    BY <2>1, AppendOwn DEF ExecutorInv
  <2>3. Len(outcomes') <= Len(ordered)
    BY <2>1, <2>2 DEF ExecutorInv
  <2>4. Earlier(ordered, Len(outcomes) + 2) = Earlier(ordered, Len(outcomes) + 1) \cup {Current.id}
    BY <2>2, EarlierGrows DEF Current
  <2>5. outputs' = Earlier(ordered', Len(outcomes') + 1)
    <3>1. Len(outcomes') + 1 = Len(outcomes) + 2
      BY <2>2
    <3> QED  BY <2>1, <2>4, <3>1 DEF ExecutorInv
  <2> QED  BY <2>1, <2>2, <2>3, <2>5 DEF ExecutorInv
<1>4. CASE StepFails
  <2>1. /\ pc' = "recording" /\ UNCHANGED workflow
        /\ outcomes' = Append(outcomes, [id |-> Current.id, status |-> "failed"])
    BY <1>4 DEF StepFails
  <2>2. outcomes' \in Seq(Range(outcomes'))
    BY <2>1, AppendOwn DEF ExecutorInv
  <2> QED  BY <2>1, <2>2 DEF ExecutorInv
<1>5. CASE LoopEnds
  BY <1>5 DEF LoopEnds, ExecutorInv
<1>6. CASE RecordAnalytics
  BY <1>6 DEF RecordAnalytics, ExecutorInv
<1>7. CASE UNCHANGED runVars
  BY <1>7 DEF runVars, ExecutorInv
<1> QED  BY <1>1, <1>2, <1>3, <1>4, <1>5, <1>6, <1>7 DEF RunNext

\* Whatever the workflow and wherever it fails, no step of a validated graph is reached
\* before the outputs it takes are there: the throw in resolveInputs, which would leave
\* the run without its analytics record, is not taken (workflow-executor.ts:186-187).
THEOREM InputsAreThere == ASSUME ExecutorAssumption PROVE RunSpec => []InputsAlwaysPresent
<1>1. RunInit => ExecutorInv
  BY DEF RunInit, ExecutorInv
<1>2. ExecutorInv /\ [RunNext]_runVars => ExecutorInv'
  BY ExecutorStep
<1>3. ExecutorInv => InputsAlwaysPresent
  BY DEF ExecutorInv, InputsAlwaysPresent
<1> QED  BY <1>1, <1>2, <1>3, PTL DEF RunSpec
=============================================================================
