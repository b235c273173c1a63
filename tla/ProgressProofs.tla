---------------------------- MODULE ProgressProofs ----------------------------
(***************************************************************************)
(* Proofs about the components MCProgress puts together: the export feed,  *)
(* for every number of flushes, reads and checkpoints; the suppression     *)
(* rules and their cache, for every number of rules, readers and writers;  *)
(* the flow collector's socket, for every number of requests, bindings,    *)
(* saves, failed reads and socket errors; and the delivery channels, for   *)
(* every number of lines and attempts.  The notifier, which MCProgress     *)
(* holds too, has NotifierProofs.  The last part is about CaptureLifecycle,*)
(* for every number of starts, crashes, failing statements and concurrent  *)
(* stops, with and without the automatic resume.                           *)
(***************************************************************************)
EXTENDS ExportFeed, SuppressionCache, FlowCollector, DeliveryChannels, CaptureLifecycle,
        SequenceTheorems, FiniteSetTheorems, TLAPS

-----------------------------------------------------------------------------
(* The export feed *)

\* Facts about sequences over any set, and about the feed of two sequences and a third.
LEMMA ConcatFacts ==
    ASSUME NEW S, NEW s \in Seq(S), NEW t \in Seq(S)
    PROVE  /\ s \o t \in Seq(S) /\ s \o <<>> = s
           /\ Range(s \o t) = Range(s) \cup Range(t) /\ Range(s) \subseteq S
<1>1. s \o t \in Seq(S)
  BY ConcatProperties
<1>2. s \o <<>> = s
  BY ConcatEmptySeq
<1>3. Range(s \o t) = Range(s) \cup Range(t)
  BY RangeConcatenation
<1>4. Range(s) \subseteq S
  BY RangeOfSeq
<1> QED BY <1>1, <1>2, <1>3, <1>4

LEMMA AppendFacts ==
    ASSUME NEW S, NEW s \in Seq(S), NEW e \in S
    PROVE  /\ Append(s, e) \in Seq(S) /\ Len(Append(s, e)) = Len(s) + 1 /\ Len(s) \in Nat
           /\ \A i \in 1..Len(s) : Append(s, e)[i] = s[i] /\ s[i] \in Range(s)
           /\ Append(s, e)[Len(s) + 1] = e
           /\ DOMAIN s = 1..Len(s) /\ DOMAIN Append(s, e) = 1..(Len(s) + 1)
           /\ Range(Append(s, e)) = Range(s) \cup {e}
<1>1. /\ Append(s, e) \in Seq(S) /\ Len(Append(s, e)) = Len(s) + 1 /\ Len(s) \in Nat
      /\ \A i \in 1..Len(s) : Append(s, e)[i] = s[i]
      /\ Append(s, e)[Len(s) + 1] = e
      /\ DOMAIN s = 1..Len(s) /\ DOMAIN Append(s, e) = 1..(Len(s) + 1)
  BY AppendProperties
<1>2. \A i \in 1..Len(s) : s[i] \in Range(s)
  BY <1>1 DEF Range
<1>3. Range(Append(s, e)) = Range(s) \cup {e}
  BY <1>1 DEF Range
<1> QED BY <1>1, <1>2, <1>3

LEMMA AppendToFeed ==
    ASSUME NEW S, NEW s \in Seq(S), NEW t \in Seq(S), NEW e \in S
    PROVE  s \o Append(t, e) = Append(s \o t, e)
OBVIOUS

LEMMA AppendIncreasing ==
    ASSUME NEW S \in SUBSET Nat, NEW s \in Seq(S), NEW e \in S,
           \A i, j \in DOMAIN s : i < j => s[i] < s[j],
           \A x \in Range(s) : x < e
    PROVE  \A i, j \in DOMAIN Append(s, e) : i < j => Append(s, e)[i] < Append(s, e)[j]
BY AppendFacts

\* The types of the sequences that make up the feed.
LEMMA FeedTypes ==
    ASSUME FeedTypeOK
    PROVE  /\ asked \in Nat /\ done \in Nat /\ offered \in Nat /\ MaxExported \in Nat
           /\ Len(exportQueue) \in Nat
           /\ (attempted \o inFlight) \in Seq(Exportable) /\ Feed \in Seq(Exportable)
           /\ Range(attempted) \subseteq Exportable
           /\ Range(Feed) = Range(attempted) \cup Range(inFlight) \cup Range(exportQueue)
<1>1. /\ attempted \in Seq(Exportable) /\ inFlight \in Seq(Exportable) /\ exportQueue \in Seq(Exportable)
      /\ offered \in 0..MaxExported /\ MaxExported \in Nat
  BY FeedAssumption DEF FeedTypeOK
<1>2. (attempted \o inFlight) \in Seq(Exportable)
  BY <1>1, ConcatProperties
<1>3. Feed \in Seq(Exportable)
  BY <1>1, <1>2, ConcatProperties DEF Feed
<1>4. Range(attempted \o inFlight) = Range(attempted) \cup Range(inFlight)
  BY <1>1, RangeConcatenation
<1>5. Range(Feed) = Range(attempted \o inFlight) \cup Range(exportQueue)
  BY <1>1, <1>2, RangeConcatenation DEF Feed
<1>6. Range(attempted) \subseteq Exportable
  BY <1>1, RangeOfSeq
<1> QED BY <1>1, <1>2, <1>3, <1>4, <1>5, <1>6 DEF FeedTypeOK

\* Nothing is in the empty sequence.
LEMMA RangeEmpty == Range(<<>>) = {}
<1> QED BY DEF Range

\* The initial states.
THEOREM InitInv == FeedInit => FeedInv
<1> SUFFICES ASSUME FeedInit PROVE FeedInv
  OBVIOUS
<1> USE FeedAssumption DEF FeedInit, NoDrain
<1>1. FeedTypeOK
  <2>1. <<>> \in Seq(Exportable)
    BY EmptySeq
  <2>2. drain \in [Drainers -> [stage : {"idle", "first", "second", "done"},
                               link : Nat, due : SUBSET Exportable]]
    OBVIOUS
  <2>3. offered \in 0..MaxExported /\ dropped \subseteq 1..offered
    OBVIOUS
  <2> QED BY <2>1, <2>2, <2>3 DEF FeedTypeOK
<1>2. Feed = <<>> /\ Kept = {}
  BY DEF Feed, Kept
<1>3. OnceAndInOrder
  BY <1>2, RangeEmpty DEF OnceAndInOrder
<1>4. LinksOK /\ CoverOK /\ QueueHasSender
  BY DEF LinksOK, CoverOK, QueueHasSender
<1> QED BY <1>1, <1>3, <1>4 DEF FeedInv

\* What the queue, the inFlight and the sent findings leave of FeedTypeOK, LinksOK and CoverOK.
LEMMA Unpack ==
    ASSUME FeedInv
    PROVE  /\ FeedTypeOK /\ LinksOK /\ CoverOK /\ OnceAndInOrder /\ QueueHasSender
           /\ exportQueue \in Seq(Exportable) /\ inFlight \in Seq(Exportable)
           /\ attempted \in Seq(Exportable) /\ (attempted \o inFlight) \in Seq(Exportable)
           /\ Feed \in Seq(Exportable) /\ Exportable \in SUBSET Nat
           /\ asked \in Nat /\ done \in Nat /\ offered \in 0..MaxExported
           /\ exportDropped \in Nat /\ MaxExported \in Nat
           /\ Len(exportQueue) \in Nat /\ dropped \subseteq 1..offered
           /\ busy \in BOOLEAN /\ exportTimer \in BOOLEAN
BY FeedTypes, FeedAssumption DEF FeedInv, FeedTypeOK, Exportable

\* A finding offered joins the end of the feed, or the queue is full.
LEMMA EnqueueInv == FeedInv /\ Enqueue => FeedInv'
<1> SUFFICES ASSUME FeedInv, Enqueue PROVE FeedInv'
  OBVIOUS
<1> DEFINE new == offered + 1
<1>n. /\ new \in Exportable /\ offered' = new /\ new \in 0..MaxExported /\ new \notin 1..offered
      /\ UNCHANGED <<done, busy, inFlight, drain, attempted>>
  BY Unpack DEF Enqueue, Exportable
<1>1. CASE Len(exportQueue) >= MaxExportQueue
  <2>1. /\ exportDropped' = exportDropped + 1 /\ dropped' = dropped \cup {new}
        /\ UNCHANGED <<exportQueue, exportTimer, asked>>
    BY <1>1 DEF Enqueue
  <2>2. dropped' \subseteq 1..offered'
    BY <1>n, <2>1, Unpack
  <2>3. FeedTypeOK'
    BY <1>n, <2>1, <2>2, Unpack DEF FeedTypeOK
  <2>4. Kept' = Kept
    BY <1>n, <2>1, Unpack DEF Kept
  <2>5. OnceAndInOrder'
    BY <1>n, <2>1, <2>4, Unpack DEF OnceAndInOrder, Feed
  <2>6. LinksOK' /\ CoverOK' /\ QueueHasSender'
    BY <1>n, <2>1, Unpack DEF LinksOK, CoverOK, QueueHasSender, Waiting
  <2> QED BY <2>3, <2>5, <2>6 DEF FeedInv
<1>2. CASE ~(Len(exportQueue) >= MaxExportQueue)
  <2>1. /\ exportQueue' = Append(exportQueue, new)
        /\ \/ asked' = asked + 1 /\ UNCHANGED exportTimer
           \/ exportTimer' = TRUE /\ UNCHANGED asked
        /\ UNCHANGED <<exportDropped, dropped>>
    BY <1>2 DEF Enqueue
  <2>2. /\ exportQueue' \in Seq(Exportable)
        /\ Range(exportQueue') = Range(exportQueue) \cup {new}
    <3> HIDE DEF new
    <3> QED BY <1>n, <2>1, Unpack, AppendFacts
  <2>3. FeedTypeOK'
    <3>1. dropped' \subseteq 1..offered'
      BY <1>n, <2>1, Unpack
    <3>2. asked' \in Nat /\ exportTimer' \in BOOLEAN
      <4>1. CASE asked' = asked + 1 /\ UNCHANGED exportTimer
        BY <4>1, Unpack
      <4>2. CASE exportTimer' = TRUE /\ UNCHANGED asked
        BY <4>2, Unpack
      <4> QED BY <2>1, <4>1, <4>2
    <3> HIDE DEF new
    <3> QED BY <1>n, <2>1, <2>2, <3>1, <3>2, Unpack DEF FeedTypeOK
  <2>4. LinksOK'
    BY <1>n, <2>1, Unpack DEF LinksOK, FeedTypeOK
  <2>5. CoverOK'
    BY <1>n, <2>2, Unpack DEF CoverOK
  <2>6. QueueHasSender'
    <3>1. Waiting >= 0
      BY Unpack DEF Waiting, LinksOK
    <3>2. asked' = asked + 1 => Waiting' > 0
      BY <1>n, <3>1, Unpack DEF Waiting
    <3> QED BY <2>1, <3>2 DEF QueueHasSender
  <2>7. Feed' = Append(Feed, new)
    <3> DEFINE ab == attempted \o inFlight
    <3>1. ab \in Seq(Exportable)
      BY Unpack
    <3>2. Feed = ab \o exportQueue /\ Feed' = ab \o Append(exportQueue, new)
      BY <1>n, <2>1 DEF Feed
    <3> HIDE DEF ab, new
    <3>3. exportQueue \in Seq(Exportable)
      BY Unpack
    <3>4. ab \o Append(exportQueue, new) = Append(ab \o exportQueue, new)
      BY <1>n, <3>1, <3>3, AppendToFeed
    <3> QED BY <3>2, <3>4
  <2>8. OnceAndInOrder'
    <3>0. dropped' = dropped /\ offered' = offered + 1 /\ offered \in Nat /\ dropped \subseteq 1..offered
      BY <1>n, <2>1, Unpack DEF FeedTypeOK
    <3>1. Kept' = Kept \cup {new}
      BY <3>0 DEF Kept
    <3>2. \A x \in Range(Feed) : x < new
      BY <1>n, Unpack DEF OnceAndInOrder, Kept
    <3>3. \A i, j \in DOMAIN Feed : i < j => Feed[i] < Feed[j]
      BY Unpack DEF OnceAndInOrder
    <3> HIDE DEF new
    <3>4. Range(Feed') = Kept'
      BY <1>n, <2>7, <3>1, Unpack, AppendFacts DEF OnceAndInOrder
    <3>5. \A i, j \in DOMAIN Feed' : i < j => Feed'[i] < Feed'[j]
      <4>1. Feed \in Seq(Exportable) /\ Exportable \in SUBSET Nat
        BY Unpack
      <4> HIDE DEF Exportable, Feed
      <4> QED BY <1>n, <2>7, <3>2, <3>3, <4>1, AppendIncreasing
    <3> QED BY <3>4, <3>5 DEF OnceAndInOrder
  <2> QED BY <2>3, <2>4, <2>5, <2>6, <2>8 DEF FeedInv
<1> QED BY <1>1, <1>2

\* The timer adds a link and touches nothing else of the feed.
LEMMA TimerInv == FeedInv /\ ExportTimerFires => FeedInv'
<1> SUFFICES ASSUME FeedInv, ExportTimerFires PROVE FeedInv'
  OBVIOUS
<1>1. /\ exportTimer' = FALSE /\ asked' = asked + 1
      /\ UNCHANGED <<exportQueue, done, busy, inFlight, exportDropped, drain, offered, dropped,
                     attempted>>
  BY DEF ExportTimerFires, TimerAsks
<1>2. FeedTypeOK'
  <2>1. asked' \in Nat
    BY <1>1, Unpack
  <2>2. exportTimer' \in BOOLEAN
    BY <1>1
  <2> QED BY <1>1, <2>1, <2>2, Unpack DEF FeedTypeOK
<1>3. LinksOK' /\ CoverOK'
  BY <1>1, Unpack DEF LinksOK, CoverOK, FeedTypeOK
<1>4. OnceAndInOrder'
  BY <1>1, Unpack DEF OnceAndInOrder, Feed, Kept
<1>5. QueueHasSender'
  BY <1>1, Unpack DEF QueueHasSender, Waiting, LinksOK
<1> QED BY <1>2, <1>3, <1>4, <1>5 DEF FeedInv

\* A link that begins takes the whole queue as its inFlight, or there is nothing to take.
LEMMA BeginLinkInv == FeedInv /\ BeginLink => FeedInv'
<1> SUFFICES ASSUME FeedInv, BeginLink PROVE FeedInv'
  OBVIOUS
<1>0. /\ ~busy /\ inFlight = <<>> /\ done < asked /\ exportTimer' = FALSE
      /\ UNCHANGED <<asked, drain, offered, dropped, attempted>>
  BY Unpack DEF BeginLink, CanRun, Waiting, LinksOK
<1>1. CASE exportQueue = <<>>
  <2>1. done' = done + 1 /\ UNCHANGED <<exportQueue, busy, inFlight, exportDropped>>
    BY <1>1 DEF BeginLink
  <2>2. FeedTypeOK'
    <3>1. done' \in Nat
      BY <2>1, Unpack
    <3>2. exportTimer' \in BOOLEAN
      BY <1>0
    <3> QED BY <1>0, <2>1, <3>1, <3>2, Unpack DEF FeedTypeOK
  <2>3. LinksOK' /\ QueueHasSender'
    BY <1>0, <1>1, <2>1, Unpack DEF LinksOK, QueueHasSender
  <2>4. CoverOK'
    BY <1>0, <1>1, <2>1, Unpack, RangeEmpty DEF CoverOK, FeedTypeOK
  <2>5. OnceAndInOrder'
    BY <1>0, <2>1, Unpack DEF OnceAndInOrder, Feed, Kept
  <2> QED BY <2>2, <2>3, <2>4, <2>5 DEF FeedInv
<1>2. CASE exportQueue # <<>>
  <2>1. /\ busy' = TRUE /\ inFlight' = exportQueue /\ exportQueue' = <<>> /\ exportDropped' = 0
        /\ done' = done
    BY <1>2 DEF BeginLink
  <2>2. FeedTypeOK'
    <3>1. <<>> \in Seq(Exportable)
      BY EmptySeq
    <3> QED BY <1>0, <2>1, <3>1, Unpack DEF FeedTypeOK
  <2>3. LinksOK' /\ QueueHasSender'
    BY <1>0, <2>1, Unpack DEF LinksOK, QueueHasSender
  <2>4. CoverOK'
    BY <1>0, <2>1, Unpack, RangeEmpty DEF CoverOK, FeedTypeOK
  <2>5. Feed' = Feed
    <3>1. /\ attempted \o <<>> = attempted
          /\ attempted \o exportQueue \in Seq(Exportable)
          /\ (attempted \o exportQueue) \o <<>> = attempted \o exportQueue
      <4>1. attempted \in Seq(Exportable) /\ exportQueue \in Seq(Exportable)
        BY Unpack
      <4>2. attempted \o exportQueue \in Seq(Exportable) /\ attempted \o <<>> = attempted
        BY <4>1, ConcatFacts
      <4> QED BY <4>2, ConcatFacts
    <3> QED BY <1>0, <2>1, <3>1 DEF Feed
  <2>6. OnceAndInOrder'
    BY <1>0, <2>1, <2>5, Unpack DEF OnceAndInOrder, Kept
  <2> QED BY <2>2, <2>3, <2>4, <2>6 DEF FeedInv
<1> QED BY <1>1, <1>2

\* The inFlight joins what was attempted, and the link ends.
LEMMA SendEndsInv == FeedInv /\ SendEnds => FeedInv'
<1> SUFFICES ASSUME FeedInv, SendEnds PROVE FeedInv'
  OBVIOUS
<1>0. /\ busy /\ busy' = FALSE /\ done' = done + 1 /\ attempted' = attempted \o inFlight
      /\ inFlight' = <<>>
      /\ UNCHANGED <<exportQueue, exportTimer, asked, exportDropped, drain, offered, dropped>>
  BY Unpack DEF SendEnds
<1>1. /\ attempted' \in Seq(Exportable) /\ <<>> \in Seq(Exportable)
      /\ attempted' \o <<>> = attempted'
      /\ Range(attempted') = Range(attempted) \cup Range(inFlight)
  <2>1. attempted \in Seq(Exportable) /\ inFlight \in Seq(Exportable)
    BY Unpack
  <2>2. attempted \o inFlight \in Seq(Exportable)
        /\ Range(attempted \o inFlight) = Range(attempted) \cup Range(inFlight)
    BY <2>1, ConcatFacts
  <2> QED BY <1>0, <2>2, ConcatFacts, EmptySeq
<1>2. FeedTypeOK'
  <2>1. done' \in Nat /\ inFlight' \in Seq(Exportable)
    BY <1>0, <1>1, Unpack
  <2>2. busy' \in BOOLEAN
    BY <1>0
  <2> QED BY <1>0, <1>1, <2>1, <2>2, Unpack DEF FeedTypeOK
<1>3. LinksOK' /\ QueueHasSender'
  BY <1>0, Unpack DEF LinksOK, QueueHasSender, Waiting
<1>4. CoverOK'
  <2>1. Range(inFlight') = {} /\ Range(exportQueue') = Range(exportQueue) /\ ~busy'
    BY <1>0, RangeEmpty
  <2>2. ASSUME NEW g \in Drainers, drain'[g].stage \in {"second", "done"}
        PROVE  /\ drain'[g].due \subseteq Range(attempted') \cup Range(inFlight') \cup Range(exportQueue')
               /\ done' >= drain'[g].link => drain'[g].due \subseteq Range(attempted')
               /\ drain'[g].stage = "done" => done' >= drain'[g].link
    <3>1. drain[g].link \in Nat /\ drain' = drain
      BY <1>0, Unpack DEF FeedTypeOK
    <3>2. /\ drain[g].due \subseteq Range(attempted) \cup Range(inFlight) \cup Range(exportQueue)
          /\ done + 1 >= drain[g].link => drain[g].due \subseteq Range(attempted) \cup Range(inFlight)
          /\ drain[g].stage = "done" => done >= drain[g].link
      BY <1>0, <2>2, <3>1, Unpack DEF CoverOK
    <3> QED BY <1>0, <1>1, <2>1, <3>1, <3>2, Unpack
  <2> QED BY <2>1, <2>2 DEF CoverOK
<1>5. Feed' = Feed
  BY <1>0, <1>1 DEF Feed
<1>6. OnceAndInOrder'
  BY <1>0, <1>5, Unpack DEF OnceAndInOrder, Kept
<1> QED BY <1>2, <1>3, <1>4, <1>6 DEF FeedInv

\* A drain adds a link behind everything the feed holds.
LEMMA FlushInv ==
    \A f \in Drainers : FeedInv /\ (BeginFlush(f) \/ FlushAgain(f) \/ EndFlush(f)) => FeedInv'
<1> SUFFICES ASSUME NEW f \in Drainers, FeedInv,
                    BeginFlush(f) \/ FlushAgain(f) \/ EndFlush(f)
             PROVE  FeedInv'
  OBVIOUS
<1>0. /\ UNCHANGED <<exportQueue, exportTimer, done, busy, inFlight, exportDropped, offered,
                     dropped, attempted>>
      /\ asked' \in Nat /\ asked' >= asked
  BY Unpack DEF BeginFlush, FlushAgain, EndFlush, SecondLink
<1>k. Kept \subseteq Exportable /\ Kept = Range(attempted) \cup Range(inFlight) \cup Range(exportQueue)
  BY Unpack, FeedTypes DEF OnceAndInOrder, Kept, Exportable
<1>1. FeedTypeOK' /\ LinksOK' /\ CoverOK'
  <2>1. CASE BeginFlush(f)
    <3>1. /\ asked' = asked + 1
          /\ drain' = [drain EXCEPT ![f] = [stage |-> "first", link |-> asked + 1, due |-> {}]]
      BY <2>1 DEF BeginFlush
    <3> QED BY <1>0, <3>1, Unpack DEF FeedTypeOK, LinksOK, CoverOK
  <2>2. CASE FlushAgain(f)
    <3>1. /\ asked' = asked + 1
          /\ drain' = [drain EXCEPT ![f] = [stage |-> "second", link |-> asked + 1, due |-> Kept]]
      BY <2>2 DEF FlushAgain, SecondLink
    <3>2. FeedTypeOK'
      BY <1>0, <1>k, <3>1, Unpack DEF FeedTypeOK
    <3>3. LinksOK'
      BY <1>0, <3>1, Unpack DEF FeedTypeOK, LinksOK
    <3>4. done < asked + 1 /\ (busy => done + 1 < asked + 1)
      BY Unpack DEF LinksOK
    <3>5. CoverOK'
      BY <1>0, <1>k, <3>1, <3>4, Unpack DEF FeedTypeOK, CoverOK
    <3> QED BY <3>2, <3>3, <3>5
  <2>3. CASE EndFlush(f)
    <3>1. /\ asked' = asked /\ drain' = [drain EXCEPT ![f].stage = "done"]
          /\ drain[f].stage = "second" /\ done >= drain[f].link
      BY <2>3 DEF EndFlush, Resolved
    <3> QED BY <1>0, <3>1, Unpack DEF FeedTypeOK, LinksOK, CoverOK
  <2> QED BY <2>1, <2>2, <2>3
<1>2. OnceAndInOrder'
  BY <1>0, Unpack DEF OnceAndInOrder, Feed, Kept
<1>3. QueueHasSender'
  <2>1. Waiting' >= Waiting
    BY <1>0, Unpack DEF Waiting
  <2>2. Waiting \in Int /\ Waiting' \in Int
    BY <1>0, Unpack DEF Waiting
  <2> QED BY <1>0, <2>1, <2>2, Unpack DEF QueueHasSender
<1> QED BY <1>1, <1>2, <1>3 DEF FeedInv

\* The inductive invariant: types, links, what each drain awaits, the feed and its sender.
THEOREM Inductive == FeedSpec => []FeedInv
<1>1. FeedInv /\ [FeedNext]_feedVars => FeedInv'
  <2>1. FeedInv /\ UNCHANGED feedVars => FeedInv'
    BY DEF FeedInv, feedVars, FeedTypeOK, LinksOK, CoverOK, OnceAndInOrder, QueueHasSender, Waiting,
           Feed, Kept
  <2> QED BY <2>1, EnqueueInv, TimerInv, BeginLinkInv, SendEndsInv, FlushInv DEF FeedNext
<1> QED BY <1>1, InitInv, PTL DEF FeedSpec

\* Each finding the queue took is in the feed once and in order.
THEOREM OnceAndInOrderCorrect == FeedSpec => []OnceAndInOrder
<1>1. FeedInv => OnceAndInOrder
  BY DEF FeedInv
<1> QED BY <1>1, Inductive, PTL

\* A queued finding has a timer or a link that will take it.
THEOREM QueueHasSenderCorrect == FeedSpec => []QueueHasSender
<1>1. FeedInv => QueueHasSender
  BY DEF FeedInv
<1> QED BY <1>1, Inductive, PTL

\* A drain that is over has covered everything the feed held at its second await.
THEOREM FlushCoversCorrect == FeedSpec => []FlushCovers
<1>1. FeedInv => FlushCovers
  BY DEF FeedInv, CoverOK, FlushCovers
<1> QED BY <1>1, Inductive, PTL

\* Both: what a consumer of the feed may rely on.
THEOREM FeedSafetyCorrect == FeedSpec => []FeedSafety
<1>1. OnceAndInOrder /\ FlushCovers => FeedSafety
  BY DEF FeedSafety
<1> QED BY <1>1, OnceAndInOrderCorrect, FlushCoversCorrect, PTL

-----------------------------------------------------------------------------
(* The suppression rules and their cache *)

Load == [by : Admins \cup {Reader}, saw : 0..MaxVersion]

LEMMA ConstantFacts ==
    /\ Refresh \in Nat /\ PromptRetries \in Nat /\ Backoff \in Nat /\ Backoff > 0
    /\ MaxVersion \in Nat /\ MaxVersion > 0 /\ MaxLoadFailures \in Nat
    /\ IsFiniteSet(Admins) /\ Nobody \notin Admins /\ Reader \notin Admins
    /\ Criteria # {} /\ Criteria \in Rows /\ Unread = 0
    /\ \A p \in Patches \cup {NoPatch} : p.set \in SUBSET Criteria
<1> QED BY CacheAssumption DEF Rows, NoPatch, Unread

LEMMA QueueAppend ==
    ASSUME NEW S, NEW q \in Seq(S), NEW e \in S
    PROVE  /\ Append(q, e) \in Seq(S) /\ Len(q) \in Nat /\ DOMAIN q = 1..Len(q)
           /\ DOMAIN Append(q, e) = 1..(Len(q) + 1) /\ Len(Append(q, e)) = Len(q) + 1
           /\ \A i \in 1..Len(q) : Append(q, e)[i] = q[i] /\ q[i] \in S
           /\ Append(q, e)[Len(q) + 1] = e /\ Append(q, e) # <<>>
OBVIOUS

LEMMA TailFacts ==
    ASSUME NEW S, NEW q \in Seq(S), q # <<>>
    PROVE  /\ Len(q) \in Nat /\ Len(q) > 0 /\ DOMAIN q = 1..Len(q)
           /\ 1 \in DOMAIN q /\ Head(q) = q[1] /\ Head(q) \in S
           /\ Tail(q) \in Seq(S) /\ DOMAIN Tail(q) = 1..(Len(q) - 1)
           /\ \A i \in 1..(Len(q) - 1) : Tail(q)[i] = q[i + 1] /\ i + 1 \in DOMAIN q
OBVIOUS

\* The types, in a form each step can take from.
LEMMA CacheTypes ==
    ASSUME CacheTypeOK
    PROVE  /\ version \in Nat /\ version > 0 /\ version <= MaxVersion
           /\ served \in Nat /\ informed \in Nat /\ failures \in Nat /\ loadFailures \in Nat
           /\ wait \in Nat /\ wait <= Backoff /\ pause \in Nat /\ pause <= Backoff
           /\ burst \in Nat
           /\ loads \in Seq(Load) /\ Len(loads) \in Nat /\ DOMAIN loads = 1..Len(loads)
           /\ \A i \in DOMAIN loads : /\ loads[i].saw \in Nat
                                      /\ loads[i].by # Reader => loads[i].by \in Admins
           /\ \A a \in Admins : /\ edit[a].wrote \in Nat /\ edit[a].before \in Rows
                                /\ edit[a].patch \in Patches \cup {NoPatch}
           /\ IsFiniteSet(Pending) /\ Cardinality(Pending) \in Nat
<1> USE ConstantFacts
<1>1. /\ version \in Nat /\ version > 0 /\ version <= MaxVersion
      /\ served \in Nat /\ informed \in Nat /\ failures \in Nat /\ loadFailures \in Nat
      /\ wait \in Nat /\ wait <= Backoff /\ pause \in Nat /\ pause <= Backoff
      /\ burst \in Nat
  BY DEF CacheTypeOK
<1>2. loads \in Seq(Load)
  BY DEF CacheTypeOK, Load
<1>3. Len(loads) \in Nat /\ DOMAIN loads = 1..Len(loads) /\ \A i \in DOMAIN loads : loads[i] \in Load
  <2> HIDE DEF Load
  <2> QED BY <1>2
<1>4. \A i \in DOMAIN loads : /\ loads[i].saw \in Nat
                              /\ loads[i].by # Reader => loads[i].by \in Admins
  BY <1>3 DEF Load
<1>5. \A a \in Admins : /\ edit[a].wrote \in Nat /\ edit[a].before \in Rows
                        /\ edit[a].patch \in Patches \cup {NoPatch}
  BY DEF CacheTypeOK
<1>6. IsFiniteSet(Pending) /\ Cardinality(Pending) \in Nat
  <2>1. Pending \subseteq Admins
    BY DEF Pending
  <2> QED BY <2>1, FS_Subset, FS_CardinalityType
<1> QED BY <1>1, <1>2, <1>3, <1>4, <1>5, <1>6

LEMMA CacheInitInv == CacheInit => CacheInv
<1> SUFFICES ASSUME CacheInit PROVE CacheInv
  OBVIOUS
<1> USE ConstantFacts DEF CacheInit, Idle
<1>1. Cardinality(rule) = 1 /\ Pending = {} /\ Cardinality(Pending) = 0
  BY FS_Singleton, FS_EmptySet DEF Pending
<1>2. CacheTypeOK
  <2>1. NoPatch \in Patches \cup {NoPatch} /\ {} \in Rows /\ rule \in SUBSET Rows
    BY DEF Rows
  <2>2. edit \in [Admins -> [stage : {"idle", "locking", "merging", "committed", "reloading"},
                             patch : Patches \cup {NoPatch}, before : Rows,
                             wrote : 0..MaxVersion]]
    BY <2>1
  <2>3. /\ loads \in Seq([by : Admins \cup {Reader}, saw : 0..MaxVersion])
        /\ trail \in Seq(Rows \X Rows)
    OBVIOUS
  <2>4. /\ version \in 1..MaxVersion /\ served \in 0..MaxVersion /\ informed \in 0..MaxVersion
        /\ age \in 0..(Refresh + 1) /\ wait \in 0..Backoff /\ pause \in 0..Backoff
        /\ failures \in 0..MaxLoadFailures /\ loadFailures \in 0..MaxLoadFailures
    OBVIOUS
  <2> QED BY <1>1, <2>1, <2>2, <2>3, <2>4 DEF CacheTypeOK
<1>3. LockHeld /\ RowEndsTrail /\ VersionsOK
  BY <1>1 DEF LockHeld, RowEndsTrail, TrailEnd, VersionsOK
<1>4. DOMAIN loads = {} /\ DOMAIN trail = {}
  OBVIOUS
<1>5. ChainOK /\ RetriesOK /\ TrailIsComplete /\ OutageIsQuiet
  BY <1>4 DEF ChainOK, RetriesOK, Reading, TrailIsComplete, OutageIsQuiet
<1> QED BY <1>2, <1>3, <1>5 DEF CacheInv

-----------------------------------------------------------------------------
(* The chain of loads *)

LEMMA ReadStartsInv == CacheInv /\ ReadStarts => CacheInv'
<1> SUFFICES ASSUME CacheInv, ReadStarts PROVE CacheInv'
  OBVIOUS
<1> USE ConstantFacts DEF tableVars
<1> DEFINE e == [by |-> Reader, saw |-> Unread]
<1>t. CacheTypeOK /\ RetriesOK /\ loads = <<>> /\ wait = 0
  BY DEF CacheInv, ReadStarts
<1>1. /\ loads' = Append(loads, e) /\ e \in Load /\ loads \in Seq(Load)
      /\ burst' = IF pause = Backoff THEN 1 ELSE burst + 1
      /\ pause' = 0
      /\ UNCHANGED <<rule, version, rowLock, trail, edit, served, age, wait, failures,
                     loadFailures, informed>>
  BY <1>t, CacheTypes DEF ReadStarts, EnqueueLoad, Load
<1>2. /\ loads' \in Seq(Load) /\ DOMAIN loads' = {1} /\ loads'[1] = e
  <2>1. Len(loads) = 0 /\ e \in Load
    BY <1>t, <1>1
  <2> HIDE DEF e, Load
  <2> QED BY <1>1, <2>1, QueueAppend
<1>3. CacheTypeOK'
  <2>1. loads' \in Seq([by : Admins \cup {Reader}, saw : 0..MaxVersion])
    BY <1>2 DEF Load
  <2> QED BY <1>t, <1>1, <2>1, CacheTypes DEF CacheTypeOK
<1>4. LockHeld' /\ RowEndsTrail' /\ VersionsOK' /\ TrailIsComplete'
  BY <1>1 DEF CacheInv, LockHeld, RowEndsTrail, TrailEnd, VersionsOK, Pending, TrailIsComplete
<1>5. ChainOK'
  BY <1>1, <1>2 DEF ChainOK
\* A read after too many failures comes after the pause.
<1>6. RetriesOK' /\ OutageIsQuiet'
  <2>1. Reading'
    BY <1>2 DEF Reading
  <2>2. ~Reading
    BY <1>t DEF Reading
  <2>3. burst <= failures /\ (failures > PromptRetries => pause = Backoff)
    BY <1>t, <2>2, CacheTypes DEF RetriesOK
  <2> QED BY <1>t, <1>1, <2>1, <2>3, CacheTypes DEF RetriesOK, OutageIsQuiet
<1> QED BY <1>3, <1>4, <1>5, <1>6 DEF CacheInv

LEMMA LoadReadsInv == CacheInv /\ LoadReads => CacheInv'
<1> SUFFICES ASSUME CacheInv, LoadReads PROVE CacheInv'
  OBVIOUS
<1> USE ConstantFacts DEF tableVars, clockVars
<1>t. CacheTypeOK /\ VersionsOK /\ ChainOK /\ RetriesOK /\ loads # <<>>
  BY DEF CacheInv, LoadReads
<1>1. /\ loads' = [loads EXCEPT ![1].saw = version]
      /\ UNCHANGED <<rule, version, rowLock, trail, edit, served, age, wait, pause, failures,
                     loadFailures, informed, burst>>
  BY DEF LoadReads
<1>2. /\ 1 \in DOMAIN loads /\ DOMAIN loads' = DOMAIN loads
      /\ loads[1] \in Load /\ loads'[1] = [loads[1] EXCEPT !.saw = version]
      /\ \A i \in DOMAIN loads : i # 1 => loads'[i] = loads[i]
      /\ loads' \in Seq(Load)
  <2> DEFINE e == [loads[1] EXCEPT !.saw = version]
  <2>1. 1 \in DOMAIN loads /\ loads[1] \in Load /\ loads \in Seq(Load)
    <3>1. loads \in Seq(Load)
      BY <1>t, CacheTypes
    <3> HIDE DEF Load
    <3> QED BY <1>t, <3>1, TailFacts
  <2>2. e \in Load
    <3>1. version \in 0..MaxVersion
      BY <1>t, CacheTypes
    <3> QED BY <2>1, <3>1 DEF Load
  <2>3. loads' = [loads EXCEPT ![1] = e]
    BY <1>1
  <2> HIDE DEF e, Load
  <2>4. loads' \in Seq(Load)
    BY <2>1, <2>2, <2>3
  <2> QED BY <2>1, <2>3, <2>4 DEF e
<1>3. \A i \in DOMAIN loads' : loads'[i].by = loads[i].by
  BY <1>2 DEF Load
<1>4. CacheTypeOK'
  <2>1. loads' \in Seq([by : Admins \cup {Reader}, saw : 0..MaxVersion])
    BY <1>2 DEF Load
  <2> QED BY <1>t, <1>1, <2>1 DEF CacheTypeOK
<1>5. LockHeld' /\ RowEndsTrail' /\ VersionsOK' /\ TrailIsComplete' /\ OutageIsQuiet'
  BY <1>1 DEF CacheInv, LockHeld, RowEndsTrail, TrailEnd, VersionsOK, Pending, TrailIsComplete,
              OutageIsQuiet
<1>6. ChainOK'
  <2> SUFFICES ASSUME NEW i \in DOMAIN loads
               PROVE  /\ i > 1 => loads'[i].saw = Unread /\ loads'[i].by # Reader
                      /\ loads'[i].by # Reader => edit[loads'[i].by].stage = "reloading"
                      /\ \A j \in DOMAIN loads : loads'[i].by = loads'[j].by => i = j
                      /\ loads'[i].saw # Unread =>
                           /\ served <= loads'[i].saw /\ loads'[i].saw <= version
                           /\ loads'[i].by # Reader => edit[loads'[i].by].wrote <= loads'[i].saw
    BY <1>1, <1>2 DEF ChainOK
  <2>1. CASE i = 1
    <3>1. loads'[i].saw = version
      BY <1>2, <2>1 DEF Load
    <3>2. loads[i].by # Reader => edit[loads[i].by].wrote <= version
      BY <1>t, CacheTypes DEF VersionsOK
    <3>3. served <= version /\ version <= version
      BY <1>t, CacheTypes DEF VersionsOK
    <3>4. loads'[i].by # Reader => edit[loads'[i].by].stage = "reloading"
      BY <1>t, <1>3, <1>2 DEF ChainOK
    <3>5. \A j \in DOMAIN loads : loads'[i].by = loads'[j].by => i = j
      BY <1>t, <1>3, <1>2 DEF ChainOK
    <3> QED BY <1>2, <1>3, <2>1, <3>1, <3>2, <3>3, <3>4, <3>5
  <2>2. CASE i # 1
    BY <1>t, <1>2, <1>3, <2>2 DEF ChainOK
  <2> QED BY <2>1, <2>2
<1>7. RetriesOK'
  <2>1. Reading' <=> Reading
    BY <1>2, <1>3 DEF Reading
  <2> QED BY <1>t, <1>1, <2>1 DEF RetriesOK
<1> QED BY <1>4, <1>5, <1>6, <1>7 DEF CacheInv

\* The running load leaves the chain and its request is answered.
LEMMA LoadEnds ==
    ASSUME CacheInv, loads # <<>>, loads' = Tail(loads), Answered(Head(loads).by),
           UNCHANGED tableVars
    PROVE  /\ loads' \in Seq(Load) /\ ~Reading'
           /\ edit' \in [Admins -> [stage : {"idle", "locking", "merging", "committed", "reloading"},
                                    patch : Patches \cup {NoPatch}, before : Rows,
                                    wrote : 0..MaxVersion]]
           /\ LockHeld' /\ RowEndsTrail' /\ TrailIsComplete' /\ ChainOK'
           /\ Pending' = Pending /\ \A a \in Admins : edit'[a].wrote <= version
<1> USE ConstantFacts DEF tableVars
<1> DEFINE by == Head(loads).by
<1>t. CacheTypeOK /\ VersionsOK /\ ChainOK /\ LockHeld
  BY DEF CacheInv
<1>1. /\ loads \in Seq(Load) /\ 1 \in DOMAIN loads /\ Head(loads) = loads[1]
      /\ Tail(loads) \in Seq(Load) /\ DOMAIN Tail(loads) = 1..(Len(loads) - 1)
      /\ DOMAIN loads = 1..Len(loads) /\ Len(loads) \in Nat
      /\ \A i \in 1..(Len(loads) - 1) : Tail(loads)[i] = loads[i + 1] /\ i + 1 \in DOMAIN loads
  <2>1. loads \in Seq(Load)
    BY <1>t, CacheTypes
  <2> HIDE DEF Load
  <2> QED BY <2>1, TailFacts
<1>2. by # Reader => by \in Admins /\ edit[by].stage = "reloading" /\ edit' = [edit EXCEPT ![by] = Idle]
  BY <1>t, <1>1, CacheTypes DEF ChainOK, Answered
<1>3. by = Reader => edit' = edit
  BY DEF Answered
<1>4. \A i \in DOMAIN Tail(loads) : /\ Tail(loads)[i].saw = Unread /\ Tail(loads)[i].by # Reader
                                    /\ Tail(loads)[i].by \in Admins /\ Tail(loads)[i].by # by
                                    /\ edit[Tail(loads)[i].by].stage = "reloading"
  <2> SUFFICES ASSUME NEW i \in 1..(Len(loads) - 1)
               PROVE  /\ loads[i + 1].saw = Unread /\ loads[i + 1].by # Reader
                      /\ loads[i + 1].by \in Admins /\ loads[i + 1].by # by
                      /\ edit[loads[i + 1].by].stage = "reloading"
    BY <1>1
  <2>1. i + 1 \in DOMAIN loads /\ i + 1 > 1 /\ i + 1 # 1
    BY <1>1
  <2> QED BY <1>t, <1>1, <2>1, CacheTypes DEF ChainOK
<1> HIDE DEF by
<1>5. \A a \in Admins : /\ edit'[a] = IF a = by THEN Idle ELSE edit[a]
                        /\ a = by => edit[a].stage = "reloading"
  BY <1>t, <1>2, <1>3 DEF CacheTypeOK
<1>6. edit' \in [Admins -> [stage : {"idle", "locking", "merging", "committed", "reloading"},
                            patch : Patches \cup {NoPatch}, before : Rows,
                            wrote : 0..MaxVersion]]
  <2>1. /\ edit \in [Admins -> [stage : {"idle", "locking", "merging", "committed", "reloading"},
                                patch : Patches \cup {NoPatch}, before : Rows,
                                wrote : 0..MaxVersion]]
        /\ Idle \in [stage : {"idle", "locking", "merging", "committed", "reloading"},
                     patch : Patches \cup {NoPatch}, before : Rows, wrote : 0..MaxVersion]
    BY <1>t DEF CacheTypeOK, Idle, Rows
  <2> QED BY <1>2, <1>3, <2>1
<1>7. LockHeld'
  BY <1>t, <1>5 DEF LockHeld, Idle
<1>8. RowEndsTrail' /\ TrailIsComplete'
  BY DEF CacheInv, RowEndsTrail, TrailEnd, TrailIsComplete
<1>9. ChainOK'
  <2>1. \A i, j \in DOMAIN loads' : loads'[i].by = loads'[j].by => i = j
    <3> SUFFICES ASSUME NEW i \in 1..(Len(loads) - 1), NEW j \in 1..(Len(loads) - 1),
                        loads[i + 1].by = loads[j + 1].by
                 PROVE  i = j
      BY <1>1
    <3>1. i + 1 = j + 1
      BY <1>t, <1>1 DEF ChainOK
    <3> QED BY <3>1
  <2> QED BY <1>4, <1>5, <2>1 DEF ChainOK
<1>10. ~Reading'
  BY <1>4 DEF Reading
<1>11. Pending' = Pending
  BY <1>5 DEF Pending, Idle
<1>12. \A a \in Admins : edit'[a].wrote <= version
  BY <1>t, <1>5, CacheTypes DEF VersionsOK, Idle
<1> QED BY <1>1, <1>6, <1>7, <1>8, <1>9, <1>10, <1>11, <1>12

\* What is published is no older than what it replaces, nor than what its writer wrote.
LEMMA PublishesInOrder ==
    ASSUME CacheInv, LoadPublishes
    PROVE  /\ served' \in served..version /\ informed' \in informed..served'
           /\ served' \in Nat /\ served' <= version /\ informed' \in Nat /\ informed' <= served'
           /\ version' = version
<1>t. CacheTypeOK /\ VersionsOK /\ ChainOK /\ loads # <<>> /\ Head(loads).saw # Unread
  BY DEF CacheInv, LoadPublishes
<1>1. 1 \in DOMAIN loads /\ Head(loads) = loads[1]
  <2>1. loads \in Seq(Load)
    BY <1>t, CacheTypes
  <2> HIDE DEF Load
  <2> QED BY <1>t, <2>1, TailFacts
<1>2. /\ served <= loads[1].saw /\ loads[1].saw <= version /\ loads[1].saw \in Nat
      /\ loads[1].by # Reader => /\ edit[loads[1].by].wrote <= loads[1].saw
                                 /\ edit[loads[1].by].wrote \in Nat
  BY <1>t, <1>1, CacheTypes DEF ChainOK
<1>3. /\ served' = loads[1].saw /\ version' = version
      /\ \/ informed' = informed
         \/ /\ loads[1].by # Reader /\ informed' = edit[loads[1].by].wrote
            /\ edit[loads[1].by].wrote > informed
  BY <1>1 DEF LoadPublishes, tableVars
<1> QED BY <1>t, <1>2, <1>3, CacheTypes DEF VersionsOK

LEMMA LoadPublishesInv == CacheInv /\ LoadPublishes => CacheInv'
<1> SUFFICES ASSUME CacheInv, LoadPublishes PROVE CacheInv'
  OBVIOUS
<1> USE ConstantFacts
<1>t. CacheTypeOK /\ VersionsOK /\ ChainOK
  BY DEF CacheInv
<1>1. /\ loads # <<>> /\ loads' = Tail(loads) /\ Answered(Head(loads).by)
      /\ Head(loads).saw # Unread
      /\ served' = Head(loads).saw /\ age' = 0 /\ wait' = 0 /\ failures' = 0 /\ burst' = 0
      /\ UNCHANGED tableVars /\ UNCHANGED <<loadFailures, pause>>
  BY DEF LoadPublishes
<1>2. /\ loads' \in Seq(Load) /\ ~Reading'
      /\ edit' \in [Admins -> [stage : {"idle", "locking", "merging", "committed", "reloading"},
                               patch : Patches \cup {NoPatch}, before : Rows,
                               wrote : 0..MaxVersion]]
      /\ LockHeld' /\ RowEndsTrail' /\ TrailIsComplete' /\ ChainOK'
      /\ Pending' = Pending /\ \A a \in Admins : edit'[a].wrote <= version
  BY <1>1, LoadEnds
<1>3. /\ served' \in Nat /\ served' <= version /\ informed' \in Nat /\ informed' <= served'
  BY PublishesInOrder
<1>4. CacheTypeOK'
  <2>1. loads' \in Seq([by : Admins \cup {Reader}, saw : 0..MaxVersion])
    BY <1>2 DEF Load
  <2>2. served' \in 0..MaxVersion /\ informed' \in 0..MaxVersion
    BY <1>t, <1>3, CacheTypes
  <2>3. age' \in 0..(Refresh + 1) /\ wait' \in 0..Backoff /\ failures' \in 0..MaxLoadFailures /\ burst' \in Nat
    BY <1>1
  <2>4. loadFailures' \in 0..MaxLoadFailures /\ pause' \in 0..Backoff
    BY <1>t, <1>1 DEF CacheTypeOK
  <2>5. /\ rule' \in SUBSET Rows /\ Cardinality(rule') <= 1 /\ version' \in 1..MaxVersion
        /\ rowLock' \in Admins \cup {Nobody} /\ trail' \in Seq(Rows \X Rows)
    BY <1>t, <1>1 DEF CacheTypeOK, tableVars
  <2> QED BY <1>2, <2>1, <2>2, <2>3, <2>4, <2>5 DEF CacheTypeOK
<1>5. VersionsOK'
  BY <1>t, <1>1, <1>2, <1>3 DEF VersionsOK, tableVars
<1>6. RetriesOK' /\ OutageIsQuiet'
  BY <1>t, <1>1, <1>2, CacheTypes DEF RetriesOK, OutageIsQuiet
<1> QED BY <1>2, <1>4, <1>5, <1>6 DEF CacheInv

LEMMA LoadFailsInv == CacheInv /\ LoadFails => CacheInv'
<1> SUFFICES ASSUME CacheInv, LoadFails PROVE CacheInv'
  OBVIOUS
<1> USE ConstantFacts
<1>t. CacheTypeOK /\ VersionsOK /\ RetriesOK
  BY DEF CacheInv
<1>1. /\ loads # <<>> /\ loads' = Tail(loads) /\ Answered(Head(loads).by)
      /\ loadFailures < MaxLoadFailures /\ loadFailures' = loadFailures + 1
      /\ failures' = failures + 1
      /\ wait' = IF failures + 1 <= PromptRetries THEN 0 ELSE Backoff
      /\ UNCHANGED tableVars /\ UNCHANGED <<served, age, informed, burst, pause>>
  BY DEF LoadFails, NextAttempt
<1>2. /\ loads' \in Seq(Load) /\ ~Reading'
      /\ edit' \in [Admins -> [stage : {"idle", "locking", "merging", "committed", "reloading"},
                               patch : Patches \cup {NoPatch}, before : Rows,
                               wrote : 0..MaxVersion]]
      /\ LockHeld' /\ RowEndsTrail' /\ TrailIsComplete' /\ ChainOK'
      /\ Pending' = Pending /\ \A a \in Admins : edit'[a].wrote <= version
  BY <1>1, LoadEnds
<1>3. CacheTypeOK'
  <2>1. loads' \in Seq([by : Admins \cup {Reader}, saw : 0..MaxVersion])
    BY <1>2 DEF Load
  <2>2. /\ failures' \in 0..MaxLoadFailures /\ loadFailures' \in 0..MaxLoadFailures
        /\ wait' \in 0..Backoff
    BY <1>t, <1>1, CacheTypes DEF RetriesOK
  <2> QED BY <1>t, <1>1, <1>2, <2>1, <2>2 DEF CacheTypeOK, tableVars
<1>4. VersionsOK'
  BY <1>t, <1>1, <1>2 DEF VersionsOK, tableVars
<1>5. RetriesOK'
  BY <1>t, <1>1, <1>2, CacheTypes DEF RetriesOK
<1>6. OutageIsQuiet'
  BY <1>t, <1>1, <1>2, CacheTypes DEF CacheInv, RetriesOK, OutageIsQuiet
<1> QED BY <1>2, <1>3, <1>4, <1>5, <1>6 DEF CacheInv

LEMMA CacheTickInv == CacheInv /\ CacheTick => CacheInv'
<1> SUFFICES ASSUME CacheInv, CacheTick PROVE CacheInv'
  OBVIOUS
<1> USE ConstantFacts DEF tableVars, loadVars
<1>t. CacheTypeOK /\ RetriesOK
  BY DEF CacheInv
<1>1. /\ age' \in 0..(Refresh + 1) /\ wait' \in 0..Backoff /\ pause' \in 0..Backoff
      /\ wait + pause >= Backoff => wait' + pause' >= Backoff
      /\ UNCHANGED <<rule, version, rowLock, trail, edit, loads, served, failures, loadFailures,
                     burst, informed>>
  <2>1. /\ age \in 0..(Refresh + 1) /\ wait \in 0..Backoff /\ pause \in 0..Backoff
    BY <1>t DEF CacheTypeOK
  <2>2. /\ age' = IF age = Refresh + 1 THEN age ELSE age + 1
        /\ wait' = IF wait = 0 THEN 0 ELSE wait - 1
        /\ pause' = IF pause = Backoff THEN pause ELSE pause + 1
    BY DEF CacheTick, More, Less
  <2>3. UNCHANGED <<rule, version, rowLock, trail, edit, loads, served, failures, loadFailures,
                    burst, informed>>
    BY DEF CacheTick
  <2> HIDE DEF CacheTick
  <2> QED BY <2>1, <2>2, <2>3
<1>2. CacheTypeOK'
  BY <1>t, <1>1 DEF CacheTypeOK
<1>3. LockHeld' /\ RowEndsTrail' /\ VersionsOK' /\ ChainOK' /\ TrailIsComplete' /\ OutageIsQuiet'
  BY <1>1 DEF CacheInv, LockHeld, RowEndsTrail, TrailEnd, VersionsOK, Pending, ChainOK,
              TrailIsComplete, OutageIsQuiet
<1>4. RetriesOK'
  BY <1>t, <1>1 DEF RetriesOK, Reading
<1> QED BY <1>2, <1>3, <1>4 DEF CacheInv

-----------------------------------------------------------------------------
(* The requests *)

Requests == [Admins -> [stage : {"idle", "locking", "merging", "committed", "reloading"},
                        patch : Patches \cup {NoPatch}, before : Rows,
                        wrote : 0..MaxVersion]]

\* A request that has no load moves on; loads, clocks and retries stay as they are.
LEMMA RequestMoves ==
    ASSUME CacheInv, NEW a \in Admins, edit[a].stage # "reloading",
           edit' \in Requests, \A b \in Admins : b # a => edit'[b] = edit[b],
           edit'[a].wrote <= version', version' \in Nat, version <= version',
           version' + Cardinality(Pending') <= MaxVersion,
           UNCHANGED loadVars, UNCHANGED clockVars,
           rule' \in SUBSET Rows, Cardinality(rule') <= 1, rowLock' \in Admins \cup {Nobody},
           trail' \in Seq(Rows \X Rows), LockHeld', RowEndsTrail', TrailIsComplete',
           Cardinality(Pending') \in Nat
    PROVE  CacheInv'
<1> USE ConstantFacts DEF loadVars, clockVars
<1>t. CacheTypeOK /\ VersionsOK /\ ChainOK
  BY DEF CacheInv
<1>n. /\ served \in Nat /\ informed \in Nat /\ version \in Nat
      /\ \A b \in Admins : edit[b].wrote \in Nat /\ edit'[b].wrote \in Nat
  <2>1. \A b \in Admins : edit'[b].wrote \in 0..MaxVersion
    BY DEF Requests
  <2> QED BY <1>t, <2>1, CacheTypes
<1>1. VersionsOK'
  <2>1. served' <= version' /\ informed' <= served'
    BY <1>t, <1>n DEF VersionsOK
  <2>2. ASSUME NEW b \in Admins PROVE edit'[b].wrote <= version'
    <3>1. CASE b = a
      BY <3>1
    <3>2. CASE b # a
      BY <3>2, <1>t, <1>n DEF VersionsOK
    <3> QED BY <3>1, <3>2
  <2> QED BY <2>1, <2>2 DEF VersionsOK
<1>2. CacheTypeOK'
  <2>1. version' \in 1..MaxVersion
    BY <1>t, CacheTypes
  <2>2. edit' \in [Admins -> [stage : {"idle", "locking", "merging", "committed", "reloading"},
                              patch : Patches \cup {NoPatch}, before : Rows, wrote : 0..MaxVersion]]
    BY DEF Requests
  <2>3. /\ loads' \in Seq([by : Admins \cup {Reader}, saw : 0..MaxVersion])
        /\ served' \in 0..MaxVersion /\ age' \in 0..(Refresh + 1) /\ wait' \in 0..Backoff
        /\ failures' \in 0..MaxLoadFailures /\ loadFailures' \in 0..MaxLoadFailures
        /\ informed' \in 0..MaxVersion /\ burst' \in Nat /\ pause' \in 0..Backoff
    BY <1>t DEF CacheTypeOK
  <2> QED BY <2>1, <2>2, <2>3 DEF CacheTypeOK
<1>3. ChainOK'
  <2>1. \A i \in DOMAIN loads : loads[i].by # Reader => loads[i].by \in Admins /\ loads[i].by # a
    BY <1>t, CacheTypes DEF ChainOK
  <2>2. \A i \in DOMAIN loads : loads[i].by # Reader => edit'[loads[i].by] = edit[loads[i].by]
    BY <2>1
  <2>3. loads' = loads /\ served' = served
    OBVIOUS
  <2>4. \A i \in DOMAIN loads : loads[i].saw \in Nat
    BY <1>t, CacheTypes
  <2>5. \A i \in DOMAIN loads : loads[i].saw <= version => loads[i].saw <= version'
    BY <1>n, <2>4
  <2> HIDE DEF loadVars, clockVars
  <2> QED BY <1>t, <2>2, <2>3, <2>5 DEF ChainOK
<1>4. RetriesOK' /\ OutageIsQuiet'
  BY DEF CacheInv, RetriesOK, Reading, OutageIsQuiet
<1> QED BY <1>1, <1>2, <1>3, <1>4 DEF CacheInv

\* Who still may commit, when one request changes its stage.
LEMMA PendingMoves ==
    ASSUME CacheTypeOK, NEW a \in Admins, \A b \in Admins : b # a => edit'[b] = edit[b]
    PROVE  /\ Cardinality(Pending') \in Nat
           /\ Cardinality(Pending') <= Cardinality(Pending) + 1
           /\ edit'[a].stage \notin {"locking", "merging"} =>
                Cardinality(Pending') = IF a \in Pending THEN Cardinality(Pending) - 1
                                        ELSE Cardinality(Pending)
           /\ a \in Pending => Cardinality(Pending') <= Cardinality(Pending)
<1>1. IsFiniteSet(Pending) /\ Cardinality(Pending) \in Nat
  BY CacheTypes
<1>2. CASE edit'[a].stage \in {"locking", "merging"}
  <2>1. Pending' = Pending \cup {a}
    BY <1>2 DEF Pending
  <2>2. /\ IsFiniteSet(Pending \cup {a})
        /\ Cardinality(Pending \cup {a}) = IF a \in Pending THEN Cardinality(Pending)
                                           ELSE Cardinality(Pending) + 1
    BY <1>1, FS_AddElement
  <2> QED BY <1>1, <1>2, <2>1, <2>2
<1>3. CASE edit'[a].stage \notin {"locking", "merging"}
  <2>1. Pending' = Pending \ {a}
    BY <1>3 DEF Pending
  <2>2. /\ IsFiniteSet(Pending \ {a}) /\ Cardinality(Pending \ {a}) \in Nat
        /\ Cardinality(Pending \ {a}) = IF a \in Pending THEN Cardinality(Pending) - 1
                                        ELSE Cardinality(Pending)
    BY <1>1, FS_RemoveElement, FS_CardinalityType
  <2> QED BY <1>1, <1>3, <2>1, <2>2
<1> QED BY <1>2, <1>3

LEMMA BeginUpdateInv ==
    ASSUME NEW a \in Admins, NEW patch \in Patches
    PROVE  CacheInv /\ BeginUpdate(a, patch) => CacheInv'
<1> SUFFICES ASSUME CacheInv, BeginUpdate(a, patch) PROVE CacheInv'
  OBVIOUS
<1>t. CacheTypeOK /\ VersionsOK /\ LockHeld
  BY DEF CacheInv
<1>1. /\ edit[a].stage = "idle" /\ version + Cardinality(Pending) < MaxVersion
      /\ edit' = [edit EXCEPT ![a].stage = "locking", ![a].patch = patch]
      /\ UNCHANGED loadVars /\ UNCHANGED clockVars /\ UNCHANGED <<rule, version, rowLock, trail>>
  BY DEF BeginUpdate, CommitLeft, tableVars
<1>2. /\ edit' \in Requests /\ \A b \in Admins : b # a => edit'[b] = edit[b]
      /\ edit'[a].stage = "locking" /\ edit'[a].wrote = edit[a].wrote
      /\ edit'[a].before = edit[a].before
  BY <1>t, <1>1 DEF CacheTypeOK, Requests
<1>3. /\ Cardinality(Pending') \in Nat /\ version' + Cardinality(Pending') <= MaxVersion
  <2>1. Cardinality(Pending') \in Nat /\ Cardinality(Pending') <= Cardinality(Pending) + 1
    BY <1>t, <1>2, PendingMoves
  <2>2. version \in Nat /\ Cardinality(Pending) \in Nat /\ version' = version
    BY <1>t, <1>1, CacheTypes
  <2> QED BY <1>1, <2>1, <2>2, ConstantFacts
<1>4. LockHeld'
  BY <1>t, <1>1, <1>2 DEF LockHeld
<1>5. RowEndsTrail' /\ TrailIsComplete'
  BY <1>1 DEF CacheInv, RowEndsTrail, TrailEnd, TrailIsComplete
<1>6. /\ rule' \in SUBSET Rows /\ Cardinality(rule') <= 1 /\ rowLock' \in Admins \cup {Nobody}
      /\ trail' \in Seq(Rows \X Rows) /\ version' \in Nat /\ version <= version'
      /\ edit'[a].wrote <= version'
  BY <1>t, <1>1, <1>2, CacheTypes DEF CacheTypeOK, VersionsOK
<1> QED BY <1>1, <1>2, <1>3, <1>4, <1>5, <1>6, RequestMoves

\* A request that ends without having written, and gives the lock back if it held it.
LEMMA GivesUp ==
    ASSUME CacheInv, NEW a \in Admins, a \in Pending, edit' = [edit EXCEPT ![a] = Idle],
           rowLock' = IF rowLock = a THEN Nobody ELSE rowLock,
           UNCHANGED <<rule, version, trail, loadVars, clockVars>>
    PROVE  CacheInv'
<1>t. CacheTypeOK /\ VersionsOK /\ LockHeld /\ edit[a].stage # "reloading"
  BY DEF CacheInv, Pending
<1>1. /\ edit' \in Requests /\ \A b \in Admins : b # a => edit'[b] = edit[b]
      /\ edit'[a].stage = "idle" /\ edit'[a].wrote = 0
  BY <1>t, ConstantFacts DEF CacheTypeOK, Requests, Idle, Rows
<1>2. /\ Cardinality(Pending') \in Nat /\ version' + Cardinality(Pending') <= MaxVersion
  BY <1>t, <1>1, PendingMoves, CacheTypes, ConstantFacts DEF VersionsOK
<1>3. LockHeld'
  BY <1>t, <1>1, ConstantFacts DEF LockHeld
<1>4. RowEndsTrail' /\ TrailIsComplete'
  BY DEF CacheInv, RowEndsTrail, TrailEnd, TrailIsComplete
<1>5. /\ rule' \in SUBSET Rows /\ Cardinality(rule') <= 1 /\ rowLock' \in Admins \cup {Nobody}
      /\ trail' \in Seq(Rows \X Rows) /\ version' \in Nat /\ version <= version'
      /\ edit'[a].wrote <= version'
  BY <1>t, <1>1, CacheTypes DEF CacheTypeOK
<1>6. UNCHANGED loadVars /\ UNCHANGED clockVars
  OBVIOUS
<1> QED BY <1>t, <1>1, <1>2, <1>3, <1>4, <1>5, <1>6, RequestMoves

LEMMA LockRowInv == ASSUME NEW a \in Admins PROVE CacheInv /\ LockRow(a) => CacheInv'
<1> SUFFICES ASSUME CacheInv, LockRow(a) PROVE CacheInv'
  OBVIOUS
<1>t. /\ CacheTypeOK /\ VersionsOK /\ LockHeld /\ a \in Pending
      /\ edit[a].stage = "locking" /\ rowLock = Nobody
      /\ UNCHANGED <<rule, version, trail, loadVars, clockVars>>
  BY DEF CacheInv, LockRow, Pending
<1>1. CASE rule = {}
  <2>1. edit' = [edit EXCEPT ![a] = Idle] /\ rowLock' = rowLock
    BY <1>1 DEF LockRow
  <2> QED BY <1>t, <2>1, GivesUp, ConstantFacts
<1>2. ASSUME NEW row \in rule, edit' = [edit EXCEPT ![a].stage = "merging", ![a].before = row],
             rowLock' = a
      PROVE  CacheInv'
  <2>1. row \in Rows /\ rule = {row}
    <3>1. rule \in SUBSET Rows /\ Cardinality(rule) <= 1 /\ IsFiniteSet({row}) /\ Cardinality({row}) = 1
      BY <1>t, FS_Singleton DEF CacheTypeOK
    <3>2. rule \subseteq {row}
      BY <1>t DEF CacheInv, RowEndsTrail
    <3> QED BY <3>1, <3>2
  <2>2. /\ edit' \in Requests /\ \A b \in Admins : b # a => edit'[b] = edit[b]
        /\ edit'[a].stage = "merging" /\ edit'[a].wrote = edit[a].wrote
        /\ edit'[a].before = row
    BY <1>t, <1>2, <2>1 DEF CacheTypeOK, Requests
  <2>3. /\ Cardinality(Pending') \in Nat /\ version' + Cardinality(Pending') <= MaxVersion
    BY <1>t, <2>2, PendingMoves, CacheTypes, ConstantFacts DEF VersionsOK
  <2>4. LockHeld'
    BY <1>t, <1>2, <2>1, <2>2, ConstantFacts DEF LockHeld
  <2>5. RowEndsTrail' /\ TrailIsComplete'
    BY <1>t DEF CacheInv, RowEndsTrail, TrailEnd, TrailIsComplete
  <2>6. /\ rule' \in SUBSET Rows /\ Cardinality(rule') <= 1 /\ rowLock' \in Admins \cup {Nobody}
        /\ trail' \in Seq(Rows \X Rows) /\ version' \in Nat /\ version <= version'
        /\ edit'[a].wrote <= version'
    BY <1>t, <1>2, <2>2, CacheTypes DEF CacheTypeOK, VersionsOK
  <2>7. UNCHANGED loadVars /\ UNCHANGED clockVars
    BY <1>t
  <2> QED BY <1>t, <2>2, <2>3, <2>4, <2>5, <2>6, <2>7, RequestMoves
<1> QED BY <1>1, <1>2 DEF LockRow

LEMMA RefuseUpdateInv == ASSUME NEW a \in Admins PROVE CacheInv /\ RefuseUpdate(a) => CacheInv'
<1> SUFFICES ASSUME CacheInv, RefuseUpdate(a) PROVE CacheInv'
  OBVIOUS
<1>1. a \in Pending /\ rowLock = a
  BY DEF RefuseUpdate, Pending, CacheInv, LockHeld
<1> QED BY <1>1, GivesUp DEF RefuseUpdate

LEMMA UpdateFailsInv == ASSUME NEW a \in Admins PROVE CacheInv /\ UpdateFails(a) => CacheInv'
<1> QED BY GivesUp DEF UpdateFails, Pending

\* The audit entry starts from the row that was locked, which is where the trail ended.
LEMMA CommitUpdateInv == ASSUME NEW a \in Admins PROVE CacheInv /\ CommitUpdate(a) => CacheInv'
<1> SUFFICES ASSUME CacheInv, CommitUpdate(a) PROVE CacheInv'
  OBVIOUS
<1> DEFINE before == edit[a].before
           merged == Merged(edit[a].before, edit[a].patch)
<1>t. CacheTypeOK /\ VersionsOK /\ LockHeld /\ RowEndsTrail /\ TrailIsComplete
  BY DEF CacheInv
<1>1. /\ edit[a].stage = "merging" /\ a \in Pending
      /\ rule' = {merged} /\ version' = version + 1 /\ rowLock' = Nobody
      /\ trail' = IF merged = before THEN trail ELSE Append(trail, <<before, merged>>)
      /\ edit' = [edit EXCEPT ![a] = [Idle EXCEPT !.stage = "committed", !.wrote = version']]
      /\ UNCHANGED loadVars /\ UNCHANGED clockVars
  BY DEF CommitUpdate, Pending
<1>2. before \in Rows /\ merged \in Rows
  BY <1>t, CacheTypes, ConstantFacts DEF Merged, Rows
<1>3. rule = {before} /\ rowLock = a /\ before = TrailEnd
  BY <1>t, <1>1 DEF LockHeld, RowEndsTrail
<1>4. a \in Pending => version + 1 <= MaxVersion
  <2>1. Cardinality(Pending) >= 1
    <3>1. Cardinality(Pending) # 0
      BY <1>t, <1>1, CacheTypes, FS_EmptySet
    <3> QED BY <1>t, <3>1, CacheTypes
  <2> QED BY <1>t, <2>1, CacheTypes, ConstantFacts DEF VersionsOK
<1>5. /\ edit' \in Requests /\ \A b \in Admins : b # a => edit'[b] = edit[b]
      /\ edit'[a].stage = "committed" /\ edit'[a].wrote = version'
  <2>1. version' \in 0..MaxVersion
    BY <1>t, <1>1, <1>4, CacheTypes, ConstantFacts
  <2> QED BY <1>t, <1>1, <2>1, ConstantFacts DEF CacheTypeOK, Requests, Idle, Rows
<1>6. /\ Cardinality(Pending') \in Nat /\ version' + Cardinality(Pending') <= MaxVersion
  <2>1. Cardinality(Pending') \in Nat /\ Cardinality(Pending') = Cardinality(Pending) - 1
    <3>1. edit'[a].stage \notin {"locking", "merging"}
      BY <1>5
    <3> QED BY <1>t, <1>1, <1>5, <3>1, PendingMoves
  <2>2. /\ version \in Nat /\ Cardinality(Pending) \in Nat
        /\ version + Cardinality(Pending) <= MaxVersion
    BY <1>t, CacheTypes DEF VersionsOK
  <2> QED BY <1>1, <2>1, <2>2, ConstantFacts
<1>7. LockHeld'
  <2>1. \A b \in Admins : b # a => edit[b].stage # "merging"
    BY <1>t, <1>3 DEF LockHeld
  <2> QED BY <1>1, <1>5, <2>1, ConstantFacts DEF LockHeld
<1> HIDE DEF before, merged
<1>8. trail' \in Seq(Rows \X Rows) /\ TrailIsComplete' /\ RowEndsTrail'
  <2>1. trail \in Seq(Rows \X Rows)
    BY <1>t DEF CacheTypeOK
  <2>2. CASE merged = before
    BY <1>t, <1>1, <1>3, <2>1, <2>2 DEF TrailIsComplete, RowEndsTrail, TrailEnd
  <2>3. CASE merged # before
    <3> DEFINE e == <<before, merged>>
               L == Len(trail)
    <3>1. e \in Rows \X Rows /\ e[1] = before /\ e[2] = merged
      BY <1>2
    <3> HIDE DEF e
    <3>2. /\ trail' = Append(trail, e) /\ trail' \in Seq(Rows \X Rows)
          /\ L \in Nat /\ DOMAIN trail = 1..L /\ DOMAIN trail' = 1..(L + 1) /\ Len(trail') = L + 1
          /\ \A i \in 1..L : trail'[i] = trail[i]
          /\ trail'[L + 1] = e /\ trail' # <<>>
      BY <1>1, <2>1, <2>3, <3>1, QueueAppend DEF e
    <3>3. L = 0 <=> trail = <<>>
      BY <2>1
    <3> HIDE DEF L
    <3>4. TrailEnd' = merged /\ RowEndsTrail'
      BY <1>1, <3>1, <3>2 DEF TrailEnd, RowEndsTrail, L
    <3>5. \A i \in 1..(L + 1) : trail'[i][1] = IF i = 1 THEN Criteria ELSE trail'[i - 1][2]
      <4> SUFFICES ASSUME NEW i \in 1..(L + 1)
                   PROVE  trail'[i][1] = IF i = 1 THEN Criteria ELSE trail'[i - 1][2]
        OBVIOUS
      <4>1. CASE i \in 1..L
        <5>1. i # 1 => i - 1 \in 1..L
          BY <3>2, <4>1
        <5> QED BY <1>t, <3>2, <4>1, <5>1 DEF TrailIsComplete
      <4>2. CASE i = L + 1
        <5>1. trail'[i][1] = TrailEnd
          BY <1>3, <3>1, <3>2, <4>2
        <5>2. i # 1 => i - 1 \in 1..L /\ i - 1 = L /\ trail # <<>>
          BY <3>2, <3>3, <4>2
        <5>3. i = 1 => trail = <<>>
          BY <3>2, <3>3, <4>2
        <5> QED BY <3>2, <5>1, <5>2, <5>3 DEF TrailEnd, L
      <4> QED BY <3>2, <4>1, <4>2
    <3> QED BY <1>1, <3>1, <3>2, <3>4, <3>5 DEF TrailIsComplete, L, e
  <2> QED BY <2>2, <2>3
<1>9. /\ rule' \in SUBSET Rows /\ Cardinality(rule') <= 1 /\ rowLock' \in Admins \cup {Nobody}
      /\ version' \in Nat /\ version <= version' /\ edit'[a].wrote <= version'
  <2>1. Cardinality({merged}) = 1 /\ version \in Nat
    BY <1>t, CacheTypes, FS_Singleton
  <2> QED BY <1>1, <1>2, <1>5, <2>1
<1> QED BY <1>1, <1>5, <1>6, <1>7, <1>8, <1>9, RequestMoves

LEMMA CommitOtherInv == ASSUME NEW a \in Admins PROVE CacheInv /\ CommitOther(a) => CacheInv'
<1> SUFFICES ASSUME CacheInv, CommitOther(a) PROVE CacheInv'
  OBVIOUS
<1>t. CacheTypeOK /\ VersionsOK /\ LockHeld /\ RowEndsTrail /\ TrailIsComplete
  BY DEF CacheInv
<1>1. /\ edit[a].stage = "idle" /\ version + Cardinality(Pending) < MaxVersion
      /\ rule' = rule \/ (rule' = {} /\ rowLock = Nobody)
      /\ version' = version + 1
      /\ edit' = [edit EXCEPT ![a] = [Idle EXCEPT !.stage = "committed", !.wrote = version']]
      /\ UNCHANGED loadVars /\ UNCHANGED clockVars /\ rowLock' = rowLock /\ trail' = trail
  BY DEF CommitOther, CommitLeft
<1>2. /\ edit' \in Requests /\ \A b \in Admins : b # a => edit'[b] = edit[b]
      /\ edit'[a].stage = "committed" /\ edit'[a].wrote = version'
  <2>1. version' \in 0..MaxVersion
    BY <1>t, <1>1, CacheTypes, ConstantFacts
  <2> QED BY <1>t, <1>1, <2>1, ConstantFacts DEF CacheTypeOK, Requests, Idle, Rows
<1>3. /\ Cardinality(Pending') \in Nat /\ version' + Cardinality(Pending') <= MaxVersion
  <2>1. a \notin Pending
    BY <1>1 DEF Pending
  <2>2. edit'[a].stage \notin {"locking", "merging"}
    BY <1>2
  <2>3. Cardinality(Pending') \in Nat /\ Cardinality(Pending') = Cardinality(Pending)
    BY <1>t, <1>2, <2>1, <2>2, PendingMoves
  <2>4. version \in Nat
    BY <1>t, CacheTypes
  <2> QED BY <1>1, <2>3, <2>4, ConstantFacts
<1>4. LockHeld'
  BY <1>t, <1>1, <1>2, ConstantFacts DEF LockHeld
<1>5. RowEndsTrail' /\ TrailIsComplete'
  BY <1>t, <1>1 DEF RowEndsTrail, TrailEnd, TrailIsComplete
<1>6. /\ rule' \in SUBSET Rows /\ Cardinality(rule') <= 1 /\ rowLock' \in Admins \cup {Nobody}
      /\ trail' \in Seq(Rows \X Rows) /\ version' \in Nat /\ version <= version'
      /\ edit'[a].wrote <= version'
  <2>1. version \in Nat /\ Cardinality({}) = 0
    BY <1>t, CacheTypes, FS_EmptySet
  <2>2. rule \in SUBSET Rows /\ Cardinality(rule) <= 1 /\ rowLock \in Admins \cup {Nobody}
        /\ trail \in Seq(Rows \X Rows)
    BY <1>t DEF CacheTypeOK
  <2>3. rule' \in SUBSET Rows /\ Cardinality(rule') <= 1
    <3>1. CASE rule' = rule
      BY <2>2, <3>1
    <3>2. CASE rule' = {}
      BY <2>1, <3>2
    <3> QED BY <1>1, <3>1, <3>2
  <2>4. version' \in Nat /\ version <= version' /\ edit'[a].wrote <= version'
    BY <1>1, <1>2, <2>1
  <2> QED BY <1>1, <2>2, <2>3, <2>4
<1> QED BY <1>1, <1>2, <1>3, <1>4, <1>5, <1>6, RequestMoves

\* A write by nobody of this process is a version more.
LEMMA ForeignWriteInv == CacheInv /\ ForeignWrite => CacheInv'
<1> SUFFICES ASSUME CacheInv, ForeignWrite PROVE CacheInv'
  OBVIOUS
<1>t. CacheTypeOK /\ VersionsOK /\ ChainOK
  BY DEF CacheInv
<1>1. /\ version + Cardinality(Pending) < MaxVersion /\ version' = version + 1
      /\ UNCHANGED <<rule, rowLock, trail, edit, loads, served, failures, loadFailures, burst,
                     informed, age, wait, pause>>
  BY DEF ForeignWrite, CommitLeft, loadVars, clockVars
<1>2. CacheTypeOK'
  <2>1. version' \in 1..MaxVersion
    BY <1>t, <1>1, CacheTypes, ConstantFacts
  <2> QED BY <1>t, <1>1, <2>1 DEF CacheTypeOK
<1>3. VersionsOK'
  <2>1. Pending' = Pending
    BY <1>1 DEF Pending
  <2> QED BY <1>t, <1>1, <2>1, CacheTypes, ConstantFacts DEF VersionsOK
<1>4. ChainOK'
  BY <1>t, <1>1, CacheTypes DEF ChainOK
<1>5. LockHeld' /\ RowEndsTrail' /\ TrailIsComplete' /\ RetriesOK' /\ OutageIsQuiet'
  BY <1>1 DEF CacheInv, LockHeld, RowEndsTrail, TrailEnd, TrailIsComplete, RetriesOK, Reading,
              OutageIsQuiet
<1> QED BY <1>2, <1>3, <1>4, <1>5 DEF CacheInv

LEMMA ReloadAfterWriteInv ==
    ASSUME NEW a \in Admins PROVE CacheInv /\ ReloadAfterWrite(a) => CacheInv'
<1> SUFFICES ASSUME CacheInv, ReloadAfterWrite(a) PROVE CacheInv'
  OBVIOUS
<1> USE ConstantFacts DEF tableVars, clockVars
<1> DEFINE e == [by |-> a, saw |-> Unread]
           L == Len(loads)
<1>t. CacheTypeOK /\ VersionsOK /\ ChainOK /\ LockHeld
  BY DEF CacheInv
<1>1. /\ edit[a].stage = "committed"
      /\ loads' = Append(loads, e) /\ e \in Load /\ loads \in Seq(Load)
      /\ edit' = [edit EXCEPT ![a].stage = "reloading"]
      /\ UNCHANGED <<rule, version, rowLock, trail, served, age, wait, pause, failures,
                     loadFailures, informed, burst>>
  BY <1>t, CacheTypes DEF ReloadAfterWrite, EnqueueLoad, Load
<1>2. /\ L \in Nat /\ DOMAIN loads = 1..L /\ DOMAIN loads' = 1..(L + 1)
      /\ loads' \in Seq(Load) /\ loads'[L + 1] = e
      /\ \A i \in 1..L : loads'[i] = loads[i]
  <2> HIDE DEF e, Load
  <2> QED BY <1>1, QueueAppend
<1>3. /\ edit' \in Requests /\ \A b \in Admins : b # a => edit'[b] = edit[b]
      /\ edit'[a].stage = "reloading" /\ edit'[a].wrote = edit[a].wrote
      /\ edit'[a].before = edit[a].before
  BY <1>t, <1>1 DEF CacheTypeOK, Requests
<1>4. CacheTypeOK'
  <2>1. loads' \in Seq([by : Admins \cup {Reader}, saw : 0..MaxVersion])
    BY <1>2 DEF Load
  <2> QED BY <1>t, <1>1, <1>3, <2>1 DEF CacheTypeOK, Requests
<1>5. LockHeld'
  BY <1>t, <1>1, <1>3 DEF LockHeld
<1>6. VersionsOK'
  <2>1. Pending' = Pending
    BY <1>1, <1>3 DEF Pending
  <2> QED BY <1>t, <1>1, <1>3, <2>1 DEF VersionsOK
<1>7. RowEndsTrail' /\ TrailIsComplete' /\ OutageIsQuiet'
  BY <1>1 DEF CacheInv, RowEndsTrail, TrailEnd, TrailIsComplete, OutageIsQuiet
<1>8. e.by = a /\ e.saw = Unread /\ a # Reader
  OBVIOUS
<1> HIDE DEF e, L
<1>9. \A i \in 1..L : loads[i].by # a /\ (loads[i].by # Reader => loads[i].by \in Admins)
  BY <1>t, <1>1, <1>2, CacheTypes DEF ChainOK
<1>10. ChainOK'
  <2> SUFFICES ASSUME NEW i \in 1..(L + 1)
               PROVE  /\ i > 1 => loads'[i].saw = Unread /\ loads'[i].by # Reader
                      /\ loads'[i].by # Reader => edit'[loads'[i].by].stage = "reloading"
                      /\ \A j \in 1..(L + 1) : loads'[i].by = loads'[j].by => i = j
                      /\ loads'[i].saw # Unread =>
                           /\ served <= loads'[i].saw /\ loads'[i].saw <= version
                           /\ loads'[i].by # Reader => edit'[loads'[i].by].wrote <= loads'[i].saw
    BY <1>1, <1>2 DEF ChainOK
  <2>1. \A j \in 1..(L + 1) : j \in 1..L \/ j = L + 1
    BY <1>2
  <2>2. CASE i \in 1..L
    <3>1. loads'[i] = loads[i] /\ i \in DOMAIN loads
      BY <1>2, <2>2
    <3>2. \A j \in 1..(L + 1) : loads'[i].by = loads'[j].by => i = j
      BY <1>t, <1>2, <1>8, <1>9, <2>1, <2>2 DEF ChainOK
    <3> QED BY <1>t, <1>3, <1>9, <2>2, <3>1, <3>2 DEF ChainOK
  <2>3. CASE i = L + 1
    <3>1. \A j \in 1..(L + 1) : loads'[i].by = loads'[j].by => i = j
      BY <1>2, <1>8, <1>9, <2>1, <2>3
    <3> QED BY <1>2, <1>3, <1>8, <2>3, <3>1
  <2> QED BY <2>1, <2>2, <2>3
<1>11. RetriesOK'
  <2>1. Reading' <=> Reading
    BY <1>2, <1>8 DEF Reading
  <2> QED BY <1>1, <2>1 DEF CacheInv, RetriesOK
<1> QED BY <1>4, <1>5, <1>6, <1>7, <1>10, <1>11 DEF CacheInv

-----------------------------------------------------------------------------
LEMMA CacheStep == CacheInv /\ [CacheNext]_cacheVars => CacheInv'
<1> SUFFICES ASSUME CacheInv, [CacheNext]_cacheVars PROVE CacheInv'
  OBVIOUS
<1>1. CASE ReadStarts \/ LoadReads \/ LoadPublishes \/ LoadFails
  BY <1>1, ReadStartsInv, LoadReadsInv, LoadPublishesInv, LoadFailsInv
<1>2. ASSUME NEW a \in Admins, AdminStep(a) PROVE CacheInv'
  BY <1>2, BeginUpdateInv, LockRowInv, RefuseUpdateInv, CommitUpdateInv, CommitOtherInv,
     UpdateFailsInv, ReloadAfterWriteInv DEF AdminStep
<1>3. CASE ForeignWrite \/ CacheTick
  BY <1>3, ForeignWriteInv, CacheTickInv
<1>4. CASE UNCHANGED cacheVars
  <2> USE <1>4 DEF cacheVars
  <2>1. CacheTypeOK' /\ LockHeld' /\ RowEndsTrail' /\ VersionsOK'
    BY DEF CacheInv, CacheTypeOK, LockHeld, RowEndsTrail, TrailEnd, VersionsOK, Pending
  <2>2. ChainOK' /\ RetriesOK' /\ TrailIsComplete' /\ OutageIsQuiet'
    BY DEF CacheInv, ChainOK, RetriesOK, Reading, TrailIsComplete, OutageIsQuiet
  <2> QED BY <2>1, <2>2 DEF CacheInv
<1> QED BY <1>1, <1>2, <1>3, <1>4 DEF CacheNext

\* Every reachable state satisfies the inductive invariant.
THEOREM CacheInductive == CacheSpec => []CacheInv
<1> QED BY CacheInitInv, CacheStep, PTL DEF CacheSpec

\* The variables keep their types.
THEOREM CacheTypeCorrect == CacheSpec => []CacheTypeOK
<1>1. CacheInv => CacheTypeOK
  BY DEF CacheInv
<1> QED BY <1>1, CacheInductive, PTL

\* No edit is lost between two administrators, and an outage is met quietly.
THEOREM CacheSafetyCorrect == CacheSpec => []CacheSafety
<1>1. CacheInv => CacheSafety
  BY DEF CacheInv, CacheSafety
<1> QED BY <1>1, CacheInductive, PTL

\* Every step of the cache is a write or a publication of the register, or leaves it as
\* it is: readers never go back, and whoever was answered finds his version in force.
THEOREM CacheIsFreshRegister == CacheSpec => InForceWhenAnswered
<1>1. CacheInit => Register!RegisterInit
  BY DEF CacheInit, Register!RegisterInit
<1>2. CacheInv /\ [CacheNext]_cacheVars
        => [Register!Write \/ Register!Publish]_<<version, served, informed>>
  <2> SUFFICES ASSUME CacheInv, [CacheNext]_cacheVars
               PROVE  \/ Register!Write \/ Register!Publish
                      \/ UNCHANGED <<version, served, informed>>
    OBVIOUS
  <2>1. CASE LoadPublishes
    BY <2>1, PublishesInOrder DEF Register!Publish
  <2>2. CASE ReadStarts \/ LoadReads \/ LoadFails \/ CacheTick
    BY <2>2 DEF ReadStarts, LoadReads, LoadFails, CacheTick, tableVars, loadVars
  <2>3. ASSUME NEW a \in Admins, CommitUpdate(a) \/ CommitOther(a)
        PROVE  Register!Write
    BY <2>3 DEF CommitUpdate, CommitOther, loadVars, Register!Write
  <2>4. CASE ForeignWrite
    BY <2>4 DEF ForeignWrite, loadVars, Register!Write
  <2>5. ASSUME NEW a \in Admins,
               \/ \E patch \in Patches : BeginUpdate(a, patch)
               \/ LockRow(a) \/ RefuseUpdate(a) \/ UpdateFails(a) \/ ReloadAfterWrite(a)
        PROVE  UNCHANGED <<version, served, informed>>
    BY <2>5 DEF BeginUpdate, LockRow, RefuseUpdate, UpdateFails, ReloadAfterWrite, tableVars,
                loadVars
  <2>6. CASE UNCHANGED cacheVars
    BY <2>6 DEF cacheVars
  <2> QED BY <2>1, <2>2, <2>3, <2>4, <2>5, <2>6 DEF CacheNext, AdminStep
<1> QED BY <1>1, <1>2, CacheInductive, PTL
        DEF CacheSpec, InForceWhenAnswered, Register!RegisterSpec, Register!registerVars

-----------------------------------------------------------------------------
(* The flow collector *)

LEMMA ChainFacts ==
    ASSUME FlowTypeOK
    PROVE  /\ Len(chain) \in Nat /\ DOMAIN chain = 1..Len(chain)
           /\ \A i \in DOMAIN chain : chain[i] \in Clients
           /\ chain # <<>> <=> Len(chain) >= 1
           /\ chain # <<>> => Head(chain) = chain[1] /\ Head(chain) \in Clients
<1>1. chain \in Seq(Clients)
  BY DEF FlowTypeOK
<1> QED BY <1>1

\* What the chain becomes at its end, and what is left of it when its first one ends.
LEMMA ChainUpdates ==
    ASSUME NEW C, NEW q \in Seq(C), NEW c \in C
    PROVE  /\ Append(q, c) \in Seq(C) /\ Len(Append(q, c)) = Len(q) + 1 /\ Append(q, c) # <<>>
           /\ \A i \in 1..Len(q) : Append(q, c)[i] = q[i]
           /\ Append(q, c)[Len(q) + 1] = c
           /\ Head(Append(q, c)) = IF q = <<>> THEN c ELSE Head(q)
           /\ q # <<>> => /\ Tail(q) \in Seq(C) /\ Len(Tail(q)) = Len(q) - 1
                          /\ \A i \in 1..(Len(q) - 1) : Tail(q)[i] = q[i + 1]
<1>1. /\ Append(q, c) \in Seq(C) /\ Len(Append(q, c)) = Len(q) + 1 /\ Append(q, c) # <<>>
      /\ \A i \in 1..Len(q) : Append(q, c)[i] = q[i]
      /\ Append(q, c)[Len(q) + 1] = c
  OBVIOUS
<1>2. Head(Append(q, c)) = IF q = <<>> THEN c ELSE Head(q)
  OBVIOUS
<1>3. q # <<>> => /\ Tail(q) \in Seq(C) /\ Len(Tail(q)) = Len(q) - 1
                  /\ \A i \in 1..(Len(q) - 1) : Tail(q)[i] = q[i + 1]
  OBVIOUS
<1> QED BY <1>1, <1>2, <1>3

Request == [stage : {"idle", "saving", "reading", "read", "rebinding", "recovering", "recovery"},
            before : FlowSettings, body : PutBodies, saw : FlowSettings, wrote : BOOLEAN]
Unbound == \A s \in Starts : binding[s] = Closed

LEMMA QuietFacts == Quiet \in Request /\ Quiet.stage = "idle" /\ Defaults \in FlowSettings
<1>1. Defaults \in FlowSettings
  BY FlowAssumption DEF Defaults, FlowSettings
<1>2. <<>> \in PutBodies
  BY DEF PutBodies
<1>3. Quiet.stage = "idle"
  BY DEF Quiet
<1> HIDE DEF Defaults, PutBodies
<1>4. Quiet \in Request
  BY <1>1, <1>2 DEF Quiet, Request
<1> QED BY <1>1, <1>3, <1>4

LEMMA PatchedType ==
    ASSUME NEW s \in FlowSettings, NEW b \in PutBodies
    PROVE  Patched(s, b) \in FlowSettings
<1>1. s.enabled \in BOOLEAN /\ s.at \in Bindings /\ DOMAIN s = {"enabled", "at"}
  BY DEF FlowSettings
<1>2. /\ "enabled" \in DOMAIN b => b["enabled"] \in BOOLEAN
      /\ "at" \in DOMAIN b => b["at"] \in Bindings
  BY DEF PutBodies
<1>3. Patched(s, b) = [f \in {"enabled", "at"} |-> IF f \in DOMAIN b THEN b[f] ELSE s[f]]
  BY <1>1 DEF Patched
<1>4. Patched(s, b) = [enabled |-> Patched(s, b)["enabled"], at |-> Patched(s, b)["at"]]
  BY <1>3
<1>5. Patched(s, b)["enabled"] \in BOOLEAN /\ Patched(s, b)["at"] \in Bindings
  BY <1>1, <1>2, <1>3
<1> HIDE DEF Patched
<1> QED BY <1>4, <1>5 DEF FlowSettings

\* Nothing is bound unless the first of the chain binds it.
LEMMA BoundFacts ==
    ASSUME FlowTypeOK, RestartsOK
    PROVE  /\ chain = <<>> => Unbound /\ stopping = {}
           /\ stopping # {} => Unbound
           /\ \A c \in Clients : binding[c] # Closed => /\ chain # <<>> /\ c = Head(chain)
                                                        /\ stopping = {} /\ socket = Closed
                                                        /\ \A s \in Starts : s # c => binding[s] = Closed
           /\ \A c \in stopping : /\ c \in Clients /\ chain # <<>> /\ c = Head(chain)
                                  /\ stopping = {c} /\ socket = Closed
<1> USE DEF Starts
<1>1. stopping \subseteq Clients
  BY DEF FlowTypeOK
<1> QED BY <1>1 DEF RestartsOK, Unbound

\* The first of the chain ends.
LEMMA LinkEnds ==
    ASSUME FlowTypeOK, RestartsOK, NEW c \in Clients, chain # <<>>, c = Head(chain),
           NEW left \in Bindings \cup {Closed}, EndLink(c, left), Unbound'
    PROVE  /\ chain' \in Seq(Clients) /\ stopping' \subseteq Clients
           /\ socket' \in Bindings \cup {Closed} /\ request' \in [Clients -> Request]
           /\ request' = [request EXCEPT ![c] = Quiet]
           /\ chain' = <<>> => socket' = left
           /\ RestartsOK'
<1>1. /\ chain' = Tail(chain) /\ request' = [request EXCEPT ![c] = Quiet]
      /\ chain' = <<>> => stopping' = stopping \ {c} /\ socket' = left
      /\ chain' # <<>> => stopping' = (stopping \ {c}) \cup {Head(chain')} /\ socket' = Closed
  BY DEF EndLink
<1>2. /\ chain \in Seq(Clients) /\ request \in [Clients -> Request] /\ stopping \subseteq {c}
  BY BoundFacts DEF FlowTypeOK, Request
<1>3. /\ chain' \in Seq(Clients) /\ Len(chain') = Len(chain) - 1 /\ Len(chain) \in Nat
      /\ \A i \in 1..(Len(chain) - 1) : chain'[i] = chain[i + 1]
      /\ DOMAIN chain = 1..Len(chain) /\ chain[1] = c /\ Len(chain) >= 1
  BY <1>1, <1>2, ChainUpdates, ChainFacts
<1>4. /\ DOMAIN chain' = 1..(Len(chain) - 1)
      /\ chain' # <<>> => Head(chain') \in Clients
  BY <1>3
<1>5. stopping' \subseteq Clients /\ socket' \in Bindings \cup {Closed}
  BY <1>1, <1>2, <1>4
<1>6. request' \in [Clients -> Request]
  BY <1>1, <1>2, QuietFacts
<1>7. RestartsOK'
  <2>1. \A i \in DOMAIN chain' : i + 1 \in DOMAIN chain /\ i + 1 # 1 /\ chain'[i] = chain[i + 1]
    BY <1>3, <1>4
  <2>2. \A i \in DOMAIN chain' : chain'[i] # c
    BY <1>3, <2>1 DEF RestartsOK
  <2>3. \A i, j \in DOMAIN chain' : chain'[i] = chain'[j] => i = j
    <3>1. ASSUME NEW i \in DOMAIN chain', NEW j \in DOMAIN chain', chain'[i] = chain'[j]
          PROVE  i = j
      <4>1. i + 1 = j + 1
        BY <2>1, <3>1 DEF RestartsOK
      <4> QED BY <1>4, <4>1
    <3> QED BY <3>1
  <2>4. \A i \in DOMAIN chain' : request'[chain'[i]].stage = "rebinding"
    BY <1>1, <1>2, <2>1, <2>2 DEF RestartsOK
  <2>5. \A d \in Clients : d \in stopping' \/ binding'[d] # Closed => chain' # <<>> /\ d = Head(chain')
    BY <1>1, <1>2 DEF Unbound, Starts
  <2>6. \A d \in stopping' : binding'[d] = Closed
    BY <1>5 DEF Unbound, Starts
  <2> QED BY <1>1, <2>3, <2>4, <2>5, <2>6 DEF RestartsOK, Unbound, Starts
<1> QED BY <1>1, <1>3, <1>5, <1>6, <1>7

\* The rest of a route, with whatever settings it has read.
LEMMA ApplyEnds ==
    ASSUME FlowTypeOK, RestartsOK, NEW c \in Clients, request[c].stage \in {"reading", "read"},
           Apply(c), flowCached' \in FlowSettings
    PROVE  /\ chain' \in Seq(Clients) /\ stopping' \subseteq Clients
           /\ socket' \in Bindings \cup {Closed} /\ request' \in [Clients -> Request]
           /\ UNCHANGED <<binding, orphans>>
           /\ RestartsOK' /\ BindOK'
<1>t. /\ chain \in Seq(Clients) /\ request \in [Clients -> Request] /\ stopping \subseteq Clients
      /\ socket \in Bindings \cup {Closed}
      /\ Len(chain) \in Nat /\ DOMAIN chain = 1..Len(chain)
      /\ \A i \in DOMAIN chain : chain[i] \in Clients /\ chain[i] # c
  BY ChainFacts DEF FlowTypeOK, Request, RestartsOK
<1>1. CASE request[c].before # flowCached' \/ Stalled \/ BindingOutOfDate
  <2>1. /\ Restart(c) /\ UNCHANGED <<orphans, binding>>
        /\ request' = [request EXCEPT ![c] = [Quiet EXCEPT !.stage = "rebinding"]]
    BY <1>1 DEF Apply
  <2>2. /\ request' \in [Clients -> Request] /\ request'[c].stage = "rebinding"
        /\ \A d \in Clients : d # c => request'[d] = request[d]
    <3>1. [Quiet EXCEPT !.stage = "rebinding"] \in Request
          /\ [Quiet EXCEPT !.stage = "rebinding"].stage = "rebinding"
      BY QuietFacts DEF Request
    <3> HIDE DEF Request
    <3> QED BY <1>t, <2>1, <3>1
  <2>3. /\ chain' \in Seq(Clients) /\ Len(chain') = Len(chain) + 1 /\ chain' # <<>>
        /\ \A i \in 1..Len(chain) : chain'[i] = chain[i]
        /\ chain'[Len(chain) + 1] = c
        /\ Head(chain') = IF chain = <<>> THEN c ELSE Head(chain)
        /\ DOMAIN chain' = 1..(Len(chain) + 1)
    <3>1. chain' = Append(chain, c)
      BY <2>1 DEF Restart
    <3>2. DOMAIN Append(chain, c) = 1..(Len(chain) + 1)
      BY <1>t
    <3> QED BY <1>t, <3>1, <3>2, ChainUpdates
  <2>4. /\ chain = <<>> => stopping' = {c} /\ socket' = Closed /\ Unbound
        /\ chain # <<>> => stopping' = stopping /\ socket' = socket /\ socket = Closed
    BY <2>1, BoundFacts DEF Restart, RestartsOK
  <2>5. RestartsOK'
    <3>1. \A i \in DOMAIN chain' : \/ i \in 1..Len(chain) /\ chain'[i] = chain[i]
                                   \/ i = Len(chain) + 1 /\ chain'[i] = c
      BY <1>t, <2>3
    <3>2. \A i, j \in DOMAIN chain' : chain'[i] = chain'[j] => i = j
      BY <1>t, <3>1 DEF RestartsOK
    <3>3. \A i \in DOMAIN chain' : request'[chain'[i]].stage = "rebinding"
      BY <1>t, <2>2, <3>1 DEF RestartsOK
    <3>4. /\ chain' # <<>> => socket' = Closed
          /\ \A d \in Clients :
               d \in stopping' \/ binding'[d] # Closed => chain' # <<>> /\ d = Head(chain')
          /\ \A d \in stopping' : binding'[d] = Closed
          /\ binding'["boot"] = Closed
      <4>1. CASE chain = <<>>
        BY <2>1, <2>3, <2>4, <4>1 DEF Unbound, Starts
      <4>2. CASE chain # <<>>
        BY <2>1, <2>3, <2>4, <4>2 DEF RestartsOK
      <4> QED BY <4>1, <4>2
    <3> QED BY <3>2, <3>3, <3>4 DEF RestartsOK
  <2>6. BindOK'
    <3>1. CASE chain = <<>>
      BY <2>1, <2>4, <3>1 DEF BindOK, Unbound, Starts
    <3>2. CASE chain # <<>>
      <4>1. Len(chain) >= 1
        BY <3>2, ChainFacts
      <4> QED BY <1>t, <2>3, <4>1 DEF BindOK
    <3> QED BY <3>1, <3>2
  <2> QED BY <1>t, <2>1, <2>2, <2>3, <2>4, <2>5, <2>6
<1>2. CASE ~(request[c].before # flowCached' \/ Stalled \/ BindingOutOfDate)
  <2>1. UNCHANGED socketVars /\ request' = [request EXCEPT ![c] = Quiet]
    BY <1>2 DEF Apply
  <2>2. RestartsOK'
    <3>1. \A i \in DOMAIN chain : request'[chain[i]] = request[chain[i]]
      BY <1>t, <2>1
    <3> QED BY <2>1, <3>1 DEF RestartsOK, socketVars
  <2>3. BindOK'
    <3>1. CASE chain = <<>>
      BY <2>1, <3>1, BoundFacts DEF BindOK, Unbound, Starts, socketVars
    <3>2. CASE chain # <<>>
      <4>1. ~flowCached'.enabled
        BY <1>2, <2>1, <3>2 DEF Stalled, RestartsOK, socketVars
      <4> QED BY <4>1 DEF BindOK
    <3> QED BY <3>1, <3>2
  <2>4. request' \in [Clients -> Request]
    BY <1>t, <2>1, QuietFacts
  <2> QED BY <1>t, <2>1, <2>2, <2>3, <2>4 DEF socketVars
<1> QED BY <1>1, <1>2

LEMMA FlowInitInv == ~BootMayOverlap /\ FlowInit => FlowInv
<1> SUFFICES ASSUME ~BootMayOverlap, FlowInit PROVE FlowInv
  OBVIOUS
<1> USE FlowAssumption DEF FlowInit
<1>1. FlowTypeOK
  <2>1. /\ flowCached \in FlowSettings /\ flowCached.at \in Bindings
    BY QuietFacts DEF FlowSettings
  <2>2. /\ socket \in Bindings \cup {Closed}
        /\ binding = [s \in Starts |-> Closed]
    BY <2>1
  <2>3. request \in [Clients -> Request] /\ chain \in Seq(Clients) /\ stopping \subseteq Clients
    BY QuietFacts
  <2>4. bounds \in Nat \X Nat \X Nat
    BY DEF bounds
  <2> QED BY <2>1, <2>2, <2>3, <2>4 DEF FlowTypeOK, Request
<1>2. chain = <<>> /\ stopping = {} /\ \A s \in Starts : binding[s] = Closed
  OBVIOUS
<1>3. RestartsOK /\ BindOK /\ OneSocket
  BY <1>2 DEF RestartsOK, BindOK, OneSocket, Starts
<1> QED BY <1>1, <1>3 DEF FlowInv

\* A step that leaves the socket alone: the request changes, or what is stored.
LEMMA RequestInv ==
    ASSUME FlowInv, UNCHANGED <<socketVars, flowCached>>, recovered' \in {recovered, TRUE},
           flowRow' \in FlowSettings, stale' \in BOOLEAN, bounds' \in Nat \X Nat \X Nat,
           NEW c \in Clients, NEW r \in Request, request' = [request EXCEPT ![c] = r],
           request[c].stage # "rebinding"
    PROVE  FlowInv'
<1> USE DEF FlowInv, socketVars
<1>1. FlowTypeOK'
  BY DEF FlowTypeOK, Request
<1>2. RestartsOK'
  <2>1. \A i \in DOMAIN chain : chain[i] \in Clients /\ chain[i] # c
    BY ChainFacts DEF RestartsOK
  <2>2. \A i \in DOMAIN chain : request'[chain[i]] = request[chain[i]]
    BY <2>1 DEF FlowTypeOK
  <2> QED BY <2>2 DEF RestartsOK
<1>3. BindOK' /\ OneSocket'
  BY DEF BindOK, OneSocket, FlowTypeOK
<1> QED BY <1>1, <1>2, <1>3

LEMMA FlowStep ==
    ASSUME FlowInv, FlowNext
    PROVE  FlowInv'
<1>t. /\ FlowTypeOK /\ RestartsOK /\ BindOK /\ OneSocket
      /\ request \in [Clients -> Request] /\ chain \in Seq(Clients)
      /\ binding \in [Starts -> Bindings \cup {Closed}] /\ orphans = 0
      /\ flowCached \in FlowSettings /\ flowCached.at \in Bindings
      /\ flowRow \in FlowSettings
      /\ puts \in Nat /\ readFailures \in Nat /\ socketErrors \in Nat
  <2>1. puts \in Nat /\ readFailures \in Nat /\ socketErrors \in Nat
    BY DEF FlowInv, FlowTypeOK, bounds
  <2> QED BY <2>1 DEF FlowInv, FlowTypeOK, OneSocket, Request, FlowSettings
<1>b. ASSUME bounds' = bounds \/ /\ puts' \in {puts, puts + 1}
                                 /\ readFailures' \in {readFailures, readFailures + 1}
                                 /\ socketErrors' \in {socketErrors, socketErrors + 1}
      PROVE  bounds' \in Nat \X Nat \X Nat
  BY <1>b, <1>t DEF bounds
<1>1. CASE SocketError
  <2>1. FlowTypeOK'
    BY <1>1, <1>b, <1>t DEF SocketError, FlowTypeOK, settingsVars
  <2>2. RestartsOK' /\ BindOK' /\ OneSocket'
    BY <1>1, <1>t DEF SocketError, RestartsOK, BindOK, OneSocket, settingsVars
  <2> QED BY <2>1, <2>2 DEF FlowInv
\* A link of the chain that ends, with nothing bound any more.
<1>e. ASSUME NEW c \in Clients, chain # <<>>, c = Head(chain), NEW left \in Bindings \cup {Closed},
             EndLink(c, left), binding' \in [Starts -> Bindings \cup {Closed}], Unbound',
             UNCHANGED <<settingsVars, orphans>>, bounds' \in Nat \X Nat \X Nat
      PROVE  FlowInv'
  <2>1. /\ chain' \in Seq(Clients) /\ stopping' \subseteq Clients
        /\ socket' \in Bindings \cup {Closed} /\ request' \in [Clients -> Request] /\ RestartsOK'
    BY <1>e, <1>t, LinkEnds
  <2>2. FlowTypeOK'
    BY <1>e, <1>t, <2>1 DEF FlowTypeOK, Request, settingsVars
  <2>3. BindOK' /\ OneSocket'
    BY <1>e, <1>t DEF BindOK, OneSocket, Unbound, Starts
  <2> QED BY <2>1, <2>2, <2>3 DEF FlowInv
<1>2. ASSUME NEW s \in Starts, BindSucceeds(s) \/ BindFails(s) PROVE FlowInv'
  <2>1. /\ s \in Clients /\ binding[s] # Closed /\ chain # <<>> /\ s = Head(chain)
        /\ socket = Closed /\ \A d \in Starts : d # s => binding[d] = Closed
    BY <1>2, <1>t, BoundFacts DEF BindSucceeds, BindFails, RestartsOK, Starts
  <2>2. /\ binding' = [binding EXCEPT ![s] = Closed] /\ UNCHANGED <<settingsVars, orphans>>
        /\ bounds' \in Nat \X Nat \X Nat
        /\ EndLink(s, binding[s]) \/ EndLink(s, Closed)
    BY <1>2, <1>b, <1>t, <2>1 DEF BindSucceeds, BindFails, EndStart, OneSocket
  <2>3. binding' \in [Starts -> Bindings \cup {Closed}] /\ Unbound'
    BY <1>t, <2>1, <2>2 DEF Unbound
  <2> QED BY <1>e, <1>t, <2>1, <2>2, <2>3
<1>3. ASSUME NEW c \in Clients, StopEnds(c) PROVE FlowInv'
  <2>1. /\ c \in stopping /\ chain # <<>> /\ c = Head(chain) /\ stopping = {c}
        /\ socket = Closed /\ Unbound /\ UNCHANGED <<settingsVars, orphans, bounds>>
    BY <1>3, <1>t, BoundFacts DEF StopEnds
  <2>2. CASE flowCached.enabled
    <3>1. /\ binding' = [binding EXCEPT ![c] = flowCached.at] /\ stopping' = {}
          /\ UNCHANGED <<socket, chain, request>>
      BY <1>3, <2>1, <2>2 DEF StopEnds, StartAs
    <3>2. FlowTypeOK'
      BY <1>t, <1>b, <2>1, <3>1 DEF FlowTypeOK, settingsVars, Starts
    <3>3. /\ \A d \in Clients : d # c => binding'[d] = Closed
          /\ binding'[c] = flowCached.at /\ binding'["boot"] = Closed
      BY <1>t, <2>1, <3>1, FlowAssumption DEF Unbound, Starts
    <3>4. RestartsOK' /\ BindOK' /\ OneSocket'
      BY <1>t, <2>1, <3>1, <3>3 DEF RestartsOK, BindOK, OneSocket, settingsVars
    <3> QED BY <3>2, <3>4 DEF FlowInv
  <2>3. CASE ~flowCached.enabled
    <3>1. EndLink(c, Closed) /\ binding' = binding
      BY <1>3, <2>1, <2>3 DEF StopEnds
    <3>2. bounds' \in Nat \X Nat \X Nat
      BY <1>b, <2>1
    <3>3. Unbound' /\ binding' \in [Starts -> Bindings \cup {Closed}]
      BY <1>t, <2>1, <3>1 DEF Unbound
    <3> QED BY <1>e, <2>1, <3>1, <3>2, <3>3
  <2> QED BY <2>2, <2>3
<1>4. ASSUME NEW c \in Clients, NEW body \in PutBodies, BeginPut(c, body) PROVE FlowInv'
  <2> DEFINE r == [Quiet EXCEPT !.stage = "saving", !.body = body, !.before = flowCached]
  <2>1. r \in Request
    BY <1>t, QuietFacts DEF Request
  <2> HIDE DEF r
  <2>2. /\ request' = [request EXCEPT ![c] = r] /\ request[c].stage # "rebinding"
        /\ UNCHANGED <<settingsVars, socketVars>> /\ bounds' \in Nat \X Nat \X Nat
    BY <1>4, <1>b, <1>t DEF BeginPut, r
  <2> QED BY <1>t, <2>1, <2>2, RequestInv DEF settingsVars, FlowTypeOK
<1>5. ASSUME NEW c \in Clients, SaveCommits(c) PROVE FlowInv'
  <2> DEFINE saved == Patched(flowRow, request[c].body)
             r == [request[c] EXCEPT !.stage = "reading", !.wrote = (saved # flowRow)]
  <2>1. saved \in FlowSettings
    BY <1>t, PatchedType DEF Request
  <2>2. flowRow' = saved /\ request[c].stage = "saving"
        /\ request' = [request EXCEPT ![c] = r]
        /\ UNCHANGED <<flowCached, stale, recovered, socketVars, bounds>>
    BY <1>5, <1>t DEF SaveCommits
  <2> HIDE DEF saved
  <2>3. r \in Request
    BY <1>t DEF Request
  <2> HIDE DEF r
  <2>4. bounds' \in Nat \X Nat \X Nat /\ stale' \in BOOLEAN
    BY <1>b, <1>t, <2>2 DEF FlowTypeOK
  <2> QED BY <2>1, <2>2, <2>3, <2>4, RequestInv
<1>6. ASSUME NEW c \in Clients, RowIsRead(c) PROVE FlowInv'
  <2> DEFINE r == [request[c] EXCEPT !.saw = flowRow,
                     !.stage = IF request[c].stage = "reading" THEN "read" ELSE "recovery"]
  <2>1. r \in Request
    BY <1>t DEF Request
  <2>2. /\ request' = [request EXCEPT ![c] = r] /\ request[c].stage # "rebinding"
        /\ UNCHANGED <<settingsVars, socketVars, bounds>>
    BY <1>6, <1>t DEF RowIsRead
  <2> HIDE DEF r
  <2>3. bounds' \in Nat \X Nat \X Nat /\ stale' \in BOOLEAN
    BY <1>b, <1>t, <2>2 DEF FlowTypeOK, settingsVars
  <2> QED BY <1>t, <2>1, <2>2, <2>3, RequestInv DEF settingsVars
\* A save that has read, or could not and did not write.
<1>a. ASSUME NEW c \in Clients, request[c].stage \in {"reading", "read"}, Apply(c),
             flowCached' \in FlowSettings, flowRow' = flowRow, stale' \in BOOLEAN,
             recovered' \in BOOLEAN, bounds' \in Nat \X Nat \X Nat
      PROVE  FlowInv'
  <2>1. /\ chain' \in Seq(Clients) /\ stopping' \subseteq Clients
        /\ socket' \in Bindings \cup {Closed} /\ request' \in [Clients -> Request]
        /\ UNCHANGED <<binding, orphans>> /\ RestartsOK' /\ BindOK'
    BY <1>a, <1>t, ApplyEnds
  <2>2. FlowTypeOK' /\ OneSocket'
    BY <1>a, <1>t, <2>1 DEF FlowTypeOK, Request, OneSocket
  <2> QED BY <2>1, <2>2 DEF FlowInv
<1>7. ASSUME NEW c \in Clients, RereadSucceeds(c) PROVE FlowInv'
  <2>1. flowCached' \in FlowSettings
    BY <1>7, <1>t DEF RereadSucceeds, Request
  <2> QED BY <1>7, <1>a, <1>b, <2>1 DEF RereadSucceeds
<1>8. ASSUME NEW c \in Clients, RereadFails(c) PROVE FlowInv'
  <2>1. /\ bounds' \in Nat \X Nat \X Nat /\ UNCHANGED <<flowRow, flowCached>> /\ stale' = TRUE
        /\ request[c].stage \in {"reading", "read"}
    BY <1>8, <1>b DEF RereadFails
  <2>2. CASE request[c].wrote
    <3>1. request' = [request EXCEPT ![c] = Quiet] /\ UNCHANGED <<socketVars, recovered>>
      BY <1>8, <2>2 DEF RereadFails
    <3> QED BY <1>t, <2>1, <3>1, QuietFacts, RequestInv
  <2>3. CASE ~request[c].wrote
    <3>1. Apply(c) /\ recovered' = FALSE
      BY <1>8, <2>3 DEF RereadFails
    <3> QED BY <1>a, <1>t, <2>1, <3>1
  <2> QED BY <2>2, <2>3
<1>9. ASSUME NEW c \in Clients, BeginRecovery(c) \/ RecoverySucceeds(c) \/ RecoveryFails(c)
      PROVE  FlowInv'
  <2>1. CASE BeginRecovery(c)
    <3> DEFINE r == [request[c] EXCEPT !.stage = "recovering"]
    <3>1. r \in Request
      BY <1>t DEF Request
    <3>2. /\ request' = [request EXCEPT ![c] = r] /\ request[c].stage # "rebinding"
          /\ UNCHANGED <<settingsVars, socketVars>> /\ bounds' \in Nat \X Nat \X Nat
      BY <1>b, <1>t, <2>1 DEF BeginRecovery
    <3> HIDE DEF r
    <3> QED BY <1>t, <3>1, <3>2, RequestInv DEF settingsVars, FlowTypeOK
  <2>2. CASE RecoveryFails(c)
    <3>1. /\ request' = [request EXCEPT ![c] = Quiet] /\ request[c].stage # "rebinding"
          /\ UNCHANGED <<settingsVars, socketVars>> /\ bounds' \in Nat \X Nat \X Nat
      BY <1>b, <1>t, <2>2 DEF RecoveryFails
    <3> QED BY <1>t, <3>1, QuietFacts, RequestInv DEF settingsVars, FlowTypeOK
  <2>3. CASE RecoverySucceeds(c)
    <3>1. /\ request' = [request EXCEPT ![c] = Quiet] /\ request[c].stage = "recovery"
          /\ UNCHANGED <<flowRow, socketVars, bounds>>
          /\ flowCached' = request[c].saw /\ stale' = FALSE /\ recovered' = TRUE
      BY <2>3 DEF RecoverySucceeds
    <3>2. request' \in [Clients -> Request] /\ flowCached' \in FlowSettings
          /\ bounds' \in Nat \X Nat \X Nat
      <4>1. flowCached' \in FlowSettings
        BY <1>t, <3>1 DEF Request
      <4> QED BY <1>b, <1>t, <3>1, <4>1, QuietFacts
    <3>3. FlowTypeOK'
      BY <1>t, <3>1, <3>2 DEF FlowTypeOK, Request, socketVars
    <3>4. \A i \in DOMAIN chain : request'[chain[i]] = request[chain[i]]
      <4>1. \A i \in DOMAIN chain : chain[i] \in Clients /\ chain[i] # c
        BY <1>t, <3>1, ChainFacts DEF RestartsOK
      <4> QED BY <1>t, <3>1, <4>1
    <3>5. RestartsOK' /\ BindOK' /\ OneSocket'
      BY <1>t, <3>1, <3>4 DEF RestartsOK, BindOK, OneSocket, socketVars
    <3> QED BY <3>3, <3>5 DEF FlowInv
  <2> QED BY <1>9, <2>1, <2>2, <2>3
<1> QED BY <1>1, <1>2, <1>3, <1>4, <1>5, <1>6, <1>7, <1>8, <1>9 DEF FlowNext, ClientStep

\* Every reachable state satisfies the invariant, if no request is served before boot's
\* bind has ended.
THEOREM FlowInductive ==
    ASSUME ~BootMayOverlap
    PROVE  FlowSpec => []FlowInv
<1>1. FlowInit => FlowInv
  BY FlowInitInv
<1>2. FlowInv /\ [FlowNext]_flowVars => FlowInv'
  <2>1. CASE FlowNext
    BY <2>1, FlowStep
  <2>2. CASE UNCHANGED flowVars
    BY <2>2 DEF flowVars, FlowInv, FlowTypeOK, RestartsOK, BindOK, OneSocket, bounds
  <2> QED BY <2>1, <2>2
<1> QED BY <1>1, <1>2, PTL DEF FlowSpec

\* No restart leaves a socket behind, however saves, recoveries, failed binds and socket
\* errors overlap, if no request is answered before boot's own first bind has ended.  The
\* process does not enforce that: index.ts listens before it starts the collector.
THEOREM OneSocketCorrect ==
    ASSUME ~BootMayOverlap
    PROVE  FlowSpec => []OneSocket
<1>1. FlowInv => OneSocket
  BY DEF FlowInv
<1> QED BY <1>1, FlowInductive, PTL

\* A step that answers a save, when nothing else goes on.
LEMMA SaveAnswered ==
    ASSUME FlowInv, [FlowNext]_flowVars, PutAnswered, Calm', ~recovered', flowCached'.enabled
    PROVE  socket' = flowCached'.at
           \/ (socket' = Closed /\ \E c \in Clients : binding[c] # Closed)
<1>t. /\ FlowTypeOK /\ RestartsOK /\ BindOK /\ chain' = <<>> /\ request \in [Clients -> Request]
      /\ binding \in [Starts -> Bindings \cup {Closed}]
  BY DEF FlowInv, FlowTypeOK, Request, Calm
<1>p. PICK p \in Clients :
        /\ \/ request[p].stage = "rebinding"
           \/ request[p].stage \in {"reading", "read"} /\ (~stale' \/ ~request[p].wrote)
        /\ request'[p].stage = "idle"
  BY DEF PutAnswered
<1>1. request'[p] # request[p]
  BY <1>p
\* The only way out of the chain is to be the last link of it.
<1>2. ASSUME NEW c \in Clients, chain # <<>>, c = Head(chain), NEW left, EndLink(c, left)
      PROVE  socket' = left /\ Len(chain) = 1
  <2>1. chain' = Tail(chain) /\ socket' = left
    BY <1>2, <1>t DEF EndLink
  <2>2. Len(chain) \in Nat /\ Len(chain) >= 1 /\ chain \in Seq(Clients)
    BY <1>2, <1>t, ChainFacts DEF FlowTypeOK
  <2>3. Len(chain') = Len(chain) - 1
    BY <1>2, <2>1, <2>2, ChainUpdates
  <2>4. Len(chain') = 0
    BY <1>t
  <2> QED BY <2>1, <2>2, <2>3, <2>4
<1>3. ASSUME NEW c \in Clients, Apply(c) PROVE socket' = flowCached'.at
  <2>1. ~Restart(c)
    <3>1. Append(chain, c) # <<>>
      BY <1>t, <1>3, ChainUpdates DEF FlowTypeOK
    <3> QED BY <1>t, <3>1 DEF Restart
  <2>2. ~Stalled /\ ~BindingOutOfDate /\ UNCHANGED socketVars
    BY <1>3, <2>1 DEF Apply
  <2> QED BY <2>2 DEF Stalled, BindingOutOfDate, socketVars
<1>4. CASE SocketError \/ UNCHANGED flowVars
  BY <1>1, <1>4 DEF SocketError, flowVars
<1>5. ASSUME NEW s \in Starts, BindSucceeds(s) \/ BindFails(s)
      PROVE  socket' = flowCached'.at
             \/ (socket' = Closed /\ \E c \in Clients : binding[c] # Closed)
  <2>1. /\ s \in Clients /\ binding[s] # Closed /\ chain # <<>> /\ s = Head(chain)
        /\ socket = Closed
    BY <1>5, <1>t, BoundFacts DEF BindSucceeds, BindFails, RestartsOK, Starts
  <2>2. UNCHANGED settingsVars
    BY <1>5 DEF BindSucceeds, BindFails
  <2>3. CASE BindSucceeds(s)
    <3>1. EndLink(s, binding[s])
      BY <2>1, <2>3 DEF BindSucceeds, EndStart
    <3>2. socket' = binding[s] /\ Len(chain) = 1
      BY <1>2, <2>1, <3>1
    <3> QED BY <1>t, <2>1, <2>2, <3>2 DEF BindOK, settingsVars
  <2>4. CASE BindFails(s)
    <3>1. EndLink(s, Closed)
      BY <2>1, <2>4 DEF BindFails, EndStart
    <3> QED BY <1>2, <2>1, <3>1
  <2> QED BY <1>5, <2>3, <2>4
<1>6. ASSUME NEW c \in Clients, StopEnds(c) PROVE FALSE
  <2>1. socket = Closed /\ flowCached' = flowCached
    BY <1>6, <1>t, BoundFacts DEF StopEnds, settingsVars
  <2>2. request' = request
    BY <1>6, <2>1 DEF StopEnds
  <2> QED BY <1>1, <2>2
<1>7. ASSUME NEW c \in Clients, ClientStep(c) PROVE Apply(c)
  <2>1. p = c
    <3>1. CASE p # c
      <4>1. \/ \E r : request' = [request EXCEPT ![c] = r]
            \/ Apply(c)
        BY <1>7 DEF ClientStep, BeginPut, SaveCommits, RowIsRead, RereadSucceeds, RereadFails,
                    BeginRecovery, RecoverySucceeds, RecoveryFails
      <4>2. \E r : request' = [request EXCEPT ![c] = r]
        BY <4>1 DEF Apply
      <4> QED BY <1>1, <1>t, <3>1, <4>2
    <3> QED BY <3>1
  <2>2. RereadSucceeds(c) \/ RereadFails(c)
    <3>1. request[c].stage \in {"rebinding", "reading", "read"} /\ request'[c].stage = "idle"
      BY <1>p, <2>1
    <3>2. ~BeginRecovery(c) /\ ~RecoverySucceeds(c) /\ ~RecoveryFails(c) /\ ~SaveCommits(c)
          /\ ~\E body \in PutBodies : BeginPut(c, body)
      BY <3>1 DEF BeginPut, SaveCommits, BeginRecovery, RecoverySucceeds, RecoveryFails
    <3>3. ~RowIsRead(c)
      BY <1>t, <3>1 DEF RowIsRead, Request
    <3> QED BY <1>7, <3>2, <3>3 DEF ClientStep
  <2>3. CASE RereadSucceeds(c)
    BY <2>3 DEF RereadSucceeds
  <2>4. CASE RereadFails(c)
    BY <1>p, <2>1, <2>4 DEF RereadFails
  <2> QED BY <2>2, <2>3, <2>4
<1> QED BY <1>3, <1>4, <1>5, <1>6, <1>7 DEF FlowNext

\* A save that has been answered with nothing else going on has put the collector where the
\* settings say, or its own bind has just failed; if no request is answered before boot's
\* own first bind has ended, which index.ts leaves open, since it listens before.
THEOREM SaveSettlesCorrect ==
    ASSUME ~BootMayOverlap
    PROVE  FlowSpec => SaveSettles
<1>1. FlowInv /\ [FlowNext]_flowVars =>
        (PutAnswered /\ Calm' /\ ~recovered' /\ flowCached'.enabled =>
           socket' = flowCached'.at
           \/ (socket' = Closed /\ \E c \in Clients : binding[c] # Closed))
  BY SaveAnswered
<1>2. FlowInv /\ [FlowNext]_flowVars =>
        [PutAnswered /\ Calm' /\ ~recovered' /\ flowCached'.enabled =>
           socket' = flowCached'.at
           \/ (socket' = Closed /\ \E c \in Clients : binding[c] # Closed)]_flowVars
  BY <1>1
<1> QED BY <1>2, FlowInductive, PTL DEF FlowSpec, SaveSettles

-----------------------------------------------------------------------------
(* The delivery channels *)

LEMMA ChannelInitInv == ChannelInit => ChannelInv
<1> SUFFICES ASSUME ChannelInit PROVE ChannelInv
  OBVIOUS
<1> USE ChannelAssumption DEF ChannelInit, Channels
<1>1. ChannelTypeOK
  <2>1. /\ stage \in {"posting", "sending"} /\ wire \in {"none", "opening", "open"}
        /\ unsent \subseteq 1..lines
    OBVIOUS
  <2>2. attempt \in 1..MaxAttempts /\ taken \in 0..MaxAttempts
    OBVIOUS
  <2>3. failure \in BOOLEAN /\ written \subseteq 1..lines /\ lines \in 0..MaxLines
    OBVIOUS
  <2>4. result \in {"none", "ok", "failed"} /\ last \in {"none"} /\ channel \in Channels
    OBVIOUS
  <2> QED BY <2>1, <2>2, <2>3, <2>4 DEF ChannelTypeOK, TcpStates, PostAnswers
<1>2. WebhookOK /\ UdpOK /\ TcpOK
  BY DEF WebhookOK, UdpOK, TcpOK
<1>3. ResultsAreHonest
  BY DEF ResultsAreHonest
<1> QED BY <1>1, <1>2, <1>3 DEF ChannelInv

\* A webhook's step.
LEMMA WebhookInv ==
    ASSUME ChannelInv, (\E answer \in PostAnswers \ {"none"} : PostEnds(answer)) \/ SleepEnds
    PROVE  ChannelInv'
<1> USE ChannelAssumption DEF ChannelInv, Channels
<1>0. channel = "webhook" /\ UNCHANGED <<channel, lines, unsent, wire, failure, written>>
  BY DEF PostEnds, SleepEnds, ChannelTypeOK, WebhookOK, UdpOK, TcpOK
<1>1. ASSUME NEW answer \in PostAnswers \ {"none"}, PostEnds(answer) PROVE ChannelInv'
  <2>1. /\ stage = "posting" /\ result = "none" /\ taken < attempt /\ attempt \in 1..MaxAttempts
        /\ taken \in Nat /\ taken' \in {taken, taken + 1} /\ attempt' = attempt /\ last' = answer
        /\ answer = "taken" => taken' = taken + 1
    BY <1>0, <1>1 DEF PostEnds, ChannelTypeOK, WebhookOK, ResultsAreHonest
  <2>2. CASE answer = "taken"
    <3>1. stage' = "done" /\ result' = "ok"
      BY <1>1, <2>2 DEF PostEnds
    <3> QED BY <1>0, <2>1, <2>2, <3>1
            DEF ChannelTypeOK, WebhookOK, UdpOK, TcpOK, ResultsAreHonest, PostAnswers
  <2>3. CASE answer # "taken" /\ TriesAgain(answer)
    <3>1. stage' = "sleeping" /\ result' = "none" /\ attempt < MaxAttempts
      BY <1>1, <2>1, <2>3 DEF PostEnds, TriesAgain
    <3> QED BY <1>0, <2>1, <2>3, <3>1
            DEF ChannelTypeOK, WebhookOK, UdpOK, TcpOK, ResultsAreHonest, PostAnswers
  <2>4. CASE answer # "taken" /\ ~TriesAgain(answer)
    <3>1. stage' = "done" /\ result' = "failed" /\ (answer = "refused" \/ attempt = MaxAttempts)
      BY <1>1, <2>1, <2>4 DEF PostEnds, TriesAgain, WorthRetrying, PostAnswers
    <3> QED BY <1>0, <2>1, <2>4, <3>1
            DEF ChannelTypeOK, WebhookOK, UdpOK, TcpOK, ResultsAreHonest, PostAnswers
  <2> QED BY <2>2, <2>3, <2>4
<1>2. CASE SleepEnds
  <2>1. /\ attempt' = attempt + 1 /\ attempt < MaxAttempts /\ attempt \in 1..MaxAttempts
        /\ stage' = "posting" /\ result' = "none" /\ result = "none" /\ taken' = taken
        /\ last' = last /\ taken \in Nat /\ taken <= attempt
    BY <1>0, <1>2 DEF SleepEnds, ChannelTypeOK, WebhookOK, ResultsAreHonest
  <2> QED BY <1>0, <2>1
          DEF ChannelTypeOK, WebhookOK, UdpOK, TcpOK, ResultsAreHonest, PostAnswers
<1> QED BY <1>1, <1>2

\* A step of a syslog send over UDP.
LEMMA DatagramsInv ==
    ASSUME ChannelInv,
           NoLines \/ UdpError \/ \E line \in unsent, sent \in BOOLEAN : DatagramEnds(line, sent)
    PROVE  ChannelInv'
<1> USE ChannelAssumption DEF ChannelInv, Channels
<1>0. /\ channel = "udp" /\ UNCHANGED <<channel, lines, attempt, failure, taken, last>>
      /\ stage \in {"sending", "done"} /\ wire \in {"open", "closed"}
      /\ stage = "sending" => written = (1..lines) \ unsent
      /\ stage = "sending" <=> result = "none"
      /\ result \in {"none", "ok", "failed"} /\ (result = "ok" => written = 1..lines)
      /\ written \subseteq 1..lines /\ unsent \subseteq 1..lines /\ taken <= attempt
  BY DEF NoLines, UdpError, DatagramEnds, ChannelTypeOK, WebhookOK, UdpOK, TcpOK,
         ResultsAreHonest
<1> DEFINE Post == /\ written' \subseteq 1..lines /\ unsent' \subseteq 1..lines
                   /\ stage' \in {"sending", "done"} /\ wire' \in {"open", "closed"}
                   /\ stage' = "sending" => written' = (1..lines) \ unsent'
                   /\ stage' = "sending" <=> result' = "none"
                   /\ result' \in {"none", "ok", "failed"}
                   /\ result' = "ok" => written' = 1..lines
<1>1. Post
  <2>1. CASE NoLines
    BY <1>0, <2>1 DEF NoLines, Finish, ChannelTypeOK
  <2>2. CASE UdpError
    BY <1>0, <2>2 DEF UdpError, Finish
  <2>3. ASSUME NEW line \in unsent, DatagramEnds(line, FALSE)
        PROVE  Post
    BY <1>0, <2>3 DEF DatagramEnds, Finish
  <2>4. ASSUME NEW line \in unsent, DatagramEnds(line, TRUE)
        PROVE  Post
    BY <1>0, <2>4 DEF DatagramEnds, Finish
  <2>5. ASSUME NEW line \in unsent, NEW sent \in BOOLEAN, DatagramEnds(line, sent)
        PROVE  Post
    <3>1. sent = TRUE \/ sent = FALSE
      OBVIOUS
    <3> QED BY <2>3, <2>4, <2>5, <3>1
  <2> HIDE DEF Post
  <2> QED BY <2>1, <2>2, <2>5
<1> QED BY <1>0, <1>1 DEF ChannelTypeOK, WebhookOK, UdpOK, TcpOK, ResultsAreHonest, TcpStates

\* A step of a syslog send over TCP.
LEMMA StreamInv ==
    ASSUME ChannelInv,
           \/ Connected \/ TcpError \/ PeerCloses \/ DestroyEnds \/ ChannelSettles
           \/ \E sent \in BOOLEAN : WriteEnds(sent)
    PROVE  ChannelInv'
<1> USE ChannelAssumption DEF ChannelInv, Channels
<1>0. channel = "tcp" /\ UNCHANGED <<channel, lines, attempt, unsent, taken, last>>
  BY DEF Connected, TcpError, PeerCloses, DestroyEnds, ChannelSettles, WriteEnds,
         ChannelTypeOK, WebhookOK, UdpOK
<1>1. ChannelTypeOK'
  BY <1>0 DEF Connected, TcpError, PeerCloses, DestroyEnds, ChannelSettles, WriteEnds, Fail,
              ChannelTypeOK, TcpStates
<1>2. TcpOK' /\ ResultsAreHonest'
  <2>1. CASE Connected \/ TcpError \/ PeerCloses
    BY <1>0, <2>1 DEF Connected, TcpError, PeerCloses, Fail, TcpOK, ResultsAreHonest,
                      ChannelTypeOK
  <2>2. CASE DestroyEnds
    BY <1>0, <2>2 DEF DestroyEnds, TcpOK, ResultsAreHonest, ChannelTypeOK
  <2>3. CASE ChannelSettles
    BY <1>0, <2>3 DEF ChannelSettles, HasClosed, TcpOK, ResultsAreHonest, ChannelTypeOK
  <2>4. ASSUME NEW sent \in BOOLEAN, WriteEnds(sent) PROVE TcpOK' /\ ResultsAreHonest'
    BY <1>0, <2>4 DEF WriteEnds, Fail, TcpOK, ResultsAreHonest, ChannelTypeOK
  <2> QED BY <2>1, <2>2, <2>3, <2>4
<1>3. WebhookOK' /\ UdpOK'
  BY <1>0 DEF WebhookOK, UdpOK
<1> QED BY <1>1, <1>2, <1>3

\* Every reachable state of a send satisfies its invariant.
THEOREM ChannelInductive == ChannelSpec => []ChannelInv
<1>1. ChannelInv /\ [ChannelNext]_channelVars => ChannelInv'
  <2> SUFFICES ASSUME ChannelInv, [ChannelNext]_channelVars PROVE ChannelInv'
    OBVIOUS
  <2>1. CASE ChannelNext
    BY <2>1, WebhookInv, DatagramsInv, StreamInv DEF ChannelNext
  <2>2. CASE UNCHANGED channelVars
    BY <2>2 DEF channelVars, ChannelInv, ChannelTypeOK, WebhookOK, UdpOK, TcpOK,
                ResultsAreHonest
  <2> QED BY <2>1, <2>2
<1> QED BY <1>1, ChannelInitInv, PTL DEF ChannelSpec

\* What the notifier is told of a send is what became of it, for every number of lines and
\* attempts, in whatever order answers, errors and callbacks come.
THEOREM ResultsCorrect == ChannelSpec => []ResultsAreHonest
<1>1. ChannelInv => ResultsAreHonest
  BY DEF ChannelInv
<1> QED BY <1>1, ChannelInductive, PTL

-----------------------------------------------------------------------------
(* The capture lifecycle *)

USE DEF NoSession, Sessions, SessionOrNone, Reasons, BootSteps, StopSteps

LEMMA InitIndInv == Init => IndInv
<1> SUFFICES ASSUME Init PROVE IndInv OBVIOUS
<1> USE ConstantsAssumption DEF Init, NoCall
<1>1. TypeOK
  <2>1. call \in [Calls -> [pc : StopSteps, reason : Reasons, was : BOOLEAN,
                            sess : SessionOrNone, pend : SessionOrNone,
                            target : SessionOrNone]]
    OBVIOUS
  <2>2. nextSession \in 1..(MaxSessions + 1) OBVIOUS
  <2>3. {} \subseteq Sessions /\ 0 \in SessionOrNone OBVIOUS
  <2> QED BY <2>1, <2>2, <2>3 DEF TypeOK
<1>2. OlderThanFrontier BY DEF OlderThanFrontier, Frontier
<1>3. AttachedTogether BY DEF AttachedTogether
<1>4. StopsConsistent BY DEF StopsConsistent
<1>5. WritesAccounted /\ AckedIsOver BY DEF WritesAccounted, AckedIsOver
<1>6. NoticeMeansIdle /\ OneStopPerCapture BY DEF NoticeMeansIdle, OneStopPerCapture
<1>7. AckedStopStaysClosed /\ ClosedRowExplained
  BY DEF AckedStopStaysClosed, ClosedRowExplained
<1> QED BY <1>1, <1>2, <1>3, <1>4, <1>5, <1>6, <1>7 DEF IndInv

LEMMA StartRequestInd == IndInv /\ StartRequest => IndInv'
<1> SUFFICES ASSUME IndInv, StartRequest PROVE IndInv' OBVIOUS
<1> USE ConstantsAssumption DEF IndInv, StartRequest, ClaimAndOpen, CanClaim, bootVars, dbVars
<1>1. TypeOK' BY DEF TypeOK
<1>2. OlderThanFrontier' BY DEF OlderThanFrontier, Frontier, TypeOK
<1>3. AttachedTogether'
  <2>1. session = 0 /\ openHandles = {} BY DEF AttachedTogether
  <2>2. openHandles' = {session', startInFlight'} \ {0} BY <2>1 DEF TypeOK
  <2> QED BY <2>1, <2>2 DEF AttachedTogether
<1>4. StopsConsistent' BY DEF StopsConsistent
<1>5. WritesAccounted' /\ AckedIsOver' BY DEF WritesAccounted, AckedIsOver
<1>6. NoticeMeansIdle' /\ OneStopPerCapture' BY DEF NoticeMeansIdle, OneStopPerCapture
<1>7. AckedStopStaysClosed' /\ ClosedRowExplained'
  BY DEF AckedStopStaysClosed, ClosedRowExplained
<1> QED BY <1>1, <1>2, <1>3, <1>4, <1>5, <1>6, <1>7

LEMMA OpenFinishInd == IndInv /\ OpenFinish => IndInv'
<1> SUFFICES ASSUME IndInv, OpenFinish PROVE IndInv' OBVIOUS
<1> USE ConstantsAssumption DEF IndInv, OpenFinish, ClearNotice, ReleaseStart
<1>1. TypeOK' BY DEF TypeOK
<1>2. OlderThanFrontier' BY DEF OlderThanFrontier, Frontier, TypeOK
<1>3. AttachedTogether' BY DEF AttachedTogether, TypeOK
<1>4. StopsConsistent'
  BY DEF StopsConsistent, OlderThanFrontier, Frontier, TypeOK
<1>5. WritesAccounted' BY DEF WritesAccounted, AttachedTogether, AckedIsOver
<1>6. AckedIsOver' BY DEF AckedIsOver, OlderThanFrontier, Frontier, TypeOK
<1>7. NoticeMeansIdle' /\ OneStopPerCapture' BY DEF NoticeMeansIdle, OneStopPerCapture
<1>8. AckedStopStaysClosed' /\ ClosedRowExplained'
  BY DEF AckedStopStaysClosed, ClosedRowExplained
<1>9. boot' = "stamping" => found' \in reported' OBVIOUS
<1> QED BY <1>1, <1>2, <1>3, <1>4, <1>5, <1>6, <1>7, <1>8, <1>9

LEMMA InsertCommitInd ==
    ASSUME IndInv, NEW n \in Sessions, InsertCommit(n)
    PROVE  IndInv'
<1> USE ConstantsAssumption DEF IndInv, InsertCommit, StatementFails, bootVars
<1>1. TypeOK'
  <2>1. rowSession' \in SessionOrNone BY DEF TypeOK
  <2>3. rowOpen' \in BOOLEAN BY Zenon DEF TypeOK
  <2>2. dbFailures' \in Nat /\ writes' \subseteq Sessions BY DEF TypeOK
  <2> QED BY <2>1, <2>2, <2>3 DEF TypeOK
<1>2. OlderThanFrontier' BY DEF OlderThanFrontier, Frontier, TypeOK
<1>3. AttachedTogether' BY DEF AttachedTogether
<1>4. StopsConsistent' BY DEF StopsConsistent
<1>5. WritesAccounted' /\ AckedIsOver' BY DEF WritesAccounted, AckedIsOver
<1>6. NoticeMeansIdle' /\ OneStopPerCapture' BY DEF NoticeMeansIdle, OneStopPerCapture
<1>7. AckedStopStaysClosed' /\ ClosedRowExplained'
  BY DEF AckedStopStaysClosed, ClosedRowExplained, AckedIsOver
<1> QED BY <1>1, <1>2, <1>3, <1>4, <1>5, <1>6, <1>7

\* What the synchronous teardown of a stop preserves, whoever calls it: nothing
\* else changes in the same step, and no start that it targets is still opening.
LEMMA DetachInd ==
    ASSUME IndInv, NEW c \in Calls, NEW reason \in Reasons,
           NEW target \in SessionOrNone,
           Detach(c, reason, target),
           call[c].pc \in {"idle", "waitStart"},
           target < Frontier \/ target = NoSession,
           up' = up, boot' = boot, found' = found, shuttingDown' \in BOOLEAN,
           UNCHANGED <<startInFlight, sessionWrite, interrupted,
                       dbVars, nextSession, crashes, dbFailures, acked, reported>>
    PROVE  IndInv'
<1> USE ConstantsAssumption DEF IndInv, Detach, GiveUp, dbVars
<1> DEFINE stop == [pc |-> "waitWrite", reason |-> reason, was |-> capturing,
                    sess |-> session, pend |-> sessionWrite, target |-> target]
<1>a. call' = [call EXCEPT ![c] = stop] OBVIOUS
<1>b. /\ call'[c] = stop
      /\ \A d \in Calls \ {c} : call'[d] = call[d]
  BY <1>a DEF TypeOK
<1>c. stop \in [pc : StopSteps, reason : Reasons, was : BOOLEAN,
                sess : SessionOrNone, pend : SessionOrNone, target : SessionOrNone]
  BY DEF TypeOK
<1>d. /\ call'[c].was = capturing /\ call'[c].sess = session
      /\ call'[c].pend = sessionWrite /\ call'[c].target = target
      /\ call'[c].pc = "waitWrite"
  BY <1>b
<1> HIDE DEF Detach, stop
<1>0. /\ handle' = 0 /\ openHandles' = openHandles \ {handle}
      /\ session' = 0 /\ capturing' = FALSE /\ detection' = 0
  BY DEF Detach
<1>1. TypeOK'
  <2>1. call' \in [Calls -> [pc : StopSteps, reason : Reasons, was : BOOLEAN,
                             sess : SessionOrNone, pend : SessionOrNone,
                             target : SessionOrNone]]
    BY <1>a, <1>c DEF TypeOK
  <2>2. openHandles' \subseteq Sessions BY <1>0 DEF TypeOK
  <2>3. /\ up' \in BOOLEAN /\ capturing' \in BOOLEAN
        /\ rowOpen' \in BOOLEAN
    BY <1>0, Zenon DEF TypeOK
  <2>4. handle' \in SessionOrNone /\ detection' \in SessionOrNone /\ session' \in SessionOrNone
    BY <1>0
  <2> QED BY <2>1, <2>2, <2>3, <2>4 DEF TypeOK
<1>2. OlderThanFrontier' BY <1>b, <1>d, <1>0 DEF OlderThanFrontier, Frontier, TypeOK
<1>3. AttachedTogether' BY <1>0 DEF AttachedTogether
<1>4. StopsConsistent' BY <1>b, <1>d, <1>0 DEF StopsConsistent, AttachedTogether, TypeOK
<1>5. WritesAccounted' BY <1>b, <1>d, <1>0 DEF WritesAccounted, AttachedTogether, AckedIsOver
<1>6. AckedIsOver' BY <1>0 DEF AckedIsOver, TypeOK
<1>7. NoticeMeansIdle' BY <1>0 DEF NoticeMeansIdle
<1>8. OneStopPerCapture'
  <2>1. call'[c].was => session # 0 BY <1>d DEF AttachedTogether
  <2>2. ASSUME NEW d \in Calls \ {c} PROVE call'[d] = call[d] /\ call'[d].was => call'[d].sess # session
    BY <1>b DEF StopsConsistent
  <2> QED BY <2>1, <2>2, <1>b, <1>d DEF OneStopPerCapture
<1>9. AckedStopStaysClosed' /\ ClosedRowExplained'
  BY DEF AckedStopStaysClosed, ClosedRowExplained
<1> QED BY <1>1, <1>2, <1>3, <1>4, <1>5, <1>6, <1>7, <1>8, <1>9

LEMMA StopEnterInd ==
    ASSUME IndInv, NEW c \in Calls, NEW reason \in Reasons, StopEnter(c, reason)
    PROVE  IndInv'
<1> USE ConstantsAssumption DEF IndInv, StopEnter, dbVars
<1>1. CASE StartToAwait # NoSession
  <2> USE <1>1 DEF StartToAwait, CaptureToStop
  <2> DEFINE stop == [pc |-> "waitStart", reason |-> reason, was |-> FALSE,
                      sess |-> 0, pend |-> 0, target |-> startInFlight]
  <2>a. call' = [call EXCEPT ![c] = stop] OBVIOUS
  <2>b. /\ stop.was = FALSE /\ stop.sess = 0 /\ stop.pend = 0
        /\ stop.target = startInFlight /\ stop.pc = "waitStart"
    OBVIOUS
  <2>e. stop \in [pc : StopSteps, reason : Reasons, was : BOOLEAN,
                  sess : SessionOrNone, pend : SessionOrNone, target : SessionOrNone]
    BY DEF TypeOK
  <2> HIDE DEF stop
  <2>c. /\ call'[c] = stop
        /\ \A d \in Calls \ {c} : call'[d] = call[d]
    BY <2>a DEF TypeOK
  <2>d. /\ call'[c].was = FALSE /\ call'[c].sess = 0 /\ call'[c].pend = 0
        /\ call'[c].target = startInFlight /\ call'[c].pc = "waitStart"
    BY <2>b, <2>c
  <2>f. UNCHANGED <<handle, openHandles, session, capturing, detection>> OBVIOUS
  <2>1. TypeOK'
    <3>1. call' \in [Calls -> [pc : StopSteps, reason : Reasons, was : BOOLEAN,
                               sess : SessionOrNone, pend : SessionOrNone,
                               target : SessionOrNone]]
      BY <2>a, <2>e DEF TypeOK
    <3>2. shuttingDown' \in BOOLEAN BY DEF TypeOK
    <3> QED BY <3>1, <3>2, <2>f DEF TypeOK
  <2>2. OlderThanFrontier'
    BY <2>c, <2>d, <2>f DEF OlderThanFrontier, Frontier, TypeOK
  <2>3. AttachedTogether' BY DEF AttachedTogether
  <2>4. StopsConsistent' BY <2>c, <2>d, <2>f DEF StopsConsistent
  <2>5. WritesAccounted' BY <2>c, <2>f DEF WritesAccounted
  <2>6. AckedIsOver' BY DEF AckedIsOver
  <2>7. NoticeMeansIdle' BY DEF NoticeMeansIdle
  <2>8. OneStopPerCapture' BY <2>c, <2>d DEF OneStopPerCapture
  <2>9. AckedStopStaysClosed' /\ ClosedRowExplained'
    BY DEF AckedStopStaysClosed, ClosedRowExplained
  <2> QED BY <2>1, <2>2, <2>3, <2>4, <2>5, <2>6, <2>7, <2>8, <2>9
<1>2. CASE StartToAwait = NoSession
  <2> USE <1>2 DEF StartToAwait, CaptureToStop
  <2>1. Detach(c, reason, session) OBVIOUS
  <2>2. session < Frontier /\ session \in SessionOrNone
    BY DEF OlderThanFrontier, TypeOK
  <2>3. shuttingDown' \in BOOLEAN BY DEF TypeOK
  <2> QED BY <2>1, <2>2, <2>3, DetachInd
<1> QED BY <1>1, <1>2

LEMMA StopAfterStartInd ==
    ASSUME IndInv, NEW c \in Calls, StopAfterStart(c)
    PROVE  IndInv'
<1> USE ConstantsAssumption DEF StopAfterStart, bootVars
<1>1. Detach(c, call[c].reason, call[c].target) OBVIOUS
<1>2. call[c].reason \in Reasons /\ call[c].target \in SessionOrNone
  BY DEF IndInv, TypeOK
<1>3. call[c].target < Frontier
  BY <1>2 DEF IndInv, OlderThanFrontier, Frontier, TypeOK
<1>4. shuttingDown' \in BOOLEAN BY DEF IndInv, TypeOK
<1> QED BY <1>1, <1>2, <1>3, <1>4, DetachInd

CallRecords == [Calls -> [pc : StopSteps, reason : Reasons, was : BOOLEAN,
                          sess : SessionOrNone, pend : SessionOrNone,
                          target : SessionOrNone]]

\* The step takes stop c to pc and changes nothing of what any stop carries.
MovesOn(c, pc) ==
    /\ call' \in CallRecords
    /\ call'[c].pc = pc
    /\ \A d \in Calls : /\ d # c => call'[d].pc = call[d].pc
                        /\ call'[d].reason = call[d].reason
                        /\ call'[d].was = call[d].was
                        /\ call'[d].sess = call[d].sess
                        /\ call'[d].pend = call[d].pend
                        /\ call'[d].target = call[d].target

LEMMA CallStep ==
    ASSUME IndInv, NEW c \in Calls, NEW pc \in StopSteps,
           call' = [call EXCEPT ![c].pc = pc]
    PROVE  MovesOn(c, pc)
<1> QED BY DEF IndInv, TypeOK, MovesOn, CallRecords

LEMMA StopAfterWriteInd ==
    ASSUME IndInv, NEW c \in Calls, StopAfterWrite(c)
    PROVE  IndInv'
<1> DEFINE pc == IF StampsRow(call[c]) THEN "stamping" ELSE "closing"
<1> USE DEF IndInv, MovesOn, CallRecords, StopAfterWrite, Retire, ShowsNotice, bootVars, dbVars
<1>a. pc \in StopSteps /\ call' = [call EXCEPT ![c].pc = pc]
  OBVIOUS
<1>b. pc = "stamping" => call[c].was /\ call[c].reason = "operator"
  BY DEF StampsRow
<1> HIDE DEF pc
<1>c. MovesOn(c, pc) BY <1>a, CallStep
<1>d. /\ call[c].pc = "waitWrite" /\ call[c].pend \notin writes
      /\ pc \in {"stamping", "closing"}
  BY DEF pc
<1>1. TypeOK'
  <2>1. sessionWrite' \in SessionOrNone BY ConstantsAssumption DEF TypeOK
  <2>2. call[c].sess \in SessionOrNone BY DEF TypeOK
  <2>3. interrupted' \in SessionOrNone /\ reported' \subseteq Sessions
    BY <2>2 DEF TypeOK
  <2> QED BY <2>1, <2>3, <1>c DEF TypeOK
<1>2. OlderThanFrontier' BY <1>c, <1>d DEF OlderThanFrontier, Frontier, TypeOK
<1>3. AttachedTogether' BY <1>d DEF AttachedTogether, StopsConsistent
<1>4. StopsConsistent' BY <1>b, <1>c, <1>d DEF StopsConsistent
<1>5. WritesAccounted' BY <1>c, <1>d DEF WritesAccounted
<1>6. AckedIsOver' BY DEF AckedIsOver
<1>7. NoticeMeansIdle' BY DEF NoticeMeansIdle
<1>8. OneStopPerCapture' BY <1>c DEF OneStopPerCapture
<1>9. AckedStopStaysClosed' /\ ClosedRowExplained'
  BY DEF AckedStopStaysClosed, ClosedRowExplained
<1>10. (boot = "stamping" => found \in reported)' OBVIOUS
<1> QED BY <1>1, <1>2, <1>3, <1>4, <1>5, <1>6, <1>7, <1>8, <1>9, <1>10

LEMMA StopStampInd ==
    ASSUME IndInv, NEW c \in Calls, StopStamp(c)
    PROVE  IndInv'
<1> USE DEF IndInv, MovesOn, CallRecords, StopStamp, bootVars
<1>a. call' = [call EXCEPT ![c].pc = "closing"] /\ "closing" \in StopSteps OBVIOUS
<1>c. MovesOn(c, "closing") BY <1>a, CallStep
<1>d. /\ call[c].pc = "stamping" /\ call[c].reason = "operator"
      /\ call[c].sess \in Sessions /\ call[c].sess \notin writes
      /\ call[c].sess # session /\ call[c].sess < Frontier
  BY DEF StopsConsistent, TypeOK, OlderThanFrontier
<1>e. CASE /\ rowOpen' = (rowOpen /\ rowSession # call[c].sess)
           /\ acked' = acked \cup {call[c].sess}
           /\ UNCHANGED dbFailures
  <2>1. TypeOK'
    <3>1. rowOpen' \in BOOLEAN BY <1>e, Zenon DEF TypeOK
    <3>2. acked' \subseteq Sessions BY <1>e, <1>d DEF TypeOK
    <3> QED BY <3>1, <3>2, <1>c, <1>e DEF TypeOK
  <2>2. OlderThanFrontier' BY <1>c, <1>d, <1>e DEF OlderThanFrontier, Frontier
  <2>3. AttachedTogether' BY DEF AttachedTogether
  <2>4. StopsConsistent' BY <1>c, <1>d DEF StopsConsistent
  <2>5. WritesAccounted' BY <1>c, <1>d DEF WritesAccounted
  <2>6. AckedIsOver' BY <1>d, <1>e DEF AckedIsOver
  <2>7. NoticeMeansIdle' BY DEF NoticeMeansIdle
  <2>8. OneStopPerCapture' BY <1>c DEF OneStopPerCapture
  <2>9. AckedStopStaysClosed' BY <1>e DEF AckedStopStaysClosed
  <2>10. ClosedRowExplained' BY <1>e DEF ClosedRowExplained
  <2>11. (boot = "stamping" => found \in reported)' OBVIOUS
  <2> QED BY <2>1, <2>2, <2>3, <2>4, <2>5, <2>6, <2>7, <2>8, <2>9, <2>10, <2>11
<1>f. CASE StatementFails /\ UNCHANGED <<rowOpen, acked>>
  <2> USE <1>f DEF StatementFails
  <2>1. TypeOK' BY <1>c DEF TypeOK
  <2>2. OlderThanFrontier' BY <1>c, <1>d DEF OlderThanFrontier, Frontier
  <2>3. AttachedTogether' BY DEF AttachedTogether
  <2>4. StopsConsistent' BY <1>c, <1>d DEF StopsConsistent
  <2>5. WritesAccounted' BY <1>c, <1>d DEF WritesAccounted
  <2>6. AckedIsOver' BY DEF AckedIsOver
  <2>7. NoticeMeansIdle' BY DEF NoticeMeansIdle
  <2>8. OneStopPerCapture' BY <1>c DEF OneStopPerCapture
  <2>9. AckedStopStaysClosed' /\ ClosedRowExplained'
    BY DEF AckedStopStaysClosed, ClosedRowExplained
  <2>10. (boot = "stamping" => found \in reported)' OBVIOUS
  <2> QED BY <2>1, <2>2, <2>3, <2>4, <2>5, <2>6, <2>7, <2>8, <2>9, <2>10
<1> QED BY <1>d, <1>e, <1>f DEF Stamp

LEMMA StopReturnInd ==
    ASSUME IndInv, NEW c \in Calls, StopReturn(c)
    PROVE  IndInv'
<1> USE DEF IndInv, StopReturn, bootVars, dbVars
<1>a. /\ call' = [call EXCEPT ![c] = NoCall] /\ call[c].pc = "closing"
  OBVIOUS
<1>b. NoCall \in [pc : StopSteps, reason : Reasons, was : BOOLEAN,
                  sess : SessionOrNone, pend : SessionOrNone, target : SessionOrNone]
  BY ConstantsAssumption DEF NoCall
<1>c. /\ NoCall.pc = "idle" /\ NoCall.was = FALSE /\ NoCall.sess = 0
      /\ NoCall.pend = 0 /\ NoCall.target = 0
  BY DEF NoCall
<1>d. /\ call'[c] = NoCall
      /\ \A d \in Calls \ {c} : call'[d] = call[d]
  BY <1>a DEF TypeOK
<1>e. nextSession \in Nat /\ startInFlight \in Nat /\ 0 < Frontier
  BY DEF TypeOK, OlderThanFrontier, Frontier
<1>1. TypeOK' BY <1>a, <1>b DEF TypeOK
<1>2. OlderThanFrontier' BY <1>c, <1>d, <1>e DEF OlderThanFrontier, Frontier
<1>3. AttachedTogether' BY DEF AttachedTogether
<1>4. StopsConsistent' BY <1>c, <1>d DEF StopsConsistent
<1>5. WritesAccounted' BY <1>a, <1>d DEF WritesAccounted
<1>6. AckedIsOver' BY DEF AckedIsOver
<1>7. NoticeMeansIdle' BY DEF NoticeMeansIdle
<1>8. OneStopPerCapture' BY <1>c, <1>d DEF OneStopPerCapture
<1>9. AckedStopStaysClosed' /\ ClosedRowExplained'
  BY DEF AckedStopStaysClosed, ClosedRowExplained
<1> QED BY <1>1, <1>2, <1>3, <1>4, <1>5, <1>6, <1>7, <1>8, <1>9

LEMMA BootInd == IndInv /\ Boot => IndInv'
<1> SUFFICES ASSUME IndInv, Boot PROVE IndInv' OBVIOUS
<1> USE ConstantsAssumption DEF IndInv, bootVars, dbVars
<1>1. ASSUME ReportBegin PROVE IndInv'
  <2> USE <1>1 DEF ReportBegin
  <2>1. TypeOK' BY DEF TypeOK
  <2>2. OlderThanFrontier' BY DEF OlderThanFrontier, Frontier
  <2>3. AttachedTogether' /\ StopsConsistent' BY DEF AttachedTogether, StopsConsistent
  <2>4. WritesAccounted' /\ AckedIsOver' BY DEF WritesAccounted, AckedIsOver
  <2>5. NoticeMeansIdle' /\ OneStopPerCapture' BY DEF NoticeMeansIdle, OneStopPerCapture
  <2>6. AckedStopStaysClosed' /\ ClosedRowExplained'
    BY DEF AckedStopStaysClosed, ClosedRowExplained
  <2> QED BY <2>1, <2>2, <2>3, <2>4, <2>5, <2>6
<1>2. ASSUME ReportRead PROVE IndInv'
  <2> USE <1>2 DEF ReportRead, OpenRow, StatementFails
  <2>1. TypeOK' BY DEF TypeOK
  <2>2. OlderThanFrontier' BY DEF OlderThanFrontier, Frontier, TypeOK
  <2>3. AttachedTogether' /\ StopsConsistent' BY DEF AttachedTogether, StopsConsistent
  <2>4. WritesAccounted' /\ AckedIsOver' BY DEF WritesAccounted, AckedIsOver
  <2>5. NoticeMeansIdle' /\ OneStopPerCapture' BY DEF NoticeMeansIdle, OneStopPerCapture
  <2>6. AckedStopStaysClosed' /\ ClosedRowExplained'
    BY DEF AckedStopStaysClosed, ClosedRowExplained
  <2> QED BY <2>1, <2>2, <2>3, <2>4, <2>5, <2>6
<1>3. ASSUME ReportDecide PROVE IndInv'
  <2> USE <1>3 DEF ReportDecide, TakenOver
  <2>1. TypeOK'
    <3>1. boot' \in BootSteps OBVIOUS
    <3>2. found # 0 => found \in Sessions BY DEF TypeOK
    <3>3. interrupted' \in SessionOrNone BY DEF TypeOK
    <3>4. reported' \subseteq Sessions BY <3>2 DEF TypeOK
    <3> QED BY <3>1, <3>3, <3>4 DEF TypeOK
  <2>2. OlderThanFrontier' BY DEF OlderThanFrontier, Frontier
  <2>3. AttachedTogether' /\ StopsConsistent' BY DEF AttachedTogether, StopsConsistent
  <2>4. WritesAccounted' /\ AckedIsOver' BY DEF WritesAccounted, AckedIsOver
  <2>5. NoticeMeansIdle' /\ OneStopPerCapture' BY DEF NoticeMeansIdle, OneStopPerCapture
  <2>6. AckedStopStaysClosed' /\ ClosedRowExplained'
    BY DEF AckedStopStaysClosed, ClosedRowExplained
  <2>7. (boot = "stamping" => found \in reported)' OBVIOUS
  <2> QED BY <2>1, <2>2, <2>3, <2>4, <2>5, <2>6, <2>7
<1>4. ASSUME ReportStamp PROVE IndInv'
  <2> USE <1>4 DEF ReportStamp, StatementFails, Stamp
  <2>1. TypeOK'
    <3>1. rowOpen' \in BOOLEAN BY Zenon DEF TypeOK
    <3>2. dbFailures' \in Nat BY DEF TypeOK
    <3> QED BY <3>1, <3>2 DEF TypeOK
  <2>2. OlderThanFrontier' BY DEF OlderThanFrontier, Frontier
  <2>3. AttachedTogether' /\ StopsConsistent' BY DEF AttachedTogether, StopsConsistent
  <2>4. WritesAccounted' /\ AckedIsOver' BY DEF WritesAccounted, AckedIsOver
  <2>5. NoticeMeansIdle' /\ OneStopPerCapture' BY DEF NoticeMeansIdle, OneStopPerCapture
  <2>6. AckedStopStaysClosed' BY DEF AckedStopStaysClosed
  <2>7. ClosedRowExplained' BY DEF ClosedRowExplained, TypeOK
  <2> QED BY <2>1, <2>2, <2>3, <2>4, <2>5, <2>6, <2>7
<1>5. ASSUME ResumeSkip PROVE IndInv'
  <2> USE <1>5 DEF ResumeSkip
  <2>1. TypeOK' BY DEF TypeOK
  <2>2. OlderThanFrontier' BY DEF OlderThanFrontier, Frontier
  <2>3. AttachedTogether' /\ StopsConsistent' BY DEF AttachedTogether, StopsConsistent
  <2>4. WritesAccounted' /\ AckedIsOver' BY DEF WritesAccounted, AckedIsOver
  <2>5. NoticeMeansIdle' /\ OneStopPerCapture' BY DEF NoticeMeansIdle, OneStopPerCapture
  <2>6. AckedStopStaysClosed' /\ ClosedRowExplained'
    BY DEF AckedStopStaysClosed, ClosedRowExplained
  <2> QED BY <2>1, <2>2, <2>3, <2>4, <2>5, <2>6
<1>6. ASSUME ResumeBegin PROVE IndInv'
  <2> USE <1>6 DEF ResumeBegin
  <2>1. CASE ClaimAndOpen /\ boot' = "resuming"
    <3> USE <2>1 DEF ClaimAndOpen, CanClaim
    <3>1. TypeOK' BY DEF TypeOK
    <3>2. OlderThanFrontier' BY DEF OlderThanFrontier, Frontier, TypeOK
    <3>3. session = 0 /\ openHandles = {} BY DEF AttachedTogether
    <3>4. openHandles' = {session', startInFlight'} \ {0} BY <3>3 DEF TypeOK
    <3>5. AttachedTogether' BY <3>3, <3>4 DEF AttachedTogether
    <3>6. StopsConsistent' BY DEF StopsConsistent
    <3>7. WritesAccounted' /\ AckedIsOver' BY DEF WritesAccounted, AckedIsOver
    <3>8. NoticeMeansIdle' /\ OneStopPerCapture' BY DEF NoticeMeansIdle, OneStopPerCapture
    <3>9. AckedStopStaysClosed' /\ ClosedRowExplained'
      BY DEF AckedStopStaysClosed, ClosedRowExplained
    <3> QED BY <3>1, <3>2, <3>5, <3>6, <3>7, <3>8, <3>9
  <2>2. CASE boot' = "up" /\ UNCHANGED <<startInFlight, openHandles, nextSession>>
    <3> USE <2>2
    <3>1. TypeOK' BY DEF TypeOK
    <3>2. OlderThanFrontier' BY DEF OlderThanFrontier, Frontier
    <3>3. AttachedTogether' /\ StopsConsistent' BY DEF AttachedTogether, StopsConsistent
    <3>4. WritesAccounted' /\ AckedIsOver' BY DEF WritesAccounted, AckedIsOver
    <3>5. NoticeMeansIdle' /\ OneStopPerCapture' BY DEF NoticeMeansIdle, OneStopPerCapture
    <3>6. AckedStopStaysClosed' /\ ClosedRowExplained'
      BY DEF AckedStopStaysClosed, ClosedRowExplained
    <3> QED BY <3>1, <3>2, <3>3, <3>4, <3>5, <3>6
  <2> QED BY <2>1, <2>2
<1> QED BY <1>1, <1>2, <1>3, <1>4, <1>5, <1>6 DEF Boot

LEMMA CrashInd == IndInv /\ Crash => IndInv'
<1> SUFFICES ASSUME IndInv, Crash PROVE IndInv' OBVIOUS
<1> USE ConstantsAssumption DEF IndInv, Crash
<1>a. NoCall \in [pc : StopSteps, reason : Reasons, was : BOOLEAN,
                  sess : SessionOrNone, pend : SessionOrNone, target : SessionOrNone]
  BY DEF NoCall
<1>b. \A c \in Calls : /\ call'[c].pc = "idle" /\ call'[c].was = FALSE
                       /\ call'[c].sess = 0 /\ call'[c].pend = 0
                       /\ call'[c].target = 0
  BY DEF NoCall
<1>1. TypeOK'
  <2>1. call' \in [Calls -> [pc : StopSteps, reason : Reasons, was : BOOLEAN,
                             sess : SessionOrNone, pend : SessionOrNone,
                             target : SessionOrNone]]
    BY <1>a
  <2>2. UNCHANGED <<rowSession, rowOpen, nextSession, dbFailures, acked, reported>>
    OBVIOUS
  <2>3. crashes' \in Nat BY DEF TypeOK
  <2>4. /\ up' = FALSE /\ boot' = "report" /\ found' = 0 /\ shuttingDown' = FALSE
        /\ capturing' = FALSE /\ startInFlight' = 0 /\ handle' = 0
        /\ detection' = 0 /\ session' = 0 /\ sessionWrite' = 0
        /\ interrupted' = 0
        /\ openHandles' = {} /\ writes' = {}
    OBVIOUS
  <2>5. /\ up' \in BOOLEAN /\ shuttingDown' \in BOOLEAN /\ capturing' \in BOOLEAN
        /\ boot' \in BootSteps
    BY <2>4
  <2>6. /\ found' \in SessionOrNone /\ startInFlight' \in SessionOrNone
        /\ handle' \in SessionOrNone /\ detection' \in SessionOrNone
        /\ session' \in SessionOrNone /\ sessionWrite' \in SessionOrNone
        /\ interrupted' \in SessionOrNone
    BY <2>4
  <2>7. openHandles' \subseteq Sessions /\ writes' \subseteq Sessions BY <2>4
  <2> HIDE DEF Crash
  <2> QED BY <2>1, <2>2, <2>3, <2>5, <2>6, <2>7 DEF TypeOK
<1>2. OlderThanFrontier'
  <2>1. /\ startInFlight' = 0 /\ session' = 0 /\ sessionWrite' = 0 /\ found' = 0
        /\ writes' = {}
    OBVIOUS
  <2>2. UNCHANGED <<nextSession, rowSession, acked>> OBVIOUS
  <2>3. nextSession \in Nat /\ nextSession > 0 BY DEF TypeOK
  <2>4. Frontier' = nextSession /\ Frontier <= nextSession
    BY <2>1, <2>2, <2>3 DEF Frontier, OlderThanFrontier, TypeOK
  <2>5. /\ rowSession \in Nat /\ Frontier \in Nat
        /\ \A n \in acked : n \in Nat /\ n < Frontier
        /\ rowSession < Frontier
    BY DEF TypeOK, OlderThanFrontier, Frontier
  <2>6. rowSession < nextSession /\ \A n \in acked : n < nextSession
    BY <2>3, <2>4, <2>5
  <2> HIDE DEF Crash, IndInv
  <2> QED BY <2>1, <2>2, <2>3, <2>4, <2>6, <1>b DEF OlderThanFrontier
<1>3. AttachedTogether' BY DEF AttachedTogether
<1>4. StopsConsistent' BY <1>b DEF StopsConsistent
<1>5. WritesAccounted' /\ AckedIsOver' BY DEF WritesAccounted, AckedIsOver, TypeOK
<1>6. NoticeMeansIdle' /\ OneStopPerCapture'
  BY <1>b DEF NoticeMeansIdle, OneStopPerCapture
<1>7. AckedStopStaysClosed' /\ ClosedRowExplained'
  BY DEF AckedStopStaysClosed, ClosedRowExplained
<1> QED BY <1>1, <1>2, <1>3, <1>4, <1>5, <1>6, <1>7

LEMMA BootUpInd == IndInv /\ BootUp => IndInv'
<1> SUFFICES ASSUME IndInv, BootUp PROVE IndInv' OBVIOUS
<1> USE DEF IndInv, BootUp, dbVars
<1>1. TypeOK' BY DEF TypeOK
<1>2. OlderThanFrontier' BY DEF OlderThanFrontier, Frontier
<1>3. AttachedTogether' /\ StopsConsistent' BY DEF AttachedTogether, StopsConsistent
<1>4. WritesAccounted' /\ AckedIsOver' BY DEF WritesAccounted, AckedIsOver
<1>5. NoticeMeansIdle' /\ OneStopPerCapture' BY DEF NoticeMeansIdle, OneStopPerCapture
<1>6. AckedStopStaysClosed' /\ ClosedRowExplained'
  BY DEF AckedStopStaysClosed, ClosedRowExplained
<1> QED BY <1>1, <1>2, <1>3, <1>4, <1>5, <1>6

LEMMA NextInd == IndInv /\ [Next]_vars => IndInv'
<1> SUFFICES ASSUME IndInv, [Next]_vars PROVE IndInv' OBVIOUS
<1>1. CASE StartRequest BY <1>1, StartRequestInd
<1>2. CASE OpenFinish BY <1>2, OpenFinishInd
<1>3. CASE \E n \in Sessions : InsertCommit(n) BY <1>3, InsertCommitInd
<1>4. CASE \E c \in Calls, reason \in Reasons : StopEnter(c, reason)
  BY <1>4, StopEnterInd
<1>5. CASE \E c \in Calls : Stop(c)
  BY <1>5, StopAfterStartInd, StopAfterWriteInd, StopStampInd, StopReturnInd DEF Stop
<1>6. CASE Boot BY <1>6, BootInd
<1>7. CASE Crash BY <1>7, CrashInd
<1>8. CASE BootUp BY <1>8, BootUpInd
<1>9. CASE UNCHANGED vars
  <2> USE <1>9 DEF vars, IndInv
  <2>1. TypeOK' BY DEF TypeOK
  <2>2. OlderThanFrontier' BY DEF OlderThanFrontier, Frontier
  <2>3. AttachedTogether' /\ StopsConsistent' BY DEF AttachedTogether, StopsConsistent
  <2>4. WritesAccounted' /\ AckedIsOver' BY DEF WritesAccounted, AckedIsOver
  <2>5. NoticeMeansIdle' /\ OneStopPerCapture' BY DEF NoticeMeansIdle, OneStopPerCapture
  <2>6. AckedStopStaysClosed' /\ ClosedRowExplained'
    BY DEF AckedStopStaysClosed, ClosedRowExplained
  <2> QED BY <2>1, <2>2, <2>3, <2>4, <2>5, <2>6
<1> QED BY <1>1, <1>2, <1>3, <1>4, <1>5, <1>6, <1>7, <1>8, <1>9 DEF Next

\* The inductive invariant holds of every behaviour of the service.
THEOREM CaptureInductive == Spec => []IndInv
<1> QED BY InitIndInv, NextInd, PTL DEF Spec

\* Every variable keeps its type.
THEOREM TypeCorrect == Spec => []TypeOK
<1>1. IndInv => TypeOK BY DEF IndInv
<1> QED BY <1>1, CaptureInductive, PTL

\* No interleaving of starts, stops, read errors and boot leaks a pcap handle.
THEOREM HandlesCorrect == Spec => []OneHandle
<1>1. IndInv => OneHandle BY DEF IndInv, AttachedTogether, OneHandle
<1> QED BY <1>1, CaptureInductive, PTL

\* A running capture has the handle, sink, engine and session of its own start.
THEOREM DetectionCorrect == Spec => []DetectionAttached
<1>1. IndInv => DetectionAttached BY DEF IndInv, AttachedTogether, DetectionAttached
<1> QED BY <1>1, CaptureInductive, PTL

\* The interruption notice and a running capture exclude each other.
THEOREM NoticeCorrect == Spec => []NoticeMeansIdle
<1>1. IndInv => NoticeMeansIdle BY DEF IndInv
<1> QED BY <1>1, CaptureInductive, PTL

\* A stop that is past its teardown has ended the capture it was asked to end.
THEOREM StopCorrect == Spec => []StopIsEffective
<1>1. IndInv => StopIsEffective
  BY DEF IndInv, StopIsEffective, StopsConsistent, AttachedTogether,
         OlderThanFrontier, Frontier, TypeOK
<1> QED BY <1>1, CaptureInductive, PTL

\* Each capture is ended by exactly one stop, which can name it.
THEOREM StopsCorrect == Spec => []OneStopPerCapture
<1>1. IndInv => OneStopPerCapture BY DEF IndInv
<1> QED BY <1>1, CaptureInductive, PTL

\* A row that an operator's stop has closed is never open again, in whatever
\* order INSERTs of different captures reach the database.
THEOREM AckedCorrect == Spec => []AckedStopStaysClosed
<1>1. IndInv => AckedStopStaysClosed BY DEF IndInv
<1> QED BY <1>1, CaptureInductive, PTL

\* A closed row belongs to a capture somebody stopped or was told about.
THEOREM ClosedCorrect == Spec => []ClosedRowExplained
<1>1. IndInv => ClosedRowExplained BY DEF IndInv
<1> QED BY <1>1, CaptureInductive, PTL

\* No INSERT is on its way that the stop of its capture could not wait for.
THEOREM WritesCorrect == Spec => []WriteIsAwaitable
<1>1. IndInv => WriteIsAwaitable
  BY DEF IndInv, WriteIsAwaitable, WritesAccounted, AttachedTogether, TypeOK
<1> QED BY <1>1, CaptureInductive, PTL

-----------------------------------------------------------------------------
(***************************************************************************)
(* What the row says of a running capture.  It needs two assumptions about *)
(* the database that the code cannot make true: no statement fails, and    *)
(* INSERTs commit in the order they were sent.  The run CaptureReordered   *)
(* shows that the second one is needed.                                    *)
(***************************************************************************)
RecordInv ==
    /\ session # NoSession /\ session \notin writes => rowSession = session /\ rowOpen
    /\ session # NoSession /\ writes # {} => session \in writes
    /\ session # NoSession => \A n \in writes : n <= session
    /\ boot = "stamping" => found \notin {session, NoSession}

LEMMA RecordNext ==
    ASSUME ~ReorderWrites, MaxDbFailures = 0,
           IndInv, IndInv', RecordInv, [Next]_vars
    PROVE  RecordInv'
<1> USE DEF RecordInv
<1>0. /\ TypeOK /\ TypeOK' /\ AttachedTogether /\ AttachedTogether'
      /\ StopsConsistent /\ OlderThanFrontier /\ AckedIsOver /\ WritesAccounted
      /\ ~(dbFailures < MaxDbFailures)
  BY DEF IndInv, TypeOK
<1>1. CASE StartRequest
  BY <1>0, <1>1 DEF StartRequest, bootVars, dbVars
<1>2. CASE OpenFinish
  BY <1>0, <1>2 DEF OpenFinish, OlderThanFrontier, Frontier, TypeOK, AttachedTogether
<1>3. ASSUME NEW n \in Sessions, InsertCommit(n) PROVE RecordInv'
  <2>1. /\ \A m \in writes : n <= m
        /\ n \in writes /\ writes' = writes \ {n}
        /\ rowSession' = n /\ rowOpen' = TRUE
        /\ UNCHANGED <<session, boot, found>>
    BY <1>0, <1>3 DEF InsertCommit, StatementFails, bootVars
  <2>2. session # NoSession => session \in writes /\ session \in Nat /\ n \in Nat
                                /\ \A m \in writes : m \in Nat /\ n <= m /\ m <= session
    BY <2>1, <1>0 DEF TypeOK
  <2>3. CASE session # NoSession /\ n = session
    <3>1. \A m \in writes : m = n BY <2>2, <2>3
    <3>2. writes' = {} BY <3>1, <2>1
    <3>3. session' = session /\ rowSession' = session /\ rowOpen' BY <2>1, <2>3
    <3>4. boot' = "stamping" => found' \notin {session', NoSession} BY <2>1
    <3> QED BY <3>2, <3>3, <3>4
  <2>4. CASE session # NoSession /\ n # session
    BY <2>1, <2>2, <2>4
  <2>5. CASE session = NoSession
    BY <2>1, <2>5
  <2> QED BY <2>3, <2>4, <2>5
<1>4. ASSUME NEW c \in Calls, NEW reason \in Reasons, StopEnter(c, reason)
      PROVE  RecordInv'
  BY <1>0, <1>4 DEF StopEnter, Detach, GiveUp, dbVars
<1>5. ASSUME NEW c \in Calls, StopAfterStart(c) PROVE RecordInv'
  BY <1>0, <1>5 DEF StopAfterStart, Detach, GiveUp, bootVars, dbVars
<1>6. ASSUME NEW c \in Calls, StopAfterWrite(c) PROVE RecordInv'
  BY <1>6 DEF StopAfterWrite, bootVars, dbVars
<1>7. ASSUME NEW c \in Calls, StopStamp(c) PROVE RecordInv'
  BY <1>0, <1>7 DEF StopStamp, Stamp, StatementFails, StopsConsistent, bootVars
<1>8. ASSUME NEW c \in Calls, StopReturn(c) PROVE RecordInv'
  BY <1>8 DEF StopReturn, bootVars, dbVars
<1>9. CASE Boot
  <2>1. CASE ReportBegin BY <2>1 DEF ReportBegin, dbVars
  <2>2. CASE ReportRead BY <2>2 DEF ReportRead, dbVars
  <2>3. CASE ReportDecide
    BY <2>3, <1>0 DEF ReportDecide, TakenOver, AttachedTogether, dbVars
  <2>4. CASE ReportStamp
    <3>1. /\ rowOpen' = (rowOpen /\ found # NoSession /\ rowSession # found)
          /\ boot = "stamping" /\ boot' = "loading"
          /\ UNCHANGED <<writes, rowSession, session>>
      BY <2>4, <1>0 DEF ReportStamp, Stamp, StatementFails
    <3>2. session # NoSession /\ session \notin writes => rowOpen'
      BY <3>1, Zenon
    <3> QED BY <3>1, <3>2
  <2>5. CASE ResumeSkip BY <2>5 DEF ResumeSkip, dbVars
  <2>6. CASE ResumeBegin BY <2>6 DEF ResumeBegin, dbVars
  <2> QED BY <1>9, <2>1, <2>2, <2>3, <2>4, <2>5, <2>6 DEF Boot
<1>10. CASE Crash BY <1>10 DEF Crash
<1>11. CASE BootUp BY <1>11 DEF BootUp, dbVars
<1>12. CASE UNCHANGED vars BY <1>12 DEF vars
<1> QED
  BY <1>1, <1>2, <1>3, <1>4, <1>5, <1>6, <1>7, <1>8, <1>9, <1>10, <1>11, <1>12
     DEF Next, Stop

\* When the database takes every statement, in order, a running capture has an
\* open row of its own from the moment its INSERT is executed.
THEOREM RecordedCorrect ==
    ASSUME ~ReorderWrites, MaxDbFailures = 0
    PROVE  Spec => []RunningIsRecorded
<1>1. Init => RecordInv BY DEF Init, RecordInv
<1>2. IndInv /\ IndInv' /\ RecordInv /\ [Next]_vars => RecordInv' BY RecordNext
<1>3. IndInv /\ RecordInv => RunningIsRecorded
  BY DEF IndInv, AttachedTogether, RecordInv, RunningIsRecorded
<1> QED BY <1>1, <1>2, <1>3, CaptureInductive, PTL DEF Spec

===============================================================================
