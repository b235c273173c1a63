--------------------------- MODULE NotifierProofs ---------------------------
(***************************************************************************)
(* Proofs about Notifier, for every number of keys, sinks, saves and       *)
(* findings, all settings and every limit.                                 *)
(***************************************************************************)
EXTENDS Notifier, FiniteSums

LEMMA ConstantTypes ==
    /\ Hour \in Nat /\ MaxTime \in Nat /\ MaxFindings \in Nat /\ MaxSaves \in Nat
    /\ MaxQueued \in Nat /\ MaxQueued > 0
    /\ FirstSettings \in Settings
    /\ \A s \in Settings : s.throttle \in Nat /\ s.maxPerHour \in Nat
    /\ 1 \in Notifiers
<1> QED BY ConstantsAssumption DEF Notifiers

LEMMA SeqFacts ==
    ASSUME NEW S, NEW q \in Seq(S)
    PROVE  /\ Len(q) \in Nat /\ DOMAIN q = 1..Len(q)
           /\ \A i \in DOMAIN q : q[i] \in S
           /\ \A e \in S : /\ Append(q, e) \in Seq(S) /\ Len(Append(q, e)) = Len(q) + 1
                            /\ \A i \in DOMAIN q : Append(q, e)[i] = q[i]
                            /\ Append(q, e)[Len(q) + 1] = e
<1>1. Len(q) \in Nat /\ DOMAIN q = 1..Len(q)
  OBVIOUS
<1>2. \A i \in 1..Len(q) : q[i] \in S
  OBVIOUS
<1>3. ASSUME NEW e \in S
      PROVE  /\ Append(q, e) \in Seq(S) /\ Len(Append(q, e)) = Len(q) + 1
             /\ \A i \in 1..Len(q) : Append(q, e)[i] = q[i]
             /\ Append(q, e)[Len(q) + 1] = e
  OBVIOUS
<1> QED BY <1>1, <1>2, <1>3

LEMMA SendsFacts ==
    ASSUME TypeOK
    PROVE  /\ Len(sends) \in Nat /\ DOMAIN sends = 1..Len(sends)
           /\ \A i \in DOMAIN sends : /\ sends[i] \in [at : Times, by : Notifiers]
                                      /\ sends[i].at \in Times /\ sends[i].by \in Notifiers
           /\ Len(accepted) \in Nat
<1> DEFINE S == [at : Times, by : Notifiers]
<1>1. sends \in Seq(S)
  BY DEF TypeOK
<1>2. accepted \in Seq([key : Keys, at : Times, by : Notifiers])
  BY DEF TypeOK
<1>3. Len(accepted) \in Nat
  BY <1>2
<1>4. \A i \in DOMAIN sends : sends[i] \in S
  <2> HIDE DEF S
  <2> QED BY <1>1, SeqFacts
<1>5. Len(sends) \in Nat /\ DOMAIN sends = 1..Len(sends)
  BY <1>1
<1> QED BY <1>3, <1>4, <1>5

\* The window of a notifier is a finite set, and a smaller one holds no more.
LEMMA WindowFinite ==
    ASSUME TypeOK, NEW n \in Notifiers
    PROVE  /\ IsFiniteSet(sentTimestamps[n])
           /\ IsFiniteSet(Recent(sentTimestamps[n]))
           /\ Cardinality(Recent(sentTimestamps[n])) \in Nat
<1>1. Len(sends) \in Nat /\ DOMAIN sends = 1..Len(sends)
  BY SendsFacts
<1>2. sentTimestamps[n] \subseteq 1..Len(sends)
  BY <1>1 DEF TypeOK
<1>3. IsFiniteSet(1..Len(sends))
  BY <1>1, FS_Interval
<1>4. IsFiniteSet(sentTimestamps[n])
  BY <1>2, <1>3, FS_Subset
<1>5. Recent(sentTimestamps[n]) \subseteq sentTimestamps[n]
  BY DEF Recent
<1> QED BY <1>4, <1>5, FS_Subset, FS_CardinalityType

\* What a caller of notifier() gets.
LEMMA ObtainFacts ==
    ASSUME TypeOK, MadeOK, RetiredIsEmpty, RetiringOK, SettingsInForce, Obtain
    PROVE  /\ Obtained \in Notifiers /\ Obtained # 0
           /\ Obtained \notin closed
           /\ \A a \in Savers : flush[a].stage # "idle" => flush[a].on # Obtained
           /\ instance' = Obtained /\ made' \in 0..(MaxSaves + 1)
           /\ made <= made' /\ Obtained <= made' /\ made' <= saves + 1
           /\ \A n \in Notifiers : n > made' => n > made
           /\ settings' \in [Notifiers -> Settings]
           /\ settings'[Obtained] = cached
           /\ ObtainedSettings = cached
           /\ \A n \in Notifiers : n <= made => settings'[n] = settings[n]
           /\ lineage' = lineage
<1> USE ConstantTypes DEF Notifiers
<1>1. CASE instance = 0
  <2>1. /\ made \in Nat /\ saves \in 0..MaxSaves /\ made <= saves
    BY <1>1 DEF TypeOK, MadeOK
  <2>2. /\ Obtained = made + 1 /\ made' = made + 1 /\ instance' = made + 1
        /\ settings' = [settings EXCEPT ![made + 1] = cached]
        /\ ObtainedSettings = cached /\ lineage' = lineage
    BY <1>1 DEF Obtain, Obtained, ObtainedSettings
  <2>3. settings \in [1..(MaxSaves + 1) -> Settings] /\ cached \in Settings
    BY DEF TypeOK
  <2>4. Obtained \notin closed
    BY <2>1, <2>2 DEF MadeOK
  <2>5. \A a \in Savers : flush[a].stage # "idle" => flush[a].on <= made
    BY DEF MadeOK, Flushers
  <2>6. \A a \in Savers : flush[a].stage # "idle" => flush[a].on # Obtained
    BY <2>1, <2>2, <2>5 DEF TypeOK, Flushers
  <2> QED BY <2>1, <2>2, <2>3, <2>4, <2>6
<1>2. CASE instance # 0
  <2>1. /\ made \in 0..(MaxSaves + 1) /\ saves \in Nat /\ made <= saves + 1
        /\ instance \in 1..(MaxSaves + 1) /\ instance <= made
    BY <1>2 DEF TypeOK, MadeOK
  <2>2. /\ Obtained = instance /\ made' = made /\ instance' = instance
        /\ settings' = [settings EXCEPT ![instance] = settings[instance]]
        /\ ObtainedSettings = settings[instance] /\ lineage' = lineage
    BY <1>2 DEF Obtain, Obtained, ObtainedSettings
  <2>3. settings \in [1..(MaxSaves + 1) -> Settings] /\ settings' = settings
    BY <2>2 DEF TypeOK
  <2>4. settings[instance] = cached
    BY <1>2 DEF SettingsInForce
  <2>5. Obtained \notin closed
    BY <2>2 DEF RetiredIsEmpty
  <2>6. \A a \in Savers : flush[a].stage # "idle" => flush[a].on # Obtained
    BY <2>2 DEF RetiringOK
  <2> QED BY <2>1, <2>2, <2>3, <2>4, <2>5, <2>6
<1> QED BY <1>1, <1>2

\* Sends already made stay under the ceiling when notifiers are only added.
LEMMA CeilingKept ==
    ASSUME TypeOK, MadeOK, CeilingHolds, sends' = sends,
           \A n \in Notifiers : n <= made => settings'[n] = settings[n]
                                             /\ lineage'[n] = lineage[n]
    PROVE  CeilingHolds'
<1>1. \A i \in DOMAIN sends : sends[i].by \in Notifiers /\ sends[i].by <= made
  BY SendsFacts DEF MadeOK
<1> QED BY <1>1 DEF CeilingHolds

THEOREM InitInv == Init => IndInv
<1> SUFFICES ASSUME Init PROVE IndInv
  OBVIOUS
<1> USE ConstantTypes DEF Init, NoFlush
<1>1. TypeOK
  BY DEF TypeOK, Stages, Times, Findings, Notifiers
<1>2. DOMAIN sends = {} /\ Len(accepted) = 0
  OBVIOUS
<1>3. IdsOK /\ FlushOK /\ RetiringOK /\ LineageOK /\ WindowOK
  <2>1. IdsOK
    BY <1>2 DEF IdsOK
  <2>2. \A a \in Flushers : flush[a].stage = "idle" /\ flush[a].round = 1 /\ flush[a].due = {}
    OBVIOUS
  <2>3. FlushOK /\ RetiringOK
    BY <2>2 DEF FlushOK, RetiringOK, Flushers
  <2>4. LineageOK /\ WindowOK
    BY <1>2 DEF LineageOK, WindowOK
  <2> QED BY <2>1, <2>3, <2>4
<1>5. MadeOK
  BY <1>2 DEF MadeOK
<1>4. RoomOK /\ QueueIsTimed /\ RetiredIsEmpty /\ SettingsInForce /\ CeilingHolds
  BY <1>2 DEF RoomOK, QueueIsTimed, RetiredIsEmpty, SettingsInForce, CeilingHolds
<1> QED BY <1>1, <1>3, <1>4, <1>5 DEF IndInv

LEMMA TickInv == IndInv /\ Tick => IndInv'
<1> SUFFICES ASSUME IndInv, Tick PROVE IndInv'
  OBVIOUS
<1> USE ConstantTypes DEF Tick, identity, limits, digest
<1>t. TypeOK
  BY DEF IndInv
<1>1. TypeOK'
  <2>1. now' \in Times
    BY <1>t DEF TypeOK, Times
  <2> QED BY <1>t, <2>1 DEF TypeOK
<1>2. MadeOK' /\ now \in Nat /\ now' = now + 1
  <2>1. now \in Nat
    BY <1>t DEF TypeOK, Times
  <2>2. \A j \in DOMAIN sends : sends[j].at \in Nat
    BY <1>t, SendsFacts DEF Times
  <2> QED BY <2>1, <2>2 DEF IndInv, MadeOK
<1>3. IdsOK' /\ RetiringOK' /\ LineageOK' /\ RetiredIsEmpty' /\ SettingsInForce'
  BY DEF IndInv, IdsOK, RetiringOK, LineageOK, RetiredIsEmpty, SettingsInForce
<1>4. FlushOK' /\ QueueIsTimed'
  BY DEF IndInv, FlushOK, Offered, QueueIsTimed
<1>5. WindowOK'
  <2>1. \A j \in DOMAIN sends : sends[j].at \in Nat
    BY <1>t, SendsFacts DEF Times
  <2> QED BY <1>2, <2>1 DEF IndInv, WindowOK
<1>6. RoomOK'
  <2> SUFFICES ASSUME NEW n \in Notifiers, queue[n] # {}
               PROVE  Cardinality(Recent(sentTimestamps[n])') < settings[n].maxPerHour
    BY DEF RoomOK
  <2>1. \A j \in sentTimestamps[n] : sends[j].at \in Nat
    <3>1. sentTimestamps[n] \subseteq DOMAIN sends
      BY <1>t DEF TypeOK
    <3> QED BY <1>t, <3>1, SendsFacts DEF Times
  <2>2. Recent(sentTimestamps[n])' \subseteq Recent(sentTimestamps[n])
    BY <1>2, <2>1 DEF Recent
  <2>3. /\ Cardinality(Recent(sentTimestamps[n])') <= Cardinality(Recent(sentTimestamps[n]))
        /\ Cardinality(Recent(sentTimestamps[n])') \in Nat
        /\ Cardinality(Recent(sentTimestamps[n])) \in Nat
    BY <1>t, <2>2, WindowFinite, FS_Subset, FS_CardinalityType
  <2>4. settings[n].maxPerHour \in Nat
    BY <1>t DEF TypeOK
  <2>5. Cardinality(Recent(sentTimestamps[n])) < settings[n].maxPerHour
    BY DEF IndInv, RoomOK
  <2> QED BY <2>3, <2>4, <2>5
<1>7. CeilingHolds'
  BY <1>t, CeilingKept DEF IndInv
<1> QED BY <1>1, <1>2, <1>3, <1>4, <1>5, <1>6, <1>7 DEF IndInv

\* A call that obtains the notifier and at most drops what has left its window.
Looked ==
    /\ Obtain
    /\ \/ UNCHANGED sentTimestamps
       \/ sentTimestamps' = [sentTimestamps EXCEPT ![Obtained] = Recent(@)]
    /\ UNCHANGED <<now, cached, saves, closed, digestTimer, flush, digest, accepted,
                   delivered, told, lastNotifiedAt, sends>>

\* The window of every notifier is the same after that.
LEMMA WindowKept ==
    ASSUME TypeOK, Obtained \in Notifiers, UNCHANGED <<now, sends>>,
           \/ UNCHANGED sentTimestamps
           \/ sentTimestamps' = [sentTimestamps EXCEPT ![Obtained] = Recent(@)]
    PROVE  /\ sentTimestamps' \in [Notifiers -> SUBSET DOMAIN sends]
           /\ \A n \in Notifiers : Recent(sentTimestamps[n])' = Recent(sentTimestamps[n])
           /\ \A n \in Notifiers : \A j \in DOMAIN sends :
                j \in sentTimestamps[n] /\ sends[j].at + Hour >= now => j \in sentTimestamps'[n]
<1>1. sentTimestamps \in [Notifiers -> SUBSET DOMAIN sends]
  BY DEF TypeOK
<1> QED BY <1>1 DEF Recent

LEMMA LookedInv == IndInv /\ Looked => IndInv'
<1> SUFFICES ASSUME IndInv, Looked PROVE IndInv'
  OBVIOUS
<1> USE ConstantTypes DEF Looked, digest
<1>t. TypeOK /\ MadeOK /\ RetiredIsEmpty /\ RetiringOK /\ SettingsInForce
  BY DEF IndInv
<1>o. /\ Obtained \in Notifiers /\ Obtained # 0
      /\ Obtained \notin closed
      /\ \A a \in Savers : flush[a].stage # "idle" => flush[a].on # Obtained
      /\ instance' = Obtained /\ made' \in 0..(MaxSaves + 1)
      /\ made <= made' /\ Obtained <= made' /\ made' <= saves + 1
      /\ \A n \in Notifiers : n > made' => n > made
      /\ settings' \in [Notifiers -> Settings] /\ settings'[Obtained] = cached
      /\ \A n \in Notifiers : n <= made => settings'[n] = settings[n]
      /\ lineage' = lineage
  BY <1>t, ObtainFacts
<1>w. /\ sentTimestamps' \in [Notifiers -> SUBSET DOMAIN sends]
      /\ \A n \in Notifiers : Recent(sentTimestamps[n])' = Recent(sentTimestamps[n])
      /\ \A n \in Notifiers : \A j \in DOMAIN sends :
           j \in sentTimestamps[n] /\ sends[j].at + Hour >= now => j \in sentTimestamps'[n]
  BY <1>t, <1>o, WindowKept
<1>n. made \in Nat /\ made' \in Nat /\ \A n \in Notifiers : n \in Nat
  BY <1>t, <1>o DEF TypeOK, Notifiers
<1>1. TypeOK'
  <2>1. instance' \in 0..(MaxSaves + 1)
    BY <1>o DEF Notifiers
  <2> QED BY <1>t, <1>o, <1>w, <2>1 DEF TypeOK
<1>2. MadeOK'
  <2>1. \A j \in DOMAIN sends : sends[j].by \in Nat /\ sends[j].by <= made'
    BY <1>t, <1>o, <1>n, SendsFacts DEF MadeOK
  <2>2. \A a \in Flushers : flush[a].stage # "idle" => flush[a].on <= made'
    <3>1. \A a \in Flushers : flush[a].on \in Notifiers
      BY <1>t DEF TypeOK
    <3> QED BY <1>t, <1>o, <1>n, <3>1 DEF MadeOK
  <2>3. closed \subseteq 1..made'
    BY <1>t, <1>o, <1>n DEF MadeOK
  <2>4. \A n \in Notifiers : queue[n] # {} => n <= made'
    BY <1>t, <1>o, <1>n DEF MadeOK
  <2>5. made' <= saves' + (IF instance' = 0 THEN 0 ELSE 1) /\ instance' <= made'
    BY <1>o
  <2> QED BY <1>t, <2>1, <2>2, <2>3, <2>4, <2>5 DEF MadeOK
<1>3. IdsOK' /\ FlushOK' /\ QueueIsTimed'
  BY DEF IndInv, IdsOK, FlushOK, Offered, QueueIsTimed
<1>4. RetiringOK' /\ RetiredIsEmpty' /\ SettingsInForce'
  BY <1>t, <1>o DEF RetiringOK, RetiredIsEmpty, SettingsInForce
<1>5. LineageOK'
  BY <1>o DEF IndInv, LineageOK
<1>6. WindowOK'
  BY <1>o, <1>w DEF IndInv, WindowOK
<1>7. RoomOK'
  BY <1>t, <1>o, <1>w DEF IndInv, RoomOK, MadeOK
<1>8. CeilingHolds'
  BY <1>t, <1>o, CeilingKept DEF IndInv
<1> QED BY <1>1, <1>2, <1>3, <1>4, <1>5, <1>6, <1>7, <1>8 DEF IndInv

LEMMA ConsideredInv == IndInv /\ (Status \/ \E k \in Keys : Refuse(k) \/ RateLimit(k)) => Looked
<1> QED BY DEF Status, Refuse, RateLimit, Looked, limits

LEMMA SeqUpdates ==
    ASSUME NEW S, NEW q \in Seq(S), NEW e \in S, NEW I \in SUBSET (1..Len(q))
    PROVE  /\ Append(q, e) \in Seq(S)
           /\ Len(q) > 0 => Tail(q) \in Seq(S) /\ Append(Tail(q), e) \in Seq(S)
           /\ [i \in DOMAIN q |-> IF i \in I THEN e ELSE q[i]] \in Seq(S)
<1>1. Len(q) \in Nat /\ DOMAIN q = 1..Len(q) /\ \A i \in 1..Len(q) : q[i] \in S
  OBVIOUS
<1>2. [i \in 1..Len(q) |-> IF i \in I THEN e ELSE q[i]] \in [1..Len(q) -> S]
  BY <1>1
<1>3. [i \in 1..Len(q) |-> IF i \in I THEN e ELSE q[i]] \in Seq(S)
  BY <1>1, <1>2
<1>4. Len(q) > 0 => Tail(q) \in Seq(S)
  OBVIOUS
<1> QED BY <1>1, <1>3, <1>4

LEMMA RememberType ==
    ASSUME NEW map, NEW key, NEW E, map \in Seq(E), [key |-> key, at |-> now] \in E
    PROVE  Remember(map, key) \in Seq(E)
<1> DEFINE e == [key |-> key, at |-> now]
           I == {i \in 1..Len(map) : map[i].key = key}
<1>1. Len(map) \in Nat /\ DOMAIN map = 1..Len(map) /\ e \in E
  OBVIOUS
<1>2. MaxThrottleKeys \in Nat /\ MaxThrottleKeys > 0
  BY ConstantsAssumption
<1>3. /\ Append(map, e) \in Seq(E)
      /\ Len(map) > 0 => Append(Tail(map), e) \in Seq(E)
      /\ [i \in DOMAIN map |-> IF i \in I THEN e ELSE map[i]] \in Seq(E)
  <2> HIDE DEF e
  <2>1. I \in SUBSET (1..Len(map))
    OBVIOUS
  <2> HIDE DEF I
  <2> QED BY <1>1, <2>1, SeqUpdates
<1>4. CASE \E i \in DOMAIN map : map[i].key = key
  <2>1. Remember(map, key) = [i \in DOMAIN map |-> IF map[i].key = key THEN e ELSE map[i]]
    BY <1>4 DEF Remember
  <2> HIDE DEF e
  <2>2. [i \in DOMAIN map |-> IF map[i].key = key THEN e ELSE map[i]]
          = [i \in DOMAIN map |-> IF i \in I THEN e ELSE map[i]]
    BY <1>1
  <2> HIDE DEF I
  <2> QED BY <1>3, <2>1, <2>2
<1>5. CASE ~\E i \in DOMAIN map : map[i].key = key
  <2>1. Remember(map, key) = Append(IF Len(map) >= MaxThrottleKeys THEN Tail(map) ELSE map, e)
    BY <1>5 DEF Remember
  <2> HIDE DEF e
  <2> QED BY <1>1, <1>2, <1>3, <2>1
<1> QED BY <1>4, <1>5

LEMMA AcceptInv == ASSUME NEW key \in Keys PROVE IndInv /\ Accept(key) => IndInv'
<1> SUFFICES ASSUME IndInv, Accept(key) PROVE IndInv'
  OBVIOUS
<1> USE ConstantTypes
<1> DEFINE id == Len(accepted) + 1
<1>t. TypeOK /\ MadeOK /\ RetiredIsEmpty /\ RetiringOK /\ SettingsInForce
  BY DEF IndInv
<1>a. /\ Obtain
      /\ sentTimestamps' = [sentTimestamps EXCEPT ![Obtained] = Recent(@)]
      /\ UNCHANGED <<now, cached, saves, closed, flush, sending, batch, batchOmitted,
                     sends, delivered, told>>
      /\ Cardinality(Recent(sentTimestamps[Obtained])) < ObtainedSettings.maxPerHour
      /\ digestTimer' = [digestTimer EXCEPT ![Obtained] = TRUE]
      /\ accepted' = Append(accepted, [key |-> key, at |-> now, by |-> Obtained])
      /\ lastNotifiedAt' = [lastNotifiedAt EXCEPT ![Obtained] = Remember(@, key)]
      /\ Len(accepted) < MaxFindings
  BY DEF Accept
<1>o. /\ Obtained \in Notifiers /\ Obtained # 0
      /\ Obtained \notin closed
      /\ \A a \in Savers : flush[a].stage # "idle" => flush[a].on # Obtained
      /\ instance' = Obtained /\ made' \in 0..(MaxSaves + 1)
      /\ made <= made' /\ Obtained <= made' /\ made' <= saves + 1
      /\ \A n \in Notifiers : n > made' => n > made
      /\ settings' \in [Notifiers -> Settings] /\ settings'[Obtained] = cached
      /\ ObtainedSettings = cached
      /\ \A n \in Notifiers : n <= made => settings'[n] = settings[n]
      /\ lineage' = lineage
  BY <1>t, <1>a, ObtainFacts
<1>w. /\ sentTimestamps' \in [Notifiers -> SUBSET DOMAIN sends]
      /\ \A n \in Notifiers : Recent(sentTimestamps[n])' = Recent(sentTimestamps[n])
      /\ \A n \in Notifiers : \A j \in DOMAIN sends :
           j \in sentTimestamps[n] /\ sends[j].at + Hour >= now => j \in sentTimestamps'[n]
  BY <1>t, <1>o, <1>a, WindowKept
<1>n. made \in Nat /\ made' \in Nat /\ \A n \in Notifiers : n \in Nat
  BY <1>t, <1>o DEF TypeOK, Notifiers
<1>l. /\ Len(accepted) \in Nat /\ Len(accepted') = Len(accepted) + 1 /\ id \in Findings
      /\ accepted' \in Seq([key : Keys, at : Times, by : Notifiers])
  <2>1. [key |-> key, at |-> now, by |-> Obtained] \in [key : Keys, at : Times, by : Notifiers]
    BY <1>t, <1>o DEF TypeOK
  <2>2. accepted \in Seq([key : Keys, at : Times, by : Notifiers])
    BY <1>t DEF TypeOK
  <2> QED BY <1>a, <2>1, <2>2 DEF Findings
\* The finding joins the queue, or the queue is full and stays as it is.
<1>q. /\ queue' \in [Notifiers -> SUBSET Findings] /\ omitted' \in [Notifiers -> Nat]
      /\ \A n \in Notifiers : n # Obtained => queue'[n] = queue[n] /\ omitted'[n] = omitted[n]
      /\ queue'[Obtained] \subseteq queue[Obtained] \cup {id}
      /\ omitted'[Obtained] > 0 => queue'[Obtained] # {}
  <2>1. /\ queue \in [Notifiers -> SUBSET Findings] /\ omitted \in [Notifiers -> Nat]
        /\ omitted[Obtained] > 0 => queue[Obtained] # {}
    BY <1>t, <1>o DEF TypeOK, IndInv, IdsOK
  <2>2. CASE Cardinality(queue[Obtained]) >= MaxQueued
    <3>1. queue[Obtained] # {}
      BY <2>2, FS_EmptySet
    <3>2. omitted' = [omitted EXCEPT ![Obtained] = @ + 1] /\ queue' = queue
      BY <2>2 DEF Accept
    <3> QED BY <1>o, <2>1, <3>1, <3>2
  <2>3. CASE ~(Cardinality(queue[Obtained]) >= MaxQueued)
    <3>1. queue' = [queue EXCEPT ![Obtained] = @ \cup {id}] /\ omitted' = omitted
      BY <2>3 DEF Accept
    <3> QED BY <1>o, <1>l, <2>1, <3>1
  <2> QED BY <2>2, <2>3
<1>m. lastNotifiedAt' \in [Notifiers -> Seq([key : Keys, at : Times])]
  <2> DEFINE E == [key : Keys, at : Times]
  <2>1. now \in Times /\ lastNotifiedAt \in [Notifiers -> Seq(E)]
    BY <1>t DEF TypeOK
  <2>2. [key |-> key, at |-> now] \in E
    BY <2>1
  <2> HIDE DEF E
  <2>3. Remember(lastNotifiedAt[Obtained], key) \in Seq(E)
    BY <1>o, <2>1, <2>2, RememberType
  <2>4. lastNotifiedAt' \in [Notifiers -> Seq(E)]
    BY <1>a, <1>o, <2>1, <2>3
  <2> QED BY <2>4 DEF E
<1>1. TypeOK'
  <2>1. instance' \in 0..(MaxSaves + 1)
    BY <1>o DEF Notifiers
  <2>2. digestTimer' \in [Notifiers -> BOOLEAN]
    BY <1>t, <1>a DEF TypeOK
  <2> QED BY <1>t, <1>a, <1>o, <1>w, <1>l, <1>q, <1>m, <2>1, <2>2 DEF TypeOK
<1>2. MadeOK'
  <2>1. \A j \in DOMAIN sends : sends[j].by <= made' /\ sends[j].at <= now
    BY <1>t, <1>o, <1>n, SendsFacts DEF MadeOK
  <2>2. \A a \in Flushers : flush[a].stage # "idle" => flush[a].on <= made'
    <3>1. \A a \in Flushers : flush[a].on \in Notifiers
      BY <1>t DEF TypeOK
    <3> QED BY <1>t, <1>o, <1>n, <3>1 DEF MadeOK
  <2>3. closed \subseteq 1..made'
    BY <1>t, <1>o, <1>n DEF MadeOK
  <2>4. \A n \in Notifiers : queue'[n] # {} => n <= made'
    <3>1. \A n \in Notifiers : queue[n] # {} => n <= made
      BY <1>t DEF MadeOK
    <3>2. \A n \in Notifiers : n # Obtained => queue'[n] = queue[n]
      BY <1>q
    <3>3. made \in Nat /\ made' \in Nat /\ made <= made' /\ Obtained <= made'
      BY <1>n, <1>o
    <3> QED BY <1>n, <3>1, <3>2, <3>3
  <2>5. made' <= saves' + (IF instance' = 0 THEN 0 ELSE 1) /\ instance' <= made'
    BY <1>o, <1>a
  <2> QED BY <1>a, <2>1, <2>2, <2>3, <2>4, <2>5 DEF MadeOK
<1>3. IdsOK'
  <2>1. IdsOK
    BY DEF IndInv
  <2>2. \A n \in Notifiers : queue'[n] \subseteq 1..(Len(accepted) + 1)
    BY <1>q, <1>l, <2>1 DEF IdsOK
  <2>3. \A n \in Notifiers : batch[n] \subseteq 1..(Len(accepted) + 1)
    BY <1>l, <2>1 DEF IdsOK
  <2>4. \A a \in Flushers : flush[a].due \subseteq 1..(Len(accepted) + 1)
    BY <1>l, <2>1 DEF IdsOK
  <2>5. \A n \in Notifiers : omitted'[n] > 0 => queue'[n] # {}
    BY <1>q, <2>1 DEF IdsOK
  <2> QED BY <1>a, <1>l, <2>2, <2>3, <2>4, <2>5 DEF IdsOK
<1>4. FlushOK'
  <2>1. \A a \in Flushers : id \notin flush[a].due /\ flush[a].on \in Notifiers
    BY <1>t, <1>l DEF IndInv, IdsOK, TypeOK
  <2>2. \A a \in Flushers : flush[a].due \cap queue'[flush[a].on]
                              \subseteq flush[a].due \cap queue[flush[a].on]
    BY <1>q, <2>1
  <2> QED BY <1>a, <2>2 DEF IndInv, FlushOK, Offered
<1>5. QueueIsTimed'
  <2>1. digestTimer'[Obtained] /\ \A n \in Notifiers : n # Obtained => digestTimer'[n] = digestTimer[n]
    BY <1>t, <1>a, <1>o DEF TypeOK
  <2> QED BY <1>a, <1>q, <2>1 DEF IndInv, QueueIsTimed
<1>6. RetiringOK'
  <2>1. \A a \in Savers : flush[a].on \in Notifiers
    BY <1>t DEF TypeOK, Flushers
  <2> QED BY <1>t, <1>a, <1>o, <1>q, <2>1 DEF RetiringOK
<1>7. RetiredIsEmpty' /\ SettingsInForce'
  <2>1. closed \subseteq Notifiers
    BY <1>t DEF TypeOK
  <2> QED BY <1>t, <1>a, <1>o, <1>q, <2>1 DEF RetiredIsEmpty, SettingsInForce
<1>8. LineageOK'
  BY <1>a, <1>o DEF IndInv, LineageOK
<1>9. WindowOK'
  BY <1>a, <1>o, <1>w DEF IndInv, WindowOK
<1>10. RoomOK'
  <2>1. RoomOK
    BY DEF IndInv
  <2> SUFFICES ASSUME NEW n \in Notifiers, queue'[n] # {}
               PROVE  Cardinality(Recent(sentTimestamps[n])') < settings'[n].maxPerHour
    BY DEF RoomOK
  <2>2. CASE n = Obtained
    BY <1>a, <1>o, <1>w, <2>2
  <2>3. CASE n # Obtained
    <3>1. queue[n] # {} /\ n <= made
      BY <1>t, <1>q, <2>3 DEF MadeOK
    <3> QED BY <1>o, <1>w, <2>1, <3>1 DEF RoomOK
  <2> QED BY <2>2, <2>3
<1>11. CeilingHolds'
  BY <1>t, <1>a, <1>o, CeilingKept DEF IndInv
<1> QED BY <1>1, <1>2, <1>3, <1>4, <1>5, <1>6, <1>7, <1>8, <1>9, <1>10, <1>11 DEF IndInv

\* A flush moves on, everything else stays.
LEMMA OneFlushMoves ==
    ASSUME IndInv, NEW a \in Flushers, NEW f,
           f \in [stage : Stages, on : Notifiers, round : 1..2, due : SUBSET Findings],
           flush' = [flush EXCEPT ![a] = f],
           f.stage # "idle" => f.on = flush[a].on /\ f.due = flush[a].due /\ flush[a].stage # "idle",
           f.stage = "idle" => f = NoFlush,
           f.stage = "exports" => f.round = 1,
           /\ \/ f.stage \in {"sending", "check", "done"}
              \/ f.round = 2
              \/ f.stage = "ready" /\ sending[f.on]
           => Offered(a) \/ f.stage = "idle" \/ queue[f.on] = {},
           flush[a].stage \in {"exports", "ready"} /\ flush[a].round = 1
             => \/ f.stage = "ready" /\ f.round = 1
                \/ queue[flush[a].on] = {} \/ sending[flush[a].on],
           UNCHANGED <<now, cached, saves, closed, digestTimer, identity, limits, digest,
                       accepted, delivered, told>>
    PROVE  IndInv'
<1> USE ConstantTypes DEF identity, limits, digest
<1>t. /\ TypeOK /\ MadeOK /\ IdsOK /\ FlushOK /\ RetiringOK
      /\ flush \in [Flushers -> [stage : Stages, on : Notifiers, round : 1..2,
                                 due : SUBSET Findings]]
  BY DEF IndInv, TypeOK
<1>f. flush'[a] = f /\ \A b \in Flushers : b # a => flush'[b] = flush[b]
  BY <1>t
<1>1. TypeOK'
  BY <1>t DEF TypeOK
<1>2. MadeOK'
  BY <1>t, <1>f DEF MadeOK
<1>3. IdsOK'
  <2>1. f.due \subseteq 1..Len(accepted)
    BY <1>t DEF IdsOK, NoFlush
  <2> QED BY <1>t, <1>f, <2>1 DEF IdsOK
<1>4. FlushOK'
  <2>1. \A b \in Flushers : b # a => (Offered(b)' <=> Offered(b))
    BY <1>f DEF Offered
  <2>2. Offered(a)' => f.due \cap queue[f.on] = {}
    BY <1>t, <1>f DEF FlushOK, Offered, NoFlush
  <2>3. f.stage \in {"idle", "exports"} => f.round = 1
    BY DEF NoFlush
  <2> QED BY <1>t, <1>f, <2>1, <2>2, <2>3 DEF FlushOK
<1>5. RetiringOK'
  BY <1>t, <1>f DEF RetiringOK
<1>6. QueueIsTimed'
  <2> SUFFICES ASSUME NEW n \in Notifiers, queue[n] # {}, ~digestTimer[n], ~sending[n]
               PROVE  \E b \in Flushers : /\ flush'[b].on = n /\ flush'[b].round = 1
                                          /\ flush'[b].stage \in {"exports", "ready"}
    BY DEF QueueIsTimed
  <2>1. PICK b \in Flushers : /\ flush[b].on = n /\ flush[b].round = 1
                              /\ flush[b].stage \in {"exports", "ready"}
    BY DEF IndInv, QueueIsTimed
  <2>2. CASE b = a
    BY <1>f, <2>1, <2>2
  <2>3. CASE b # a
    BY <1>f, <2>1, <2>3
  <2> QED BY <2>2, <2>3
<1>7. LineageOK' /\ WindowOK' /\ RoomOK' /\ RetiredIsEmpty' /\ SettingsInForce' /\ CeilingHolds'
  BY DEF IndInv, LineageOK, WindowOK, RoomOK, Recent, RetiredIsEmpty, SettingsInForce, CeilingHolds
<1> QED BY <1>1, <1>2, <1>3, <1>4, <1>5, <1>6, <1>7 DEF IndInv

LEMMA FlushTypes ==
    ASSUME TypeOK, NEW a \in Flushers
    PROVE  /\ flush[a] \in [stage : Stages, on : Notifiers, round : 1..2, due : SUBSET Findings]
           /\ flush \in [Flushers -> [stage : Stages, on : Notifiers, round : 1..2,
                                      due : SUBSET Findings]]
           /\ NoFlush \in [stage : Stages, on : Notifiers, round : 1..2, due : SUBSET Findings]
<1> QED BY ConstantTypes DEF TypeOK, NoFlush, Stages

LEMMA ExportsDoneInv == ASSUME NEW a \in Flushers PROVE IndInv /\ ExportsDone(a) => IndInv'
<1> SUFFICES ASSUME IndInv, ExportsDone(a) PROVE IndInv'
  OBVIOUS
<1> DEFINE f == [flush[a] EXCEPT !.stage = AfterExports(flush[a].on)]
<1>1. TypeOK /\ flush[a].stage = "exports" /\ flush[a].round = 1
  BY DEF IndInv, FlushOK, ExportsDone
<1>2. /\ f \in [stage : Stages, on : Notifiers, round : 1..2, due : SUBSET Findings]
      /\ f.on = flush[a].on /\ f.due = flush[a].due /\ f.round = 1
      /\ f.stage = IF sending[flush[a].on] THEN "waiting" ELSE "ready"
      /\ flush' = [flush EXCEPT ![a] = f]
  BY <1>1, FlushTypes DEF AfterExports, Stages, ExportsDone
<1>3. UNCHANGED <<now, cached, saves, closed, digestTimer, identity, limits, digest,
                  accepted, delivered, told>>
  BY DEF ExportsDone
<1> HIDE DEF f
<1>4. ~(/\ \/ f.stage \in {"sending", "check", "done"}
           \/ f.round = 2
           \/ f.stage = "ready" /\ sending[f.on])
  BY <1>2
<1>5. \/ f.stage = "ready" /\ f.round = 1
      \/ queue[flush[a].on] = {} \/ sending[flush[a].on]
  BY <1>2
<1>6. f.stage # "idle" /\ f.stage # "exports"
  BY <1>2
<1> QED BY <1>1, <1>2, <1>3, <1>4, <1>5, <1>6, OneFlushMoves

LEMMA FlushCheckInv == ASSUME NEW a \in Flushers PROVE IndInv /\ FlushCheck(a) => IndInv'
<1> SUFFICES ASSUME IndInv, FlushCheck(a) PROVE IndInv'
  OBVIOUS
<1> DEFINE n == flush[a].on
           f == IF queue[n] = {} THEN [flush[a] EXCEPT !.stage = "done"]
                ELSE [flush[a] EXCEPT !.round = 2,
                                      !.stage = IF sending[n] THEN "waiting" ELSE "ready"]
<1>1. TypeOK /\ flush[a].stage = "check" /\ Offered(a)
  BY DEF IndInv, FlushCheck, Offered
<1>2. /\ f \in [stage : Stages, on : Notifiers, round : 1..2, due : SUBSET Findings]
      /\ f.on = flush[a].on /\ f.due = flush[a].due
      /\ f.stage \in {"done", "waiting", "ready"}
  <2>1. flush[a] \in [stage : Stages, on : Notifiers, round : 1..2, due : SUBSET Findings]
    BY <1>1, FlushTypes
  <2> HIDE DEF n
  <2>2. CASE queue[n] = {}
    BY <2>1, <2>2 DEF Stages
  <2>3. CASE queue[n] # {}
    <3> DEFINE x == IF sending[n] THEN "waiting" ELSE "ready"
    <3>1. x \in {"waiting", "ready"}
      OBVIOUS
    <3>2. f = [flush[a] EXCEPT !.round = 2, !.stage = x]
      BY <2>3
    <3>3. f = [stage |-> x, on |-> flush[a].on, round |-> 2, due |-> flush[a].due]
      <4> HIDE DEF x, f
      <4> QED BY <2>1, <3>2
    <3>4. x \in Stages
      BY <3>1 DEF Stages
    <3> HIDE DEF x, f
    <3> QED BY <2>1, <3>1, <3>3, <3>4
  <2> QED BY <2>2, <2>3
<1>3. flush' = [flush EXCEPT ![a] = f]
  BY <1>1, FlushTypes DEF FlushCheck
<1>4. UNCHANGED <<now, cached, saves, closed, digestTimer, identity, limits, digest,
                  accepted, delivered, told>>
  BY DEF FlushCheck
<1> HIDE DEF f
<1> QED BY <1>1, <1>2, <1>3, <1>4, OneFlushMoves

LEMMA SinkClosedInv == ASSUME NEW a \in Closers PROVE IndInv /\ SinkClosed(a) => IndInv'
<1> SUFFICES ASSUME IndInv, SinkClosed(a) PROVE IndInv'
  OBVIOUS
<1>1. TypeOK /\ a \in Flushers /\ flush[a].stage = "done"
  BY DEF IndInv, SinkClosed, Flushers
<1>2. /\ NoFlush \in [stage : Stages, on : Notifiers, round : 1..2, due : SUBSET Findings]
      /\ NoFlush.stage = "idle"
  BY <1>1, FlushTypes DEF NoFlush
<1>3. /\ flush' = [flush EXCEPT ![a] = NoFlush]
      /\ UNCHANGED <<now, cached, saves, closed, digestTimer, identity, limits, digest,
                     accepted, delivered, told>>
  BY DEF SinkClosed
<1> QED BY <1>1, <1>2, <1>3, OneFlushMoves

LEMMA SettleInv == ASSUME NEW n \in Notifiers PROVE IndInv /\ Settle(n) => IndInv'
<1> SUFFICES ASSUME IndInv, Settle(n) PROVE IndInv'
  OBVIOUS
<1> USE ConstantTypes DEF identity, limits
<1>t. TypeOK /\ MadeOK /\ IdsOK /\ FlushOK /\ RetiringOK
  BY DEF IndInv
<1>s. /\ sending' = [sending EXCEPT ![n] = FALSE]
      /\ batch' = [batch EXCEPT ![n] = {}]
      /\ batchOmitted' = [batchOmitted EXCEPT ![n] = 0]
      /\ delivered' = delivered \cup batch[n]
      /\ told' = told + batchOmitted[n]
      /\ digestTimer' = [digestTimer EXCEPT ![n] = Rearmed(n)]
      /\ flush' = [a \in Flushers |-> IF flush[a].on = n THEN Awake(flush[a]) ELSE flush[a]]
      /\ UNCHANGED <<now, cached, saves, closed, identity, limits, queue, omitted, accepted>>
  BY DEF Settle
\* A flush is woken, its notifier and what it has to drain stay.
<1>f. \A a \in Flushers :
        /\ flush'[a] \in [stage : Stages, on : Notifiers, round : 1..2, due : SUBSET Findings]
        /\ flush'[a].on = flush[a].on /\ flush'[a].due = flush[a].due
        /\ flush'[a].round = flush[a].round
        /\ flush'[a].stage # flush[a].stage =>
             \/ flush[a].stage = "waiting" /\ flush'[a].stage = "ready" /\ flush[a].on = n
             \/ flush[a].stage = "sending" /\ flush'[a].stage \in {"check", "done"}
  <2> SUFFICES ASSUME NEW a \in Flushers
        PROVE /\ flush'[a] \in [stage : Stages, on : Notifiers, round : 1..2, due : SUBSET Findings]
              /\ flush'[a].on = flush[a].on /\ flush'[a].due = flush[a].due
              /\ flush'[a].round = flush[a].round
              /\ flush'[a].stage # flush[a].stage =>
                   \/ flush[a].stage = "waiting" /\ flush'[a].stage = "ready" /\ flush[a].on = n
                   \/ flush[a].stage = "sending" /\ flush'[a].stage \in {"check", "done"}
    OBVIOUS
  <2>1. flush[a] \in [stage : Stages, on : Notifiers, round : 1..2, due : SUBSET Findings]
    BY <1>t, FlushTypes
  <2>2. flush'[a] = IF flush[a].on = n THEN Awake(flush[a]) ELSE flush[a]
    BY <1>s
  <2> QED BY <2>1, <2>2 DEF Awake, Stages
<1>1. TypeOK'
  <2>1. flush' \in [Flushers -> [stage : Stages, on : Notifiers, round : 1..2,
                                 due : SUBSET Findings]]
    BY <1>s, <1>f
  <2>2. delivered' \subseteq Findings /\ told' \in Nat
    BY <1>t, <1>s DEF TypeOK
  <2>3. digestTimer' \in [Notifiers -> BOOLEAN]
    BY <1>t, <1>s DEF TypeOK, Rearmed
  <2> QED BY <1>t, <1>s, <2>1, <2>2, <2>3 DEF TypeOK
<1>2. MadeOK'
  <2>1. \A a \in Flushers : flush'[a].stage # "idle" => flush'[a].on <= made
    BY <1>t, <1>f DEF MadeOK
  <2> QED BY <1>t, <1>s, <2>1 DEF MadeOK
<1>3. IdsOK'
  <2>1. \A m \in Notifiers : batch'[m] \subseteq 1..Len(accepted)
    BY <1>t, <1>s DEF IdsOK, TypeOK
  <2> QED BY <1>t, <1>s, <1>f, <2>1 DEF IdsOK
<1>4. FlushOK'
  <2> SUFFICES ASSUME NEW a \in Flushers
               PROVE  /\ flush'[a].stage \in {"idle", "exports"} => flush'[a].round = 1
                      /\ Offered(a)' => flush'[a].due \cap queue'[flush'[a].on] = {}
    BY DEF FlushOK
  <2>1. sending'[n] = FALSE /\ \A m \in Notifiers : m # n => sending'[m] = sending[m]
    BY <1>t, <1>s DEF TypeOK
  <2>2. flush[a].on \in Notifiers /\ flush[a].round \in 1..2
    BY <1>t, FlushTypes
  <2>3. Offered(a)' => Offered(a)
    BY <1>f, <2>1, <2>2 DEF Offered
  <2> QED BY <1>t, <1>s, <1>f, <2>3 DEF FlushOK
<1>5. RetiringOK'
  BY <1>t, <1>s, <1>f DEF RetiringOK, Flushers
<1>6. QueueIsTimed'
  <2> SUFFICES ASSUME NEW m \in Notifiers, queue[m] # {}, ~digestTimer'[m], ~sending'[m]
               PROVE  \E b \in Flushers : /\ flush'[b].on = m /\ flush'[b].round = 1
                                          /\ flush'[b].stage \in {"exports", "ready"}
    BY <1>s DEF QueueIsTimed
  <2>1. m # n
    BY <1>t, <1>s DEF TypeOK, Rearmed
  <2>2. ~digestTimer[m] /\ ~sending[m]
    BY <1>t, <1>s, <2>1 DEF TypeOK
  <2>3. PICK b \in Flushers : /\ flush[b].on = m /\ flush[b].round = 1
                              /\ flush[b].stage \in {"exports", "ready"}
    BY <2>2 DEF IndInv, QueueIsTimed
  <2> QED BY <1>f, <2>3
<1>7. LineageOK' /\ WindowOK' /\ RoomOK' /\ RetiredIsEmpty' /\ SettingsInForce' /\ CeilingHolds'
  BY <1>s DEF IndInv, LineageOK, WindowOK, RoomOK, Recent, RetiredIsEmpty, SettingsInForce,
              CeilingHolds
<1> QED BY <1>1, <1>2, <1>3, <1>4, <1>5, <1>6, <1>7 DEF IndInv

LEMMA CloseSinkInv == ASSUME NEW a \in Closers PROVE IndInv /\ CloseSink(a) => IndInv'
<1> SUFFICES ASSUME IndInv, CloseSink(a) PROVE IndInv'
  OBVIOUS
<1> USE ConstantTypes DEF limits, digest
<1> DEFINE f == [stage |-> "exports", on |-> Obtained, round |-> 1,
                 due |-> queue[Obtained] \cup batch[Obtained]]
<1>t. /\ TypeOK /\ MadeOK /\ RetiredIsEmpty /\ RetiringOK /\ SettingsInForce /\ IdsOK /\ FlushOK
      /\ a \in Flushers /\ a \notin Savers
  BY ConstantsAssumption DEF IndInv, Flushers
<1>a. /\ Obtain
      /\ flush' = [flush EXCEPT ![a] = f]
      /\ digestTimer' = [digestTimer EXCEPT ![Obtained] = FALSE]
      /\ UNCHANGED <<now, cached, saves, closed, limits, digest, accepted, delivered, told>>
      /\ flush[a].stage = "idle"
  BY DEF CloseSink, FlushBegun
<1>o. /\ Obtained \in Notifiers /\ Obtained # 0
      /\ Obtained \notin closed
      /\ \A b \in Savers : flush[b].stage # "idle" => flush[b].on # Obtained
      /\ instance' = Obtained /\ made' \in 0..(MaxSaves + 1)
      /\ made <= made' /\ Obtained <= made' /\ made' <= saves + 1
      /\ \A n \in Notifiers : n > made' => n > made
      /\ settings' \in [Notifiers -> Settings] /\ settings'[Obtained] = cached
      /\ \A n \in Notifiers : n <= made => settings'[n] = settings[n]
      /\ lineage' = lineage
  BY <1>t, <1>a, ObtainFacts
<1>n. made \in Nat /\ made' \in Nat /\ \A n \in Notifiers : n \in Nat
  BY <1>t, <1>o DEF TypeOK, Notifiers
<1>f. /\ f \in [stage : Stages, on : Notifiers, round : 1..2, due : SUBSET Findings]
      /\ f.stage = "exports" /\ f.round = 1 /\ f.on = Obtained
      /\ f.due \subseteq 1..Len(accepted)
      /\ flush'[a] = f /\ \A b \in Flushers : b # a => flush'[b] = flush[b]
  <2>1. f.due \subseteq Findings /\ f.due \subseteq 1..Len(accepted)
    BY <1>t, <1>o DEF TypeOK, IdsOK
  <2> QED BY <1>t, <1>a, <1>o, <2>1, FlushTypes DEF Stages
<1> HIDE DEF f
<1>1. TypeOK'
  <2>1. instance' \in 0..(MaxSaves + 1)
    BY <1>o DEF Notifiers
  <2>2. digestTimer' \in [Notifiers -> BOOLEAN]
    BY <1>t, <1>a DEF TypeOK
  <2>3. flush' \in [Flushers -> [stage : Stages, on : Notifiers, round : 1..2,
                                 due : SUBSET Findings]]
    BY <1>t, <1>a, <1>f, FlushTypes
  <2> QED BY <1>t, <1>a, <1>o, <2>1, <2>2, <2>3 DEF TypeOK
<1>2. MadeOK'
  <2>1. \A j \in DOMAIN sends : sends[j].by <= made' /\ sends[j].at <= now
    BY <1>t, <1>o, <1>n, SendsFacts DEF MadeOK
  <2>2. \A b \in Flushers : flush'[b].stage # "idle" => flush'[b].on <= made'
    <3>1. \A b \in Flushers : flush[b].on \in Notifiers
      BY <1>t DEF TypeOK
    <3> QED BY <1>t, <1>o, <1>n, <1>f, <3>1 DEF MadeOK
  <2>3. closed \subseteq 1..made'
    BY <1>t, <1>o, <1>n DEF MadeOK
  <2>4. \A n \in Notifiers : queue[n] # {} => n <= made'
    BY <1>t, <1>o, <1>n DEF MadeOK
  <2>5. made' <= saves' + (IF instance' = 0 THEN 0 ELSE 1) /\ instance' <= made'
    BY <1>o, <1>a
  <2> QED BY <1>a, <2>1, <2>2, <2>3, <2>4, <2>5 DEF MadeOK
<1>3. IdsOK'
  BY <1>t, <1>a, <1>f DEF IdsOK
<1>4. FlushOK'
  <2>1. ~Offered(a)'
    BY <1>f DEF Offered
  <2>2. \A b \in Flushers : b # a => (Offered(b)' <=> Offered(b))
    BY <1>a, <1>f DEF Offered
  <2> QED BY <1>t, <1>a, <1>f, <2>1, <2>2 DEF FlushOK
<1>5. QueueIsTimed'
  <2>1. \A n \in Notifiers : n # Obtained => digestTimer'[n] = digestTimer[n]
    BY <1>t, <1>a, <1>o DEF TypeOK
  <2> SUFFICES ASSUME NEW n \in Notifiers, queue[n] # {}, ~digestTimer'[n], ~sending[n]
               PROVE  \E b \in Flushers : /\ flush'[b].on = n /\ flush'[b].round = 1
                                          /\ flush'[b].stage \in {"exports", "ready"}
    BY <1>a DEF QueueIsTimed
  <2>2. CASE n = Obtained
    BY <1>t, <1>f, <2>2
  <2>3. CASE n # Obtained
    <3>1. PICK b \in Flushers : /\ flush[b].on = n /\ flush[b].round = 1
                                /\ flush[b].stage \in {"exports", "ready"}
      BY <2>1, <2>3 DEF IndInv, QueueIsTimed
    <3> QED BY <1>a, <1>f, <3>1
  <2> QED BY <2>2, <2>3
<1>6. RetiringOK'
  BY <1>t, <1>a, <1>o, <1>f DEF RetiringOK, Flushers
<1>7. RetiredIsEmpty' /\ SettingsInForce'
  BY <1>t, <1>a, <1>o DEF RetiredIsEmpty, SettingsInForce
<1>8. LineageOK' /\ WindowOK'
  BY <1>a, <1>o DEF IndInv, LineageOK, WindowOK
<1>9. RoomOK'
  <2>1. RoomOK
    BY DEF IndInv
  <2>2. \A n \in Notifiers : Recent(sentTimestamps[n])' = Recent(sentTimestamps[n])
    BY <1>a DEF Recent
  <2> QED BY <1>t, <1>a, <1>o, <2>1, <2>2 DEF RoomOK, MadeOK
<1>10. CeilingHolds'
  BY <1>t, <1>a, <1>o, CeilingKept DEF IndInv
<1> QED BY <1>1, <1>2, <1>3, <1>4, <1>5, <1>6, <1>7, <1>8, <1>9, <1>10 DEF IndInv

LEMMA SaveInv ==
    ASSUME NEW a \in Savers, NEW new \in Settings PROVE IndInv /\ Save(a, new) => IndInv'
<1> SUFFICES ASSUME IndInv, Save(a, new) PROVE IndInv'
  OBVIOUS
<1> USE ConstantTypes DEF limits, digest
<1> DEFINE f == [stage |-> "exports", on |-> instance, round |-> 1,
                 due |-> queue[instance] \cup batch[instance]]
<1>t. /\ TypeOK /\ MadeOK /\ RetiredIsEmpty /\ RetiringOK /\ IdsOK /\ FlushOK
      /\ a \in Flushers
  BY DEF IndInv, Flushers
<1>a. /\ saves < MaxSaves /\ saves' = saves + 1 /\ cached' = new
      /\ UNCHANGED <<now, closed, made, settings, lineage, limits, digest, accepted,
                     delivered, told>>
      /\ flush[a].stage = "idle"
  BY DEF Save
<1>n. /\ made \in Nat /\ saves \in Nat /\ instance \in Nat
      /\ saves' \in 0..MaxSaves /\ made <= saves' /\ instance' = 0
  <2>1. instance' = 0
    BY DEF Save
  <2> QED BY <1>t, <1>a, <2>1 DEF TypeOK, MadeOK
\* Either there is nothing to reload, or the notifier of the process is flushed.
<1>f. /\ flush' \in [Flushers -> [stage : Stages, on : Notifiers, round : 1..2,
                                  due : SUBSET Findings]]
      /\ digestTimer' \in [Notifiers -> BOOLEAN]
      /\ \A b \in Flushers : b # a => flush'[b] = flush[b]
      /\ \/ flush'[a] = flush[a] /\ digestTimer' = digestTimer
         \/ /\ instance \in Notifiers
            /\ flush'[a].stage = "exports" /\ flush'[a].on = instance /\ flush'[a].round = 1
            /\ flush'[a].due = queue[instance] \cup batch[instance]
            /\ \A n \in Notifiers : n # instance => digestTimer'[n] = digestTimer[n]
  <2>1. CASE instance = 0
    BY <1>t, <2>1 DEF Save, TypeOK
  <2>2. CASE instance # 0
    <3>1. instance \in Notifiers
      BY <1>t, <2>2 DEF TypeOK, Notifiers
    <3>2. /\ flush' = [flush EXCEPT ![a] = f]
          /\ digestTimer' = [digestTimer EXCEPT ![instance] = FALSE]
      BY <2>2 DEF Save, FlushBegun
    <3>3. f \in [stage : Stages, on : Notifiers, round : 1..2, due : SUBSET Findings]
      <4>1. f.due \subseteq Findings
        BY <1>t, <3>1 DEF TypeOK
      <4> QED BY <3>1, <4>1 DEF Stages
    <3>4. /\ flush' \in [Flushers -> [stage : Stages, on : Notifiers, round : 1..2,
                                      due : SUBSET Findings]]
          /\ flush'[a] = f /\ \A b \in Flushers : b # a => flush'[b] = flush[b]
      BY <1>t, <3>2, <3>3, FlushTypes
    <3>5. /\ digestTimer' \in [Notifiers -> BOOLEAN]
          /\ \A n \in Notifiers : n # instance => digestTimer'[n] = digestTimer[n]
      BY <1>t, <3>1, <3>2 DEF TypeOK
    <3> QED BY <3>1, <3>4, <3>5
  <2> QED BY <2>1, <2>2
<1>1. TypeOK'
  <2>1. instance' \in 0..(MaxSaves + 1)
    BY <1>n
  <2> QED BY <1>t, <1>a, <1>n, <1>f, <2>1 DEF TypeOK
<1>2. MadeOK'
  <2>1. \A b \in Flushers : flush'[b].stage # "idle" => flush'[b].on <= made
    BY <1>t, <1>a, <1>f DEF MadeOK
  <2> QED BY <1>t, <1>a, <1>n, <2>1 DEF MadeOK
<1>3. IdsOK'
  <2>1. \A b \in Flushers : flush'[b].due \subseteq 1..Len(accepted)
    BY <1>t, <1>f DEF IdsOK
  <2> QED BY <1>t, <1>a, <2>1 DEF IdsOK
<1>4. FlushOK'
  <2>1. \A b \in Flushers : b # a => (Offered(b)' <=> Offered(b))
    BY <1>a, <1>f DEF Offered
  <2>2. CASE flush'[a] = flush[a]
    <3>1. \A b \in Flushers : flush'[b] = flush[b] /\ (Offered(b)' <=> Offered(b))
      BY <1>a, <1>f, <2>2 DEF Offered
    <3> QED BY <1>t, <1>a, <3>1 DEF FlushOK
  <2>3. CASE flush'[a].stage = "exports" /\ flush'[a].round = 1
    <3>1. ~Offered(a)'
      BY <2>3 DEF Offered
    <3> QED BY <1>t, <1>a, <1>f, <2>1, <2>3, <3>1 DEF FlushOK
  <2> QED BY <1>f, <2>2, <2>3
<1>5. QueueIsTimed'
  <2> SUFFICES ASSUME NEW n \in Notifiers, queue[n] # {}, ~digestTimer'[n], ~sending[n]
               PROVE  \E b \in Flushers : /\ flush'[b].on = n /\ flush'[b].round = 1
                                          /\ flush'[b].stage \in {"exports", "ready"}
    BY <1>a DEF QueueIsTimed
  <2>1. CASE ~digestTimer[n]
    <3>1. PICK b \in Flushers : /\ flush[b].on = n /\ flush[b].round = 1
                                /\ flush[b].stage \in {"exports", "ready"}
      BY <2>1 DEF IndInv, QueueIsTimed
    <3> QED BY <1>a, <1>f, <3>1
  <2>2. CASE digestTimer[n]
    BY <1>t, <1>f, <2>2
  <2> QED BY <2>1, <2>2
<1>6. RetiringOK'
  <2> SUFFICES ASSUME NEW b \in Savers, flush'[b].stage # "idle"
               PROVE  flush'[b].on # 0 /\ queue[flush'[b].on] \subseteq flush'[b].due
    BY <1>a, <1>n DEF RetiringOK
  <2>1. b \in Flushers /\ flush'[b].on \in Notifiers
    BY <1>f DEF Flushers
  <2>2. flush'[b].on # 0
    BY <2>1 DEF Notifiers
  <2> QED BY <1>t, <1>a, <1>f, <2>1, <2>2 DEF RetiringOK
<1>7. RetiredIsEmpty' /\ SettingsInForce'
  <2>1. 0 \notin closed
    BY <1>t DEF TypeOK, Notifiers
  <2> QED BY <1>t, <1>a, <1>n, <2>1 DEF RetiredIsEmpty, SettingsInForce
<1>8. LineageOK' /\ WindowOK' /\ RoomOK'
  BY <1>a DEF IndInv, LineageOK, WindowOK, RoomOK, Recent
<1>9. CeilingHolds'
  BY <1>t, <1>a, CeilingKept DEF IndInv
<1> QED BY <1>1, <1>2, <1>3, <1>4, <1>5, <1>6, <1>7, <1>8, <1>9 DEF IndInv

\* Handing a digest to the channels: it takes the whole queue, and the ceiling
\* that let the queue grow still has room for it.
LEMMA SendInv ==
    ASSUME IndInv, NEW n \in Notifiers, CanDispatch(n), StartSend(n),
           UNCHANGED <<now, cached, saves, closed, identity, lastNotifiedAt, accepted,
                       delivered, told>>
    PROVE  /\ LineageOK' /\ WindowOK' /\ RoomOK' /\ RetiredIsEmpty' /\ SettingsInForce'
           /\ CeilingHolds'
           /\ \A j \in DOMAIN sends' : sends'[j].by <= made /\ sends'[j].at <= now
           /\ sends' \in Seq([at : Times, by : Notifiers])
           /\ sentTimestamps' \in [Notifiers -> SUBSET DOMAIN sends']
           /\ queue' \in [Notifiers -> SUBSET Findings] /\ omitted' \in [Notifiers -> Nat]
           /\ batch' \in [Notifiers -> SUBSET Findings] /\ batchOmitted' \in [Notifiers -> Nat]
           /\ sending' \in [Notifiers -> BOOLEAN]
           /\ queue'[n] = {} /\ sending'[n]
           /\ \A m \in Notifiers : m # n => /\ queue'[m] = queue[m] /\ sending'[m] = sending[m]
                                            /\ omitted'[m] = omitted[m]
           /\ omitted'[n] = 0
           /\ \A m \in Notifiers : batch'[m] \subseteq 1..Len(accepted)
<1> USE ConstantTypes DEF identity
<1> DEFINE L == Len(sends)
<1>t. TypeOK /\ MadeOK /\ IdsOK /\ RetiredIsEmpty
  BY DEF IndInv
<1>u. UNCHANGED <<now, cached, saves, closed, instance, made, settings, lineage, accepted>>
  OBVIOUS
<1>1. /\ queue' = [queue EXCEPT ![n] = {}] /\ sending' = [sending EXCEPT ![n] = TRUE]
      /\ batch' = [batch EXCEPT ![n] = queue[n]]
      /\ batchOmitted' = [batchOmitted EXCEPT ![n] = omitted[n]]
      /\ omitted' = [omitted EXCEPT ![n] = 0]
      /\ sentTimestamps' = [sentTimestamps EXCEPT ![n] = @ \cup {L + 1}]
      /\ sends' = Append(sends, [at |-> now, by |-> n])
      /\ queue[n] # {}
  BY DEF StartSend, OmittedAfter, CanDispatch
<1>2. /\ queue' \in [Notifiers -> SUBSET Findings] /\ omitted' \in [Notifiers -> Nat]
      /\ batch' \in [Notifiers -> SUBSET Findings] /\ batchOmitted' \in [Notifiers -> Nat]
      /\ sending' \in [Notifiers -> BOOLEAN]
      /\ queue'[n] = {} /\ sending'[n] /\ omitted'[n] = 0
      /\ \A m \in Notifiers : m # n => /\ queue'[m] = queue[m] /\ sending'[m] = sending[m]
                                       /\ omitted'[m] = omitted[m]
  BY <1>t, <1>1 DEF TypeOK
<1>3. \A m \in Notifiers : batch'[m] \subseteq 1..Len(accepted)
  BY <1>t, <1>1 DEF IdsOK, TypeOK
\* What is appended to the history of sends.
<1>4. /\ L \in Nat /\ DOMAIN sends = 1..L /\ DOMAIN sends' = 1..(L + 1)
      /\ sends' \in Seq([at : Times, by : Notifiers])
      /\ \A j \in 1..L : sends'[j] = sends[j]
      /\ sends'[L + 1] = [at |-> now, by |-> n]
  <2> DEFINE S == [at : Times, by : Notifiers]
             e == [at |-> now, by |-> n]
  <2>1. e \in S /\ sends \in Seq(S) /\ sends' = Append(sends, e)
    BY <1>t, <1>1 DEF TypeOK
  <2> HIDE DEF S, e
  <2>2. /\ L \in Nat /\ DOMAIN sends = 1..L
        /\ sends' \in Seq(S) /\ Len(sends') = L + 1
        /\ \A j \in 1..L : sends'[j] = sends[j]
        /\ sends'[L + 1] = e
    BY <2>1, SeqFacts
  <2>3. DOMAIN sends' = 1..(L + 1)
    BY <2>2, SeqFacts
  <2> QED BY <2>2, <2>3 DEF S, e
<1>5. \A j \in 1..L : /\ sends[j].at \in Nat /\ sends[j].at <= now /\ now \in Nat
                      /\ sends[j].by \in Notifiers /\ sends[j].by <= made
  <2>1. \A j \in 1..L : sends[j].by <= made /\ sends[j].at <= now
    BY <1>t, <1>4 DEF MadeOK
  <2>2. now \in Nat
    BY <1>t DEF TypeOK, Times
  <2>3. \A j \in 1..L : sends[j].at \in Nat /\ sends[j].by \in Notifiers
    BY <1>t, <1>4, SendsFacts DEF Times
  <2> QED BY <2>1, <2>2, <2>3
<1>6. \A j \in DOMAIN sends' : sends'[j].by <= made /\ sends'[j].at <= now
  <2>1. n <= made /\ now <= now
    BY <1>t, <1>1 DEF MadeOK, TypeOK, Times
  <2>2. sends'[L + 1].by = n /\ sends'[L + 1].at = now
    BY <1>4
  <2> HIDE DEF L
  <2> QED BY <1>4, <1>5, <2>1, <2>2
<1>7. sentTimestamps' \in [Notifiers -> SUBSET DOMAIN sends']
  <2>1. sentTimestamps \in [Notifiers -> SUBSET (1..L)]
    BY <1>t, <1>4 DEF TypeOK
  <2> HIDE DEF L
  <2> QED BY <1>1, <1>4, <2>1
<1>8. \A m \in Notifiers : m # n => sentTimestamps'[m] = sentTimestamps[m]
  BY <1>t, <1>1 DEF TypeOK
<1>9. sentTimestamps'[n] = sentTimestamps[n] \cup {L + 1}
  BY <1>t, <1>1 DEF TypeOK
<1>10. LineageOK' /\ SettingsInForce'
  BY DEF IndInv, LineageOK, SettingsInForce
<1>11. RetiredIsEmpty'
  <2>1. n \notin closed /\ closed \subseteq Notifiers
    BY <1>t, <1>1 DEF RetiredIsEmpty, TypeOK
  <2> QED BY <1>t, <1>u, <1>2, <2>1 DEF RetiredIsEmpty
<1>12. WindowOK'
  <2> SUFFICES ASSUME NEW m \in Notifiers, NEW j \in DOMAIN sends',
                      sends'[j].by \in lineage[m], sends'[j].at + Hour >= now
               PROVE  j \in sentTimestamps'[m]
    BY <1>u DEF WindowOK
  <2>1. CASE j = L + 1
    <3>1. n \in lineage[m]
      BY <1>4, <2>1
    <3>2. m = n
      BY <1>t, <1>1, <3>1 DEF IndInv, LineageOK, RetiredIsEmpty
    <3> QED BY <1>9, <2>1, <3>2
  <2>2. CASE j \in 1..L
    <3>1. j \in sentTimestamps[m]
      BY <1>4, <2>2 DEF IndInv, WindowOK
    <3> QED BY <1>8, <1>9, <3>1
  <2> QED BY <1>4, <2>1, <2>2
<1>13. RoomOK'
  <2> SUFFICES ASSUME NEW m \in Notifiers, queue'[m] # {}
               PROVE  Cardinality(Recent(sentTimestamps[m])') < settings[m].maxPerHour
    BY <1>u DEF RoomOK
  <2>1. m # n /\ queue[m] # {}
    BY <1>2
  <2>2. sentTimestamps'[m] = sentTimestamps[m] /\ sentTimestamps[m] \subseteq 1..L
    BY <1>t, <1>4, <1>8, <2>1 DEF TypeOK
  <2>3. Recent(sentTimestamps[m])' = Recent(sentTimestamps[m])
    BY <1>4, <1>u, <2>2 DEF Recent
  <2> QED BY <2>1, <2>3 DEF IndInv, RoomOK
<1>14. CeilingHolds'
  <2> DEFINE Sent(i) == {j \in 1..i : sends'[j].by \in lineage[sends'[i].by]
                                      /\ sends'[j].at + Hour >= sends'[i].at}
  <2> SUFFICES ASSUME NEW i \in 1..(L + 1)
               PROVE  Cardinality(Sent(i)) <= settings[sends'[i].by].maxPerHour
    BY <1>4, <1>u DEF CeilingHolds
  <2>1. CASE i \in 1..L
    <3>1. \A j \in 1..i : j \in 1..L
      BY <1>4, <2>1
    <3>2. Sent(i) = {j \in 1..i : sends[j].by \in lineage[sends[i].by]
                                  /\ sends[j].at + Hour >= sends[i].at}
      BY <1>4, <2>1, <3>1
    <3>3. sends'[i] = sends[i] /\ i \in DOMAIN sends
      BY <1>4, <2>1
    <3> HIDE DEF Sent
    <3> QED BY <3>2, <3>3 DEF IndInv, CeilingHolds
  <2>2. CASE i = L + 1
    <3> DEFINE R == Recent(sentTimestamps[n])
    <3>1. sends'[i].by = n /\ sends'[i].at = now
      BY <1>4, <2>2
    <3>2. Sent(i) \subseteq R \cup {L + 1}
      <4> SUFFICES ASSUME NEW j \in 1..(L + 1), j # L + 1, sends'[j].by \in lineage[n],
                          sends'[j].at + Hour >= now
                   PROVE  j \in R
        BY <2>2, <3>1
      <4>1. j \in 1..L
        BY <1>4
      <4>2. sends[j].by \in lineage[n] /\ sends[j].at + Hour >= now /\ j \in DOMAIN sends
        BY <1>4, <4>1
      <4>3. j \in sentTimestamps[n]
        BY <4>2 DEF IndInv, WindowOK
      <4> QED BY <4>2, <4>3 DEF Recent
    <3>3. /\ IsFiniteSet(R) /\ Cardinality(R) \in Nat
          /\ Cardinality(R) < settings[n].maxPerHour /\ settings[n].maxPerHour \in Nat
      BY <1>t, <1>1, WindowFinite DEF IndInv, RoomOK, TypeOK
    <3> HIDE DEF R, Sent
    <3>4. /\ IsFiniteSet(R \cup {L + 1})
          /\ Cardinality(R \cup {L + 1}) = Cardinality(R)
               \/ Cardinality(R \cup {L + 1}) = Cardinality(R) + 1
      BY <3>3, FS_AddElement
    <3>5. /\ Cardinality(Sent(i)) <= Cardinality(R \cup {L + 1})
          /\ Cardinality(Sent(i)) \in Nat
      BY <3>2, <3>4, FS_Subset, FS_CardinalityType
    <3> QED BY <3>1, <3>3, <3>4, <3>5
  <2> QED BY <1>4, <2>1, <2>2
<1> HIDE DEF L
<1> QED BY <1>2, <1>3, <1>4, <1>6, <1>7, <1>10, <1>11, <1>12, <1>13, <1>14

\* A send that the timer or a flush starts.
LEMMA SentInv ==
    ASSUME IndInv, NEW n \in Notifiers, CanDispatch(n), StartSend(n),
           UNCHANGED <<now, cached, saves, closed, identity, lastNotifiedAt, accepted,
                       delivered, told>>,
           digestTimer' \in [Notifiers -> BOOLEAN],
           \A m \in Notifiers : m # n => digestTimer'[m] = digestTimer[m],
           flush' \in [Flushers -> [stage : Stages, on : Notifiers, round : 1..2,
                                    due : SUBSET Findings]],
           \A b \in Flushers :
              /\ flush'[b].on = flush[b].on /\ flush'[b].due = flush[b].due
              /\ flush'[b].round = flush[b].round
              /\ \/ flush'[b].stage = flush[b].stage
                 \/ flush[b].on = n /\ flush[b].stage = "ready" /\ flush'[b].stage = "sending"
    PROVE  IndInv'
<1> USE ConstantTypes
<1>t. /\ TypeOK /\ MadeOK /\ IdsOK /\ FlushOK /\ RetiringOK
      /\ UNCHANGED <<instance, made, settings, lineage>>
  BY DEF IndInv, identity
<1>s. /\ LineageOK' /\ WindowOK' /\ RoomOK' /\ RetiredIsEmpty' /\ SettingsInForce'
      /\ CeilingHolds'
      /\ \A j \in DOMAIN sends' : sends'[j].by <= made /\ sends'[j].at <= now
      /\ sends' \in Seq([at : Times, by : Notifiers])
      /\ sentTimestamps' \in [Notifiers -> SUBSET DOMAIN sends']
      /\ queue' \in [Notifiers -> SUBSET Findings] /\ omitted' \in [Notifiers -> Nat]
      /\ batch' \in [Notifiers -> SUBSET Findings] /\ batchOmitted' \in [Notifiers -> Nat]
      /\ sending' \in [Notifiers -> BOOLEAN]
      /\ queue'[n] = {} /\ sending'[n]
      /\ \A m \in Notifiers : m # n => /\ queue'[m] = queue[m] /\ sending'[m] = sending[m]
                                       /\ omitted'[m] = omitted[m]
      /\ omitted'[n] = 0
      /\ \A m \in Notifiers : batch'[m] \subseteq 1..Len(accepted)
  BY SendInv
<1>o. \A b \in Flushers : flush[b].on \in Notifiers
  BY <1>t, FlushTypes
<1>1. TypeOK'
  BY <1>t, <1>s DEF TypeOK
<1>2. MadeOK'
  <2>1. \A b \in Flushers : flush'[b].stage # "idle" => flush'[b].on <= made
    BY <1>t DEF MadeOK
  <2>2. \A m \in Notifiers : queue'[m] # {} => m <= made
    BY <1>t, <1>s DEF MadeOK
  <2> QED BY <1>t, <1>s, <2>1, <2>2 DEF MadeOK
<1>3. IdsOK'
  <2>1. \A m \in Notifiers : queue'[m] \subseteq 1..Len(accepted)
    BY <1>t, <1>s DEF IdsOK
  <2>2. \A m \in Notifiers : omitted'[m] > 0 => queue'[m] # {}
    <3>1. ~(omitted'[n] > 0)
      BY <1>s
    <3>2. \A m \in Notifiers : omitted[m] > 0 => queue[m] # {}
      BY <1>t DEF IdsOK
    <3> QED BY <1>s, <3>1, <3>2
  <2>3. \A b \in Flushers : flush'[b].due \subseteq 1..Len(accepted)
    BY <1>t DEF IdsOK
  <2> QED BY <1>s, <2>1, <2>2, <2>3 DEF IdsOK
<1>4. FlushOK'
  <2> SUFFICES ASSUME NEW b \in Flushers
               PROVE  /\ flush'[b].stage \in {"idle", "exports"} => flush'[b].round = 1
                      /\ Offered(b)' => flush[b].due \cap queue'[flush[b].on] = {}
    BY DEF FlushOK
  <2>1. CASE flush[b].on = n
    BY <1>t, <1>s, <2>1 DEF FlushOK
  <2>2. CASE flush[b].on # n
    <3>1. sending'[flush[b].on] = sending[flush[b].on] /\ queue'[flush[b].on] = queue[flush[b].on]
      BY <1>s, <1>o, <2>2
    <3>2. Offered(b)' => Offered(b)
      BY <2>2, <3>1 DEF Offered
    <3> QED BY <1>t, <2>2, <3>1, <3>2 DEF FlushOK
  <2> QED BY <2>1, <2>2
<1>5. QueueIsTimed'
  <2> SUFFICES ASSUME NEW m \in Notifiers, queue'[m] # {}, ~digestTimer'[m], ~sending'[m]
               PROVE  \E b \in Flushers : /\ flush'[b].on = m /\ flush'[b].round = 1
                                          /\ flush'[b].stage \in {"exports", "ready"}
    BY DEF QueueIsTimed
  <2>1. m # n /\ queue[m] # {} /\ ~digestTimer[m] /\ ~sending[m]
    BY <1>s
  <2>2. PICK b \in Flushers : /\ flush[b].on = m /\ flush[b].round = 1
                              /\ flush[b].stage \in {"exports", "ready"}
    BY <2>1 DEF IndInv, QueueIsTimed
  <2> QED BY <2>1, <2>2
<1>6. RetiringOK'
  <2> SUFFICES ASSUME NEW b \in Savers, flush'[b].stage # "idle"
               PROVE  instance # flush[b].on /\ queue'[flush[b].on] \subseteq flush[b].due
    BY <1>t DEF RetiringOK, Flushers
  <2>1. b \in Flushers /\ flush[b].stage # "idle"
    BY DEF Flushers
  <2>2. queue'[flush[b].on] \subseteq queue[flush[b].on]
    BY <1>s, <1>o, <2>1
  <2> QED BY <1>t, <2>1, <2>2 DEF RetiringOK
<1> QED BY <1>s, <1>1, <1>2, <1>3, <1>4, <1>5, <1>6 DEF IndInv

LEMMA DigestTimerFiresInv ==
    ASSUME NEW n \in Notifiers PROVE IndInv /\ DigestTimerFires(n) => IndInv'
<1> SUFFICES ASSUME IndInv, DigestTimerFires(n) PROVE IndInv'
  OBVIOUS
<1>t. TypeOK
  BY DEF IndInv
<1>a. /\ digestTimer' = [digestTimer EXCEPT ![n] = FALSE]
      /\ UNCHANGED <<now, cached, saves, closed, flush, identity, lastNotifiedAt,
                     accepted, delivered, told>>
  BY DEF DigestTimerFires
<1>d. /\ digestTimer' \in [Notifiers -> BOOLEAN]
      /\ \A m \in Notifiers : m # n => digestTimer'[m] = digestTimer[m]
  BY <1>t, <1>a DEF TypeOK
<1>f. flush \in [Flushers -> [stage : Stages, on : Notifiers, round : 1..2, due : SUBSET Findings]]
  BY <1>t DEF TypeOK
<1>1. CASE CanDispatch(n)
  <2>1. StartSend(n)
    BY <1>1 DEF DigestTimerFires
  <2> QED BY <1>1, <1>a, <1>d, <1>f, <2>1, SentInv
<1>2. CASE ~CanDispatch(n)
  <2>1. UNCHANGED <<digest, sentTimestamps, sends>>
    BY <1>2 DEF DigestTimerFires, NoSend
  <2>2. TypeOK'
    BY <1>t, <1>a, <1>d, <2>1 DEF TypeOK, digest, identity
  <2>3. QueueIsTimed'
    BY <1>2, <1>a, <1>d, <2>1 DEF IndInv, QueueIsTimed, CanDispatch, digest
  <2>4. MadeOK' /\ IdsOK' /\ FlushOK' /\ RetiringOK'
    BY <1>a, <2>1 DEF IndInv, MadeOK, IdsOK, FlushOK, Offered, RetiringOK, digest, identity
  <2>5. LineageOK' /\ WindowOK' /\ RoomOK' /\ RetiredIsEmpty' /\ SettingsInForce' /\ CeilingHolds'
    BY <1>a, <2>1 DEF IndInv, LineageOK, WindowOK, RoomOK, Recent, RetiredIsEmpty,
                      SettingsInForce, CeilingHolds, digest, identity
  <2> QED BY <2>2, <2>3, <2>4, <2>5 DEF IndInv
<1> QED BY <1>1, <1>2

LEMMA FlushDispatchInv == ASSUME NEW a \in Flushers PROVE IndInv /\ FlushDispatch(a) => IndInv'
<1> SUFFICES ASSUME IndInv, FlushDispatch(a) PROVE IndInv'
  OBVIOUS
<1> DEFINE n == flush[a].on
<1>t. /\ TypeOK /\ flush[a].stage = "ready"
      /\ flush[a] \in [stage : Stages, on : Notifiers, round : 1..2, due : SUBSET Findings]
      /\ flush \in [Flushers -> [stage : Stages, on : Notifiers, round : 1..2,
                                 due : SUBSET Findings]]
  BY FlushTypes DEF IndInv, FlushDispatch
<1>a. UNCHANGED <<now, cached, saves, closed, digestTimer, identity, lastNotifiedAt,
                  accepted, delivered, told>>
  BY DEF FlushDispatch
<1>1. CASE CanDispatch(n)
  <2>1. StartSend(n) /\ flush' = [flush EXCEPT ![a].stage = "sending"]
    BY <1>1 DEF FlushDispatch
  <2>2. /\ flush' \in [Flushers -> [stage : Stages, on : Notifiers, round : 1..2,
                                    due : SUBSET Findings]]
        /\ \A b \in Flushers :
             /\ flush'[b].on = flush[b].on /\ flush'[b].due = flush[b].due
             /\ flush'[b].round = flush[b].round
             /\ \/ flush'[b].stage = flush[b].stage
                \/ flush[b].on = n /\ flush[b].stage = "ready" /\ flush'[b].stage = "sending"
    BY <1>t, <2>1 DEF Stages
  <2>3. digestTimer' \in [Notifiers -> BOOLEAN] /\ digestTimer' = digestTimer /\ n \in Notifiers
    BY <1>t, <1>a DEF TypeOK
  <2> HIDE DEF n
  <2> QED BY <1>1, <1>a, <2>1, <2>2, <2>3, SentInv
<1>2. CASE ~CanDispatch(n)
  <2> DEFINE f == [flush[a] EXCEPT !.stage = IF flush[a].round = 1 THEN "check" ELSE "done"]
  <2>1. NoSend /\ flush' = [flush EXCEPT ![a] = f]
    BY <1>t, <1>2 DEF FlushDispatch
  <2>2. /\ f \in [stage : Stages, on : Notifiers, round : 1..2, due : SUBSET Findings]
        /\ f.on = n /\ f.due = flush[a].due /\ f.stage \in {"check", "done"}
    BY <1>t DEF Stages
  <2>3. Offered(a) \/ queue[n] = {}
    BY <1>t, <1>2 DEF CanDispatch, Offered
  <2>4. queue[n] = {} \/ sending[n]
    BY <1>2 DEF CanDispatch
  <2>5. UNCHANGED <<now, cached, saves, closed, digestTimer, identity, limits, digest,
                    accepted, delivered, told>>
    BY <1>a, <2>1 DEF NoSend, limits
  <2> HIDE DEF f
  <2> QED BY <1>t, <2>1, <2>2, <2>3, <2>4, <2>5, OneFlushMoves
<1> QED BY <1>1, <1>2

LEMMA ReplaceInv == ASSUME NEW a \in Savers PROVE IndInv /\ Replace(a) => IndInv'
<1> SUFFICES ASSUME IndInv, Replace(a) PROVE IndInv'
  OBVIOUS
<1> USE ConstantTypes
<1> DEFINE prev == flush[a].on
           n == made + 1
<1>t. /\ TypeOK /\ MadeOK /\ IdsOK /\ FlushOK /\ RetiringOK /\ RetiredIsEmpty
      /\ a \in Flushers /\ flush[a].stage = "done"
  BY DEF IndInv, Flushers, Replace
<1>a. /\ flush' = [flush EXCEPT ![a] = NoFlush]
      /\ closed' = closed \cup {prev}
      /\ UNCHANGED <<now, cached, saves, digestTimer, digest, sends, accepted, delivered, told>>
  BY DEF Replace
<1>d. UNCHANGED <<queue, omitted, sending, batch, batchOmitted>>
  BY <1>a DEF digest
<1>f. /\ flush' \in [Flushers -> [stage : Stages, on : Notifiers, round : 1..2,
                                  due : SUBSET Findings]]
      /\ flush'[a] = NoFlush /\ \A b \in Flushers : b # a => flush'[b] = flush[b]
      /\ \A b \in Flushers : flush[b].on \in Notifiers
  BY <1>t, <1>a, FlushTypes
<1>n. /\ made \in Nat /\ saves \in Nat /\ saves <= MaxSaves /\ made <= MaxSaves + 1
      /\ instance \in Nat /\ prev \in Notifiers /\ prev \in Nat /\ prev <= made /\ 1 <= prev
      /\ \A m \in Notifiers : m \in Nat
  BY <1>t, <1>f DEF TypeOK, MadeOK, Notifiers
\* The flush of the notifier that is replaced has left it with nothing.
<1>e. queue[prev] = {} /\ omitted[prev] = 0 /\ instance # prev
  <2>1. queue[prev] = {} /\ instance # prev
    BY <1>t DEF FlushOK, Offered, RetiringOK
  <2>2. omitted[prev] \in Nat /\ ~(omitted[prev] > 0)
    BY <1>t, <1>n, <2>1 DEF TypeOK, IdsOK
  <2> QED BY <2>1, <2>2
<1>1. IdsOK'
  BY <1>t, <1>a, <1>d, <1>f DEF IdsOK, NoFlush
<1>2. FlushOK'
  <2>1. \A b \in Flushers : b # a => (Offered(b)' <=> Offered(b))
    BY <1>d, <1>f DEF Offered
  <2>2. ~Offered(a)'
    BY <1>f DEF Offered, NoFlush
  <2> QED BY <1>t, <1>d, <1>f, <2>1, <2>2 DEF FlushOK, NoFlush
<1>3. QueueIsTimed'
  <2> SUFFICES ASSUME NEW m \in Notifiers, queue[m] # {}, ~digestTimer[m], ~sending[m]
               PROVE  \E b \in Flushers : /\ flush'[b].on = m /\ flush'[b].round = 1
                                          /\ flush'[b].stage \in {"exports", "ready"}
    BY <1>a, <1>d DEF QueueIsTimed
  <2>1. PICK b \in Flushers : /\ flush[b].on = m /\ flush[b].round = 1
                              /\ flush[b].stage \in {"exports", "ready"}
    BY DEF IndInv, QueueIsTimed
  <2> QED BY <1>t, <1>f, <2>1
<1>4. CASE instance # 0
  <2>1. UNCHANGED <<identity, lastNotifiedAt, sentTimestamps>>
    BY <1>4 DEF Replace
  <2>2. TypeOK'
    BY <1>t, <1>a, <1>d, <1>f, <1>n, <2>1 DEF TypeOK, identity
  <2>3. MadeOK'
    <3>1. closed' \subseteq 1..made
      <4>1. closed \subseteq 1..made
        BY <1>t DEF MadeOK
      <4>2. prev \in 1..made
        BY <1>n
      <4> HIDE DEF prev
      <4> QED BY <1>a, <4>1, <4>2
    <3>2. \A b \in Flushers : flush'[b].stage # "idle" => flush'[b].on <= made
      BY <1>t, <1>f DEF MadeOK, NoFlush
    <3> QED BY <1>t, <1>a, <1>d, <2>1, <3>1, <3>2 DEF MadeOK, identity
  <2>4. RetiringOK'
    BY <1>t, <1>d, <1>f, <2>1 DEF RetiringOK, NoFlush, Flushers, identity
  <2>5. RetiredIsEmpty' /\ SettingsInForce'
    BY <1>t, <1>a, <1>d, <1>e, <2>1 DEF IndInv, RetiredIsEmpty, SettingsInForce, identity
  <2>6. LineageOK' /\ WindowOK' /\ RoomOK' /\ CeilingHolds'
    BY <1>a, <1>d, <2>1 DEF IndInv, LineageOK, WindowOK, RoomOK, Recent, CeilingHolds, identity
  <2> QED BY <1>1, <1>2, <1>3, <2>2, <2>3, <2>4, <2>5, <2>6 DEF IndInv
<1>5. CASE instance = 0
  <2>1. /\ instance' = n /\ made' = n
        /\ settings' = [settings EXCEPT ![n] = cached]
        /\ lineage' = [lineage EXCEPT ![n] = {n} \cup lineage[prev]]
        /\ lastNotifiedAt' = [lastNotifiedAt EXCEPT ![n] = lastNotifiedAt[prev]]
        /\ sentTimestamps' = [sentTimestamps EXCEPT ![n] = sentTimestamps[prev]]
    BY <1>5 DEF Replace, ReplacementSettings, Carried
  <2>2. n \in Notifiers /\ n \in 0..(MaxSaves + 1) /\ n <= saves + 1 /\ n # 0 /\ n > made
    BY <1>5, <1>t, <1>n DEF MadeOK, Notifiers
  <2> HIDE DEF n, prev
  <2>3. /\ settings' \in [Notifiers -> Settings]
        /\ lineage' \in [Notifiers -> SUBSET Notifiers]
        /\ sentTimestamps' \in [Notifiers -> SUBSET DOMAIN sends]
        /\ settings'[n] = cached /\ lineage'[n] = {n} \cup lineage[prev]
        /\ sentTimestamps'[n] = sentTimestamps[prev]
        /\ \A m \in Notifiers : m # n => /\ settings'[m] = settings[m] /\ lineage'[m] = lineage[m]
                                         /\ sentTimestamps'[m] = sentTimestamps[m]
    BY <1>t, <1>n, <2>1, <2>2 DEF TypeOK
  <2>4. lastNotifiedAt' \in [Notifiers -> Seq([key : Keys, at : Times])]
    <3>1. lastNotifiedAt \in [Notifiers -> Seq([key : Keys, at : Times])]
      BY <1>t DEF TypeOK
    <3> QED BY <1>n, <2>1, <2>2, <3>1
  <2>5. TypeOK'
    <3>1. /\ made' \in 0..(MaxSaves + 1) /\ instance' \in 0..(MaxSaves + 1)
          /\ closed' \subseteq Notifiers
      BY <1>t, <1>a, <1>n, <2>1, <2>2 DEF TypeOK
    <3>2. flush' \in [Flushers -> [stage : Stages, on : Notifiers, round : 1..2,
                                   due : SUBSET Findings]]
      BY <1>t, <1>f, <1>n DEF TypeOK
    <3>3. /\ UNCHANGED <<now, cached, saves, digestTimer, sends, accepted, delivered, told>>
          /\ TypeOK
      BY <1>t, <1>a
    <3>4. sentTimestamps' \in [Notifiers -> SUBSET DOMAIN sends']
      BY <2>3, <3>3
    <3> QED BY <1>d, <2>3, <2>4, <3>1, <3>2, <3>3, <3>4 DEF TypeOK
  <2>6. MadeOK'
    <3>1. closed' \subseteq 1..n
      BY <1>t, <1>a, <1>n, <2>2 DEF MadeOK, Notifiers
    <3>2. \A b \in Flushers : flush'[b].stage # "idle" => flush'[b].on <= n
      BY <1>t, <1>f, <1>n, <2>2 DEF MadeOK, NoFlush, Notifiers
    <3>3. \A m \in Notifiers : queue[m] # {} => m <= n
      BY <1>t, <1>n, <2>2 DEF MadeOK
    <3>4. \A j \in DOMAIN sends : sends[j].by <= n /\ sends[j].at <= now
      <4>1. \A j \in DOMAIN sends : sends[j].by \in Nat
        BY <1>t, <1>n, SendsFacts
      <4> QED BY <1>t, <1>n, <2>2, <4>1 DEF MadeOK
    <3>5. n <= saves' + (IF instance' = 0 THEN 0 ELSE 1) /\ instance' <= n
      BY <1>a, <2>1, <2>2
    <3> QED BY <1>a, <1>d, <2>1, <3>1, <3>2, <3>3, <3>4, <3>5 DEF MadeOK
  <2>7. RetiringOK'
    <3>1. \A b \in Flushers : flush[b].stage # "idle" => flush[b].on <= made
      BY <1>t DEF MadeOK
    <3>2. \A b \in Flushers : flush[b].stage # "idle" => flush[b].on # n
      BY <1>f, <1>n, <2>2, <3>1
    <3> QED BY <1>t, <1>d, <1>f, <2>1, <3>2 DEF RetiringOK, NoFlush, Flushers
  <2>8. RetiredIsEmpty' /\ SettingsInForce'
    <3>1. n \notin closed'
      BY <1>t, <1>a, <1>n, <2>2 DEF MadeOK
    <3> QED BY <1>t, <1>a, <1>d, <1>e, <2>1, <2>3, <3>1 DEF RetiredIsEmpty, SettingsInForce, prev
  <2>9. LineageOK'
    <3>1. LineageOK
      BY DEF IndInv
    <3>2. lineage'[n] \ {n} \subseteq closed'
      BY <1>a, <1>n, <2>3, <3>1 DEF LineageOK, prev
    <3>3. \A m \in Notifiers : m > n => m > made /\ m # n
      BY <1>n, <2>2
    <3> QED BY <1>a, <2>1, <2>3, <3>1, <3>2, <3>3 DEF LineageOK
  <2>10. WindowOK'
    <3> SUFFICES ASSUME NEW m \in Notifiers, NEW j \in DOMAIN sends,
                        sends[j].by \in lineage'[m], sends[j].at + Hour >= now
                 PROVE  j \in sentTimestamps'[m]
      BY <1>a DEF WindowOK
    <3>1. sends[j].by <= made /\ sends[j].by \in Nat
      BY <1>t, <1>n, SendsFacts DEF MadeOK
    <3>2. sends[j].by # n
      BY <1>n, <2>2, <3>1
    <3>3. CASE m = n
      <4>1. sends[j].by \in lineage[prev]
        BY <2>3, <3>2, <3>3
      <4>2. j \in sentTimestamps[prev]
        BY <1>n, <4>1 DEF IndInv, WindowOK
      <4> QED BY <2>3, <3>3, <4>2
    <3>4. CASE m # n
      BY <2>3, <3>4 DEF IndInv, WindowOK
    <3> QED BY <3>3, <3>4
  <2>11. RoomOK'
    <3> SUFFICES ASSUME NEW m \in Notifiers, queue[m] # {}
                 PROVE  Cardinality(Recent(sentTimestamps[m])') < settings'[m].maxPerHour
      BY <1>d DEF RoomOK
    <3>1. m <= made /\ m # n
      BY <1>t, <1>n, <2>2 DEF MadeOK
    <3>2. Recent(sentTimestamps[m])' = Recent(sentTimestamps[m])
      BY <1>a, <2>3, <3>1 DEF Recent
    <3> QED BY <2>3, <3>1, <3>2 DEF IndInv, RoomOK
  <2>12. CeilingHolds'
    <3>1. \A m \in Notifiers : m <= made => m # n
      BY <1>n, <2>2
    <3> QED BY <1>t, <1>a, <2>3, <3>1, CeilingKept DEF IndInv
  <2> QED BY <1>1, <1>2, <1>3, <2>5, <2>6, <2>7, <2>8, <2>9, <2>10, <2>11, <2>12 DEF IndInv
<1> QED BY <1>4, <1>5

\* Every reachable state satisfies the inductive invariant.
THEOREM Inductive == Spec => []IndInv
<1>1. IndInv /\ [Next]_vars => IndInv'
  <2> SUFFICES ASSUME IndInv, [Next]_vars PROVE IndInv'
    OBVIOUS
  <2>1. CASE Tick
    BY <2>1, TickInv
  <2>2. CASE Status \/ \E k \in Keys : Refuse(k) \/ RateLimit(k)
    BY <2>2, ConsideredInv, LookedInv
  <2>3. ASSUME NEW k \in Keys, Accept(k) PROVE IndInv'
    BY <2>3, AcceptInv
  <2>4. ASSUME NEW n \in Notifiers, DigestTimerFires(n) \/ Settle(n) PROVE IndInv'
    BY <2>4, DigestTimerFiresInv, SettleInv
  <2>5. ASSUME NEW a \in Flushers, FlushStep(a) PROVE IndInv'
    BY <2>5, ExportsDoneInv, FlushDispatchInv, FlushCheckInv DEF FlushStep
  <2>6. ASSUME NEW a \in Closers, CloseSink(a) \/ SinkClosed(a) PROVE IndInv'
    BY <2>6, CloseSinkInv, SinkClosedInv
  <2>7. ASSUME NEW a \in Savers, NEW new \in Settings, Save(a, new) PROVE IndInv'
    BY <2>7, SaveInv
  <2>8. ASSUME NEW a \in Savers, Replace(a) PROVE IndInv'
    BY <2>8, ReplaceInv
  <2>9. CASE UNCHANGED vars
    <3> USE <2>9 DEF vars
    <3>1. TypeOK' /\ MadeOK' /\ IdsOK'
      BY DEF IndInv, TypeOK, MadeOK, IdsOK
    <3>2. FlushOK' /\ RetiringOK' /\ LineageOK' /\ QueueIsTimed'
      BY DEF IndInv, FlushOK, Offered, RetiringOK, LineageOK, QueueIsTimed
    <3>3. WindowOK' /\ RoomOK' /\ RetiredIsEmpty' /\ SettingsInForce' /\ CeilingHolds'
      BY DEF IndInv, WindowOK, RoomOK, Recent, RetiredIsEmpty, SettingsInForce, CeilingHolds
    <3> QED BY <3>1, <3>2, <3>3 DEF IndInv
  <2> QED BY <2>1, <2>2, <2>3, <2>4, <2>5, <2>6, <2>7, <2>8, <2>9 DEF Next, Consider
<1> QED BY <1>1, InitInv, PTL DEF Spec

\* The variables keep their types.
THEOREM TypeCorrect == Spec => []TypeOK
<1>1. IndInv => TypeOK
  BY DEF IndInv
<1> QED BY <1>1, Inductive, PTL

\* The hourly ceiling holds across reloads, whatever is saved.
THEOREM CeilingCorrect == Spec => []CeilingHolds
<1>1. IndInv => CeilingHolds
  BY DEF IndInv
<1> QED BY <1>1, Inductive, PTL

\* What is queued always has something that will send it.
THEOREM QueueIsTimedCorrect == Spec => []QueueIsTimed
<1>1. IndInv => QueueIsTimed
  BY DEF IndInv
<1> QED BY <1>1, Inductive, PTL

\* However many flushes overlap, none returns before what it found was sent off.
THEOREM FlushSendsCorrect == Spec => []FlushSends
<1>1. IndInv => FlushSends
  BY DEF IndInv, FlushOK, Offered, FlushSends
<1> QED BY <1>1, Inductive, PTL

\* A notifier that was replaced has nothing left in it.
THEOREM RetiredCorrect == Spec => []RetiredIsEmpty
<1>1. IndInv => RetiredIsEmpty
  BY DEF IndInv
<1> QED BY <1>1, Inductive, PTL

\* The notifier of the process always follows the settings in force.
THEOREM SettingsCorrect == Spec => []SettingsInForce
<1>1. IndInv => SettingsInForce
  BY DEF IndInv
<1> QED BY <1>1, Inductive, PTL

-----------------------------------------------------------------------------
(* Nothing that was accepted gets lost *)

ConservedInv == HeldApart /\ Conserved
OwedBy == [n \in Notifiers |-> Owed(n)]

HeldOK ==
    /\ \A n \in Notifiers :
         /\ IsFiniteSet(queue[n]) /\ Cardinality(queue[n]) \in Nat /\ omitted[n] \in Nat
         /\ IsFiniteSet(batch[n]) /\ Cardinality(batch[n]) \in Nat /\ batchOmitted[n] \in Nat
         /\ Owed(n) \in Nat
    /\ IsFiniteSet(delivered) /\ Cardinality(delivered) \in Nat /\ told \in Nat
    /\ OwedBy \in [Notifiers -> Nat]

LEMMA FiniteFindings ==
    /\ IsFiniteSet(Notifiers)
    /\ \A U \in SUBSET Findings : IsFiniteSet(U) /\ Cardinality(U) \in Nat
<1>1. IsFiniteSet(Findings) /\ IsFiniteSet(Notifiers)
  BY ConstantsAssumption, FS_Interval DEF Findings, Notifiers
<1> QED BY <1>1, FS_Subset, FS_CardinalityType

\* The sets and counts of a notifier are finite, before and after a step.
LEMMA HeldFinite ==
    /\ TypeOK => HeldOK
    /\ TypeOK' => HeldOK'
<1>1. ASSUME TypeOK PROVE HeldOK
  <2>1. /\ \A n \in Notifiers : /\ queue[n] \in SUBSET Findings /\ batch[n] \in SUBSET Findings
                                /\ omitted[n] \in Nat /\ batchOmitted[n] \in Nat
        /\ delivered \in SUBSET Findings /\ told \in Nat
    BY <1>1 DEF TypeOK
  <2> QED BY <2>1, FiniteFindings DEF HeldOK, Owed, OwedBy
<1>2. ASSUME TypeOK' PROVE HeldOK'
  <2>1. /\ \A n \in Notifiers : /\ queue'[n] \in SUBSET Findings /\ batch'[n] \in SUBSET Findings
                                /\ omitted'[n] \in Nat /\ batchOmitted'[n] \in Nat
        /\ delivered' \in SUBSET Findings /\ told' \in Nat
    BY <1>2 DEF TypeOK
  <2> QED BY <2>1, FiniteFindings DEF HeldOK, Owed, OwedBy
<1> QED BY <1>1, <1>2

\* A step that changes what one notifier owes by as much as it accounts for elsewhere.
LEMMA OwedMoves ==
    ASSUME HeldOK, HeldOK', Conserved, NEW n \in Notifiers,
           \A m \in Notifiers : m # n => Owed(m)' = Owed(m),
           NEW d \in Nat, NEW t \in Nat,
           Len(accepted) \in Nat, Len(accepted') = Len(accepted) + d,
           Cardinality(delivered') + told' = Cardinality(delivered) + told + t,
           Owed(n)' + t = Owed(n) + d
    PROVE  Len(accepted') = Cardinality(delivered') + told' + SumFunction(OwedBy')
<1>1. /\ OwedBy[n] = Owed(n) /\ OwedBy'[n] = Owed(n)'
      /\ \A m \in Notifiers : m # n => OwedBy'[m] = OwedBy[m]
  BY DEF OwedBy
<1>2. /\ OwedBy \in [Notifiers -> Nat] /\ OwedBy' \in [Notifiers -> Nat]
      /\ Cardinality(delivered) \in Nat /\ told \in Nat
      /\ Cardinality(delivered') \in Nat /\ told' \in Nat
      /\ Owed(n) \in Nat /\ Owed(n)' \in Nat
  BY DEF HeldOK
<1>3. /\ SumFunction(OwedBy) \in Nat /\ SumFunction(OwedBy') \in Nat
      /\ SumFunction(OwedBy') = (SumFunction(OwedBy) - Owed(n)) + Owed(n)'
  <2> DEFINE f == OwedBy
             g == OwedBy'
  <2>1. f \in [Notifiers -> Nat] /\ g \in [Notifiers -> Nat] /\ IsFiniteSet(Notifiers)
        /\ \A m \in Notifiers : m # n => g[m] = f[m]
    BY <1>1, <1>2, FiniteFindings
  <2>2. f[n] = Owed(n) /\ g[n] = Owed(n)'
    BY <1>1
  <2> HIDE DEF f, g
  <2>3. /\ SumFunction(f) \in Nat /\ SumFunction(g) \in Nat
        /\ SumFunction(g) = (SumFunction(f) - f[n]) + g[n]
    BY <2>1, SumChanged
  <2> QED BY <2>2, <2>3 DEF f, g
<1>4. Len(accepted) = Cardinality(delivered) + told + SumFunction(OwedBy)
  BY DEF Conserved, OwedBy
<1> DEFINE a == Len(accepted)
           b == Len(accepted')
           S == SumFunction(OwedBy)
           R == SumFunction(OwedBy')
           C == Cardinality(delivered)
           D == Cardinality(delivered')
           x == told
           y == told'
           o == Owed(n)
           p == Owed(n)'
<1>5. /\ S \in Nat /\ R \in Nat /\ C \in Nat /\ D \in Nat /\ o \in Nat /\ p \in Nat
      /\ x \in Nat /\ y \in Nat /\ a \in Nat
  BY <1>2, <1>3
<1>6. R = (S - o) + p /\ a = C + x + S /\ b = a + d /\ D + y = C + x + t /\ p + t = o + d
  BY <1>3, <1>4
<1> HIDE DEF a, b, S, R, C, D, x, y, o, p
<1>7. b = D + y + R
  BY <1>5, <1>6
<1> QED BY <1>7 DEF b, D, y, R

\* A step that changes none of these.
Unheld == UNCHANGED <<queue, omitted, batch, batchOmitted, sending, accepted, delivered, told>>

LEMMA UnheldInv == ConservedInv /\ Unheld => ConservedInv'
<1> SUFFICES ASSUME ConservedInv, Unheld PROVE ConservedInv'
  OBVIOUS
<1>1. \A n \in Notifiers : Owed(n)' = Owed(n) /\ Held(n)' = Held(n)
  BY DEF Unheld, Owed, Held
<1>2. OwedBy' = OwedBy
  BY <1>1 DEF OwedBy
<1>3. Len(accepted') = Cardinality(delivered') + told' + SumFunction(OwedBy')
  BY <1>2 DEF ConservedInv, Conserved, OwedBy, Unheld
<1>4. HeldApart'
  BY <1>1 DEF ConservedInv, HeldApart, Unheld
<1> QED BY <1>1, <1>3, <1>4 DEF ConservedInv, Conserved, OwedBy, Unheld

LEMMA ConservedInitInv == Init => ConservedInv
<1> SUFFICES ASSUME Init PROVE ConservedInv
  OBVIOUS
<1>1. \A n \in Notifiers : /\ queue[n] = {} /\ batch[n] = {} /\ omitted[n] = 0
                           /\ batchOmitted[n] = 0 /\ Held(n) = {}
  BY DEF Init, Held
<1>2. accepted = <<>> /\ delivered = {} /\ told = 0
  BY DEF Init
<1>3. HeldApart
  BY <1>1, <1>2 DEF HeldApart
<1>4. OwedBy = [n \in Notifiers |-> 0]
  BY <1>1, FS_EmptySet DEF OwedBy, Owed
<1>5. SumFunction(OwedBy) = 0
  BY <1>4, FiniteFindings, SumZero
<1>6. Len(accepted) = 0 /\ Cardinality(delivered) = 0
  BY <1>2, FS_EmptySet
<1> QED BY <1>1, <1>2, <1>3, <1>5, <1>6 DEF ConservedInv, Conserved, OwedBy

\* A finding accepted is one more that its notifier owes.
LEMMA AcceptConserved ==
    ASSUME IndInv, IndInv', ConservedInv, NEW key \in Keys, Accept(key)
    PROVE  ConservedInv'
<1> DEFINE id == Len(accepted) + 1
<1>t. TypeOK /\ TypeOK' /\ MadeOK /\ RetiredIsEmpty /\ RetiringOK /\ SettingsInForce /\ IdsOK
  BY DEF IndInv
<1>o. PICK n \in Notifiers : n = Obtained
  BY <1>t, ObtainFacts DEF Accept
<1>h. HeldOK /\ HeldOK'
  BY <1>t, HeldFinite
<1>c. HeldApart /\ Conserved
  BY DEF ConservedInv
<1>a. /\ UNCHANGED <<sending, batch, batchOmitted, delivered, told>>
      /\ accepted' = Append(accepted, [key |-> key, at |-> now, by |-> Obtained])
  BY DEF Accept
<1>l. Len(accepted) \in Nat /\ Len(accepted') = Len(accepted) + 1
  BY <1>t, <1>a DEF TypeOK
<1>i. \A m \in Notifiers : id \notin queue[m] /\ id \notin batch[m] /\ id \notin delivered
  BY <1>t, <1>l, <1>c DEF IdsOK, HeldApart
<1>1. /\ \A m \in Notifiers : m # n => queue'[m] = queue[m] /\ omitted'[m] = omitted[m]
      /\ queue'[n] = queue[n] \/ queue'[n] = queue[n] \cup {id}
      /\ Cardinality(queue'[n]) + omitted'[n] = Cardinality(queue[n]) + omitted[n] + 1
  <2>1. /\ queue \in [Notifiers -> SUBSET Findings] /\ omitted \in [Notifiers -> Nat]
        /\ IsFiniteSet(queue[n]) /\ Cardinality(queue[n]) \in Nat /\ omitted[n] \in Nat
    BY <1>t, <1>o, <1>h DEF TypeOK, HeldOK
  <2>2. CASE Cardinality(queue[n]) >= MaxQueued
    <3>1. omitted' = [omitted EXCEPT ![n] = @ + 1] /\ queue' = queue
      BY <1>o, <2>2 DEF Accept
    <3> QED BY <1>o, <2>1, <3>1
  <2>3. CASE ~(Cardinality(queue[n]) >= MaxQueued)
    <3>1. queue' = [queue EXCEPT ![n] = @ \cup {id}] /\ omitted' = omitted
      BY <1>o, <2>3 DEF Accept
    <3>2. Cardinality(queue[n] \cup {id}) = Cardinality(queue[n]) + 1
      BY <1>o, <1>i, <2>1, FS_AddElement
    <3>3. queue'[n] = queue[n] \cup {id}
      BY <1>o, <2>1, <3>1
    <3> QED BY <1>o, <2>1, <3>1, <3>2, <3>3
  <2> QED BY <2>2, <2>3
<1>2. \A m \in Notifiers : m # n => Owed(m)' = Owed(m)
  BY <1>1, <1>a DEF Owed
<1>3. Owed(n)' = Owed(n) + 1
  <2>1. /\ Cardinality(queue[n]) \in Nat /\ omitted[n] \in Nat /\ Cardinality(batch[n]) \in Nat
        /\ batchOmitted[n] \in Nat /\ Cardinality(queue'[n]) \in Nat /\ omitted'[n] \in Nat
    BY <1>o, <1>h DEF HeldOK
  <2>2. /\ Owed(n) = Cardinality(queue[n]) + omitted[n] + Cardinality(batch[n]) + batchOmitted[n]
        /\ Owed(n)' = Cardinality(queue'[n]) + omitted'[n] + Cardinality(batch[n]) + batchOmitted[n]
    BY <1>a DEF Owed
  <2> QED BY <1>1, <2>1, <2>2
<1>4. Len(accepted') = Cardinality(delivered') + told' + SumFunction(OwedBy')
  <2>1. /\ Cardinality(delivered) \in Nat /\ told \in Nat /\ Owed(n) \in Nat
    BY <1>o, <1>h DEF HeldOK
  <2>2. Cardinality(delivered') + told' = Cardinality(delivered) + told + 0
    BY <1>a, <2>1
  <2>3. Owed(n)' + 0 = Owed(n) + 1
    BY <1>3, <2>1
  <2> QED BY <1>h, <1>c, <1>l, <1>2, <2>2, <2>3, OwedMoves
<1>5. \A m \in Notifiers : Held(m)' = Held(m) \/ (m = n /\ Held(m)' = Held(m) \cup {id})
  <2>1. \A m \in Notifiers : m # n => Held(m)' = Held(m)
    BY <1>1, <1>a DEF Held
  <2>2. Held(n)' = Held(n) \/ Held(n)' = Held(n) \cup {id}
    <3> HIDE DEF id
    <3>1. Held(n) = queue[n] \cup batch[n] /\ Held(n)' = queue'[n] \cup batch[n]
      BY <1>a DEF Held
    <3> QED BY <1>1, <3>1
  <2> HIDE DEF id
  <2> QED BY <2>1, <2>2
<1>6. HeldApart'
  <2>1. \A m \in Notifiers : ~sending'[m] => batch'[m] = {} /\ batchOmitted'[m] = 0
    BY <1>c, <1>a DEF HeldApart
  <2>2. \A m \in Notifiers, k \in Notifiers : m # k => Held(m)' \cap Held(k)' = {}
    <3>1. \A m \in Notifiers : id \notin Held(m)
      BY <1>i DEF Held
    <3>2. \A m \in Notifiers, k \in Notifiers : m # k => Held(m) \cap Held(k) = {}
      BY <1>c DEF HeldApart
    <3> HIDE DEF id
    <3> QED BY <1>5, <3>1, <3>2
  <2>3. delivered' \subseteq 1..Len(accepted')
    BY <1>c, <1>a, <1>l DEF HeldApart
  <2> QED BY <2>1, <2>2, <2>3 DEF HeldApart
<1>7. \A m \in Notifiers : queue'[m] \cap batch'[m] = {} /\ Held(m)' \cap delivered' = {}
  <2>1. \A m \in Notifiers : queue[m] \cap batch[m] = {} /\ Held(m) \cap delivered = {}
    BY <1>c DEF Conserved
  <2>2. \A m \in Notifiers : queue'[m] = queue[m] \/ queue'[m] = queue[m] \cup {id}
    BY <1>1
  <2> HIDE DEF id
  <2> QED BY <1>i, <1>a, <1>5, <2>1, <2>2
<1> QED BY <1>4, <1>6, <1>7 DEF ConservedInv, Conserved, OwedBy

\* A digest takes what is queued, and there was none before it.
LEMMA SendConserved ==
    ASSUME IndInv, IndInv', ConservedInv, NEW n \in Notifiers, CanDispatch(n), StartSend(n),
           UNCHANGED <<accepted, delivered, told>>
    PROVE  ConservedInv'
<1>t. TypeOK /\ HeldApart /\ Conserved
  BY DEF IndInv, ConservedInv
<1>1. batch[n] = {} /\ batchOmitted[n] = 0
  BY <1>t DEF HeldApart, CanDispatch
<1>2. /\ queue'[n] = {} /\ omitted'[n] = 0 /\ batch'[n] = queue[n]
      /\ batchOmitted'[n] = omitted[n] /\ sending'[n]
      /\ \A m \in Notifiers : m # n =>
           /\ queue'[m] = queue[m] /\ omitted'[m] = omitted[m] /\ batch'[m] = batch[m]
           /\ batchOmitted'[m] = batchOmitted[m] /\ sending'[m] = sending[m]
  BY <1>t DEF StartSend, OmittedAfter, TypeOK
<1>3. \A m \in Notifiers : Held(m)' = Held(m)
  BY <1>1, <1>2 DEF Held
<1>4. \A m \in Notifiers : Owed(m)' = Owed(m)
  <2>1. Cardinality(queue[n]) \in Nat /\ omitted[n] \in Nat /\ Cardinality({}) = 0
    BY <1>t, HeldFinite, FS_EmptySet DEF HeldOK
  <2>2. Owed(n)' = Owed(n)
    BY <1>1, <1>2, <2>1 DEF Owed
  <2> QED BY <1>2, <2>2 DEF Owed
<1>5. OwedBy' = OwedBy
  BY <1>4 DEF OwedBy
<1>6. Len(accepted') = Cardinality(delivered') + told' + SumFunction(OwedBy')
  BY <1>t, <1>5 DEF Conserved, OwedBy
<1>7. HeldApart'
  BY <1>t, <1>2, <1>3 DEF HeldApart
<1>8. \A m \in Notifiers : queue'[m] \cap batch'[m] = {} /\ Held(m)' \cap delivered' = {}
  BY <1>t, <1>2, <1>3 DEF Conserved
<1> QED BY <1>6, <1>7, <1>8 DEF ConservedInv, Conserved, OwedBy

\* A digest whose delivery is over counts as delivered and told.
LEMMA SettleConserved ==
    ASSUME IndInv, IndInv', ConservedInv, NEW n \in Notifiers, Settle(n)
    PROVE  ConservedInv'
<1>t. TypeOK /\ TypeOK' /\ IdsOK /\ HeldApart /\ Conserved
  BY DEF IndInv, ConservedInv
<1>h. HeldOK /\ HeldOK'
  BY <1>t, HeldFinite
<1>1. /\ batch'[n] = {} /\ batchOmitted'[n] = 0
      /\ delivered' = delivered \cup batch[n] /\ told' = told + batchOmitted[n]
      /\ queue' = queue /\ omitted' = omitted /\ accepted' = accepted
      /\ \A m \in Notifiers : m # n =>
           /\ batch'[m] = batch[m] /\ batchOmitted'[m] = batchOmitted[m]
           /\ sending'[m] = sending[m]
  BY <1>t DEF Settle, TypeOK
<1>2. /\ IsFiniteSet(batch[n]) /\ IsFiniteSet(delivered) /\ Cardinality(queue[n]) \in Nat
      /\ Cardinality(batch[n]) \in Nat /\ Cardinality(delivered) \in Nat
      /\ omitted[n] \in Nat /\ batchOmitted[n] \in Nat /\ told \in Nat
  BY <1>h DEF HeldOK
<1>3. delivered \cap batch[n] = {}
  BY <1>t DEF Conserved, Held
<1>4. Cardinality(delivered') = Cardinality(delivered) + Cardinality(batch[n])
  <2>1. Cardinality(delivered \cup batch[n])
          = Cardinality(delivered) + Cardinality(batch[n]) - Cardinality(delivered \cap batch[n])
    BY <1>2, FS_Union
  <2>2. Cardinality(delivered \cap batch[n]) = 0
    BY <1>3, FS_EmptySet
  <2> QED BY <1>1, <1>2, <2>1, <2>2
<1> DEFINE t == Cardinality(batch[n]) + batchOmitted[n]
<1>5. t \in Nat /\ Cardinality(delivered') + told' = Cardinality(delivered) + told + t
  BY <1>1, <1>2, <1>4
<1>6. Owed(n)' + t = Owed(n) + 0
  <2>1. Cardinality(batch'[n]) = 0
    BY <1>1, FS_EmptySet
  <2>2. /\ Owed(n) = Cardinality(queue[n]) + omitted[n] + Cardinality(batch[n]) + batchOmitted[n]
        /\ Owed(n)' = Cardinality(queue[n]) + omitted[n] + 0 + 0
    BY <1>1, <2>1 DEF Owed
  <2> QED BY <1>2, <2>2
<1>7. \A m \in Notifiers : m # n => Owed(m)' = Owed(m)
  BY <1>1 DEF Owed
<1>8. Len(accepted') = Cardinality(delivered') + told' + SumFunction(OwedBy')
  <2>1. Len(accepted) \in Nat /\ Len(accepted') = Len(accepted) + 0
    BY <1>t, <1>1 DEF TypeOK
  <2> HIDE DEF t
  <2> QED BY <1>t, <1>h, <1>5, <1>6, <1>7, <2>1, OwedMoves
<1>9. \A m \in Notifiers : /\ Held(m)' \subseteq Held(m)
                           /\ Held(m)' \cap batch[n] = {}
  <2>1. Held(n)' = queue[n] /\ queue[n] \cap batch[n] = {}
    BY <1>t, <1>1 DEF Held, Conserved
  <2>2. \A m \in Notifiers : m # n => Held(m)' = Held(m) /\ Held(m) \cap batch[n] = {}
    BY <1>t, <1>1 DEF Held, HeldApart
  <2> QED BY <2>1, <2>2 DEF Held
<1>10. HeldApart'
  <2>1. \A m \in Notifiers : ~sending'[m] => batch'[m] = {} /\ batchOmitted'[m] = 0
    BY <1>t, <1>1 DEF HeldApart
  <2>2. \A m \in Notifiers, k \in Notifiers : m # k => Held(m)' \cap Held(k)' = {}
    BY <1>t, <1>9 DEF HeldApart
  <2>3. delivered' \subseteq 1..Len(accepted')
    BY <1>t, <1>1 DEF HeldApart, IdsOK
  <2> QED BY <2>1, <2>2, <2>3 DEF HeldApart
<1>11. \A m \in Notifiers : queue'[m] \cap batch'[m] = {} /\ Held(m)' \cap delivered' = {}
  <2>1. \A m \in Notifiers : queue'[m] \cap batch'[m] = {}
    BY <1>t, <1>1 DEF Conserved
  <2>2. \A m \in Notifiers : Held(m)' \cap delivered' = {}
    BY <1>t, <1>1, <1>9 DEF Conserved
  <2> QED BY <2>1, <2>2
<1> QED BY <1>8, <1>10, <1>11 DEF ConservedInv, Conserved, OwedBy

LEMMA ConservedStep == IndInv /\ IndInv' /\ ConservedInv /\ [Next]_vars => ConservedInv'
<1> SUFFICES ASSUME IndInv, IndInv', ConservedInv, [Next]_vars PROVE ConservedInv'
  OBVIOUS
<1>1. CASE Tick \/ Status \/ UNCHANGED vars
  <2>1. Unheld
    BY <1>1 DEF Tick, Status, vars, digest, Unheld
  <2> QED BY <2>1, UnheldInv
<1>2. ASSUME NEW k \in Keys, Refuse(k) \/ RateLimit(k) PROVE ConservedInv'
  <2>1. Unheld
    BY <1>2 DEF Refuse, RateLimit, digest, Unheld
  <2> QED BY <2>1, UnheldInv
<1>3. ASSUME NEW k \in Keys, Accept(k) PROVE ConservedInv'
  BY <1>3, AcceptConserved
<1>4. ASSUME NEW n \in Notifiers, DigestTimerFires(n) PROVE ConservedInv'
  <2>1. CASE CanDispatch(n)
    BY <1>4, <2>1, SendConserved DEF DigestTimerFires
  <2>2. CASE ~CanDispatch(n)
    <3>1. Unheld
      BY <1>4, <2>2 DEF DigestTimerFires, NoSend, digest, Unheld
    <3> QED BY <3>1, UnheldInv
  <2> QED BY <2>1, <2>2
<1>5. ASSUME NEW n \in Notifiers, Settle(n) PROVE ConservedInv'
  BY <1>5, SettleConserved
<1>6. ASSUME NEW a \in Flushers, FlushDispatch(a) PROVE ConservedInv'
  <2>1. CASE CanDispatch(flush[a].on)
    <3>1. flush[a].on \in Notifiers
      BY DEF IndInv, TypeOK
    <3>2. StartSend(flush[a].on) /\ UNCHANGED <<accepted, delivered, told>>
      BY <1>6, <2>1 DEF FlushDispatch
    <3> QED BY <2>1, <3>1, <3>2, SendConserved
  <2>2. CASE ~CanDispatch(flush[a].on)
    <3>1. Unheld
      BY <1>6, <2>2 DEF FlushDispatch, NoSend, digest, Unheld
    <3> QED BY <3>1, UnheldInv
  <2> QED BY <2>1, <2>2
<1>7. ASSUME NEW a \in Flushers, ExportsDone(a) \/ FlushCheck(a) PROVE ConservedInv'
  <2>1. Unheld
    BY <1>7 DEF ExportsDone, FlushCheck, digest, Unheld
  <2> QED BY <2>1, UnheldInv
<1>8. ASSUME NEW a \in Closers, CloseSink(a) \/ SinkClosed(a) PROVE ConservedInv'
  <2>1. Unheld
    BY <1>8 DEF CloseSink, SinkClosed, digest, Unheld
  <2> QED BY <2>1, UnheldInv
<1>9. ASSUME NEW a \in Savers, Replace(a) \/ \E new \in Settings : Save(a, new)
      PROVE  ConservedInv'
  <2>1. Unheld
    BY <1>9 DEF Replace, Save, digest, Unheld
  <2> QED BY <2>1, UnheldInv
<1> QED BY <1>1, <1>2, <1>3, <1>4, <1>5, <1>6, <1>7, <1>8, <1>9
        DEF Next, Consider, FlushStep

\* However digests, flushes and reloads overlap, nothing that was accepted is lost or
\* counted twice.
THEOREM ConservedCorrect == Spec => []Conserved
<1>1. Init => ConservedInv
  BY ConservedInitInv
<1>2. IndInv /\ IndInv' /\ ConservedInv /\ [Next]_vars => ConservedInv'
  BY ConservedStep
<1>3. ConservedInv => Conserved
  BY DEF ConservedInv
<1> QED BY <1>1, <1>2, <1>3, Inductive, PTL DEF Spec

-----------------------------------------------------------------------------
(* The throttle across its map's evictions *)

ThrottleInv == MapsOK /\ ThrottleHolds

Entry == [key : Keys, at : Times]
Acceptance == [key : Keys, at : Times, by : Notifiers]

LEMMA AcceptedFacts ==
    ASSUME TypeOK
    PROVE  /\ Len(accepted) \in Nat /\ DOMAIN accepted = 1..Len(accepted)
           /\ \A i \in DOMAIN accepted : /\ accepted[i].key \in Keys /\ accepted[i].at \in Nat
                                         /\ accepted[i].by \in Notifiers
           /\ \A n \in Notifiers :
                /\ lastNotifiedAt[n] \in Seq(Entry) /\ Len(lastNotifiedAt[n]) \in Nat
                /\ DOMAIN lastNotifiedAt[n] = 1..Len(lastNotifiedAt[n])
                /\ \A p \in DOMAIN lastNotifiedAt[n] : lastNotifiedAt[n][p].at \in Nat
           /\ now \in Nat /\ made \in Nat /\ \A n \in Notifiers : n \in Nat
<1>1. accepted \in Seq(Acceptance) /\ \A n \in Notifiers : lastNotifiedAt[n] \in Seq(Entry)
  BY DEF TypeOK, Acceptance, Entry
<1>2. /\ Len(accepted) \in Nat /\ DOMAIN accepted = 1..Len(accepted)
      /\ \A i \in DOMAIN accepted : accepted[i] \in Acceptance
  <2> HIDE DEF Acceptance
  <2> QED BY <1>1, SeqFacts
<1>3. ASSUME NEW n \in Notifiers
      PROVE  /\ Len(lastNotifiedAt[n]) \in Nat
             /\ DOMAIN lastNotifiedAt[n] = 1..Len(lastNotifiedAt[n])
             /\ \A p \in DOMAIN lastNotifiedAt[n] : lastNotifiedAt[n][p] \in Entry
  <2> HIDE DEF Entry
  <2> QED BY <1>1, SeqFacts
<1>4. now \in Nat /\ made \in Nat /\ \A n \in Notifiers : n \in Nat
  BY DEF TypeOK, Times, Notifiers
<1>5. \A i \in DOMAIN accepted : /\ accepted[i].key \in Keys /\ accepted[i].at \in Nat
                                 /\ accepted[i].by \in Notifiers
  BY <1>2 DEF Acceptance, Times
<1>6. \A n \in Notifiers : \A p \in DOMAIN lastNotifiedAt[n] : lastNotifiedAt[n][p].at \in Nat
  BY <1>3 DEF Entry, Times
<1> HIDE DEF Entry, Acceptance
<1> QED BY <1>1, <1>2, <1>3, <1>4, <1>5, <1>6

LEMMA ThrottleInitInv == Init => ThrottleInv
<1> SUFFICES ASSUME Init PROVE ThrottleInv
  OBVIOUS
<1>1. DOMAIN accepted = {} /\ \A n \in Notifiers : DOMAIN lastNotifiedAt[n] = {}
  BY DEF Init
<1> QED BY <1>1 DEF ThrottleInv, MapsOK, ThrottleHolds

\* A step that accepts nothing and replaces no notifier.
LEMMA ThrottleKept ==
    ASSUME TypeOK, TypeOK', ThrottleInv, UNCHANGED <<accepted, lastNotifiedAt, lineage>>,
           now <= now', made <= made',
           \A n \in Notifiers : n <= made => settings'[n] = settings[n]
    PROVE  ThrottleInv'
<1>1. /\ DOMAIN accepted = 1..Len(accepted) /\ now \in Nat /\ made \in Nat
      /\ \A i \in DOMAIN accepted : accepted[i].at \in Nat /\ accepted[i].by \in Notifiers
      /\ \A n \in Notifiers : n \in Nat
  BY AcceptedFacts
<1>2. now' \in Nat /\ made' \in Nat
  BY DEF TypeOK, Times
<1>3. \A i \in DOMAIN accepted : /\ accepted[i].by <= made /\ accepted[i].at <= now
                                 /\ accepted[i].by <= made' /\ accepted[i].at <= now'
  BY <1>1, <1>2 DEF ThrottleInv, MapsOK
<1>4. \A m : KeysUpTo(m)' = KeysUpTo(m)
  BY DEF KeysUpTo
<1>5. \A i, m : Evicted(i, m)' = Evicted(i, m)
  BY <1>4 DEF Evicted
<1>6. MapsOK'
  BY <1>3, <1>4, <1>5 DEF ThrottleInv, MapsOK, Remembered
<1>7. ThrottleHolds'
  BY <1>1, <1>3, <1>5 DEF ThrottleInv, ThrottleHolds
<1> QED BY <1>6, <1>7 DEF ThrottleInv

\* The replacement starts with the map of the notifier it replaces.
LEMMA ReplaceThrottle ==
    ASSUME IndInv, IndInv', ThrottleInv, NEW a \in Savers, Replace(a)
    PROVE  ThrottleInv'
<1>t. TypeOK /\ TypeOK' /\ MadeOK /\ a \in Flushers
  BY DEF IndInv, Flushers
<1>1. CASE instance # 0
  <2>1. UNCHANGED <<accepted, lastNotifiedAt, lineage, now, made, settings>>
    BY <1>1 DEF Replace, identity
  <2> QED BY <1>t, <2>1, AcceptedFacts, ThrottleKept
<1>2. CASE instance = 0
  <2>p. PICK p \in Notifiers : p = flush[a].on /\ p <= made
    BY <1>t DEF Replace, MadeOK, TypeOK
  <2>n. PICK n \in Nat : n = made + 1 /\ n # p
    BY <1>t, <2>p, AcceptedFacts
  <2>m. n \in Notifiers
    BY <1>t, <1>2, <2>n DEF Replace, TypeOK, Notifiers
  <2>1. /\ UNCHANGED <<accepted, now>> /\ made' = n
        /\ lineage'[n] = {n} \cup lineage[p] /\ lastNotifiedAt'[n] = lastNotifiedAt[p]
        /\ \A m \in Notifiers : m # n => /\ lineage'[m] = lineage[m]
                                         /\ lastNotifiedAt'[m] = lastNotifiedAt[m]
                                         /\ settings'[m] = settings[m]
    BY <1>t, <1>2, <2>p, <2>n, <2>m DEF Replace, Carried, TypeOK
  <2>2. \A i \in DOMAIN accepted : /\ accepted[i].by \in Notifiers /\ accepted[i].by # n
                                   /\ accepted[i].by <= made' /\ accepted[i].at <= now
    BY <1>t, <2>n, <2>1, AcceptedFacts DEF ThrottleInv, MapsOK
  <2>3. \A m : KeysUpTo(m)' = KeysUpTo(m)
    BY <2>1 DEF KeysUpTo
  <2>4. \A i, m : Evicted(i, m)' = Evicted(i, m)
    BY <2>1, <2>3 DEF Evicted
  <2>5. \A m \in Notifiers : \E k \in Notifiers :
          /\ lastNotifiedAt'[m] = lastNotifiedAt[k]
          /\ \A i \in DOMAIN accepted :
               accepted[i].by \in lineage'[m] => accepted[i].by \in lineage[k]
    <3>1. ASSUME NEW m \in Notifiers, m # n
          PROVE  /\ lastNotifiedAt'[m] = lastNotifiedAt[m]
                 /\ \A i \in DOMAIN accepted :
                      accepted[i].by \in lineage'[m] => accepted[i].by \in lineage[m]
      BY <2>1, <3>1
    <3>2. /\ lastNotifiedAt'[n] = lastNotifiedAt[p]
          /\ \A i \in DOMAIN accepted :
               accepted[i].by \in lineage'[n] => accepted[i].by \in lineage[p]
      BY <2>1, <2>2
    <3> QED BY <2>p, <3>1, <3>2
  <2>6. ASSUME NEW m \in Notifiers
        PROVE  /\ \A q \in DOMAIN lastNotifiedAt'[m] :
                    /\ lastNotifiedAt'[m][q].key \in KeysUpTo(Len(accepted))
                    /\ \A r \in DOMAIN lastNotifiedAt'[m] :
                         lastNotifiedAt'[m][q].key = lastNotifiedAt'[m][r].key => q = r
               /\ \A i \in DOMAIN accepted :
                    accepted[i].by \in lineage'[m] => Remembered(m, i)'
    <3>1. PICK k \in Notifiers :
            /\ lastNotifiedAt'[m] = lastNotifiedAt[k]
            /\ \A i \in DOMAIN accepted :
                 accepted[i].by \in lineage'[m] => accepted[i].by \in lineage[k]
      BY <2>5
    <3>2. \A i \in DOMAIN accepted : Remembered(k, i) => Remembered(m, i)'
      BY <2>1, <2>4, <3>1 DEF Remembered
    <3> QED BY <3>1, <3>2 DEF ThrottleInv, MapsOK
  <2>7. MapsOK'
    BY <2>1, <2>2, <2>3, <2>6 DEF MapsOK
  <2>8. ThrottleHolds'
    BY <2>1, <2>2, <2>4 DEF ThrottleInv, ThrottleHolds
  <2> QED BY <2>7, <2>8 DEF ThrottleInv
<1> QED BY <1>1, <1>2

\* The keys of a map without repetitions, and one key more.
LEMMA KeysAreMore ==
    ASSUME NEW map, NEW len \in Nat, NEW K, IsFiniteSet(K), NEW key \in K,
           \A p \in 1..len : map[p].key \in K /\ map[p].key # key,
           \A p, q \in 1..len : map[p].key = map[q].key => p = q
    PROVE  Cardinality(K) > len
<1> DEFINE f == [p \in 1..len |-> map[p].key]
<1>1. f \in Injection(1..len, K \ {key})
  BY DEF Injection, IsInjective
<1>2. IsFiniteSet(K \ {key}) /\ Cardinality(K \ {key}) = Cardinality(K) - 1
  BY FS_RemoveElement
<1>3. Cardinality(1..len) <= Cardinality(K \ {key})
  BY <1>1, <1>2, FS_Injection
<1>4. Cardinality(1..len) = len
  BY FS_Interval
<1>5. Cardinality(K) \in Nat
  BY FS_CardinalityType
<1> QED BY <1>2, <1>3, <1>4, <1>5

LEMMA KeysFinite ==
    ASSUME NEW m \in Nat
    PROVE  IsFiniteSet(KeysUpTo(m)) /\ IsFiniteSet(KeysUpTo(m)')
<1>1. IsFiniteSet(1..m)
  BY FS_Interval
<1>2. IsFiniteSet(KeysUpTo(m))
  <2> DEFINE g == [l \in 1..m |-> accepted[l].key]
  <2>1. g \in Surjection(1..m, KeysUpTo(m))
    BY DEF KeysUpTo, Surjection
  <2> QED BY <1>1, <2>1, FS_Surjection
<1>3. IsFiniteSet(KeysUpTo(m)')
  <2> DEFINE g == [l \in 1..m |-> accepted'[l].key]
  <2>1. g \in Surjection(1..m, KeysUpTo(m)')
    BY DEF KeysUpTo, Surjection
  <2> QED BY <1>1, <2>1, FS_Surjection
<1> QED BY <1>2, <1>3

\* What setting a key does to the map: it is there with the time of now, all others stay
\* with theirs, except that a full map loses one when the key is new.
LEMMA RememberFacts ==
    ASSUME NEW map, NEW key, map \in Seq(Entry), [key |-> key, at |-> now] \in Entry,
           \A p, q \in DOMAIN map : map[p].key = map[q].key => p = q
    PROVE  LET r == Remember(map, key) IN
           /\ \A q \in DOMAIN r : r[q].key = key \/ \E p \in DOMAIN map : map[p].key = r[q].key
           /\ \A p, q \in DOMAIN r : r[p].key = r[q].key => p = q
           /\ \E q \in DOMAIN r : r[q].key = key /\ r[q].at = now
           /\ \A p \in DOMAIN map :
                \/ \E q \in DOMAIN r : r[q].key = map[p].key /\ r[q].at \in {map[p].at, now}
                \/ /\ Len(map) >= MaxThrottleKeys
                   /\ \A q \in DOMAIN map : map[q].key # key
<1> DEFINE e == [key |-> key, at |-> now]
           r == Remember(map, key)
<1>1. Len(map) \in Nat /\ DOMAIN map = 1..Len(map) /\ e.key = key /\ e.at = now /\ e \in Entry
  <2> HIDE DEF Entry
  <2> QED BY SeqFacts
<1>2. CASE \E i \in DOMAIN map : map[i].key = key
  <2>1. r = [i \in DOMAIN map |-> IF map[i].key = key THEN e ELSE map[i]]
    BY <1>2 DEF Remember
  <2>2. /\ DOMAIN r = DOMAIN map
        /\ \A i \in DOMAIN map : /\ r[i].key = map[i].key
                                 /\ r[i].at = (IF map[i].key = key THEN now ELSE map[i].at)
    <3> HIDE DEF r, e
    <3> QED BY <1>1, <2>1
  <2> HIDE DEF r, e
  <2> QED BY <1>2, <2>2 DEF r
<1>3. CASE (\A i \in DOMAIN map : map[i].key # key) /\ Len(map) < MaxThrottleKeys
  <2>1. r = Append(map, e)
    BY <1>1, <1>3, ConstantsAssumption DEF Remember
  <2>2. /\ DOMAIN r = 1..(Len(map) + 1) /\ r[Len(map) + 1] = e
        /\ \A i \in DOMAIN map : r[i] = map[i]
    <3> HIDE DEF Entry, r, e
    <3> QED BY <1>1, <2>1, SeqFacts
  <2> HIDE DEF r, e
  <2>3. \A q \in DOMAIN r : q = Len(map) + 1 \/ q \in DOMAIN map
    BY <1>1, <2>2
  <2>4. \A q \in DOMAIN r : r[q].key = key \/ \E p \in DOMAIN map : map[p].key = r[q].key
    BY <1>1, <2>2, <2>3
  <2>5. \A p, q \in DOMAIN r : r[p].key = r[q].key => p = q
    BY <1>1, <1>3, <2>2, <2>3
  <2>6. \E q \in DOMAIN r : r[q].key = key /\ r[q].at = now
    BY <1>1, <2>2
  <2>7. \A p \in DOMAIN map :
          \E q \in DOMAIN r : r[q].key = map[p].key /\ r[q].at \in {map[p].at, now}
    BY <1>1, <2>2
  <2> QED BY <2>4, <2>5, <2>6, <2>7 DEF r
<1>4. CASE (\A i \in DOMAIN map : map[i].key # key) /\ Len(map) >= MaxThrottleKeys
  <2>1. r = Append(Tail(map), e)
    BY <1>4 DEF Remember
  <2>2. /\ DOMAIN r = 1..Len(map) /\ r[Len(map)] = e /\ Len(map) >= 1
        /\ \A i \in 1..(Len(map) - 1) : r[i] = map[i + 1]
    <3> HIDE DEF Entry, r, e
    <3>1. Len(map) >= 1
      BY <1>1, <1>4, ConstantsAssumption
    <3>2. /\ Tail(map) \in Seq(Entry) /\ Len(Tail(map)) = Len(map) - 1
          /\ \A i \in 1..(Len(map) - 1) : Tail(map)[i] = map[i + 1]
      BY <1>1, <3>1
    <3> QED BY <1>1, <2>1, <3>1, <3>2, SeqFacts
  <2> HIDE DEF r, e
  <2>3. \A q \in DOMAIN r : \/ q = Len(map) /\ r[q] = e
                            \/ q + 1 \in DOMAIN map /\ r[q] = map[q + 1]
    BY <1>1, <2>2
  <2>4. \A q \in DOMAIN r : r[q].key = key \/ \E p \in DOMAIN map : map[p].key = r[q].key
    BY <1>1, <2>3
  <2>5. \A p, q \in DOMAIN r : r[p].key = r[q].key => p = q
    <3> SUFFICES ASSUME NEW p \in DOMAIN r, NEW q \in DOMAIN r, r[p].key = r[q].key
                 PROVE  p = q
      OBVIOUS
    <3>1. p \in Nat /\ q \in Nat
      BY <2>2
    <3>2. CASE r[p].key = key
      BY <1>1, <1>4, <2>3, <3>2
    <3>3. CASE r[p].key # key
      <4>1. /\ p + 1 \in DOMAIN map /\ r[p] = map[p + 1]
            /\ q + 1 \in DOMAIN map /\ r[q] = map[q + 1]
        BY <1>1, <2>3, <3>3
      <4>2. p + 1 = q + 1
        BY <4>1
      <4> QED BY <3>1, <4>2
    <3> QED BY <3>2, <3>3
  <2>6. \E q \in DOMAIN r : r[q].key = key /\ r[q].at = now
    BY <1>1, <2>2
  <2> QED BY <1>4, <2>4, <2>5, <2>6 DEF r
<1>5. Len(map) >= MaxThrottleKeys \/ Len(map) < MaxThrottleKeys
  BY <1>1, ConstantsAssumption
<1> QED BY <1>2, <1>3, <1>4, <1>5

\* A finding accepted is remembered, and what the map loses was evicted by it.
LEMMA AcceptThrottle ==
    ASSUME IndInv, IndInv', ThrottleInv, NEW key \in Keys, Accept(key)
    PROVE  ThrottleInv'
<1>t. /\ TypeOK /\ MadeOK /\ RetiredIsEmpty /\ RetiringOK /\ SettingsInForce /\ LineageOK
      /\ MapsOK /\ ThrottleHolds /\ TypeOK'
  BY DEF IndInv, ThrottleInv
<1>o. PICK n \in Notifiers : n = Obtained
  BY <1>t, ObtainFacts DEF Accept
<1>l. PICK L \in Nat : L = Len(accepted)
  BY <1>t, AcceptedFacts
<1>p. /\ n \notin closed /\ made <= made' /\ n <= made' /\ lineage' = lineage
      /\ \A m \in Notifiers : m <= made => settings'[m] = settings[m]
      /\ settings'[n] = ObtainedSettings
  BY <1>t, <1>o, ObtainFacts DEF Accept
<1>f. /\ L \in Nat /\ DOMAIN accepted = 1..L /\ now \in Nat /\ made \in Nat /\ made' \in Nat
      /\ \A i \in 1..L : /\ accepted[i].key \in Keys /\ accepted[i].at \in Nat
                         /\ accepted[i].by \in Notifiers /\ accepted[i].by <= made
                         /\ accepted[i].by \in Nat /\ accepted[i].at <= now
      /\ lastNotifiedAt[n] \in Seq(Entry) /\ Len(lastNotifiedAt[n]) \in Nat
      /\ DOMAIN lastNotifiedAt[n] = 1..Len(lastNotifiedAt[n])
      /\ \A p \in DOMAIN lastNotifiedAt[n] : lastNotifiedAt[n][p].at \in Nat
  <2>1. /\ DOMAIN accepted = 1..L /\ now \in Nat /\ made \in Nat
        /\ \A i \in 1..L : /\ accepted[i].key \in Keys /\ accepted[i].at \in Nat
                           /\ accepted[i].by \in Notifiers /\ accepted[i].by \in Nat
        /\ lastNotifiedAt[n] \in Seq(Entry) /\ Len(lastNotifiedAt[n]) \in Nat
        /\ DOMAIN lastNotifiedAt[n] = 1..Len(lastNotifiedAt[n])
        /\ \A p \in DOMAIN lastNotifiedAt[n] : lastNotifiedAt[n][p].at \in Nat
    <3> HIDE DEF Entry
    <3> QED BY <1>t, <1>l, AcceptedFacts
  <2>2. \A i \in 1..L : accepted[i].by <= made /\ accepted[i].at <= now
    BY <1>t, <2>1 DEF MapsOK
  <2>3. made' \in Nat
    BY <1>t DEF TypeOK
  <2> QED BY <2>1, <2>2, <2>3
<1>a. /\ now' = now
      /\ accepted' = Append(accepted, [key |-> key, at |-> now, by |-> n])
      /\ lastNotifiedAt'[n] = Remember(lastNotifiedAt[n], key)
      /\ \A m \in Notifiers : m # n => lastNotifiedAt'[m] = lastNotifiedAt[m]
      /\ ~Throttled(lastNotifiedAt[n], key, ObtainedSettings.throttle)
  BY <1>t, <1>o DEF Accept, Passes, TypeOK
<1>1. /\ Len(accepted') = L + 1 /\ DOMAIN accepted' = 1..(L + 1)
      /\ \A i \in 1..L : accepted'[i] = accepted[i]
      /\ accepted'[L + 1].key = key /\ accepted'[L + 1].at = now /\ accepted'[L + 1].by = n
  <2> DEFINE e == [key |-> key, at |-> now, by |-> n]
  <2>1. e \in Acceptance /\ accepted \in Seq(Acceptance) /\ e.key = key /\ e.at = now /\ e.by = n
    BY <1>t DEF TypeOK, Acceptance
  <2> HIDE DEF e, Acceptance
  <2>2. accepted' \in Seq(Acceptance) /\ Len(accepted') = L + 1
        /\ \A i \in 1..L : accepted'[i] = accepted[i]
    BY <1>a, <1>f, <1>l, <2>1, SeqFacts DEF e
  <2>3. accepted'[L + 1] = e
    BY <1>a, <1>l, <2>1, SeqFacts DEF e
  <2> QED BY <2>1, <2>2, <2>3, SeqFacts
<1>2. /\ \A m \in 1..L : KeysUpTo(m)' = KeysUpTo(m)
      /\ KeysUpTo(L) \subseteq KeysUpTo(L + 1)' /\ key \in KeysUpTo(L + 1)'
  <2>1. L + 1 \in 1..(L + 1)
    BY <1>f
  <2>2. key \in KeysUpTo(L + 1)'
    BY <1>1, <2>1 DEF KeysUpTo
  <2>3. \A m \in 1..L : KeysUpTo(m)' = KeysUpTo(m)
    BY <1>1, <1>f DEF KeysUpTo
  <2>4. KeysUpTo(L) \subseteq KeysUpTo(L + 1)'
    BY <1>1, <1>f DEF KeysUpTo
  <2> QED BY <2>2, <2>3, <2>4
<1>3. /\ \A i \in 1..L, m \in 0..L : Evicted(i, m) => Evicted(i, m)'
      /\ \A i \in 1..L : Evicted(i, L) => Evicted(i, L + 1)'
  <2> SUFFICES ASSUME NEW i \in 1..L, NEW m \in 0..L, Evicted(i, m), NEW k \in {m, L + 1}, m <= k
               PROVE  Evicted(i, k)'
    BY <1>f
  <2>1. PICK w \in (i + 1)..m : /\ accepted[w].key # accepted[i].key
                                /\ Cardinality(KeysUpTo(w)) > MaxThrottleKeys
    BY DEF Evicted
  <2>2. w \in 1..L /\ w \in (i + 1)..k /\ i \in 1..L
    BY <1>f, <2>1
  <2>3. accepted'[w] = accepted[w] /\ accepted'[i] = accepted[i] /\ KeysUpTo(w)' = KeysUpTo(w)
    BY <1>1, <1>2, <2>2
  <2> QED BY <2>1, <2>2, <2>3 DEF Evicted
<1>4. \A m \in Notifiers : m # n => n \notin lineage[m]
  BY <1>t, <1>p DEF LineageOK
<1>5. \A q \in DOMAIN lastNotifiedAt[n] : /\ lastNotifiedAt[n][q].key \in KeysUpTo(L)
        /\ \A r \in DOMAIN lastNotifiedAt[n] :
             lastNotifiedAt[n][q].key = lastNotifiedAt[n][r].key => q = r
  BY <1>t, <1>l DEF MapsOK
<1>6. /\ \A q \in DOMAIN lastNotifiedAt'[n] :
           \/ lastNotifiedAt'[n][q].key = key
           \/ \E p \in DOMAIN lastNotifiedAt[n] :
                lastNotifiedAt[n][p].key = lastNotifiedAt'[n][q].key
      /\ \A p, q \in DOMAIN lastNotifiedAt'[n] :
           lastNotifiedAt'[n][p].key = lastNotifiedAt'[n][q].key => p = q
      /\ \E q \in DOMAIN lastNotifiedAt'[n] : /\ lastNotifiedAt'[n][q].key = key
                                              /\ lastNotifiedAt'[n][q].at = now
      /\ \A p \in DOMAIN lastNotifiedAt[n] :
           \/ \E q \in DOMAIN lastNotifiedAt'[n] :
                /\ lastNotifiedAt'[n][q].key = lastNotifiedAt[n][p].key
                /\ lastNotifiedAt'[n][q].at \in {lastNotifiedAt[n][p].at, now}
           \/ /\ Len(lastNotifiedAt[n]) >= MaxThrottleKeys
              /\ \A q \in DOMAIN lastNotifiedAt[n] : lastNotifiedAt[n][q].key # key
  <2> DEFINE map == lastNotifiedAt[n]
  <2>1. map \in Seq(Entry) /\ [key |-> key, at |-> now] \in Entry
        /\ \A p, q \in DOMAIN map : map[p].key = map[q].key => p = q
    BY <1>f, <1>5, <1>t DEF Entry, TypeOK
  <2> HIDE DEF map, Entry
  <2>2. lastNotifiedAt'[n] = Remember(map, key)
    BY <1>a DEF map
  <2>3. LET r == Remember(map, key) IN
        /\ \A q \in DOMAIN r : r[q].key = key \/ \E p \in DOMAIN map : map[p].key = r[q].key
        /\ \A p, q \in DOMAIN r : r[p].key = r[q].key => p = q
        /\ \E q \in DOMAIN r : r[q].key = key /\ r[q].at = now
        /\ \A p \in DOMAIN map :
             \/ \E q \in DOMAIN r : r[q].key = map[p].key /\ r[q].at \in {map[p].at, now}
             \/ /\ Len(map) >= MaxThrottleKeys
                /\ \A q \in DOMAIN map : map[q].key # key
    BY <2>1, RememberFacts
  <2> QED BY <2>2, <2>3 DEF map
\* What a full map loses is evicted by the finding that is accepted.
<1>7. ASSUME NEW i \in 1..L, accepted[i].key # key, Len(lastNotifiedAt[n]) >= MaxThrottleKeys,
             \A q \in DOMAIN lastNotifiedAt[n] : lastNotifiedAt[n][q].key # key
      PROVE  Evicted(i, L + 1)'
  <2> DEFINE K == KeysUpTo(L + 1)'
  <2>1. IsFiniteSet(K)
    BY <1>f, KeysFinite
  <2>2. key \in K /\ \A p \in 1..Len(lastNotifiedAt[n]) : /\ lastNotifiedAt[n][p].key \in K
                                                          /\ lastNotifiedAt[n][p].key # key
    BY <1>2, <1>5, <1>7, <1>f
  <2>3. \A p, q \in 1..Len(lastNotifiedAt[n]) :
          lastNotifiedAt[n][p].key = lastNotifiedAt[n][q].key => p = q
    BY <1>5, <1>f
  <2>4. Cardinality(K) \in Nat
    BY <2>1, FS_CardinalityType
  <2> HIDE DEF K
  <2>5. Cardinality(K) > Len(lastNotifiedAt[n])
    BY <1>f, <2>1, <2>2, <2>3, KeysAreMore
  <2>6. Cardinality(K) > MaxThrottleKeys
    BY <1>7, <1>f, <2>4, <2>5, ConstantsAssumption
  <2>7. L + 1 \in (i + 1)..(L + 1) /\ accepted'[i].key # key
    BY <1>1, <1>7, <1>f
  <2> QED BY <1>1, <2>6, <2>7 DEF Evicted, K
<1>8. \A i \in 1..L : accepted[i].by \in lineage[n] => Remembered(n, i)'
  <2> SUFFICES ASSUME NEW i \in 1..L, accepted[i].by \in lineage[n]
               PROVE  Remembered(n, i)'
    OBVIOUS
  <2>1. accepted'[i] = accepted[i] /\ accepted[i].at \in Nat /\ accepted[i].at <= now
    BY <1>1, <1>f
  <2>2. CASE accepted[i].key = key
    BY <1>6, <2>1, <2>2 DEF Remembered
  <2>3. CASE Evicted(i, L)
    BY <1>1, <1>3, <2>3 DEF Remembered
  <2>4. CASE accepted[i].key # key /\ \E p \in DOMAIN lastNotifiedAt[n] :
               /\ lastNotifiedAt[n][p].key = accepted[i].key
               /\ lastNotifiedAt[n][p].at >= accepted[i].at
    <3>1. PICK p \in DOMAIN lastNotifiedAt[n] : /\ lastNotifiedAt[n][p].key = accepted[i].key
                                                /\ lastNotifiedAt[n][p].at >= accepted[i].at
      BY <2>4
    <3>2. CASE \E q \in DOMAIN lastNotifiedAt'[n] :
                 /\ lastNotifiedAt'[n][q].key = lastNotifiedAt[n][p].key
                 /\ lastNotifiedAt'[n][q].at \in {lastNotifiedAt[n][p].at, now}
      BY <2>1, <3>1, <3>2 DEF Remembered
    <3>3. CASE /\ Len(lastNotifiedAt[n]) >= MaxThrottleKeys
               /\ \A q \in DOMAIN lastNotifiedAt[n] : lastNotifiedAt[n][q].key # key
      BY <1>1, <1>7, <2>4, <3>3 DEF Remembered
    <3> QED BY <1>6, <3>1, <3>2, <3>3
  <2>5. Remembered(n, i)
    BY <1>t, <1>f DEF MapsOK
  <2> QED BY <1>l, <2>2, <2>3, <2>4, <2>5 DEF Remembered
<1>9. MapsOK'
  <2>1. \A j \in DOMAIN accepted' : accepted'[j].by <= made' /\ accepted'[j].at <= now'
    <3>1. ASSUME NEW j \in 1..L PROVE accepted'[j].by <= made' /\ accepted'[j].at <= now'
      <4>1. accepted'[j] = accepted[j]
        BY <1>1
      <4> QED BY <1>a, <1>f, <1>p, <4>1
    <3>2. accepted'[L + 1].by <= made' /\ accepted'[L + 1].at <= now'
      BY <1>1, <1>a, <1>f, <1>p
    <3>3. \A j \in 1..(L + 1) : j \in 1..L \/ j = L + 1
      BY <1>f
    <3> QED BY <1>1, <3>1, <3>2, <3>3
  <2>2. ASSUME NEW m \in Notifiers
        PROVE  \A p \in DOMAIN lastNotifiedAt'[m] :
                 /\ lastNotifiedAt'[m][p].key \in KeysUpTo(L + 1)'
                 /\ \A q \in DOMAIN lastNotifiedAt'[m] :
                      lastNotifiedAt'[m][p].key = lastNotifiedAt'[m][q].key => p = q
    <3>1. CASE m = n
      BY <1>2, <1>5, <1>6, <3>1
    <3>2. CASE m # n
      BY <1>2, <1>a, <1>l, <1>t, <3>2 DEF MapsOK
    <3> QED BY <3>1, <3>2
  <2>3. ASSUME NEW m \in Notifiers, NEW i \in 1..L, accepted[i].by \in lineage[m]
        PROVE  Remembered(m, i)'
    <3>1. CASE m = n
      BY <1>8, <2>3, <3>1
    <3>2. CASE m # n
      <4>1. Remembered(m, i) /\ lastNotifiedAt'[m] = lastNotifiedAt[m]
        BY <1>a, <1>f, <1>t, <2>3, <3>2 DEF MapsOK
      <4>2. accepted'[i] = accepted[i]
        BY <1>1
      <4> QED BY <1>1, <1>3, <1>l, <4>1, <4>2 DEF Remembered
    <3> QED BY <3>1, <3>2
  <2>4. ASSUME NEW m \in Notifiers, n \in lineage[m] PROVE Remembered(m, L + 1)'
    <3>1. m = n
      BY <1>4, <2>4
    <3>2. now \in Nat
      BY <1>f
    <3> QED BY <1>1, <1>6, <3>1, <3>2 DEF Remembered
  <2>5. \A m \in Notifiers : \A i \in DOMAIN accepted' :
          accepted'[i].by \in lineage'[m] => Remembered(m, i)'
    <3>1. \A j \in 1..(L + 1) : j \in 1..L \/ j = L + 1
      BY <1>f
    <3> QED BY <1>1, <1>p, <2>3, <2>4, <3>1
  <2> QED BY <1>1, <2>1, <2>2, <2>5 DEF MapsOK
<1>10. ThrottleHolds'
  <2> SUFFICES ASSUME NEW i \in 1..(L + 1), NEW j \in 1..(L + 1), i < j,
                      accepted'[i].key = accepted'[j].key,
                      accepted'[i].by \in lineage'[accepted'[j].by],
                      accepted'[j].at < accepted'[i].at + settings'[accepted'[j].by].throttle
               PROVE  Evicted(i, j - 1)'
    BY <1>1 DEF ThrottleHolds
  <2>1. i \in 1..L /\ accepted'[i] = accepted[i]
    BY <1>1, <1>f
  <2>2. CASE j \in 1..L
    <3>1. accepted'[j] = accepted[j] /\ j - 1 \in 0..L
      BY <1>1, <1>f, <2>2
    <3>2. settings'[accepted[j].by] = settings[accepted[j].by]
      BY <1>f, <1>p, <2>2
    <3>3. Evicted(i, j - 1)
      BY <1>f, <1>p, <1>t, <2>1, <2>2, <3>1, <3>2 DEF ThrottleHolds
    <3> QED BY <1>3, <2>1, <3>1, <3>3
  <2>3. CASE j = L + 1
    <3>1. /\ accepted[i].key = key /\ accepted[i].by \in lineage[n]
          /\ now < accepted[i].at + ObtainedSettings.throttle
      BY <1>1, <1>p, <2>1, <2>3
    <3>2. Remembered(n, i)
      BY <1>f, <1>t, <2>1, <3>1 DEF MapsOK
    <3>3. ASSUME NEW p \in DOMAIN lastNotifiedAt[n], lastNotifiedAt[n][p].key = accepted[i].key,
                 lastNotifiedAt[n][p].at >= accepted[i].at
          PROVE  FALSE
      <4>1. ObtainedSettings.throttle \in Nat
        <5>1. ObtainedSettings \in Settings
          BY <1>p, <1>t DEF TypeOK
        <5> QED BY <5>1, ConstantTypes
      <4>2. now < lastNotifiedAt[n][p].at + ObtainedSettings.throttle
        BY <1>f, <2>1, <3>1, <3>3, <4>1
      <4> QED BY <1>a, <3>1, <3>3, <4>2 DEF Throttled
    <3>4. Evicted(i, L)
      BY <1>l, <3>2, <3>3 DEF Remembered
    <3>5. L \in 0..L /\ j - 1 = L
      BY <1>f, <2>3
    <3> QED BY <1>3, <2>1, <3>4, <3>5
  <2> QED BY <1>f, <2>2, <2>3
<1> QED BY <1>9, <1>10 DEF ThrottleInv

LEMMA ThrottleStep ==
    ASSUME IndInv, IndInv', ThrottleInv, [Next]_vars
    PROVE  ThrottleInv'
<1>t. /\ TypeOK /\ TypeOK' /\ MadeOK /\ RetiredIsEmpty /\ RetiringOK /\ SettingsInForce
      /\ now \in Nat /\ made \in Nat
  BY AcceptedFacts DEF IndInv
<1> DEFINE Kept == /\ UNCHANGED <<accepted, lastNotifiedAt, lineage>>
                   /\ now <= now' /\ made <= made'
                   /\ \A n \in Notifiers : n <= made => settings'[n] = settings[n]
<1>k. ASSUME Kept PROVE ThrottleInv'
  BY <1>k, <1>t, ThrottleKept
<1>1. CASE Tick
  <2>1. Kept
    BY <1>1, <1>t DEF Tick, identity, limits
  <2> QED BY <1>k, <2>1
<1>2. ASSUME Obtain, UNCHANGED <<accepted, lastNotifiedAt, now>> PROVE ThrottleInv'
  <2>1. Kept
    BY <1>2, <1>t, ObtainFacts
  <2> QED BY <1>k, <2>1
<1>3. ASSUME UNCHANGED <<accepted, lastNotifiedAt, now, identity>> PROVE ThrottleInv'
  <2>1. Kept
    BY <1>3, <1>t DEF identity
  <2> QED BY <1>k, <2>1
<1>4. CASE Status
  BY <1>2, <1>4 DEF Status
<1>5. ASSUME NEW k \in Keys, Refuse(k) \/ RateLimit(k) PROVE ThrottleInv'
  BY <1>2, <1>5 DEF Refuse, RateLimit, limits
<1>6. ASSUME NEW k \in Keys, Accept(k) PROVE ThrottleInv'
  BY <1>6, AcceptThrottle
<1>7. ASSUME NEW n \in Notifiers, DigestTimerFires(n) \/ Settle(n) PROVE ThrottleInv'
  BY <1>3, <1>7 DEF DigestTimerFires, Settle, limits
<1>8. ASSUME NEW a \in Flushers, FlushStep(a) PROVE ThrottleInv'
  BY <1>3, <1>8 DEF FlushStep, ExportsDone, FlushDispatch, FlushCheck, limits
<1>9. ASSUME NEW a \in Closers, CloseSink(a) \/ SinkClosed(a) PROVE ThrottleInv'
  BY <1>2, <1>3, <1>9 DEF CloseSink, SinkClosed, limits
<1>10. ASSUME NEW a \in Savers, NEW new \in Settings, Save(a, new) PROVE ThrottleInv'
  <2>1. Kept
    BY <1>10, <1>t DEF Save, limits
  <2> QED BY <1>k, <2>1
<1>11. ASSUME NEW a \in Savers, Replace(a) PROVE ThrottleInv'
  BY <1>11, ReplaceThrottle
<1>12. CASE UNCHANGED vars
  BY <1>3, <1>12 DEF vars, identity
<1> QED BY <1>1, <1>4, <1>5, <1>6, <1>7, <1>8, <1>9, <1>10, <1>11, <1>12 DEF Next, Consider

\* A finding is let through again within the throttle period only after its key was
\* evicted from a full map, across reloads and whatever is saved.
THEOREM ThrottleCorrect == Spec => []ThrottleHolds
<1>1. Init => ThrottleInv
  BY ThrottleInitInv
<1>2. IndInv /\ IndInv' /\ ThrottleInv /\ [Next]_vars => ThrottleInv'
  BY ThrottleStep
<1>3. ThrottleInv => ThrottleHolds
  BY DEF ThrottleInv
<1> QED BY <1>1, <1>2, <1>3, Inductive, PTL DEF Spec
=============================================================================
