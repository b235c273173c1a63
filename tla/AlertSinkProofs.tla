--------------------------- MODULE AlertSinkProofs ---------------------------
(***************************************************************************)
(* Proofs about AlertSink, for every number of sinks, keys and findings,   *)
(* every window and every limit.                                           *)
(***************************************************************************)
EXTENDS AlertSink, FiniteSums, TLAPS

LEMMA WindowPositive == AlertWindow \in Nat /\ AlertWindow > 0 /\ MaxTime \in Nat
<1> QED BY ConstantsAssumption

LEMMA KeyInKeys ==
    ASSUME NEW d \in DedupKeys, NEW t \in Times
    PROVE  WindowedKey(d, t) \in Keys
<1> QED BY DEF Keys

\* Changing one counter, and one entry, of a table by sink and key.
LEMMA BumpOne ==
    ASSUME NEW f \in [Sinks -> [Keys -> Nat]], NEW s \in Sinks, NEW k \in Keys,
           NEW n \in Nat, NEW g, g = [f EXCEPT ![s][k] = @ + n]
    PROVE  /\ g \in [Sinks -> [Keys -> Nat]]
           /\ \A q \in Sinks, j \in Keys :
                 g[q][j] = IF q = s /\ j = k THEN f[q][j] + n ELSE f[q][j]
<1> QED OBVIOUS

LEMMA SetOne ==
    ASSUME NEW f \in [Sinks -> [Keys -> Entries]], NEW s \in Sinks, NEW k \in Keys,
           NEW e \in Entries, NEW g, g = [f EXCEPT ![s][k] = e]
    PROVE  /\ g \in [Sinks -> [Keys -> Entries]]
           /\ \A q \in Sinks, j \in Keys :
                 g[q][j] = IF q = s /\ j = k THEN e ELSE f[q][j]
<1> QED OBVIOUS

LEMMA EntryTypes ==
    /\ NoEntry \in Entries /\ NoEntries \in [Keys -> Entries]
    /\ \A t \in Times : Fresh(t) \in Entries
    /\ \A e \in Entries, t \in Times : Repeat(e, t) \in Entries
    /\ \A e, f \in Entries : Upserted(e, f) \in Entries
<1> USE WindowPositive DEF Entries, Times
<1>1. NoEntry \in Entries BY DEF NoEntry
<1>2. \A t \in Times : Fresh(t) \in Entries BY DEF Fresh
<1>3. \A e \in Entries, t \in Times : Repeat(e, t) \in Entries
  BY DEF Repeat, Smaller, Larger
<1>4. \A e, f \in Entries : Upserted(e, f) \in Entries
  BY DEF Upserted, Smaller, Larger
<1> QED BY <1>1, <1>2, <1>3, <1>4 DEF NoEntries

\* What merging does to the span of an entry.
LEMMA SpanKept ==
    /\ SpanOK(NoEntry) /\ \A t \in Times : SpanOK(Fresh(t))
    /\ \A e \in Entries, t \in Times :
          SpanOK(e) /\ e.occurrences > 0 => SpanOK(Repeat(e, t))
    /\ \A e, f \in Entries :
          SpanOK(e) /\ SpanOK(f) /\ e.occurrences > 0 /\ f.occurrences > 0
              => SpanOK(Upserted(e, f))
<1> USE WindowPositive DEF Times, SpanOK
<1>1. SpanOK(NoEntry) BY DEF NoEntry
<1>2. \A t \in Times : SpanOK(Fresh(t)) BY DEF Fresh
<1>3. ASSUME NEW e \in Entries, NEW t \in Times, SpanOK(e), e.occurrences > 0
      PROVE  SpanOK(Repeat(e, t))
  <2>1. /\ e.firstSeen \in Nat /\ e.lastSeen \in Nat /\ t \in Nat
        /\ \A u \in e.times : u \in Nat
    BY DEF Entries
  <2>2. /\ Repeat(e, t).firstSeen = Smaller(t, e.firstSeen)
        /\ Repeat(e, t).lastSeen = Larger(t, e.lastSeen)
        /\ Repeat(e, t).times = e.times \cup {t}
    BY DEF Repeat
  <2> QED BY <1>3, <2>1, <2>2 DEF Smaller, Larger
<1>4. ASSUME NEW e \in Entries, NEW f \in Entries, SpanOK(e), SpanOK(f),
             e.occurrences > 0, f.occurrences > 0
      PROVE  SpanOK(Upserted(e, f))
  <2>1. /\ e.firstSeen \in Nat /\ e.lastSeen \in Nat
        /\ f.firstSeen \in Nat /\ f.lastSeen \in Nat
        /\ \A u \in e.times \cup f.times : u \in Nat
    BY DEF Entries
  <2>2. /\ Upserted(e, f).firstSeen = Smaller(e.firstSeen, f.firstSeen)
        /\ Upserted(e, f).lastSeen = Larger(e.lastSeen, f.lastSeen)
        /\ Upserted(e, f).times = e.times \cup f.times
    BY DEF Upserted
  <2> QED BY <1>4, <2>1, <2>2 DEF Smaller, Larger
<1> QED BY <1>1, <1>2, <1>3, <1>4

-----------------------------------------------------------------------------
LEMMA InitInv == Init => IndInv
<1> SUFFICES ASSUME Init PROVE IndInv OBVIOUS
<1> USE EntryTypes DEF Init
<1>0. \A k \in Keys : NoEntries[k] = NoEntry /\ NoEntry.occurrences = 0
  BY DEF NoEntries, NoEntry
<1>1. TypeOK BY DEF TypeOK, None
<1>2. BatchHeldByFlush BY <1>0 DEF BatchHeldByFlush
<1>3. Conserved BY <1>0 DEF Conserved, None
<1>4. SpansExact BY <1>0, SpanKept DEF SpansExact
<1>5. NotifiedIsStored BY DEF NotifiedIsStored, None
<1>6. NoneStranded BY <1>0 DEF NoneStranded, Buffered
<1> QED BY <1>1, <1>2, <1>3, <1>4, <1>5, <1>6 DEF IndInv

LEMMA RecordInv ==
    ASSUME IndInv, NEW s \in Sinks, NEW d \in DedupKeys, NEW t \in Times, Record(s, d, t)
    PROVE  IndInv'
<1> DEFINE k == WindowedKey(d, t)
           existing == pending[s][k]
           full == existing.occurrences = 0 /\ Cardinality(Buffered(s)) >= MaxPending
           new == IF existing.occurrences = 0 THEN Fresh(t) ELSE Repeat(existing, t)
<1> USE DEF IndInv
<1>k. k \in Keys BY KeyInKeys
<1> HIDE DEF k
<1>a. /\ recorded' = [recorded EXCEPT ![s][k] = @ + 1]
      /\ \/ full /\ dropped' = [dropped EXCEPT ![s][k] = @ + 1] /\ pending' = pending
         \/ ~full /\ dropped' = dropped /\ pending' = [pending EXCEPT ![s][k] = new]
      /\ timer' = [timer EXCEPT ![s] = @ \/ ~full \/ Buffered(s) # {} \/ counts > 0]
      /\ UNCHANGED <<phase, batch, closing, row, dbFailures, stored, notified, failed,
                     counts, countBatch, matchCount, suppressed, countsLost>>
  BY DEF Record, countVars, k
<1>b. /\ existing \in Entries /\ SpanOK(existing) /\ existing.occurrences \in Nat
      /\ Fresh(t).occurrences = 1
      /\ Repeat(existing, t).occurrences = existing.occurrences + 1
  BY <1>k DEF TypeOK, SpansExact, Entries, Fresh, Repeat
<1>c. new \in Entries /\ SpanOK(new) /\ new.occurrences = existing.occurrences + 1
  BY <1>b, EntryTypes, SpanKept
<1> HIDE DEF new, full
<1>d. /\ recorded' \in [Sinks -> [Keys -> Nat]]
      /\ \A q \in Sinks, j \in Keys : recorded'[q][j] =
            IF q = s /\ j = k THEN recorded[q][j] + 1 ELSE recorded[q][j]
  BY <1>a, <1>k, BumpOne DEF TypeOK
<1>g. /\ dropped' \in [Sinks -> [Keys -> Nat]] /\ pending' \in [Sinks -> [Keys -> Entries]]
      /\ Conserved' /\ SpansExact'
  <2>e. CASE full /\ dropped' = [dropped EXCEPT ![s][k] = @ + 1] /\ pending' = pending
    <3>1. /\ dropped' \in [Sinks -> [Keys -> Nat]]
          /\ \A q \in Sinks, j \in Keys : dropped'[q][j] =
                IF q = s /\ j = k THEN dropped[q][j] + 1 ELSE dropped[q][j]
      BY <2>e, <1>k, BumpOne DEF TypeOK
    <3>2. pending' \in [Sinks -> [Keys -> Entries]] BY <2>e DEF TypeOK
    <3>3. Conserved' BY <1>a, <1>d, <2>e, <3>1, <1>k DEF Conserved, TypeOK, Entries
    <3>4. SpansExact' BY <1>a, <2>e DEF SpansExact
    <3> QED BY <3>1, <3>2, <3>3, <3>4
  <2>f. CASE ~full /\ dropped' = dropped /\ pending' = [pending EXCEPT ![s][k] = new]
    <3>1. /\ pending' \in [Sinks -> [Keys -> Entries]]
          /\ \A q \in Sinks, j \in Keys : pending'[q][j] =
                IF q = s /\ j = k THEN new ELSE pending[q][j]
      BY <2>f, <1>c, <1>k, SetOne DEF TypeOK
    <3>2. dropped' \in [Sinks -> [Keys -> Nat]] BY <2>f DEF TypeOK
    <3>3. Conserved' BY <1>a, <1>c, <1>d, <2>f, <3>1, <1>k DEF Conserved, TypeOK, Entries
    <3>4. SpansExact' BY <1>a, <1>c, <3>1, <1>k DEF SpansExact
    <3> QED BY <3>1, <3>2, <3>3, <3>4
  <2> QED BY <1>a, <2>e, <2>f
<1>1. TypeOK' BY <1>a, <1>d, <1>g DEF TypeOK
<1>2. BatchHeldByFlush' BY <1>a DEF BatchHeldByFlush
<1>5. NotifiedIsStored' BY <1>a DEF NotifiedIsStored
<1>6. NoneStranded'
  <2>1. \A r \in Sinks \ {s} : Buffered(r)' = Buffered(r) /\ timer'[r] = timer[r]
    BY <1>a DEF Buffered, TypeOK
  <2>2. timer'[s] = (timer[s] \/ ~full \/ Buffered(s) # {} \/ counts > 0)
    BY <1>a DEF TypeOK
  <2>3. full => Buffered(s)' = Buffered(s)
    BY <1>a DEF Buffered, TypeOK
  <2> QED BY <1>a, <2>1, <2>2, <2>3 DEF NoneStranded
<1> QED BY <1>1, <1>2, <1>g, <1>5, <1>6

LEMMA SuppressInv ==
    ASSUME IndInv, NEW s \in Sinks, Suppress(s)
    PROVE  IndInv'
<1> USE DEF IndInv, Suppress, SuppressTimer, history
<1>1. TypeOK' BY DEF TypeOK
<1>2. BatchHeldByFlush' BY DEF BatchHeldByFlush
<1>3. Conserved' /\ SpansExact' /\ NotifiedIsStored'
  BY DEF Conserved, SpansExact, NotifiedIsStored
<1>4. NoneStranded' BY DEF NoneStranded, Buffered, TypeOK
<1> QED BY <1>1, <1>2, <1>3, <1>4

LEMMA BeginFlushInv ==
    ASSUME IndInv, NEW s \in Sinks, BeginFlush(s),
           timer' = [timer EXCEPT ![s] = FALSE],
           closing' \in [Sinks -> {"open", "flushing", "notifying", "closed"}],
           UNCHANGED <<row, dbFailures, countVars, history>>
    PROVE  IndInv'
<1> USE DEF IndInv, countVars, history
<1>1. CASE NeedsFlush(s)
  <2>a. /\ phase[s] = "idle"
        /\ phase' = [phase EXCEPT ![s] = "alerts"]
        /\ batch' = [batch EXCEPT ![s] = pending[s]]
        /\ pending' = [pending EXCEPT ![s] = NoEntries]
    BY <1>1 DEF BeginFlush, NeedsFlush, Emptied
  <2>b. \A k \in Keys : NoEntries[k] = NoEntry /\ NoEntry.occurrences = 0
    BY DEF NoEntries, NoEntry
  <2>1. TypeOK' BY <2>a, EntryTypes DEF TypeOK
  <2>2. BatchHeldByFlush' BY <2>a DEF BatchHeldByFlush, TypeOK
  <2>c. \A q \in Sinks, k \in Keys :
           /\ pending'[q][k].occurrences + batch'[q][k].occurrences
                = pending[q][k].occurrences + batch[q][k].occurrences
           /\ pending[q][k].occurrences \in Nat /\ batch[q][k].occurrences \in Nat
           /\ pending'[q][k].occurrences \in Nat /\ batch'[q][k].occurrences \in Nat
    <3> SUFFICES ASSUME NEW q \in Sinks, NEW k \in Keys
                 PROVE  /\ pending'[q][k].occurrences + batch'[q][k].occurrences
                             = pending[q][k].occurrences + batch[q][k].occurrences
                        /\ pending[q][k].occurrences \in Nat /\ batch[q][k].occurrences \in Nat
                        /\ pending'[q][k].occurrences \in Nat /\ batch'[q][k].occurrences \in Nat
      OBVIOUS
    <3>1. pending[q][k].occurrences \in Nat /\ batch[q][k].occurrences \in Nat
      BY DEF TypeOK, Entries
    <3>2. CASE q = s
      <4>1. /\ pending'[q][k].occurrences = 0
            /\ batch'[q][k].occurrences = pending[q][k].occurrences
            /\ batch[q][k].occurrences = 0
        BY <2>a, <2>b, <3>2 DEF BatchHeldByFlush, TypeOK
      <4> QED BY <3>1, <4>1
    <3>3. CASE q # s
      <4>1. pending'[q] = pending[q] /\ batch'[q] = batch[q]
        BY <2>a, <3>3 DEF TypeOK
      <4> QED BY <3>1, <4>1
    <3> QED BY <3>2, <3>3
  <2>3. Conserved' BY <2>c DEF Conserved, TypeOK
  <2>4. SpansExact' BY <2>a, <2>b, SpanKept DEF SpansExact, TypeOK
  <2>5. NotifiedIsStored' BY DEF NotifiedIsStored
  <2>6. NoneStranded' BY <2>a DEF NoneStranded, Buffered, TypeOK
  <2> QED BY <2>1, <2>2, <2>3, <2>4, <2>5, <2>6
<1>2. CASE ~NeedsFlush(s)
  <2>a. UNCHANGED <<phase, batch, pending>> BY <1>2 DEF BeginFlush
  <2>b. phase[s] # "idle" \/ (Buffered(s) = {} /\ ~(counts > 0))
    BY <1>2 DEF NeedsFlush
  <2>1. TypeOK' BY <2>a DEF TypeOK
  <2>2. BatchHeldByFlush' BY <2>a DEF BatchHeldByFlush
  <2>3. Conserved' /\ SpansExact' /\ NotifiedIsStored'
    BY <2>a DEF Conserved, SpansExact, NotifiedIsStored
  <2>4. NoneStranded' BY <2>a, <2>b DEF NoneStranded, Buffered, TypeOK
  <2> QED BY <2>1, <2>2, <2>3, <2>4
<1> QED BY <1>1, <1>2

LEMMA UpsertInv ==
    ASSUME IndInv, NEW s \in Sinks, NEW k \in Keys, Upsert(s, k)
    PROVE  IndInv'
<1> DEFINE n == batch[s][k].occurrences
<1> USE DEF IndInv
<1>a. /\ n > 0 /\ phase[s] = "alerts"
      /\ batch' = [batch EXCEPT ![s][k] = NoEntry]
      /\ UNCHANGED <<pending, timer, phase, closing, counts, countBatch, matchCount,
                     suppressed, countsLost, recorded, dropped>>
  BY DEF Upsert, countVars
<1>t. /\ n \in Nat /\ batch[s][k] \in Entries /\ SpanOK(batch[s][k])
      /\ NoEntry.occurrences = 0
  BY DEF TypeOK, SpansExact, Entries, NoEntry
<1>u. dbFailures' \in Nat
  <2>1. dbFailures' \in {dbFailures, dbFailures + 1} BY DEF Upsert
  <2> QED BY <2>1 DEF TypeOK
<1>b. \/ /\ stored' = [stored EXCEPT ![s][k] = @ + n] /\ UNCHANGED failed
         /\ row' = [row EXCEPT ![k] = IF @.occurrences = 0 THEN batch[s][k]
                                       ELSE Upserted(@, batch[s][k])]
         /\ \/ notified' = [notified EXCEPT ![s][k] = @ + n]
            \/ UNCHANGED notified
      \/ /\ failed' = [failed EXCEPT ![s][k] = @ + n]
         /\ UNCHANGED <<row, stored, notified>>
  BY DEF Upsert, Store, Offer
<1>c. /\ batch' \in [Sinks -> [Keys -> Entries]]
      /\ \A q \in Sinks, j \in Keys :
            batch'[q][j] = IF q = s /\ j = k THEN NoEntry ELSE batch[q][j]
  BY <1>a, EntryTypes, SetOne DEF TypeOK
<1> HIDE DEF n
\* The counters of the two outcomes.
<1>d. /\ stored' \in [Sinks -> [Keys -> Nat]] /\ failed' \in [Sinks -> [Keys -> Nat]]
      /\ \A q \in Sinks, j \in Keys : stored'[q][j] + failed'[q][j] =
            IF q = s /\ j = k THEN stored[q][j] + failed[q][j] + n
                              ELSE stored[q][j] + failed[q][j]
  <2>1. CASE stored' = [stored EXCEPT ![s][k] = @ + n] /\ UNCHANGED failed
    <3>1. /\ stored' \in [Sinks -> [Keys -> Nat]]
          /\ \A q \in Sinks, j \in Keys : stored'[q][j] =
                IF q = s /\ j = k THEN stored[q][j] + n ELSE stored[q][j]
      BY <2>1, <1>t, BumpOne DEF TypeOK
    <3> QED BY <2>1, <3>1, <1>t DEF TypeOK
  <2>2. CASE failed' = [failed EXCEPT ![s][k] = @ + n] /\ UNCHANGED stored
    <3>1. /\ failed' \in [Sinks -> [Keys -> Nat]]
          /\ \A q \in Sinks, j \in Keys : failed'[q][j] =
                IF q = s /\ j = k THEN failed[q][j] + n ELSE failed[q][j]
      BY <2>2, <1>t, BumpOne DEF TypeOK
    <3> QED BY <2>2, <3>1, <1>t DEF TypeOK
  <2> QED BY <1>b, <2>1, <2>2
<1>e. /\ notified' \in [Sinks -> [Keys -> Nat]] /\ NotifiedIsStored'
  <2>1. CASE stored' = [stored EXCEPT ![s][k] = @ + n]
    <3>1. \A q \in Sinks, j \in Keys : stored'[q][j] =
                IF q = s /\ j = k THEN stored[q][j] + n ELSE stored[q][j]
      BY <2>1, <1>t, BumpOne DEF TypeOK
    <3>2. CASE notified' = [notified EXCEPT ![s][k] = @ + n]
      <4>1. /\ notified' \in [Sinks -> [Keys -> Nat]]
            /\ \A q \in Sinks, j \in Keys : notified'[q][j] =
                  IF q = s /\ j = k THEN notified[q][j] + n ELSE notified[q][j]
        BY <3>2, <1>t, BumpOne DEF TypeOK
      <4>2. ASSUME NEW q \in Sinks, NEW j \in Keys PROVE notified'[q][j] <= stored'[q][j]
        <5>1. /\ notified[q][j] <= stored[q][j]
              /\ notified[q][j] \in Nat /\ stored[q][j] \in Nat
          BY DEF NotifiedIsStored, TypeOK
        <5> QED BY <3>1, <4>1, <1>t, <5>1
      <4> QED BY <4>1, <4>2 DEF NotifiedIsStored
    <3>3. CASE UNCHANGED notified
      <4>1. ASSUME NEW q \in Sinks, NEW j \in Keys PROVE notified'[q][j] <= stored'[q][j]
        <5>1. /\ notified[q][j] <= stored[q][j] /\ notified'[q][j] = notified[q][j]
              /\ notified[q][j] \in Nat /\ stored[q][j] \in Nat
          BY <3>3 DEF NotifiedIsStored, TypeOK
        <5> QED BY <3>1, <1>t, <5>1
      <4>2. notified' \in [Sinks -> [Keys -> Nat]] BY <3>3 DEF TypeOK
      <4> QED BY <4>1, <4>2 DEF NotifiedIsStored
    <3> QED BY <1>b, <2>1, <3>2, <3>3
  <2>2. CASE UNCHANGED <<stored, notified>>
    BY <2>2 DEF NotifiedIsStored, TypeOK
  <2> QED BY <1>b, <2>1, <2>2
<1>f. row' \in [Keys -> Entries] /\ \A j \in Keys : SpanOK(row'[j])
  <2>1. CASE row' = row BY <2>1 DEF TypeOK, SpansExact
  <2>2. CASE row' = [row EXCEPT ![k] = IF @.occurrences = 0 THEN batch[s][k]
                                         ELSE Upserted(@, batch[s][k])]
    <3>1. row[k] \in Entries /\ row[k].occurrences \in Nat /\ SpanOK(row[k])
      BY DEF TypeOK, Entries, SpansExact
    <3>2. row'[k] \in Entries /\ SpanOK(row'[k])
      <4>1. CASE row[k].occurrences = 0 BY <2>2, <4>1, <1>t DEF TypeOK
      <4>2. CASE row[k].occurrences # 0
        <5>1. row'[k] = Upserted(row[k], batch[s][k]) BY <2>2, <4>2 DEF TypeOK
        <5>2. row[k].occurrences > 0 BY <3>1, <4>2
        <5>3. batch[s][k].occurrences > 0 BY <1>a DEF n
        <5> QED BY <3>1, <5>1, <5>2, <5>3, <1>t, EntryTypes, SpanKept
      <4> QED BY <4>1, <4>2
    <3>3. \A j \in Keys \ {k} : row'[j] = row[j] BY <2>2 DEF TypeOK
    <3> QED BY <2>2, <3>2, <3>3 DEF TypeOK, SpansExact
  <2> QED BY <1>b, <2>1, <2>2
<1>1. TypeOK' BY <1>a, <1>u, <1>c, <1>d, <1>e, <1>f DEF TypeOK
<1>2. BatchHeldByFlush' BY <1>a, <1>c, <1>t DEF BatchHeldByFlush
<1>3. Conserved'
  <2> SUFFICES ASSUME NEW q \in Sinks, NEW j \in Keys
               PROVE  recorded'[q][j] = pending'[q][j].occurrences
                        + batch'[q][j].occurrences + stored'[q][j]
                        + dropped'[q][j] + failed'[q][j]
    BY DEF Conserved
  <2>1. recorded[q][j] = pending[q][j].occurrences + batch[q][j].occurrences
                           + stored[q][j] + dropped[q][j] + failed[q][j]
    BY DEF Conserved
  <2>2. /\ pending[q][j].occurrences \in Nat /\ batch[q][j].occurrences \in Nat
        /\ stored[q][j] \in Nat /\ dropped[q][j] \in Nat /\ failed[q][j] \in Nat
        /\ stored'[q][j] \in Nat /\ failed'[q][j] \in Nat
    BY <1>d DEF TypeOK, Entries
  <2>3. CASE q = s /\ j = k
    <3>1. batch'[q][j].occurrences = 0 /\ batch[q][j].occurrences = n
      BY <1>c, <1>t, <2>3 DEF n
    <3>2. stored'[q][j] + failed'[q][j] = stored[q][j] + failed[q][j] + n
      BY <1>d, <2>3
    <3> QED BY <1>a, <1>t, <2>1, <2>2, <3>1, <3>2
  <2>4. CASE ~(q = s /\ j = k)
    <3>1. batch'[q][j] = batch[q][j] BY <1>c, <2>4
    <3>2. stored'[q][j] + failed'[q][j] = stored[q][j] + failed[q][j] BY <1>d, <2>4
    <3>3. UNCHANGED <<recorded, pending, dropped>> BY <1>a
    <3> HIDE DEF IndInv
    <3> QED BY <2>1, <2>2, <3>1, <3>2, <3>3
  <2> QED BY <2>3, <2>4
<1>4. SpansExact' BY <1>a, <1>c, <1>f, SpanKept DEF SpansExact
<1>6. NoneStranded' BY <1>a DEF NoneStranded, Buffered
<1> QED BY <1>1, <1>2, <1>3, <1>4, <1>e, <1>6

LEMMA DrainCountsInv ==
    ASSUME IndInv, NEW s \in Sinks, DrainCounts(s)
    PROVE  IndInv'
<1> USE DEF IndInv, DrainCounts, Drained, history
<1>1. TypeOK' BY DEF TypeOK
<1>2. BatchHeldByFlush' BY DEF BatchHeldByFlush, TypeOK
<1>3. Conserved' /\ SpansExact' /\ NotifiedIsStored'
  BY DEF Conserved, SpansExact, NotifiedIsStored
<1>4. NoneStranded' BY DEF NoneStranded, Buffered, TypeOK
<1> QED BY <1>1, <1>2, <1>3, <1>4

LEMMA EndFlushInv ==
    ASSUME IndInv, NEW s \in Sinks, EndFlush(s)
    PROVE  IndInv'
<1> USE DEF IndInv, EndFlush, Reschedule, history
<1>1. TypeOK' BY DEF TypeOK
<1>2. BatchHeldByFlush' BY DEF BatchHeldByFlush, TypeOK
<1>3. Conserved' /\ SpansExact' /\ NotifiedIsStored'
  BY DEF Conserved, SpansExact, NotifiedIsStored
<1>4. NoneStranded' BY DEF NoneStranded, Buffered, TypeOK
<1> QED BY <1>1, <1>2, <1>3, <1>4

LEMMA CloseReturnInv ==
    ASSUME IndInv, NEW s \in Sinks, CloseReturn(s)
    PROVE  IndInv'
<1> USE DEF IndInv, CloseReturn, sinkVars, countVars, history
<1>1. TypeOK' BY DEF TypeOK
<1>2. BatchHeldByFlush' BY DEF BatchHeldByFlush
<1>3. Conserved' /\ SpansExact' /\ NotifiedIsStored' /\ NoneStranded'
  BY DEF Conserved, SpansExact, NotifiedIsStored, NoneStranded, Buffered
<1> QED BY <1>1, <1>2, <1>3

LEMMA NextInv == IndInv /\ [Next]_vars => IndInv'
<1> SUFFICES ASSUME IndInv, [Next]_vars PROVE IndInv' OBVIOUS
<1>1. ASSUME NEW s \in Sinks, NEW d \in DedupKeys, NEW t \in Times, Record(s, d, t)
      PROVE  IndInv'
  BY <1>1, RecordInv
<1>2. ASSUME NEW s \in Sinks, Suppress(s) PROVE IndInv' BY <1>2, SuppressInv
<1>3. ASSUME NEW s \in Sinks, TimerFires(s) PROVE IndInv'
  BY <1>3, BeginFlushInv DEF TimerFires, IndInv, TypeOK
<1>4. ASSUME NEW s \in Sinks, Flush(s) PROVE IndInv'
  BY <1>4, UpsertInv, DrainCountsInv, EndFlushInv DEF Flush
<1>5. ASSUME NEW s \in Sinks, Close(s) PROVE IndInv'
  <2>1. closing' \in [Sinks -> {"open", "flushing", "notifying", "closed"}]
    BY <1>5 DEF Close, IndInv, TypeOK
  <2> QED BY <1>5, <2>1, BeginFlushInv DEF Close
<1>6. ASSUME NEW s \in Sinks, CloseReturn(s) PROVE IndInv' BY <1>6, CloseReturnInv
<1>7. CASE UNCHANGED vars
  BY <1>7 DEF vars, IndInv, TypeOK, BatchHeldByFlush, Conserved, SpansExact,
              NotifiedIsStored, NoneStranded, Buffered
<1> QED BY <1>1, <1>2, <1>3, <1>4, <1>5, <1>6, <1>7 DEF Next

THEOREM Inductive == Spec => []IndInv
<1> QED BY InitInv, NextInv, PTL DEF Spec

\* Every recorded occurrence is counted exactly once, wherever it has got to.
THEOREM ConservedCorrect == Spec => []Conserved
<1>1. IndInv => Conserved BY DEF IndInv
<1> QED BY <1>1, Inductive, PTL

\* An alert's first and last sighting are those of the findings it stands for.
THEOREM SpansCorrect == Spec => []SpansExact
<1>1. IndInv => SpansExact BY DEF IndInv
<1> QED BY <1>1, Inductive, PTL

\* The notifier is offered no more than the table holds.
THEOREM NotifiedCorrect == Spec => []NotifiedIsStored
<1>1. IndInv => NotifiedIsStored BY DEF IndInv
<1> QED BY <1>1, Inductive, PTL

\* Whatever is buffered has a timer set or a flush running.
THEOREM NoneStrandedCorrect == Spec => []NoneStranded
<1>1. IndInv => NoneStranded BY DEF IndInv
<1> QED BY <1>1, Inductive, PTL

-----------------------------------------------------------------------------
(* The suppression counts *)

LEMMA CountsInit == Init => CountsInv
<1> SUFFICES ASSUME Init PROVE CountsInv
  OBVIOUS
<1>1. SumFunction(countBatch) = 0
  BY ConstantsAssumption, SumZero DEF Init
<1>2. CountsConserved
  BY <1>1 DEF Init, CountsConserved
<1>3. CountsHeldByFlush
  BY DEF Init, CountsHeldByFlush
<1> QED BY <1>2, <1>3 DEF CountsInv

\* A step that leaves the counts alone and enters no writing of them.
LEMMA CountsKept ==
    ASSUME CountsInv, UNCHANGED countVars,
           \A s \in Sinks : phase[s] = "counts" => phase'[s] = "counts"
    PROVE  CountsInv'
<1> QED BY DEF CountsInv, CountsHeldByFlush, CountsConserved, countVars

LEMMA SuppressCounts ==
    ASSUME TypeOK, CountsInv, NEW s \in Sinks, Suppress(s)
    PROVE  CountsInv'
<1>1. UNCHANGED <<phase, countBatch, matchCount, countsLost>>
  BY DEF Suppress
<1>2. suppressed' = suppressed + 1 /\ counts' = counts + 1
  BY DEF Suppress
<1>3. SumFunction(countBatch) \in Nat
  BY ConstantsAssumption, SumChanged DEF TypeOK
<1>4. CountsConserved'
  <2> DEFINE sum == SumFunction(countBatch)
  <2>1. sum' = sum
    BY <1>1
  <2>2. suppressed = matchCount + counts + sum + countsLost
    BY DEF CountsInv, CountsConserved
  <2>3. sum \in Nat
    BY <1>3
  <2> HIDE DEF sum
  <2>4. suppressed' = matchCount' + counts' + sum' + countsLost'
    BY <1>1, <1>2, <2>1, <2>2, <2>3 DEF TypeOK
  <2> QED BY <2>4 DEF CountsConserved, sum
<1>5. CountsHeldByFlush'
  BY <1>1 DEF CountsInv, CountsHeldByFlush
<1> QED BY <1>4, <1>5 DEF CountsInv

\* The counts that are drained move from the buffer to the batch of one flush, which
\* held none.
LEMMA DrainCountsCounts ==
    ASSUME TypeOK, CountsInv, NEW s \in Sinks, DrainCounts(s)
    PROVE  CountsInv'
<1>1. /\ countBatch' = [countBatch EXCEPT ![s] = counts] /\ counts' = 0
      /\ phase[s] = "alerts" /\ phase' = [phase EXCEPT ![s] = "counts"]
      /\ UNCHANGED <<matchCount, suppressed, countsLost>>
  BY DEF DrainCounts, Drained
<1>2. countBatch \in [Sinks -> Nat] /\ countBatch' \in [Sinks -> Nat]
  BY <1>1 DEF TypeOK
<1>3. countBatch[s] = 0
  BY <1>1 DEF CountsInv, CountsHeldByFlush
<1>4. /\ SumFunction(countBatch) \in Nat
      /\ SumFunction(countBatch') = (SumFunction(countBatch) - countBatch[s]) + countBatch'[s]
  <2>1. \A q \in Sinks : q # s => countBatch'[q] = countBatch[q]
    BY <1>1, <1>2
  <2> QED BY <1>2, <2>1, ConstantsAssumption, SumChanged
<1>5. CountsConserved'
  <2> DEFINE sum == SumFunction(countBatch)
             new == SumFunction(countBatch')
  <2>1. sum \in Nat /\ new = (sum - countBatch[s]) + countBatch'[s] /\ countBatch'[s] = counts
    BY <1>1, <1>2, <1>4
  <2>2. suppressed = matchCount + counts + sum + countsLost
    BY DEF CountsInv, CountsConserved
  <2> HIDE DEF sum, new
  <2>3. suppressed' = matchCount' + counts' + new + countsLost'
    BY <1>1, <1>3, <2>1, <2>2 DEF TypeOK
  <2> QED BY <2>3 DEF CountsConserved, new
<1>6. CountsHeldByFlush'
  BY <1>1, <1>2 DEF CountsInv, CountsHeldByFlush, TypeOK
<1> QED BY <1>5, <1>6 DEF CountsInv

\* They leave the batch for the table, or are lost.
LEMMA EndFlushCounts ==
    ASSUME TypeOK, CountsInv, NEW s \in Sinks, EndFlush(s)
    PROVE  CountsInv'
<1>1. /\ countBatch' = [countBatch EXCEPT ![s] = 0]
      /\ phase' = [phase EXCEPT ![s] = "idle"] /\ UNCHANGED <<counts, suppressed>>
  BY DEF EndFlush
<1>2. countBatch \in [Sinks -> Nat] /\ countBatch' \in [Sinks -> Nat]
  BY <1>1 DEF TypeOK
<1>3. \/ matchCount' = matchCount + countBatch[s] /\ countsLost' = countsLost
      \/ countsLost' = countsLost + countBatch[s] /\ matchCount' = matchCount
  BY DEF EndFlush
<1>4. /\ SumFunction(countBatch) \in Nat /\ countBatch[s] <= SumFunction(countBatch)
      /\ SumFunction(countBatch') = (SumFunction(countBatch) - countBatch[s]) + countBatch'[s]
  <2>1. \A q \in Sinks : q # s => countBatch'[q] = countBatch[q]
    BY <1>1, <1>2
  <2> QED BY <1>2, <2>1, ConstantsAssumption, SumChanged
<1>5. CountsConserved'
  <2> DEFINE sum == SumFunction(countBatch)
             new == SumFunction(countBatch')
  <2>1. sum \in Nat /\ new = (sum - countBatch[s]) + countBatch'[s] /\ countBatch'[s] = 0
    BY <1>1, <1>2, <1>4
  <2>2. suppressed = matchCount + counts + sum + countsLost
    BY DEF CountsInv, CountsConserved
  <2> HIDE DEF sum, new
  <2>3. suppressed' = matchCount' + counts' + new + countsLost'
    BY <1>1, <1>2, <1>3, <2>1, <2>2 DEF TypeOK
  <2> QED BY <2>3 DEF CountsConserved, new
<1>6. CountsHeldByFlush'
  BY <1>1, <1>2 DEF CountsInv, CountsHeldByFlush, TypeOK
<1> QED BY <1>5, <1>6 DEF CountsInv

LEMMA NextCounts == TypeOK /\ CountsInv /\ [Next]_vars => CountsInv'
<1> SUFFICES ASSUME TypeOK, CountsInv, [Next]_vars PROVE CountsInv'
  OBVIOUS
<1>1. ASSUME NEW s \in Sinks, NEW d \in DedupKeys, NEW t \in Times, Record(s, d, t)
      PROVE  CountsInv'
  BY <1>1, CountsKept DEF Record, countVars
<1>2. ASSUME NEW s \in Sinks, BeginFlush(s), UNCHANGED countVars PROVE CountsInv'
  <2>1. \A q \in Sinks : phase[q] = "counts" => phase'[q] = "counts"
    BY <1>2 DEF BeginFlush, NeedsFlush, TypeOK
  <2> QED BY <1>2, <2>1, CountsKept
<1>3. ASSUME NEW s \in Sinks, TimerFires(s) \/ Close(s) PROVE CountsInv'
  BY <1>2, <1>3 DEF TimerFires, Close
<1>4. ASSUME NEW s \in Sinks, NEW k \in Keys, Upsert(s, k) PROVE CountsInv'
  BY <1>4, CountsKept DEF Upsert
<1>5. ASSUME NEW s \in Sinks, Flush(s) PROVE CountsInv'
  BY <1>4, <1>5, DrainCountsCounts, EndFlushCounts DEF Flush
<1>6. ASSUME NEW s \in Sinks, CloseReturn(s) PROVE CountsInv'
  BY <1>6, CountsKept DEF CloseReturn, sinkVars
<1>7. CASE UNCHANGED vars
  BY <1>7, CountsKept DEF vars, countVars
<1> QED BY <1>1, <1>3, <1>5, <1>6, <1>7, SuppressCounts DEF Next

\* Every suppressed finding is counted exactly once: in the buffer that all sinks share, in
\* what one flush has drained, in the rule's match count, or among the counts a failing
\* statement lost; however many sinks of a process flush at once.
THEOREM CountsCorrect == Spec => []CountsConserved
<1>1. IndInv => TypeOK
  BY DEF IndInv
<1>2. CountsInv => CountsConserved
  BY DEF CountsInv
<1> QED BY <1>1, <1>2, Inductive, CountsInit, NextCounts, PTL DEF Spec

=============================================================================
