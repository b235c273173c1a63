----------------------------- MODULE ThreatIntel -----------------------------
(***************************************************************************)
(* The indicator feeds: how a reload builds one set from several sources,  *)
(* what it falls back on, and how an address is looked up in the set.      *)
(*                                                                         *)
(* Addresses are numbers and a feed is a set of ranges of them (one        *)
(* address, or a prefix).  A reload reads one source after the other into  *)
(* a new set, seals it and puts it in the place of the old one; a download *)
(* is kept on disk and stands in for one that fails.  Host names and IPv6  *)
(* are looked up like single addresses and are left out.                   *)
(***************************************************************************)
EXTENDS Naturals, FiniteSets, Sequences, FiniteSetsExt, SequencesExt

CONSTANTS
    Feeds,            \* the sources, in the order of INTEL_FEEDS
    Downloads,        \* those fetched over the network; the others are files
    Bodies, Contents, \* what a source can deliver, and the ranges each body lists
    Addresses,
    NonRoutable,      \* addresses no feed may list
    MaxIndicators,    \* env.intel.maxIndicators; a ceiling of 0 would hold nothing at all
    NoBody,
    MaxReloads, MaxIntelCrashes

Ranges == {r \in [start : Addresses, end : Addresses] : r.start <= r.end}

ASSUME IntelAssumption ==
    /\ Addresses \subseteq Nat /\ IsFiniteSet(Addresses) /\ NonRoutable \subseteq Addresses
    /\ Feeds \in Seq(ToSet(Feeds)) /\ Contents \in [Bodies -> SUBSET Ranges] /\ NoBody \notin Bodies
    /\ Downloads \subseteq ToSet(Feeds)
    /\ MaxIndicators \in Nat \ {0} /\ MaxReloads \in Nat /\ MaxIntelCrashes \in Nat

VARIABLES
    published,   \* registry.set: exact addresses and merged ranges
    loading,     \* the reload that runs: its sources to go, and the set it fills; of history
                 \* the bodies it read, and the first source the ceiling cut (or one past the last)
    cacheFile,   \* the copy of each download on disk
    \* history
    lastBody,      \* the last body each source delivered
    used,        \* the bodies the published set was built from
    uncached,    \* a download could not be written to disk
    reloads, intelCrashes  \* bounds

intelVars == <<published, loading, cacheFile, lastBody, used, uncached, reloads, intelCrashes>>

EmptySet == [exact |-> {}, ranges |-> <<>>]
FeedNames == ToSet(Feeds)
Uncut == Len(Feeds) + 1
\* size and the prefixes pushed so far, where one that two sources list counts twice.
SizeOf(set) == Cardinality(set.exact) + set.pushed
NotLoading == [running |-> FALSE, left |-> <<>>, exact |-> {}, pending |-> {}, pushed |-> 0,
               from |-> [f \in FeedNames |-> NoBody], cut |-> Uncut]

IntelTypeOK ==
    /\ published.exact \subseteq Addresses /\ published.ranges \in Seq(Ranges)
    /\ loading.running \in BOOLEAN /\ loading.exact \subseteq Addresses /\ loading.pending \subseteq Ranges
    /\ SizeOf(loading) \in 0..MaxIndicators /\ loading.cut \in 1..Uncut
    /\ cacheFile \in [Downloads -> Bodies \cup {NoBody}]
    /\ lastBody \in [FeedNames -> Bodies \cup {NoBody}] /\ used \in [FeedNames -> Bodies \cup {NoBody}]
    /\ uncached \in BOOLEAN /\ reloads \in 0..MaxReloads /\ intelCrashes \in 0..MaxIntelCrashes

IntelInit ==
    /\ published = EmptySet /\ loading = NotLoading
    /\ cacheFile = [f \in Downloads |-> NoBody]
    /\ lastBody = [f \in FeedNames |-> NoBody] /\ used = [f \in FeedNames |-> NoBody]
    /\ uncached = FALSE /\ reloads = 0 /\ intelCrashes = 0

-----------------------------------------------------------------------------
(* IndicatorSet *)

\* add(): a range that touches the unroutable space at either end is refused.
Acceptable(r) == {r.start, r.end} \cap NonRoutable = {}
Single(r) == r.start = r.end
SinglesIn(ranges) == {r.start : r \in {x \in ranges : Single(x)}}
PrefixesIn(ranges) == {r \in ranges : ~Single(r)}

\* seal(): taken by start and merged, so that no two ranges overlap or touch.
Latest(ranges) == CHOOSE r \in ranges : \A s \in ranges : s.start < r.start \/ (s.start = r.start /\ s.end <= r.end)
Extended(range, r) == [range EXCEPT !.end = IF r.end > @ THEN r.end ELSE @]
Merge(r, merged) ==
    IF merged # <<>> /\ r.start <= Last(merged).end + 1
    THEN [merged EXCEPT ![Len(merged)] = Extended(@, r)]
    ELSE Append(merged, r)
Seal(pending) == MapThenFoldSet(Merge, <<>>, LAMBDA r : r, Latest, pending)

\* matchIp(): exact first, then the last range that starts at or below it.
MatchIp(set, address) ==
    \/ address \in set.exact
    \/ LET below == {i \in DOMAIN set.ranges : set.ranges[i].start <= address} IN
       below # {} /\ address <= set.ranges[Max(below)].end

-----------------------------------------------------------------------------
(* The registry *)

\* reload(), called by the timer or by an administrator; a second one is turned away.
BeginReload ==
    /\ ~loading.running /\ reloads < MaxReloads
    /\ reloads' = reloads + 1
    /\ loading' = [NotLoading EXCEPT !.running = TRUE, !.left = Feeds]
    /\ UNCHANGED <<published, cacheFile, lastBody, used, uncached, intelCrashes>>

NextFeed == Head(loading.left)
SourcesRead == Len(Feeds) - Len(loading.left)
IndicatorsIn(body) == {r \in Contents[body] : Acceptable(r)}
\* The set holds those kept of what the source lists: all of it, unless it is full with less.
LoadingWith(body, kept) ==
    [running |-> TRUE, left |-> Tail(loading.left),
     exact |-> loading.exact \cup SinglesIn(kept), pending |-> loading.pending \cup PrefixesIn(kept),
     pushed |-> loading.pushed + Cardinality(PrefixesIn(kept)),
     from |-> [loading.from EXCEPT ![NextFeed] = body],
     cut |-> IF kept = IndicatorsIn(body) \/ loading.cut # Uncut THEN loading.cut ELSE SourcesRead + 1]
Reads(body) == \E kept \in SUBSET IndicatorsIn(body) :
    /\ SizeOf(LoadingWith(body, kept)) <= MaxIndicators
    /\ kept # IndicatorsIn(body) => SizeOf(LoadingWith(body, kept)) = MaxIndicators
    /\ loading' = LoadingWith(body, kept)
Reading == loading.running /\ loading.left # <<>>

\* The download arrived and replaced its copy on disk, or the copy could not be written.
FetchSucceeds(body) ==
    /\ Reading /\ NextFeed \in Downloads
    /\ Reads(body)
    /\ lastBody' = [lastBody EXCEPT ![NextFeed] = body]
    /\ \/ cacheFile' = [cacheFile EXCEPT ![NextFeed] = body] /\ UNCHANGED uncached
       \/ uncached' = TRUE /\ UNCHANGED cacheFile
    /\ UNCHANGED <<published, used, reloads, intelCrashes>>

\* Refused, too large or timed out: the copy on disk, if there is one.
MutantFetchFails ==
    /\ Reading /\ NextFeed \in Downloads
    /\ loading' = [loading EXCEPT !.left = Tail(@)]
    /\ UNCHANGED <<published, cacheFile, lastBody, used, uncached, reloads, intelCrashes>>
FetchFails ==
    /\ Reading /\ NextFeed \in Downloads
    /\ IF cacheFile[NextFeed] # NoBody THEN Reads(cacheFile[NextFeed])
       ELSE loading' = [loading EXCEPT !.left = Tail(@)]
    /\ UNCHANGED <<published, cacheFile, lastBody, used, uncached, reloads, intelCrashes>>

ReadsFile(body) ==
    /\ Reading /\ NextFeed \notin Downloads
    /\ Reads(body)
    /\ lastBody' = [lastBody EXCEPT ![NextFeed] = body]
    /\ UNCHANGED <<published, cacheFile, used, uncached, reloads, intelCrashes>>

\* The file is gone; it counts as a source that holds nothing.
FileIsMissing ==
    /\ Reading /\ NextFeed \notin Downloads
    /\ loading' = [loading EXCEPT !.left = Tail(@)]
    /\ lastBody' = [lastBody EXCEPT ![NextFeed] = NoBody]
    /\ UNCHANGED <<published, cacheFile, used, uncached, reloads, intelCrashes>>

\* Sealed, and published unless nothing at all was read while something is held.
SealAndPublish ==
    /\ loading.running /\ loading.left = <<>>
    /\ LET built == [exact |-> loading.exact, ranges |-> Seal(loading.pending)] IN
       IF built = EmptySet /\ published # EmptySet
       THEN UNCHANGED <<published, used>>
       ELSE published' = built /\ used' = loading.from
    /\ loading' = NotLoading
    /\ UNCHANGED <<cacheFile, lastBody, uncached, reloads, intelCrashes>>

\* The process ends; what is on disk stays.
IntelCrash ==
    /\ intelCrashes < MaxIntelCrashes /\ intelCrashes' = intelCrashes + 1
    /\ published' = EmptySet /\ loading' = NotLoading
    /\ used' = [f \in FeedNames |-> NoBody]
    /\ lastBody' = [f \in FeedNames |-> IF f \in Downloads THEN lastBody[f] ELSE NoBody]
    /\ UNCHANGED <<cacheFile, uncached, reloads>>

IntelNext ==
    \/ BeginReload \/ FetchFails \/ FileIsMissing \/ SealAndPublish \/ IntelCrash
    \/ \E body \in Bodies : FetchSucceeds(body) \/ ReadsFile(body)

IntelSpec == IntelInit /\ [][IntelNext]_intelVars

-----------------------------------------------------------------------------
(* Properties *)

\* The indicators a source delivered last, across failing downloads and restarts.
Listed(f) == IF lastBody[f] = NoBody THEN {} ELSE IndicatorsIn(lastBody[f])
Covers(r, address) == r.start <= address /\ address <= r.end

\* The first n sources, and all they list; those a reload has read, what it fills its set with.
FirstFeeds(n) == {Feeds[i] : i \in {j \in DOMAIN Feeds : j <= n}}
AllListed(feeds) == UNION {Listed(f) : f \in feeds}
ReadSoFar == FirstFeeds(SourcesRead)
Gathered == AllListed(ReadSoFar)
IsRestOfFeeds(left) ==
    /\ Len(left) <= Len(Feeds)
    /\ \A i \in 1..Len(left) : left[i] = Feeds[Len(Feeds) - Len(left) + i]
HoldsJust(ranges) == loading.exact = SinglesIn(ranges) /\ loading.pending = PrefixesIn(ranges)
HoldsAllOf(ranges) == SinglesIn(ranges) \subseteq loading.exact /\ PrefixesIn(ranges) \subseteq loading.pending
HoldsNoMoreThan(ranges) == loading.exact \subseteq SinglesIn(ranges) /\ loading.pending \subseteq PrefixesIn(ranges)
\* Not cut, it holds what the sources list; cut, it is full, and what it lacks is the cut source's or a later one's.
Gathers ==
    \/ loading.cut = Uncut /\ HoldsJust(Gathered)
    \/ /\ loading.cut \in 1..SourcesRead /\ SizeOf(loading) = MaxIndicators
       /\ HoldsAllOf(AllListed(FirstFeeds(loading.cut - 1)))
       /\ HoldsNoMoreThan(AllListed(FirstFeeds(loading.cut)))
CopiesAreLast == \A f \in Downloads : cacheFile[f] = lastBody[f]

LoadingOK == loading \in [running : BOOLEAN, left : Seq(FeedNames), exact : SUBSET Addresses,
                          pending : SUBSET Ranges, pushed : Nat,
                          from : [FeedNames -> Bodies \cup {NoBody}], cut : 1..Uncut]

\* The inductive invariant behind PublishedExactly: a copy on disk is what its source
\* delivered last, and a reload under way holds all that the sources behind it list, or
\* is full.
IntelInv ==
    /\ LoadingOK
    /\ cacheFile \in [Downloads -> Bodies \cup {NoBody}]
    /\ lastBody \in [FeedNames -> Bodies \cup {NoBody}]
    /\ ~uncached => CopiesAreLast
    /\ loading.running => IsRestOfFeeds(loading.left)
    /\ loading.pending = {} => loading.pushed = 0
    /\ loading.running /\ ~uncached => Gathers

\* No source is listed twice in INTEL_FEEDS.
SourcesDiffer == IsInjective(Feeds)

\* After a reload an address matches exactly if an indicator some source delivered
\* last covers it: overlapping prefixes hide nothing, and neither a download that
\* fails nor a restart without a network loses a feed that was once read, as long
\* as its copy could be written.  Where the ceiling cuts a source the set is full:
\* every source before that one still matches whole, and nothing a later source
\* lists matches on its account.  Only a reload that reads nothing at all leaves
\* more than that in force.
CoveredBy(feeds, address) == \E r \in AllListed(feeds) : Covers(r, address)
PublishedExactly ==
    SealAndPublish /\ ~uncached =>
        \/ AllListed(FeedNames) = {}
        \/ /\ loading.cut # Uncut => SizeOf(loading) = MaxIndicators
           /\ \A a \in Addresses :
                /\ CoveredBy(FirstFeeds(loading.cut - 1), a) => MatchIp(published', a)
                /\ MatchIp(published', a) => CoveredBy(FirstFeeds(loading.cut), a)
LookupExact == [][PublishedExactly]_intelVars
==============================================================================
