----------------------------- MODULE MCProgress -----------------------------
(***************************************************************************)
(* Instances of the services that owe somebody an end: the notifier, the   *)
(* export feed, the channels, the suppression rules' cache, the flow       *)
(* collector, the page that follows a capture and the language of a page.  *)
(* They share no state, and one behaviour is a behaviour of one of them,   *)
(* the part: the others stay in an initial state.                          *)
(***************************************************************************)
EXTENDS Notifier, ExportFeed, SuppressionCache, FlowCollector, CapturePage,
        DeliveryChannels, Locales

VARIABLES part, scenario

\* Notifier: the settings that may be saved.  A behaviour is of one of two scenarios: saves
\* that overlap one another and the closing of a sink, with one key at one instant; or the
\* limits, with two keys while time passes, and at most one save.
Strict == [notifies |-> Keys, throttle |-> 2, maxPerHour |-> 1]
Lax == [notifies |-> Keys, throttle |-> 1, maxPerHour |-> 2]
Open == [notifies |-> Keys, throttle |-> 0, maxPerHour |-> 9]
Off == [notifies |-> {}, throttle |-> 1, maxPerHour |-> 1]
AllSettings == {Strict, Lax, Open, Off}

LimitsStart == INSTANCE Notifier WITH FirstSettings <- Strict
ScenarioInit ==
    \/ scenario = "reload" /\ Init
    \/ scenario = "limits" /\ LimitsStart!Init

OneKey == CHOOSE k \in Keys : TRUE
OneSaver == CHOOSE a \in Savers : TRUE

\* The bounds of each scenario.  Keys are alike, and so are savers: OneKey and OneSaver
\* come first.
ReloadBounds ==
    /\ now' = 0 /\ cached' \in {Lax, Open} /\ Len(accepted') <= 2
    /\ \A i \in DOMAIN accepted' : accepted'[i].key = OneKey
    /\ saves' = 1 => cached' = Lax /\ \A a \in Savers \ {OneSaver} : flush'[a].stage = "idle"
LimitsBounds ==
    /\ saves' <= 1 /\ cached' \in (IF saves' = 0 THEN {Strict} ELSE {Lax, Off})
    /\ \A a \in Flushers \ {OneSaver} : flush'[a].stage = "idle"
    /\ accepted' # <<>> => accepted'[1].key = OneKey

ScenarioNext ==
    /\ Next /\ UNCHANGED scenario
    /\ scenario = "reload" => ReloadBounds
    /\ scenario = "limits" => LimitsBounds

\* SuppressionCache: a patch clears one criterion of two.
ClearOne == {[set |-> {}, clear |-> {c}] : c \in Criteria}

\* Locales: three languages, one of them right to left; sentences that are translated, not
\* yet, or not at all well; rows of this version, of an older and of a newer one; and failures
\* of a server that is newer than the page.
SampleEnglish == <<"en", "">>
SampleLocales == {SampleEnglish, <<"de", "">>, <<"fa", "AF">>}
SampleRightToLeft == {<<"fa", "AF">>}
SampleTags == {<<"de", "CH">>}
SampleBrowserTags == {<<>>, <<<<"ja", "">>, <<"fa", "AF">>>>}
ScanPattern == Pattern({"source"}, "known", {"service"}, {})
PlainPattern(always) == Pattern(always, NoName, {}, {})
Everywhere(patterns) == [l \in SampleLocales |-> patterns]
SampleFindings ==
    [Everywhere([scan |-> ScanPattern, new |-> ScanPattern, bad |-> PlainPattern({"domain"}),
                 intel |-> PlainPattern({"target", "reasons"}), reason |-> PlainPattern({"domain", "hits"})])
     EXCEPT ![<<"fa", "AF">>].new = Untranslated, ![<<"de", "">>].bad = Malformed]
SampleServerErrors ==
    Everywhere([internal |-> PlainPattern({}), unreachable |-> PlainPattern({}), port |-> PlainPattern({"port"}),
                newer |-> PlainPattern({}), changed |-> PlainPattern({})])
SampleBundleErrors ==
    [Everywhere([internal |-> PlainPattern({}), unreachable |-> PlainPattern({}), port |-> PlainPattern({"port"}),
                 changed |-> PlainPattern({"field"})])
     EXCEPT ![<<"fa", "AF">>].port = Untranslated]
FindingRow(name, values, minutes) == [key |-> name, params |-> values, title |-> "prose", age |-> minutes]
ScanValues == [source |-> TextValue("10.0.0.1"), known |-> Truth(TRUE), service |-> TextValue("ssh")]
ReasonRef(domain) == Ref("reason", [domain |-> TextValue(domain), hits |-> NumberValue(3)])
SampleRows ==
    {FindingRow("scan", Object(ScanValues), <<59>>), FindingRow("new", Object(ScanValues), <<-1>>),
     FindingRow("scan", Object([ScanValues EXCEPT !.known = TextValue("true")]), <<60>>),
     FindingRow("scan", Object([ScanValues EXCEPT !.known = Truth(FALSE)]), <<1439>>),
     FindingRow("scan", Object([ScanValues EXCEPT !.service = Infinite]), <<1440>>),
     FindingRow("gone", Object(ScanValues), <<2880>>), FindingRow("scan", TextValue("junk"), <<>>),
     FindingRow("bad", Object([domain |-> TextValue("d")]), <<0>>), FindingRow(NoName, Null, <<>>),
     FindingRow("intel", Object([target |-> ReasonRef("a"),
                                 reasons |-> ListOfValues(<<ReasonRef("a"), ReasonRef("b")>>)]), <<>>),
     FindingRow("intel", Object([target |-> Null, reasons |-> ListOfValues(<<ReasonRef("a"), Null>>)]), <<>>),
     FindingRow("intel", Object([target |-> Object([key |-> TextValue("reason")]),
                                 reasons |-> ListOfValues(<<>>)]), <<>>)}
SampleFailures ==
    {[kind |-> "http", code |-> "port", params |-> [port |-> TextValue("80")]], [kind |-> "thrown"],
     [kind |-> "plain", text |-> "boom"], [kind |-> "unreachable"], [kind |-> "page", text |-> "page"]}
    \cup {[kind |-> "http", code |-> c, params |-> NoFields] : c \in {"newer", "changed"}}

-----------------------------------------------------------------------------
ProgressInit ==
    /\ part \in {"notifier", "feed", "cache", "flow", "page", "channel", "words"}
    \* one initial state for the parts that are not chosen
    /\ ScenarioInit /\ (part # "notifier" => scenario = "reload")
    /\ FeedInit /\ CacheInit
    /\ FlowInit /\ (part # "flow" => flowRow = Defaults /\ ~stale)
    /\ PageInit /\ (part # "page" => ~openRow)
    /\ ChannelInit /\ (part # "channel" => channel = "udp" /\ lines = 0)
    /\ LocalesInit /\ (part # "words" => keeps /\ storedTag = NoTag /\ browserTags = <<>>)

\* The part that was chosen takes a step.
ProgressNext ==
    /\ UNCHANGED part
    /\ IF part = "notifier" THEN ScenarioNext ELSE UNCHANGED <<vars, scenario>>
    /\ IF part = "feed" THEN FeedNext ELSE UNCHANGED feedVars
    /\ IF part = "cache" THEN CacheNext ELSE UNCHANGED cacheVars
    /\ IF part = "flow" THEN FlowNext ELSE UNCHANGED flowVars
    /\ IF part = "page" THEN PageNext ELSE UNCHANGED pageVars
    /\ IF part = "channel" THEN ChannelNext ELSE UNCHANGED channelVars
    /\ IF part = "words" THEN LocalesNext ELSE UNCHANGED localeVars

progressVars == <<part, vars, scenario, feedVars, cacheVars, flowVars, pageVars, channelVars,
                  localeVars>>

\* The fairness of each part, where it is the part that runs (of the cache: where findings
\* arrive; without them no read starts a load).
Runs(p, A) == part = p /\ A
ProgressFairness ==
    /\ SF_vars(Runs("notifier", \E n \in Notifiers : DigestTimerFires(n) \/ Settle(n)))
    /\ \A a \in Closers : SF_vars(Runs("notifier", ExportsDone(a)))
    /\ SF_vars(Runs("notifier", \E a \in Savers : ExportsDone(a)))
    /\ WF_vars(Runs("notifier", Continue))
    /\ WF_feedVars(Runs("feed", ExportTimerFires)) /\ WF_feedVars(Runs("feed", BeginLink))
    /\ WF_feedVars(Runs("feed", SendEnds))
    /\ \A f \in Drainers :
        WF_feedVars(Runs("feed", FlushAgain(f))) /\ WF_feedVars(Runs("feed", EndFlush(f)))
    /\ WF_cacheVars(Runs("cache", ReadStarts)) /\ WF_cacheVars(Runs("cache", LoadReads))
    /\ WF_cacheVars(Runs("cache", LoadPublishes \/ LoadFails))
    /\ WF_cacheVars(Runs("cache", CacheTick))
    /\ \A c \in Clients :
        /\ WF_flowVars(Runs("flow", StopEnds(c) \/ BindSucceeds(c) \/ BindFails(c)))
        /\ WF_flowVars(Runs("flow", SaveCommits(c) \/ RowIsRead(c) \/ RereadSucceeds(c)
                                    \/ RereadFails(c)))
    /\ WF_pageVars(Runs("page", PagePoll \/ FetchServed \/ FetchArrives))
    /\ WF_pageVars(Runs("page", StartServed \/ StopServed \/ PressReplied \/ PressArrives))
    /\ WF_pageVars(Runs("page", StartEnds))
    /\ WF_pageVars(Runs("page", ServerListens \/ ReportInterrupted \/ ResumeInterrupted))
    /\ WF_channelVars(Runs("channel", ChannelNext))

ProgressSpec == ProgressInit /\ [][ProgressNext]_progressVars /\ ProgressFairness

\* Every part's variables keep their types.
ProgressTypeOK ==
    /\ part = "notifier" => TypeOK
    /\ part = "feed" => FeedTypeOK
    /\ part = "cache" => CacheTypeOK
    /\ part = "flow" => FlowTypeOK
    /\ part = "page" => PageTypeOK
    /\ part = "channel" => ChannelTypeOK
    /\ part = "words" => LocalesTypeOK

\* What is due is done in the end: once findings and saves stop, everything the notifier
\* accepted has been delivered; once writes stop, the newest version of the rules is
\* served, after any number of failed loads; every save of the flow settings is answered;
\* every queued finding is sent and every flush ends; every notification has a result; a
\* page on which nothing moves any more tells the truth about the capture.
DueIsDone ==
    []<>( /\ part = "notifier" => \A n \in Notifiers : queue[n] = {} /\ batch[n] = {}
          /\ part = "cache" => CacheAtRest
          /\ part = "flow" => FlowAtRest
          /\ part = "feed" => FeedAtRest
          /\ part = "channel" => ChannelAtRest
          /\ part = "page" => PageAtRest )
==============================================================================
