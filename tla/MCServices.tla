----------------------------- MODULE MCServices -----------------------------
(***************************************************************************)
(* Instances of the services that share no state with one another.  One    *)
(* behaviour is a behaviour of one of them, the part: the others stay in   *)
(* an initial state.                                                       *)
(***************************************************************************)
EXTENDS FlowDatagrams, PacketPath, ScanWindows, LanDetectors, ContactDetectors,
        ThreatIntel, Migrations, SettingsLayers, SettingsForm, Accounts, BrowserSession,
        AdhocConsole, AlertTrend, AlertDesk, FindingsList, SuppressionPage, AuditTrail,
        SettingValues, ConsoleQuery, MessageText, DeliveryPage, Navigation, FlowRecords

VARIABLE part

\* FlowDatagrams: every kind of datagram, and sets that define, redefine, withdraw
\* and use a template, in the orders that matter.
Template(d) == [kind |-> "template", id |-> 1, definition |-> d]
Withdrawal == [kind |-> "withdrawal", id |-> 1]
Truncated == [kind |-> "truncated", id |-> 1]
Data(decodable) == [kind |-> "data", id |-> 1, decodable |-> decodable]
Odd(kind) == [kind |-> kind]
SampleDatagrams ==
    [kind : {"sflow", "short", "unsupported", "v5", "unknown"}, sets : {<<>>}]
    \cup [kind : {"templated"},
          sets : {<<Template("d1"), Data(TRUE)>>, <<Template("d2")>>,
                  <<Odd("lost"), Template("d1")>>, <<Withdrawal, Data(TRUE)>>,
                  <<Truncated, Odd("options"), Odd("bad"), Data(FALSE)>>}]
SampleLists == {{}, {"e1"}}

\* ScanWindows: one source, three ports of one host and one port of two hosts.
Probe(target, port) == [source |-> "s", target |-> target, port |-> port]
SampleProbes == {Probe("t1", 1), Probe("t1", 2), Probe("t1", 3), Probe("t2", 1)}

\* AdhocConsole: a switch off, a switch to write, and one back to read that loosens
\* the audit and has a new password; boot with a console that may only read.
SamplePatches == {[enabled |-> FALSE], [enabled |-> TRUE, writeEnabled |-> TRUE],
                  [writeEnabled |-> FALSE, audit |-> "off", dbPassword |-> "p2"]}
SampleRow == [enabled |-> TRUE, writeEnabled |-> FALSE, audit |-> "refused", dbPassword |-> "p1"]

\* ThreatIntel: a download and a file; bodies with nested, overlapping and adjoining
\* ranges, single addresses, a range that touches the unroutable space, and more of them
\* than the set holds.
SampleFeeds == <<"net", "file">>
Between(a, b) == [start |-> a, end |-> b]
SampleContents == "a" :> {Between(2, 5), Between(3, 4), Between(7, 7)}
               @@ "b" :> {Between(6, 6), Between(5, 7)}
               @@ "c" :> {Between(0, 3), Between(1, 1), Between(2, 2), Between(3, 4), Between(8, 8)}

\* Migrations: numbers of one and two digits, a version between two, and two names of
\* one version.
SampleDirectories == {{<<1>>, <<2>>, <<10>>}, {<<1>>, <<1, 5>>, <<2>>}, {<<19>>, <<19, 0>>}}

\* ContactDetectors: names of one parent with two signs or one, an indicator for a name
\* and one that covers two addresses.
Question(long, encoded) == [parent |-> "p", long |-> long, encoded |-> encoded]
SampleQuestions == "q1" :> Question(TRUE, TRUE) @@ "q2" :> Question(FALSE, TRUE)
                @@ "q3" :> Question(TRUE, FALSE) @@ "q4" :> Question(FALSE, TRUE)
SampleIndicator == "q1" :> "name" @@ "r1" :> "net" @@ "r2" :> "net"
Contact(via, source, target, question) ==
    [via |-> via, source |-> source, target |-> target, question |-> question]
SampleContacts == {Contact("query", "h", "r1", "q1"), Contact("query", "h", "x", "q2"),
                   Contact("query", "h", "x", "q3"), Contact("answer", "r1", "h", "q2"),
                   Contact("flow", "r1", "r2", "-")}

\* AlertTrend: an hour, a day and a week, in that order.
SampleWidth == "hour" :> 1 @@ "day" :> 2 @@ "week" :> 4

\* SuppressionPage: a range and an address, a stored rule that had its host bits set, one
\* of a retired kind that no longer parses, and an alert of each kind.
Text(f, a, b) == [family |-> f, address |-> a, bits |-> b]
StoredRule(kind, source, target, port, enabled, expires) ==
    [kind |-> kind, source |-> source, target |-> target, port |-> port,
     reason |-> "why", enabled |-> enabled, expires |-> expires]
SampleTexts == {Text(4, 3, 1), Text(4, 2, 0)}
SampleRules == {<<StoredRule("scan", Text(4, 2, 1), Blank, Blank, TRUE, 1),
                  StoredRule("old", Garbled, Text(6, 1, Bare), 1, FALSE, Blank)>>}
SampleAlerts == <<[kind |-> "scan", source |-> <<4, 3>>, target |-> Blank, port |-> Blank],
                  [kind |-> "arp", source |-> Blank, target |-> <<6, 1>>, port |-> 1]>>

\* PacketPath: every link type, framing and network header, with and without tags,
\* options, padding and a declared length; messages whose pieces reveal or hide a secret.
Frame(link, framing, tags, network, options, transport, tcpOptions, payload, pad, declared) ==
    [link |-> link, framing |-> framing, tags |-> tags, network |-> network,
     options |-> options, transport |-> transport, tcpOptions |-> tcpOptions,
     payload |-> payload, pad |-> pad, declared |-> declared]
SamplePlain == Frame("ETHERNET", "II", 0, "v4", 0, "tcp", 4, 2, 0, TRUE)
SampleShapes ==
    {SamplePlain,
     Frame("ETHERNET", "II", 1, "v4", 4, "udp", 0, 2, 3, TRUE),
     Frame("ETHERNET", "II", 0, "v4", 0, "tcp", 0, 2, 3, FALSE),
     Frame("ETHERNET", "SNAP", 0, "v6", 0, "tcp", 0, 1, 2, TRUE),
     Frame("ETHERNET", "LLC", 0, "other", 0, "other", 0, 2, 0, TRUE),
     Frame("ETHERNET", "II", 5, "v4", 0, "tcp", 0, 1, 0, TRUE),
     Frame("ETHERNET", "II", 2, "arp", 0, "other", 0, 0, 3, TRUE),
     Frame("NULL", "II", 0, "v4", 4, "tcp", 4, 1, 0, TRUE),
     Frame("RAW", "II", 0, "v6", 0, "udp", 0, 1, 0, FALSE),
     Frame("DLT_105", "II", 0, "v4", 0, "tcp", 0, 1, 0, TRUE)}
Message(pieces, source, target) == [pieces |-> pieces, from |-> source, to |-> target]
SampleMessages ==
    {Message(<<"method", "path", "query", "formUser", "querySecret", "blank", "version", "newline",
               "host", "newline", "basicUser", "basicSecret", "newline", "cookieValue">>, 1, 80),
     Message(<<"method", "path", "blank", "version", "newline", "cookieValue", "newline",
               "formUser", "bodySecret">>, 1, 9),
     Message(<<"cookieValue", "newline", "formUser", "bodySecret">>, 1, 80), Message(<<"bodySecret">>, 80, 1),
     Message(<<"ftpUser", "ftpSecret">>, 1, 21), Message(<<"mailSecret">>, 1, 110),
     Message(<<"mailUser", "mailSecret">>, 143, 1),
     Message(<<"smtpUser", "smtpSecret">>, 1, 25), Message(<<"other">>, 23, 1),
     Message(<<"bodySecret">>, 1, 9)}

\* FindingsList: findings of two sensors, one of them named like the page's own choice of
\* every sensor, one of them acknowledged.
Reported(sensor, rank, open) == [sensor |-> sensor, rank |-> rank, open |-> open]
SampleListings == {<<>>, <<Reported("me", 0, TRUE), Reported("all", 1, TRUE), Reported("all", 0, FALSE)>>}

\* DeliveryPage: mail that is off, complete by either method, or incomplete, alone and
\* beside another channel; sending on and off.
SampleSettings ==
    {SettingsOf("incomplete", {"webhook"}, TRUE), SettingsOf("incomplete", {}, TRUE),
     SettingsOf("oauth2", {}, FALSE), SettingsOf("password", {"syslog"}, TRUE),
     SettingsOf("off", {}, TRUE)}

\* Navigation: three sections, one for administrators; a term that matches a page, and a
\* section that is hidden from users.
SampleSectionOf == "dashboard" :> "overview" @@ "alerts" :> "security" @@ "rules" :> "security"
                @@ "delivery" :> "administration"
SampleFound == "ru" :> {"rules", "administration"}

\* FlowRecords: a fixed layout with a vendor's field and padding, a measured one with a field
\* of every way to give its length, uptimes and stamps of either order, and datagrams of
\* version 5 that hold fewer records than they claim; all of them also cut short.
NumberField(slot, length) == Field(Element(slot, "number", 0), length, FALSE)
AddressField(slot, width) == Field(Element(slot, "address", width), width, FALSE)
TimeField(slot, way, length) == Field(Element(slot, way, 0), length, FALSE)
DataSet(format, layout, written, padding, missing) ==
    [format |-> format, fields |-> layout, records |-> written, padding |-> padding,
     missing |-> missing, clock |-> 100, uptime |-> 40, observed |-> 110]
FixedLayout == <<AddressField("source", 4), NumberField("packets", 1),
                 Field(Element("source", "address", 4), 4, TRUE), NumberField("bytes", 8)>>
MeasuredLayout == <<Field(Element("unknown", "skipped", 0), Variable, FALSE), AddressField("sourceMac", 6),
                    NumberField("packets", 7), NumberField("bytes", Variable), TimeField("end", "seconds", 3)>>
MeasuredRecord(length) == <<[i \in 1..length |-> 3], <<1, 1, 1, 1, 1, 2>>, <<0, 0, 0, 0, 0, 1, 2>>, <<2>>, <<2, 0, 1>>>>
UptimeLayout == <<NumberField("startUptime", 3), NumberField("endUptime", 3)>>
StampedLayout == <<TimeField("start", "ntp", 8), TimeField("end", "ntp", 8), NumberField("start", 1)>>
Version5(octets, announced) ==
    [format |-> "v5", octets |-> octets, claimed |-> announced, clock |-> 100, uptime |-> 40, observed |-> 110,
     records |-> <<[packets |-> <<1>>, startUptime |-> 5, endUptime |-> 10],
                   [packets |-> <<2>>, startUptime |-> 41, endUptime |-> 50]>>]
SampleExports ==
    {DataSet("v9", FixedLayout, [i \in 1..2 |-> <<<<i, 0, 0, 1>>, <<i>>, <<3, 3, 3, 3>>, <<0, 0, 0, 0, 0, 1, 2, i>>>>],
             p, m) : p \in {0, 3}, m \in {0, 5}}
    \cup {DataSet("ipfix", MeasuredLayout, <<MeasuredRecord(l), MeasuredRecord(2)>>, p, m) :
              l \in {0, 3, 5}, p \in {0, 1, 6}, m \in {0, 1, 4}}
    \cup {DataSet(f, UptimeLayout, <<<<<<0, 1, 1>>, <<0, 2, 0>>>>, <<<<0, 2, 0>>, <<0, 1, 0>>>>>>, 0, 0) :
              f \in {"v9", "ipfix"}}
    \cup {DataSet("ipfix", StampedLayout, <<<<<<0, 2, 0, 0, 2, 0, 0, 0>>, <<0, 0, n, 0, 1, 0, 0, 0>>, <<2>>>>>>, 0, 0) :
              n \in {0, 3}}
    \cup {Version5(o, c) : o \in {20, 24, 71, 72, 121, 168}, c \in 0..3}

-----------------------------------------------------------------------------
ServicesInit ==
    /\ part \in {"datagrams", "scan", "lan", "console", "accounts",
                 "settings", "intel", "migrations", "session", "form", "contacts",
                 "trend", "desk", "rules", "packets", "list", "trail",
                 "values", "query", "messages", "delivery", "sensors", "navigation", "records"}
    \* one initial state for the parts that are not chosen
    /\ ScanInit /\ AccountsInit /\ IntelInit
    /\ DatagramInit /\ (part # "datagrams" => allowed = {})
    /\ LanInit /\ (part # "lan" => devices = <<>> /\ DOMAIN stored = {})
    /\ ConsoleInit /\ consoleRow = SampleRow /\ (part # "console" => leftBehind = {})
    /\ SettingsInit /\ (part # "settings" => settingKind = "flow")
    /\ MigrationInit
    /\ part # "migrations" => /\ performed = <<>> /\ recorded = {} /\ flyway = {}
                             /\ <<10>> \in files
    \* and one user, of two that are alike, whose token is stored
    /\ SessionInit /\ (part # "session" => token = NoCredential)
    /\ token.user # CHOOSE u \in Users : TRUE
    /\ FormInit /\ (part # "form" => form = "flow" /\ row["plain"] = Empty)
    /\ ContactInit /\ (part # "contacts" => loaded = {})
    /\ TrendInit
    \* one finding that somebody has acknowledged, and one that nobody has
    /\ DeskInit /\ {alertRow[f] : f \in Alerts} = {Open, 0}
    /\ alertRow[CHOOSE f \in Alerts : TRUE] = Open
    /\ RulesInit /\ PacketInit /\ TrailInit
    /\ FindingsInit /\ (part # "list" => listed = <<>> /\ rolled = {})
    /\ (part # "packets" => payloads) /\ (part # "trail" => entries = <<>>)
    /\ ValueInit /\ (part # "values" => field = CHOOSE f \in SettingFields : TRUE)
    /\ QueryInit
    /\ part # "query" => /\ grants = (CHOOSE g \in Grants : TRUE) /\ ~writing
                        /\ cap = CHOOSE n \in RowCaps : TRUE
    /\ IF part = "messages" THEN MessageInit
       ELSE said = NothingSaid /\ work = [of |-> "line", line |-> <<>>]
    /\ CheckInit /\ (part # "delivery" => settings.mail = "oauth2")
    /\ ScopeInit /\ (part # "sensors" => present = {"own"})
    /\ NavigationInit
    /\ part # "navigation" => ~compact /\ ~remembered /\ from = HomePage
    /\ RecordsInit /\ (part # "records" => export = Version5(24, 0))

\* The part that was chosen takes a step.
ServicesNext ==
    /\ UNCHANGED part
    /\ IF part = "datagrams" THEN DatagramNext ELSE UNCHANGED datagramVars
    /\ IF part = "scan" THEN ScanNext ELSE UNCHANGED scanVars
    /\ IF part = "lan" THEN LanNext ELSE UNCHANGED lanVars
    /\ IF part = "console" THEN ConsoleNext ELSE UNCHANGED consoleVars
    /\ IF part = "accounts" THEN AccountsNext ELSE UNCHANGED accountVars
    /\ IF part = "settings" THEN SettingsNext ELSE UNCHANGED settingVars
    /\ IF part = "intel" THEN IntelNext ELSE UNCHANGED intelVars
    /\ IF part = "migrations" THEN MigrationNext ELSE UNCHANGED migrationVars
    /\ IF part = "session" THEN SessionNext ELSE UNCHANGED sessionVars
    /\ IF part = "form" THEN FormNext ELSE UNCHANGED formVars
    /\ IF part = "contacts" THEN ContactNext ELSE UNCHANGED contactVars
    /\ IF part = "trend" THEN TrendNext ELSE UNCHANGED trendVars
    /\ IF part = "desk" THEN DeskNext ELSE UNCHANGED deskVars
    /\ IF part = "rules" THEN RulesNext ELSE UNCHANGED ruleVars
    /\ IF part = "packets" THEN PacketNext ELSE UNCHANGED packetVars
    /\ IF part = "list" THEN FindingsNext ELSE UNCHANGED listVars
    /\ IF part = "trail" THEN TrailNext ELSE UNCHANGED trailVars
    /\ IF part = "values" THEN ValueNext ELSE UNCHANGED valueVars
    /\ IF part = "query" THEN QueryNext ELSE UNCHANGED queryVars
    /\ IF part = "messages" THEN MessageNext ELSE UNCHANGED messageVars
    /\ IF part = "delivery" THEN CheckNext ELSE UNCHANGED checkVars
    /\ IF part = "sensors" THEN ScopeNext ELSE UNCHANGED scopeVars
    /\ IF part = "navigation" THEN NavigationNext ELSE UNCHANGED navVars
    /\ IF part = "records" THEN RecordsNext ELSE UNCHANGED recordVars

servicesVars == <<part, datagramVars, scanVars, lanVars,
                  consoleVars, accountVars, settingVars, intelVars, migrationVars,
                  sessionVars, formVars, contactVars, trendVars, deskVars, ruleVars,
                  packetVars, listVars, trailVars, valueVars, queryVars, messageVars,
                  checkVars, scopeVars, navVars, recordVars>>

ServicesSpec == ServicesInit /\ [][ServicesNext]_servicesVars

\* Every service's variables keep their types.
ServicesTypeOK ==
    /\ part = "datagrams" => DatagramTypeOK
    /\ part = "scan" => ScanTypeOK
    /\ part = "lan" => LanTypeOK
    /\ part = "console" => ConsoleTypeOK
    /\ part = "accounts" => AccountsTypeOK
    /\ part = "settings" => SettingsTypeOK
    /\ part = "intel" => IntelTypeOK
    /\ part = "migrations" => MigrationTypeOK
    /\ part = "session" => SessionTypeOK
    /\ part = "form" => FormTypeOK
    /\ part = "contacts" => ContactTypeOK
    /\ part = "trend" => TrendTypeOK
    /\ part = "desk" => DeskTypeOK
    /\ part = "rules" => RulesTypeOK
    /\ part = "packets" => PacketTypeOK
    /\ part = "list" => FindingsTypeOK
    /\ part = "trail" => TrailTypeOK
    /\ part = "values" => ValueTypeOK
    /\ part = "query" => QueryTypeOK
    /\ part = "messages" => MessageTypeOK
    /\ part \in {"delivery", "sensors"} => CheckTypeOK
    /\ part = "navigation" => NavigationTypeOK
    /\ part = "records" => RecordsTypeOK

\* What arrives from the network is counted and noticed as it is: every datagram is accounted
\* for and decoded as its exporter's templates say, a captured frame yields its fields and the
\* credentials that it shows, a scan is reported once its window holds enough of it, and the
\* picture of the local network is what its packets say: who took an address over, who is
\* new, and who is still there, as far as the un-awaited writes of the devices went through.
TrafficExact ==
    /\ part = "datagrams" => DatagramsExact
    /\ part = "packets" => PathExact
    /\ part = "scan" => ScanFindingsExact
    /\ part = "lan" => LanPictureExact

\* What is read says what was written: a flow has what its record says, a message accounts in
\* every format for all of its findings, and a rule hides what it says.
ReadingsExact ==
    /\ part = "records" => RecordsExact
    /\ part = "messages" => MessagesExact
    /\ part = "rules" => RulesAreTrue

\* What several people do to findings at once is in the audit trail as it took effect, and
\* each sees the effect of their own; the pages of findings and of the audit trail show what
\* the server holds and was asked for; and the navigation shows where one is.
PagesExact ==
    /\ part = "desk" => DeskExact
    /\ part = "list" => ListExact
    /\ part = "trail" => TrailExact
    /\ part = "navigation" => NavigationExact

\* What a page draws after a click: the dashboard's chart counts what its window holds, off
\* by no more than what was written, or rolled up, between the chart's two reads; and a
\* section that is opened or closed is the one that was meant.
ScreensExact ==
    [][/\ part = "trend" => TrendShown
       /\ part = "navigation" => HeadersTrue]_servicesVars

\* A rule is saved as the page showed it.
SavedExact == [][part = "rules" => SavedAsShown]_servicesVars

\* The query console: whoever may write is audited first, no login outlives its pool unless
\* a best-effort revoke or a start failed, and the answers tell what the statements did, but
\* for a COMMIT whose answer was lost or which was chained in the text.
ConsoleExact == ConsoleSafety /\ (part = "query" => QueryExact)

\* Findings reach people: a test of the channels tells what became of it, a save is refused
\* for what is wrong with it and for nothing else, and an open page's list of sensors is recent.
DeliveryExact == part \in {"delivery", "sensors"} => DeliveryProved

\* A setting is in force as whoever set it last wrote it, in the layer that decides, and has
\* the value its field was given.
SettingsExact ==
    /\ [](part = "values" => ValuesExact)
    /\ [][/\ part = "settings" => LayersKept
          /\ part = "values" => LineKept]_servicesVars

\* No administrator's edit of the settings is lost, and none is changed on its way but a
\* field put back, or a secret's clear button pressed, in the two older forms; and once there
\* is an administrator, only a deletion at the command line leaves none.
AdministrationExact ==
    [][/\ part = "form" => EditsKept
       /\ part = "accounts" => AdministratorStays]_servicesVars

\* Whom a packet, a flow or an address is known to, and when it is told: what is in force is
\* what was read of the feeds, up to the ceiling, and a contact is reported once in a pause.
IntelExact ==
    [][/\ part = "intel" => PublishedExactly
       /\ part = "contacts" => ContactReported]_servicesVars

\* Nobody becomes an administrator, and no page shows somebody, without a right to.
AccessExact == (part = "accounts" => OneBootstrapAccount) /\ (part = "session" => SessionExact)
==============================================================================
