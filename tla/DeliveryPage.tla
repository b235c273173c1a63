----------------------------- MODULE DeliveryPage -----------------------------
(***************************************************************************)
(* Proving that findings are delivered: the delivery page's status and its *)
(* test send (pages/DeliveryPage.tsx, routes/notify.routes.ts), the mail   *)
(* channel and what it says of a refusal (notify/email.ts), while other    *)
(* administrators save other settings.                                     *)
(*                                                                         *)
(* And, in behaviours of its own, whether mails name their sensor          *)
(* (notify/sensor-scope.ts): an answer that a timer keeps recent, read     *)
(* without waiting for the database.                                       *)
(***************************************************************************)
EXTENDS Naturals, FiniteSets

CONSTANTS SavedSettings,                \* the settings administrators save
          MaxDeliverySaves, MaxTests,   \* bounds: saves, tests pressed
          ScopeTTL, ScopeRefresh,       \* SENSOR_SCOPE_TTL_MS and SENSOR_SCOPE_REFRESH_MS
          TimerLate, MaxScopeTime,      \* bounds: how late a timer fires, how long is watched
          MaxArrivals                   \* bound: how often sensors appear and are retired

ScopeAssumption == ScopeRefresh \in Nat \ {0} /\ ScopeTTL = 2 * ScopeRefresh /\ TimerLate \in Nat
ASSUME ScopeAssumption

VARIABLES settings,   \* the delivery settings in force
          instance,   \* what the notifier in use was built from, if there is one
          closing,    \* what the notifiers were built from that are flushed and then closed
          test,       \* the test send: its stage, what it is sent with, and its answer
          shown,      \* the status the page shows
          polling,    \* the status that is on its way to the page
          notice,     \* the page's message about the last test
          spent       \* how often each bounded event happened

checkVars == <<settings, instance, closing, test, shown, polling, notice, spent>>

SettingsOf(mail, others, on) == [mail |-> mail, others |-> others, enabled |-> on]
Mails == {"off", "password", "oauth2", "incomplete"}
Others == {"webhook", "syslog"}
SavedAssumption == SavedSettings \subseteq [mail : Mails, others : SUBSET Others, enabled : BOOLEAN]
ASSUME SavedAssumption
Nowhere == SettingsOf("off", {}, FALSE)
NoStage == "none"

\* isEmailPointedSomewhere, missingEmailOauthSettings
IsPointedSomewhere(s) == s.mail # "off"
IsIncomplete(s) == s.mail = "incomplete"
\* isEmailConfigured
IsMailConfigured(s) == IsPointedSomewhere(s) /\ ~IsIncomplete(s)
\* emailBlockedReason
Blocked(s) == IsPointedSomewhere(s) /\ IsIncomplete(s)

\* buildChannels, configuredChannels
ChannelsOf(s) == s.others \cup (IF IsMailConfigured(s) THEN {"email"} ELSE {})

-----------------------------------------------------------------------------
(* A mail that is refused. *)

\* Who can refuse one, and the error nodemailer makes of it.
Refusers(method) == {"nobody", "network", "server"} \cup (IF method = "oauth2" THEN {"provider"} ELSE {})
ErrorsOf(refuser) ==
    CASE refuser = "provider" -> {[code |-> "EOAUTH2", response |-> 0], [code |-> "EAUTH", response |-> 0]}
      [] refuser = "server" -> {[code |-> "EAUTH", response |-> 535], [code |-> "other", response |-> 534]}
      [] OTHER -> {[code |-> "other", response |-> 0], [code |-> "other", response |-> 550]}

\* A mutant: an answer of the server is not asked for.
MutantNeverReached(error) == error.code \in {"EOAUTH2", "EAUTH"}
NeverReached(error) == error.code = "EOAUTH2" \/ (error.code = "EAUTH" /\ error.response = 0)
\* describe: whom the answer blames
Describe(error, method) ==
    LET rejected == error.code = "EAUTH" \/ error.response \in {534, 535}
    IN IF method = "oauth2" /\ NeverReached(error) THEN "provider"
       ELSE IF rejected THEN (IF method = "oauth2" THEN "mailbox" ELSE "credentials")
       ELSE "the error itself"

\* What there is to say of a mail, with what really refused it.
MailSays(method) ==
    UNION {IF by = "nobody" THEN {[ok |-> TRUE, blames |-> NoStage, by |-> by]}
           ELSE {[ok |-> FALSE, blames |-> Describe(e, method), by |-> by] : e \in ErrorsOf(by)}
           : by \in Refusers(method)}
OtherSays == {[ok |-> TRUE, blames |-> NoStage, by |-> "nobody"],
              [ok |-> FALSE, blames |-> "the error itself", by |-> "network"]}

-----------------------------------------------------------------------------
(* The notifier and its replacement (notify/notifier.ts; Notifier has it in detail). *)

Spend(event, bound) == spent[event] < bound /\ spent' = [spent EXCEPT ![event] = @ + 1]

\* notifier(): whoever asks while a save is under way gets one built from what is in force.
InUse == IF instance = {} THEN settings ELSE CHOOSE s \in instance : TRUE
AskNotifier == instance' = {InUse}
\* reloadNotifier before its flush
LetGo == instance' = {}

\* PUT /settings: what is saved is in force, and the notifier before it is let go.
DeliverySaved(s) ==
    /\ s # settings /\ Spend("save", MaxDeliverySaves)
    /\ settings' = s
    /\ closing' = closing \cup instance /\ LetGo
    /\ UNCHANGED <<test, shown, polling, notice>>
\* reloadNotifier after its flush
Reloaded(s) ==
    /\ s \in closing /\ closing' = closing \ {s} /\ AskNotifier
    /\ UNCHANGED <<settings, test, shown, polling, notice, spent>>

-----------------------------------------------------------------------------
(* The status. *)

\* GET /status
StatusNow == [channels |-> ChannelsOf(InUse), enabled |-> settings.enabled, blocked |-> Blocked(settings),
              mail |-> IsMailConfigured(settings)]
NoStatus == [channels |-> {}, enabled |-> FALSE, blocked |-> FALSE, mail |-> FALSE]

StatusAsked ==
    /\ polling = {} /\ AskNotifier /\ polling' = {StatusNow}
    /\ UNCHANGED <<settings, closing, test, shown, notice, spent>>
StatusArrives ==
    /\ polling # {} /\ polling' = {} /\ shown' = polling
    /\ UNCHANGED <<settings, instance, closing, test, notice, spent>>
StatusFails ==
    /\ polling # {} /\ polling' = {}
    /\ UNCHANGED <<settings, instance, closing, test, shown, notice, spent>>

Offers(channels) == \E s \in shown : s.channels = channels
\* What the page says of the channels.
Warning ==
    CASE Offers({}) -> "nothing configured"
      [] \E s \in shown : s.channels # {} /\ ~s.enabled -> "switched off"
      [] OTHER -> NoStage

-----------------------------------------------------------------------------
(* The test send. *)

NoTest == [stage |-> NoStage, sentWith |-> Nowhere, says |-> {}, skipped |-> FALSE]

\* Send test is offered while a channel is shown and no test is under way.
PressTest ==
    /\ test.stage = NoStage /\ shown # {} /\ ~Offers({})
    /\ Spend("test", MaxTests)
    /\ test' = [NoTest EXCEPT !.stage = "asked"]
    /\ UNCHANGED <<settings, instance, closing, shown, polling, notice>>

\* skippedEmailResult
SkippedMail(s) == Blocked(s)

\* POST /test: without a channel it says why.
TestServed ==
    /\ test.stage = "asked" /\ AskNotifier
    /\ test' = IF ChannelsOf(InUse) = {}
               THEN [test EXCEPT !.sentWith = settings,
                                 !.stage = IF Blocked(settings) THEN "mailbox incomplete" ELSE "no channel"]
               ELSE [test EXCEPT !.stage = "sending", !.sentWith = InUse, !.skipped = SkippedMail(settings)]
    /\ UNCHANGED <<settings, closing, shown, polling, notice, spent>>

\* sendTest: every channel is tried, whatever becomes of the others.
SaysOf(c, s) == IF c = "email" THEN MailSays(s.mail) ELSE OtherSays
Skipped == [channel |-> "email", ok |-> FALSE, blames |-> "incomplete", by |-> "nobody"]
TestSettles ==
    /\ test.stage = "sending"
    /\ \E says \in [ChannelsOf(test.sentWith) -> MailSays("oauth2") \cup MailSays("password")] :
        LET results == {[channel |-> c, ok |-> says[c].ok, blames |-> says[c].blames, by |-> says[c].by]
                        : c \in DOMAIN says} \cup (IF test.skipped THEN {Skipped} ELSE {})
        IN /\ \A c \in DOMAIN says : says[c] \in SaysOf(c, test.sentWith)
           /\ test' = [test EXCEPT !.says = results,
                                   !.stage = IF \E r \in results : r.ok THEN "delivered" ELSE "502"]
    /\ UNCHANGED <<settings, instance, closing, shown, polling, notice, spent>>

NoNotice == [about |-> NoTest, severity |-> NoStage, tells |-> {}]
\* The page's message; a partial delivery is an error, and the status is asked again after
\* an answer that something was delivered.
TestArrives ==
    /\ test.stage \in {"delivered", "502", "mailbox incomplete", "no channel"}
    /\ LET failed == {r \in test.says : ~r.ok}
           all == test.stage = "delivered" /\ failed = {}
       IN notice' = [about |-> test, severity |-> IF all THEN "success" ELSE "error",
                     tells |-> IF test.stage = "delivered" THEN failed ELSE {}]
    /\ IF test.stage = "delivered" THEN AskNotifier /\ polling' = {StatusNow}
       ELSE UNCHANGED <<instance, polling>>
    /\ test' = NoTest
    /\ UNCHANGED <<settings, closing, shown, spent>>
TestLost ==
    /\ test.stage # NoStage /\ test' = NoTest
    /\ notice' = [NoNotice EXCEPT !.severity = "error"]
    /\ UNCHANGED <<settings, instance, closing, shown, polling, spent>>
DismissNotice ==
    /\ notice.severity # NoStage /\ notice' = NoNotice
    /\ UNCHANGED <<settings, instance, closing, test, shown, polling, spent>>

CheckInit ==
    /\ settings \in SavedSettings /\ instance = {settings}
    /\ closing = {} /\ test = NoTest /\ shown = {} /\ polling = {}
    /\ notice = NoNotice
    /\ spent = [event \in {"save", "test"} |-> 0]

CheckNext ==
    \/ \E s \in SavedSettings : DeliverySaved(s) \/ Reloaded(s)
    \/ StatusAsked \/ StatusArrives \/ StatusFails
    \/ PressTest \/ TestServed \/ TestSettles \/ TestArrives \/ TestLost \/ DismissNotice

CheckSpec == CheckInit /\ [][CheckNext]_checkVars

-----------------------------------------------------------------------------
(* Whether mails name their sensor. *)

VARIABLES present,    \* the sensors that have written to the database
          scopeClock, due,  \* the time, and when the timer fires next, if it is set
          several,    \* the answer that is read while a mail is written
          checkedAt,  \* when it is taken to be from
          look,       \* the query that is out, what it has read, and whether the sensors changed since
          lookEnded, lookFailed,  \* how the last one ended
          outdated,   \* the sensors changed since the last one that succeeded was asked
          arrivals

scopeVars == <<present, scopeClock, due, several, checkedAt, look, outdated, lookEnded, lookFailed, arrivals>>
Never == 0
NoLook == [out |-> FALSE, read |-> {}, changed |-> FALSE]
Sensors == {"own", "branch"}

\* The first look is at boot, and the timer is set when it is over.
ScopeInit ==
    /\ present \in SUBSET Sensors /\ scopeClock = ScopeTTL + 1 /\ due = Never /\ several = FALSE
    /\ checkedAt = scopeClock /\ look = [NoLook EXCEPT !.out = TRUE]
    /\ outdated = TRUE /\ lookEnded = scopeClock /\ lookFailed = TRUE /\ arrivals = 0

\* A sensor writes its first finding, or is retired with all it wrote.
SensorsChange ==
    /\ arrivals < MaxArrivals /\ arrivals' = arrivals + 1
    /\ \E s \in Sensors : present' = IF s \in present THEN present \ {s} ELSE present \cup {s}
    /\ outdated' = TRUE /\ look' = [look EXCEPT !.changed = look.out]
    /\ UNCHANGED <<scopeClock, due, several, checkedAt, lookEnded, lookFailed>>

ScopeTimePasses ==
    /\ scopeClock < MaxScopeTime /\ (due # Never => scopeClock < due + TimerLate)
    /\ scopeClock' = scopeClock + 1
    /\ UNCHANGED <<present, due, several, checkedAt, look, outdated, lookEnded, lookFailed, arrivals>>

\* refreshSensorScope: an answer that is recent enough is left; a query that is out is shared.
RefreshScope ==
    /\ due # Never /\ scopeClock >= due /\ due' = scopeClock + ScopeRefresh
    /\ IF scopeClock - checkedAt < ScopeTTL
       THEN UNCHANGED <<checkedAt, look>>
       ELSE /\ checkedAt' = scopeClock
            /\ look' = IF look.out THEN look ELSE [NoLook EXCEPT !.out = TRUE]
    /\ UNCHANGED <<present, scopeClock, several, outdated, lookEnded, lookFailed, arrivals>>

\* query: the sensors of the three tables, and the process's own.
QueryReads ==
    /\ look.out /\ look.read = {} /\ look' = [look EXCEPT !.read = present \cup {"own"}]
    /\ UNCHANGED <<present, scopeClock, due, several, checkedAt, outdated, lookEnded, lookFailed, arrivals>>
LookEnds(failed) ==
    /\ look.out /\ look' = NoLook /\ lookEnded' = scopeClock /\ lookFailed' = failed
    /\ due' = IF due = Never THEN scopeClock + ScopeRefresh ELSE due
    /\ UNCHANGED <<present, scopeClock, arrivals>>
QueryReturns ==
    /\ look.read # {} /\ several' = (Cardinality(look.read) > 1) /\ outdated' = look.changed
    /\ LookEnds(FALSE) /\ UNCHANGED checkedAt
AfterFailure == Never
QueryFails ==
    /\ LookEnds(TRUE) /\ checkedAt' = AfterFailure /\ UNCHANGED <<several, outdated>>

ScopeNext ==
    \/ SensorsChange \/ ScopeTimePasses \/ RefreshScope
    \/ QueryReads \/ QueryReturns \/ QueryFails

ScopeSpec == ScopeInit /\ [][ScopeNext]_scopeVars

-----------------------------------------------------------------------------
(* Properties *)

\* The variables keep their types.
CheckTypeOK ==
    /\ settings \in SavedSettings /\ instance \subseteq SavedSettings /\ Cardinality(instance) <= 1
    /\ closing \subseteq SavedSettings /\ Cardinality(shown) <= 1 /\ Cardinality(polling) <= 1
    /\ test.stage \in {NoStage, "asked", "sending", "delivered", "502", "mailbox incomplete", "no channel"}
    /\ notice.severity \in {NoStage, "success", "error"} /\ test.skipped \in BOOLEAN
    /\ spent \in [{"save", "test"} -> Nat]
    /\ present \subseteq Sensors /\ several \in BOOLEAN /\ look.out \in BOOLEAN
    /\ scopeClock \in Nat /\ due \in Nat /\ checkedAt \in Nat /\ arrivals \in 0..MaxArrivals

Destinations(s) == s.others \cup (IF IsPointedSomewhere(s) THEN {"email"} ELSE {})

\* A test that ended has one result for every destination of the settings it was sent with,
\* and the result blames the party that refused: the identity provider only if no token was
\* issued, a credential only if the server saw it; and the page reports a success only of a
\* test that reached every destination.
TestAccounts ==
    /\ \A t \in {test, notice.about} : t.stage \in {"delivered", "502"} =>
        /\ \A d \in Destinations(t.sentWith) : Cardinality({r \in t.says : r.channel = d}) = 1
        /\ \A r \in t.says : /\ r.channel \in Destinations(t.sentWith)
                            /\ (r.blames = "provider" <=> r.by = "provider")
                            /\ (r.blames \in {"mailbox", "credentials"} <=> r.by = "server")
    /\ notice.severity = "success" =>
        \A d \in Destinations(notice.about.sentWith) : \E r \in notice.about.says : r.channel = d /\ r.ok

\* No test says that nothing is configured while the settings it was served under name a
\* destination that could be sent to, nor blames the mailbox that is complete.
RefusalsExact ==
    /\ test.stage = "no channel" => Destinations(test.sentWith) = {}
    /\ test.stage = "mailbox incomplete" => test.sentWith.mail = "incomplete" /\ test.sentWith.others = {}

\* However late its timer and however long its queries: the answer mails are written with
\* is looked up again a TTL and an interval after the last look, one interval after one that
\* failed; and it is right unless sensors came or went since the last good look was asked.
ScopeIsRecent ==
    /\ ~outdated => several = (Cardinality(present \cup {"own"}) > 1)
    /\ due # Never /\ ~look.out =>
        scopeClock <= lookEnded + ScopeRefresh + TimerLate + (IF lookFailed THEN 0 ELSE ScopeTTL)

DeliveryProved == TestAccounts /\ RefusalsExact /\ ScopeIsRecent

-----------------------------------------------------------------------------
(* The invariants that the proofs rest on. *)

Results == [channel : Others \cup {"email"}, ok : BOOLEAN,
            blames : {NoStage, "provider", "mailbox", "credentials", "the error itself", "incomplete"},
            by : {"nobody", "network", "server", "provider"}]
Tests == [stage : {NoStage, "asked", "sending", "delivered", "502", "mailbox incomplete", "no channel"},
          sentWith : SavedSettings \cup {Nowhere}, says : SUBSET Results, skipped : BOOLEAN]

\* A test that ended has one result for every destination, and each blames who refused.
Accounted(t) ==
    /\ \A d \in Destinations(t.sentWith) : \E r \in t.says : r.channel = d
    /\ \A q \in t.says, r \in t.says : q.channel = r.channel => q = r
    /\ \A r \in t.says :
        /\ r.channel \in Destinations(t.sentWith)
        /\ r.blames = "provider" <=> r.by = "provider"
        /\ r.blames \in {"mailbox", "credentials"} <=> r.by = "server"
TestOK(t) ==
    /\ t \in Tests
    /\ t.stage \in {"asked", NoStage} => t.says = {}
    /\ t.stage = "sending" => /\ t.sentWith \in SavedSettings /\ t.says = {}
                              /\ t.skipped <=> Blocked(t.sentWith)
    /\ t.stage \in {"delivered", "502"} => Accounted(t)

CheckInv ==
    /\ settings \in SavedSettings /\ instance \subseteq {settings}
    /\ TestOK(test) /\ RefusalsExact
    /\ notice \in [about : Tests, severity : {NoStage, "success", "error"}, tells : SUBSET Results]
    /\ TestOK(notice.about)
    /\ notice.severity = "success" =>
        notice.about.stage = "delivered" /\ \A r \in notice.about.says : r.ok

AnswerOK == ~outdated => several = (Cardinality(present \cup {"own"}) > 1)
ScopeInv ==
    /\ AnswerOK
    /\ look \in [out : BOOLEAN, read : SUBSET (Sensors \cup {"own"}), changed : BOOLEAN]
    /\ present \subseteq Sensors /\ outdated \in BOOLEAN /\ lookFailed \in BOOLEAN
    /\ scopeClock \in Nat /\ due \in Nat /\ checkedAt \in Nat /\ lookEnded \in Nat
    /\ scopeClock > ScopeTTL /\ checkedAt <= scopeClock /\ lookEnded <= scopeClock
    /\ due <= scopeClock + ScopeRefresh /\ (due # Never => scopeClock <= due + TimerLate)
    /\ look.read # {} => look.out /\ (look.changed \/ look.read = present \cup {"own"})
    /\ ~look.out => /\ IF lookFailed THEN checkedAt = Never ELSE checkedAt <= lookEnded
                    /\ due <= lookEnded + ScopeRefresh + (IF lookFailed THEN 0 ELSE ScopeTTL)
==============================================================================
