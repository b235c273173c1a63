------------------------------- MODULE Locales -------------------------------
(***************************************************************************)
(* Words: the language somebody reads in (contexts/LocaleContext.tsx), and *)
(* how a message that is kept as a key with parameters becomes a sentence  *)
(* of that language (i18n/message.ts, i18n/render.ts, which the server and *)
(* the browser share), a finding (i18n/findings.ts) or the description of  *)
(* a failure (middleware/error-handler.ts, api/client.ts).                 *)
(*                                                                         *)
(* A sentence is what can be told apart of it: the key, the language of    *)
(* its pattern, the branch a select took, and the pieces put into it.      *)
(***************************************************************************)
EXTENDS Integers, FiniteSets, Sequences

CONSTANTS Locale,          \* LOCALES, as <<language, region>>
          English,         \* DEFAULT_LOCALE
          RightToLeft,     \* isRtl
          Tags,            \* other language tags that a user, a browser or its storage may hold
          FindingCatalogs, \* FINDING_CATALOGS: a pattern for each key, if a locale has one
          ServerErrors,    \* ERROR_CATALOGS of the server
          BundleErrors,    \* ... and of the browser's bundle, which may be older
          BrowserTags,     \* what navigator.languages may be
          RowsRead,        \* findings: their key, what message_params holds, and the minutes since
          Failures         \* what a request may fail with

LocalesAssumption == /\ English \in Locale /\ RightToLeft \subseteq Locale \ {English}
                     /\ \A l, m \in Locale : l[1] = m[1] => l = m
ASSUME LocalesAssumption

NoTag == <<"none", "">>

VARIABLES pinned, storedTag, keeps,  \* the choice of this page, the browser's, and whether it can store one
          langCode,               \* the language of whoever is signed in
          browserTags,            \* navigator.languages
          locale, errorLocale,    \* in force since the last rendering, and what errors are described in
          held,                   \* the finding or the failure on the page
          screen                  \* what is rendered of it

localeVars == <<pinned, storedTag, keeps, langCode, browserTags, locale, errorLocale, held, screen>>

-----------------------------------------------------------------------------
(* Which language. *)

ResolveLocale(tag) == IF \E l \in Locale : l[1] = tag[1] THEN CHOOSE l \in Locale : l[1] = tag[1] ELSE English

StoredLocale == IF keeps /\ storedTag \in Locale THEN storedTag ELSE NoTag

\* The first of the browser's languages that is one of ours.
BrowserLocale ==
    LET ours == {i \in 1..Len(browserTags) :
                    ResolveLocale(browserTags[i]) # English \/ browserTags[i][1] = English[1]}
    IN IF ours = {} THEN English ELSE ResolveLocale(browserTags[CHOOSE i \in ours : \A j \in ours : i <= j])

CurrentLocale == IF pinned # NoTag THEN pinned
                 ELSE IF langCode # NoTag THEN ResolveLocale(langCode) ELSE BrowserLocale

-----------------------------------------------------------------------------
(* Values as they come out of the database or off the wire: null, a text,  *)
(* a flag, a number, a list, or an object; and what is kept of them.       *)

Null == [tag |-> "null"]
TextValue(t) == [tag |-> "text", text |-> t]
Truth(b) == [tag |-> "boolean", flag |-> b]
NumberValue(n) == [tag |-> "number", number |-> n]
Infinite == [tag |-> "number"]
ListOfValues(items) == [tag |-> "list", items |-> items]
Object(fields) == [tag |-> "object", fields |-> fields]
Ref(key, params) == Object([key |-> TextValue(key), params |-> Object(params)])
Dropped == [tag |-> "dropped"]
NoFields == <<>>

IsRef(value) == /\ value.tag = "object" /\ "key" \in DOMAIN value.fields
                /\ value.fields["key"].tag = "text"

RECURSIVE ParsedValue(_)
\* parseMessageParams, parseRef, parseValue: whatever no sentence can take is left out.
ParsedParams(raw) ==
    IF raw.tag # "object" THEN NoFields
    ELSE LET fit == {n \in DOMAIN raw.fields : ParsedValue(raw.fields[n]) # Dropped}
         IN [n \in fit |-> ParsedValue(raw.fields[n])]
ParsedRef(ref) ==
    IF "params" \in DOMAIN ref.fields
    THEN Object([key |-> ref.fields["key"], params |-> Object(ParsedParams(ref.fields["params"]))])
    ELSE Object([key |-> ref.fields["key"]])
ParsedValue(value) ==
    CASE value.tag \in {"null", "text", "boolean"} -> value
      [] value.tag = "number" -> IF value = Infinite THEN Dropped ELSE value
      [] value.tag = "list" -> IF \A i \in DOMAIN value.items : IsRef(value.items[i])
                               THEN ListOfValues([i \in DOMAIN value.items |-> ParsedRef(value.items[i])])
                               ELSE Dropped
      [] OTHER -> IF IsRef(value) THEN ParsedRef(value) ELSE Dropped

-----------------------------------------------------------------------------
(* Rendering.  A pattern shows some parameters always, and the others by a *)
(* select on one that it compares with "true".                             *)

Untranslated == [form |-> "missing"]
Malformed == [form |-> "malformed"]
NoName == "no parameter"
Pattern(always, chooses, then, otherwise) ==
    [form |-> "sound", always |-> always, chooses |-> chooses, then |-> then, otherwise |-> otherwise]

\* pattern: a key that the translator has not reached is taken from the English catalogue.
WrittenIn(catalog, key, to) == IF catalog[to][key] = Untranslated THEN English ELSE to
PatternOf(catalog, key, to) ==
    IF key \notin DOMAIN catalog[English] THEN Untranslated ELSE catalog[WrittenIn(catalog, key, to)][key]

MutantComparedOnly(p) == {}
\* comparedOnly: what is compared and not shown is not isolated.
ComparedOnly(p) == {p.chooses} \ (p.always \cup p.then \cup p.otherwise)

KeyItself(key) == [shows |-> "key", key |-> key]
Isolates(value, isolate, to) == value.tag = "text" /\ isolate /\ to \in RightToLeft

\* The pattern's select compares the value as it was resolved, isolated or not.
Chosen(p, params, to) ==
    IF p.chooses = NoName THEN "otherwise"
    ELSE LET value == params[p.chooses]
         IN IF \/ value = Truth(TRUE)
               \/ value = TextValue("true") /\ ~Isolates(value, p.chooses \notin ComparedOnly(p), to)
            THEN "then" ELSE "otherwise"
Needs(p, params, to) ==
    p.always \cup (IF p.chooses = NoName \/ p.chooses \notin DOMAIN params THEN {}
                   ELSE IF Chosen(p, params, to) = "then" THEN p.then ELSE p.otherwise)
\* The formatter throws for a parameter that it meets and does not have.
Throws(p, params, to) == ~(({p.chooses} \ {NoName}) \cup Needs(p, params, to) \subseteq DOMAIN params)

RECURSIVE RenderedBy(_, _, _)
ParamsOf(ref) == IF "params" \in DOMAIN ref.fields THEN ref.fields["params"].fields ELSE NoFields
\* resolve
Piece(catalog, value, isolate, to) ==
    CASE value.tag \in {"null", "number", "boolean"} -> [shows |-> "plain", value |-> value]
      [] value.tag = "text" -> [shows |-> "text", text |-> value.text, isolated |-> Isolates(value, isolate, to)]
      [] value.tag = "list" -> [shows |-> "list", joined |-> to,
                                items |-> [i \in DOMAIN value.items |-> RenderedBy(catalog, value.items[i], to)]]
      [] OTHER -> RenderedBy(catalog, value, to)
\* render, resolveAll
RenderedBy(catalog, ref, to) ==
    LET key == ref.fields["key"].text
        params == ParamsOf(ref)
        p == PatternOf(catalog, key, to)
    IN IF p \in {Untranslated, Malformed} THEN KeyItself(key)
       ELSE IF Throws(p, params, to) THEN KeyItself(key)
       ELSE [shows |-> "sentence", key |-> key, language |-> WrittenIn(catalog, key, to),
             branch |-> Chosen(p, params, to),
             pieces |-> [n \in Needs(p, params, to) |->
                            Piece(catalog, params[n], n \notin ComparedOnly(p), to)]]

-----------------------------------------------------------------------------
(* Findings, failures and ages. *)

\* A row written before there were keys has its prose.
Prose(t) == [shows |-> "prose", text |-> t]
\* ... and what a server says is prose to a page that does not know the code.
Told(sentence) == [shows |-> "prose", sentence |-> sentence]
FindingText(row, to) ==
    IF row.key = NoName THEN Prose(row.title)
    ELSE RenderedBy(FindingCatalogs, Object([key |-> TextValue(row.key), params |-> Object(ParsedParams(row.params))]), to)

\* errorHandler, HttpError.of, sendError: what the server answers when a handler throws.
AnswerTo(failure) ==
    CASE failure.kind = "http" ->
            [message |-> Told(RenderedBy(ServerErrors, Ref(failure.code, failure.params), English)),
             code |-> failure.code, params |-> Object(failure.params)]
      [] failure.kind = "plain" -> [message |-> Prose(failure.text), code |-> NoName, params |-> Null]
      [] OTHER -> [message |-> Told(RenderedBy(ServerErrors, Ref("internal", NoFields), English)),
                   code |-> "internal", params |-> Object(NoFields)]

KnowsError(code) == code \in DOMAIN BundleErrors[English] /\ BundleErrors[English][code] # Untranslated
\* describeError
DescribeError(failure) ==
    CASE failure.kind = "unreachable" -> RenderedBy(BundleErrors, Ref("unreachable", NoFields), errorLocale')
      [] failure.kind = "page" -> Prose(failure.text)
      [] OTHER -> LET data == AnswerTo(failure)
                  IN IF KnowsError(data.code)
                     THEN RenderedBy(BundleErrors, Object([key |-> TextValue(data.code),
                                       params |-> Object(ParsedParams(data.params))]), errorLocale')
                     ELSE data.message

\* relativeTime: the time may not be readable, and the browser's clock may have yet to reach it.
Unreadable == <<>>
RelativeTime(minutes) ==
    LET age == minutes[1]
    IN IF minutes = Unreadable THEN [shows |-> "dash"]
    ELSE IF age < 0 THEN [shows |-> "date"]
    ELSE IF age < 60 THEN [shows |-> "minute", ago |-> age]
    ELSE IF age \div 60 < 24 THEN [shows |-> "hour", ago |-> age \div 60]
    ELSE [shows |-> "day", ago |-> (age \div 60) \div 24]

-----------------------------------------------------------------------------
(* The page. *)

NothingHeld == [kind |-> "nothing"]
BlankScreen == [text |-> Prose(""), ago |-> [shows |-> "dash"], dir |-> "ltr"]

\* A step is an event with the rendering it causes: the provider first, then what is below it.
Renders ==
    /\ locale' = CurrentLocale' /\ errorLocale' = locale'
    /\ screen' = [text |-> CASE held'.kind = "nothing" -> Prose("")
                             [] held'.kind = "finding" -> FindingText(held'.row, locale')
                             [] OTHER -> DescribeError(held'),
                  ago |-> IF held'.kind = "finding" THEN RelativeTime(held'.row.age) ELSE RelativeTime(Unreadable),
                  dir |-> IF locale' \in RightToLeft THEN "rtl" ELSE "ltr"]

LocalesInit ==
    /\ keeps \in BOOLEAN /\ storedTag \in {NoTag} \cup Tags \cup Locale /\ browserTags \in BrowserTags
    /\ pinned = StoredLocale /\ langCode = NoTag /\ held = NothingHeld
    /\ locale = CurrentLocale /\ errorLocale = locale
    /\ screen = [BlankScreen EXCEPT !.dir = IF locale \in RightToLeft THEN "rtl" ELSE "ltr"]

\* setLocale, as the toggle calls it: the choice holds here even if it cannot be stored.
SetLocale(next) ==
    /\ pinned' = next /\ storedTag' = (IF keeps THEN next ELSE storedTag)
    /\ UNCHANGED <<keeps, langCode, browserTags, held>> /\ Renders
ChosenInAnotherTab(tag) ==
    /\ keeps /\ storedTag' = tag
    /\ UNCHANGED <<pinned, keeps, langCode, browserTags, held>> /\ Renders
LanguageComes(tag) ==
    /\ langCode' = tag /\ UNCHANGED <<pinned, storedTag, keeps, browserTags, held>> /\ Renders
Reloads ==
    /\ pinned' = StoredLocale /\ langCode' = NoTag /\ held' = NothingHeld
    /\ UNCHANGED <<storedTag, keeps, browserTags>> /\ Renders
ComesUp(what) ==
    /\ held' = what /\ UNCHANGED <<pinned, storedTag, keeps, langCode, browserTags>> /\ Renders

ShownFindings == [kind : {"finding"}, row : RowsRead]
LocalesNext ==
    \/ \E l \in Locale : SetLocale(l)
    \/ \E t \in Tags \cup Locale : ChosenInAnotherTab(t)
    \/ \E t \in {NoTag} \cup Tags \cup Locale : LanguageComes(t)
    \/ Reloads
    \/ \E what \in ShownFindings \cup Failures : ComesUp(what)

-----------------------------------------------------------------------------
(* Properties. *)

LocalesTypeOK ==
    /\ pinned \in {NoTag} \cup Locale /\ storedTag \in {NoTag} \cup Tags \cup Locale /\ keeps \in BOOLEAN
    /\ langCode \in {NoTag} \cup Tags \cup Locale /\ browserTags \in BrowserTags
    /\ {locale, errorLocale} \subseteq Locale /\ held \in {NothingHeld} \cup ShownFindings \cup Failures
    /\ DOMAIN screen = {"text", "ago", "dir"}

RECURSIVE Inside(_)
\* Everything that is shown within something that is shown.
Inside(shown) ==
    {shown} \cup CASE shown.shows = "sentence" -> UNION {Inside(shown.pieces[n]) : n \in DOMAIN shown.pieces}
                   [] shown.shows = "list" -> UNION {Inside(shown.items[i]) : i \in DOMAIN shown.items}
                   [] OTHER -> {}
Of(kind) == {s \in Inside(screen.text) : s.shows = kind}
CatalogOf(what) == IF what.kind = "finding" THEN FindingCatalogs ELSE BundleErrors

\* A choice decides, whoever signs in; and what is on the page, to the innermost sentence, is
\* in the language in force, or in English where that language lacks the sentence.
ReadersLanguage ==
    /\ pinned # NoTag => locale = pinned
    /\ \A s \in Of("list") : s.joined = locale
    /\ \A s \in Of("sentence") :
          s.language = IF CatalogOf(held)[locale][s.key] = Untranslated THEN English ELSE locale

\* The same finding says the same in every language: no select takes another branch where
\* words are isolated, whether or not its translation is complete.
SameBranches ==
    held.kind = "finding" =>
        \A s \in Of("sentence"), e \in Inside(FindingText(held.row, English)) :
            e.shows = "sentence" /\ e.key = s.key => e.branch = s.branch

\* Right to left, an address keeps the order of its parts; left to right, nothing is added to it.
AddressesIsolated == \A s \in Of("text") : s.isolated <=> locale \in RightToLeft

\* A failure is told in words, whichever versions of the server and of the page meet: those of
\* the page if it knows the code, else the server's; and a bare code is shown only where the
\* page's words for it take a parameter that the server does not send.
FailuresExplained ==
    /\ held.kind = "http" => (screen.text.shows = "prose" <=> ~KnowsError(held.code))
    /\ held.kind \notin {"nothing", "finding"} /\ screen.text.shows = "key" =>
          Throws(PatternOf(BundleErrors, held.code, locale), held.params, locale)

\* No finding seems older than it is, or newer by a whole unit of what is said.
AgeIsTrue ==
    held.kind = "finding" /\ screen.ago.shows \in {"minute", "hour", "day"} =>
        LET unit == CASE screen.ago.shows = "minute" -> 1 [] screen.ago.shows = "hour" -> 60 [] OTHER -> 1440
        IN screen.ago.ago * unit <= held.row.age[1] /\ held.row.age[1] < (screen.ago.ago + 1) * unit

WordsExact == ReadersLanguage /\ SameBranches /\ AddressesIsolated /\ FailuresExplained /\ AgeIsTrue
=============================================================================
