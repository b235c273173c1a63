---------------------------- MODULE SettingValues ----------------------------
(***************************************************************************)
(* What one setting accepts, through each of its three doors: a line of    *)
(* the environment, which is text; the body of a PUT, which is JSON; the   *)
(* column of the settings row, with its CHECK.  The three settings modules *)
(* (notify/settings.ts, services/flow-settings.ts,                         *)
(* services/adhoc-settings.ts) each parse for themselves, and the schemas  *)
(* (routes/validation.ts) and the migrations repeat their bounds.          *)
(*                                                                         *)
(* SettingsLayers has the races of boots and saves; here one step boots or *)
(* answers, and the values are what differs.  A raw value is a form and,   *)
(* for a numeral, its number.  "word" is text no parser knows, "Option" a  *)
(* member of the set in capitals, "digits" a number with letters after it, *)
(* "padded" a word between blanks, "list" addresses with a blank between.  *)
(***************************************************************************)
EXTENDS Integers

Raw(form) == [form |-> form, number |-> 0]
Numeral(k) == [form |-> "number", number |-> k]
NoValue == Raw("nothing")           \* undefined, null, NULL
BlankText == Raw("blank")
NoOne == Raw("emptyList")

\* The integers: what the PUT accepts, what the column holds, what a line may say.
AnyValue == 2147483647
IntegerFields ==
    [digestSeconds  |-> [accepts |-> <<0, 3600>>,     holds |-> <<0, AnyValue>>,        says |-> <<-AnyValue, AnyValue>>],
     maxPerHour     |-> [accepts |-> <<1, 1000>>,     holds |-> <<1, AnyValue>>,        says |-> <<-AnyValue, AnyValue>>],
     syslogPort     |-> [accepts |-> <<1, 65535>>,    holds |-> <<1, 65535>>,      says |-> <<-AnyValue, AnyValue>>],
     syslogFacility |-> [accepts |-> <<0, 23>>,       holds |-> <<0, 23>>,         says |-> <<-AnyValue, AnyValue>>],
     port           |-> [accepts |-> <<1024, 65535>>, holds |-> <<1024, 65535>>,   says |-> <<1024, 65535>>],
     timeoutMs      |-> [accepts |-> <<100, 600000>>, holds |-> <<100, 600000>>,   says |-> <<100, 600000>>],
     maxRows        |-> [accepts |-> <<1, 100000>>,   holds |-> <<1, 100000>>,     says |-> <<1, 100000>>]]
WithinBounds(k, bounds) == bounds[1] <= k /\ k <= bounds[2]

FlowFields == {"flowEnabled", "port", "bindAddress", "exporters"}
ConsoleFields == {"writeEnabled", "timeoutMs", "maxRows", "audit", "dbPassword"}
SettingFields ==
    DOMAIN IntegerFields \cup FlowFields \cup ConsoleFields \cup
    {"enabled", "minSeverity", "dashboardUrl", "webhookUrl", "emailFrom", "emailTo",
     "emailPassword", "emailOauthTokenUrl"}

Flags == {"enabled", "flowEnabled", "writeEnabled"}
ChoiceFields == {"minSeverity", "audit"}
SecretFields == {"webhookUrl", "emailPassword", "dbPassword"}
IsDelivery(f) == f \notin FlowFields \cup ConsoleFields

TextForms == {"blank", "on", "off", "option", "Option", "word", "padded", "long", "http", "https",
              "address", "list", "fraction", "digits"}
JsonForms == {"nothing", "true", "false", "emptyList"}
ParsedForms == {"listed", "default"}
NumeralsOf(f) ==
    IF f \notin DOMAIN IntegerFields THEN {Numeral(0), Numeral(1)}
    ELSE LET bounds == IntegerFields[f].accepts
         IN  {Numeral(k) : k \in {0, 1, bounds[1] - 1, bounds[1], bounds[2], bounds[2] + 1}}

LinesFor(f) == {NoValue} \cup {Raw(t) : t \in TextForms} \cup NumeralsOf(f)
BodiesFor(f) == LinesFor(f) \cup {Raw(t) : t \in JsonForms}

VARIABLES field, line, cell,
          up,                  \* the process got past its configuration
          sentBody, reply      \* the last PUT: what it was cleaned to if saved, and the answer

valueVars == <<field, line, cell, up, sentBody, reply>>

-----------------------------------------------------------------------------
(* Reading. *)

SaysOn(raw) == raw.form \in {"on", "true"} \/ raw = Numeral(1)
SaysOff(raw) == raw.form \in {"off", "false"} \/ raw = Numeral(0)
Flag(on) == IF on THEN Raw("true") ELSE Raw("false")
Trimmed(raw) == IF raw = Raw("padded") THEN Raw("word") ELSE raw

ListOf(raw) ==
    IF raw \in {BlankText, NoOne} THEN NoOne
    ELSE IF raw.form \in {"list", "address"} THEN Raw("listed") ELSE Trimmed(raw)

\* parseFieldValue, parseFlowField; NoValue where the layer has no opinion.
Parse(f, raw) ==
    IF raw = NoValue \/ (raw = BlankText /\ ~IsDelivery(f)) THEN NoValue
    ELSE CASE f \in Flags ->
                 IF IsDelivery(f) \/ SaysOn(raw) \/ SaysOff(raw) THEN Flag(SaysOn(raw)) ELSE NoValue
           [] f \in DOMAIN IntegerFields ->
                 IF raw.form = "number" /\ WithinBounds(raw.number, IntegerFields[f].says) THEN raw ELSE NoValue
           [] f \in ChoiceFields -> IF raw.form \in {"option", "Option"} THEN Raw("option") ELSE NoValue
           [] f = "emailTo" -> ListOf(raw)
           [] f = "emailOauthTokenUrl" -> IF raw.form \in {"blank", "https"} THEN raw ELSE NoValue
           [] f = "dbPassword" -> raw
           [] OTHER -> Trimmed(raw)

IsSetLine(l) == l \notin {NoValue, BlankText}
FromLine(f, l) == IF IsSetLine(l) THEN Parse(f, l) ELSE NoValue
FromRow(f, c) == IF f = "exporters" /\ c # NoValue THEN Trimmed(c) ELSE Parse(f, c)

\* resolveDeliverySettings, resolveFlowSettings, resolveAdhocSettings
Decided(f, l, c) ==
    IF FromLine(f, l) # NoValue THEN [value |-> FromLine(f, l), source |-> "environment"]
    ELSE IF FromRow(f, c) # NoValue THEN [value |-> FromRow(f, c), source |-> "database"]
    ELSE [value |-> Raw("default"), source |-> "default"]

IsPinned(f, l) == Decided(f, l, NoValue).source = "environment"

\* invalidEnvironmentVariables, which warns of a line that decides nothing.
IsInvalidLine(f, l) == IsSetLine(l) /\ Parse(f, l) = NoValue

\* redactForApi: of a secret, only that there is one.
ShownOf(f, decided) ==
    IF f \in SecretFields
    THEN [source |-> decided.source, configured |-> decided.value \notin {BlankText, Raw("default")}]
    ELSE decided

\* auditableAdhocPatch; the delivery settings' entry has the names of the fields only.
AuditedOf(f, value) ==
    CASE IsDelivery(f) -> Raw("changed")
      [] f = "dbPassword" -> IF value \in {NoValue, BlankText} THEN Raw("cleared") ELSE Raw("set")
      [] OTHER -> value

-----------------------------------------------------------------------------
(* Writing. *)

\* z.coerce.number() takes an empty string, false and [] for 0, and true for 1.
Coerced(raw) ==
    CASE raw.form \in {"blank", "false", "emptyList"} -> Numeral(0)
      [] raw.form = "true" -> Numeral(1)
      [] OTHER -> raw

IsText(raw) == raw.form \notin JsonForms

\* Not checked as an address, but for being there.
IsAddress(body) == IsText(body) /\ body.form \notin {"blank", "long"}

\* The patch schemas: the value to be stored, or Refused.
Refused == Raw("refused")
Cleaned(f, body) ==
    LET kept(holds, value) == IF holds THEN value ELSE Refused
    IN  IF body = NoValue THEN NoValue
        ELSE CASE f \in Flags -> kept(body.form \in {"true", "false"}, body)
               [] f \in DOMAIN IntegerFields ->
                     kept(Coerced(body).form = "number"
                             /\ WithinBounds(Coerced(body).number, IntegerFields[f].accepts), Coerced(body))
               [] f \in ChoiceFields -> kept(body.form = "option", body)
               [] f = "webhookUrl" -> kept(body.form \in {"http", "https"}, body)
               [] f = "emailOauthTokenUrl" -> kept(body.form = "https", body)
               [] f = "emailFrom" -> kept(body.form = "address", body)
               [] f = "emailTo" -> kept(body.form \in {"blank", "emptyList", "list", "address"}, ListOf(body))
               [] f = "bindAddress" -> kept(IsAddress(body), Trimmed(body))
               [] f = "dbPassword" -> kept(IsText(body) /\ body.form # "long", body)
               [] OTHER -> kept(IsText(body) /\ body.form # "long", Trimmed(body))

\* The type and the CHECK of the column.
Holds(f, value) ==
    \/ value = NoValue
    \/ IF f \in DOMAIN IntegerFields THEN WithinBounds(value.number, IntegerFields[f].holds)
       ELSE f \in {"exporters", "dbPassword", "emailTo"} \/ value.form # "long"

\* An array that is empty and one that is not there are the same to columnUnchanged.
IsUnchanged(f, before, after) ==
    before = after \/ (f = "emailTo" /\ {before, after} \subseteq {NoValue, NoOne})

\* env.ts reads the console's integers too, with parseInt, and throws on a NaN.
BootRefuses(f, l) ==
    /\ f \in {"timeoutMs", "maxRows"} /\ IsSetLine(l)
    /\ l.form \notin {"number", "fraction", "digits"}

\* What the boot copies into an empty column.
SeededFrom(f, l) ==
    IF f # "flowEnabled" /\ Holds(f, FromLine(f, l)) THEN FromLine(f, l) ELSE NoValue

-----------------------------------------------------------------------------
ValueInit ==
    /\ field \in SettingFields /\ line = NoValue /\ cell = NoValue
    /\ up = FALSE /\ sentBody = NoValue /\ reply = "none"

\* A boot with this line in the environment.
BootsReading(l) ==
    /\ line' = l
    /\ up' = ~BootRefuses(field, l)
    /\ cell' = IF up' /\ cell = NoValue THEN SeededFrom(field, l) ELSE cell
    /\ sentBody' = NoValue /\ reply' = "none"
    /\ UNCHANGED field

\* PUT /settings with this one field.
PutsValue(body) ==
    /\ up
    /\ LET value == Cleaned(field, body)
       IN  /\ reply' = CASE value = Refused -> "400"
                         [] value # Refused /\ IsPinned(field, line) -> "409"
                         [] OTHER -> IF Holds(field, value) THEN "saved" ELSE "500"
           /\ cell' = IF reply' = "saved" /\ ~IsUnchanged(field, cell, value) THEN value ELSE cell
           /\ sentBody' = IF reply' = "saved" THEN value ELSE NoValue
    /\ UNCHANGED <<field, line, up>>

ValueNext ==
    \/ \E l \in LinesFor(field) : BootsReading(l)
    \/ \E body \in BodiesFor(field) : PutsValue(body)

ValueSpec == ValueInit /\ [][ValueNext]_valueVars

-----------------------------------------------------------------------------
(* Properties *)

ValueTypeOK ==
    LET RawValues == {Raw(t) : t \in TextForms \cup JsonForms \cup ParsedForms} \cup NumeralsOf(field)
    IN  /\ field \in SettingFields /\ up \in BOOLEAN
        /\ line \in LinesFor(field) /\ cell \in RawValues \cup {Numeral(0), Numeral(1)}
        /\ sentBody \in RawValues \cup {Numeral(0), Numeral(1)} /\ reply \in {"none", "400", "409", "500", "saved"}

Here == Decided(field, line, cell)

\* A value answered 200 is in force as it was cleaned, and said to come from the
\* row; but for an empty list over an empty column, which changes nothing, and a
\* blank password of the console, which the row holds and the reader takes for none.
SavedReadsBack ==
    reply = "saved" /\ sentBody \notin {NoValue, NoOne} /\ ~(field = "dbPassword" /\ sentBody = BlankText) =>
        Here = [value |-> sentBody, source |-> "database"]

\* A setting's three doors agree.  What a schema accepts the table holds, and the
\* reader gives back as saved (or the API would report success and a default in
\* force, what the comment on bindAddress is about); a null leaves nothing of the row;
\* a line is reported as invalid exactly if it does not decide; and neither the
\* API's answer nor the audit trail tells one secret from another.
ValuesExact ==
    /\ reply # "500"
    /\ SavedReadsBack
    /\ reply = "saved" /\ sentBody = NoValue => Here.source = "default" \/ cell = NoOne
    /\ up /\ IsSetLine(line) => (IsInvalidLine(field, line) <=> Here.source # "environment")
    /\ field \in SecretFields => \A other \in LinesFor(field) \ {NoValue, BlankText} :
           LET another == [Here EXCEPT !.value = other]
           IN  /\ Here.value \notin {BlankText, Raw("default")} =>
                      ShownOf(field, Here) = ShownOf(field, another)
               /\ cell \notin {NoValue, BlankText} => AuditedOf(field, cell) = AuditedOf(field, other)

\* A line that decided an empty column's setting, once removed, leaves it as it was,
\* unless the column cannot hold it, or the setting is one no boot may seed.
LineKept ==
    \A l \in LinesFor(field) :
        BootsReading(l) /\ up' /\ cell = NoValue /\ IsPinned(field, l) /\ field # "flowEnabled"
            /\ Holds(field, Parse(field, l)) =>
        Decided(field, NoValue, cell').value = Decided(field, l, cell').value
LineIsKept == [][LineKept]_valueVars

\* What the inductive proof adds, after an answer: what was saved is what the schema made of
\* it, and the row holds it, or has nothing where there was nothing and nothing was sent; and
\* no line decides.
ReplyOK ==
    reply = "saved" =>
        /\ FromLine(field, line) = NoValue
        /\ \E body \in BodiesFor(field) : sentBody = Cleaned(field, body) /\ sentBody # Refused
        /\ cell = sentBody \/ (field = "emailTo" /\ {cell, sentBody} \subseteq {NoValue, NoOne})
ValueInv == field \in SettingFields /\ reply # "500" /\ ReplyOK
==============================================================================
