---------------------------- MODULE SuppressionPage ----------------------------
(***************************************************************************)
(* What a suppression rule covers, and the page it is written on: the text *)
(* of a range, the compiled set and its matching (net/prefix.ts,           *)
(* services/suppression-rules.ts), the bodies the API accepts, and the     *)
(* list, the switch, the dialog and its preview in a browser.              *)
(*                                                                         *)
(* An address has Bits bits and a family.  A range is text: an address     *)
(* with or without a length, or anything else (Garbled, which stands for   *)
(* every text that is not an address, a zone index and an embedded IPv4    *)
(* tail included).  SuppressionCache has the row's lock, the audit trail   *)
(* and the set in force; here a write is one step of the server.           *)
(***************************************************************************)
EXTENDS Integers, FiniteSets, Sequences, FiniteSetsExt, SequencesExt

CONSTANTS
    Bits,                 \* of an address
    AlertKinds, RetiredKind,   \* ALERT_KINDS, and a kind a stored rule may still name
    Ports,
    Blank,                \* null: a criterion that is not set, an address that is not known
    Texts,                \* ranges that are typed or stored
    AlertsShown,          \* stored findings, the newest first
    SampleLimit,          \* how many of them a preview examines
    SomeRows,             \* tables the page may find
    MaxRuleEdits, MaxRuleCalls     \* bounds: fields typed, requests sent

Families == {4, 6}
Address == 0..(2^Bits - 1)
Bare == -1                \* a text without a slash
Garbled == [family |-> 0, address |-> 0, bits |-> Bare]
SomeText == [family : Families, address : Address, bits : Bare..(Bits + 1)] \cup {Garbled}
Criterion == {"kind", "source", "target", "port"}
Event == [kind : AlertKinds, source : (Families \X Address) \cup {Blank},
          target : (Families \X Address) \cup {Blank}, port : Ports \cup {Blank}]

ASSUME RulesAssumption ==
    /\ Bits \in Nat \ {0} /\ RetiredKind \notin AlertKinds /\ Texts \subseteq SomeText
    /\ AlertsShown \in Seq(Event) /\ SampleLimit \in Nat
    /\ MaxRuleEdits \in Nat /\ MaxRuleCalls \in Nat

-----------------------------------------------------------------------------
(* parsePrefix, prefixContains *)

\* No text, no address, or a length that is not 1 .. the family's width.
MutantParses(text) == text # Garbled /\ (text.bits = Bare \/ text.bits \in 0..Bits)
Parses(text) == text # Garbled /\ (text.bits = Bare \/ text.bits \in 1..Bits)
PrefixLength(text) == IF text.bits = Bare THEN Bits ELSE text.bits
RangeSize(text) == 2^(Bits - PrefixLength(text))
RangeStart(text) == (text.address \div RangeSize(text)) * RangeSize(text)
\* The text the API stores, and shows.
Normal(text) == [text EXCEPT !.address = RangeStart(text), !.bits = PrefixLength(text)]

InRange(text, address) ==
    /\ address # Blank /\ address[1] = text.family
    /\ RangeStart(text) <= address[2] /\ address[2] <= RangeStart(text) + RangeSize(text) - 1

-----------------------------------------------------------------------------
(* SuppressionSet *)

\* The constructor: rules that are off are left out, and rules that can match nothing
\* are left out and reported.
Unusable(rule) ==
    /\ rule.enabled
    /\ \/ rule.kind \notin AlertKinds \cup {Blank}
       \/ \E side \in {"source", "target"} : rule[side] # Blank /\ ~Parses(rule[side])
Compiles(rule) == rule.enabled /\ ~Unusable(rule)

Lapsed(rule, now) == rule.expires # Blank /\ rule.expires <= now
Fits(rule, event) ==
    /\ rule.kind \in {Blank, event.kind}
    /\ \A side \in {"source", "target"} : rule[side] = Blank \/ InRange(rule[side], event[side])
    /\ rule.port \in {Blank, event.port}

\* match(): the first rule of the table, which is in the order of ids; 0 for no rule.
MatchedBy(rules, event, now) ==
    LET hits == {id \in DOMAIN rules : Compiles(rules[id]) /\ ~Lapsed(rules[id], now) /\ Fits(rules[id], event)} IN
    IF hits = {} THEN 0 ELSE Min(hits)

HasCriterion(rule) == \E c \in Criterion : rule[c] # Blank

\* suppressionCreateSchema, suppressionUpdateSchema, suppressionPreviewSchema
CriteriaAccepted(body) ==
    /\ body.kind \in AlertKinds \cup {Blank} /\ body.port \in Ports \cup {Blank}
    /\ \A side \in {"source", "target"} : body[side] # Blank => Parses(body[side])
BodyAccepted(body) == CriteriaAccepted(body) /\ body.reason # ""
AsStored(body) ==
    [c \in DOMAIN body |-> IF c \in {"source", "target"} /\ body[c] # Blank THEN Normal(body[c]) ELSE body[c]]

-----------------------------------------------------------------------------
VARIABLES
    ruleTable,    \* alert_suppressions: a row per id
    ruleClock,
    listing,      \* the page's copy of the rows, the ids the server calls invalid, and
                  \* the instant it was rendered at
    dialog,       \* the form: the rule it edits (0 for a new one, NoRule when closed),
                  \* its draft, the requests it waits for and the preview it shows
    ruleEdits, ruleCalls     \* bounds

ruleVars == <<ruleTable, ruleClock, listing, dialog, ruleEdits, ruleCalls>>

NoRule == -1
EmptyDraft == [kind |-> Blank, source |-> Blank, target |-> Blank, port |-> Blank,
               reason |-> "", enabled |-> TRUE, expires |-> Blank]
NoPreview == [of |-> EmptyDraft, matched |-> {}]
NoDialog == [rule |-> NoRule, draft |-> EmptyDraft, checking |-> {}, saving |-> {}, preview |-> NoPreview]
InvalidIds(rules) == {id \in DOMAIN rules : Unusable(rules[id])}
ListingOf(rules) == [rows |-> rules, invalid |-> InvalidIds(rules), at |-> ruleClock]

RulesInit ==
    /\ ruleTable \in SomeRows /\ ruleClock = 0 /\ listing = ListingOf(ruleTable) /\ dialog = NoDialog
    /\ ruleEdits = 0 /\ ruleCalls = 0

-----------------------------------------------------------------------------
(* The dialog *)

IsOpen == dialog.rule # NoRule
OpensWith(id, draft) ==
    /\ ~IsOpen /\ dialog' = [NoDialog EXCEPT !.rule = id, !.draft = draft]
    /\ UNCHANGED <<ruleTable, ruleClock, listing, ruleEdits, ruleCalls>>

\* A new rule; one that starts as what a finding suggests, without its target; an edit
\* of a row as the page last read it.
DraftFromAlert(alert) ==
    [EmptyDraft EXCEPT !.kind = alert.kind, !.port = alert.port,
        !.source = IF alert.source = Blank THEN Blank
                   ELSE [family |-> alert.source[1], address |-> alert.source[2], bits |-> Bare]]
OpenDialog ==
    \/ OpensWith(0, EmptyDraft)
    \/ \E i \in DOMAIN AlertsShown : OpensWith(0, DraftFromAlert(AlertsShown[i]))
    \/ \E id \in DOMAIN listing.rows : OpensWith(id, listing.rows[id])

TypeField ==
    /\ IsOpen /\ ruleEdits < MaxRuleEdits /\ ruleEdits' = ruleEdits + 1
    /\ \/ \E text \in Texts \cup {Blank}, side \in {"source", "target"} : dialog' = [dialog EXCEPT !.draft[side] = text]
       \/ \E kind \in AlertKinds \cup {Blank} : dialog' = [dialog EXCEPT !.draft.kind = kind]
       \/ dialog' = [dialog EXCEPT !.draft.reason = "why"]
    /\ UNCHANGED <<ruleTable, ruleClock, listing, ruleCalls>>

CancelDialog ==
    /\ IsOpen /\ dialog.saving = {} /\ dialog' = NoDialog
    /\ UNCHANGED <<ruleTable, ruleClock, listing, ruleEdits, ruleCalls>>

Sends == ruleCalls < MaxRuleCalls /\ ruleCalls' = ruleCalls + 1

\* "Check against recent alerts", of the criteria as they are when it is pressed.
CheckRule ==
    /\ IsOpen /\ HasCriterion(dialog.draft) /\ dialog.checking = {} /\ Sends
    /\ dialog' = [dialog EXCEPT !.checking = {dialog.draft}]
    /\ UNCHANGED <<ruleTable, ruleClock, listing, ruleEdits>>

\* The server makes the draft a rule that is on and never expires, and matches it alone.
Candidate(body) == [AsStored(body) EXCEPT !.enabled = TRUE, !.expires = Blank]
Examined == 1..Min({SampleLimit, Len(AlertsShown)})
PreviewOf(body, now) ==
    {i \in Examined : MatchedBy(<<Candidate(body)>>, AlertsShown[i], now) # 0}
\* The answer; a range that does not parse is refused, and an answer that is lost is an
\* error too.  Either leaves the preview that was shown.
CheckAnswered ==
    \E body \in dialog.checking :
        /\ dialog' = [dialog EXCEPT !.checking = {}, !.preview =
                        IF CriteriaAccepted(body) THEN [of |-> body, matched |-> PreviewOf(body, ruleClock)] ELSE @]
        /\ UNCHANGED <<ruleTable, ruleClock, listing, ruleEdits, ruleCalls>>

SaveRule ==
    /\ IsOpen /\ HasCriterion(dialog.draft) /\ dialog.draft.reason # "" /\ dialog.saving = {} /\ Sends
    /\ dialog' = [dialog EXCEPT !.saving = {dialog.draft}]
    /\ UNCHANGED <<ruleTable, ruleClock, listing, ruleEdits>>

NextId == Max(DOMAIN ruleTable \cup DOMAIN listing.rows \cup {0}) + 1
WithRow(id, row) == [i \in DOMAIN ruleTable \cup {id} |-> IF i = id THEN row ELSE ruleTable[i]]
\* POST and PATCH send the whole draft; the dialog closes and the list is read again.
\* When the answer is lost the rule is there and the dialog stays, with an error.
RuleSaved ==
    \E body \in dialog.saving :
        /\ BodyAccepted(body) /\ HasCriterion(body)
        /\ IF dialog.rule = 0 THEN ruleTable' = WithRow(NextId, AsStored(body))
           ELSE dialog.rule \in DOMAIN ruleTable /\ ruleTable' = WithRow(dialog.rule, AsStored(body))
        /\ \/ dialog' = NoDialog /\ listing' = ListingOf(ruleTable')
           \/ dialog' = [dialog EXCEPT !.saving = {}] /\ UNCHANGED listing
        /\ UNCHANGED <<ruleClock, ruleEdits, ruleCalls>>
\* 400, 404, or a request that is lost.
SaveFails ==
    /\ dialog.saving # {} /\ dialog' = [dialog EXCEPT !.saving = {}]
    /\ UNCHANGED <<ruleTable, ruleClock, listing, ruleEdits, ruleCalls>>

-----------------------------------------------------------------------------
(* The page *)

\* The switch in a row: the opposite of what the page shows, and nothing else.
ToggleRule(id) ==
    /\ ~IsOpen /\ id \in DOMAIN listing.rows /\ id \in DOMAIN ruleTable /\ Sends
    /\ ruleTable' = [ruleTable EXCEPT ![id].enabled = ~listing.rows[id].enabled]
    /\ listing' = ListingOf(ruleTable')
    /\ UNCHANGED <<ruleClock, dialog, ruleEdits>>

DeleteRule(id) ==
    /\ ~IsOpen /\ id \in DOMAIN listing.rows /\ id \in DOMAIN ruleTable /\ Sends
    /\ ruleTable' = [i \in DOMAIN ruleTable \ {id} |-> ruleTable[i]] /\ listing' = ListingOf(ruleTable')
    /\ UNCHANGED <<ruleClock, dialog, ruleEdits>>

\* Another administrator's, of which this page hears at the next fetch.
OtherAdministrator ==
    /\ Sends
    /\ \E id \in DOMAIN ruleTable :
        \/ ruleTable' = [i \in DOMAIN ruleTable \ {id} |-> ruleTable[i]]
        \/ ruleTable' = [ruleTable EXCEPT ![id].enabled = ~@]
        \/ ruleTable' = [ruleTable EXCEPT ![id].expires = ruleClock + 1]
    /\ UNCHANGED <<ruleClock, listing, dialog, ruleEdits>>

FetchRules ==
    /\ listing # ListingOf(ruleTable) /\ listing' = ListingOf(ruleTable)
    /\ UNCHANGED <<ruleTable, ruleClock, dialog, ruleEdits, ruleCalls>>

RulesTick ==
    /\ ruleClock = 0 /\ ruleClock' = 1
    /\ UNCHANGED <<ruleTable, listing, dialog, ruleEdits, ruleCalls>>

RulesNext ==
    \/ OpenDialog \/ TypeField \/ CancelDialog \/ CheckRule \/ CheckAnswered \/ SaveRule \/ RuleSaved \/ SaveFails
    \/ \E id \in DOMAIN listing.rows : ToggleRule(id) \/ DeleteRule(id)
    \/ OtherAdministrator \/ FetchRules \/ RulesTick

RulesSpec == RulesInit /\ [][RulesNext]_ruleVars

\* ruleState: what the chip of a row says.
ChipOf(id) ==
    LET rule == listing.rows[id] IN
    IF id \in listing.invalid THEN "invalid"
    ELSE IF ~rule.enabled THEN "disabled"
    ELSE IF rule.expires # Blank /\ rule.expires <= listing.at THEN "expired" ELSE "active"

-----------------------------------------------------------------------------
(* Properties *)

\* The variables keep their types.
RulesTypeOK ==
    /\ \A id \in DOMAIN ruleTable : HasCriterion(ruleTable[id]) /\ ruleTable[id].reason # ""
    /\ listing.invalid \subseteq DOMAIN listing.rows /\ ruleClock \in 0..1
    /\ dialog.rule \in {NoRule, 0} \cup Nat /\ Cardinality(dialog.checking) <= 1 /\ Cardinality(dialog.saving) <= 1
    /\ ruleEdits \in 0..MaxRuleEdits /\ ruleCalls \in 0..MaxRuleCalls

\* What a range says: its first bits are those of the address.
Agrees(text, address) ==
    address # Blank /\ text # Garbled /\ address[1] = text.family /\ PrefixLength(text) \in 1..Bits
    /\ \A bit \in (Bits - PrefixLength(text))..(Bits - 1) : (address[2] \div 2^bit) % 2 = (text.address \div 2^bit) % 2
Says(rule, event) ==
    /\ rule.kind = Blank \/ rule.kind = event.kind
    /\ \A side \in {"source", "target"} : rule[side] = Blank \/ Agrees(rule[side], event[side])
    /\ rule.port = Blank \/ rule.port = event.port
SomeEvents == [kind : AlertKinds, source : (Families \X Address) \cup {Blank},
               target : {Blank, <<4, 0>>, <<6, 1>>}, port : Ports \cup {Blank}]

\* A finding is hidden exactly if a rule that is on, has not lapsed and can be read says
\* so, and it is counted for the first of those: no range is wider than its bits, none
\* covers every address or the other family, and a rule that names an address hides no
\* finding without one.
MatchExact ==
    \A event \in SomeEvents :
        LET live == {id \in DOMAIN ruleTable : /\ ruleTable[id].enabled /\ Says(ruleTable[id], event)
                                               /\ \A side \in {"source", "target"} : ruleTable[id][side] # Garbled
                                               /\ ruleTable[id].expires = Blank \/ ruleTable[id].expires > ruleClock}
            by == MatchedBy(ruleTable, event, ruleClock) IN
        IF live = {} THEN by = 0 ELSE by = Min(live)

\* A list that is fresh says "active" of exactly the rules that can hide some finding.
ChipsHonest ==
    listing = ListingOf(ruleTable) =>
        \A id \in DOMAIN listing.rows :
            (ChipOf(id) = "active") =
                (\E event \in Event : MatchedBy([i \in {id} |-> ruleTable[id]], event, ruleClock) # 0)

\* What is saved can be used, covers what was typed and nothing more, and hides of the
\* findings that were examined exactly those the preview of the same draft counted.
SavedAsShown ==
    \A body \in dialog.saving : RuleSaved =>
        LET row == AsStored(body) IN
        /\ ~Unusable(row)
        /\ \A event \in SomeEvents : Fits(row, event) = Says(body, event)
        /\ (\A c \in Criterion : dialog.preview.of[c] = body[c]) /\ body.enabled /\ body.expires = Blank =>
            dialog.preview.matched = {i \in Examined : Says(body, AlertsShown[i])}

RulesAreTrue == MatchExact /\ ChipsHonest
RulesExact == []RulesAreTrue /\ [][SavedAsShown]_ruleVars
==============================================================================
