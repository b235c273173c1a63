----------------------------- MODULE SettingsForm -----------------------------
(***************************************************************************)
(* The three settings forms of the web interface: a draft of what was      *)
(* typed over a cached copy of the settings, which is fetched again behind *)
(* the open form while other administrators save and restarts pin fields   *)
(* (components/DeliverySettingsForm.tsx, components/admin/                 *)
(* QueryConsoleSettings.tsx, components/admin/FlowSettings.tsx).           *)
(*                                                                         *)
(* Two fields and a secret stand for the lists of fields.  The delivery    *)
(* form shows the secret while "method" is 1; the flow form has none.      *)
(***************************************************************************)
EXTENDS Integers, Functions

CONSTANTS MaxEdits,    \* bound: edits
          MaxEvents    \* bound: saves of others, fields pinned, answers lost

VARIABLES form,      \* which of the three
          row,       \* the settings in force
          pins,      \* the fields the environment decides
          view,      \* the cached answer: [values, pinned]
          refetch,   \* the query: idle, asked, or an answer on its way
          draft,     \* what was typed, by field
          save,      \* the mutation
          meant,     \* what the user means to change: the edits not undone since
          happened   \* how often each bounded event happened

formVars == <<form, row, pins, view, refetch, draft, save, meant, happened>>

Fields == {"plain", "method", "secret"}
Empty == 0
Clear == -1                         \* null, drafted for a secret
Typed == {Empty, 1}
FormRows == [Fields -> Typed]
ViewOf == [values : FormRows, pinned : SUBSET Fields]

\* A secret is sent as configured or not: 1 stands for any.
AnswerFor(settings) ==
    [values |-> [settings EXCEPT !["secret"] = IF @ = Empty THEN Empty ELSE 1], pinned |-> pins]

NoAnswer == [values |-> [f \in Fields |-> Empty], pinned |-> {}]
NoRefetch == [stage |-> "idle", answer |-> NoAnswer]
NoSave == [stage |-> "idle", patch |-> <<>>, agreed |-> {}, answer |-> NoAnswer]

FormFields == IF form = "flow" THEN Fields \ {"secret"} ELSE Fields

MayHappen(event, bound) ==
    happened[event] < bound /\ happened' = [happened EXCEPT ![event] = @ + 1]

-----------------------------------------------------------------------------
(* What the form shows. *)

\* A secret's box starts empty.
SavedValue(f) == IF f = "secret" THEN Empty ELSE view.values[f]
ValueFor(f) == IF f \in DOMAIN draft THEN draft[f] ELSE SavedValue(f)
IsVisible(f) == form = "delivery" /\ f = "secret" => ValueFor("method") = 1
HasSecret == view.values["secret"] # Empty

\* A field that was typed into is changed if it differs from what is saved; a secret,
\* if anything is in its box or it is to be cleared.
DiffersFromStored(f) == draft[f] # SavedValue(f)
Changed == {f \in DOMAIN draft : IsVisible(f) /\ DiffersFromStored(f)}

CanType == save.stage = "idle"

-----------------------------------------------------------------------------
\* A form is opened on settings that have just arrived.
FormInit ==
    /\ form \in {"delivery", "console", "flow"}
    /\ row \in {[f \in Fields |-> v] : v \in {Empty, 1}} /\ pins = {}
    /\ view = AnswerFor(row) /\ refetch = NoRefetch
    /\ draft = <<>> /\ save = NoSave /\ meant = <<>>
    /\ happened = [event \in {"edit", "event"} |-> 0]

TypedInto(edits, f, value) == [x \in DOMAIN edits \cup {f} |-> IF x = f THEN value ELSE edits[x]]
ClearedSecret == [x \in {"secret"} |-> Clear]

\* In the flow form a field put back the way it was stops being an edit.
Drafted(f, value) ==
    IF form = "flow" /\ value = SavedValue(f)
    THEN Restrict(draft, DOMAIN draft \ {f})
    ELSE TypedInto(draft, f, value)

\* Nothing can be typed while a save is under way.
Edit(f, value) ==
    /\ CanType /\ f \in FormFields \ view.pinned /\ IsVisible(f) /\ value # ValueFor(f)
    /\ MayHappen("edit", MaxEdits)
    /\ draft' = Drafted(f, value)
    /\ meant' = IF value = SavedValue(f) THEN Restrict(meant, DOMAIN meant \ {f})
                ELSE TypedInto(meant, f, value)
    /\ UNCHANGED <<form, row, pins, view, refetch, save>>

\* The console drafts the clearing of a secret; the delivery form sends it at once, and
\* of a secret that is not shown any more as well.
ClearSecret ==
    /\ CanType /\ form # "flow" /\ HasSecret /\ "secret" \notin view.pinned
    /\ MayHappen("edit", MaxEdits)
    /\ IF form = "console"
       THEN /\ draft' = TypedInto(draft, "secret", Clear)
            /\ meant' = TypedInto(meant, "secret", Clear)
            /\ UNCHANGED save
       ELSE /\ save' = [NoSave EXCEPT !.stage = "asked", !.patch = ClearedSecret]
            /\ UNCHANGED <<draft, meant>>
    /\ UNCHANGED <<form, row, pins, view, refetch>>

\* The console has no such button.
Discard ==
    /\ CanType
    /\ \/ form = "delivery" /\ Changed # {}
       \/ form = "flow" /\ draft # <<>>
    /\ draft' = <<>> /\ meant' = <<>>
    /\ UNCHANGED <<form, row, pins, view, refetch, save, happened>>

\* The changed fields but the pinned ones; an emptied field clears its setting.  If
\* none is left, the form says so.  A field the cached settings agree with by then is
\* taken for saved.
Patch == Restrict(draft, Changed \ view.pinned)
Submit ==
    /\ CanType /\ Patch # <<>>
    /\ save' = [NoSave EXCEPT !.stage = "asked", !.patch = Patch,
                           !.agreed = {f \in DOMAIN draft : ~DiffersFromStored(f)}]
    /\ UNCHANGED <<form, row, pins, view, refetch, draft, meant, happened>>

\* The flow form's retry of the bind saves nothing.
RetryBind ==
    /\ CanType /\ form = "flow" /\ row["plain"] = 1
    /\ save' = [NoSave EXCEPT !.stage = "asked", !.patch = <<>>]
    /\ UNCHANGED <<form, row, pins, view, refetch, draft, meant, happened>>

-----------------------------------------------------------------------------
(* The server. *)

StoredAs(value) == IF value = Clear THEN Empty ELSE value

\* A patch that names a pinned field is refused whole.
SaveServed ==
    /\ save.stage = "asked"
    /\ IF DOMAIN save.patch \cap pins # {}
       THEN save' = [save EXCEPT !.stage = "refused"] /\ UNCHANGED row
       ELSE /\ row' = [f \in Fields |-> IF f \in DOMAIN save.patch THEN StoredAs(save.patch[f]) ELSE row[f]]
            /\ save' = [save EXCEPT !.stage = "answered",
                                     !.answer = IF form = "delivery" THEN AnswerFor(row') ELSE @]
    /\ UNCHANGED <<form, pins, view, refetch, draft, meant, happened>>

\* The request or its answer is lost.
SaveIsLost ==
    /\ save.stage \in {"asked", "answered"} /\ MayHappen("event", MaxEvents)
    /\ save' = [save EXCEPT !.stage = "refused"]
    /\ UNCHANGED <<form, row, pins, view, refetch, draft, meant>>

RefetchServed ==
    /\ refetch.stage = "asked"
    /\ refetch' = [stage |-> "answered", answer |-> AnswerFor(row)]
    /\ UNCHANGED <<form, row, pins, view, draft, save, meant, happened>>

OtherSaves(f, value) ==
    /\ f \in FormFields \ pins /\ value # row[f] /\ MayHappen("event", MaxEvents)
    /\ row' = [row EXCEPT ![f] = value]
    /\ UNCHANGED <<form, pins, view, refetch, draft, save, meant>>

\* A restart with another line in the environment.
Pin(f) ==
    /\ f \in FormFields \ pins /\ MayHappen("event", MaxEvents)
    /\ pins' = pins \cup {f}
    /\ UNCHANGED <<form, row, view, refetch, draft, save, meant>>

-----------------------------------------------------------------------------
(* What comes back. *)

\* Coming back to the window fetches again.
WindowFocus ==
    /\ refetch.stage = "idle"
    /\ refetch' = [NoRefetch EXCEPT !.stage = "asked"]
    /\ UNCHANGED <<form, row, pins, view, draft, save, meant, happened>>

RefetchArrives ==
    /\ refetch.stage = "answered"
    /\ view' = refetch.answer /\ refetch' = NoRefetch
    /\ UNCHANGED <<form, row, pins, draft, save, meant, happened>>

\* A mutant: every form starts afresh.
MutantAfterSave == <<>>

\* A save that went through: the delivery form shows the answer and keeps every edit
\* that was not sent; the others start afresh and ask again.
AfterSave == IF form = "delivery" THEN Restrict(draft, DOMAIN draft \ DOMAIN save.patch) ELSE <<>>
SaveArrives ==
    /\ save.stage = "answered"
    /\ draft' = AfterSave
    /\ meant' = Restrict(meant, DOMAIN meant \cap DOMAIN draft')
    /\ IF form = "delivery"
       THEN view' = save.answer /\ UNCHANGED refetch
       ELSE UNCHANGED view /\ refetch' = [NoRefetch EXCEPT !.stage = "asked"]
    /\ save' = NoSave
    /\ UNCHANGED <<form, row, pins, happened>>

\* One that did not leaves the draft alone.
RefusalArrives ==
    /\ save.stage = "refused"
    /\ save' = NoSave
    /\ UNCHANGED <<form, row, pins, view, refetch, draft, meant, happened>>

FormNext ==
    \/ \E f \in Fields, value \in Typed : Edit(f, value) \/ OtherSaves(f, value)
    \/ \E f \in Fields : Pin(f)
    \/ ClearSecret \/ Discard \/ Submit \/ RetryBind
    \/ SaveServed \/ SaveIsLost \/ RefetchServed
    \/ WindowFocus \/ RefetchArrives \/ SaveArrives \/ RefusalArrives

FormSpec == FormInit /\ [][FormNext]_formVars

-----------------------------------------------------------------------------
\* The variables keep their types.
FormTypeOK ==
    /\ form \in {"delivery", "console", "flow"} /\ row \in FormRows /\ pins \subseteq Fields
    /\ view \in ViewOf /\ refetch \in [stage : {"idle", "asked", "answered"}, answer : ViewOf]
    /\ DOMAIN draft \subseteq FormFields /\ DOMAIN meant \subseteq DOMAIN draft
    /\ \A f \in DOMAIN draft : draft[f] \in Typed \cup {Clear}
    /\ save.stage \in {"idle", "asked", "answered", "refused"} /\ save.answer \in ViewOf
    /\ DOMAIN save.patch \subseteq FormFields

\* A save changes nothing but what the user means to change (the two older forms send a
\* field that was put back, too, and the delivery form the secret whose button was pressed),
\* and an edit leaves the form on a save only when it was sent, whatever others save and
\* whatever is fetched meanwhile; a retry of the bind, which sends nothing, aside.
EditsKept ==
    /\ SaveServed => \A f \in Fields : row'[f] # row[f] =>
        \/ f \in DOMAIN meant /\ row'[f] = StoredAs(meant[f])
        \/ form # "flow" /\ f \in DOMAIN draft \ DOMAIN meant
        \/ form = "delivery" /\ save.patch = ClearedSecret
    /\ SaveArrives /\ save.patch # <<>> =>
        \A f \in DOMAIN meant \ DOMAIN draft' :
            f \in DOMAIN save.patch \cup save.agreed \cup view.pinned
EditsAreKept == [][EditsKept]_formVars
-----------------------------------------------------------------------------
(* What the proofs rest on *)

\* What is meant is drafted; in the flow form nothing else is.
DraftsOK ==
    /\ DOMAIN meant \subseteq DOMAIN draft /\ \A f \in DOMAIN meant : meant[f] = draft[f]
    /\ form = "flow" => DOMAIN draft \subseteq DOMAIN meant

\* While a save is under way the draft stays what it was sent of; every edit that was not
\* sent agreed with what was saved or is pinned.
SentFields(patch) ==
    /\ DOMAIN patch \subseteq DOMAIN draft /\ \A f \in DOMAIN patch : patch[f] = draft[f]
    /\ form # "delivery" => DOMAIN draft \subseteq DOMAIN patch \cup save.agreed \cup view.pinned
SaveOK ==
    /\ save = [stage |-> save.stage, patch |-> save.patch, agreed |-> save.agreed, answer |-> save.answer]
    /\ save.stage # "idle" =>
        \/ save.patch = <<>> \/ SentFields(save.patch)
        \/ form = "delivery" /\ save.patch = ClearedSecret

\* The two forms that take the settings from the query alone never lose a pin.
PinsOK ==
    /\ form \in {"delivery", "console", "flow"}
    /\ refetch = [stage |-> refetch.stage, answer |-> refetch.answer]
    /\ form # "delivery" =>
        /\ view.pinned \subseteq pins
        /\ refetch.stage = "answered" => /\ view.pinned \subseteq refetch.answer.pinned
                                        /\ refetch.answer.pinned \subseteq pins

FormInv == DraftsOK /\ SaveOK /\ PinsOK
==============================================================================
