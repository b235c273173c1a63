---------------------------- MODULE FreshRegister ----------------------------
(***************************************************************************)
(* What a cache of a table promises: readers see some version of the       *)
(* table, never go back to an older one, and once a writer has been told   *)
(* that its version is in force, readers see that version or a later one.  *)
(***************************************************************************)
EXTENDS Naturals

VARIABLES
    latest,     \* version of the table
    visible,    \* version that readers see, 0 when they see none
    promised    \* latest version that a writer was told is in force

registerVars == <<latest, visible, promised>>

RegisterInit == latest = 1 /\ visible = 0 /\ promised = 0

Write == latest' = latest + 1 /\ UNCHANGED <<visible, promised>>

\* A version not older than the visible one is published, and writers of
\* versions up to it may be told so.
Publish ==
    /\ visible' \in visible..latest
    /\ promised' \in promised..visible'
    /\ UNCHANGED latest

RegisterSpec == RegisterInit /\ [][Write \/ Publish]_registerVars
==============================================================================
