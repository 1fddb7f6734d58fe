-------------------------- MODULE DurableConfiguration --------------------------
(***************************************************************************)
(* What the stored UI configuration promises its users: one configuration  *)
(* is stored, always a valid one; it changes only to what a client sent    *)
(* and was told is taken; the screens change only to the stored one.       *)
(***************************************************************************)

CONSTANTS
    IsValid(_),
    Decoded(_),     \* the configuration that a document is of
    Nothing

VARIABLES
    stored,
    shown,          \* of which the screens are
    taken           \* the document that a client was told is taken in this step, or Nothing

Init == IsValid(stored) /\ shown = stored /\ taken = Nothing

Replace ==
    /\ taken' # Nothing
    /\ stored' = Decoded(taken')
    /\ IsValid(stored')
    /\ shown' = shown

\* Whatever else happens: a refused document, a restart, a rebuild, an event.
Keep ==
    /\ taken' = Nothing
    /\ stored' = stored
    /\ shown' \in {shown, stored}

Next == Replace \/ Keep

Spec == Init /\ [][Next]_<<stored, shown, taken>>

=============================================================================
