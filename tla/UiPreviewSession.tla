-------------------------- MODULE UiPreviewSession --------------------------
(***************************************************************************)
(* The bookkeeping of one UI preview: UiPreviewSession, the class of       *)
(* domain/ui_domain/preview/ui_preview_session.cpp.  Every public method   *)
(* holds the class's one mutex from its first line to its return, so a     *)
(* call is one action here; a method that returns on several paths has one *)
(* operator per path.  The module holds the state and the methods only:    *)
(* who calls them, and in which order, is UiPreviewService's.              *)
(*                                                                         *)
(* Abstractions.  The buffer's bytes are left out: a transfer is its       *)
(* length and how much of it was received.  The clock is left out too:     *)
(* lease_out says whether IsLeaseExpired() would answer true now, and a    *)
(* call that sets last_activity_ms_ makes it false.                        *)
(*                                                                         *)
(* A definition whose name begins with Faulty is the one after it with a   *)
(* mistake someone could make in the code.  Nothing uses it: it is there   *)
(* to be put in the other's place, to see that a property notices.         *)
(***************************************************************************)
EXTENDS Integers

CONSTANTS Token,         \* the tokens a session can be given
          NoToken,       \* token_ = 0; also a BEGIN that carries no token
          MaxStageSize,  \* CONFIG_EERIE_LEAP_UI_PREVIEW_MAX_STAGE_SIZE
          MaxRev         \* the last revision before rev_ wraps: UINT32_MAX

ASSUME SessionAssumption ==
    /\ NoToken \notin Token
    /\ MaxStageSize \in Nat \ {0}
    /\ MaxRev \in Nat \ {0}

VARIABLES token,         \* the open session's token, NoToken while none is
          is_pinned,     \* what the BEGIN that opened it asked for
          is_fresh,      \* no request has carried the token yet
          lease_out,     \* a session is open and its lease ran out
          rev,           \* the revision of the configuration applied
          has_applied,   \* the screens may not be the stored ones
          has_navigated, \* SHOW moved navigation
          is_applying,   \* from the last chunk (or the patch) to FinishApply()
          capacity,      \* the size of the stage buffer, 0 when it is freed
          is_staging,    \* a transfer is under way
          length,        \* its length, as offset 0 announced it
          received,      \* how much of it arrived
          requested_rev  \* the revision the client gives it, or NoRev

NoRev == -1
Revs == 0 .. MaxRev

\* What the chunk at offset 0 announces; a chunk may come without it.
Headers == [length : 0 .. MaxStageSize + 1, rev : Revs \cup {NoRev}]
NoHeader == [length |-> -1, rev |-> NoRev]

transferVars == <<is_staging, length, received, requested_rev>>
sessionVars == <<token, is_pinned, is_fresh, lease_out, rev, has_applied,
                 has_navigated, is_applying, capacity, transferVars>>

SessionTypeOK ==
    /\ token \in Token \cup {NoToken}
    /\ is_pinned \in BOOLEAN
    /\ is_fresh \in BOOLEAN
    /\ lease_out \in BOOLEAN
    /\ rev \in Revs
    /\ has_applied \in BOOLEAN
    /\ has_navigated \in BOOLEAN
    /\ is_applying \in BOOLEAN
    /\ capacity \in {0, MaxStageSize}
    /\ is_staging \in BOOLEAN
    /\ length \in 0 .. MaxStageSize
    /\ received \in 0 .. MaxStageSize
    /\ requested_rev \in Revs \cup {NoRev}

SessionInit ==
    /\ token = NoToken
    /\ is_pinned = TRUE
    /\ is_fresh = FALSE
    /\ lease_out = FALSE
    /\ rev = 0
    /\ has_applied = FALSE
    /\ has_navigated = FALSE
    /\ is_applying = FALSE
    /\ capacity = 0
    /\ is_staging = FALSE
    /\ length = 0
    /\ received = 0
    /\ requested_rev = NoRev

IsActive == token # NoToken

-----------------------------------------------------------------------------
\* Time passes: the lease of the session that is open runs out.
LeaseRunsOut ==
    /\ IsActive
    /\ ~lease_out
    /\ lease_out' = TRUE
    /\ UNCHANGED <<token, is_pinned, is_fresh, rev, has_applied, has_navigated,
                   is_applying, capacity, transferVars>>

-----------------------------------------------------------------------------
\* Begin(), one operator per way it returns.  t is the token the request
\* carries, NoToken for none.

BeginCreates(t, pinned, new) ==
    /\ ~IsActive
    /\ t = NoToken
    /\ token' = new
    /\ is_pinned' = pinned
    /\ is_fresh' = TRUE
    /\ lease_out' = FALSE
    /\ rev' = 0
    /\ has_applied' = FALSE
    /\ has_navigated' = FALSE
    /\ is_applying' = FALSE
    /\ is_staging' = FALSE
    /\ UNCHANGED <<capacity, length, received, requested_rev>>

\* The session's own token renews it; a repeated BEGIN gets the same token.
BeginRenews(t, pinned) ==
    /\ IsActive
    /\ \/ t = token /\ is_fresh' = FALSE
       \/ t = NoToken /\ is_fresh /\ pinned = is_pinned /\ UNCHANGED is_fresh
    /\ lease_out' = FALSE
    /\ UNCHANGED <<token, is_pinned, rev, has_applied, has_navigated,
                   is_applying, capacity, transferVars>>

\* NO_SESSION, BAD_TOKEN or BUSY.
BeginRefused(t, pinned) ==
    /\ \/ ~IsActive /\ t # NoToken
       \/ IsActive /\ t \notin {NoToken, token}
       \/ IsActive /\ t = NoToken /\ ~(is_fresh /\ pinned = is_pinned)
    /\ UNCHANGED sessionVars

\* AllocateBuffer() of the open session, when there is memory for it.
AllocateBuffer ==
    /\ capacity' = MaxStageSize
    /\ UNCHANGED <<token, is_pinned, is_fresh, lease_out, rev, has_applied,
                   has_navigated, is_applying, transferVars>>

-----------------------------------------------------------------------------
\* TouchLocked(): only the open session's token passes, and renews its lease.
Holds(t) == IsActive /\ t = token

Renewed ==
    /\ is_fresh' = FALSE
    /\ lease_out' = FALSE
    /\ UNCHANGED <<token, is_pinned, capacity>>

Touch(t) ==
    IF Holds(t)
    THEN Renewed /\ UNCHANGED <<rev, has_applied, has_navigated, is_applying, transferVars>>
    ELSE UNCHANGED sessionVars

-----------------------------------------------------------------------------
\* Stage(), for a request that holds the session.  h is the header, n the size
\* of the data.

\* Where the transfer stands once the chunk's header has been looked at.
LengthAt(offset, h) == IF offset = 0 THEN h.length ELSE length
ReceivedAt(offset) == IF offset = 0 THEN 0 ELSE received
RevAt(offset, h) == IF offset = 0 THEN h.rev ELSE requested_rev

\* BUSY while the buffer is read, UNKNOWN without a header, or BAD_OFFSET: the
\* transfer stays as it is.
StageKept(offset, h) ==
    \/ is_applying
    \/ offset = 0 /\ h = NoHeader
    \/ offset # 0 /\ (~is_staging \/ offset # received)

\* STALE or TOO_LARGE at offset 0: an earlier transfer is dropped all the same.
StartRefused(offset, h) ==
    /\ offset = 0
    /\ \/ h.rev # NoRev /\ h.rev <= rev
       \/ h.length = 0 \/ h.length > capacity

FaultyDataPastLength(offset, n, h) == n > LengthAt(offset, h) - ReceivedAt(offset) + 1

DataPastLength(offset, n, h) == n > LengthAt(offset, h) - ReceivedAt(offset)

StageRefused(t, offset, n, h) ==
    /\ Holds(t)
    /\ Renewed
    /\ \/ StageKept(offset, h) /\ UNCHANGED transferVars
       \/ /\ ~StageKept(offset, h)
          /\ StartRefused(offset, h)
          /\ is_staging' = FALSE
          /\ UNCHANGED <<length, received, requested_rev>>
       \/ /\ ~StageKept(offset, h)
          /\ ~StartRefused(offset, h)
          /\ DataPastLength(offset, n, h)
          /\ is_staging' = FALSE
          /\ length' = LengthAt(offset, h)
          /\ received' = ReceivedAt(offset)
          /\ requested_rev' = RevAt(offset, h)
    /\ UNCHANGED <<rev, has_applied, has_navigated, is_applying>>

\* The chunk is copied; the one that completes the transfer starts the apply
\* under the same lock.
StageTaken(t, offset, n, h) ==
    /\ Holds(t)
    /\ ~StageKept(offset, h)
    /\ ~StartRefused(offset, h)
    /\ ~DataPastLength(offset, n, h)
    /\ Renewed
    /\ is_staging' = TRUE
    /\ length' = LengthAt(offset, h)
    /\ received' = ReceivedAt(offset) + n
    /\ requested_rev' = RevAt(offset, h)
    /\ is_applying' = (received' = length')
    /\ UNCHANGED <<rev, has_applied, has_navigated>>

\* Staged(): the bytes of a complete transfer are there to be read.
HasStaged == IsActive /\ is_staging /\ received = length

DropStage ==
    /\ is_staging' = FALSE
    /\ received' = 0
    /\ UNCHANGED <<length, requested_rev>>

-----------------------------------------------------------------------------
\* BeginPatch() of revision r, for a request that holds the session.
FaultyPatchBusyByStage == is_staging

PatchBusy == is_applying \/ is_staging

FaultyBeginPatch(t, r) ==
    /\ Holds(t)
    /\ ~PatchBusy
    /\ Renewed
    /\ is_applying' = TRUE
    /\ UNCHANGED <<rev, has_applied, has_navigated, transferVars>>

BeginPatch(t, r) ==
    /\ Holds(t)
    /\ ~PatchBusy
    /\ r > rev
    /\ Renewed
    /\ is_applying' = TRUE
    /\ UNCHANGED <<rev, has_applied, has_navigated, transferVars>>

\* CommitPatch() and CommitStage(): the revision of what is shown now.
CommitPatch(r) == rev' = r

StageRev ==
    IF requested_rev > rev THEN requested_rev ELSE (rev + 1) % (MaxRev + 1)

CommitStage ==
    /\ rev' = StageRev
    /\ is_staging' = FALSE
    /\ received' = 0
    /\ UNCHANGED <<length, requested_rev>>

FinishApply ==
    /\ is_applying' = FALSE
    /\ UNCHANGED <<token, is_pinned, is_fresh, lease_out, rev, has_applied,
                   has_navigated, capacity, transferVars>>

\* End() once it finds that nothing is being applied: CloseLocked().
FaultyCloseLocked ==
    /\ token' = NoToken
    /\ lease_out' = FALSE
    /\ has_applied' = FALSE
    /\ has_navigated' = FALSE
    /\ is_applying' = FALSE
    /\ rev' = 0
    /\ capacity' = 0
    /\ UNCHANGED <<is_pinned, is_fresh, transferVars>>

CloseLocked ==
    /\ token' = NoToken
    /\ lease_out' = FALSE
    /\ has_applied' = FALSE
    /\ has_navigated' = FALSE
    /\ is_applying' = FALSE
    /\ is_staging' = FALSE
    /\ received' = 0
    /\ rev' = 0
    /\ capacity' = 0
    /\ UNCHANGED <<is_pinned, is_fresh, length, requested_rev>>

=============================================================================
