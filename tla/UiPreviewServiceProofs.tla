----------------------- MODULE UiPreviewServiceProofs -----------------------
(***************************************************************************)
(* The safety of the UI preview, proved for every set of handlers, tokens  *)
(* and configurations, every stage size and every last revision: the types *)
(* of the variables; that is_applying_ works as a lock, and what follows   *)
(* from it; that the render work queue loses nothing that was asked for;   *)
(* and that an end leaves the gauge as it was before the session.          *)
(***************************************************************************)
EXTENDS UiPreviewService, TLAPS

-----------------------------------------------------------------------------
(***************************************************************************)
(* What the methods of UiPreviewSession keep and return.                   *)
(***************************************************************************)
\* A stage that is shown gets a revision of the type, past the one applied
\* unless that was the last representable one.
LEMMA StageRevForward ==
    ASSUME rev \in Revs, requested_rev \in Revs \cup {NoRev}
    PROVE  /\ StageRev \in Revs
           /\ StageRev > rev \/ rev = MaxRev
           /\ requested_rev > rev => StageRev = requested_rev
  BY SessionAssumption DEF StageRev, Revs, NoRev

\* The bounds hold 0, where counting starts.
LEMMA ZeroInBounds == 0 \in Revs /\ 0 \in 0 .. MaxStageSize
  BY SessionAssumption DEF Revs

\* Every method keeps the session's type.
LEMMA LeaseRunsOutType == SessionTypeOK /\ LeaseRunsOut => SessionTypeOK'
  BY DEF SessionTypeOK, LeaseRunsOut, transferVars

LEMMA BeginCreatesType ==
    ASSUME NEW t, NEW pinned \in BOOLEAN, NEW new \in Token,
           SessionTypeOK, BeginCreates(t, pinned, new)
    PROVE  SessionTypeOK'
  BY ZeroInBounds DEF SessionTypeOK, BeginCreates

LEMMA BeginRenewsType ==
    ASSUME NEW t, NEW pinned, SessionTypeOK, BeginRenews(t, pinned)
    PROVE  SessionTypeOK'
  BY DEF SessionTypeOK, BeginRenews, transferVars

LEMMA BeginRefusedType ==
    ASSUME NEW t, NEW pinned, SessionTypeOK, BeginRefused(t, pinned)
    PROVE  SessionTypeOK'
  BY DEF SessionTypeOK, BeginRefused, sessionVars, transferVars

LEMMA AllocateBufferType == SessionTypeOK /\ AllocateBuffer => SessionTypeOK'
  BY DEF SessionTypeOK, AllocateBuffer, transferVars

LEMMA TouchType ==
    ASSUME NEW t, SessionTypeOK, Touch(t)
    PROVE  SessionTypeOK'
  BY DEF SessionTypeOK, Touch, Renewed, sessionVars, transferVars

\* Where a chunk that is not refused for its header stands is within the buffer.
LEMMA ChunkBounds ==
    ASSUME NEW offset \in Nat, NEW h \in Headers \cup {NoHeader},
           SessionTypeOK, ~StageKept(offset, h), ~StartRefused(offset, h)
    PROVE  /\ LengthAt(offset, h) \in 0 .. MaxStageSize
           /\ ReceivedAt(offset) \in 0 .. MaxStageSize
           /\ RevAt(offset, h) \in Revs \cup {NoRev}
<1>1. CASE offset = 0
  <2>1. h \in Headers
    BY <1>1 DEF StageKept
  <2>2. h.length \in 0 .. MaxStageSize + 1 /\ h.rev \in Revs \cup {NoRev}
    BY <2>1 DEF Headers
  <2>3. h.length <= MaxStageSize
    BY <1>1, <2>2, SessionAssumption DEF StartRefused, SessionTypeOK
  <2> QED
    BY <1>1, <2>2, <2>3, ZeroInBounds, SessionAssumption DEF LengthAt, ReceivedAt, RevAt
<1>2. CASE offset # 0
  BY <1>2 DEF SessionTypeOK, LengthAt, ReceivedAt, RevAt
<1> QED
  BY <1>1, <1>2

LEMMA StageRefusedType ==
    ASSUME NEW t, NEW offset \in Nat, NEW n \in Nat, NEW h \in Headers \cup {NoHeader},
           SessionTypeOK, StageRefused(t, offset, n, h)
    PROVE  SessionTypeOK'
<1>1. /\ is_staging' \in BOOLEAN
      /\ length' \in 0 .. MaxStageSize
      /\ received' \in 0 .. MaxStageSize
      /\ requested_rev' \in Revs \cup {NoRev}
  BY ChunkBounds DEF StageRefused, SessionTypeOK, transferVars
<1> QED
  BY <1>1 DEF StageRefused, Renewed, SessionTypeOK

LEMMA StageTakenType ==
    ASSUME NEW t, NEW offset \in Nat, NEW n \in Nat, NEW h \in Headers \cup {NoHeader},
           SessionTypeOK, StageTaken(t, offset, n, h)
    PROVE  SessionTypeOK' /\ received' <= length'
<1>1. /\ length' = LengthAt(offset, h)
      /\ received' = ReceivedAt(offset) + n
      /\ n <= LengthAt(offset, h) - ReceivedAt(offset)
  <2>1. ~DataPastLength(offset, n, h)
    BY DEF StageTaken
  <2> QED
    BY <2>1, ChunkBounds, SessionAssumption DEF StageTaken, DataPastLength
<1>2. /\ length' \in 0 .. MaxStageSize
      /\ requested_rev' \in Revs \cup {NoRev}
  BY ChunkBounds DEF StageTaken
<1>3. received' \in 0 .. MaxStageSize /\ received' <= length'
  BY <1>1, <1>2, ChunkBounds, SessionAssumption DEF StageTaken
<1>4. is_staging' \in BOOLEAN /\ is_applying' \in BOOLEAN
  BY DEF StageTaken
<1> QED
  BY <1>2, <1>3, <1>4 DEF StageTaken, Renewed, SessionTypeOK

LEMMA BeginPatchType ==
    ASSUME NEW t, NEW r \in Revs, SessionTypeOK, BeginPatch(t, r)
    PROVE  SessionTypeOK'
  BY DEF SessionTypeOK, BeginPatch, Renewed, transferVars

LEMMA FinishApplyType == SessionTypeOK /\ FinishApply => SessionTypeOK'
  BY DEF SessionTypeOK, FinishApply, transferVars

LEMMA CloseLockedType == SessionTypeOK /\ CloseLocked => SessionTypeOK'
  BY ZeroInBounds DEF SessionTypeOK, CloseLocked

-----------------------------------------------------------------------------
\* The render queue stays a sequence of items.
LEMMA SubmittedType ==
    ASSUME render_queue \in Seq(Item), NEW item \in Item
    PROVE  Submitted(item) \in Seq(Item)
  BY DEF Submitted

LEMMA CancelledType ==
    ASSUME render_queue \in Seq(Item), NEW item \in Item
    PROVE  Cancelled(item) \in Seq(Item)
  BY DEF Cancelled

-----------------------------------------------------------------------------
\* The actions that leave the session alone.
SessionQuiet ==
    \/ \E h \in Handler :
        \/ \E t \in KnownTokens \cup {NoToken}, pinned \in BOOLEAN : Begin(h, t, pinned)
        \/ \E t \in KnownTokens, kind \in {"SHOW", "HIGHLIGHT", "END"} : TokenRequest(h, kind, t)
        \/ RunJob(h) \/ RunJobFails(h) \/ JobDone(h) \/ JobRefused(h)
    \/ ConfigStep
    \/ LeaseTaskDue \/ LeaseLooks \/ EndTaskDue \/ EndLooks
    \/ LinkDrops \/ (\E c \in Config : Store(c)) \/ NotifierStep
    \/ RebuildStarts \/ RebuildShows \/ ClientsLeave

LEMMA SessionQuietKeeps == SessionQuiet => UNCHANGED sessionVars
  BY DEF SessionQuiet, Begin, TokenRequest, RunJob, RunJobFails, JobDone, JobRefused,
         ConfigStep, DecodeStarts, Parsed, PatchPrepared, DecodeRefused, Decoded,
         LeaseTaskDue, LeaseLooks, EndTaskDue, EndLooks, LinkDrops, Store, NotifierStep,
         LinkDropAsksEnd, StoreLooksForPreview, StoreAsksEnd, StoreQueuesRebuild,
         RebuildStarts, RebuildShows, ClientsLeave

\* The requests a handler can take, the ones that change the session.
Chunk(h) ==
    \E t \in KnownTokens, offset \in Nat, n \in Nat, head \in Headers \cup {NoHeader} :
        StageChunk(h, t, offset, n, head)

SessionStep(h) ==
    \/ Chunk(h)
    \/ \E t \in KnownTokens, r \in Revs : Patch(h, t, r)
    \/ \E t \in KnownTokens : PatchRefused(h, t)
    \/ Tidy(h) \/ Finish(h) \/ TouchAfterApply(h)
    \/ JobBeginAnswered(h) \/ (\E new \in Token \ CarriedTokens : JobBeginCreates(h, new))
    \/ JobBeginAllocates(h) \/ JobApply(h) \/ JobPatchApply(h)
    \/ JobShow(h) \/ JobHighlight(h) \/ JobEnd(h)

\* Every step is one of these.
LEMMA NextCases ==
    Next => \/ SessionQuiet
            \/ \E h \in Handler : SessionStep(h)
            \/ Cleanup \/ LeaseElapses \/ LeaseEnds \/ EndEnds
<1> SUFFICES ASSUME Next
             PROVE  \/ SessionQuiet
                    \/ \E h \in Handler : SessionStep(h)
                    \/ Cleanup \/ LeaseElapses \/ LeaseEnds \/ EndEnds
  OBVIOUS
<1>1. ASSUME NEW h \in Handler, Requests(h)
      PROVE  SessionQuiet \/ SessionStep(h)
  <2>1. ASSUME NEW t \in KnownTokens, NEW n \in 0 .. MaxStageSize + 1, NEW head \in Headers,
               StageChunk(h, t, 0, n, head)
        PROVE  Chunk(h)
    BY <2>1, SessionAssumption DEF Chunk
  <2>2. ASSUME NEW t \in KnownTokens, NEW offset \in 1 .. MaxStageSize,
               NEW n \in 0 .. MaxStageSize + 1, StageChunk(h, t, offset, n, NoHeader)
        PROVE  Chunk(h)
    BY <2>2, SessionAssumption DEF Chunk
  <2> QED
    BY <1>1, <2>1, <2>2 DEF Requests, SessionQuiet, SessionStep
<1>2. ASSUME NEW h \in Handler, RunJob(h) \/ HandlerStep(h)
      PROVE  SessionQuiet \/ SessionStep(h)
  BY <1>2 DEF HandlerStep, SessionQuiet, SessionStep
<1>3. ASSUME RenderStep
      PROVE  \/ SessionQuiet
             \/ \E h \in Handler : SessionStep(h)
             \/ Cleanup \/ LeaseEnds \/ EndEnds
  BY <1>3 DEF RenderStep, SessionQuiet, SessionStep
<1> QED
  BY <1>1, <1>2, <1>3 DEF Next, SessionQuiet

-----------------------------------------------------------------------------
\* Types, one part of the state at a time.
LEMMA SessionTypeStep ==
    ASSUME SessionTypeOK, HandlerTypeOK, [Next]_vars
    PROVE  SessionTypeOK'
<1> USE DEF SessionTypeOK, transferVars
<1>1. CASE UNCHANGED vars
  BY <1>1 DEF vars, sessionVars
<1>2. CASE SessionQuiet
  BY <1>2, SessionQuietKeeps DEF sessionVars
<1>3. ASSUME NEW h \in Handler, SessionStep(h)
      PROVE  SessionTypeOK'
  <2>1. ASSUME NEW t \in KnownTokens, NEW offset \in Nat, NEW n \in Nat,
               NEW head \in Headers \cup {NoHeader}, StageChunk(h, t, offset, n, head)
        PROVE  SessionTypeOK'
    <3>1. StageRefused(t, offset, n, head) \/ StageTaken(t, offset, n, head)
      BY <2>1 DEF StageChunk
    <3> QED
      BY <3>1, StageRefusedType, StageTakenType
  <2>2. ASSUME NEW t \in KnownTokens, NEW r \in Revs, Patch(h, t, r)
        PROVE  SessionTypeOK'
    BY <2>2, BeginPatchType DEF Patch
  <2>3. ASSUME NEW t \in KnownTokens, PatchRefused(h, t)
        PROVE  SessionTypeOK'
    BY <2>3, TouchType DEF PatchRefused
  <2>4. CASE Tidy(h)
    BY <2>4, ZeroInBounds DEF Tidy, DropStage
  <2>5. CASE Finish(h)
    BY <2>5, FinishApplyType DEF Finish
  <2>6. CASE TouchAfterApply(h)
    BY <2>6, TouchType DEF TouchAfterApply
  <2>7. CASE JobBeginAnswered(h)
    BY <2>7, BeginRenewsType, BeginRefusedType DEF JobBeginAnswered
  <2>8. ASSUME NEW new \in Token \ CarriedTokens, JobBeginCreates(h, new)
        PROVE  SessionTypeOK'
    <3>1. req[h].pinned \in BOOLEAN
      BY DEF HandlerTypeOK, Request
    <3>2. BeginCreates(req[h].token, req[h].pinned, new)
      BY <2>8 DEF JobBeginCreates
    <3> QED
      BY <3>1, <3>2, BeginCreatesType
  <2>9. CASE JobBeginAllocates(h)
    BY <2>9, AllocateBufferType, CloseLockedType DEF JobBeginAllocates
  <2>10. CASE JobApply(h)
    BY <2>10, StageRevForward, ZeroInBounds DEF JobApply, CommitStage, ApplyFails
  <2>11. CASE JobPatchApply(h)
    <3>1. req[h].rev \in Revs
      BY DEF HandlerTypeOK, Request
    <3>2. rev' \in Revs
      BY <2>11, <3>1 DEF JobPatchApply, CommitPatch
    <3>3. has_applied' \in BOOLEAN
      BY <2>11 DEF JobPatchApply, PatchFails, RestoresStored
    <3> QED
      BY <2>11, <3>2, <3>3 DEF JobPatchApply
  <2>12. CASE JobShow(h)
    BY <2>12 DEF JobShow, Renewed
  <2>13. CASE JobHighlight(h)
    BY <2>13, TouchType DEF JobHighlight
  <2>14. CASE JobEnd(h)
    BY <2>14, CloseLockedType, TouchType DEF JobEnd, Ends
  <2> QED
    BY <1>3, <2>1, <2>2, <2>3, <2>4, <2>5, <2>6, <2>7, <2>8, <2>9, <2>10, <2>11,
       <2>12, <2>13, <2>14 DEF SessionStep, Chunk
<1>4. CASE Cleanup
  BY <1>4 DEF Cleanup, RestoresStored
<1>5. CASE LeaseElapses
  BY <1>5, LeaseRunsOutType DEF LeaseElapses
<1>6. CASE LeaseEnds
  BY <1>6, CloseLockedType DEF LeaseEnds, Ends, sessionVars
<1>7. CASE EndEnds
  BY <1>7, CloseLockedType DEF EndEnds, Ends, sessionVars
<1> QED
  BY <1>1, <1>2, <1>3, <1>4, <1>5, <1>6, <1>7, NextCases

\* The actions that leave the handlers and the job they wait for alone.
HandlerQuiet ==
    \/ \E h \in Handler :
        \/ \E t \in KnownTokens : PatchRefused(h, t)
        \/ DecodeStarts(h)
        \/ \E new \in Token \ CarriedTokens : JobBeginCreates(h, new)
    \/ LeaseElapses \/ LeaseTaskDue \/ LeaseLooks \/ LeaseEnds
    \/ EndTaskDue \/ EndLooks \/ EndEnds
    \/ LinkDrops \/ (\E c \in Config : Store(c)) \/ NotifierStep
    \/ RebuildStarts \/ RebuildShows \/ ClientsLeave

LEMMA HandlerQuietKeeps == HandlerQuiet => UNCHANGED handlerVars
  BY DEF HandlerQuiet, PatchRefused, DecodeStarts, JobBeginCreates, LeaseElapses,
         LeaseTaskDue, LeaseLooks, LeaseEnds, EndTaskDue, EndLooks, EndEnds, LinkDrops,
         Store, NotifierStep, LinkDropAsksEnd, StoreLooksForPreview, StoreAsksEnd,
         StoreQueuesRebuild, RebuildStarts, RebuildShows, ClientsLeave

LEMMA WorksType ==
    ASSUME HandlerTypeOK, NEW h \in Handler, NEW kind \in JobKind,
           NEW t \in Token \cup {NoToken}, NEW pinned \in BOOLEAN, NEW r \in Revs,
           Works(h, kind, t, pinned, r)
    PROVE  HandlerTypeOK'
  BY DEF HandlerTypeOK, Works, Request

LEMMA AnsweredType ==
    ASSUME HandlerTypeOK, NEW h \in Handler, NEW answer, Answered(h, answer)
    PROVE  /\ at' \in [Handler -> {"idle", "submit", "wait", "tidy", "finish", "touch"}]
           /\ req' \in [Handler -> Request]
<1>1. NoRequest \in Request
  BY ZeroInBounds DEF NoRequest, Request
<1>2. "APPLY" \in JobKind /\ "PATCH_APPLY" \in JobKind
  BY DEF JobKind, ConfigJobs, RenderJobs
<1>3. at' \in [Handler -> {"idle", "submit", "wait", "tidy", "finish", "touch"}]
  BY DEF Answered, HandlerTypeOK
<1>4. req' \in [Handler -> Request]
  BY <1>1, <1>2 DEF Answered, HandlerTypeOK, Request
<1> QED
  BY <1>3, <1>4

LEMMA HandlerTypeStep ==
    ASSUME HandlerTypeOK, [Next]_vars
    PROVE  HandlerTypeOK'
<1>1. CASE UNCHANGED vars
  BY <1>1 DEF vars, handlerVars, HandlerTypeOK
<1>2. CASE HandlerQuiet
  BY <1>2, HandlerQuietKeeps DEF handlerVars, HandlerTypeOK
<1>3. KnownTokens \subseteq Token
  BY DEF KnownTokens
<1>4. ASSUME NEW h \in Handler, NEW t \in KnownTokens \cup {NoToken}, NEW pinned \in BOOLEAN,
             Begin(h, t, pinned)
      PROVE  HandlerTypeOK'
  BY <1>3, <1>4, WorksType, ZeroInBounds DEF Begin, JobKind, RenderJobs
<1>5. ASSUME NEW h \in Handler, NEW t \in KnownTokens,
             NEW kind \in {"SHOW", "HIGHLIGHT", "END"}, TokenRequest(h, kind, t)
      PROVE  HandlerTypeOK'
  BY <1>3, <1>5, WorksType, ZeroInBounds DEF TokenRequest, JobKind, RenderJobs
<1>6. ASSUME NEW h \in Handler, Chunk(h)
      PROVE  HandlerTypeOK'
  <2>1. PICK t \in KnownTokens : \/ UNCHANGED handlerVars
                                 \/ Works(h, "PARSE", t, TRUE, 0)
    BY <1>6 DEF Chunk, StageChunk
  <2> QED
    BY <1>3, <2>1, WorksType, ZeroInBounds DEF JobKind, ConfigJobs, handlerVars, HandlerTypeOK
<1>7. ASSUME NEW h \in Handler, NEW t \in KnownTokens, NEW r \in Revs, Patch(h, t, r)
      PROVE  HandlerTypeOK'
  BY <1>3, <1>7, WorksType DEF Patch, JobKind, ConfigJobs
<1>8. ASSUME NEW h \in Handler, RunJob(h)
      PROVE  HandlerTypeOK'
  BY <1>8 DEF RunJob, HandlerTypeOK
<1>9. ASSUME NEW h \in Handler, RunJobFails(h)
      PROVE  HandlerTypeOK'
  BY <1>9, AnsweredType DEF RunJobFails, HandlerTypeOK
<1>10. ASSUME NEW h \in Handler, JobDone(h)
       PROVE  HandlerTypeOK'
  BY <1>10, AnsweredType DEF JobDone, HandlerTypeOK
<1>11. ASSUME NEW h \in Handler, Tidy(h) \/ Finish(h)
       PROVE  HandlerTypeOK'
  BY <1>11 DEF Tidy, Finish, HandlerTypeOK
<1>12. ASSUME NEW h \in Handler, TouchAfterApply(h)
       PROVE  HandlerTypeOK'
  BY <1>12, ZeroInBounds DEF TouchAfterApply, HandlerTypeOK, NoRequest, Request
<1>13. ASSUME NEW h \in Handler,
              \/ \E c \in Config : Parsed(h, c) \/ PatchPrepared(h, c)
              \/ DecodeRefused(h)
       PROVE  HandlerTypeOK'
  BY <1>13 DEF Parsed, PatchPrepared, DecodeRefused, Decoded, HandlerTypeOK
<1>14. ASSUME NEW h \in Handler,
              \/ JobBeginAnswered(h) \/ JobBeginAllocates(h) \/ JobApply(h)
              \/ JobPatchApply(h) \/ JobRefused(h) \/ JobShow(h) \/ JobHighlight(h)
       PROVE  HandlerTypeOK'
  <2>1. UNCHANGED <<at, req, job>> /\ result' \in {"ok", "error"}
    BY <1>14 DEF JobBeginAnswered, JobBeginAllocates, JobApply, JobPatchApply, JobRefused,
                 JobShow, JobHighlight
  <2> QED
    BY <2>1 DEF HandlerTypeOK
<1>15. ASSUME NEW h \in Handler, JobEnd(h)
       PROVE  HandlerTypeOK'
  BY <1>15 DEF JobEnd, HandlerTypeOK
<1>16. CASE Cleanup
  BY <1>16 DEF Cleanup, HandlerTypeOK
<1> QED
  BY <1>1, <1>2, <1>4, <1>5, <1>6, <1>7, <1>8, <1>9, <1>10, <1>11, <1>12, <1>13,
     <1>14, <1>15, <1>16, NextCases
     DEF SessionQuiet, SessionStep, HandlerQuiet, ConfigStep

\* The actions that leave the render thread and its tasks alone.
TaskQuiet ==
    \/ \E h \in Handler :
        \/ \E t \in KnownTokens \cup {NoToken}, pinned \in BOOLEAN : Begin(h, t, pinned)
        \/ \E t \in KnownTokens, kind \in {"SHOW", "HIGHLIGHT", "END"} : TokenRequest(h, kind, t)
        \/ Chunk(h)
        \/ \E t \in KnownTokens, r \in Revs : Patch(h, t, r)
        \/ \E t \in KnownTokens : PatchRefused(h, t)
        \/ RunJobFails(h) \/ JobDone(h) \/ Tidy(h) \/ Finish(h) \/ TouchAfterApply(h)
    \/ ConfigStep
    \/ LeaseElapses \/ LinkDrops \/ (\E c \in Config : Store(c))
    \/ StoreLooksForPreview \/ ClientsLeave

LEMMA TaskQuietKeeps == TaskQuiet => UNCHANGED taskVars
  BY DEF TaskQuiet, Begin, TokenRequest, Chunk, StageChunk, Patch, PatchRefused,
         RunJobFails, JobDone, Tidy, Finish, TouchAfterApply, ConfigStep, DecodeStarts,
         Parsed, PatchPrepared, DecodeRefused, Decoded, LeaseElapses, LinkDrops, Store,
         StoreLooksForPreview, ClientsLeave

\* Taking an item off the queue, or putting one on it.
LEMMA RunsType ==
    ASSUME TaskTypeOK, NEW item, Runs(item)
    PROVE  render_queue' \in Seq(Item)
  BY DEF TaskTypeOK, Runs

LEMMA TaskTypeStep ==
    ASSUME TaskTypeOK, HandlerTypeOK, SessionTypeOK, [Next]_vars
    PROVE  TaskTypeOK'
<1> USE DEF TaskTypeOK
<1>1. CASE UNCHANGED vars
  BY <1>1 DEF vars, taskVars
<1>2. CASE TaskQuiet
  BY <1>2, TaskQuietKeeps DEF taskVars
<1>3. /\ {"job", "lease", "end", "rebuild"} = Item
      /\ NoEnding \in Ending
      /\ \A who \in {"client", "lease", "link", "stored"}, replaced \in BOOLEAN :
            [by |-> who, replaced |-> replaced] \in Ending
  BY DEF Item, NoEnding, Ending
<1>4. ASSUME NEW h \in Handler, RunJob(h)
      PROVE  TaskTypeOK'
  BY <1>3, <1>4, SubmittedType DEF RunJob
<1>5. ASSUME NEW h \in Handler,
             \/ JobBeginAnswered(h) \/ JobApply(h) \/ JobPatchApply(h)
             \/ JobRefused(h) \/ JobShow(h) \/ JobHighlight(h)
      PROVE  TaskTypeOK'
  <2>1. Runs("job") /\ UNCHANGED <<render_at, ending, lease_armed, end_armed>>
    BY <1>5 DEF JobBeginAnswered, JobApply, JobPatchApply, JobRefused, JobShow,
                JobHighlight, RunsJob
  <2> QED
    BY <2>1, RunsType
<1>6. ASSUME NEW h \in Handler, NEW new \in Token \ CarriedTokens, JobBeginCreates(h, new)
      PROVE  TaskTypeOK'
  BY <1>6, RunsType DEF JobBeginCreates, RunsJob
<1>7. ASSUME NEW h \in Handler, JobBeginAllocates(h)
      PROVE  TaskTypeOK'
  BY <1>7 DEF JobBeginAllocates
<1>8. ASSUME NEW h \in Handler, JobEnd(h)
      PROVE  TaskTypeOK'
  BY <1>3, <1>8, RunsType DEF JobEnd, RunsJob, Ends, SessionTypeOK
<1>9. CASE Cleanup
  BY <1>3, <1>9, CancelledType DEF Cleanup
<1>10. CASE LeaseTaskDue
  BY <1>3, <1>10, SubmittedType DEF LeaseTaskDue
<1>11. CASE LeaseLooks
  <2>1. [NoEnding EXCEPT !.by = "lease"] \in Ending
    BY DEF NoEnding, Ending
  <2> QED
    BY <1>11, <2>1, RunsType DEF LeaseLooks, IsActive
<1>12. CASE LeaseEnds
  BY <1>3, <1>12 DEF LeaseEnds, Ends, SessionTypeOK
<1>13. CASE EndTaskDue
  BY <1>3, <1>13, SubmittedType DEF EndTaskDue
<1>14. CASE EndLooks
  <2>1. /\ [NoEnding EXCEPT !.by = "stored"] \in Ending
        /\ [NoEnding EXCEPT !.by = "link"] \in Ending
    BY DEF NoEnding, Ending
  <2> QED
    BY <1>14, <2>1, RunsType DEF EndLooks
<1>15. CASE EndEnds
  BY <1>3, <1>15 DEF EndEnds, Ends, SessionTypeOK
<1>16. CASE LinkDropAsksEnd \/ StoreAsksEnd
  BY <1>3, <1>16, SubmittedType DEF LinkDropAsksEnd, StoreAsksEnd, AsksEnd
<1>17. CASE StoreQueuesRebuild
  BY <1>3, <1>17 DEF StoreQueuesRebuild
<1>18. CASE RebuildStarts \/ RebuildShows
  BY <1>18, RunsType DEF RebuildStarts, RebuildShows
<1> QED
  BY <1>1, <1>2, <1>4, <1>5, <1>6, <1>7, <1>8, <1>9, <1>10, <1>11, <1>12, <1>13,
     <1>14, <1>15, <1>16, <1>17, <1>18, NextCases
     DEF SessionQuiet, SessionStep, TaskQuiet, NotifierStep

\* What a show leaves on the screens.
LEMMA ShowsType ==
    ASSUME HostTypeOK, Shows(stored) \/ ShowFails
    PROVE  screens' \in Config \cup {Broken}
  BY DEF HostTypeOK, Shows, ShowFails

LEMMA ModelHostTypeStep ==
    ASSUME ModelTypeOK, HostTypeOK, SessionTypeOK, HandlerTypeOK, [Next]_vars
    PROVE  ModelTypeOK' /\ HostTypeOK'
<1> DEFINE Same == UNCHANGED modelVars /\ UNCHANGED hostVars
<1>1. ASSUME Same PROVE ModelTypeOK' /\ HostTypeOK'
  BY <1>1 DEF modelVars, hostVars, ModelTypeOK, HostTypeOK
<1>2. CASE UNCHANGED vars
  BY <1>1, <1>2 DEF vars
<1>3. ASSUME NEW h \in Handler, SessionStep(h)
      PROVE  ModelTypeOK' /\ HostTypeOK'
  <2>1. CASE \/ Chunk(h)
             \/ \E t \in KnownTokens, r \in Revs : Patch(h, t, r)
             \/ \E t \in KnownTokens : PatchRefused(h, t)
             \/ Finish(h) \/ TouchAfterApply(h)
             \/ JobBeginAnswered(h)
             \/ \E new \in Token \ CarriedTokens : JobBeginCreates(h, new)
             \/ JobShow(h) \/ JobEnd(h)
    <3>1. Same
      BY <2>1 DEF Chunk, StageChunk, Patch, PatchRefused, Finish, TouchAfterApply,
                  JobBeginAnswered, JobBeginCreates, JobShow, JobEnd
    <3> QED
      BY <1>1, <3>1
  <2>2. CASE Tidy(h)
    BY <2>2 DEF Tidy, ModelTypeOK, HostTypeOK, hostVars
  <2>3. CASE JobBeginAllocates(h)
    <3>1. req[h].pinned \in BOOLEAN
      BY DEF HandlerTypeOK, Request
    <3> QED
      BY <2>3, <3>1 DEF JobBeginAllocates, ModelTypeOK, HostTypeOK
  <2>4. CASE JobApply(h)
    BY <2>4 DEF JobApply, Shows, ApplyFails, ShowFails, ModelTypeOK, HostTypeOK
  <2>5. CASE JobPatchApply(h)
    <3>1. screens' \in Config \cup {Broken} /\ staged' \in Config \cup {NoConfig}
      BY <2>5 DEF JobPatchApply, PatchesInPlace, PatchFails, Shows, RestoresStored,
                  ShowFails, ModelTypeOK, HostTypeOK
    <3> QED
      BY <2>5, <3>1 DEF JobPatchApply, ModelTypeOK, HostTypeOK
  <2>6. CASE JobHighlight(h)
    BY <2>6 DEF JobHighlight, modelVars, ModelTypeOK, HostTypeOK
  <2> QED
    BY <1>3, <2>1, <2>2, <2>3, <2>4, <2>5, <2>6 DEF SessionStep
<1>4. CASE Cleanup
  <2>1. screens' \in Config \cup {Broken}
    BY <1>4, ShowsType DEF Cleanup, RestoresStored, HostTypeOK
  <2> QED
    BY <1>4, <2>1 DEF Cleanup, ModelTypeOK, HostTypeOK
<1>5. CASE LeaseElapses \/ LeaseEnds \/ EndEnds
  BY <1>1, <1>5 DEF LeaseElapses, LeaseEnds, EndEnds
<1>6. CASE SessionQuiet
  <2>1. ASSUME NEW h \in Handler,
               \/ \E t \in KnownTokens \cup {NoToken}, pinned \in BOOLEAN : Begin(h, t, pinned)
               \/ \E t \in KnownTokens, kind \in {"SHOW", "HIGHLIGHT", "END"} :
                    TokenRequest(h, kind, t)
               \/ RunJob(h) \/ RunJobFails(h) \/ JobDone(h) \/ JobRefused(h) \/ DecodeStarts(h)
        PROVE  Same
    BY <2>1 DEF Begin, TokenRequest, RunJob, RunJobFails, JobDone, JobRefused, DecodeStarts
  <2>2. ASSUME NEW h \in Handler, NEW c \in Config,
               Parsed(h, c) \/ PatchPrepared(h, c)
        PROVE  ModelTypeOK' /\ HostTypeOK'
    BY <2>2 DEF Parsed, PatchPrepared, Decoded, ModelTypeOK, HostTypeOK, hostVars
  <2>3. ASSUME NEW h \in Handler, DecodeRefused(h)
        PROVE  ModelTypeOK' /\ HostTypeOK'
    BY <2>3 DEF DecodeRefused, Decoded, ModelTypeOK, HostTypeOK, hostVars
  <2>4. ASSUME \/ LeaseTaskDue \/ LeaseLooks \/ EndTaskDue \/ EndLooks
               \/ LinkDrops \/ LinkDropAsksEnd \/ StoreLooksForPreview \/ StoreAsksEnd
               \/ ClientsLeave
        PROVE  Same
    BY <2>4 DEF LeaseTaskDue, LeaseLooks, EndTaskDue, EndLooks, LinkDrops,
                LinkDropAsksEnd, StoreLooksForPreview, StoreAsksEnd, ClientsLeave
  <2>5. ASSUME NEW c \in Config, Store(c)
        PROVE  ModelTypeOK' /\ HostTypeOK'
    BY <2>5 DEF Store, modelVars, ModelTypeOK, HostTypeOK
  <2>6. CASE StoreQueuesRebuild \/ RebuildStarts
    BY <2>6 DEF StoreQueuesRebuild, RebuildStarts, modelVars, ModelTypeOK, HostTypeOK
  <2>7. CASE RebuildShows
    BY <2>7, ShowsType DEF RebuildShows, modelVars, ModelTypeOK, HostTypeOK
  <2> QED
    BY <1>1, <1>6, <2>1, <2>2, <2>3, <2>4, <2>5, <2>6, <2>7
       DEF SessionQuiet, ConfigStep, NotifierStep
<1> QED
  BY <1>2, <1>3, <1>4, <1>5, <1>6, NextCases

LEMMA NotifyTypeStep ==
    ASSUME NotifyTypeOK, TaskTypeOK, config_at \in {"idle", "decoding"}, connected \in BOOLEAN,
           [Next]_vars
    PROVE  NotifyTypeOK' /\ config_at' \in {"idle", "decoding"} /\ connected' \in BOOLEAN
<1> DEFINE Goal == NotifyTypeOK' /\ config_at' \in {"idle", "decoding"} /\ connected' \in BOOLEAN
           Same == UNCHANGED notifyVars /\ UNCHANGED config_at /\ UNCHANGED connected
<1>1. ASSUME Same PROVE Goal
  BY <1>1 DEF notifyVars, NotifyTypeOK
<1>2. CASE UNCHANGED vars
  BY <1>1, <1>2 DEF vars
<1>3. ASSUME NEW h \in Handler, SessionStep(h)
      PROVE  Same
  BY <1>3 DEF SessionStep, Chunk, StageChunk, Patch, PatchRefused, Tidy, Finish,
              TouchAfterApply, JobBeginAnswered, JobBeginCreates, JobBeginAllocates,
              JobApply, JobPatchApply, JobShow, JobHighlight, JobEnd
<1>4. ASSUME \/ \E h \in Handler :
                \/ \E t \in KnownTokens \cup {NoToken}, pinned \in BOOLEAN : Begin(h, t, pinned)
                \/ \E t \in KnownTokens, kind \in {"SHOW", "HIGHLIGHT", "END"} :
                     TokenRequest(h, kind, t)
                \/ RunJob(h) \/ RunJobFails(h) \/ JobDone(h) \/ JobRefused(h)
             \/ LeaseElapses \/ LeaseEnds \/ EndEnds
             \/ LeaseTaskDue \/ LeaseLooks \/ EndTaskDue \/ RebuildStarts \/ RebuildShows
      PROVE  Same
  BY <1>4 DEF Begin, TokenRequest, RunJob, RunJobFails, JobDone, JobRefused, LeaseElapses,
              LeaseEnds, EndEnds, LeaseTaskDue, LeaseLooks, EndTaskDue, RebuildStarts,
              RebuildShows
<1>5. CASE ConfigStep
  <2>1. UNCHANGED notifyVars /\ UNCHANGED connected /\ config_at' \in {"idle", "decoding"}
    BY <1>5 DEF ConfigStep, DecodeStarts, Parsed, PatchPrepared, DecodeRefused, Decoded
  <2> QED
    BY <2>1 DEF notifyVars, NotifyTypeOK
<1>6. CASE EndLooks \/ Cleanup
  BY <1>6 DEF EndLooks, Cleanup, NotifyTypeOK
<1>7. CASE LinkDrops \/ LinkDropAsksEnd \/ StoreLooksForPreview \/ StoreAsksEnd
  BY <1>7 DEF LinkDrops, LinkDropAsksEnd, StoreLooksForPreview, StoreAsksEnd, AsksEnd,
              NotifyTypeOK, Reason
<1>8. CASE StoreQueuesRebuild \/ \E c \in Config : Store(c)
  BY <1>8 DEF StoreQueuesRebuild, Store, NotifyTypeOK
<1>9. CASE ClientsLeave
  BY <1>9 DEF ClientsLeave, notifyVars, NotifyTypeOK
<1> QED
  BY <1>1, <1>2, <1>3, <1>4, <1>5, <1>6, <1>7, <1>8, <1>9, NextCases
     DEF SessionQuiet, NotifierStep

LEMMA InitType == Init => TypeOK
<1> SUFFICES ASSUME Init PROVE TypeOK
  OBVIOUS
<1> USE DEF Init
<1>1. SessionTypeOK
  BY ZeroInBounds, SessionAssumption DEF SessionInit, SessionTypeOK
<1>2. HandlerTypeOK
  <2>1. NoRequest \in Request
    BY ZeroInBounds DEF NoRequest, Request
  <2> QED
    BY <2>1 DEF HandlerTypeOK
<1>3. TaskTypeOK
  <2>1. NoEnding \in Ending
    BY DEF NoEnding, Ending
  <2>2. render_queue \in Seq(Item)
    <3>1. render_queue = <<>>
      OBVIOUS
    <3> QED
      BY <3>1
  <2> QED
    BY <2>1, <2>2 DEF TaskTypeOK
<1>4. ModelTypeOK /\ HostTypeOK /\ NotifyTypeOK
  BY DEF ModelTypeOK, HostTypeOK, NotifyTypeOK
<1> QED
  BY <1>1, <1>2, <1>3, <1>4 DEF TypeOK

LEMMA TypeStep == TypeOK /\ [Next]_vars => TypeOK'
  BY SessionTypeStep, HandlerTypeStep, TaskTypeStep, ModelHostTypeStep, NotifyTypeStep
     DEF TypeOK

\* Every variable keeps to its type, whatever the threads do (the state of
\* ui_preview_service.h and ui_preview_session.h).
THEOREM TypeCorrect == Spec => []TypeOK
  BY InitType, TypeStep, PTL DEF Spec

-----------------------------------------------------------------------------
\* What a step leaves alone when it neither moves a handler nor takes or gives
\* back is_applying_, and opens or closes no session.
ApplyQuiet ==
    /\ UNCHANGED <<at, req, job, is_applying, token>>
    /\ render_at' = "allocate" => render_at = "allocate"

LEMMA ApplyQuietKeeps == ApplyInv /\ ApplyQuiet => ApplyInv'
  BY DEF ApplyInv, ApplyQuiet, ApplyExclusive, ApplyKeepsItsSession, HandlersInStep,
         OpeningIsIdle, InApply, IsActive

\* Only the apply flag of the handler that moves may change.
Moves(h) == \A g \in Handler \ {h} : at'[g] = at[g] /\ req'[g] = req[g]

LEMMA WorksMoves ==
    ASSUME HandlerTypeOK, NEW h \in Handler, NEW kind, NEW t, NEW pinned, NEW r,
           Works(h, kind, t, pinned, r)
    PROVE  /\ Moves(h)
           /\ at'[h] = "submit"
           /\ req'[h].kind = kind /\ req'[h].token = t /\ req'[h].rev = r
           /\ job' = job
  BY DEF HandlerTypeOK, Works, Moves

LEMMA AnsweredMoves ==
    ASSUME HandlerTypeOK, NEW h \in Handler, at[h] \in {"submit", "wait"}, NEW answer,
           Answered(h, answer)
    PROVE  /\ Moves(h)
           /\ InApply(h)' <=> InApply(h)
           /\ InApply(h) => /\ req'[h].token = req[h].token
                            /\ req'[h].rev = req[h].rev
                            /\ req'[h].kind \in PatchJobs <=> req[h].kind \in PatchJobs
           /\ at'[h] \in {"submit", "tidy", "idle"}
           /\ at'[h] = "tidy" => req'[h].kind \in StageJobs \cup PatchJobs
  BY DEF HandlerTypeOK, Answered, Moves, InApply, StageJobs, PatchJobs, ConfigJobs,
         NoRequest, Request

\* A handler that moves within its apply, or outside one.
LEMMA MovesKeeps ==
    ASSUME ApplyInv, NEW h \in Handler, Moves(h), InApply(h)' <=> InApply(h),
           InApply(h) => req'[h].token = req[h].token,
           UNCHANGED <<is_applying, token>>
    PROVE  ApplyExclusive' /\ ApplyKeepsItsSession'
  BY DEF ApplyInv, Moves, InApply, ApplyExclusive, ApplyKeepsItsSession, IsActive

-----------------------------------------------------------------------------
\* The steps that are quiet in this sense.
LEMMA ApplyQuietSteps ==
    ASSUME \/ ConfigStep
           \/ \E h \in Handler :
                \/ \E t \in KnownTokens : PatchRefused(h, t)
                \/ JobBeginAnswered(h) \/ JobApply(h) \/ JobPatchApply(h) \/ JobRefused(h)
                \/ JobShow(h) \/ JobHighlight(h)
           \/ Cleanup \/ LeaseElapses \/ LeaseTaskDue \/ LeaseLooks \/ EndTaskDue \/ EndLooks
           \/ LinkDrops \/ (\E c \in Config : Store(c)) \/ NotifierStep
           \/ RebuildStarts \/ RebuildShows \/ ClientsLeave
           \/ UNCHANGED vars
    PROVE  ApplyQuiet
<1>1. CASE ConfigStep
  BY <1>1 DEF ConfigStep, DecodeStarts, Parsed, PatchPrepared, DecodeRefused, Decoded,
              handlerVars, taskVars, sessionVars, ApplyQuiet
<1>2. ASSUME NEW h \in Handler, NEW t \in KnownTokens, PatchRefused(h, t)
      PROVE  ApplyQuiet
  BY <1>2 DEF PatchRefused, Touch, Renewed, handlerVars, taskVars, sessionVars, ApplyQuiet
<1>3. ASSUME NEW h \in Handler,
             JobBeginAnswered(h) \/ JobRefused(h) \/ JobShow(h) \/ JobHighlight(h)
      PROVE  ApplyQuiet
  BY <1>3 DEF JobBeginAnswered, BeginRenews, BeginRefused, JobRefused, JobShow,
              JobHighlight, Touch, Renewed, handlerVars, sessionVars, ApplyQuiet
<1>4. ASSUME NEW h \in Handler, JobApply(h) \/ JobPatchApply(h)
      PROVE  ApplyQuiet
  BY <1>4 DEF JobApply, JobPatchApply, ApplyQuiet
<1>5. CASE Cleanup \/ LeaseElapses
  BY <1>5 DEF Cleanup, LeaseElapses, LeaseRunsOut, handlerVars, taskVars, ApplyQuiet
<1>6. CASE LeaseTaskDue \/ LeaseLooks \/ EndTaskDue \/ EndLooks
  BY <1>6 DEF LeaseTaskDue, LeaseLooks, EndTaskDue, EndLooks, sessionVars, handlerVars,
              ApplyQuiet
<1>7. CASE LinkDrops \/ (\E c \in Config : Store(c)) \/ NotifierStep
  BY <1>7 DEF LinkDrops, Store, NotifierStep, LinkDropAsksEnd, StoreLooksForPreview,
              StoreAsksEnd, StoreQueuesRebuild, sessionVars, handlerVars, taskVars, ApplyQuiet
<1>8. CASE RebuildStarts \/ RebuildShows \/ ClientsLeave \/ UNCHANGED vars
  BY <1>8 DEF RebuildStarts, RebuildShows, ClientsLeave, vars, sessionVars, handlerVars,
              taskVars, ApplyQuiet
<1> QED
  BY <1>1, <1>2, <1>3, <1>4, <1>5, <1>6, <1>7, <1>8

\* An end finds nothing being applied, and a session that opens none either:
\* no handler is in an apply before or after.
LEMMA ClosingKeeps ==
    ASSUME ApplyInv, ~is_applying, is_applying' = FALSE, UNCHANGED <<at, req, job>>
    PROVE  ApplyInv'
  BY DEF ApplyInv, ApplyExclusive, ApplyKeepsItsSession, HandlersInStep, OpeningIsIdle, InApply

\* A request that starts no apply, or the one that does.
LEMMA WorksKeeps ==
    ASSUME ApplyInv, HandlerTypeOK, NEW h \in Handler, at[h] = "idle",
           NEW kind, NEW t, NEW pinned, NEW r, Works(h, kind, t, pinned, r),
           UNCHANGED <<token, render_at>>,
           \/ kind \notin StageJobs \cup PatchJobs /\ UNCHANGED is_applying
           \/ ~is_applying /\ is_applying' = TRUE /\ kind \in StageJobs \cup PatchJobs
              /\ Holds(t) /\ render_at # "allocate"
    PROVE  ApplyInv'
<1> USE WorksMoves
<1>1. HandlersInStep'
  BY DEF ApplyInv, HandlersInStep, Moves
<1>2. CASE kind \notin StageJobs \cup PatchJobs /\ UNCHANGED is_applying
  <2>1. ~InApply(h) /\ ~InApply(h)'
    BY <1>2 DEF InApply
  <2> QED
    BY <1>1, <1>2, <2>1, MovesKeeps DEF ApplyInv, OpeningIsIdle
<1>3. CASE ~is_applying /\ is_applying' = TRUE /\ kind \in StageJobs \cup PatchJobs
           /\ Holds(t) /\ render_at # "allocate"
  <2>1. \A g \in Handler : InApply(g)' <=> g = h
    BY <1>3 DEF ApplyInv, ApplyExclusive, InApply, Moves
  <2> QED
    BY <1>1, <1>3, <2>1
       DEF ApplyInv, ApplyExclusive, ApplyKeepsItsSession, OpeningIsIdle, Holds, IsActive
<1> QED
  BY <1>2, <1>3

-----------------------------------------------------------------------------
LEMMA ApplyInvInit == Init => ApplyInv
  BY ServiceAssumption
     DEF Init, SessionInit, ApplyInv, ApplyExclusive, ApplyKeepsItsSession, HandlersInStep,
         OpeningIsIdle, InApply, NoRequest, StageJobs, PatchJobs

LEMMA ApplyInvStep ==
    ASSUME TypeOK, ApplyInv, [Next]_vars
    PROVE  ApplyInv'
<1> HandlerTypeOK
  BY DEF TypeOK
<1>1. ASSUME NEW h \in Handler, NEW t \in KnownTokens \cup {NoToken}, NEW pinned \in BOOLEAN,
             Begin(h, t, pinned)
      PROVE  ApplyInv'
  BY <1>1, WorksKeeps DEF Begin, Takes, StageJobs, PatchJobs, sessionVars, taskVars
<1>2. ASSUME NEW h \in Handler, NEW t \in KnownTokens,
             NEW kind \in {"SHOW", "HIGHLIGHT", "END"}, TokenRequest(h, kind, t)
      PROVE  ApplyInv'
  BY <1>2, WorksKeeps DEF TokenRequest, Takes, StageJobs, PatchJobs, sessionVars, taskVars
<1>3. ASSUME NEW h \in Handler, NEW t \in KnownTokens, NEW offset \in Nat, NEW n \in Nat,
             NEW head \in Headers \cup {NoHeader}, StageChunk(h, t, offset, n, head)
      PROVE  ApplyInv'
  <2>1. CASE StageRefused(t, offset, n, head) /\ UNCHANGED handlerVars
    BY <1>3, <2>1, ApplyQuietKeeps
       DEF StageChunk, StageRefused, Renewed, handlerVars, taskVars, ApplyQuiet
  <2>2. CASE StageTaken(t, offset, n, head)
    <3>1. /\ ~is_applying
          /\ Holds(t)
          /\ render_at # "allocate"
          /\ UNCHANGED <<token, render_at>>
      BY <1>3, <2>2 DEF StageChunk, StageTaken, StageKept, Renewed, taskVars, KnownTokens, Holds
    <3>2. CASE is_applying'
      <4>1. is_applying' = TRUE
        BY <2>2, <3>2 DEF StageTaken
      <4>2. Works(h, "PARSE", t, TRUE, 0) /\ at[h] = "idle"
        BY <1>3, <2>2, <3>1, <3>2
           DEF StageChunk, Takes, StageRefused, StageKept, StageTaken
      <4> QED
        BY <3>1, <4>1, <4>2, WorksKeeps DEF StageJobs
    <3>3. CASE ~is_applying'
      <4>1. is_applying' = is_applying
        BY <2>2, <3>1, <3>3 DEF StageTaken, TypeOK, SessionTypeOK
      <4>2. UNCHANGED handlerVars
        BY <1>3, <3>3 DEF StageChunk
      <4> QED
        BY <3>1, <4>1, <4>2, ApplyQuietKeeps DEF handlerVars, ApplyQuiet
    <3> QED
      BY <3>2, <3>3
  <2> QED
    BY <1>3, <2>1, <2>2 DEF StageChunk
<1>4. ASSUME NEW h \in Handler, NEW t \in KnownTokens, NEW r \in Revs, Patch(h, t, r)
      PROVE  ApplyInv'
  <2>1. /\ ~is_applying /\ is_applying' = TRUE
        /\ Holds(t) /\ render_at # "allocate"
        /\ UNCHANGED <<token, render_at>>
    BY <1>4 DEF Patch, BeginPatch, PatchBusy, Renewed, taskVars, KnownTokens, Holds
  <2> QED
    BY <1>4, <2>1, WorksKeeps DEF Patch, Takes, PatchJobs
<1>5. ASSUME NEW h \in Handler, RunJob(h)
      PROVE  ApplyInv'
  <2>1. Moves(h) /\ (InApply(h)' <=> InApply(h)) /\ at'[h] = "wait" /\ UNCHANGED req
    BY <1>5 DEF RunJob, HandlerTypeOK, Moves, InApply
  <2>2. UNCHANGED <<is_applying, token, render_at>>
    BY <1>5 DEF RunJob, sessionVars
  <2>3. HandlersInStep'
    BY <1>5, <2>1, ServiceAssumption DEF RunJob, ApplyInv, HandlersInStep, Moves
  <2> QED
    BY <2>1, <2>2, <2>3, MovesKeeps DEF ApplyInv, OpeningIsIdle
<1>6. ASSUME NEW h \in Handler, RunJobFails(h) \/ JobDone(h)
      PROVE  ApplyInv'
  <2>1. PICK answer : Answered(h, answer)
    BY <1>6 DEF RunJobFails, JobDone
  <2>2. at[h] \in {"submit", "wait"} /\ UNCHANGED <<is_applying, token, render_at>>
    BY <1>6 DEF RunJobFails, JobDone, sessionVars, taskVars
  <2>3. job' = NoHandler /\ job \in {NoHandler, h}
    BY <1>6 DEF RunJobFails, JobDone
  <2>4. HandlersInStep'
    BY <2>1, <2>2, <2>3, AnsweredMoves, ServiceAssumption DEF ApplyInv, HandlersInStep, Moves
  <2> QED
    BY <2>1, <2>2, <2>4, AnsweredMoves, MovesKeeps DEF ApplyInv, OpeningIsIdle
<1>7. ASSUME NEW h \in Handler, Tidy(h)
      PROVE  ApplyInv'
  <2>1. Moves(h) /\ (InApply(h)' <=> InApply(h)) /\ at'[h] = "finish" /\ UNCHANGED <<req, job>>
    BY <1>7 DEF Tidy, HandlerTypeOK, Moves, InApply
  <2>2. UNCHANGED <<is_applying, token, render_at>>
    BY <1>7 DEF Tidy, taskVars
  <2>3. HandlersInStep'
    BY <1>7, <2>1 DEF Tidy, ApplyInv, HandlersInStep, Moves
  <2> QED
    BY <2>1, <2>2, <2>3, MovesKeeps DEF ApplyInv, OpeningIsIdle
<1>8. ASSUME NEW h \in Handler, Finish(h)
      PROVE  ApplyInv'
  <2>1. Moves(h) /\ at'[h] = "touch" /\ UNCHANGED <<req, job>>
    BY <1>8 DEF Finish, HandlerTypeOK, Moves
  <2>2. is_applying' = FALSE /\ UNCHANGED <<token, render_at>>
    BY <1>8 DEF Finish, FinishApply, taskVars
  <2>3. InApply(h)
    BY <1>8 DEF Finish, ApplyInv, HandlersInStep, InApply
  <2>4. \A g \in Handler : ~InApply(g)'
    BY <2>1, <2>3 DEF ApplyInv, ApplyExclusive, InApply, Moves
  <2>5. HandlersInStep'
    BY <1>8, <2>1 DEF Finish, ApplyInv, HandlersInStep, Moves
  <2> QED
    BY <2>1, <2>2, <2>4, <2>5
       DEF ApplyInv, ApplyExclusive, ApplyKeepsItsSession, OpeningIsIdle
<1>9. ASSUME NEW h \in Handler, TouchAfterApply(h)
      PROVE  ApplyInv'
  <2>1. Moves(h) /\ at'[h] = "idle" /\ UNCHANGED job /\ ~InApply(h) /\ ~InApply(h)'
    BY <1>9 DEF TouchAfterApply, HandlerTypeOK, Moves, InApply
  <2>2. UNCHANGED <<is_applying, token, render_at>>
    BY <1>9 DEF TouchAfterApply, Touch, Renewed, sessionVars, taskVars
  <2>3. HandlersInStep'
    BY <1>9, <2>1 DEF TouchAfterApply, ApplyInv, HandlersInStep, Moves
  <2> QED
    BY <2>1, <2>2, <2>3, MovesKeeps DEF ApplyInv, OpeningIsIdle
<1>10. ASSUME NEW h \in Handler, NEW new \in Token \ CarriedTokens, JobBeginCreates(h, new)
       PROVE  ApplyInv'
  <2>1. ~is_applying
    BY <1>10 DEF JobBeginCreates, BeginCreates, ApplyInv, ApplyExclusive, ApplyKeepsItsSession
  <2> QED
    BY <1>10, <2>1, ClosingKeeps DEF JobBeginCreates, BeginCreates, handlerVars
<1>11. ASSUME NEW h \in Handler, JobBeginAllocates(h)
       PROVE  ApplyInv'
  <2>1. ~is_applying
    BY <1>11 DEF JobBeginAllocates, ApplyInv, OpeningIsIdle
  <2>2. is_applying' = FALSE
    BY <1>11, <2>1 DEF JobBeginAllocates, AllocateBuffer, CloseLocked, TypeOK, SessionTypeOK
  <2> QED
    BY <1>11, <2>1, <2>2, ClosingKeeps DEF JobBeginAllocates
<1>12. ASSUME \/ \E h \in Handler : JobEnd(h)
              \/ LeaseEnds \/ EndEnds
       PROVE  ApplyInv'
  <2>1. UNCHANGED <<at, req, job>>
    BY <1>12 DEF JobEnd, LeaseEnds, EndEnds, handlerVars
  <2>2. CASE \E who : Ends(who)
    BY <2>1, <2>2, ClosingKeeps DEF Ends, CloseLocked
  <2>3. CASE ~\E who : Ends(who)
    BY <1>12, <2>1, <2>3, ApplyQuietKeeps
       DEF JobEnd, LeaseEnds, EndEnds, Touch, Renewed, sessionVars, ApplyQuiet
  <2> QED
    BY <2>2, <2>3
<1> QED
  BY <1>1, <1>2, <1>3, <1>4, <1>5, <1>6, <1>7, <1>8, <1>9, <1>10, <1>11, <1>12,
     NextCases, ApplyQuietSteps, ApplyQuietKeeps DEF SessionQuiet, SessionStep, Chunk

-----------------------------------------------------------------------------
\* is_applying_ works as a lock (ui_preview_session.h:105).
THEOREM ApplyExclusiveHolds == Spec => []ApplyExclusive
<1>1. ApplyInv => ApplyExclusive
  BY DEF ApplyInv
<1> QED
  BY <1>1, InitType, TypeStep, ApplyInvInit, ApplyInvStep, PTL DEF Spec

\* No end, by whoever asked for it, takes the session from under an apply
\* (UiPreviewSession::End()).
THEOREM ApplyKeepsItsSessionHolds == Spec => []ApplyKeepsItsSession
<1>1. ApplyInv => ApplyKeepsItsSession
  BY DEF ApplyInv
<1> QED
  BY <1>1, InitType, TypeStep, ApplyInvInit, ApplyInvStep, PTL DEF Spec

-----------------------------------------------------------------------------
\* The steps that leave the session's transfer and revision alone.
RevQuiet == UNCHANGED <<token, rev, capacity, transferVars>>

LEMMA RevQuietSteps ==
    ASSUME \/ SessionQuiet
           \/ \E h \in Handler :
                \/ \E t \in KnownTokens, r \in Revs : Patch(h, t, r)
                \/ \E t \in KnownTokens : PatchRefused(h, t)
                \/ Finish(h) \/ TouchAfterApply(h) \/ JobBeginAnswered(h)
                \/ JobShow(h) \/ JobHighlight(h)
           \/ Cleanup \/ LeaseElapses
           \/ UNCHANGED vars
    PROVE  RevQuiet
<1> USE DEF RevQuiet
<1>1. CASE SessionQuiet \/ UNCHANGED vars
  BY <1>1, SessionQuietKeeps DEF sessionVars, vars
<1>2. ASSUME NEW h \in Handler, NEW t \in KnownTokens, NEW r \in Revs, Patch(h, t, r)
      PROVE  RevQuiet
  BY <1>2 DEF Patch, BeginPatch, Renewed
<1>3. ASSUME NEW h \in Handler, NEW t \in KnownTokens, PatchRefused(h, t)
      PROVE  RevQuiet
  BY <1>3 DEF PatchRefused, Touch, Renewed, sessionVars
<1>4. ASSUME NEW h \in Handler, Finish(h) \/ TouchAfterApply(h) \/ JobBeginAnswered(h)
      PROVE  RevQuiet
  BY <1>4 DEF Finish, FinishApply, TouchAfterApply, Touch, Renewed, sessionVars,
              JobBeginAnswered, BeginRenews, BeginRefused
<1>5. ASSUME NEW h \in Handler, JobShow(h) \/ JobHighlight(h)
      PROVE  RevQuiet
  BY <1>5 DEF JobShow, JobHighlight, Touch, Renewed, sessionVars
<1>6. CASE Cleanup \/ LeaseElapses
  BY <1>6 DEF Cleanup, LeaseElapses, LeaseRunsOut
<1> QED
  BY <1>1, <1>2, <1>3, <1>4, <1>5, <1>6

\* The steps that close the session, or were to but found it applying.
Closings ==
    \/ \E h \in Handler : JobEnd(h) \/ JobBeginAllocates(h)
    \/ LeaseEnds \/ EndEnds

LEMMA ClosingsClose ==
    ASSUME Closings
    PROVE  CloseLocked \/ RevQuiet \/ \E h \in Handler : JobBeginAllocates(h) /\ AllocateBuffer
<1>1. CASE LeaseEnds \/ EndEnds
  BY <1>1 DEF LeaseEnds, EndEnds, Ends, sessionVars, RevQuiet
<1>2. ASSUME NEW h \in Handler, JobEnd(h)
      PROVE  CloseLocked \/ RevQuiet
  BY <1>2 DEF JobEnd, Ends, Touch, Renewed, sessionVars, RevQuiet
<1>3. ASSUME NEW h \in Handler, JobBeginAllocates(h)
      PROVE  CloseLocked \/ AllocateBuffer
  BY <1>3 DEF JobBeginAllocates
<1> QED
  BY <1>1, <1>2, <1>3 DEF Closings

\* The others.
LEMMA RevCases ==
    [Next]_vars => \/ RevQuiet
                   \/ Closings
                   \/ \E h \in Handler :
                        \/ Chunk(h) \/ Tidy(h) \/ JobApply(h) \/ JobPatchApply(h)
                        \/ \E new \in Token \ CarriedTokens : JobBeginCreates(h, new)
  BY NextCases, RevQuietSteps DEF SessionStep, Closings


-----------------------------------------------------------------------------
\* A transfer keeps to its session and its buffer.
LEMMA TransferStep ==
    ASSUME TypeOK, TransferFits, [Next]_vars
    PROVE  TransferFits'
<1> SessionTypeOK
  BY DEF TypeOK
<1> USE DEF TransferFits, transferVars
<1>1. CASE RevQuiet
  BY <1>1 DEF RevQuiet, IsActive
<1>2. CASE Closings
  <2>1. CASE CloseLocked
    BY <2>1 DEF CloseLocked
  <2>2. CASE AllocateBuffer
    BY <2>2, SessionAssumption DEF AllocateBuffer, IsActive, SessionTypeOK
  <2> QED
    BY <1>1, <1>2, <2>1, <2>2, ClosingsClose
<1>3. ASSUME NEW h \in Handler, Chunk(h)
      PROVE  TransferFits'
  <2>1. PICK t \in KnownTokens, offset \in Nat, n \in Nat, head \in Headers \cup {NoHeader} :
            StageRefused(t, offset, n, head) \/ StageTaken(t, offset, n, head)
    BY <1>3 DEF Chunk, StageChunk
  <2>2. CASE StageRefused(t, offset, n, head)
    BY <2>2 DEF StageRefused, Renewed, Holds, IsActive
  <2>3. CASE StageTaken(t, offset, n, head)
    <3>1. IsActive' /\ capacity' = capacity /\ received' <= length'
      BY <2>3, StageTakenType DEF StageTaken, Renewed, Holds, IsActive
    <3>2. length' <= capacity
      <4>1. CASE offset = 0
        <5>1. head \in Headers /\ ~(head.length > capacity) /\ length' = head.length
          BY <2>3, <4>1 DEF StageTaken, StageKept, StartRefused, LengthAt
        <5>2. head.length \in Int /\ capacity \in Int
          BY <5>1, SessionAssumption DEF Headers, SessionTypeOK
        <5> QED
          BY <5>1, <5>2
      <4>2. CASE offset # 0
        BY <2>3, <4>2 DEF StageTaken, StageKept, LengthAt
      <4> QED
        BY <4>1, <4>2
    <3> QED
      BY <3>1, <3>2
  <2> QED
    BY <2>1, <2>2, <2>3
<1>4. ASSUME NEW h \in Handler, Tidy(h)
      PROVE  TransferFits'
  BY <1>4 DEF Tidy, DropStage, IsActive
<1>5. ASSUME NEW h \in Handler, JobApply(h)
      PROVE  TransferFits'
  BY <1>5 DEF JobApply, CommitStage, IsActive
<1>6. ASSUME NEW h \in Handler, JobPatchApply(h)
      PROVE  TransferFits'
  BY <1>6 DEF JobPatchApply, IsActive
<1>7. ASSUME NEW h \in Handler, NEW new \in Token \ CarriedTokens, JobBeginCreates(h, new)
      PROVE  TransferFits'
  BY <1>7 DEF JobBeginCreates, BeginCreates
<1> QED
  BY <1>1, <1>2, <1>3, <1>4, <1>5, <1>6, <1>7, RevCases

\* No chunk is copied past the buffer, and none into one an end has freed
\* (UiPreviewSession::Stage() and CloseLocked()).
THEOREM TransferFitsHolds == Spec => []TransferFits
<1>1. Init => TransferFits
  BY DEF Init, SessionInit, TransferFits
<1> QED
  BY <1>1, InitType, TypeStep, TransferStep, PTL DEF Spec


-----------------------------------------------------------------------------
\* The handler of a patch that is under way after a step has either just begun
\* it, or was in it before, at the same revision.
StillPatching(g) ==
    /\ InApply(g)
    /\ req[g].kind \in PatchJobs
    /\ req'[g].rev = req[g].rev

BeginsPatching(g) == \E t \in KnownTokens, r \in Revs : Patch(g, t, r)

LEMMA PatchingCases ==
    ASSUME TypeOK, ApplyInv, [Next]_vars, NEW g \in Handler, InApply(g)',
           req'[g].kind \in PatchJobs
    PROVE  StillPatching(g) \/ BeginsPatching(g)
<1> HandlerTypeOK
  BY DEF TypeOK
<1>1. ASSUME UNCHANGED <<at, req>>
      PROVE  StillPatching(g)
  BY <1>1 DEF StillPatching, InApply
<1>2. ASSUME NEW h \in Handler, Moves(h), h # g
      PROVE  StillPatching(g)
  BY <1>2 DEF StillPatching, InApply, Moves
<1>3. ASSUME NEW h \in Handler, NEW kind, NEW t, NEW pinned, NEW r,
             Works(h, kind, t, pinned, r), kind \notin PatchJobs
      PROVE  StillPatching(g)
  BY <1>2, <1>3, WorksMoves
<1>4. ASSUME NEW h \in Handler, NEW t \in KnownTokens \cup {NoToken}, NEW pinned \in BOOLEAN,
             Begin(h, t, pinned)
      PROVE  StillPatching(g)
  BY <1>3, <1>4 DEF Begin, PatchJobs
<1>5. ASSUME NEW h \in Handler, NEW t \in KnownTokens,
             NEW kind \in {"SHOW", "HIGHLIGHT", "END"}, TokenRequest(h, kind, t)
      PROVE  StillPatching(g)
  BY <1>3, <1>5 DEF TokenRequest, PatchJobs
<1>6. ASSUME NEW h \in Handler, Chunk(h)
      PROVE  StillPatching(g)
  <2>1. PICK t \in KnownTokens : \/ UNCHANGED handlerVars
                                 \/ Works(h, "PARSE", t, TRUE, 0)
    BY <1>6 DEF Chunk, StageChunk
  <2>2. CASE UNCHANGED handlerVars
    BY <1>1, <2>2 DEF handlerVars
  <2>3. CASE Works(h, "PARSE", t, TRUE, 0)
    <3>1. "PARSE" \notin PatchJobs
      BY DEF PatchJobs
    <3> QED
      BY <1>3, <2>3, <3>1
  <2> QED
    BY <2>1, <2>2, <2>3
<1>7. ASSUME NEW h \in Handler, BeginsPatching(h)
      PROVE  StillPatching(g) \/ BeginsPatching(g)
  BY <1>2, <1>7, WorksMoves DEF BeginsPatching, Patch
<1>8. ASSUME NEW h \in Handler, RunJob(h) \/ Tidy(h) \/ Finish(h)
      PROVE  StillPatching(g)
  BY <1>8 DEF RunJob, Tidy, Finish, HandlerTypeOK, StillPatching, InApply
<1>9. ASSUME NEW h \in Handler, RunJobFails(h) \/ JobDone(h)
      PROVE  StillPatching(g)
  <2>1. PICK answer : Answered(h, answer)
    BY <1>9 DEF RunJobFails, JobDone
  <2>2. at[h] \in {"submit", "wait"}
    BY <1>9 DEF RunJobFails, JobDone
  <2> QED
    BY <1>2, <2>1, <2>2, AnsweredMoves DEF StillPatching
<1>10. ASSUME NEW h \in Handler, TouchAfterApply(h)
       PROVE  StillPatching(g)
  BY <1>10 DEF TouchAfterApply, HandlerTypeOK, NoRequest, PatchJobs, StillPatching, InApply
<1>11. ASSUME \/ \E h \in Handler :
                    \/ JobEnd(h) \/ JobBeginAllocates(h)
                    \/ \E new \in Token \ CarriedTokens : JobBeginCreates(h, new)
              \/ LeaseEnds \/ EndEnds
       PROVE  UNCHANGED <<at, req>>
  BY <1>11 DEF JobEnd, JobBeginAllocates, JobBeginCreates, LeaseEnds, EndEnds, handlerVars
<1> QED
  BY <1>1, <1>4, <1>5, <1>6, <1>7, <1>8, <1>9, <1>10, <1>11, NextCases, ApplyQuietSteps
     DEF SessionQuiet, SessionStep, ApplyQuiet, BeginsPatching

\* Revisions are integers, which the provers would otherwise not know.
LEMMA RevsAreIntegers ==
    ASSUME TypeOK
    PROVE  /\ rev \in Int
           /\ requested_rev \in Int
           /\ \A h \in Handler : req[h].rev \in Int
<1>1. Revs \subseteq Int /\ NoRev \in Int
  BY SessionAssumption DEF Revs, NoRev
<1>2. \A h \in Handler : req[h].rev \in Revs
  BY DEF TypeOK, HandlerTypeOK, Request
<1> QED
  BY <1>1, <1>2 DEF TypeOK, SessionTypeOK


\* The job that runs is of a handler that is in its request.
LEMMA JobInApply ==
    ASSUME ApplyInv, NEW h \in Handler, JobApply(h) \/ JobPatchApply(h)
    PROVE  /\ InApply(h)
           /\ \A g \in Handler : InApply(g) => g = h
           /\ JobApply(h) => req[h].kind \notin PatchJobs
<1>1. job = h /\ req[h].kind \in {"APPLY", "PATCH_APPLY"}
  BY DEF JobApply, JobPatchApply, RunsJob
<1>2. at[h] = "wait"
  BY <1>1 DEF ApplyInv, HandlersInStep
<1>3. InApply(h)
  BY <1>1, <1>2 DEF InApply, StageJobs, PatchJobs
<1>4. \A g \in Handler : InApply(g) => g = h
  BY <1>3 DEF ApplyInv, ApplyExclusive
<1>5. JobApply(h) => req[h].kind \notin PatchJobs
  BY DEF JobApply, RunsJob, PatchJobs
<1> QED
  BY <1>3, <1>4, <1>5

LEMMA RevInvStep ==
    ASSUME TypeOK, ApplyInv, RevInv, [Next]_vars
    PROVE  RevInv'
<1> SessionTypeOK
  BY DEF TypeOK
<1> USE DEF transferVars
<1>1. ASSUME NEW h \in Handler, BeginsPatching(h)
      PROVE  RevInv'
  <2>1. PICK t \in KnownTokens, r \in Revs : Patch(h, t, r)
    BY <1>1 DEF BeginsPatching
  <2>2. r > rev /\ ~is_staging /\ ~is_applying /\ UNCHANGED <<rev, is_staging, requested_rev>>
    BY <2>1 DEF Patch, BeginPatch, PatchBusy, Renewed
  <2>3. req'[h].rev = r /\ Moves(h)
    BY <2>1, WorksMoves DEF Patch, TypeOK
  <2>4. ASSUME NEW g \in Handler, InApply(g)' PROVE g = h
    BY <2>2, <2>3, <2>4 DEF ApplyInv, ApplyExclusive, Moves, InApply
  <2>5. r \in Int
    BY SessionAssumption DEF Revs
  <2> QED
    BY <2>2, <2>3, <2>4, <2>5, RevsAreIntegers DEF RevInv
<1>2. CASE ~\E h \in Handler : BeginsPatching(h)
  <2> DEFINE Patching(g) == InApply(g) /\ req[g].kind \in PatchJobs
  <2>1. ASSUME NEW g \in Handler, Patching(g)' PROVE StillPatching(g)
    <3>1. InApply(g)' /\ req'[g].kind \in PatchJobs
      BY <2>1
    <3>2. StillPatching(g) \/ BeginsPatching(g)
      BY <3>1, PatchingCases
    <3> QED
      BY <1>2, <3>2
  <2>2. ASSUME ~is_applying PROVE \A g \in Handler : ~Patching(g)'
    BY <2>1, <2>2 DEF ApplyInv, ApplyExclusive, StillPatching
  <2>3. CASE RevQuiet
    BY <2>1, <2>3 DEF RevQuiet, RevInv, StillPatching
  <2>4. CASE Closings
    <3>1. CASE CloseLocked
      <4>1. \A g \in Handler : ~InApply(g)'
        BY <3>1, ApplyInvStep DEF CloseLocked, ApplyInv, ApplyKeepsItsSession, IsActive
      <4> QED
        BY <3>1, <4>1 DEF CloseLocked, RevInv
    <3>2. CASE AllocateBuffer
      BY <2>1, <3>2 DEF AllocateBuffer, RevInv, StillPatching
    <3> QED
      BY <2>3, <2>4, <3>1, <3>2, ClosingsClose
  <2>5. ASSUME NEW h \in Handler, Chunk(h)
        PROVE  RevInv'
    <3>1. PICK t \in KnownTokens, offset \in Nat, n \in Nat, head \in Headers \cup {NoHeader} :
              StageRefused(t, offset, n, head) \/ StageTaken(t, offset, n, head)
      BY <2>5 DEF Chunk, StageChunk
    <3>2. CASE StageRefused(t, offset, n, head)
      <4>1. rev' = rev /\ (~is_staging' \/ UNCHANGED transferVars)
        BY <3>2 DEF StageRefused
      <4> QED
        BY <2>1, <4>1 DEF RevInv, StillPatching
    <3>3. CASE StageTaken(t, offset, n, head)
      <4>1. ~is_applying /\ rev' = rev
        BY <3>3 DEF StageTaken, StageKept
      <4>2. requested_rev' # NoRev => requested_rev' > rev
        <5>1. CASE offset = 0
          <6>1. head \in Headers /\ requested_rev' = head.rev
                /\ ~(head.rev # NoRev /\ head.rev <= rev)
            BY <3>3, <5>1 DEF StageTaken, StageKept, StartRefused, RevAt
          <6>2. head.rev \in Int
            BY <6>1, SessionAssumption DEF Headers, Revs, NoRev
          <6> QED
            BY <6>1, <6>2, RevsAreIntegers
        <5>2. CASE offset # 0
          BY <3>3, <5>2 DEF StageTaken, StageKept, RevAt, RevInv
        <5> QED
          BY <5>1, <5>2
      <4> QED
        BY <2>2, <4>1, <4>2 DEF RevInv
    <3> QED
      BY <3>1, <3>2, <3>3
  <2>6. ASSUME NEW h \in Handler, Tidy(h)
        PROVE  RevInv'
    <3>1. rev' = rev /\ (~is_staging' \/ UNCHANGED transferVars)
      BY <2>6 DEF Tidy, DropStage
    <3> QED
      BY <2>1, <3>1 DEF RevInv, StillPatching
  <2>7. ASSUME NEW h \in Handler, JobApply(h)
        PROVE  RevInv'
    <3>1. \A g \in Handler : ~Patching(g)'
      BY <2>1, <2>7, JobInApply DEF StillPatching
    <3>2. ~is_staging' \/ UNCHANGED <<rev, transferVars>>
      BY <2>7 DEF JobApply, CommitStage
    <3> QED
      BY <3>1, <3>2 DEF RevInv
  <2>8. ASSUME NEW h \in Handler, JobPatchApply(h)
        PROVE  RevInv'
    <3>1. /\ \A g \in Handler : Patching(g)' => g = h
          /\ req' = req /\ InApply(h) /\ req[h].kind \in PatchJobs
      BY <2>1, <2>8, JobInApply DEF StillPatching, JobPatchApply, RunsJob, PatchJobs
    <3>2. UNCHANGED transferVars /\ ~is_staging /\ (rev' = rev \/ rev' = req[h].rev)
      BY <2>8, <3>1 DEF JobPatchApply, CommitPatch, RevInv
    <3> QED
      BY <3>1, <3>2, RevsAreIntegers DEF RevInv
  <2>9. ASSUME NEW h \in Handler, NEW new \in Token \ CarriedTokens, JobBeginCreates(h, new)
        PROVE  RevInv'
    <3>1. ~is_applying
      BY <2>9 DEF JobBeginCreates, BeginCreates, ApplyInv, ApplyExclusive, ApplyKeepsItsSession
    <3> QED
      BY <2>2, <2>9, <3>1 DEF JobBeginCreates, BeginCreates, RevInv
  <2> QED
    BY <2>3, <2>4, <2>5, <2>6, <2>7, <2>8, <2>9, RevCases
<1> QED
  BY <1>1, <1>2


-----------------------------------------------------------------------------
\* Within a session the revision goes forward, or wraps after the last one:
\* CommitStage() counts on, CommitPatch() takes one past what BeginPatch() saw.
LEMMA RevStep ==
    ASSUME TypeOK, ApplyInv, RevInv, [Next]_vars, IsActive, token' = token
    PROVE  rev' >= rev \/ rev = MaxRev
<1>1. rev' = rev => rev' >= rev
  BY RevsAreIntegers
<1>2. CASE RevQuiet \/ Closings
  <2>1. ~CloseLocked
    BY DEF CloseLocked, IsActive
  <2> QED
    BY <1>1, <1>2, <2>1, ClosingsClose DEF RevQuiet, AllocateBuffer
<1>3. ASSUME NEW h \in Handler, Chunk(h) \/ Tidy(h)
      PROVE  rev' = rev
  <2>1. CASE Chunk(h)
    <3>1. PICK t \in KnownTokens, offset \in Nat, n \in Nat, head \in Headers \cup {NoHeader} :
              StageRefused(t, offset, n, head) \/ StageTaken(t, offset, n, head)
      BY <2>1 DEF Chunk, StageChunk
    <3> QED
      BY <3>1 DEF StageRefused, StageTaken
  <2>2. CASE Tidy(h)
    BY <2>2 DEF Tidy
  <2> QED
    BY <1>3, <2>1, <2>2
<1>4. ASSUME NEW h \in Handler, JobApply(h)
      PROVE  rev' >= rev \/ rev = MaxRev
  <2>1. rev' = rev \/ rev' = StageRev
    BY <1>4 DEF JobApply, CommitStage
  <2>2. StageRev >= rev \/ rev = MaxRev
    <3>1. StageRev \in Revs /\ (StageRev > rev \/ rev = MaxRev)
      BY StageRevForward DEF TypeOK, SessionTypeOK
    <3>2. StageRev \in Int
      BY <3>1, SessionAssumption DEF Revs
    <3> QED
      BY <3>1, <3>2, RevsAreIntegers
  <2> QED
    BY <1>1, <2>1, <2>2
<1>5. ASSUME NEW h \in Handler, JobPatchApply(h)
      PROVE  rev' >= rev
  <2>1. rev' = rev \/ rev' = req[h].rev
    BY <1>5 DEF JobPatchApply, CommitPatch
  <2>2. req[h].rev >= rev
    BY <1>5, JobInApply DEF RevInv, JobPatchApply, RunsJob, PatchJobs
  <2> QED
    BY <1>1, <2>1, <2>2
<1>6. ASSUME NEW h \in Handler, NEW new \in Token \ CarriedTokens, JobBeginCreates(h, new)
      PROVE  FALSE
  BY <1>6 DEF JobBeginCreates, BeginCreates
<1> QED
  BY <1>1, <1>2, <1>3, <1>4, <1>5, <1>6, RevCases

\* The revisions of a session go forward (rev_, ui_preview_session.cpp:202-208).
THEOREM RevGoesForwardHolds == Spec => RevGoesForward
<1>1. Init => RevInv
  BY DEF Init, SessionInit, RevInv, InApply, NoRequest, PatchJobs
<1>2. TypeOK /\ ApplyInv /\ RevInv /\ [Next]_vars
         => [IsActive /\ token' = token => rev' >= rev \/ rev = MaxRev]_vars
  BY RevStep
<1> QED
  BY <1>1, <1>2, InitType, TypeStep, ApplyInvInit, ApplyInvStep, RevInvStep, PTL
     DEF Spec, RevGoesForward

-----------------------------------------------------------------------------
\* The render work queue: an item that is queued at most once is not queued while it
\* runs.
Has(queue, item) == \E i \in DOMAIN queue : queue[i] = item
HasOnce(queue, item) == \A i, j \in DOMAIN queue : queue[i] = item /\ queue[j] = item => i = j

\* The render thread has the job that runs still to run, or to answer.
Owed ==
    \/ Has(render_queue, "job")
    \/ render_at = "allocate"
    \/ render_at = "cleanup" /\ ending.by = "client"

\* A job is queued once, and from then on until it is answered its handler waits for
\* it, and nothing else answers the handler.
JobIsAwaited ==
    /\ HasOnce(render_queue, "job")
    /\ Has(render_queue, "job") =>
          render_at # "allocate" /\ ~(render_at = "cleanup" /\ ending.by = "client")
    /\ Owed => /\ job # NoHandler
               /\ result = "none"
               /\ \A h \in Handler : job = h => req[h].kind \in RenderJobs
    /\ job = NoHandler => result = "none"

RebuildInv == HasOnce(render_queue, "rebuild") /\ RebuildIsQueued

\* An end that was asked for is on its way whether or not a session is open, unless
\* the cleanup of one is to answer it.
EndIsDue ==
    \/ end_armed
    \/ Has(render_queue, "end")
    \/ render_at = "end" /\ ending.by \in {"link", "stored"}

AskedInv ==
    /\ pending_end # {} => EndIsDue \/ render_at = "cleanup"
    /\ render_at = "cleanup" => ~IsActive

\* A session that is not open yet, or is closed and cleaned up, has left nothing.
Clean == ~is_nav_pinned /\ ~is_outlined /\ staged = NoConfig

CleanInv ==
    /\ (~IsActive /\ render_at # "cleanup") \/ render_at = "allocate" => Clean
    /\ render_at = "allocate" => IsActive

\* What no store has asked for.
NothingStored ==
    /\ store_at = "idle"
    /\ ~is_reconfigure_queued
    /\ render_at # "rebuild"
    /\ "STORED" \notin pending_end
    /\ ending.by # "stored"

\* A patched configuration is there only while a patch is under way, and its plan
\* starts from the staged one until the job that applies it has run.
PlanIsOfStaged ==
    patched # NoConfig =>
        \E h \in Handler :
            /\ InApply(h)
            /\ req[h].kind \in PatchJobs
            /\ \/ at[h] \in {"submit", "wait"} /\ plan_base = staged
               \/ at[h] = "wait" /\ req[h].kind = "PATCH_APPLY" /\ result # "none"
               \/ at[h] = "tidy"

\* Screens that are not the stored ones are marked as replaced, or about to go.
ReplacedIsMarked ==
    /\ \/ screens \in {stored, Broken}
       \/ IsActive /\ has_applied /\ render_at # "allocate"
       \/ render_at = "cleanup" /\ ending.replaced
    /\ staged # NoConfig => has_applied \/ render_at = "cleanup"

ShownInv == NothingStored /\ PlanIsOfStaged /\ ReplacedIsMarked /\ StagedIsShown

-----------------------------------------------------------------------------
\* What becomes of an item when another one is queued, taken or cancelled.
Kept(item) ==
    /\ Has(render_queue', item) <=> Has(render_queue, item)
    /\ HasOnce(render_queue, item) => HasOnce(render_queue', item)

LEMMA RunsKeeps ==
    ASSUME render_queue \in Seq(Item), NEW item, Runs(item)
    PROVE  /\ \A other : other # item => Kept(other)
           /\ HasOnce(render_queue, item) =>
                ~Has(render_queue', item) /\ HasOnce(render_queue', item)
           /\ Has(render_queue, item)
<1> DEFINE q == render_queue
<1>1. q # <<>> /\ q[1] = item /\ render_queue' = Tail(q) /\ Len(q) \in Nat \ {0}
  BY DEF Runs
<1>2. /\ DOMAIN q = 1 .. Len(q)
      /\ DOMAIN Tail(q) = 1 .. Len(q) - 1
      /\ \A i \in 1 .. Len(q) - 1 : Tail(q)[i] = q[i + 1]
  BY <1>1
<1>3. \A i \in DOMAIN Tail(q) : i + 1 \in DOMAIN q /\ i + 1 # 1 /\ Tail(q)[i] = q[i + 1]
  BY <1>1, <1>2
<1>4. \A i \in DOMAIN q : i # 1 => i - 1 \in DOMAIN Tail(q) /\ Tail(q)[i - 1] = q[i]
  BY <1>1, <1>2
<1>5. ASSUME NEW other, other # item
      PROVE  Kept(other)
  <2>1. Has(Tail(q), other) <=> Has(q, other)
    BY <1>1, <1>3, <1>4, <1>5 DEF Has
  <2>2. HasOnce(q, other) => HasOnce(Tail(q), other)
    BY <1>1, <1>2, <1>3 DEF HasOnce
  <2> QED
    BY <1>1, <2>1, <2>2 DEF Kept
<1>6. HasOnce(q, item) => ~Has(Tail(q), item)
  BY <1>1, <1>2, <1>3 DEF HasOnce, Has
<1>7. 1 \in DOMAIN q
  BY <1>1, <1>2
<1> QED
  BY <1>1, <1>5, <1>6, <1>7 DEF Has, HasOnce

LEMMA AppendKeeps ==
    ASSUME render_queue \in Seq(Item), NEW item, render_queue' = Append(render_queue, item)
    PROVE  /\ \A other : other # item => Kept(other)
           /\ ~Has(render_queue, item) => HasOnce(render_queue', item)
           /\ Has(render_queue', item)
<1> DEFINE q == render_queue
<1>1. /\ DOMAIN q = 1 .. Len(q)
      /\ DOMAIN Append(q, item) = 1 .. Len(q) + 1
      /\ \A i \in 1 .. Len(q) : Append(q, item)[i] = q[i]
      /\ Append(q, item)[Len(q) + 1] = item
      /\ Len(q) \in Nat
  OBVIOUS
<1>2. \A i \in DOMAIN q : i \in DOMAIN Append(q, item) /\ Append(q, item)[i] = q[i]
  BY <1>1
<1>3. \A i \in DOMAIN Append(q, item) : i \in DOMAIN q \/ i = Len(q) + 1
  BY <1>1
<1>4. ASSUME NEW other, other # item
      PROVE  Kept(other)
  BY <1>1, <1>2, <1>3, <1>4 DEF Kept, Has, HasOnce
<1>5. ~Has(q, item) => HasOnce(Append(q, item), item)
  BY <1>1, <1>2, <1>3 DEF Has, HasOnce
<1>6. Len(q) + 1 \in DOMAIN Append(q, item)
  BY <1>1
<1> QED
  BY <1>1, <1>4, <1>5, <1>6 DEF Has

LEMMA SubmittedKeeps ==
    ASSUME render_queue \in Seq(Item), NEW item, render_queue' = Submitted(item)
    PROVE  /\ \A other : other # item => Kept(other)
           /\ HasOnce(render_queue, item) => HasOnce(render_queue', item)
           /\ Has(render_queue', item)
<1>1. CASE Has(render_queue, item)
  <2>1. render_queue' = render_queue
    BY <1>1 DEF Has, Submitted
  <2> QED
    BY <1>1, <2>1 DEF Kept
<1>2. CASE ~Has(render_queue, item)
  <2>1. render_queue' = Append(render_queue, item)
    BY <1>2 DEF Has, Submitted
  <2> QED
    BY <1>2, <2>1, AppendKeeps
<1> QED
  BY <1>1, <1>2

LEMMA CancelledKeeps ==
    ASSUME render_queue \in Seq(Item), NEW item, render_queue' = Cancelled(item)
    PROVE  \A other : other # item => Kept(other)
<1> DEFINE q == render_queue
           place == CHOOSE i \in DOMAIN q : q[i] = item
           fewer == [i \in 1 .. Len(q) - 1 |-> IF i < place THEN q[i] ELSE q[i + 1]]
<1>1. CASE ~Has(q, item)
  BY <1>1 DEF Has, Cancelled, Kept
<1>2. CASE Has(q, item)
  <2>1. /\ DOMAIN q = 1 .. Len(q)
        /\ Len(q) \in Nat
        /\ place \in DOMAIN q
        /\ q[place] = item
    BY <1>2 DEF Has
  <2>2. render_queue' = fewer
    BY <1>2 DEF Has, Cancelled
  <2> HIDE DEF place
  <2>3. \A i \in DOMAIN fewer :
            LET from == IF i < place THEN i ELSE i + 1 IN
            from \in DOMAIN q /\ fewer[i] = q[from]
    BY <2>1
  <2>4. \A i \in DOMAIN q : i # place =>
            LET to == IF i < place THEN i ELSE i - 1 IN
            to \in DOMAIN fewer /\ fewer[to] = q[i]
    BY <2>1
  <2>5. DOMAIN fewer = 1 .. Len(q) - 1
    OBVIOUS
  <2> HIDE DEF fewer
  <2>6. ASSUME NEW other, other # item
        PROVE  Kept(other)
    <3>1. Has(fewer, other) => Has(q, other)
      BY <2>3 DEF Has
    <3>2. Has(q, other) => Has(fewer, other)
      BY <2>1, <2>4, <2>6 DEF Has
    <3>3. HasOnce(q, other) => HasOnce(fewer, other)
      <4> SUFFICES ASSUME HasOnce(q, other), NEW i \in DOMAIN fewer, NEW j \in DOMAIN fewer,
                          fewer[i] = other, fewer[j] = other
                   PROVE  i = j
        BY DEF HasOnce
      <4> DEFINE from(k) == IF k < place THEN k ELSE k + 1
      <4>1. from(i) \in DOMAIN q /\ from(j) \in DOMAIN q /\ q[from(i)] = other /\ q[from(j)] = other
        BY <2>3
      <4>2. from(i) = from(j)
        BY <4>1 DEF HasOnce
      <4> QED
        BY <2>1, <2>5, <4>2
    <3> QED
      BY <2>2, <3>1, <3>2, <3>3 DEF Kept
  <2> QED
    BY <2>6
<1> QED
  BY <1>1, <1>2

\* The jobs the render thread takes off its queue.
JobTaken(h) ==
    \/ JobBeginAnswered(h) \/ (\E new \in Token \ CarriedTokens : JobBeginCreates(h, new))
    \/ JobApply(h) \/ JobPatchApply(h) \/ JobRefused(h) \/ JobShow(h) \/ JobHighlight(h)
    \/ JobEnd(h)

LEMMA JobTakenRuns ==
    ASSUME NEW h \in Handler, JobTaken(h)
    PROVE  /\ Runs("job")
           /\ job = h
           /\ req[h].kind \in RenderJobs
           /\ UNCHANGED <<at, req, job, pending_end, end_armed, lease_armed>>
  BY DEF JobTaken, JobBeginAnswered, JobBeginCreates, JobApply, JobPatchApply, JobRefused,
         JobShow, JobHighlight, JobEnd, RunsJob, RenderJobs, handlerVars, notifyVars

\* What the steps that leave the render thread and its tasks alone keep as well.
LEMMA TaskQuietKeepsHost ==
    TaskQuiet => /\ UNCHANGED <<token, has_applied, pending_end, staged, screens>>
                 /\ UNCHANGED <<is_reconfigure_queued, is_nav_pinned, is_outlined>>
<1> USE DEF sessionVars, modelVars, hostVars, notifyVars
<1> DEFINE Same == /\ UNCHANGED <<token, has_applied, pending_end, staged, screens>>
                   /\ UNCHANGED <<is_reconfigure_queued, is_nav_pinned, is_outlined>>
<1>1. ASSUME NEW h \in Handler,
             \/ \E t \in KnownTokens \cup {NoToken}, pinned \in BOOLEAN : Begin(h, t, pinned)
             \/ \E t \in KnownTokens, kind \in {"SHOW", "HIGHLIGHT", "END"} :
                  TokenRequest(h, kind, t)
             \/ RunJobFails(h) \/ JobDone(h) \/ Tidy(h) \/ Finish(h) \/ TouchAfterApply(h)
      PROVE  Same
  BY <1>1 DEF Begin, TokenRequest, RunJobFails, JobDone, Tidy, Finish, FinishApply,
              TouchAfterApply, Touch, Renewed
<1>2. ASSUME NEW h \in Handler,
             \/ Chunk(h)
             \/ \E t \in KnownTokens, r \in Revs : Patch(h, t, r)
             \/ \E t \in KnownTokens : PatchRefused(h, t)
      PROVE  Same
  <2>1. CASE Chunk(h)
    <3>1. PICK t \in KnownTokens, offset \in Nat, n \in Nat, head \in Headers \cup {NoHeader} :
              StageChunk(h, t, offset, n, head)
      BY <2>1 DEF Chunk
    <3>2. UNCHANGED <<token, has_applied>>
      BY <3>1 DEF StageChunk, StageRefused, StageTaken, Renewed
    <3> QED
      BY <3>1, <3>2 DEF StageChunk
  <2>2. CASE \/ \E t \in KnownTokens, r \in Revs : Patch(h, t, r)
             \/ \E t \in KnownTokens : PatchRefused(h, t)
    BY <2>2 DEF Patch, BeginPatch, PatchRefused, Touch, Renewed
  <2> QED
    BY <1>2, <2>1, <2>2
<1>3. CASE ConfigStep
  BY <1>3 DEF ConfigStep, DecodeStarts, Parsed, PatchPrepared, DecodeRefused, Decoded
<1>4. CASE \/ LeaseElapses \/ LinkDrops \/ (\E c \in Config : Store(c))
           \/ StoreLooksForPreview \/ ClientsLeave
  BY <1>4 DEF LeaseElapses, LeaseRunsOut, LinkDrops, Store, StoreLooksForPreview, ClientsLeave
<1> QED
  BY <1>1, <1>2, <1>3, <1>4 DEF TaskQuiet

\* The steps of the render thread, and the ones that give it something to do.
LEMMA TaskCases ==
    [Next]_vars =>
        \/ TaskQuiet \/ UNCHANGED vars
        \/ \E h \in Handler : RunJob(h) \/ JobTaken(h) \/ JobBeginAllocates(h)
        \/ Cleanup \/ LeaseTaskDue \/ LeaseLooks \/ LeaseEnds
        \/ EndTaskDue \/ EndLooks \/ EndEnds
        \/ LinkDropAsksEnd \/ StoreAsksEnd
        \/ StoreQueuesRebuild \/ RebuildStarts \/ RebuildShows
  BY NextCases DEF SessionQuiet, SessionStep, TaskQuiet, JobTaken, NotifierStep

\* Each of them queues, takes or cancels one item and no other.
LEMMA QueueSteps ==
    ASSUME TaskTypeOK
    PROVE  /\ \A h \in Handler : RunJob(h) \/ JobTaken(h) =>
                \A item : item # "job" => Kept(item)
           /\ LeaseTaskDue \/ LeaseLooks \/ Cleanup =>
                \A item : item # "lease" => Kept(item)
           /\ EndTaskDue \/ EndLooks \/ LinkDropAsksEnd \/ StoreAsksEnd =>
                \A item : item # "end" => Kept(item)
           /\ StoreQueuesRebuild \/ RebuildStarts =>
                \A item : item # "rebuild" => Kept(item)
           /\ \/ TaskQuiet \/ UNCHANGED vars \/ LeaseEnds \/ EndEnds \/ RebuildShows
              \/ \E h \in Handler : JobBeginAllocates(h)
              => UNCHANGED render_queue /\ \A item : Kept(item)
<1> USE DEF TaskTypeOK
<1>0. UNCHANGED render_queue => \A item : Kept(item)
  BY DEF Kept
<1>1. ASSUME NEW h \in Handler, RunJob(h) \/ JobTaken(h)
      PROVE  \A item : item # "job" => Kept(item)
  BY <1>0, <1>1, JobTakenRuns, RunsKeeps, SubmittedKeeps DEF RunJob
<1>2. ASSUME LeaseTaskDue \/ LeaseLooks \/ Cleanup
      PROVE  \A item : item # "lease" => Kept(item)
  BY <1>2, RunsKeeps, SubmittedKeeps, CancelledKeeps DEF LeaseTaskDue, LeaseLooks, Cleanup
<1>3. ASSUME EndTaskDue \/ EndLooks \/ LinkDropAsksEnd \/ StoreAsksEnd
      PROVE  \A item : item # "end" => Kept(item)
  BY <1>3, RunsKeeps, SubmittedKeeps
     DEF EndTaskDue, EndLooks, LinkDropAsksEnd, StoreAsksEnd, AsksEnd
<1>4. ASSUME StoreQueuesRebuild \/ RebuildStarts
      PROVE  \A item : item # "rebuild" => Kept(item)
  BY <1>0, <1>4, RunsKeeps, AppendKeeps DEF StoreQueuesRebuild, RebuildStarts
<1>5. ASSUME \/ TaskQuiet \/ UNCHANGED vars \/ LeaseEnds \/ EndEnds \/ RebuildShows
             \/ \E h \in Handler : JobBeginAllocates(h)
      PROVE  UNCHANGED render_queue
  BY <1>5, TaskQuietKeeps DEF taskVars, vars, LeaseEnds, EndEnds, RebuildShows, JobBeginAllocates
<1> QED
  BY <1>0, <1>1, <1>2, <1>3, <1>4, <1>5

-----------------------------------------------------------------------------
LEMMA RebuildInvStep ==
    ASSUME TypeOK, RebuildInv, [Next]_vars
    PROVE  RebuildInv'
<1> TaskTypeOK /\ HostTypeOK
  BY DEF TypeOK
<1> DEFINE Queued == Has(render_queue, "rebuild")
<1>0. /\ RebuildInv <=> HasOnce(render_queue, "rebuild") /\ (is_reconfigure_queued <=> Queued)
      /\ RebuildInv' <=> HasOnce(render_queue', "rebuild")
                         /\ (is_reconfigure_queued' <=> Has(render_queue', "rebuild"))
  BY DEF RebuildInv, RebuildIsQueued, Has
<1>1. CASE Kept("rebuild") /\ UNCHANGED is_reconfigure_queued
  BY <1>0, <1>1 DEF Kept
<1>2. ASSUME NEW h \in Handler, RunJob(h) \/ JobTaken(h) \/ JobBeginAllocates(h)
      PROVE  Kept("rebuild") /\ UNCHANGED is_reconfigure_queued
  BY <1>2, QueueSteps DEF RunJob, JobTaken, JobBeginAnswered, JobBeginCreates, JobApply,
     JobPatchApply, JobRefused, JobShow, JobHighlight, JobEnd, JobBeginAllocates, hostVars
<1>3. CASE TaskQuiet \/ UNCHANGED vars
  BY <1>1, <1>3, QueueSteps, TaskQuietKeepsHost DEF vars, hostVars
<1>4. CASE \/ Cleanup \/ LeaseTaskDue \/ LeaseLooks \/ LeaseEnds \/ EndTaskDue \/ EndLooks
           \/ EndEnds \/ LinkDropAsksEnd \/ StoreAsksEnd \/ RebuildShows
  <2>1. Kept("rebuild")
    BY <1>4, QueueSteps
  <2>2. UNCHANGED is_reconfigure_queued
    BY <1>4 DEF Cleanup, LeaseTaskDue, LeaseLooks, LeaseEnds, EndTaskDue, EndLooks, EndEnds,
                LinkDropAsksEnd, StoreAsksEnd, RebuildShows, hostVars
  <2> QED
    BY <1>1, <2>1, <2>2
<1>5. CASE StoreQueuesRebuild
  <2>1. CASE render_queue' = Append(render_queue, "rebuild")
    BY <1>0, <1>5, <2>1, AppendKeeps DEF StoreQueuesRebuild, TaskTypeOK, HostTypeOK
  <2>2. CASE render_queue' = render_queue
    BY <1>0, <1>5, <2>2, AppendKeeps DEF StoreQueuesRebuild, TaskTypeOK, HostTypeOK
  <2> QED
    BY <1>5, <2>1, <2>2 DEF StoreQueuesRebuild
<1>6. CASE RebuildStarts
  BY <1>0, <1>6, RunsKeeps DEF RebuildStarts, TaskTypeOK
<1> QED
  BY <1>1, <1>2, <1>3, <1>4, <1>5, <1>6, TaskCases

\* The flag that stands for a queued rebuild is set as long as one is queued, and no
\* longer (is_reconfigure_queued_, ui_controller.cpp:471).
THEOREM RebuildIsQueuedHolds == Spec => []RebuildIsQueued
<1>1. Init => RebuildInv
  BY DEF Init, RebuildInv, RebuildIsQueued, HasOnce
<1>2. RebuildInv => RebuildIsQueued
  BY DEF RebuildInv
<1> QED
  BY <1>1, <1>2, InitType, TypeStep, RebuildInvStep, PTL DEF Spec

-----------------------------------------------------------------------------
LEMMA AskedInvStep ==
    ASSUME TypeOK, AskedInv, [Next]_vars
    PROVE  AskedInv'
<1> TaskTypeOK
  BY DEF TypeOK
<1> USE DEF AskedInv, EndIsDue, IsActive
<1> DEFINE Queued == Has(render_queue, "end")
<1>1. CASE /\ Kept("end")
           /\ UNCHANGED <<pending_end, end_armed, render_at, ending, token>>
  BY <1>1 DEF Kept
<1>2. CASE TaskQuiet \/ UNCHANGED vars
  <2>1. UNCHANGED <<pending_end, end_armed, render_at, ending, token>>
    BY <1>2, TaskQuietKeeps, TaskQuietKeepsHost DEF vars, taskVars, notifyVars, sessionVars
  <2> QED
    BY <1>1, <1>2, <2>1, QueueSteps
<1>3. ASSUME NEW h \in Handler, RunJob(h)
      PROVE  AskedInv'
  BY <1>1, <1>3, QueueSteps DEF RunJob, notifyVars, sessionVars
<1>4. ASSUME NEW h \in Handler, JobTaken(h)
      PROVE  AskedInv'
  <2>1. Kept("end") /\ UNCHANGED <<pending_end, end_armed>> /\ render_at = "idle"
    BY <1>4, QueueSteps, JobTakenRuns DEF Runs
  <2>2. \/ UNCHANGED <<render_at, ending, token>>
        \/ render_at' = "allocate" /\ UNCHANGED ending
        \/ render_at' = "cleanup" /\ token' = NoToken
    BY <1>4 DEF JobTaken, JobBeginAnswered, BeginRenews, BeginRefused, JobBeginCreates,
                JobApply, JobPatchApply, JobRefused, JobShow, JobHighlight, Touch, Renewed,
                JobEnd, Ends, CloseLocked, sessionVars
  <2> QED
    BY <2>1, <2>2 DEF Kept
<1>5. ASSUME NEW h \in Handler, JobBeginAllocates(h)
      PROVE  AskedInv'
  BY <1>5, QueueSteps DEF JobBeginAllocates, notifyVars, Kept
<1>6. CASE Cleanup
  BY <1>6 DEF Cleanup
<1>7. CASE LeaseTaskDue
  BY <1>1, <1>7, QueueSteps DEF LeaseTaskDue, notifyVars, sessionVars
<1>8. CASE LeaseLooks
  BY <1>8, QueueSteps DEF LeaseLooks, Runs, notifyVars, Kept
<1>9. CASE LeaseEnds
  BY <1>9, QueueSteps DEF LeaseEnds, Ends, CloseLocked, notifyVars, Kept
<1>10. CASE EndTaskDue \/ LinkDropAsksEnd \/ StoreAsksEnd
  <2>1. render_queue' = Submitted("end") /\ UNCHANGED <<render_at, token>>
    BY <1>10 DEF EndTaskDue, LinkDropAsksEnd, StoreAsksEnd, AsksEnd, sessionVars
  <2> QED
    BY <2>1, SubmittedKeeps DEF TaskTypeOK
<1>11. CASE EndLooks
  BY <1>11 DEF EndLooks, Runs, NoEnding
<1>12. CASE EndEnds
  BY <1>12 DEF EndEnds, Ends, CloseLocked
<1>13. CASE StoreQueuesRebuild
  BY <1>1, <1>13, QueueSteps DEF StoreQueuesRebuild, sessionVars
<1>14. CASE RebuildStarts \/ RebuildShows
  BY <1>14, QueueSteps DEF RebuildStarts, RebuildShows, Runs, notifyVars, sessionVars, Kept
<1> QED
  BY <1>2, <1>3, <1>4, <1>5, <1>6, <1>7, <1>8, <1>9, <1>10, <1>11, <1>12, <1>13, <1>14,
     TaskCases

\* An end that was asked for while an apply, or another end, was under way is on its
\* way as long as the session is open (ProcessEnd() in ui_preview_service.cpp).
THEOREM AskedEndIsDueHolds == Spec => []AskedEndIsDue
<1>1. Init => AskedInv
  BY DEF Init, AskedInv
<1>2. AskedInv => AskedEndIsDue
  BY DEF AskedInv, AskedEndIsDue, EndIsDue, Has
<1> QED
  BY <1>1, <1>2, InitType, TypeStep, AskedInvStep, PTL DEF Spec

-----------------------------------------------------------------------------
LEMMA CleanInvStep ==
    ASSUME TypeOK, CleanInv, [Next]_vars
    PROVE  CleanInv'
<1> USE DEF CleanInv, Clean, IsActive
<1>1. CASE UNCHANGED <<token, render_at, is_nav_pinned, is_outlined, staged>>
  BY <1>1
<1>2. CASE TaskQuiet \/ UNCHANGED vars
  BY <1>1, <1>2, TaskQuietKeeps, TaskQuietKeepsHost
     DEF vars, taskVars, sessionVars, modelVars, hostVars
<1>3. ASSUME NEW h \in Handler, RunJob(h) \/ JobBeginAnswered(h) \/ JobRefused(h) \/ JobShow(h)
      PROVE  CleanInv'
  BY <1>1, <1>3 DEF RunJob, JobBeginAnswered, BeginRenews, BeginRefused, JobRefused, JobShow,
                    Renewed, sessionVars, modelVars, hostVars
<1>4. ASSUME NEW h \in Handler, JobApply(h) \/ JobPatchApply(h) \/ JobHighlight(h)
      PROVE  CleanInv'
  BY <1>4 DEF JobApply, JobPatchApply, JobHighlight, RunsJob, Runs, Touch, Renewed, Holds,
              sessionVars, modelVars, hostVars
<1>5. ASSUME NEW h \in Handler, NEW new \in Token \ CarriedTokens, JobBeginCreates(h, new)
      PROVE  CleanInv'
  BY <1>5, SessionAssumption
     DEF JobBeginCreates, BeginCreates, RunsJob, Runs, modelVars, hostVars
<1>6. ASSUME NEW h \in Handler, JobEnd(h)
      PROVE  CleanInv'
  BY <1>6 DEF JobEnd, Ends, RunsJob, Runs, Touch, Renewed, Holds, sessionVars, modelVars, hostVars
<1>7. ASSUME NEW h \in Handler, JobBeginAllocates(h)
      PROVE  CleanInv'
  BY <1>7 DEF JobBeginAllocates, AllocateBuffer, CloseLocked
<1>8. CASE Cleanup
  BY <1>8 DEF Cleanup
<1>9. CASE LeaseEnds \/ EndEnds
  BY <1>9 DEF LeaseEnds, EndEnds, Ends, sessionVars, modelVars, hostVars
<1>10. CASE LeaseLooks \/ EndLooks \/ RebuildStarts \/ RebuildShows
  BY <1>10 DEF LeaseLooks, EndLooks, RebuildStarts, RebuildShows, Runs, sessionVars, modelVars,
               hostVars
<1>11. CASE \/ LeaseTaskDue \/ EndTaskDue \/ LinkDropAsksEnd \/ StoreAsksEnd
            \/ StoreQueuesRebuild
  BY <1>1, <1>11 DEF LeaseTaskDue, EndTaskDue, LinkDropAsksEnd, StoreAsksEnd,
                     StoreQueuesRebuild, sessionVars, modelVars, hostVars
<1> QED
  BY <1>2, <1>3, <1>4, <1>5, <1>6, <1>7, <1>8, <1>9, <1>10, <1>11, TaskCases DEF JobTaken

\* An end by anyone puts back what the session did to the gauge, and a BEGIN that
\* fails half way has done nothing to it (EndSession() and ExecuteBegin()).
THEOREM NothingLeftBehindHolds == Spec => []NothingLeftBehind
<1>1. Init => CleanInv
  BY DEF Init, CleanInv, Clean
<1>2. CleanInv => NothingLeftBehind
  BY DEF CleanInv, Clean, NothingLeftBehind
<1> QED
  BY <1>1, <1>2, InitType, TypeStep, CleanInvStep, PTL DEF Spec

-----------------------------------------------------------------------------
\* Steps of which the handler that waits for its job, and the job, see nothing.
LEMMA AwaitedKeeps ==
    ASSUME JobIsAwaited, Kept("job"), UNCHANGED <<job, result>>,
           \A h \in Handler : job = h => req'[h].kind = req[h].kind,
           \/ UNCHANGED <<render_at, ending>>
           \/ render_at' # "allocate" /\ ~(render_at' = "cleanup" /\ ending'.by = "client")
    PROVE  JobIsAwaited'
  BY DEF JobIsAwaited, Owed, Kept

LEMMA JobIsAwaitedStep ==
    ASSUME TypeOK, ApplyInv, JobIsAwaited, [Next]_vars
    PROVE  JobIsAwaited'
<1> HandlerTypeOK /\ TaskTypeOK /\ HandlersInStep
  BY DEF TypeOK, ApplyInv
<1>1. CASE UNCHANGED vars
  BY <1>1, AwaitedKeeps, QueueSteps DEF vars, handlerVars, taskVars
<1>2. CASE TaskQuiet
  <2>1. Kept("job") /\ UNCHANGED <<render_queue, render_at, ending>>
    BY <1>2, QueueSteps, TaskQuietKeeps DEF taskVars
  <2>2. ASSUME UNCHANGED handlerVars PROVE JobIsAwaited'
    BY <2>1, <2>2, AwaitedKeeps DEF handlerVars
  <2>3. ASSUME NEW h \in Handler, NEW kind, NEW t, NEW pinned, NEW r,
               Works(h, kind, t, pinned, r), at[h] = "idle"
        PROVE  JobIsAwaited'
    <3>1. UNCHANGED <<job, result>> /\ Moves(h) /\ job # h
      BY <2>3, WorksMoves DEF Works, HandlersInStep
    <3> QED
      BY <2>1, <3>1, AwaitedKeeps DEF Moves
  <2>4. ASSUME NEW h \in Handler, NEW t \in KnownTokens \cup {NoToken}, NEW pinned \in BOOLEAN,
               Begin(h, t, pinned)
        PROVE  JobIsAwaited'
    BY <2>3, <2>4 DEF Begin, Takes
  <2>5. ASSUME NEW h \in Handler, NEW t \in KnownTokens,
               NEW kind \in {"SHOW", "HIGHLIGHT", "END"}, TokenRequest(h, kind, t)
        PROVE  JobIsAwaited'
    BY <2>3, <2>5 DEF TokenRequest, Takes
  <2>6. ASSUME NEW h \in Handler, Chunk(h)
        PROVE  JobIsAwaited'
    <3>1. PICK t \in KnownTokens : UNCHANGED handlerVars \/ Works(h, "PARSE", t, TRUE, 0)
      BY <2>6 DEF Chunk, StageChunk
    <3>2. at[h] = "idle"
      BY <2>6 DEF Chunk, StageChunk, Takes
    <3> QED
      BY <2>2, <2>3, <3>1, <3>2
  <2>7. ASSUME NEW h \in Handler, NEW t \in KnownTokens, NEW r \in Revs, Patch(h, t, r)
        PROVE  JobIsAwaited'
    BY <2>3, <2>7 DEF Patch, Takes
  <2>8. ASSUME NEW h \in Handler, RunJobFails(h)
        PROVE  JobIsAwaited'
    BY <2>1, <2>8, AwaitedKeeps, ServiceAssumption DEF RunJobFails
  <2>9. ASSUME NEW h \in Handler, JobDone(h)
        PROVE  JobIsAwaited'
    BY <2>1, <2>9 DEF JobDone, JobIsAwaited, Owed, Kept
  <2>10. ASSUME NEW h \in Handler, Tidy(h) \/ Finish(h)
         PROVE  JobIsAwaited'
    BY <2>1, <2>10, AwaitedKeeps DEF Tidy, Finish
  <2>11. ASSUME NEW h \in Handler, TouchAfterApply(h)
         PROVE  JobIsAwaited'
    <3>1. job # h
      BY <2>11 DEF TouchAfterApply, HandlersInStep
    <3>2. \A g \in Handler : g # h => req'[g] = req[g]
      BY <2>11 DEF TouchAfterApply, HandlerTypeOK
    <3> QED
      BY <2>1, <2>11, <3>1, <3>2, AwaitedKeeps DEF TouchAfterApply
  <2>12. ASSUME NEW h \in Handler,
                \/ \E c \in Config : Parsed(h, c) \/ PatchPrepared(h, c)
                \/ DecodeRefused(h)
         PROVE  JobIsAwaited'
    <3>1. job = h /\ req[h].kind \notin RenderJobs /\ UNCHANGED <<req, job>>
      BY <2>12 DEF Parsed, PatchPrepared, DecodeRefused, Decoded, ConfigJob, ConfigJobs, RenderJobs
    <3>2. ~Owed
      BY <3>1 DEF JobIsAwaited
    <3> QED
      BY <2>1, <3>1, <3>2, ServiceAssumption DEF JobIsAwaited, Owed, Kept
  <2> QED
    BY <1>2, <2>2, <2>4, <2>5, <2>6, <2>7, <2>8, <2>9, <2>10, <2>11, <2>12, HandlerQuietKeeps
       DEF TaskQuiet, ConfigStep, HandlerQuiet, NotifierStep
<1>3. ASSUME NEW h \in Handler, RunJob(h)
      PROVE  JobIsAwaited'
  <2>1. ~Owed /\ result = "none" /\ job' = h /\ UNCHANGED <<req, result, render_at, ending>>
    BY <1>3 DEF RunJob, JobIsAwaited
  <2>2. CASE req[h].kind \in RenderJobs
    <3>1. HasOnce(render_queue', "job")
      BY <1>3, <2>2, SubmittedKeeps DEF RunJob, TaskTypeOK, JobIsAwaited
    <3> QED
      BY <2>1, <2>2, <3>1, ServiceAssumption DEF JobIsAwaited, Owed
  <2>3. CASE req[h].kind \notin RenderJobs
    BY <1>3, <2>1, <2>3, ServiceAssumption DEF RunJob, JobIsAwaited, Owed
  <2> QED
    BY <2>2, <2>3
<1>4. ASSUME NEW h \in Handler, JobTaken(h)
      PROVE  JobIsAwaited'
  <2>1. /\ Runs("job") /\ job = h /\ req[h].kind \in RenderJobs /\ UNCHANGED <<req, job>>
        /\ render_at = "idle"
    BY <1>4, JobTakenRuns DEF Runs
  <2>2. ~Has(render_queue', "job") /\ HasOnce(render_queue', "job") /\ Has(render_queue, "job")
    BY <2>1, RunsKeeps DEF JobIsAwaited, TaskTypeOK
  <2>3. \/ render_at' = "idle"
        \/ UNCHANGED result
    BY <1>4, <2>1 DEF JobTaken, JobBeginAnswered, JobBeginCreates, JobApply, JobPatchApply,
                      JobRefused, JobShow, JobHighlight, JobEnd, handlerVars
  <2> QED
    BY <2>1, <2>2, <2>3, ServiceAssumption DEF JobIsAwaited, Owed
<1>5. ASSUME NEW h \in Handler, JobBeginAllocates(h)
      PROVE  JobIsAwaited'
  BY <1>5, ServiceAssumption DEF JobBeginAllocates, JobIsAwaited, Owed
<1>6. CASE Cleanup
  <2>1. Kept("job")
    BY <1>6, QueueSteps
  <2> QED
    BY <1>6, <2>1 DEF Cleanup, JobIsAwaited, Owed, Kept
<1>7. CASE \/ LeaseTaskDue \/ LeaseLooks \/ LeaseEnds \/ EndTaskDue \/ EndLooks \/ EndEnds
           \/ LinkDropAsksEnd \/ StoreAsksEnd \/ StoreQueuesRebuild \/ RebuildStarts
           \/ RebuildShows
  <2>1. Kept("job")
    BY <1>7, QueueSteps
  <2>2. UNCHANGED handlerVars
    BY <1>7, HandlerQuietKeeps DEF HandlerQuiet, NotifierStep
  <2>3. \/ UNCHANGED <<render_at, ending>>
        \/ render_at' # "allocate" /\ ~(render_at' = "cleanup" /\ ending'.by = "client")
    BY <1>7 DEF LeaseTaskDue, LeaseLooks, LeaseEnds, EndTaskDue, EndLooks, EndEnds, Ends,
                LinkDropAsksEnd, StoreAsksEnd, StoreQueuesRebuild, RebuildStarts, RebuildShows
  <2> QED
    BY <2>1, <2>2, <2>3, AwaitedKeeps DEF handlerVars
<1> QED
  BY <1>1, <1>2, <1>3, <1>4, <1>5, <1>6, <1>7, TaskCases

LEMMA JobIsAwaitedInit == Init => JobIsAwaited
  BY DEF Init, NoEnding, JobIsAwaited, Owed, Has, HasOnce

-----------------------------------------------------------------------------
\* The plan of the patch that h works on may be followed, or is done with.
Plans(h) ==
    /\ InApply(h)
    /\ req[h].kind \in PatchJobs
    /\ \/ at[h] \in {"submit", "wait"} /\ plan_base = staged
       \/ at[h] = "wait" /\ req[h].kind = "PATCH_APPLY" /\ result # "none"
       \/ at[h] = "tidy"

LEMMA PlanStep ==
    ASSUME TypeOK, ApplyInv, AskedInv, PlanIsOfStaged, [Next]_vars
    PROVE  PlanIsOfStaged'
<1> HandlerTypeOK
  BY DEF TypeOK
<1> SUFFICES ASSUME patched' # NoConfig
             PROVE  \E h \in Handler : Plans(h)'
  BY DEF PlanIsOfStaged, Plans
<1>1. ASSUME NEW g \in Handler, NEW c \in Config, PatchPrepared(g, c)
      PROVE  Plans(g)'
  BY <1>1 DEF PatchPrepared, ConfigJob, Decoded, Plans, InApply, PatchJobs
<1>2. ASSUME patched' = patched
      PROVE  \E h \in Handler : Plans(h)'
  <2>1. PICK h \in Handler : Plans(h)
    BY <1>2 DEF PlanIsOfStaged, Plans
  <2>2. /\ is_applying /\ IsActive /\ render_at \notin {"allocate", "cleanup"}
        /\ \A g \in Handler : InApply(g) => g = h
        /\ at[h] \in {"submit", "wait", "tidy"}
        /\ at[h] = "wait" => job = h
    BY <2>1 DEF Plans, InApply, ApplyInv, ApplyExclusive, ApplyKeepsItsSession, HandlersInStep,
                OpeningIsIdle, AskedInv
  <2>3. ASSUME at'[h] = at[h], req'[h] = req[h], UNCHANGED <<plan_base, staged>>,
               result' \in {result, "ok", "error"} \/ at[h] # "wait"
        PROVE  Plans(h)'
    BY <2>1, <2>3 DEF Plans, InApply
  <2>4. ASSUME UNCHANGED handlerVars, UNCHANGED modelVars
        PROVE  Plans(h)'
    BY <2>3, <2>4 DEF handlerVars, modelVars
  <2>5. ASSUME NEW g \in Handler, Moves(g), g # h, UNCHANGED modelVars,
               result' = result \/ job # h
        PROVE  Plans(h)'
    BY <2>2, <2>3, <2>5 DEF Moves, modelVars
  <2>6. ASSUME NEW g \in Handler, NEW kind, NEW t, NEW pinned, NEW r,
               Works(g, kind, t, pinned, r), at[g] = "idle", UNCHANGED modelVars
        PROVE  Plans(h)'
    BY <2>2, <2>5, <2>6, WorksMoves DEF Works
  <2>7. ASSUME NEW g \in Handler, SessionStep(g)
        PROVE  Plans(h)'
    <3>1. CASE Chunk(g)
      <4>1. PICK t \in KnownTokens : UNCHANGED handlerVars \/ Works(g, "PARSE", t, TRUE, 0)
        BY <3>1 DEF Chunk, StageChunk
      <4>2. at[g] = "idle" /\ UNCHANGED modelVars
        BY <3>1 DEF Chunk, StageChunk, Takes
      <4> QED
        BY <2>4, <2>6, <4>1, <4>2 DEF handlerVars, modelVars
    <3>2. ASSUME NEW t \in KnownTokens, NEW r \in Revs, Patch(g, t, r)
          PROVE  Plans(h)'
      BY <2>6, <3>2 DEF Patch, Takes
    <3>3. CASE \E t \in KnownTokens : PatchRefused(g, t)
      BY <2>4, <3>3 DEF PatchRefused, handlerVars, modelVars
    <3>4. CASE Tidy(g)
      <4>1. g # h \/ req[g].kind \notin StageJobs
        BY <2>1 DEF Plans, StageJobs, PatchJobs
      <4>2. req[g].kind \in StageJobs
        BY <1>2, <3>4, <2>1 DEF Tidy, ModelTypeOK
      <4>3. Moves(g) /\ UNCHANGED <<plan_base, staged, result>>
        BY <3>4, <4>2 DEF Tidy, Moves, HandlerTypeOK
      <4> QED
        BY <2>3, <4>1, <4>2, <4>3 DEF Moves
    <3>5. CASE Finish(g) \/ TouchAfterApply(g)
      <4>1. g # h /\ Moves(g) /\ UNCHANGED <<modelVars, result>>
        BY <2>2, <3>5 DEF Finish, TouchAfterApply, Moves, HandlerTypeOK
      <4> QED
        BY <2>5, <4>1
    <3>6. CASE \/ JobBeginAnswered(g) \/ JobShow(g) \/ JobHighlight(g)
      <4>1. job # h
        BY <2>1, <3>6 DEF JobBeginAnswered, JobShow, JobHighlight, RunsJob, Plans, PatchJobs
      <4> QED
        BY <2>2, <2>3, <3>6, <4>1 DEF JobBeginAnswered, JobShow, JobHighlight, modelVars
    <3>7. CASE JobEnd(g)
      <4>1. job # h
        BY <2>1, <3>7 DEF JobEnd, RunsJob, Plans, PatchJobs
      <4> QED
        BY <2>2, <2>3, <3>7, <4>1 DEF JobEnd, modelVars
    <3>8. CASE \E new \in Token \ CarriedTokens : JobBeginCreates(g, new)
      BY <2>4, <3>8 DEF JobBeginCreates, handlerVars, modelVars
    <3>9. CASE JobBeginAllocates(g)
      BY <2>2, <3>9 DEF JobBeginAllocates
    <3>10. CASE JobApply(g)
      BY <2>1, <2>2, <3>10, JobInApply DEF Plans
    <3>11. CASE JobPatchApply(g)
      <4>1. g = h /\ at[h] = "wait" /\ req[h].kind = "PATCH_APPLY"
        BY <2>2, <3>11, JobInApply DEF JobPatchApply, RunsJob, ApplyInv, HandlersInStep
      <4>2. UNCHANGED <<at, req>> /\ result' # "none"
        BY <3>11 DEF JobPatchApply
      <4> QED
        BY <2>1, <4>1, <4>2 DEF Plans, InApply
    <3> QED
      BY <2>7, <3>1, <3>2, <3>3, <3>4, <3>5, <3>6, <3>7, <3>8, <3>9, <3>10, <3>11 DEF SessionStep
  <2>8. ASSUME NEW g \in Handler, RunJob(g)
        PROVE  Plans(h)'
    <3>1. CASE g = h
      <4>1. at'[h] = "wait" /\ at[h] = "submit" /\ UNCHANGED <<req, plan_base, staged>>
        BY <2>8, <3>1 DEF RunJob, HandlerTypeOK, modelVars
      <4> QED
        BY <2>1, <4>1 DEF Plans, InApply
    <3>2. CASE g # h
      BY <2>5, <2>8, <3>2 DEF RunJob, Moves, HandlerTypeOK
    <3> QED
      BY <3>1, <3>2
  <2>9. ASSUME NEW g \in Handler, RunJobFails(g) \/ JobDone(g)
        PROVE  Plans(h)'
    <3>1. PICK answer : /\ Answered(g, answer)
                        /\ at[g] = "submit" => answer = "error"
                        /\ at[g] = "wait" => answer = result /\ job = g
      BY <2>9 DEF RunJobFails, JobDone
    <3>2. at[g] \in {"submit", "wait"} /\ UNCHANGED modelVars
      BY <2>9 DEF RunJobFails, JobDone
    <3>3. Moves(g)
      BY <3>1, <3>2, AnsweredMoves
    <3>4. CASE g # h
      BY <2>5, <2>9, <3>2, <3>3, <3>4 DEF RunJobFails, JobDone
    <3>5. CASE g = h
      <4>1. InApply(h)' /\ req'[h].kind \in PatchJobs
        BY <2>1, <3>1, <3>2, <3>5, AnsweredMoves DEF Plans
      <4>2. CASE at'[h] = "tidy"
        BY <4>1, <4>2 DEF Plans
      <4>3. CASE at'[h] = "submit"
        <5>1. req[h].kind = "PATCH_PREPARE"
          BY <2>1, <3>1, <3>5, <4>3 DEF Answered, Plans, PatchJobs, StageJobs, HandlerTypeOK
        <5>2. plan_base = staged
          BY <2>1, <2>9, <3>5, <5>1 DEF Plans, RunJobFails, JobDone
        <5> QED
          BY <3>2, <4>1, <4>3, <5>2 DEF Plans, modelVars
      <4> QED
        BY <3>1, <3>2, <3>5, <4>1, <4>2, <4>3, AnsweredMoves DEF InApply
    <3> QED
      BY <3>4, <3>5
  <2>10. ASSUME NEW g \in Handler, DecodeStarts(g) \/ JobRefused(g)
         PROVE  Plans(h)'
    <3>1. CASE DecodeStarts(g)
      BY <2>4, <3>1 DEF DecodeStarts, handlerVars, modelVars
    <3>2. CASE JobRefused(g)
      <4>1. job # h
        BY <2>1, <3>2 DEF JobRefused, RunsJob, Plans, PatchJobs
      <4> QED
        BY <2>2, <2>3, <3>2, <4>1 DEF JobRefused, modelVars
    <3> QED
      BY <2>10, <3>1, <3>2
  <2>11. ASSUME NEW g \in Handler, (\E c \in Config : Parsed(g, c)) \/ DecodeRefused(g)
         PROVE  Plans(h)'
    <3>1. UNCHANGED <<at, req, plan_base, staged>> /\ result' \in {"ok", "error"}
      BY <2>11 DEF Parsed, DecodeRefused, Decoded
    <3> QED
      BY <2>3, <3>1
  <2>12. ASSUME NEW g \in Handler,
                \/ \E t \in KnownTokens \cup {NoToken}, pinned \in BOOLEAN : Begin(g, t, pinned)
                \/ \E t \in KnownTokens, kind \in {"SHOW", "HIGHLIGHT", "END"} :
                     TokenRequest(g, kind, t)
         PROVE  Plans(h)'
    BY <2>6, <2>12 DEF Begin, TokenRequest, Takes
  <2>13. CASE Cleanup
    BY <2>2, <2>13 DEF Cleanup
  <2>14. CASE \/ LeaseElapses \/ LeaseTaskDue \/ LeaseLooks \/ LeaseEnds
              \/ EndTaskDue \/ EndLooks \/ EndEnds
              \/ LinkDrops \/ (\E c \in Config : Store(c)) \/ NotifierStep
              \/ RebuildStarts \/ RebuildShows \/ ClientsLeave
    <3>1. UNCHANGED handlerVars
      BY <2>14, HandlerQuietKeeps DEF HandlerQuiet
    <3>2. UNCHANGED modelVars
      BY <2>14 DEF LeaseElapses, LeaseTaskDue, LeaseLooks, LeaseEnds, EndTaskDue, EndLooks,
         EndEnds, LinkDrops, Store, NotifierStep, LinkDropAsksEnd, StoreLooksForPreview,
         StoreAsksEnd, StoreQueuesRebuild, RebuildStarts, RebuildShows, ClientsLeave
    <3> QED
      BY <2>4, <3>1, <3>2
  <2>15. CASE UNCHANGED vars
    BY <2>4, <2>15 DEF vars
  <2>16. ASSUME NEW g \in Handler, NEW c \in Config, PatchPrepared(g, c)
         PROVE  \E k \in Handler : Plans(k)'
    BY <1>1, <2>16
  <2> QED
    BY <2>7, <2>8, <2>9, <2>10, <2>11, <2>12, <2>13, <2>14, <2>15, <2>16, NextCases
       DEF SessionQuiet, ConfigStep
<1>3. ASSUME patched' # patched
      PROVE  \E g \in Handler, c \in Config : PatchPrepared(g, c)
  <2>1. ASSUME NEW g \in Handler, SessionStep(g)
        PROVE  patched' \in {patched, NoConfig}
    BY <2>1 DEF SessionStep, Chunk, StageChunk, Patch, PatchRefused, Tidy, Finish,
       TouchAfterApply, JobBeginAnswered, JobBeginCreates, JobBeginAllocates, JobApply,
       JobPatchApply, JobShow, JobHighlight, JobEnd, modelVars
  <2>2. ASSUME SessionQuiet, ~\E g \in Handler, c \in Config : PatchPrepared(g, c)
        PROVE  patched' = patched
    BY <2>2 DEF SessionQuiet, Begin, TokenRequest, RunJob, RunJobFails, JobDone, JobRefused,
       ConfigStep, DecodeStarts, Parsed, DecodeRefused, Decoded, LeaseTaskDue, LeaseLooks,
       EndTaskDue, EndLooks, LinkDrops, Store, NotifierStep, LinkDropAsksEnd,
       StoreLooksForPreview, StoreAsksEnd, StoreQueuesRebuild, RebuildStarts, RebuildShows,
       ClientsLeave, modelVars
  <2>3. Cleanup \/ LeaseElapses \/ LeaseEnds \/ EndEnds \/ UNCHANGED vars => patched' = patched
    BY DEF Cleanup, LeaseElapses, LeaseEnds, EndEnds, vars, modelVars
  <2> QED
    BY <1>3, <2>1, <2>2, <2>3, NextCases
<1> QED
  BY <1>1, <1>2, <1>3

-----------------------------------------------------------------------------
\* The job that puts a patch onto the screens follows a plan from the staged ones.
LEMMA PlanIsFollowed ==
    ASSUME ApplyInv, JobIsAwaited, PlanIsOfStaged, TaskTypeOK,
           NEW h \in Handler, JobPatchApply(h)
    PROVE  plan_base = staged
<1>1. Runs("job") /\ job = h /\ patched # NoConfig
  BY DEF JobPatchApply, RunsJob
<1>2. result = "none"
  BY <1>1, RunsKeeps DEF JobIsAwaited, Owed, TaskTypeOK
<1>3. at[h] = "wait"
  BY <1>1 DEF ApplyInv, HandlersInStep
<1>4. PICK g \in Handler : Plans(g)
  BY <1>1 DEF PlanIsOfStaged, Plans
<1>5. g = h
  BY <1>4, JobInApply DEF Plans
<1> QED
  BY <1>2, <1>3, <1>4, <1>5 DEF Plans

LEMMA NothingStoredStep ==
    ASSUME "store" \notin Events, TypeOK, RebuildInv, NothingStored, [Next]_vars
    PROVE  NothingStored' /\ UNCHANGED stored /\ ~RebuildStarts /\ ~RebuildShows
<1> TaskTypeOK
  BY DEF TypeOK
<1>1. ~RebuildStarts /\ ~RebuildShows
  <2>1. ~Has(render_queue, "rebuild")
    BY DEF RebuildInv, RebuildIsQueued, NothingStored, Has
  <2> QED
    BY <2>1, RunsKeeps DEF RebuildStarts, RebuildShows, NothingStored, TaskTypeOK
<1>2. /\ ~StoreLooksForPreview /\ ~StoreAsksEnd /\ ~StoreQueuesRebuild
      /\ \A c \in Config : ~Store(c)
  BY DEF NothingStored, StoreLooksForPreview, StoreAsksEnd, StoreQueuesRebuild, Store
<1> USE DEF NothingStored, sessionVars, taskVars, modelVars, hostVars, notifyVars
<1>3. CASE UNCHANGED vars
  BY <1>1, <1>3 DEF vars
<1>4. CASE TaskQuiet
  <2>1. UNCHANGED <<is_reconfigure_queued, render_at, ending, pending_end>>
    BY <1>4, TaskQuietKeeps, TaskQuietKeepsHost
  <2>2. UNCHANGED <<store_at, stored>>
    BY <1>2, <1>4 DEF TaskQuiet, Begin, TokenRequest, Chunk, StageChunk, Patch, PatchRefused,
       RunJobFails, JobDone, Tidy, Finish, TouchAfterApply, ConfigStep, DecodeStarts, Parsed,
       PatchPrepared, DecodeRefused, Decoded, LeaseElapses, LinkDrops, ClientsLeave
  <2> QED
    BY <1>1, <2>1, <2>2
<1>5. ASSUME NEW h \in Handler, RunJob(h) \/ JobBeginAllocates(h)
      PROVE  NothingStored' /\ UNCHANGED stored
  BY <1>5 DEF RunJob, JobBeginAllocates
<1>6. ASSUME NEW h \in Handler, JobTaken(h)
      PROVE  NothingStored' /\ UNCHANGED stored
  BY <1>6 DEF JobTaken, JobBeginAnswered, JobBeginCreates, JobApply, JobPatchApply,
              JobRefused, JobShow, JobHighlight, JobEnd, Ends, RunsJob, Runs
<1>7. CASE Cleanup \/ LeaseTaskDue \/ LeaseLooks \/ EndTaskDue \/ EndLooks
  BY <1>1, <1>7 DEF Cleanup, LeaseTaskDue, LeaseLooks, EndTaskDue, EndLooks, NoEnding
<1>8. CASE LeaseEnds \/ EndEnds
  BY <1>1, <1>8 DEF LeaseEnds, EndEnds, Ends, NoEnding
<1>9. CASE LinkDropAsksEnd
  BY <1>1, <1>9 DEF LinkDropAsksEnd, AsksEnd
<1> QED
  BY <1>1, <1>2, <1>3, <1>4, <1>5, <1>6, <1>7, <1>8, <1>9, TaskCases

\* What an end, and a failed patch, put back.
LEMMA ShownStep ==
    ASSUME "store" \notin Events, TypeOK, ApplyInv, JobIsAwaited, RebuildInv, AskedInv, CleanInv,
           ShownInv, [Next]_vars
    PROVE  ReplacedIsMarked' /\ StagedIsShown'
<1> TaskTypeOK
  BY DEF TypeOK
<1>0. /\ NothingStored /\ ReplacedIsMarked /\ StagedIsShown /\ PlanIsOfStaged
      /\ UNCHANGED stored /\ ~RebuildStarts /\ ~RebuildShows
  BY NothingStoredStep DEF ShownInv
<1> DEFINE Shown == ReplacedIsMarked' /\ StagedIsShown'
<1> USE DEF ReplacedIsMarked, StagedIsShown, IsActive
<1>1. ASSUME UNCHANGED <<token, has_applied, render_at, ending, staged, screens>>
      PROVE  Shown
  BY <1>0, <1>1
<1>2. CASE TaskQuiet \/ UNCHANGED vars
  BY <1>1, <1>2, TaskQuietKeeps, TaskQuietKeepsHost
     DEF vars, taskVars, sessionVars, modelVars, hostVars
<1>3. ASSUME NEW h \in Handler, RunJob(h) \/ JobBeginAnswered(h) \/ JobRefused(h) \/ JobShow(h)
      PROVE  Shown
  BY <1>1, <1>3 DEF RunJob, JobBeginAnswered, BeginRenews, BeginRefused, JobRefused, JobShow,
                    Renewed, sessionVars, modelVars, hostVars
<1>4. ASSUME NEW h \in Handler, JobHighlight(h)
      PROVE  Shown
  BY <1>1, <1>4 DEF JobHighlight, Touch, Renewed, sessionVars, modelVars
<1>5. ASSUME NEW h \in Handler, JobApply(h)
      PROVE  Shown
  BY <1>0, <1>5 DEF JobApply, ApplyFails, Shows, ShowFails, RunsJob, Runs
<1>6. ASSUME NEW h \in Handler, JobPatchApply(h)
      PROVE  Shown
  <2>1. /\ IsActive /\ staged # NoConfig /\ has_applied /\ screens = staged
        /\ render_at = "idle" /\ UNCHANGED <<token, render_at>>
        /\ plan_base = staged
    BY <1>0, <1>6, PlanIsFollowed DEF JobPatchApply, RunsJob, Runs
  <2>2. \/ screens' = patched /\ staged' = patched /\ UNCHANGED has_applied
        \/ screens' = staged /\ UNCHANGED <<staged, has_applied>>
        \/ screens' \in {stored, Broken} /\ staged' = NoConfig
    BY <1>6, <2>1 DEF JobPatchApply, PatchesInPlace, Shows, PatchFails, RestoresStored, ShowFails
  <2> QED
    BY <1>0, <2>1, <2>2
<1>7. ASSUME NEW h \in Handler, NEW new \in Token \ CarriedTokens, JobBeginCreates(h, new)
      PROVE  Shown
  <2>1. /\ ~IsActive /\ render_at = "idle" /\ render_at' = "allocate"
        /\ UNCHANGED <<staged, screens>>
    BY <1>7 DEF JobBeginCreates, BeginCreates, RunsJob, Runs, modelVars, hostVars
  <2>2. staged = NoConfig /\ screens \in {stored, Broken}
    BY <1>0, <2>1 DEF CleanInv, Clean
  <2> QED
    BY <1>0, <2>1, <2>2
<1>8. ASSUME NEW h \in Handler, JobBeginAllocates(h)
      PROVE  Shown
  <2>1. staged = NoConfig /\ screens \in {stored, Broken}
    BY <1>0, <1>8 DEF JobBeginAllocates, CleanInv, Clean
  <2> QED
    BY <1>0, <1>8, <2>1 DEF JobBeginAllocates
<1>9. ASSUME NEW who, Ends(who), render_at \in {"idle", "end"}, UNCHANGED <<staged, screens>>
      PROVE  Shown
  BY <1>0, <1>9 DEF Ends, CloseLocked
<1>10. ASSUME NEW h \in Handler, JobEnd(h)
       PROVE  Shown
  <2>1. CASE Ends("client")
    BY <1>9, <1>10, <2>1 DEF JobEnd, RunsJob, Runs, modelVars, hostVars
  <2>2. CASE ~Ends("client")
    BY <1>1, <1>10, <2>2 DEF JobEnd, Touch, Renewed, sessionVars, modelVars, hostVars
  <2> QED
    BY <2>1, <2>2
<1>11. CASE LeaseEnds \/ EndEnds
  <2>1. CASE \E who : Ends(who)
    BY <1>9, <1>11, <2>1 DEF LeaseEnds, EndEnds, modelVars, hostVars
  <2>2. CASE ~\E who : Ends(who)
    BY <1>0, <1>11, <2>2 DEF LeaseEnds, EndEnds, sessionVars, modelVars, hostVars
  <2> QED
    BY <2>1, <2>2
<1>12. CASE Cleanup
  <2>1. ~IsActive /\ ending.by # "stored" /\ staged' = NoConfig
    BY <1>0, <1>12 DEF Cleanup, AskedInv, NothingStored
  <2>2. screens' \in {stored, Broken}
    BY <1>0, <1>12, <2>1 DEF Cleanup, RestoresStored, Shows, ShowFails
  <2> QED
    BY <1>0, <2>1, <2>2
<1>13. CASE LeaseLooks \/ EndLooks
  BY <1>0, <1>13 DEF LeaseLooks, EndLooks, Runs, sessionVars, modelVars, hostVars
<1>14. CASE LeaseTaskDue \/ EndTaskDue \/ LinkDropAsksEnd \/ StoreAsksEnd \/ StoreQueuesRebuild
  BY <1>1, <1>14 DEF LeaseTaskDue, EndTaskDue, LinkDropAsksEnd, StoreAsksEnd,
                     StoreQueuesRebuild, sessionVars, modelVars, hostVars
<1> QED
  BY <1>0, <1>2, <1>3, <1>4, <1>5, <1>6, <1>7, <1>8, <1>10, <1>11, <1>12, <1>13, <1>14,
     TaskCases DEF JobTaken

-----------------------------------------------------------------------------
\* All that is on the screens, and why it is there.
PreviewInv ==
    /\ TypeOK
    /\ ApplyInv
    /\ JobIsAwaited
    /\ RebuildInv
    /\ AskedInv
    /\ CleanInv
    /\ ShownInv

LEMMA PreviewInvHolds == "store" \notin Events => (Spec => []PreviewInv)
<1> SUFFICES ASSUME "store" \notin Events
             PROVE  Spec => []PreviewInv
  OBVIOUS
<1>1. Init => PreviewInv
  <2>1. Init => RebuildInv /\ AskedInv /\ CleanInv
    BY DEF Init, RebuildInv, RebuildIsQueued, HasOnce, AskedInv, CleanInv, Clean
  <2>2. Init => ShownInv
    BY DEF Init, ShownInv, NothingStored, NoEnding, PlanIsOfStaged, ReplacedIsMarked,
           StagedIsShown
  <2> QED
    BY <2>1, <2>2, InitType, ApplyInvInit, JobIsAwaitedInit DEF PreviewInv
<1>2. PreviewInv /\ [Next]_vars => PreviewInv'
  <2> SUFFICES ASSUME PreviewInv, [Next]_vars
               PROVE  PreviewInv'
    OBVIOUS
  <2> USE DEF PreviewInv, ShownInv
  <2>1. TypeOK' /\ ApplyInv' /\ JobIsAwaited'
    BY TypeStep, ApplyInvStep, JobIsAwaitedStep
  <2>2. RebuildInv' /\ AskedInv' /\ CleanInv'
    BY RebuildInvStep, AskedInvStep, CleanInvStep
  <2>3. NothingStored' /\ PlanIsOfStaged'
    BY NothingStoredStep, PlanStep
  <2>4. ReplacedIsMarked' /\ StagedIsShown'
    BY ShownStep
  <2> QED
    BY <2>1, <2>2, <2>3, <2>4
<1> QED
  BY <1>1, <1>2, PTL DEF Spec

\* While nothing is stored, staged_ is what the screens show: a patch never lands on
\* screens it was not planned for (ui_preview_service.h:187).
THEOREM StagedIsShownHolds == "store" \notin Events => (Spec => []StagedIsShown)
<1>1. PreviewInv => StagedIsShown
  BY DEF PreviewInv, ShownInv
<1> QED
  BY <1>1, PreviewInvHolds, PTL

\* While nothing is stored, an end leaves the stored screens, unless not even they
\* can be shown (RestoreStoredScreens() in ui_preview_service.cpp).
THEOREM EndShowsStoredHolds == "store" \notin Events => (Spec => []EndShowsStored)
<1>1. PreviewInv => EndShowsStored
  BY DEF PreviewInv, ShownInv, ReplacedIsMarked, EndShowsStored
<1> QED
  BY <1>1, PreviewInvHolds, PTL

=============================================================================
