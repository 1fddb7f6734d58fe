-------------------------- MODULE UiPreviewService --------------------------
(***************************************************************************)
(* The UI preview service (domain/ui_preview_domain/ui_preview_service.cpp) *)
(* over its session, with the threads it lives between:                    *)
(*                                                                         *)
(*   - the handlers, which serve the client's requests and block while the *)
(*     job they handed to a work queue runs (one job at a time, job_lock_); *)
(*   - the render work queue, a FIFO that runs one item at a time: the jobs *)
(*     that touch the screens, the lease task, the end task, and the       *)
(*     rebuild UiController queues when a configuration was stored;        *)
(*   - the configuration work queue, which decodes;                        *)
(*   - the thread that stores a configuration, and the one that hears of   *)
(*     the link dropping.                                                  *)
(*                                                                         *)
(* A step is one call into the session, or one access to what the threads  *)
(* share; what a thread does on its own between two of them is part of the *)
(* step.  A configuration is a value of Config: what is on the screens is  *)
(* one of them whole, or Broken (a show that failed half way, or a patch   *)
(* put onto screens it was not prepared for).                              *)
(***************************************************************************)
EXTENDS UiPreviewSession, Sequences

CONSTANTS Handler,     \* the threads that serve requests
          NoHandler,   \* job_ = nullptr
          Config,      \* UI configurations, staged or stored
          NoConfig,    \* a null pointer to one
          Broken,      \* screens that show no configuration whole
          Events       \* which of AllEvents the environment lets happen

AllEvents == {"lease_out",       \* as long as a lease passes
              "link_drop",       \* the local link drops
              "store",           \* a client stores a configuration
              "clients_leave",   \* the clients stop sending requests
              "only_then",       \* leases and links outlast them, and end only then
              "alloc_fails",     \* the stage buffer cannot be allocated
              "show_fails",      \* a show of a configuration fails half way
              "queue_fails"}     \* a work queue takes nothing

ASSUME ServiceAssumption ==
    /\ NoHandler \notin Handler
    /\ NoConfig \notin Config
    /\ Broken \notin Config
    /\ Events \subseteq AllEvents

VARIABLES at,            \* where each handler is in its request
          req,           \* the request (later: the job) it works on
          job,           \* the handler whose job is job_, holding job_lock_
          result,        \* "none" until job_done_ is given, then the answer
          render_queue,  \* the items queued on the render work queue
          render_at,     \* where the render thread is in an item
          ending,        \* what End() found, while EndSession() goes on
          lease_armed,   \* lease_task_ is waiting for its delay
          end_armed,     \* end_task_ is waiting for its delay
          config_at,     \* the configuration thread: "idle" or "decoding"
          pending_end,   \* pending_end_, the reasons an end was asked for
          link_at, store_at,  \* the thread a link drop / a store is told on
          parsed,        \* parsed_
          staged,        \* staged_
          patched,       \* patched_
          plan_base,     \* the configuration patch_plan_ starts from
          stored,        \* the configuration UiConfigurationManager stores
          is_reconfigure_queued,  \* UiController::is_reconfigure_queued_
          screens,       \* what the screens show
          is_nav_pinned, \* gestures do not navigate
          is_outlined,   \* a widget is highlighted
          connected      \* the clients still send requests

handlerVars == <<at, req, job, result>>
taskVars == <<render_queue, render_at, ending, lease_armed, end_armed>>
modelVars == <<parsed, staged, patched, plan_base>>
hostVars == <<stored, is_reconfigure_queued, screens, is_nav_pinned, is_outlined>>
notifyVars == <<pending_end, link_at, store_at>>
vars == <<sessionVars, handlerVars, taskVars, config_at, modelVars, hostVars,
          notifyVars, connected>>

ConfigJobs == {"PARSE", "PATCH_PREPARE"}
StageJobs == {"PARSE", "APPLY"}
PatchJobs == {"PATCH_PREPARE", "PATCH_APPLY"}
RenderJobs == {"BEGIN", "APPLY", "PATCH_APPLY", "SHOW", "HIGHLIGHT", "END"}
JobKind == ConfigJobs \cup RenderJobs
Item == {"job", "lease", "end", "rebuild"}
Reason == {"LINK_DROPPED", "STORED"}

\* Job: its kind, the token its request carries, and what kind needs of it.
Request == [kind : JobKind \cup {"NONE"}, token : Token \cup {NoToken},
            pinned : BOOLEAN, rev : Revs]
NoRequest == [kind |-> "NONE", token |-> NoToken, pinned |-> TRUE, rev |-> 0]

\* What End() returned, and who asked.
Ending == [by : {"none", "client", "lease", "link", "stored"},
           replaced : BOOLEAN]
NoEnding == [by |-> "none", replaced |-> FALSE]

HandlerTypeOK ==
    /\ at \in [Handler -> {"idle", "submit", "wait", "tidy", "finish", "touch"}]
    /\ req \in [Handler -> Request]
    /\ job \in Handler \cup {NoHandler}
    /\ result \in {"none", "ok", "error"}

TaskTypeOK ==
    /\ render_queue \in Seq(Item)
    /\ render_at \in {"idle", "allocate", "end", "cleanup", "rebuild"}
    /\ ending \in Ending
    /\ lease_armed \in BOOLEAN
    /\ end_armed \in BOOLEAN

ModelTypeOK ==
    /\ parsed \in Config \cup {NoConfig}
    /\ staged \in Config \cup {NoConfig}
    /\ patched \in Config \cup {NoConfig}
    /\ plan_base \in Config \cup {NoConfig}

HostTypeOK ==
    /\ stored \in Config
    /\ is_reconfigure_queued \in BOOLEAN
    /\ screens \in Config \cup {Broken}
    /\ is_nav_pinned \in BOOLEAN
    /\ is_outlined \in BOOLEAN

NotifyTypeOK ==
    /\ pending_end \subseteq Reason
    /\ link_at \in {"idle", "active"}
    /\ store_at \in {"idle", "stored", "active", "rebuild"}

TypeOK ==
    /\ SessionTypeOK
    /\ HandlerTypeOK
    /\ TaskTypeOK
    /\ ModelTypeOK
    /\ HostTypeOK
    /\ NotifyTypeOK
    /\ config_at \in {"idle", "decoding"}
    /\ connected \in BOOLEAN

\* Initialize() has created the tasks and the stored screens are showing.
Init ==
    /\ SessionInit
    /\ at = [h \in Handler |-> "idle"]
    /\ req = [h \in Handler |-> NoRequest]
    /\ job = NoHandler
    /\ result = "none"
    /\ render_queue = <<>>
    /\ render_at = "idle"
    /\ ending = NoEnding
    /\ lease_armed = FALSE
    /\ end_armed = FALSE
    /\ config_at = "idle"
    /\ pending_end = {}
    /\ link_at = "idle"
    /\ store_at = "idle"
    /\ parsed = NoConfig
    /\ staged = NoConfig
    /\ patched = NoConfig
    /\ plan_base = NoConfig
    /\ stored \in Config
    /\ is_reconfigure_queued = FALSE
    /\ screens = stored
    /\ is_nav_pinned = FALSE
    /\ is_outlined = FALSE
    /\ connected = TRUE

-----------------------------------------------------------------------------
\* A work item is queued once: submitting a queued one changes nothing.
Submitted(item) ==
    IF \E i \in DOMAIN render_queue : render_queue[i] = item
    THEN render_queue
    ELSE Append(render_queue, item)

\* A queued item is cancelled: the others stay in their order.
Cancelled(item) ==
    IF \E i \in DOMAIN render_queue : render_queue[i] = item
    THEN LET at_item == CHOOSE i \in DOMAIN render_queue : render_queue[i] = item IN
         [i \in 1 .. Len(render_queue) - 1 |->
            IF i < at_item THEN render_queue[i] ELSE render_queue[i + 1]]
    ELSE render_queue

-----------------------------------------------------------------------------
\* The requests.  A handler takes one when it has none.
Takes(h) == connected /\ at[h] = "idle"

Works(h, kind, t, pinned, r) ==
    /\ req' = [req EXCEPT ![h] = [kind |-> kind, token |-> t, pinned |-> pinned, rev |-> r]]
    /\ at' = [at EXCEPT ![h] = "submit"]
    /\ UNCHANGED <<job, result>>

\* BEGIN, and the requests that carry a token and are one job of the render
\* queue.
Begin(h, t, pinned) ==
    /\ Takes(h)
    /\ Works(h, "BEGIN", t, pinned, 0)
    /\ UNCHANGED <<sessionVars, taskVars, config_at, modelVars, hostVars,
                   notifyVars, connected>>

TokenRequest(h, kind, t) ==
    /\ Takes(h)
    /\ Works(h, kind, t, TRUE, 0)
    /\ UNCHANGED <<sessionVars, taskVars, config_at, modelVars, hostVars,
                   notifyVars, connected>>

\* STAGE: a chunk that is refused, or is not the last, is answered at once.  (One
\* that does not hold the session changes nothing.)
StageChunk(h, t, offset, n, head) ==
    /\ Takes(h)
    /\ \/ /\ StageRefused(t, offset, n, head)
          /\ UNCHANGED handlerVars
       \/ /\ StageTaken(t, offset, n, head)
          /\ IF is_applying'
             THEN Works(h, "PARSE", t, TRUE, 0)
             ELSE UNCHANGED handlerVars
    /\ UNCHANGED <<taskVars, config_at, modelVars, hostVars, notifyVars, connected>>

\* PATCH: the token is judged first, then the request's size, then whether the
\* session can take it.  Every refusal has renewed the lease and no more.
Patch(h, t, r) ==
    /\ Takes(h)
    /\ BeginPatch(t, r)
    /\ Works(h, "PATCH_PREPARE", t, TRUE, r)
    /\ UNCHANGED <<taskVars, config_at, modelVars, hostVars, notifyVars, connected>>

PatchRefused(h, t) ==
    /\ Takes(h)
    /\ Holds(t)
    /\ Touch(t)
    /\ UNCHANGED <<handlerVars, taskVars, config_at, modelVars, hostVars,
                   notifyVars, connected>>

ClientsLeave ==
    /\ "clients_leave" \in Events
    /\ connected
    /\ connected' = FALSE
    /\ UNCHANGED <<sessionVars, handlerVars, taskVars, config_at, modelVars,
                   hostVars, notifyVars>>

-----------------------------------------------------------------------------
\* Where a request goes once its job is over: a stage or a patch has its
\* second job, or what it worked with to put away; the others are answered.
Answered(h, answer) ==
    LET kind == req[h].kind IN
    \/ /\ kind = "PARSE" /\ answer = "ok"
       /\ req' = [req EXCEPT ![h].kind = "APPLY"]
       /\ at' = [at EXCEPT ![h] = "submit"]
    \/ /\ kind = "PATCH_PREPARE" /\ answer = "ok"
       /\ req' = [req EXCEPT ![h].kind = "PATCH_APPLY"]
       /\ at' = [at EXCEPT ![h] = "submit"]
    \/ /\ kind \in StageJobs \cup PatchJobs
       /\ ~(kind \in ConfigJobs /\ answer = "ok")
       /\ at' = [at EXCEPT ![h] = "tidy"]
       /\ UNCHANGED req
    \/ /\ kind \notin StageJobs \cup PatchJobs
       /\ req' = [req EXCEPT ![h] = NoRequest]
       /\ at' = [at EXCEPT ![h] = "idle"]

\* RunJob(): job_lock_ is free and the queue takes the job.
RunJob(h) ==
    /\ at[h] = "submit"
    /\ job = NoHandler
    /\ job' = h
    /\ at' = [at EXCEPT ![h] = "wait"]
    /\ render_queue' = IF req[h].kind \in RenderJobs THEN Submitted("job") ELSE render_queue
    /\ UNCHANGED <<sessionVars, req, result, render_at, ending, lease_armed,
                   end_armed, config_at, modelVars, hostVars, notifyVars, connected>>

\* The queue takes nothing: the job is not run.
RunJobFails(h) ==
    /\ "queue_fails" \in Events
    /\ at[h] = "submit"
    /\ job = NoHandler
    /\ Answered(h, "error")
    /\ UNCHANGED <<sessionVars, job, result, taskVars, config_at, modelVars,
                   hostVars, notifyVars, connected>>

\* The semaphore is given: the handler goes on, and gives up job_lock_.
JobDone(h) ==
    /\ at[h] = "wait"
    /\ job = h
    /\ result # "none"
    /\ job' = NoHandler
    /\ result' = "none"
    /\ Answered(h, result)
    /\ UNCHANGED <<sessionVars, taskVars, config_at, modelVars, hostVars,
                   notifyVars, connected>>

\* The end of Stage() and Patch(): what the jobs worked with is dropped, then
\* the apply is over, then the lease starts again.  Three calls, three steps.
Tidy(h) ==
    /\ at[h] = "tidy"
    /\ at' = [at EXCEPT ![h] = "finish"]
    /\ IF req[h].kind \in StageJobs
       THEN DropStage /\ parsed' = NoConfig /\ UNCHANGED <<patched, plan_base>>
       ELSE /\ patched' = NoConfig
            /\ plan_base' = NoConfig
            /\ UNCHANGED <<transferVars, parsed>>
    /\ UNCHANGED <<token, is_pinned, is_fresh, lease_out, rev, has_applied,
                   has_navigated, is_applying, capacity, req, job, result,
                   taskVars, config_at, staged, hostVars, notifyVars, connected>>

Finish(h) ==
    /\ at[h] = "finish"
    /\ at' = [at EXCEPT ![h] = "touch"]
    /\ FinishApply
    /\ UNCHANGED <<req, job, result, taskVars, config_at, modelVars, hostVars,
                   notifyVars, connected>>

TouchAfterApply(h) ==
    /\ at[h] = "touch"
    /\ Touch(req[h].token)
    /\ at' = [at EXCEPT ![h] = "idle"]
    /\ req' = [req EXCEPT ![h] = NoRequest]
    /\ UNCHANGED <<job, result, taskVars, config_at, modelVars, hostVars,
                   notifyVars, connected>>

-----------------------------------------------------------------------------
\* The configuration work queue: ExecuteParse() and ExecutePatchPrepare().  The
\* thread reads the buffer, or the staged configuration, all the while.
ConfigJob(h) == job = h /\ at[h] = "wait" /\ result = "none" /\ req[h].kind \in ConfigJobs

DecodeStarts(h) ==
    /\ config_at = "idle"
    /\ ConfigJob(h)
    /\ config_at' = "decoding"
    /\ UNCHANGED <<sessionVars, handlerVars, taskVars, modelVars, hostVars,
                   notifyVars, connected>>

Decoded(answer) ==
    /\ config_at = "decoding"
    /\ config_at' = "idle"
    /\ result' = answer
    /\ UNCHANGED <<sessionVars, at, req, job, taskVars, staged, hostVars,
                   notifyVars, connected>>

Parsed(h, c) ==
    /\ ConfigJob(h)
    /\ req[h].kind = "PARSE"
    /\ HasStaged
    /\ Decoded("ok")
    /\ parsed' = c
    /\ UNCHANGED <<patched, plan_base>>

PatchPrepared(h, c) ==
    /\ ConfigJob(h)
    /\ req[h].kind = "PATCH_PREPARE"
    /\ IsActive
    /\ staged # NoConfig
    /\ Decoded("ok")
    /\ patched' = c
    /\ plan_base' = staged
    /\ UNCHANGED parsed

\* The bytes or the records are refused, or there is nothing to patch.
DecodeRefused(h) ==
    /\ ConfigJob(h)
    /\ Decoded("error")
    /\ UNCHANGED <<parsed, patched, plan_base>>

-----------------------------------------------------------------------------
\* The render work queue: one item at a time, in the order they were queued.
Runs(item) ==
    /\ render_at = "idle"
    /\ render_queue # <<>>
    /\ Head(render_queue) = item
    /\ render_queue' = Tail(render_queue)

RunsJob(h, kind) == Runs("job") /\ job = h /\ req[h].kind = kind

\* ShowConfiguration() and ShowStoredConfiguration() rebuild the screens whole,
\* or fail half way.
Shows(c) == screens' = c
ShowFails == "show_fails" \in Events /\ screens' = Broken

\* RestoreStoredScreens(): the mark goes once the stored screens show.
RestoresStored ==
    \/ Shows(stored) /\ has_applied' = FALSE
    \/ ShowFails /\ UNCHANGED has_applied

\* ExecuteBegin() for a session that is open, or a request that is refused.
JobBeginAnswered(h) ==
    /\ RunsJob(h, "BEGIN")
    /\ \/ BeginRenews(req[h].token, req[h].pinned) /\ result' = "ok"
       \/ BeginRefused(req[h].token, req[h].pinned) /\ result' = "error"
    /\ UNCHANGED <<at, req, job, render_at, ending, lease_armed, end_armed,
                   config_at, modelVars, hostVars, notifyVars, connected>>

JobBeginCreates(h, new) ==
    /\ RunsJob(h, "BEGIN")
    /\ BeginCreates(req[h].token, req[h].pinned, new)
    /\ render_at' = "allocate"
    /\ UNCHANGED <<handlerVars, ending, lease_armed, end_armed, config_at,
                   modelVars, hostVars, notifyVars, connected>>

\* ... and the rest of it, once the session exists.
JobBeginAllocates(h) ==
    /\ render_at = "allocate"
    /\ job = h
    /\ render_at' = "idle"
    /\ \/ /\ AllocateBuffer
          /\ staged' = NoConfig
          /\ is_nav_pinned' = req[h].pinned
          /\ lease_armed' = TRUE
          /\ result' = "ok"
       \/ /\ "alloc_fails" \in Events
          /\ CloseLocked
          /\ result' = "error"
          /\ UNCHANGED <<staged, is_nav_pinned, lease_armed>>
    /\ UNCHANGED <<at, req, job, render_queue, ending, end_armed, config_at,
                   parsed, patched, plan_base, stored, is_reconfigure_queued,
                   screens, is_outlined, notifyVars, connected>>

\* A show that fails has dropped the screens there were, and they were marked
\* replaced before: the stored ones come back, or the mark stays.
ApplyFails ==
    \/ Shows(stored) /\ has_applied' = FALSE
    \/ ShowFails /\ has_applied' = TRUE

\* ExecuteApply(): the revision counts only once the screens show whole.
JobApply(h) ==
    /\ RunsJob(h, "APPLY")
    /\ IsActive
    /\ parsed # NoConfig
    /\ parsed' = NoConfig
    /\ \/ /\ Shows(parsed)
          /\ has_applied' = TRUE
          /\ staged' = parsed
          /\ CommitStage
          /\ result' = "ok"
       \/ /\ "show_fails" \in Events
          /\ ApplyFails
          /\ staged' = NoConfig
          /\ result' = "error"
          /\ UNCHANGED <<rev, transferVars>>
    /\ UNCHANGED <<token, is_pinned, is_fresh, lease_out, has_navigated,
                   is_applying, capacity, at, req, job, render_at, ending,
                   lease_armed, end_armed, config_at, patched, plan_base, stored,
                   is_reconfigure_queued, is_nav_pinned, is_outlined,
                   notifyVars, connected>>

\* IUiPreviewHost::ApplyPatch(): the plan brings the screens it starts from to
\* the patched configuration, in place or by a whole show.
PatchesInPlace == screens' = IF screens = plan_base THEN patched ELSE Broken

\* All or nothing: a patch that fails shows what was staged again, else what is
\* stored.
FaultyPatchFails ==
    \/ Shows(staged) /\ UNCHANGED <<staged, has_applied>>
    \/ RestoresStored /\ UNCHANGED staged

PatchFails ==
    \/ Shows(staged) /\ UNCHANGED <<staged, has_applied>>
    \/ RestoresStored /\ staged' = NoConfig

\* ExecutePatchApply().
JobPatchApply(h) ==
    /\ RunsJob(h, "PATCH_APPLY")
    /\ IsActive
    /\ patched # NoConfig
    /\ staged # NoConfig
    /\ \/ /\ PatchesInPlace \/ Shows(patched)
          /\ staged' = patched
          /\ CommitPatch(req[h].rev)
          /\ result' = "ok"
          /\ UNCHANGED has_applied
       \/ /\ "show_fails" \in Events
          /\ PatchFails
          /\ result' = "error"
          /\ UNCHANGED rev
    /\ UNCHANGED <<token, is_pinned, is_fresh, lease_out, has_navigated,
                   is_applying, capacity, transferVars, at, req, job, render_at,
                   ending, lease_armed, end_armed, config_at, parsed, patched,
                   plan_base, stored, is_reconfigure_queued, is_nav_pinned,
                   is_outlined, notifyVars, connected>>

\* SHOW, HIGHLIGHT and END of a request that does not hold the session.
FaultyJobRefused(h) ==
    /\ \E kind \in {"SHOW", "HIGHLIGHT", "END"} : RunsJob(h, kind)
    /\ ~Holds(req[h].token)
    /\ UNCHANGED <<sessionVars, handlerVars, render_at, ending, lease_armed,
                   end_armed, config_at, modelVars, hostVars, notifyVars, connected>>

JobRefused(h) ==
    /\ \E kind \in {"SHOW", "HIGHLIGHT", "END"} : RunsJob(h, kind)
    /\ ~Holds(req[h].token)
    /\ result' = "error"
    /\ UNCHANGED <<sessionVars, at, req, job, render_at, ending, lease_armed,
                   end_armed, config_at, modelVars, hostVars, notifyVars, connected>>

\* SHOW: the session remembers a navigation that was taken.
JobShow(h) ==
    /\ RunsJob(h, "SHOW")
    /\ Holds(req[h].token)
    /\ Renewed
    /\ \/ result' = "ok" /\ has_navigated' = TRUE
       \/ result' = "error" /\ UNCHANGED has_navigated
    /\ UNCHANGED <<rev, has_applied, is_applying, transferVars, at, req, job,
                   render_at, ending, lease_armed, end_armed, config_at,
                   modelVars, hostVars, notifyVars, connected>>

\* HIGHLIGHT: sets the outline or clears it; NOT_FOUND leaves it.
FaultyJobHighlight(h) ==
    /\ RunsJob(h, "HIGHLIGHT")
    /\ Touch(req[h].token)
    /\ \/ result' = "ok" /\ is_outlined' \in BOOLEAN
       \/ result' = "error" /\ UNCHANGED is_outlined
    /\ UNCHANGED <<at, req, job, render_at, ending, lease_armed, end_armed,
                   config_at, modelVars, stored, is_reconfigure_queued, screens,
                   is_nav_pinned, notifyVars, connected>>

JobHighlight(h) ==
    /\ RunsJob(h, "HIGHLIGHT")
    /\ Holds(req[h].token)
    /\ Touch(req[h].token)
    /\ \/ result' = "ok" /\ is_outlined' \in BOOLEAN
       \/ result' = "error" /\ UNCHANGED is_outlined
    /\ UNCHANGED <<at, req, job, render_at, ending, lease_armed, end_armed,
                   config_at, modelVars, stored, is_reconfigure_queued, screens,
                   is_nav_pinned, notifyVars, connected>>

-----------------------------------------------------------------------------
\* EndSession(): End() first, and the rest once the session is over.
FaultyEndsApplying(who) ==
    /\ CloseLocked
    /\ render_at' = "cleanup"
    /\ ending' = [by |-> who, replaced |-> has_applied]

FaultyEndsUnmarked(who) ==
    /\ ~is_applying
    /\ CloseLocked
    /\ render_at' = "cleanup"
    /\ ending' = [by |-> who, replaced |-> has_applied']

Ends(who) ==
    /\ ~is_applying
    /\ CloseLocked
    /\ render_at' = "cleanup"
    /\ ending' = [by |-> who, replaced |-> has_applied]

\* END: BUSY while a configuration is being applied, as another request of the
\* client may be doing.
JobEnd(h) ==
    /\ RunsJob(h, "END")
    /\ Holds(req[h].token)
    /\ \/ Ends("client") /\ UNCHANGED result
       \/ /\ is_applying
          /\ Touch(req[h].token)
          /\ result' = "error"
          /\ UNCHANGED <<render_at, ending>>
    /\ UNCHANGED <<at, req, job, lease_armed, end_armed, config_at, modelVars,
                   hostVars, notifyVars, connected>>

\* The lease task is cancelled, every reason for an end is answered, what the
\* session did to the gauge is undone, and what a revert puts back is shown.
Cleanup ==
    /\ render_at = "cleanup"
    /\ render_at' = "idle"
    /\ render_queue' = Cancelled("lease")
    /\ lease_armed' = FALSE
    /\ pending_end' = {}
    /\ staged' = NoConfig
    /\ is_nav_pinned' = FALSE
    /\ is_outlined' = FALSE
    /\ IF ending.by # "stored" /\ ending.replaced
       THEN RestoresStored
       ELSE UNCHANGED <<screens, has_applied>>
    /\ result' = IF ending.by = "client" THEN "ok" ELSE result
    /\ ending' = NoEnding
    /\ UNCHANGED <<token, is_pinned, is_fresh, lease_out, rev, has_navigated,
                   is_applying, capacity, transferVars, at, req, job, end_armed,
                   config_at, parsed, patched, plan_base, stored,
                   is_reconfigure_queued, link_at, store_at, connected>>

-----------------------------------------------------------------------------
\* The lease task and its delay.
\* An event the environment may bring now.
Comes(event) == event \in Events /\ ("only_then" \in Events => ~connected)

LeaseElapses ==
    /\ Comes("lease_out")
    /\ LeaseRunsOut
    /\ UNCHANGED <<handlerVars, taskVars, config_at, modelVars, hostVars,
                   notifyVars, connected>>

LeaseTaskDue ==
    /\ Comes("lease_out")
    /\ lease_armed
    /\ lease_armed' = FALSE
    /\ render_queue' = Submitted("lease")
    /\ UNCHANGED <<sessionVars, handlerVars, render_at, ending, end_armed,
                   config_at, modelVars, hostVars, notifyVars, connected>>

\* ProcessLease() looks, and looks again later unless the lease ran out.
FaultyLeaseLooks ==
    /\ Runs("lease")
    /\ IF IsActive /\ lease_out
       THEN render_at' = "end" /\ ending' = [NoEnding EXCEPT !.by = "lease"]
       ELSE UNCHANGED <<render_at, ending>>
    /\ UNCHANGED <<sessionVars, handlerVars, lease_armed, end_armed, config_at,
                   modelVars, hostVars, notifyVars, connected>>

LeaseLooks ==
    /\ Runs("lease")
    /\ \/ /\ IsActive /\ lease_out
          /\ render_at' = "end"
          /\ ending' = [NoEnding EXCEPT !.by = "lease"]
          /\ UNCHANGED lease_armed
       \/ /\ ~(IsActive /\ lease_out)
          /\ lease_armed' = IsActive
          /\ UNCHANGED <<render_at, ending>>
    /\ UNCHANGED <<sessionVars, handlerVars, end_armed, config_at, modelVars,
                   hostVars, notifyVars, connected>>

\* ... and ends the session it saw run out, or waits for its apply.
LeaseEnds ==
    /\ render_at = "end"
    /\ ending.by = "lease"
    /\ \/ Ends("lease") /\ UNCHANGED lease_armed
       \/ /\ is_applying
          /\ render_at' = "idle"
          /\ ending' = NoEnding
          /\ lease_armed' = TRUE
          /\ UNCHANGED sessionVars
    /\ UNCHANGED <<handlerVars, render_queue, end_armed, config_at, modelVars,
                   hostVars, notifyVars, connected>>

-----------------------------------------------------------------------------
\* The end task and its retry.
EndTaskDue ==
    /\ end_armed
    /\ end_armed' = FALSE
    /\ render_queue' = Submitted("end")
    /\ UNCHANGED <<sessionVars, handlerVars, render_at, ending, lease_armed,
                   config_at, modelVars, hostVars, notifyVars, connected>>

\* A mistake it could have, which nothing uses: ProcessEnd() leaves the end to
\* the apply it meets.
FaultyEndLooks ==
    /\ Runs("end")
    /\ \/ /\ ~IsActive
          /\ pending_end' = {}
          /\ UNCHANGED <<render_at, ending>>
       \/ /\ IsActive /\ (is_applying \/ pending_end = {})
          /\ UNCHANGED <<pending_end, render_at, ending>>
       \/ /\ IsActive /\ ~is_applying /\ pending_end # {}
          /\ render_at' = "end"
          /\ ending' = [NoEnding EXCEPT
                !.by = IF "STORED" \in pending_end THEN "stored" ELSE "link"]
          /\ UNCHANGED pending_end
    /\ UNCHANGED <<sessionVars, handlerVars, lease_armed, end_armed, config_at,
                   modelVars, hostVars, link_at, store_at, connected>>

\* ProcessEnd() looks for a session to end, that is not applying, and a reason.
EndLooks ==
    /\ Runs("end")
    /\ \/ /\ ~IsActive
          /\ pending_end' = {}
          /\ UNCHANGED <<render_at, ending, end_armed>>
       \/ /\ IsActive /\ is_applying
          /\ end_armed' = TRUE
          /\ UNCHANGED <<pending_end, render_at, ending>>
       \/ /\ IsActive /\ ~is_applying /\ pending_end = {}
          /\ UNCHANGED <<pending_end, render_at, ending, end_armed>>
       \/ /\ IsActive /\ ~is_applying /\ pending_end # {}
          /\ render_at' = "end"
          /\ ending' = [NoEnding EXCEPT
                !.by = IF "STORED" \in pending_end THEN "stored" ELSE "link"]
          /\ UNCHANGED <<pending_end, end_armed>>
    /\ UNCHANGED <<sessionVars, handlerVars, lease_armed, config_at, modelVars,
                   hostVars, link_at, store_at, connected>>

EndEnds ==
    /\ render_at = "end"
    /\ ending.by \in {"link", "stored"}
    /\ \/ Ends(ending.by) /\ UNCHANGED end_armed
       \/ /\ is_applying
          /\ render_at' = "idle"
          /\ ending' = NoEnding
          /\ end_armed' = TRUE
          /\ UNCHANGED sessionVars
    /\ UNCHANGED <<handlerVars, render_queue, lease_armed, config_at, modelVars,
                   hostVars, notifyVars, connected>>

\* A reason is set after the session was seen open, and the end task is to run at
\* once: two accesses, but a run of the task between them only adds one that
\* finds nothing to do.
AsksEnd(reason) ==
    /\ pending_end' = pending_end \cup {reason}
    /\ end_armed' = FALSE
    /\ render_queue' = Submitted("end")

-----------------------------------------------------------------------------
\* OnLinkDropped(), on the Bluetooth thread.
LinkDrops ==
    /\ Comes("link_drop")
    /\ link_at = "idle"
    /\ IsActive
    /\ link_at' = "active"
    /\ UNCHANGED <<sessionVars, handlerVars, taskVars, config_at, modelVars,
                   hostVars, pending_end, store_at, connected>>

LinkDropAsksEnd ==
    /\ link_at = "active"
    /\ link_at' = "idle"
    /\ AsksEnd("LINK_DROPPED")
    /\ UNCHANGED <<sessionVars, handlerVars, render_at, ending, lease_armed,
                   config_at, modelVars, hostVars, store_at, connected>>

-----------------------------------------------------------------------------
\* A configuration is stored, and UiController::OnConfigurationStored() runs on
\* the storing thread: the preview is told, then a rebuild is queued.
Store(c) ==
    /\ "store" \in Events
    /\ store_at = "idle"
    /\ stored' = c
    /\ store_at' = "stored"
    /\ UNCHANGED <<sessionVars, handlerVars, taskVars, config_at, modelVars,
                   is_reconfigure_queued, screens, is_nav_pinned, is_outlined,
                   pending_end, link_at, connected>>

StoreLooksForPreview ==
    /\ store_at = "stored"
    /\ store_at' = IF IsActive THEN "active" ELSE "rebuild"
    /\ UNCHANGED <<sessionVars, handlerVars, taskVars, config_at, modelVars,
                   hostVars, pending_end, link_at, connected>>

StoreAsksEnd ==
    /\ store_at = "active"
    /\ store_at' = "rebuild"
    /\ AsksEnd("STORED")
    /\ UNCHANGED <<sessionVars, handlerVars, render_at, ending, lease_armed,
                   config_at, modelVars, hostVars, link_at, connected>>

\* A rebuild already queued reads the latest configuration when it runs.
StoreQueuesRebuild ==
    /\ store_at = "rebuild"
    /\ store_at' = "idle"
    /\ \/ /\ is_reconfigure_queued' = TRUE
          /\ render_queue' = IF is_reconfigure_queued
                             THEN render_queue
                             ELSE Append(render_queue, "rebuild")
       \/ /\ "queue_fails" \in Events
          /\ ~is_reconfigure_queued
          /\ UNCHANGED <<is_reconfigure_queued, render_queue>>
    /\ UNCHANGED <<sessionVars, handlerVars, render_at, ending, lease_armed,
                   end_armed, config_at, modelVars, stored, screens,
                   is_nav_pinned, is_outlined, pending_end, link_at, connected>>

\* The flag goes first, so a store from here on queues another rebuild...
FaultyRebuildStarts ==
    /\ Runs("rebuild")
    /\ render_at' = "rebuild"
    /\ UNCHANGED <<sessionVars, handlerVars, ending, lease_armed, end_armed,
                   config_at, modelVars, hostVars, notifyVars, connected>>

RebuildStarts ==
    /\ Runs("rebuild")
    /\ render_at' = "rebuild"
    /\ is_reconfigure_queued' = FALSE
    /\ UNCHANGED <<sessionVars, handlerVars, ending, lease_armed, end_armed,
                   config_at, modelVars, stored, screens, is_nav_pinned,
                   is_outlined, notifyVars, connected>>

\* ... and what is stored is read only then.
RebuildShows ==
    /\ render_at = "rebuild"
    /\ render_at' = "idle"
    /\ Shows(stored) \/ ShowFails
    /\ UNCHANGED <<sessionVars, handlerVars, render_queue, ending, lease_armed,
                   end_armed, config_at, modelVars, stored,
                   is_reconfigure_queued, is_nav_pinned, is_outlined,
                   notifyVars, connected>>

-----------------------------------------------------------------------------
\* The tokens requests in flight carry: a new one is random, thus none of them.
CarriedTokens == {req[h].token : h \in Handler}

\* The tokens a request can carry: no client knows the one of a session whose
\* BEGIN is not over.
KnownTokens == IF render_at = "allocate" THEN Token \ {token} ELSE Token

Requests(h) ==
    \/ \E t \in KnownTokens \cup {NoToken}, pinned \in BOOLEAN : Begin(h, t, pinned)
    \/ \E t \in KnownTokens, kind \in {"SHOW", "HIGHLIGHT", "END"} : TokenRequest(h, kind, t)
    \/ \E t \in KnownTokens, n \in 0 .. MaxStageSize + 1, head \in Headers :
            StageChunk(h, t, 0, n, head)
    \/ \E t \in KnownTokens, offset \in 1 .. MaxStageSize, n \in 0 .. MaxStageSize + 1 :
            StageChunk(h, t, offset, n, NoHeader)
    \/ \E t \in KnownTokens, r \in Revs : Patch(h, t, r)
    \/ \E t \in KnownTokens : PatchRefused(h, t)

HandlerStep(h) ==
    \/ RunJobFails(h) \/ JobDone(h) \/ Tidy(h) \/ Finish(h) \/ TouchAfterApply(h)

ConfigStep ==
    \E h \in Handler :
        \/ DecodeStarts(h)
        \/ \E c \in Config : Parsed(h, c) \/ PatchPrepared(h, c)
        \/ DecodeRefused(h)

RenderStep ==
    \/ \E h \in Handler :
        \/ JobBeginAnswered(h)
        \/ \E new \in Token \ CarriedTokens : JobBeginCreates(h, new)
        \/ JobBeginAllocates(h)
        \/ JobApply(h)
        \/ JobPatchApply(h)
        \/ JobRefused(h)
        \/ JobShow(h)
        \/ JobHighlight(h)
        \/ JobEnd(h)
    \/ Cleanup
    \/ LeaseLooks
    \/ LeaseEnds
    \/ EndLooks
    \/ EndEnds
    \/ RebuildStarts
    \/ RebuildShows

NotifierStep ==
    LinkDropAsksEnd \/ StoreLooksForPreview \/ StoreAsksEnd \/ StoreQueuesRebuild

Next ==
    \/ \E h \in Handler : Requests(h) \/ RunJob(h) \/ HandlerStep(h)
    \/ ConfigStep
    \/ RenderStep
    \/ LeaseElapses
    \/ LeaseTaskDue
    \/ EndTaskDue
    \/ LinkDrops
    \/ \E c \in Config : Store(c)
    \/ NotifierStep
    \/ ClientsLeave

Spec == Init /\ [][Next]_vars

-----------------------------------------------------------------------------
(***************************************************************************)
(* Safety.                                                                 *)
(***************************************************************************)
\* From the last chunk, or the patch that was taken, to FinishApply().
InApply(h) ==
    /\ req[h].kind \in StageJobs \cup PatchJobs
    /\ at[h] \in {"submit", "wait", "tidy", "finish"}

\* is_applying is a lock: one handler at most is applying, it has the flag from
\* the call that took it to the call that gives it back, and the flag is never
\* left set (is_applying_, ui_preview_session.h:105).
ApplyExclusive ==
    /\ \A g, h \in Handler : InApply(g) /\ InApply(h) => g = h
    /\ is_applying <=> \E h \in Handler : InApply(h)

\* No end takes the session from under an apply: the session that takes the
\* last chunk or the patch is the one it is applied in, although the jobs of an
\* apply judge no token (Stage() and Patch() in ui_preview_service.cpp).
ApplyKeepsItsSession ==
    \A h \in Handler : InApply(h) => IsActive /\ token = req[h].token

\* What makes the two inductive: job_lock_ is held by the handler that waits, only
\* an apply has something to tidy, and no apply starts in a session that is still
\* being opened.
HandlersInStep ==
    \A h \in Handler :
        /\ at[h] = "wait" <=> job = h
        /\ at[h] \in {"tidy", "finish", "touch"} => req[h].kind \in StageJobs \cup PatchJobs

OpeningIsIdle == render_at = "allocate" => ~is_applying

ApplyInv ==
    /\ ApplyExclusive
    /\ ApplyKeepsItsSession
    /\ HandlersInStep
    /\ OpeningIsIdle

\* What is copied into the buffer fits it, and what is read from it was
\* allocated: an end that frees the buffer leaves no transfer behind (Stage()
\* and CloseLocked() in ui_preview_session.cpp).
TransferFits ==
    is_staging => IsActive /\ received <= length /\ length <= capacity

\* The revisions of a session go forward, whatever stages and patches race each
\* other, except that the one after the last representable one is 0.
RevGoesForward ==
    [][IsActive /\ token' = token => rev' >= rev \/ rev = MaxRev]_vars

\* Why they do: a patch is past the revision it was taken at, and meets no
\* transfer; a transfer is past it too, whatever happened since its first chunk.
RevInv ==
    /\ \A h \in Handler : InApply(h) /\ req[h].kind \in PatchJobs =>
            req[h].rev >= rev /\ ~is_staging
    /\ is_staging /\ requested_rev # NoRev => requested_rev > rev

\* A session that is over leaves nothing on the gauge: gestures navigate again,
\* no widget is outlined, and no staged configuration is kept for a patch of
\* the next session.
NothingLeftBehind ==
    ~IsActive /\ render_at = "idle" => ~is_nav_pinned /\ ~is_outlined /\ staged = NoConfig

\* The flag that keeps a store from queueing a second rebuild stands for one that
\* has yet to read what is stored: a store that finds it set is not lost, however
\* stores and rebuilds overlap (is_reconfigure_queued_, ui_controller.cpp:471).
RebuildIsQueued ==
    is_reconfigure_queued <=> \E i \in DOMAIN render_queue : render_queue[i] = "rebuild"

-----------------------------------------------------------------------------
\* What the screens show, in an environment that stores nothing meanwhile.

\* The session that ended put the stored screens back, if they could be shown.
EndShowsStored ==
    ~IsActive /\ render_at = "idle" => screens \in {stored, Broken}

\* staged_ is the configuration the screens show: what a patch applies onto
\* (ui_preview_service.h:187).
StagedIsShown == staged # NoConfig => screens = staged

\* An end that was asked for is not forgotten: while the session it asks for is
\* open, the end task is on its way, or at it, whichever applies and other ends it
\* met before.
AskedEndIsDue ==
    pending_end # {} /\ IsActive =>
        \/ end_armed
        \/ \E i \in DOMAIN render_queue : render_queue[i] = "end"
        \/ render_at = "end" /\ ending.by \in {"link", "stored"}

-----------------------------------------------------------------------------
(***************************************************************************)
(* What the code's documentation says and the code does not keep.           *)
(***************************************************************************)
\* The store's own rebuild shows what it stored (ui_preview_service.h:43): once
\* a store's rebuild has run and no session is open, the screens are the stored
\* ones.
StoreShowsWhatItStored ==
    /\ ~IsActive
    /\ render_at = "idle"
    /\ store_at = "idle"
    /\ ~is_reconfigure_queued
    => screens = stored

-----------------------------------------------------------------------------
(***************************************************************************)
(* Liveness.  Each queue's thread runs what it is given, a handler whose   *)
(* job is done goes on, and a delay elapses.  job_lock_ is handed to a     *)
(* waiting handler when it is given up, so none is passed over for ever.   *)
(***************************************************************************)
Fairness ==
    /\ WF_vars(RenderStep)
    /\ WF_vars(ConfigStep)
    /\ \A h \in Handler : SF_vars(RunJob(h)) /\ WF_vars(HandlerStep(h))
    /\ WF_vars(LeaseElapses)
    /\ WF_vars(LeaseTaskDue)
    /\ WF_vars(EndTaskDue)
    /\ WF_vars(NotifierStep)

FairSpec == Spec /\ Fairness

\* Every request is answered: no handler is left waiting on job_done_.
RequestsAreAnswered == \A h \in Handler : at[h] # "idle" ~> at[h] = "idle"

\* A session whose clients are gone ends: by its lease, or because the link
\* dropped or a configuration was stored, if there is no lease to run out.
AbandonedSessionEnds == ~connected /\ IsActive ~> ~IsActive

=============================================================================
