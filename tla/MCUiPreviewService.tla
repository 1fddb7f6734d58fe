------------------------ MODULE MCUiPreviewService ------------------------
(***************************************************************************)
(* Instances of UiPreviewService for TLC.                                  *)
(***************************************************************************)
EXTENDS UiPreviewService, TLC

\* Configurations, tokens and handlers are only compared, so any of them may
\* take another's place (safety runs only).
Symmetry == Permutations(Config) \cup Permutations(Token) \cup Permutations(Handler)

\* What CloseLocked() and DropStage() leave in the session is never read again:
\* Begin() and the chunk at offset 0 set it, and is_pinned_ is compared only
\* while the session is fresh.  States that differ in nothing else are one.
LiveView ==
    <<token, IsActive /\ is_fresh, IsActive /\ is_fresh /\ is_pinned, lease_out,
      rev, has_applied, has_navigated, is_applying, capacity, is_staging,
      IF is_staging THEN <<length, received, requested_rev>> ELSE <<>>,
      handlerVars, taskVars, config_at, modelVars, hostVars, notifyVars, connected>>
=============================================================================
