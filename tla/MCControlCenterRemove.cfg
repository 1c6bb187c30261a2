SPECIFICATION Spec
CONSTANTS
  Panels <- Appearances
  Config <- MCRemoving
INVARIANT RemoveHasASelection
CHECK_DEADLOCK FALSE
