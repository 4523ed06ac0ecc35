CONSTANTS
  Size = 3
  DepLists <- FewLists
  Cuts <- AnySteps
SPECIFICATION ValidationSpec
INVARIANT ReferencesResolve
INVARIANT OnlyNecessaryCuts
\* A plan is validated once.
CHECK_DEADLOCK FALSE
