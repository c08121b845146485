SPECIFICATION Spec
CONSTANTS ManyGroups = TRUE
          Late = {"ClientLogin", "CharList", "CharDelete", "CharLogin", "CharLogout"}
INVARIANTS ScreenHasServer CreditedOwn InGameAccepted BlockedOnlyByLate
PROPERTIES LossReportedOrSwallowed WaitsEnd
