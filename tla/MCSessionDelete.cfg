SPECIFICATION Spec
CONSTANTS ManyGroups = FALSE
          Late = {}
PROPERTY DeletionTimesOut
