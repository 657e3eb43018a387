SPECIFICATION Spec
CONSTANTS
  Unset = Unset
  Junk = Junk
  na = na
  nb = nb
  Name = {na, nb}
  Page = 2
  Order <- CollectionOrder
  FoldOf <- CollectionFolds
  Copied <- CopiedPaths
  MaxActs = 2
  PruneOrder <- ListedConversations
  Cutoff = 2
CHECK_DEADLOCK FALSE
INVARIANTS
  ServingRules ClientRules ProfileRules KnowledgeRules SkillRules
  ShownRules NativeRules VerbRules
