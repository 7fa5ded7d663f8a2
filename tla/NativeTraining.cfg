SPECIFICATION Spec
CONSTANTS
  Phases <- Chain
  Budget <- Budgets
  Seeds = {0, 1, 2}
  Domains <- Domains2
  Rank <- RankOf
  Weight <- WeightOf
  Bucket <- BucketOf
  Length <- LengthOf
  Targets <- TargetsOf
  Windowable <- Documents
  InputBatch = 8
  SaveEvery = 2
  Shuffle <- Shuffled2
  Context <- Contexts
  Sparse <- Sparse2
  None = None
  MaxCrashes = 1
  MaxRequests = 1
  text = text
  vision = vision
  essay = essay
  note = note
  reply = reply
  caption = caption
INVARIANTS Replays TargetsOnce MixtureHeld
