\* One user; a list that meets a cache without data is rejected for good.
CONSTANTS
  Call = {a, b}
  MaxUsers = 1
  MaxRetries = 1
  Null = Null
SPECIFICATION FairSpec
PROPERTY RejectionPasses
