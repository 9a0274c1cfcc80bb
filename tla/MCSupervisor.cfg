CONSTANTS
  MaxBlocks = 2
  MaxPosts = 2
SPECIFICATION SupervisorSpec
PROPERTY
  ValidatorProduces
CHECK_DEADLOCK FALSE
