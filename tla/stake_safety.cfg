SPECIFICATION Spec
CONSTANTS
    a = a
    b = b
    x = x
    y = y
    Node = {a, b}
    sorted_ids <- MCOrder
    Bodies = {x, y}
    Items = {1, 2}
    genesis_stakes <- MCGenesis
    Drafts <- MCDrafts
    min_stake = 1
    block_reward = 1
    digest <- MCDigest
    sorts_before <- MCSortsBefore
    MaxHeight = 2
    MaxCrashes = 1
INVARIANTS TypeOK ChainsValid  StakesReplayed ChoiceOrderFree RefusedForOthersOnly
PROPERTIES StakeScoreGrows
CHECK_DEADLOCK FALSE
