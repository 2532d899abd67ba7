SPECIFICATION Spec
CONSTANTS
    a = a
    b = b
    c1 = c1
    App = App
    Node = {a, b}
    Miner = {a, b}
    Conn = {c1}
    x = x
    y = y
    Bodies = {x}
    LeadingZeros <- MCLeadingZeros
    initial_difficulty = 1
    adjustment_interval = 2
    target_block_time_seconds = 2
    factor_num = 2
    factor_den = 1
    max_mining_iterations = 4
    dialer <- MCDialer
    acceptor <- MCAcceptor
    chain_sync_batch_size <- Batch2
    chain_sync_max_blocks = 2
    MaxTime = 2
    MaxHeight = 3
    MaxSyncCalls = 0
    MaxFailures = 0
INVARIANTS ChainsValid
PROPERTIES ScoreGrows
CHECK_DEADLOCK FALSE
