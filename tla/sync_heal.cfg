SPECIFICATION FairSpec
CONSTANTS
    a = a
    b = b
    c1 = c1
    App = App
    Node = {a, b}
    Miner = {a, b}
    Conn = {c1}
    x = x
    y = y
    Bodies = {x, y}
    LeadingZeros <- MCLeadingZeros
    initial_difficulty = 1
    adjustment_interval = 10
    target_block_time_seconds = 1
    factor_num = 2
    factor_den = 1
    max_mining_iterations = 1
    dialer <- MCDialer
    acceptor <- MCAcceptor
    chain_sync_batch_size <- Batch2
    chain_sync_max_blocks = 3
    MaxTime = 0
    MaxHeight = 2
    MaxSyncCalls = 0
    MaxFailures = 0
PROPERTIES Converge
CHECK_DEADLOCK FALSE
