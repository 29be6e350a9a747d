SPECIFICATION MCSpec
CONSTANTS
    W = 4
    LIMBS = 3
    PRIME_DIFF = 3
    Data = {1, 2, 3}
    Element <- MCElement
    MaxOps = 4
    U64 = 16
    MAX_SOMPI = 9
    TX_VERSION = 0
    LOCK_TIME_THRESHOLD = 5
    LOCK_MASK = 4
    max_tx_inputs = 2
    max_tx_outputs = 3
    max_signature_script_len = 2
    max_script_public_key_len = 3
    ghostdag_k = 1
    spk_max_len = 2
    coinbase_maturity = 1
    max_block_mass = 3800
    mass_per_tx_byte = 1
    mass_per_script_pub_key_byte = 10
    mass_per_sig_op = 1000
    BYTE = 4
    SIZE_U64 = 2
    max_coinbase_payload_len = 10
    deflationary_phase_daa_score = 4
    pre_deflationary_phase_base_subsidy = 7
    SECONDS_PER_MONTH = 2
    SUBSIDY_BY_MONTH_TABLE <- MCTable
    Outpoints = {o1, o2}
    Scores = {1, 2, 3}
    DIGIT = 2
    LETTERS = 1
    U8 = 2
    U16 = 3
    I64 = 2
    None = None
INVARIANTS
    ArithmeticExact
    MuHashExact
    AddressDetects
    HashesExact
    ParallelSound
    LocksMonotone
    CoinbaseAccepted
    WireFaithful
    DiffExact
    NeverFails
    QueriesExact
CHECK_DEADLOCK FALSE
