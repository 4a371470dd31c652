SPECIFICATION FairSpec
CONSTANTS
    MaxTxs = 4
    Plans <- AllPlans
    Platforms = {"Evm", "Celo", "Solana", "Cosmwasm"}
INVARIANTS
    HashesComplete
    OrderedExecution
    EvmStopsAtFailure
PROPERTIES
    ImplementsSubmission
    CallEnds
CHECK_DEADLOCK FALSE
