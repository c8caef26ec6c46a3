CONSTANTS
    Pids = {31, 32}
    Width = 32
SPECIFICATION FairSpec
PROPERTY SleeperIsWoken
