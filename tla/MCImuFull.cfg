\* The FIFO holds twice as many words as the word count has values, as the 4096 words
\* of the header are to the 11 bits the driver reads.
CONSTANTS
    W = 2
    Depth = 8
    Levels = 4
    LowMod = 4
    HighMod = 2
    WtmCap = 15
    Setups <- MCSetups
    WakeRange = 4
    MaxSets = {1, 2}
    Torn = {0, 2}
    WholeSets = TRUE
    Prompt = TRUE

SPECIFICATION FairImuSpec
VIEW MCView
PROPERTY EdgeAnswered
