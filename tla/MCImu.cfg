\* The FIFO holds three sets and has room for half a one, as that of the code does for
\* 682 and two thirds; the word count has eight values, more than the FIFO has words.
\* The watermarks are two sets, and five sets of which the registers keep the bits
\* that mean one; a failed burst has taken nothing or all of its words.
CONSTANTS
    W = 2
    Depth = 7
    Levels = 8
    LowMod = 4
    HighMod = 2
    WtmCap = 15
    Setups <- MCSetups
    WakeRange = 4
    MaxSets = {1, 2}
    Torn = {0, 2}
    WholeSets = TRUE
    Prompt = TRUE

SPECIFICATION FairImuSpec
VIEW MCView
INVARIANT ReadingsTrue
PROPERTY EdgeAnswered
