\* One job, two dispatch_wait calls, one subscription, with fairness: the server may
\* end and start again, the channel may be on or off.
SPECIFICATION RFairSpec
CONSTANTS
    NoFile = NoFile
    NoCall = NoCall
    NoKey = NoKey
    Jobs = {j1}
    Inbox = {j1}
    Calls = {c1, c2}
    Uris = {u1}
    MaxEnds = 1
    Revivable = {}
INVARIANTS RTypeOK ChannelTellsOnce
PROPERTIES AnswersCome UpdatesReach ChannelTells
