SPECIFICATION Spec
CONSTANTS
    c1 = c1
    c2 = c2
    pub = pub
    h1 = h1
    h2 = h2
    Units = {c1}
    Pubs = {pub}
    PubOf <- OnePubOf
    Rank <- OneRank
    Requests = {h1}
    MaxFaults <- NoFaults
PROPERTY OnlyPendingIsTaken
