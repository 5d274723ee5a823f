SPECIFICATION FairSpec
CONSTANTS
    c1 = c1
    c2 = c2
    pub = pub
    h1 = h1
    h2 = h2
    Units = {c1, c2}
    Pubs = {pub}
    PubOf <- MCPubOf
    Rank <- MCRank
    Requests = {h1}
    MaxFaults <- RestartAndDrop
PROPERTIES QueueDrains
