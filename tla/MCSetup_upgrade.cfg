SPECIFICATION FairSpec
CONSTANTS
    n1 = n1
    n2 = n2
    anna = anna
    ben = ben
    builder = builder
    buyer = buyer
    press = press
    lathe = lathe
    drill = drill
    Pods = {p1, p2}
    Scripts = {s1, s2}
    Companies = {c1}
    Categories <- List2
    OldGrants <- Grants
    OldTags <- Tags
    NewTags <- Tagged
    OldTwins <- Twins
    None = None
    MaxFailures = 1
    MaxReverts = 1
INVARIANTS TypeOK UpgradesKeepWhatWasThere 
PROPERTY EveryPodStarts
CHECK_DEADLOCK FALSE
