SPECIFICATION FairSpec
CONSTANTS
    Trial = {1}
    Experiment = {1}
    ExpOf <- OneExperiment
    MaxManagerCrashes = 1
    MaxApiCrashes = 1
    MaxKills = 1
INVARIANT IInv
PROPERTIES
    ImplementsFunnel
    LaunchedSettles
    CancelSettles
    AnsweredSettles
    RunsEnd
