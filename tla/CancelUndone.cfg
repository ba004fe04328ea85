SPECIFICATION Spec
CONSTANTS
    Trial = {1}
    Experiment = {1}
    ExpOf <- OneExperiment
    MaxManagerCrashes = 0
    MaxApiCrashes = 0
    MaxKills = 0
PROPERTY CancelIsForever
