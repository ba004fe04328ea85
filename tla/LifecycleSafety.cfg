SPECIFICATION Spec
CONSTANTS
    Trial = {1, 2}
    Experiment = {1}
    ExpOf <- OneExperiment
    MaxManagerCrashes = 1
    MaxApiCrashes = 0
    MaxKills = 0
INVARIANTS
    NeverRerun
    CompletedIsDone
    CancelDrainsPlan
    OnlyLostAreReaped
PROPERTIES
    TerminalIsFinal
    UnlaunchedOnlyCancelled
