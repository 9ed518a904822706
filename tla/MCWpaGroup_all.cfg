CONSTANTS
    s1 = s1
    s2 = s2
    Stations = {s1, s2}
    MaxGtk = 3
    UpdateCount = 2
    Envs <- AllEnvs
SPECIFICATION FairSpec
INVARIANTS TypeOK CountMatches SwitchWhenDone WaitHasTimer
PROPERTIES UpdateDelivers RekeyCompletes
