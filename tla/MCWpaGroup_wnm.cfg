CONSTANTS
    s1 = s1
    s2 = s2
    Stations = {s1, s2}
    MaxGtk = 2
    UpdateCount = 2
    Envs = {{"wnm"}}
SPECIFICATION Spec
INVARIANT CountExact
