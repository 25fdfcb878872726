\* Two sessions with a process each, over any number of boots.
CONSTANTS
    s1 = s1
    s2 = s2
    none = none
    SessionIds = {s1, s2}
    Absent = none
    ProgramIds = {"g", "h"}
    Blank = ""
    Texts <- MCTexts
    Configs <- MCConfigs
SPECIFICATION Spec
INVARIANTS HandlesUnique NameSurvives BoundForLife
