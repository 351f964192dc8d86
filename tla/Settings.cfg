SPECIFICATION SettingsFairSpec
CONSTANTS
    Groups <- AllGroups
    Absent <- NoLine
    SmallScreen = FALSE
INVARIANTS
    NothingToLose
    ShownIsSet
    AutosaveArmed
PROPERTIES
    Restored
    NightFollows
