SPECIFICATION ShellSpec
CONSTANTS
    Registry <- MCRegistry
    Results = {"PASS", "FAIL"}
    Domains <- MCDomains
    Entities <- MCEntities
    Levels <- MCLevels
    Capital <- MCCapital
    Hash <- MCHash
    MapSize = 8
    Beginnings <- MCBeginnings
    Atoi <- MCAtoi
    Width <- MCWidth
    PageSize = 80
    TestLines <- MCTestLines
    MenuLines <- MCMenuLines
    SettingLines <- MCSettingLines
    TabLines <- MCTabLines
    Begins <- MCBegins
    MaxSettings = 2
    Places = {"SYSTEM", "TEST_SYS"}
CHECK_DEADLOCK FALSE
INVARIANTS ScreenTrue MenuTrue OfferedIsAccepted ShownTrue
PROPERTIES BackClimbs LinesDoWhatTheySay
