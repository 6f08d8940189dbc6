SPECIFICATION WebFormsSpec
CONSTANTS
    MaxOpenings = 3
    Submissions = {1, 2}
    Reads = {1, 2}
    Changes = {1, 2}
    MaxReads = 3
    Fields = {"f", "g"}
    MaxSaves = 4
    Pages = {"a", "b"}
    Desktops = {"b"}
    Challenges = {1}
    Verifies = {1, 2}
    MaxVersion = 5
    MaxFailures = 2
INVARIANTS
    DialogsAreTrue
    ViewsAreCurrent
    SettingsAreTrue
    SecondFactorIsTrue
CHECK_DEADLOCK FALSE
