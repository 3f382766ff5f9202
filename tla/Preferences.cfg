SPECIFICATION PreferencesSpec
CONSTANTS
    never = never
    often = often
    wanted = wanted
    film = film
    music = music
    young = young
    Options = {never, often, wanted, film, music, young}
    Deprecated = {music}
    Codes = {"DRINKING", "INTEREST", "AGE_PREFERENCE"}
    CodeOf <- Types
    MaximumChoiceCount <- Maximum
    Hidden <- Names
    Gender = "FEMALE"
    Orders <- Lists
    Requests = {r1, r2, r3}
    NoRequest = NoRequest
INVARIANTS
    LastRequestKept
    OneAdditional
SYMMETRY Symmetry
CHECK_DEADLOCK FALSE
