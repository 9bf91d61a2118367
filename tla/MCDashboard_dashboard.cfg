SPECIFICATION FairSpec
CONSTANTS
    pip = pip
    npm = npm
    conan = conan
    mine = mine
    x = x
    y = y
    z = z
    w = w
    Name <- Names
    Within <- Parts
    Path = {x, y, z, w}
    Nowhere = Nowhere
    Acceptable = {x, y, z}
    PluginName = {pip, npm, conan, mine}
    Variable = {"UNSET", "SET"}
    Environment <- Env
    Builtin <- Table
    Installed = {pip}
    Watched = {mine}
    Entry = {1, 2, 3}
    Below <- Tree
    Contents <- Kinds
    Setups <- AllSetups
    Sessions <- AllSessions
    Heights <- Lines
    ViewportHeight = 2
    MaxRecommendations = 2
    MaxInput = 2
INVARIANTS
    TypeOK
    OneOwnerPerName
    PluginsIsolated
    ResultsFollowCatalogue
    InRange
    Obeys
PROPERTIES
    MeasuredExactly
    QuitLeaves
    AutoRefreshes
