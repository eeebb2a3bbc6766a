SPECIFICATION FairSpec
CONSTANTS
    Objects = {o1, o2, o3}
    Workers = 2
    Capacity = 2
    MaxWrites = 1
    MaxFaults = 2
    Clouds = {"gcp", "yc"}
    Locations = {"here"}
    Region = "here"
    Asked <- EachCloud
    MaxEdits = 1
INVARIANTS
    TypeOK
    ReadyMeansInForce
    TasksEndWithTheCall
    ListedAreDeleted
    KeysAreAccountedFor
PROPERTIES
    LeavesAloneWhatIsInForce
    DeletionEmpties
CHECK_DEADLOCK FALSE
