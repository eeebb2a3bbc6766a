SPECIFICATION FairSpec
CONSTANTS
    Objects = {o1}
    Workers = 1
    Capacity = 1
    MaxWrites = 0
    MaxFaults = 1
    Clouds = {"yc"}
    Locations = {"here", "elsewhere"}
    Region = "here"
    Asked <- Elsewhere
    MaxEdits = 0
PROPERTIES
    LocationIsTheSpecs
