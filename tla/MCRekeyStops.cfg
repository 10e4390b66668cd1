SPECIFICATION FairSpec
CONSTANTS
    None = None
    NSites = 3
    Dialled = {1}
    StopAt <- Anywhere
    MaxKeys = 5
    MaxMishaps = 1
PROPERTIES
    StoppedRunResumes
