SPECIFICATION FairSpec
CONSTANTS
  EnvFiles <- MCEnvFiles
  Usernames = {"admin", "ann"}
  CarTypes = {"suv", "van"}
  DemoFleet <- MCDemoFleet
  FleetSizes = {3}
  MaxUps = 3
  MaxEdits = 2
INVARIANT TypeOK
INVARIANT WebFindsItsTables
INVARIANT SuperusersComeFromDev
PROPERTY FleetEditsSurvive
PROPERTY AccountsSurvive
PROPERTY StartsEnd
