\* What the second link is: a name of the file, not of its name.
CONSTANTS
  Root = "root"
  Home = "home"
  Dir = {"root", "home", "sub"}
  Name = {"x"}
  Trees <- EveryTree
  Rights <- AllOpen
  MaxOpen = 2
  MaxSaves = 1
SPECIFICATION Spec
INVARIANT SoftLinkFollowsName
