\* Every tree of four directories, which can have the name searched for: one
\* level deeper than the process can have directories open.
CONSTANTS
  Root = "root"
  Home = "home"
  Dir = {"root", "home", "sub", "deep"}
  Name = {"x", "hello_world.txt"}
  Trees <- EveryTree
  Rights <- OneClosed
  MaxOpen = 2
  MaxSaves = 1
SPECIFICATION Spec
INVARIANTS
  TypeOK
  CwdFollowsSearch
  SearchIsComplete
  LinksWhatWasFound
PROPERTY
  Ends
