SPECIFICATION Spec
CONSTANTS
    Name = {main, topic}
    Main = main
    Feature = {f}
    Hash = {h1, h2}
    None = none
    Label = {l}
    First = l
    MaxCommits = 5
INVARIANTS WalksAreRight
PROPERTIES NothingLost Implements
