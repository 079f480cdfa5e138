SPECIFICATION Spec
CONSTANTS
    root = root
    flash = flash
    main = main
    lower = lower
    upper = upper
    Path = {main}
    Directory = {root, flash}
    Root = root
    Cwd = flash
    Base = {lower, upper}
    Unlisted = Unlisted
    Home <- MCHome
    FileNamed <- MCFileNamed
    Name <- MCName
    File = {f1, f2}
    Zero = zero
    Junk = junk
    Cell = {a, zero}
    NoFile = NoFile
    IntLimit = 2
    MaxSize = 2
    Offset <- MCOffset
    Block <- MCBlock
INVARIANTS TypeOK AnswersAreTrue
PROPERTIES ImplementsFileStore WritesLandWhereAsked
SYMMETRY Symmetry
