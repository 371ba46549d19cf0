SPECIFICATION Spec
CONSTANTS
    Columns = 3
    Rows = 3
    MaxWindows = 2
    Shapes <- Squares
    MinWidth = 2
    MinHeight = 2
    Capacity = 4
    Budget = 1
    MaxSmeared = 1
INVARIANTS
    ScreenShowsTheWindows
    ImageIsCurrent
    ClicksFitTheirWindow
