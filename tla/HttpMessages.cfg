SPECIFICATION MCSpec
CONSTANTS
    MaxContent = 4
    MaxSecond = 1
    Boundary <- MCBoundary
    Messages <- MCMessages
INVARIANTS FormDataRight BodiesWhole AnswersFramed RequestsInStep TextsRight CallsArrive
PROPERTY ReadingEnds
CHECK_DEADLOCK FALSE
